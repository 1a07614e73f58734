------------------------------ MODULE SessionLog ------------------------------
(* The Session store as an implementation of DurableLog: what its files,      *)
(* together, say of the log and of the version of the Session.                *)
EXTENDS SessionStore, FiniteSetsExt

\* The events of the journal that are in the file come first.
Written ==
  CHOOSE n \in 0..Len(journal.events) :
    \A k \in DOMAIN journal.events : k <= n <=> journal.events[k].seq <= LastSequence

Rest == SubSeq(journal.events, Written + 1, Len(journal.events))

\* The log is what the history holds or will hold once the journal is done
\* (recoverJournalLocked); it is sure up to its last event reported as committed.
Log == file \o Rest
Sure == Max({0} \cup {k \in DOMAIN file : file[k].id \in acked})

Abstract ==
  INSTANCE DurableLog WITH log <- Log, version <- Effective.ver, sure <- Sure

\* The store is atomic: behind its files, retries and crashes its callers see one
\* log that only grows and a Session version that goes with it (CommitEvents,
\* recoverJournalLocked).
ImplementsDurableLog == Abstract!Spec
=============================================================================
