----------------------------- MODULE SessionStore -----------------------------
(***************************************************************************)
(* The Session store (src/internal/session/session.go) for one session:    *)
(* four files on disk, the sequence counter and the pending events in      *)
(* memory, and the operations that commit to them through a journal.       *)
(* An operation holds the store's mutex from its first step to its last;   *)
(* what interleaves with its steps is a failing file operation, a crash of *)
(* the process, and a Load, which reads the checkpoint after releasing the *)
(* mutex.  Other sessions only share the mutex and are left out, and so is *)
(* summary.md, which is written beside the checkpoint and read by nobody.  *)
(***************************************************************************)
EXTENDS Naturals, Sequences

CONSTANTS
  MaxModelCalls,  \* the Run's model-call budget
  MaxEvents,      \* bound: events ever emitted
  MaxVersions,    \* bound: state changes of the owner
  MaxFaults,      \* bound: failing file operations and crashes
  DetachedEvents, \* whether workers relay events beside the owner's commits
  ShortWrites     \* whether a failing append may leave half a line behind

ASSUME StoreAssumption ==
  /\ {MaxModelCalls, MaxEvents, MaxVersions, MaxFaults} \subseteq Nat
  /\ {DetachedEvents, ShortWrites} \subseteq BOOLEAN

VARIABLES
  journal,   \* commit.json
  ckpt,      \* session.json
  file,      \* events.jsonl
  torn,      \* events.jsonl ends in half a line
  counter,   \* Store.sequences
  pending,   \* Store.pending
  owner,     \* the Session the Run works on, in memory
  holder,    \* the operation that holds Store.mu
  stage,     \* what it does next
  extra,     \* the detached event it commits
  left,      \* events of the journal it has not looked at
  last,      \* the last sequence it found in events.jsonl
  reader,    \* where a Load stands
  loaded,    \* what the last Load returned
  issued,    \* events emitted so far
  acked,     \* events reported as committed
  made,      \* model calls entered after a reservation
  faults

disk == <<journal, ckpt, file, torn>>
memory == <<counter, pending, owner>>
lock == <<holder, stage, extra, left, last>>
load == <<reader, loaded>>
ghost == <<issued, acked, made>>
vars == <<journal, ckpt, file, torn, counter, pending, owner, holder, stage,
          extra, left, last, reader, loaded, issued, acked, made, faults>>

None == "none"

\* What a Session is to the store: ver grows with every change its owner
\* makes, calls is Run.ModelCalls and next is NextEventSequence.
Session == [ver : Nat, calls : Nat, next : Nat]

NoSession == [ver |-> 0, calls |-> 0, next |-> 0]

\* An event, with the version of the Session it reports about.
Event == [id : Nat \ {0}, seq : Nat \ {0}, ver : Nat]

NoJournal == [state |-> NoSession, events |-> <<>>]

Bigger(a, b) == IF a < b THEN b ELSE a

\* Mutant: the scan finds nothing.
NoLastSequence == 0

\* lastEventSequence reads the whole file.
LastSequence ==
  CHOOSE m \in {0} \cup {file[k].seq : k \in DOMAIN file} :
    \A k \in DOMAIN file : file[k].seq <= m

-----------------------------------------------------------------------------
(* Operations take the mutex.                                              *)

Take(op, first) == holder = None /\ holder' = op /\ stage' = first

\* sequenceEventLocked: an unsequenced event takes the next number.
NewEvent(n, version) == [id |-> issued + n, seq |-> counter + n, ver |-> version]

\* Mutant: the checkpoint is not told how far the numbers got.
Unsequenced(state, number) == state

\* commitLocked: the checkpoint and the counter agree on the larger number.
Sequenced(state, number) == [state EXCEPT !.next = Bigger(number, @)]

\* CommitEvents with n events, or Save when there is none: the owner has
\* changed its Session and commits it with whatever is still pending.
Commit(n) ==
  /\ owner # NoSession /\ owner.ver < MaxVersions /\ issued + n <= MaxEvents
  /\ Take("commit", "journal")
  /\ LET version == owner.ver + 1
     IN /\ pending' = pending \o [k \in 1..n |-> NewEvent(k, version)]
        /\ owner' = Sequenced([owner EXCEPT !.ver = version], counter + n)
  /\ counter' = owner'.next
  /\ issued' = issued + n
  /\ UNCHANGED <<extra, left, last, acked, made, faults>>
  /\ UNCHANGED disk /\ UNCHANGED load

\* Mutant: the increment is not part of what is committed.
ReserveInMemory ==
  /\ owner # NoSession /\ made < MaxModelCalls
  /\ Take("reserve", "journal")
  /\ owner' = Sequenced(owner, counter)
  /\ counter' = owner'.next
  /\ UNCHANGED <<pending, extra, left, last, faults>>
  /\ UNCHANGED disk /\ UNCHANGED load /\ UNCHANGED ghost

\* ReserveModelCall, unless the budget is spent.
Reserve ==
  /\ owner # NoSession /\ owner.calls < MaxModelCalls
  /\ Take("reserve", "journal")
  /\ owner' = Sequenced([owner EXCEPT !.calls = @ + 1], counter)
  /\ counter' = owner'.next
  /\ UNCHANGED <<pending, extra, left, last, faults>>
  /\ UNCHANGED disk /\ UNCHANGED load /\ UNCHANGED ghost

\* Mutant: a journal that is found is left alone.
NeverRecovering == "read"

\* CommitDetachedEvent and Load first finish the journal they find.
Recovering == IF journal = NoJournal THEN "read" ELSE "checkpoint"

Detach ==
  /\ DetachedEvents /\ owner # NoSession /\ issued < MaxEvents
  /\ Take("detached", Recovering)
  /\ UNCHANGED <<extra, left, last, faults>>
  /\ UNCHANGED disk /\ UNCHANGED memory /\ UNCHANGED load /\ UNCHANGED ghost

Load ==
  /\ reader = "idle"
  /\ Take("load", Recovering)
  /\ UNCHANGED <<extra, left, last, faults>>
  /\ UNCHANGED disk /\ UNCHANGED memory /\ UNCHANGED load /\ UNCHANGED ghost

\* With the journal gone, a detached event is numbered and committed with
\* the checkpoint that is on disk.
DetachedCommit ==
  /\ holder = "detached" /\ stage = "read"
  /\ extra' = <<NewEvent(1, ckpt.ver)>>
  /\ counter' = Bigger(counter + 1, ckpt.next)
  /\ issued' = issued + 1
  /\ stage' = "journal"
  /\ UNCHANGED <<pending, owner, holder, left, last, acked, made, faults>>
  /\ UNCHANGED disk /\ UNCHANGED load

-----------------------------------------------------------------------------
(* The stages of a commit.                                                 *)

Batch ==
  [state  |-> IF holder = "detached" THEN Sequenced(ckpt, counter) ELSE owner,
   events |-> pending \o extra]

\* The mutex is released and the caller has its result.
Release == holder' = None /\ stage' = "idle" /\ extra' = <<>> /\ left' = <<>>

\* Mutant: every failure takes a reservation back.
TakeBackAlways == owner' = [owner EXCEPT !.calls = @ - 1]

TakeBack ==
  owner' = IF holder = "reserve" THEN [owner EXCEPT !.calls = @ - 1] ELSE owner

\* An operation fails: its events stay pending, a reservation is taken back,
\* and a detached event is dropped.
Fail ==
  /\ Release /\ TakeBack
  /\ loaded' = IF holder = "load" THEN "failed" ELSE loaded
  /\ UNCHANGED <<last, counter, pending, issued, acked, made>>

WriteJournal ==
  /\ stage = "journal"
  /\ journal' = Batch
  /\ stage' = "checkpoint"
  /\ UNCHANGED <<ckpt, file, torn, holder, extra, left, last, faults>>
  /\ UNCHANGED memory /\ UNCHANGED load /\ UNCHANGED ghost

\* A reader that has looked at the old file finds another one in its place.
Replaced == reader' = IF reader = "statted" THEN "replaced" ELSE reader

\* Mutant: a recovery only replays the events.
WriteCheckpointOfCommit ==
  /\ stage = "checkpoint"
  /\ ckpt' = IF holder = "load" THEN ckpt ELSE journal.state
  /\ stage' = IF journal.events = <<>> THEN "remove" ELSE "scan"
  /\ Replaced
  /\ UNCHANGED <<journal, file, torn, holder, extra, left, last, loaded, faults>>
  /\ UNCHANGED memory /\ UNCHANGED ghost

WriteCheckpoint ==
  /\ stage = "checkpoint"
  /\ ckpt' = journal.state
  /\ stage' = IF journal.events = <<>> THEN "remove" ELSE "scan"
  /\ Replaced
  /\ UNCHANGED <<journal, file, torn, holder, extra, left, last, loaded, faults>>
  /\ UNCHANGED memory /\ UNCHANGED ghost

\* appendEventsIdempotent: what is already in the file is passed over.
ScanEvents ==
  /\ stage = "scan" /\ ~torn
  /\ last' = LastSequence /\ left' = journal.events
  /\ stage' = "append"
  /\ UNCHANGED <<holder, extra, faults>>
  /\ UNCHANGED disk /\ UNCHANGED memory /\ UNCHANGED load /\ UNCHANGED ghost

\* Half a line is a corrupt event history.
ScanRefused ==
  /\ stage = "scan" /\ torn
  /\ Fail
  /\ UNCHANGED disk /\ UNCHANGED <<reader, faults>>

AppendEvent ==
  /\ stage = "append" /\ left # <<>>
  /\ file' = IF Head(left).seq > last THEN Append(file, Head(left)) ELSE file
  /\ left' = Tail(left)
  /\ UNCHANGED <<journal, ckpt, torn, holder, stage, extra, last, faults>>
  /\ UNCHANGED memory /\ UNCHANGED load /\ UNCHANGED ghost

AppendDone ==
  /\ stage = "append" /\ left = <<>>
  /\ stage' = "remove"
  /\ UNCHANGED <<holder, extra, left, last, faults>>
  /\ UNCHANGED disk /\ UNCHANGED memory /\ UNCHANGED load /\ UNCHANGED ghost

Ids(events) == {events[k].id : k \in DOMAIN events}

\* The journal is removed.  That ends a commit; a recovery goes on with what
\* it was for.
RemoveJournal ==
  /\ stage = "remove"
  /\ journal' = NoJournal
  /\ IF holder = "load" \/ (holder = "detached" /\ extra = <<>>)
     THEN /\ stage' = "read" /\ left' = <<>>
          /\ UNCHANGED <<holder, extra, pending, acked, made>>
     ELSE /\ Release
          /\ pending' = <<>>
          /\ acked' = acked \cup Ids(journal.events)
          /\ made' = IF holder = "reserve" THEN made + 1 ELSE made
  /\ UNCHANGED <<ckpt, file, torn, counter, owner, last, issued, faults>>
  /\ UNCHANGED load

-----------------------------------------------------------------------------
(* Load reads the checkpoint without the mutex.                            *)

LoadUnlock ==
  /\ holder = "load" /\ stage = "read"
  /\ Release
  /\ reader' = "unlocked"
  /\ UNCHANGED <<last, loaded, faults>>
  /\ UNCHANGED disk /\ UNCHANGED memory /\ UNCHANGED ghost

\* The file is looked at before it is opened, and again afterwards.
LoadStat ==
  /\ reader = "unlocked" /\ reader' = "statted"
  /\ UNCHANGED <<loaded, faults>>
  /\ UNCHANGED disk /\ UNCHANGED memory /\ UNCHANGED lock /\ UNCHANGED ghost

\* Mutant: Load leaves the counter alone.
LoadReadUnseeded ==
  /\ reader = "statted"
  /\ reader' = "idle" /\ loaded' = "ok"
  /\ owner' = IF owner = NoSession THEN ckpt ELSE owner
  /\ UNCHANGED <<counter, pending, faults>>
  /\ UNCHANGED disk /\ UNCHANGED lock /\ UNCHANGED ghost

\* The Run of a restarted process works on what this Load returns.
LoadRead ==
  /\ reader = "statted"
  /\ reader' = "idle" /\ loaded' = "ok"
  /\ owner' = IF owner = NoSession THEN ckpt ELSE owner
  /\ counter' = Bigger(counter, ckpt.next)
  /\ UNCHANGED <<pending, faults>>
  /\ UNCHANGED disk /\ UNCHANGED lock /\ UNCHANGED ghost

\* "Session Store file changed during safe open"
LoadReplaced ==
  /\ reader = "replaced"
  /\ reader' = "idle" /\ loaded' = "replaced"
  /\ UNCHANGED faults
  /\ UNCHANGED disk /\ UNCHANGED memory /\ UNCHANGED lock /\ UNCHANGED ghost

-----------------------------------------------------------------------------
(* Faults.                                                                 *)

Fault == faults < MaxFaults /\ faults' = faults + 1

\* A file operation fails, before or after it took effect.
JournalFails ==
  /\ stage = "journal" /\ Fault
  /\ journal' \in {journal, Batch}
  /\ Fail
  /\ UNCHANGED <<ckpt, file, torn, reader>>

CheckpointFails ==
  /\ stage = "checkpoint" /\ Fault
  /\ \/ ckpt' = ckpt /\ UNCHANGED reader
     \/ ckpt' = journal.state /\ Replaced
  /\ Fail
  /\ UNCHANGED <<journal, file, torn>>

AppendFails ==
  /\ stage \in {"scan", "append"} /\ Fault
  /\ torn' = IF ShortWrites /\ left # <<>> THEN TRUE ELSE torn
  /\ Fail
  /\ UNCHANGED <<journal, ckpt, file, reader>>

RemoveFails ==
  /\ stage = "remove" /\ Fault
  /\ journal' \in {journal, NoJournal}
  /\ Fail
  /\ UNCHANGED <<ckpt, file, torn, reader>>

\* The process dies: only the files are left.
Crash ==
  /\ Fault
  /\ counter' = 0 /\ pending' = <<>> /\ owner' = NoSession
  /\ Release /\ last' = 0
  /\ reader' = "idle" /\ loaded' = None
  /\ UNCHANGED disk /\ UNCHANGED ghost

-----------------------------------------------------------------------------
\* The session was created by a Save that succeeded.
Init ==
  /\ journal = NoJournal
  /\ ckpt = [ver |-> 1, calls |-> 0, next |-> 0] /\ file = <<>> /\ torn = FALSE
  /\ counter = 0 /\ pending = <<>> /\ owner = ckpt
  /\ holder = None /\ stage = "idle" /\ extra = <<>> /\ left = <<>> /\ last = 0
  /\ reader = "idle" /\ loaded = None
  /\ issued = 0 /\ acked = {} /\ made = 0 /\ faults = 0

Holder ==
  \/ DetachedCommit \/ WriteJournal \/ WriteCheckpoint \/ ScanEvents
  \/ ScanRefused \/ AppendEvent \/ AppendDone \/ RemoveJournal \/ LoadUnlock

Reader == LoadStat \/ LoadRead \/ LoadReplaced

Faulty ==
  JournalFails \/ CheckpointFails \/ AppendFails \/ RemoveFails \/ Crash

Next ==
  \/ \E n \in 0..2 : Commit(n)
  \/ Reserve \/ Detach \/ Load
  \/ Holder \/ Reader \/ Faulty

\* The holder of the mutex and a reader keep going, and sooner or later
\* somebody loads the session: a restart does, and so does every request.
Spec ==
  /\ Init /\ [][Next]_vars
  /\ WF_vars(Holder) /\ WF_vars(Reader) /\ SF_vars(Load)

-----------------------------------------------------------------------------
(* Properties.                                                             *)

\* Every variable has its type.
TypeOK ==
  /\ journal \in [state : Session, events : Seq(Event)]
  /\ ckpt \in Session /\ file \in Seq(Event) /\ torn \in BOOLEAN
  /\ counter \in Nat /\ pending \in Seq(Event) /\ owner \in Session
  /\ holder \in {None, "commit", "reserve", "detached", "load"}
  /\ stage \in {"idle", "journal", "checkpoint", "scan", "append", "remove", "read"}
  /\ extra \in Seq(Event) /\ left \in Seq(Event) /\ last \in Nat
  /\ reader \in {"idle", "unlocked", "statted", "replaced"}
  /\ loaded \in {None, "ok", "failed", "replaced"}
  /\ issued \in Nat /\ acked \subseteq Nat /\ made \in Nat /\ faults \in Nat

\* What a Load would find after finishing the journal.
Effective == IF journal = NoJournal THEN ckpt ELSE journal.state

\* The event history has every event once and in the order of the sequence
\* numbers, whatever was retried or recovered (appendEventsIdempotent).
EventsInOrder ==
  \A j, k \in DOMAIN file : j < k => file[j].seq < file[k].seq

\* An event reported as committed is in the history and stays there, through
\* failing operations and crashes (CommitEvents, CommitDetachedEvent).
AckedIsDurable == acked \subseteq Ids(file)

\* No event is in the history whose Session is not: what the event reports is
\* also what a Load returns (commitLocked, applyJournalLocked).
EventImpliesState == \A k \in DOMAIN file : file[k].ver <= Effective.ver

\* Every model call that was entered is counted on disk, so that neither a
\* failed reservation nor a crash gives a call away (ReserveModelCall).
CallsAreCounted == made <= Effective.calls /\ made <= MaxModelCalls

\* Sequence numbers are never handed out twice: the number a restarted store
\* goes on from covers the whole history (Load, commitLocked).
NumbersAreFresh ==
  /\ \A k \in DOMAIN file : file[k].seq <= Effective.next
  /\ owner # NoSession => \A k \in DOMAIN file : file[k].seq <= counter

\* Once the files stop failing, a journal left behind is finished
\* (recoverJournalLocked).
JournalIsFinished == journal # NoJournal ~> journal = NoJournal
=============================================================================
