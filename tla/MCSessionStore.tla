---------------------------- MODULE MCSessionStore ----------------------------
(* The Session store by itself, as the log SessionLog makes of it, and the    *)
(* store of a Team Run, whose workers commit events of their own.             *)
EXTENDS SessionLog

VARIABLE workers  \* whether a behaviour is of the second kind

allVars == <<vars, workers>>

Team ==
  INSTANCE SessionStore WITH
    MaxModelCalls <- 1, MaxEvents <- 3, MaxVersions <- 3, MaxFaults <- 2,
    DetachedEvents <- TRUE, ShortWrites <- FALSE

MCInit == Init /\ workers \in BOOLEAN

MCNext ==
  /\ UNCHANGED workers
  /\ \/ ~workers /\ Next
     \/ workers /\ Team!Next

\* The fairness of both.
MCSpec ==
  /\ MCInit /\ [][MCNext]_allVars
  /\ WF_allVars(UNCHANGED workers /\ IF workers THEN Team!Holder ELSE Holder)
  /\ WF_allVars(UNCHANGED workers /\ IF workers THEN Team!Reader ELSE Reader)
  /\ SF_allVars(UNCHANGED workers /\ IF workers THEN Team!Load ELSE Load)

-----------------------------------------------------------------------------
\* Without workers, no event is in the history whose Session is not
\* (commitLocked, applyJournalLocked).
CommitsImplyState == ~workers => EventImpliesState

\* With workers, and appends that fail as a whole, a journal left behind is
\* finished (recoverJournalLocked).
TeamJournalIsFinished == (workers /\ journal # NoJournal) ~> journal = NoJournal

Promise ==
  INSTANCE DurableLog WITH
    log     <- IF workers THEN <<>> ELSE Log,
    version <- IF workers THEN 1 ELSE Effective.ver,
    sure    <- IF workers THEN 0 ELSE Sure

\* Without workers the store is atomic: behind its files, retries and crashes
\* its callers see one log that only grows and a Session version that goes with
\* it (CommitEvents, recoverJournalLocked).
IsADurableLog == Promise!Spec
=============================================================================
