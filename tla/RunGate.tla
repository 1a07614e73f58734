-------------------------------- MODULE RunGate --------------------------------
(***************************************************************************)
(* How the control plane starts, resumes, approves, cancels and executes   *)
(* the Runs of one Session (src/internal/controlplane/runs.go), with the   *)
(* workspace gate that lets one of them execute, Store.Recover, the status *)
(* changes of the Runner, crashes and restarts.                            *)
(* A call reads its own copy of the Session and commits that copy later;   *)
(* nothing but the gate and runMu stands between two calls, or between a   *)
(* call and the Runner.  Running stands for running and verifying.         *)
(***************************************************************************)
EXTENDS Naturals

CONSTANTS
  Runs,       \* bound: the Runs the Session can ever have
  Callers,    \* the Owner's calls that can be under way together
  Operations, \* the operations they call
  Review,     \* whether the Session's plan mode is review
  Expiring,   \* whether a call may commit expired approvals before it launches
  MaxFaults,  \* bound: failing commits, crashes and restarts
  None

ASSUME GateAssumption ==
  /\ None \notin Runs
  /\ Operations \subseteq {"start", "resume", "approve", "cancel"}
  /\ {Review, Expiring} \subseteq BOOLEAN
  /\ MaxFaults \in Nat

VARIABLES
  disk,     \* the Session's checkpoint
  calls,    \* where each call stands
  gate,     \* Service.active: the workspace is taken
  target,   \* Service.activeRun
  runner,   \* the goroutine that executes a Run
  stopping, \* the Runner's context was cancelled
  other,    \* the gate is held for another Session or a one-shot run
  used,     \* the Runs created so far
  late,     \* the Runs whose deadline has passed
  accepted, \* the Runs whose plan the Owner asked to approve
  refused,  \* the Runs the Owner asked to cancel
  faults

owner == <<used, late, accepted, refused>>
vars == <<disk, calls, gate, target, runner, stopping, other, used, late,
          accepted, refused, faults>>

Terminal == {"completed", "failed", "cancelled"}
Alive == {"queued", "running"}
Statuses == Terminal \cup Alive \cup {"absent", "interrupted"}

Session == [status : [Runs -> Statuses], approved : SUBSET Runs,
            active : Runs \cup {None}]

NewSession == [status |-> [r \in Runs |-> "absent"], approved |-> {}, active |-> None]

Call == [op : Operations \cup {None}, want : Runs \cup {None},
         copy : Session, at : {"idle", "save", "approve", "launch", "cancel"}]

NoCall == [op |-> None, want |-> None, copy |-> NewSession, at |-> "idle"]

Runner == [run : Runs \cup {None}, copy : Session,
           at : {"idle", "launched", "executing", "ended"}]

NoRunner == [run |-> None, copy |-> NewSession, at |-> "idle"]

\* A Session whose active Run is over, or was created.
Ended(s, r, st) == [s EXCEPT !.status[r] = st, !.active = None]

\* Mutant: a new Run needs no approval.
NewRunApproved(s, r) ==
  [status |-> [s.status EXCEPT ![r] = "queued"],
   approved |-> s.approved \cup {r},
   active |-> r]

NewRun(s, r) ==
  [status |-> [s.status EXCEPT ![r] = "queued"],
   approved |-> IF Review THEN s.approved ELSE s.approved \cup {r},
   active |-> r]

\* Recover takes whatever the active Run did for interrupted.
Recovered(s) ==
  IF s.active # None /\ s.status[s.active] \in Alive
  THEN [s EXCEPT !.status[s.active] = "interrupted"] ELSE s

Awaits(s, r) == s.active = r /\ s.status[r] = "queued" /\ Review /\ r \notin s.approved

-----------------------------------------------------------------------------
(* The calls read the Session.                                             *)

Read(c, op, r, s, next) ==
  /\ calls[c] = NoCall
  /\ op \in Operations
  /\ calls' = [calls EXCEPT ![c] = [op |-> op, want |-> r, copy |-> s, at |-> next]]
  /\ UNCHANGED <<disk, gate, target, runner, stopping, other, used, late, faults>>

StartRun(c) ==
  /\ used # Runs
  /\ Read(c, "start", None, disk, "launch")
  /\ UNCHANGED <<accepted, refused>>

\* Recover reads the Session and saves it later, if the Run needs it.
ResumeRun(c, r) ==
  /\ r \in used
  /\ \/ Recovered(disk) # disk /\ Read(c, "resume", r, Recovered(disk), "save")
     \/ /\ disk.active = r /\ disk.status[r] = "interrupted"
        /\ Read(c, "resume", r, disk, "launch")
  /\ UNCHANGED <<accepted, refused>>

ApprovePlan(c, r) ==
  /\ disk.active = r /\ disk.status[r] = "queued" /\ Review
  /\ Read(c, "approve", r, disk, IF r \in disk.approved THEN "launch" ELSE "approve")
  /\ accepted' = accepted \cup {r}
  /\ UNCHANGED refused

CancelRun(c, r) ==
  /\ r \in used
  /\ Read(c, "cancel", r, disk, "cancel")
  /\ refused' = refused \cup {r}
  /\ UNCHANGED accepted

-----------------------------------------------------------------------------
(* They commit what they read.  A commit that fails may have had its effect. *)

Saved(s) == disk' = s /\ UNCHANGED faults

SaveFails(s) ==
  /\ faults < MaxFaults
  /\ faults' = faults + 1
  /\ disk' \in {disk, s}

Return(c) == calls' = [calls EXCEPT ![c] = NoCall]

At(c, next) == calls[c].at = next

Proceed(c, s) == calls' = [calls EXCEPT ![c].copy = s, ![c].at = "launch"]

RecoverSave(c) ==
  LET call == calls[c] IN
  /\ At(c, "save")
  /\ \/ Saved(call.copy) /\ call.copy.active = call.want /\ Proceed(c, call.copy)
     \/ Saved(call.copy) /\ call.copy.active # call.want /\ Return(c)
     \/ SaveFails(call.copy) /\ Return(c)
  /\ UNCHANGED <<gate, target, runner, stopping, other, owner>>

ApproveCommit(c) ==
  LET approved == [calls[c].copy EXCEPT !.approved = @ \cup {calls[c].want}] IN
  /\ At(c, "approve")
  /\ \/ Saved(approved) /\ Proceed(c, approved)
     \/ SaveFails(approved) /\ Return(c)
  /\ UNCHANGED <<gate, target, runner, stopping, other, owner>>

\* Approvals that a resume or a new configuration voids are committed before
\* the launch takes the gate.
CommitExpired(c) ==
  LET call == calls[c] IN
  /\ Expiring /\ At(c, "launch")
  /\ \/ Saved(call.copy) /\ UNCHANGED calls
     \/ SaveFails(call.copy) /\ Return(c)
  /\ UNCHANGED <<gate, target, runner, stopping, other, owner>>

\* Mutant: the Run to stop is taken for the active one.
CancelSignalsAny(c) ==
  /\ At(c, "cancel")
  /\ target # None
  /\ stopping' = (stopping \/ runner.at = "launched" \/ runner.run \notin late)
  /\ Return(c)
  /\ UNCHANGED <<disk, gate, target, runner, other, owner, faults>>

\* Cancelling a context whose deadline has passed changes nothing.
CancelSignals(c) ==
  /\ At(c, "cancel")
  /\ target = calls[c].want
  /\ stopping' = (stopping \/ runner.at = "launched" \/ runner.run \notin late)
  /\ Return(c)
  /\ UNCHANGED <<disk, gate, target, runner, other, owner, faults>>

CancelPlan(c) ==
  LET call == calls[c] IN
  /\ At(c, "cancel")
  /\ target # call.want
  /\ Awaits(call.copy, call.want)
  /\ \/ Saved(Ended(call.copy, call.want, "cancelled"))
     \/ SaveFails(Ended(call.copy, call.want, "cancelled"))
  /\ Return(c)
  /\ UNCHANGED <<gate, target, runner, stopping, other, owner>>

CancelConflict(c) ==
  LET call == calls[c] IN
  /\ At(c, "cancel")
  /\ target # call.want
  /\ ~Awaits(call.copy, call.want)
  /\ Return(c)
  /\ UNCHANGED <<disk, gate, target, runner, stopping, other, owner, faults>>

-----------------------------------------------------------------------------
(* The launch, under runMu: take the gate, commit the copy, start the      *)
(* Runner.                                                                 *)

\* The Session to commit and its active Run.
Launched(c, s, r) ==
  LET call == calls[c] IN
  IF call.op = "start"
  THEN call.copy.active = None /\ r \in Runs \ used /\ s = NewRun(call.copy, r)
  ELSE call.copy.active = r /\ s = call.copy

Sessions(c) ==
  {NewRun(calls[c].copy, r) : r \in Runs \ used} \cup {calls[c].copy}

Launch(c, s, r) ==
  /\ At(c, "launch")
  /\ ~gate
  /\ Launched(c, s, r)
  /\ used' = used \cup {r}
  /\ disk' = s
  /\ Return(c)

LaunchRunner(c) ==
  \E s \in Sessions(c), r \in Runs :
    /\ Launch(c, s, r)
    /\ ~Review \/ r \in s.approved
    /\ gate' = TRUE
    /\ target' = r
    /\ runner' = [run |-> r, copy |-> s, at |-> "launched"]
    /\ stopping' = FALSE
    /\ UNCHANGED <<other, late, accepted, refused, faults>>

\* Mutant: a plan that waits for review keeps the gate.
LaunchWaitsHolding(c) ==
  \E s \in Sessions(c), r \in Runs :
    /\ Launch(c, s, r)
    /\ Review /\ r \notin s.approved
    /\ gate' = TRUE
    /\ UNCHANGED <<target, runner, stopping, other, late, accepted, refused, faults>>

\* A plan that waits for review gives the gate back.
LaunchWaits(c) ==
  \E s \in Sessions(c), r \in Runs :
    /\ Launch(c, s, r)
    /\ Review /\ r \notin s.approved
    /\ UNCHANGED <<gate, target, runner, stopping, other, late, accepted, refused, faults>>

\* The gate is taken, the Session already has an active Run, or it has none.
LaunchRefused(c) ==
  /\ At(c, "launch")
  /\ gate \/ ~\E s \in Sessions(c), r \in Runs : Launched(c, s, r)
  /\ Return(c)
  /\ UNCHANGED <<disk, gate, target, runner, stopping, other, owner, faults>>

\* The checkpoint cannot be written; the gate is given back.
LaunchFails(c) ==
  \E s \in Sessions(c), r \in Runs :
    /\ At(c, "launch") /\ ~gate
    /\ Launched(c, s, r)
    /\ SaveFails(s)
    /\ used' = used \cup {r}
    /\ Return(c)
    /\ UNCHANGED <<gate, target, runner, stopping, other, late, accepted, refused>>

-----------------------------------------------------------------------------
(* The Runner works on the copy it was launched with and commits it; when  *)
(* a commit fails it returns.                                              *)

Commits(s, next) ==
  /\ \/ Saved(s) /\ runner' = [runner EXCEPT !.copy = s, !.at = next]
     \/ SaveFails(s) /\ runner' = [runner EXCEPT !.copy = s, !.at = "ended"]
  /\ UNCHANGED <<calls, gate, target, stopping, other, used, late, accepted, refused>>

As(st) == [runner.copy EXCEPT !.status[runner.run] = st]

Begin ==
  /\ runner.at = "launched"
  /\ runner.copy.status[runner.run] \in {"queued", "interrupted"}
  /\ Commits(As("running"), "executing")

\* Turns, tool calls, verification: each commits the copy as it stands.
Work ==
  /\ runner.at = "executing"
  /\ ~stopping /\ runner.run \notin late
  /\ Commits(runner.copy, "executing")

Finishes(st) == Commits(Ended(runner.copy, runner.run, st), "ended")

Complete == runner.at = "executing" /\ Finishes("completed")

FailRun == runner.at \in {"launched", "executing"} /\ Finishes("failed")

StopCancelled == runner.at = "executing" /\ stopping /\ Finishes("cancelled")

Interrupts(st) ==
  /\ runner.at = "executing" /\ runner.run \in late /\ ~stopping
  /\ Commits(As(st), "ended")

\* Mutant: a status no Session knows.
StopLateUnknown == Interrupts("timed_out")

StopLate == Interrupts("interrupted")

\* The last checkpoint, and the approvals that end with the Run.
SaveEnded ==
  /\ runner.at = "ended"
  /\ Commits(runner.copy, "ended")

\* Mutant: the active Run is not forgotten.
ReleaseGate ==
  /\ runner.at = "ended"
  /\ runner' = NoRunner
  /\ gate' = FALSE
  /\ stopping' = FALSE
  /\ UNCHANGED <<disk, calls, target, other, owner, faults>>

Release ==
  /\ runner.at = "ended"
  /\ runner' = NoRunner
  /\ gate' = FALSE
  /\ target' = None
  /\ stopping' = FALSE
  /\ UNCHANGED <<disk, calls, other, owner, faults>>

-----------------------------------------------------------------------------
(* The rest of the process.                                                *)

Deadline(r) ==
  /\ r \in used \ late
  /\ late' = late \cup {r}
  /\ UNCHANGED <<disk, calls, gate, target, runner, stopping, other, used,
                 accepted, refused, faults>>

TryAcquireRun ==
  /\ ~gate /\ gate' = TRUE /\ other' = TRUE
  /\ UNCHANGED <<disk, calls, target, runner, stopping, owner, faults>>

ReleaseRun ==
  /\ other /\ gate' = FALSE /\ other' = FALSE
  /\ UNCHANGED <<disk, calls, target, runner, stopping, owner, faults>>

\* The process stops; the next one recovers every Session before it serves.
Restart ==
  /\ faults < MaxFaults
  /\ faults' = faults + 1
  /\ disk' = Recovered(disk)
  /\ calls' = [c \in Callers |-> NoCall]
  /\ gate' = FALSE /\ target' = None /\ runner' = NoRunner /\ stopping' = FALSE
  /\ other' = FALSE
  /\ UNCHANGED owner

-----------------------------------------------------------------------------
Init ==
  /\ disk = NewSession
  /\ calls = [c \in Callers |-> NoCall]
  /\ gate = FALSE /\ target = None /\ runner = NoRunner /\ stopping = FALSE
  /\ other = FALSE
  /\ used = {} /\ late = {} /\ accepted = {} /\ refused = {}
  /\ faults = 0

CallStep(c) ==
  \/ StartRun(c)
  \/ \E r \in Runs : ResumeRun(c, r) \/ ApprovePlan(c, r) \/ CancelRun(c, r)
  \/ RecoverSave(c) \/ ApproveCommit(c) \/ CommitExpired(c)
  \/ CancelSignals(c) \/ CancelPlan(c) \/ CancelConflict(c)
  \/ LaunchRunner(c) \/ LaunchWaits(c) \/ LaunchRefused(c) \/ LaunchFails(c)

RunnerStep ==
  \/ Begin \/ Work \/ Complete \/ FailRun \/ StopCancelled \/ StopLate
  \/ SaveEnded \/ Release

Next ==
  \/ \E c \in Callers : CallStep(c)
  \/ RunnerStep
  \/ \E r \in Runs : Deadline(r)
  \/ TryAcquireRun \/ ReleaseRun \/ Restart

\* The Runner's goroutine is scheduled until it returns, clocks advance, and
\* a one-shot run ends.
Fairness ==
  /\ WF_vars(Begin) /\ WF_vars(StopCancelled) /\ WF_vars(StopLate) /\ WF_vars(Release)
  /\ \A r \in Runs : WF_vars(Deadline(r))
  /\ WF_vars(ReleaseRun)

Spec == Init /\ [][Next]_vars /\ Fairness

-----------------------------------------------------------------------------
(* Properties.                                                             *)

TypeOK ==
  /\ disk \in Session
  /\ calls \in [Callers -> Call]
  /\ gate \in BOOLEAN /\ stopping \in BOOLEAN /\ other \in BOOLEAN
  /\ target \in Runs \cup {None}
  /\ runner \in Runner
  /\ used \subseteq Runs /\ late \subseteq Runs
  /\ accepted \subseteq Runs /\ refused \subseteq Runs
  /\ faults \in 0..MaxFaults

\* The gate is closed exactly while something executes, never for two, and
\* the Run that cancel would hit is the one that executes: no early return
\* of the launch leaks the gate, and no Runner outlives it.
GateIsHeld ==
  /\ gate <=> (runner.at # "idle" \/ other)
  /\ ~(runner.at # "idle" /\ other)
  /\ target = runner.run
  /\ runner.run = None <=> runner.at = "idle"

\* A cancellation stops the Run it was asked for and no other.
CancelHitsItsRun ==
  [][stopping' /\ ~stopping => runner.run \in refused]_vars

\* Nothing executes a review plan that the Owner did not approve, whatever
\* the copies the calls hold.
OnlyApprovedRuns == Review /\ runner.at # "idle" => runner.run \in accepted

\* The workspace becomes free again.
GateOpens == gate ~> ~gate

\* A Run that was created stays in the Session.  With two calls it may not: the
\* later launch commits a Session that was read before the earlier Run was created
\* (launchSessionRunConfigured).
RunsAreKept ==
  [][\A r \in Runs : disk.status[r] # "absent" => disk'.status[r] # "absent"]_vars

\* A Run that was cancelled stays cancelled.
CancelledIsFinal ==
  [][\A r \in Runs : disk.status[r] = "cancelled" => disk'.status[r] = "cancelled"]_vars

\* A review plan stays queued until it is approved.
ReviewStaysQueued ==
  disk.active # None /\ Review /\ disk.active \notin disk.approved
    => disk.status[disk.active] = "queued"
=============================================================================
