----------------------------- MODULE RunGateProofs -----------------------------
(***************************************************************************)
(* What holds of the workspace gate for any Runs, calls and operations:    *)
(* it is closed exactly while something executes, an unapproved review     *)
(* plan never executes, and a cancellation stops the Run it names.         *)
(***************************************************************************)
EXTENDS RunGate, TLAPS

\* No copy of the Session holds an approval that the Owner did not give.
ApprovalsAreAccepted ==
  Review => /\ disk.approved \subseteq accepted
            /\ runner.copy.approved \subseteq accepted
            /\ \A c \in Callers : calls[c].copy.approved \subseteq accepted

\* A call that approves or cancels names a Run the Owner named.
CallsNameRuns ==
  \A c \in Callers :
    /\ calls[c].at = "cancel" => calls[c].want \in refused
    /\ calls[c].at = "approve" => calls[c].want \in accepted

GateInv ==
  /\ TypeOK
  /\ GateIsHeld
  /\ ApprovalsAreAccepted
  /\ CallsNameRuns
  /\ OnlyApprovedRuns

\* What the operators on Sessions return.
LEMMA SessionFacts ==
  ASSUME NEW s \in Session, NEW r \in Runs
  PROVE  /\ NewSession \in Session
         /\ NewSession.approved = {}
         /\ NewRun(s, r) \in Session
         /\ Review => NewRun(s, r).approved = s.approved
         /\ NewRun(s, r).active = r
  BY DEF Session, NewSession, NewRun, Statuses, Terminal, Alive

LEMMA StatusFacts ==
  ASSUME NEW s \in Session, NEW r \in Runs, NEW st \in Statuses
  PROVE  /\ Ended(s, r, st) \in Session
         /\ Ended(s, r, st).approved = s.approved
         /\ [s EXCEPT !.status[r] = st] \in Session
         /\ [s EXCEPT !.status[r] = st].approved = s.approved
  BY DEF Session, Ended

LEMMA RecoveredFacts ==
  ASSUME NEW s \in Session
  PROVE  /\ NewSession \in Session
         /\ NewSession.approved = {}
         /\ Recovered(s) \in Session
         /\ Recovered(s).approved = s.approved
  BY DEF Session, NewSession, Recovered, Statuses, Terminal, Alive

LEMMA ApprovedFacts ==
  ASSUME NEW s \in Session, NEW r \in Runs
  PROVE  /\ [s EXCEPT !.approved = @ \cup {r}] \in Session
         /\ [s EXCEPT !.approved = @ \cup {r}].approved = s.approved \cup {r}
  BY DEF Session

\* A call whose place changes to one that neither approves nor cancels.
LEMMA NoCallFacts == NoCall \in Call /\ NoCall.copy = NewSession /\ NoCall.at = "idle"
  BY DEF NoCall, Call, Session, NewSession, Statuses

THEOREM InitInv == Init => GateInv
  <1> SUFFICES ASSUME Init PROVE GateInv
    OBVIOUS
  <1>1. NewSession \in Session /\ NewSession.approved = {}
    BY DEF Session, NewSession, Statuses
  <1>2. NoCall \in Call /\ NoCall.copy = NewSession /\ NoCall.at = "idle"
    BY NoCallFacts
  <1>3. NoRunner \in Runner /\ NoRunner.copy = NewSession /\ NoRunner.at = "idle" /\ NoRunner.run = None
    BY <1>1 DEF NoRunner, Runner
  <1>4. TypeOK
    <2>1. calls \in [Callers -> Call]
      BY <1>2 DEF Init
    <2>2. faults \in 0..MaxFaults
      BY GateAssumption DEF Init
    <2> QED
      BY <1>1, <1>3, <2>1, <2>2 DEF Init, TypeOK
  <1>5. GateIsHeld /\ OnlyApprovedRuns
    BY <1>3 DEF Init, GateIsHeld, OnlyApprovedRuns
  <1>6. \A c \in Callers : calls[c] = NoCall
    BY DEF Init
  <1>7. CallsNameRuns
    BY <1>2, <1>6, GateAssumption DEF CallsNameRuns
  <1>8. ApprovalsAreAccepted
    BY <1>1, <1>2, <1>3, <1>6 DEF Init, ApprovalsAreAccepted
  <1> QED
    BY <1>4, <1>5, <1>7, <1>8 DEF GateInv

\* A step that changes one call.
LEMMA OneCall ==
  ASSUME TypeOK, NEW c \in Callers, NEW k \in Call, calls' = [calls EXCEPT ![c] = k]
  PROVE  /\ calls' \in [Callers -> Call]
         /\ \A d \in Callers : calls'[d] = IF d = c THEN k ELSE calls[d]
  BY DEF TypeOK

LEMMA ReturnFacts ==
  ASSUME TypeOK, NEW c \in Callers, Return(c)
  PROVE  /\ calls' \in [Callers -> Call]
         /\ \A d \in Callers : calls'[d] = IF d = c THEN NoCall ELSE calls[d]
  BY NoCallFacts, OneCall DEF Return

\* What a call holds.
LEMMA CallFacts ==
  ASSUME TypeOK, NEW c \in Callers
  PROVE  /\ calls[c] \in Call
         /\ calls[c].copy \in Session
         /\ calls[c].want \in Runs \cup {None}
         /\ calls[c].op \in Operations \cup {None}
  BY DEF TypeOK, Call

\* Only the call and what the Owner asked for change.
LEMMA ReadInv ==
  ASSUME GateInv, NEW c \in Callers, NEW op, NEW r \in Runs \cup {None},
         NEW s \in Session, s.approved = disk.approved,
         NEW next \in {"save", "launch", "approve", "cancel"},
         accepted \subseteq accepted', accepted' \subseteq Runs,
         refused \subseteq refused', refused' \subseteq Runs,
         next = "approve" => r \in accepted',
         next = "cancel" => r \in refused',
         Read(c, op, r, s, next)
  PROVE  GateInv'
  <1> DEFINE k == [op |-> op, want |-> r, copy |-> s, at |-> next]
  <1>1. k \in Call
    BY DEF Read, Call
  <1>2. /\ calls' \in [Callers -> Call]
        /\ \A d \in Callers : calls'[d] = IF d = c THEN k ELSE calls[d]
    BY <1>1, OneCall DEF Read, GateInv
  <1>3. TypeOK' /\ GateIsHeld' /\ OnlyApprovedRuns'
    BY <1>2 DEF Read, GateInv, TypeOK, GateIsHeld, OnlyApprovedRuns
  <1>4. k.copy = s /\ k.at = next /\ k.want = r
    OBVIOUS
  <1> HIDE DEF k
  <1>5. ApprovalsAreAccepted'
    BY <1>2, <1>4 DEF Read, GateInv, ApprovalsAreAccepted
  <1>6. CallsNameRuns'
    BY <1>2, <1>4 DEF Read, GateInv, CallsNameRuns
  <1> QED
    BY <1>3, <1>5, <1>6 DEF GateInv

\* The calls read the Session.
LEMMA ReadsInv ==
  ASSUME GateInv, NEW c \in Callers,
         \/ StartRun(c)
         \/ \E r \in Runs : ResumeRun(c, r) \/ ApprovePlan(c, r) \/ CancelRun(c, r)
  PROVE  GateInv'
  <1>0. /\ disk \in Session
        /\ Recovered(disk) \in Session /\ Recovered(disk).approved = disk.approved
        /\ accepted \subseteq Runs /\ refused \subseteq Runs
    BY RecoveredFacts DEF GateInv, TypeOK
  <1>1. CASE StartRun(c)
    BY <1>0, <1>1, ReadInv DEF StartRun
  <1>2. ASSUME NEW r \in Runs, ResumeRun(c, r) PROVE GateInv'
    BY <1>0, <1>2, ReadInv DEF ResumeRun
  <1>3. ASSUME NEW r \in Runs, ApprovePlan(c, r) PROVE GateInv'
    <2>1. CASE r \in disk.approved
      BY <1>0, <1>3, <2>1, ReadInv DEF ApprovePlan
    <2>2. CASE r \notin disk.approved
      BY <1>0, <1>3, <2>2, ReadInv DEF ApprovePlan
    <2> QED
      BY <2>1, <2>2
  <1>4. ASSUME NEW r \in Runs, CancelRun(c, r) PROVE GateInv'
    BY <1>0, <1>4, ReadInv DEF CancelRun
  <1> QED
    BY <1>1, <1>2, <1>3, <1>4

\* A call commits or returns, and neither the gate nor the Runner changes.
LEMMA CommitInv ==
  ASSUME GateInv, NEW c \in Callers,
         NEW k \in Call, calls' = [calls EXCEPT ![c] = k],
         k.at \in {"idle", "launch"},
         disk' \in Session,
         Review => disk'.approved \subseteq accepted /\ k.copy.approved \subseteq accepted,
         faults' \in 0..MaxFaults, stopping' \in BOOLEAN, used' \subseteq Runs,
         UNCHANGED <<gate, target, runner, other, late, accepted, refused>>
  PROVE  GateInv'
  <1>1. /\ calls' \in [Callers -> Call]
        /\ \A d \in Callers : calls'[d] = IF d = c THEN k ELSE calls[d]
    BY OneCall DEF GateInv
  <1>2. TypeOK' /\ GateIsHeld' /\ OnlyApprovedRuns'
    BY <1>1 DEF GateInv, TypeOK, GateIsHeld, OnlyApprovedRuns
  <1>3. ApprovalsAreAccepted'
    BY <1>1 DEF GateInv, ApprovalsAreAccepted
  <1>4. CallsNameRuns'
    BY <1>1 DEF GateInv, CallsNameRuns
  <1> QED
    BY <1>2, <1>3, <1>4 DEF GateInv

\* A commit of s, done or failed, leaves s or the checkpoint before it.
LEMMA SaveFacts ==
  ASSUME GateInv, NEW s \in Session, Review => s.approved \subseteq accepted,
         Saved(s) \/ SaveFails(s)
  PROVE  /\ disk' \in Session
         /\ Review => disk'.approved \subseteq accepted
         /\ faults' \in 0..MaxFaults
  BY GateAssumption DEF Saved, SaveFails, GateInv, TypeOK, ApprovalsAreAccepted

\* A call that commits s goes on to the launch, or returns.
LEMMA SavesInv ==
  ASSUME GateInv, NEW c \in Callers, NEW s \in Session,
         Review => s.approved \subseteq accepted,
         Saved(s) \/ SaveFails(s),
         Proceed(c, s) \/ Return(c),
         used' \subseteq Runs,
         UNCHANGED <<gate, target, runner, stopping, other, late, accepted, refused>>
  PROVE  GateInv'
  <1>1. /\ disk' \in Session /\ faults' \in 0..MaxFaults
        /\ Review => disk'.approved \subseteq accepted
    BY SaveFacts
  <1>2. stopping' \in BOOLEAN
    BY DEF GateInv, TypeOK
  <1>3. CASE Proceed(c, s)
    <2> DEFINE k == [calls[c] EXCEPT !.copy = s, !.at = "launch"]
    <2>1. k \in Call /\ k.copy = s /\ k.at = "launch"
      BY CallFacts DEF GateInv, Call
    <2>2. calls' = [calls EXCEPT ![c] = k]
      BY <1>3 DEF Proceed
    <2> HIDE DEF k
    <2> QED
      BY <1>1, <1>2, <2>1, <2>2, CommitInv
  <1>4. CASE Return(c)
    <2>1. NoCall \in Call /\ NoCall.at = "idle" /\ NoCall.copy.approved = {}
      BY NoCallFacts DEF NewSession
    <2>2. calls' = [calls EXCEPT ![c] = NoCall]
      BY <1>4 DEF Return
    <2>3. Review => disk'.approved \subseteq accepted /\ NoCall.copy.approved \subseteq accepted
      BY <1>1, <2>1
    <2> QED
      BY <1>1, <1>2, <2>1, <2>2, <2>3, CommitInv
  <1> QED
    BY <1>3, <1>4

\* The actions of a call that do not take the gate.
LEMMA CommitsInv ==
  ASSUME GateInv, NEW c \in Callers,
         \/ RecoverSave(c) \/ ApproveCommit(c) \/ CommitExpired(c)
         \/ CancelSignals(c) \/ CancelPlan(c) \/ CancelConflict(c)
         \/ LaunchRefused(c) \/ LaunchFails(c)
  PROVE  GateInv'
  <1> USE DEF owner
  <1>0. /\ NoCall \in Call /\ NoCall.at = "idle" /\ NoCall.copy.approved = {}
        /\ calls[c] \in Call /\ calls[c].copy \in Session
        /\ Review => calls[c].copy.approved \subseteq accepted
        /\ Review => disk.approved \subseteq accepted
        /\ disk \in Session /\ used \subseteq Runs /\ accepted \subseteq Runs
        /\ faults \in 0..MaxFaults /\ stopping \in BOOLEAN
    BY NoCallFacts, CallFacts DEF GateInv, TypeOK, ApprovalsAreAccepted, NewSession
  <1>1. CASE RecoverSave(c)
    BY <1>0, <1>1, SavesInv DEF RecoverSave
  <1>2. CASE ApproveCommit(c)
    <2> DEFINE r == calls[c].want
               s == [calls[c].copy EXCEPT !.approved = @ \cup {r}]
    <2>1. r \in accepted /\ r \in Runs
      BY <1>0, <1>2 DEF GateInv, CallsNameRuns, ApproveCommit, At
    <2>2. s \in Session /\ s.approved = calls[c].copy.approved \cup {r}
      BY <1>0, <2>1, ApprovedFacts
    <2>3. /\ Saved(s) \/ SaveFails(s)
          /\ Proceed(c, s) \/ Return(c)
          /\ UNCHANGED <<gate, target, runner, stopping, other, owner>>
      BY <1>2 DEF ApproveCommit
    <2> HIDE DEF s, r
    <2> QED
      BY <1>0, <2>1, <2>2, <2>3, SavesInv
  <1>3. CASE CommitExpired(c)
    <2>1. CASE UNCHANGED calls
      <3>1. PICK k \in Call : k = calls[c]
        BY <1>0
      <3>2. calls' = [calls EXCEPT ![c] = k]
        BY <2>1, <3>1 DEF GateInv, TypeOK
      <3>3. k.at = "launch" /\ (Review => k.copy.approved \subseteq accepted)
        BY <1>0, <1>3, <3>1 DEF CommitExpired, At
      <3>4. /\ disk' \in Session /\ faults' \in 0..MaxFaults
            /\ Review => disk'.approved \subseteq accepted
        BY <1>0, <1>3, SaveFacts DEF CommitExpired
      <3>5. /\ stopping' \in BOOLEAN /\ used' \subseteq Runs
            /\ UNCHANGED <<gate, target, runner, other, late, accepted, refused>>
        BY <1>0, <1>3 DEF CommitExpired
      <3> QED
        BY <3>2, <3>3, <3>4, <3>5, CommitInv
    <2>2. CASE Return(c)
      BY <1>0, <1>3, <2>2, SavesInv DEF CommitExpired
    <2> QED
      BY <1>3, <2>1, <2>2 DEF CommitExpired
  <1>4. CASE LaunchFails(c)
    <2>1. PICK s \in Sessions(c), r \in Runs :
            /\ SaveFails(s) /\ used' = used \cup {r} /\ Return(c)
            /\ UNCHANGED <<gate, target, runner, stopping, other, late, accepted, refused>>
      BY <1>4 DEF LaunchFails
    <2>2. s \in Session /\ (Review => s.approved \subseteq accepted)
      BY <1>0, SessionFacts DEF Sessions
    <2> QED
      BY <1>0, <2>1, <2>2, SavesInv
  <1>5. CASE CancelSignals(c)
    <2>1. stopping' \in BOOLEAN
      BY <1>0, <1>5 DEF CancelSignals
    <2> QED
      BY <1>0, <1>5, <2>1, CommitInv DEF CancelSignals, Return
  <1>6. CASE CancelPlan(c)
    <2>1. calls[c].want \in Runs /\ "cancelled" \in Statuses
      BY <1>6 DEF CancelPlan, At, GateInv, CallsNameRuns, TypeOK, Statuses, Terminal
    <2>2. PICK s \in Session : /\ s = Ended(calls[c].copy, calls[c].want, "cancelled")
                               /\ s.approved = calls[c].copy.approved
      BY <1>0, <2>1, StatusFacts
    <2>3. /\ Saved(s) \/ SaveFails(s)
          /\ Return(c)
          /\ UNCHANGED <<gate, target, runner, stopping, other, owner>>
      BY <1>6, <2>2 DEF CancelPlan
    <2> QED
      BY <1>0, <2>2, <2>3, SavesInv
  <1>7. CASE CancelConflict(c) \/ LaunchRefused(c)
    BY <1>0, <1>7, CommitInv DEF CancelConflict, LaunchRefused, Return
  <1> QED
    BY <1>1, <1>2, <1>3, <1>4, <1>5, <1>6, <1>7

\* The launch takes the gate only for a Run whose plan was approved.
LEMMA LaunchInv ==
  ASSUME GateInv, NEW c \in Callers, LaunchRunner(c) \/ LaunchWaits(c)
  PROVE  GateInv'
  <1>0. /\ NoCall.at = "idle" /\ NoCall.copy.approved = {}
        /\ calls[c].copy \in Session
        /\ Review => calls[c].copy.approved \subseteq accepted
    BY NoCallFacts, CallFacts DEF GateInv, TypeOK, ApprovalsAreAccepted, NewSession
  <1>1. ASSUME NEW s \in Sessions(c), NEW r \in Runs, Launch(c, s, r),
               accepted' = accepted, refused' = refused
        PROVE  /\ disk' = s /\ s \in Session /\ (Review => s.approved \subseteq accepted)
               /\ ~gate /\ used' \subseteq Runs
               /\ calls' \in [Callers -> Call]
               /\ (Review => \A d \in Callers : calls'[d].copy.approved \subseteq accepted)
               /\ CallsNameRuns'
    <2>1. s \in Session /\ (Review => s.approved \subseteq accepted)
      BY <1>0, SessionFacts DEF Sessions
    <2>2. /\ calls' \in [Callers -> Call]
          /\ \A d \in Callers : calls'[d] = IF d = c THEN NoCall ELSE calls[d]
      BY <1>1, ReturnFacts DEF Launch, GateInv
    <2>3. Review => \A d \in Callers : calls'[d].copy.approved \subseteq accepted
      BY <1>0, <2>2 DEF GateInv, ApprovalsAreAccepted
    <2>4. CallsNameRuns'
      BY <1>0, <1>1, <2>2 DEF GateInv, CallsNameRuns
    <2> QED
      BY <1>1, <2>1, <2>2, <2>3, <2>4 DEF Launch, GateInv, TypeOK
  <1>2. CASE LaunchRunner(c)
    <2>1. PICK s \in Sessions(c), r \in Runs :
            /\ Launch(c, s, r)
            /\ ~Review \/ r \in s.approved
            /\ gate' = TRUE /\ target' = r /\ stopping' = FALSE
            /\ runner' = [run |-> r, copy |-> s, at |-> "launched"]
            /\ UNCHANGED <<other, late, accepted, refused, faults>>
      BY <1>2 DEF LaunchRunner
    <2>2. /\ disk' = s /\ s \in Session /\ (Review => s.approved \subseteq accepted)
          /\ ~gate /\ used' \subseteq Runs
          /\ calls' \in [Callers -> Call]
          /\ (Review => \A d \in Callers : calls'[d].copy.approved \subseteq accepted)
          /\ CallsNameRuns'
      BY <1>1, <2>1
    <2>3. /\ runner' \in Runner /\ runner'.at = "launched"
          /\ runner'.run = r /\ runner'.copy = s
      BY <2>1, <2>2 DEF Runner
    <2>4. TypeOK'
      BY <2>1, <2>2, <2>3 DEF GateInv, TypeOK
    <2>5. GateIsHeld'
      BY <2>1, <2>2, <2>3, GateAssumption DEF GateInv, GateIsHeld
    <2>6. ApprovalsAreAccepted' /\ OnlyApprovedRuns'
      BY <2>1, <2>2, <2>3 DEF ApprovalsAreAccepted, OnlyApprovedRuns
    <2> QED
      BY <2>2, <2>4, <2>5, <2>6 DEF GateInv
  <1>3. CASE LaunchWaits(c)
    <2>1. PICK s \in Sessions(c), r \in Runs :
            /\ Launch(c, s, r)
            /\ UNCHANGED <<gate, target, runner, stopping, other, late, accepted, refused, faults>>
      BY <1>3 DEF LaunchWaits
    <2>2. /\ disk' = s /\ s \in Session /\ (Review => s.approved \subseteq accepted)
          /\ ~gate /\ used' \subseteq Runs
          /\ calls' \in [Callers -> Call]
          /\ (Review => \A d \in Callers : calls'[d].copy.approved \subseteq accepted)
          /\ CallsNameRuns'
      BY <1>1, <2>1
    <2> QED
      BY <2>1, <2>2 DEF GateInv, TypeOK, GateIsHeld, ApprovalsAreAccepted, OnlyApprovedRuns
  <1> QED
    BY <1>2, <1>3

\* The Runner commits its copy with another status, and may end.
LEMMA RunnerInv ==
  ASSUME GateInv, RunnerStep
  PROVE  GateInv'
  <1> USE DEF owner
  <1>0. /\ runner \in Runner /\ runner.copy \in Session
        /\ Review => runner.copy.approved \subseteq accepted
        /\ runner.at # "idle" => runner.run \in Runs
        /\ NoRunner \in Runner /\ NoRunner.at = "idle" /\ NoRunner.run = None
        /\ NoRunner.copy.approved = {}
    BY RecoveredFacts DEF GateInv, TypeOK, Runner, NoRunner, GateIsHeld, ApprovalsAreAccepted
  <1>1. ASSUME NEW s \in Session, s.approved = runner.copy.approved,
               NEW next \in {"executing", "ended"}, runner.at # "idle",
               Commits(s, next)
        PROVE  GateInv'
    <2>1. PICK at \in {"executing", "ended"} : runner' = [runner EXCEPT !.copy = s, !.at = at]
      BY <1>1 DEF Commits
    <2>2. /\ runner' \in Runner /\ runner'.at = at /\ runner'.copy = s
          /\ runner'.run = runner.run
      BY <1>0, <2>1 DEF Runner
    <2>3. /\ disk' \in Session /\ faults' \in 0..MaxFaults
          /\ Review => disk'.approved \subseteq accepted
      BY <1>0, <1>1, SaveFacts DEF Commits
    <2>4. UNCHANGED <<calls, gate, target, stopping, other, used, late, accepted, refused>>
      BY <1>1 DEF Commits
    <2>5. TypeOK'
      BY <1>1, <2>2, <2>3, <2>4 DEF GateInv, TypeOK
    <2>6. GateIsHeld' /\ OnlyApprovedRuns' /\ CallsNameRuns'
      BY <1>1, <2>2, <2>4 DEF GateInv, GateIsHeld, OnlyApprovedRuns, CallsNameRuns
    <2>7. ApprovalsAreAccepted'
      BY <1>0, <1>1, <2>2, <2>3, <2>4 DEF GateInv, ApprovalsAreAccepted
    <2> QED
      BY <2>5, <2>6, <2>7 DEF GateInv
  <1>2. \A st \in Statuses : runner.at # "idle" =>
          /\ Ended(runner.copy, runner.run, st) \in Session
          /\ Ended(runner.copy, runner.run, st).approved = runner.copy.approved
          /\ As(st) \in Session
          /\ As(st).approved = runner.copy.approved
    BY <1>0, StatusFacts DEF As
  <1>3. {"running", "interrupted", "completed", "failed", "cancelled"} \subseteq Statuses
    BY DEF Statuses, Terminal, Alive
  <1>4. CASE Begin
    BY <1>1, <1>2, <1>3, <1>4 DEF Begin
  <1>5. CASE Work \/ SaveEnded
    BY <1>0, <1>1, <1>5 DEF Work, SaveEnded
  <1>6. CASE Complete
    BY <1>1, <1>2, <1>3, <1>6 DEF Complete, Finishes
  <1>7. CASE FailRun
    BY <1>1, <1>2, <1>3, <1>7 DEF FailRun, Finishes
  <1>8. CASE StopCancelled
    BY <1>1, <1>2, <1>3, <1>8 DEF StopCancelled, Finishes
  <1>9. CASE StopLate
    BY <1>1, <1>2, <1>3, <1>9 DEF StopLate, Interrupts
  <1>10. CASE Release
    <2>1. TypeOK' /\ GateIsHeld'
      BY <1>0, <1>10 DEF Release, GateInv, TypeOK, GateIsHeld
    <2>2. ApprovalsAreAccepted' /\ CallsNameRuns' /\ OnlyApprovedRuns'
      BY <1>0, <1>10 DEF Release, GateInv, ApprovalsAreAccepted, CallsNameRuns, OnlyApprovedRuns
    <2> QED
      BY <2>1, <2>2 DEF GateInv
  <1> QED
    BY <1>4, <1>5, <1>6, <1>7, <1>8, <1>9, <1>10 DEF RunnerStep

\* Deadlines, other executions and a restart.
LEMMA RestInv ==
  ASSUME GateInv,
         \/ \E r \in Runs : Deadline(r)
         \/ TryAcquireRun \/ ReleaseRun \/ Restart
  PROVE  GateInv'
  <1> USE DEF owner
  <1>1. CASE \E r \in Runs : Deadline(r)
    BY <1>1 DEF Deadline, GateInv, TypeOK, GateIsHeld, ApprovalsAreAccepted, CallsNameRuns, OnlyApprovedRuns
  <1>2. CASE TryAcquireRun \/ ReleaseRun
    BY <1>2 DEF TryAcquireRun, ReleaseRun, GateInv, TypeOK, GateIsHeld, ApprovalsAreAccepted,
                CallsNameRuns, OnlyApprovedRuns
  <1>3. CASE Restart
    <2>1. disk' \in Session /\ disk'.approved = disk.approved
      BY <1>3, RecoveredFacts DEF Restart, GateInv, TypeOK
    <2>2. NoRunner \in Runner /\ NoRunner.at = "idle" /\ NoRunner.run = None
          /\ NoRunner.copy.approved = {}
      BY RecoveredFacts DEF NoRunner, Runner, GateInv, TypeOK
    <2>3. /\ calls' \in [Callers -> Call]
          /\ \A c \in Callers : calls'[c].at = "idle" /\ calls'[c].copy.approved = {}
      BY <1>3, NoCallFacts DEF Restart, NewSession
    <2>4. faults' \in 0..MaxFaults
      BY <1>3, GateAssumption DEF Restart, GateInv, TypeOK
    <2>5. TypeOK' /\ GateIsHeld'
      BY <1>3, <2>1, <2>2, <2>3, <2>4 DEF Restart, GateInv, TypeOK, GateIsHeld
    <2>6. ApprovalsAreAccepted' /\ CallsNameRuns' /\ OnlyApprovedRuns'
      BY <1>3, <2>1, <2>2, <2>3 DEF Restart, GateInv, ApprovalsAreAccepted, CallsNameRuns, OnlyApprovedRuns
    <2> QED
      BY <2>5, <2>6 DEF GateInv
  <1> QED
    BY <1>1, <1>2, <1>3

LEMMA StepInv == GateInv /\ [Next]_vars => GateInv'
  <1> SUFFICES ASSUME GateInv, [Next]_vars PROVE GateInv'
    OBVIOUS
  <1>1. ASSUME NEW c \in Callers, CallStep(c) PROVE GateInv'
    BY <1>1, ReadsInv, CommitsInv, LaunchInv DEF CallStep
  <1>2. CASE UNCHANGED vars
    BY <1>2 DEF vars, owner, GateInv, TypeOK, GateIsHeld, ApprovalsAreAccepted, CallsNameRuns, OnlyApprovedRuns
  <1> QED
    BY <1>1, <1>2, RunnerInv, RestInv DEF Next

LEMMA Invariance == Spec => []GateInv
  BY InitInv, StepInv, PTL DEF Spec

\* The state always has its type.
THEOREM GateTypeCorrect == Spec => []TypeOK
  BY Invariance, PTL DEF GateInv

\* The workspace gate (Service.active) is closed exactly while a Run or a
\* one-shot run executes, never for two, and Service.activeRun names it.
THEOREM GateIsMutex == Spec => []GateIsHeld
  BY Invariance, PTL DEF GateInv

\* A review plan executes only after ApprovePlan committed its approval,
\* whatever stale copies the calls commit and launch.
THEOREM ReviewBeforeExecution == Spec => []OnlyApprovedRuns
  BY Invariance, PTL DEF GateInv

\* A cancellation stops the Run the Owner asked to cancel and no other.
THEOREM CancelsItsRun == Spec => CancelHitsItsRun
  <1>1. ASSUME GateInv, [Next]_vars, stopping', ~stopping PROVE runner.run \in refused
    <2>1. CASE UNCHANGED vars
      BY <1>1, <2>1 DEF vars
    <2>2. CASE RunnerStep
      BY <1>1, <2>2 DEF RunnerStep, Begin, Work, Complete, FailRun, StopCancelled, StopLate,
                        Finishes, Interrupts, SaveEnded, Release, Commits
    <2>3. CASE (\E r \in Runs : Deadline(r)) \/ TryAcquireRun \/ ReleaseRun \/ Restart
      BY <1>1, <2>3 DEF Deadline, TryAcquireRun, ReleaseRun, Restart
    <2>4. ASSUME NEW c \in Callers, CallStep(c) PROVE runner.run \in refused
      <3>1. CASE CancelSignals(c)
        BY <1>1, <3>1 DEF CancelSignals, At, GateInv, GateIsHeld, CallsNameRuns
      <3>2. CASE StartRun(c) \/ \E r \in Runs : ResumeRun(c, r) \/ ApprovePlan(c, r) \/ CancelRun(c, r)
        BY <1>1, <3>2 DEF StartRun, ResumeRun, ApprovePlan, CancelRun, Read
      <3>3. CASE RecoverSave(c) \/ ApproveCommit(c) \/ CommitExpired(c)
        BY <1>1, <3>3 DEF RecoverSave, ApproveCommit, CommitExpired
      <3>4. CASE CancelPlan(c) \/ CancelConflict(c) \/ LaunchRefused(c) \/ LaunchFails(c)
        BY <1>1, <3>4 DEF CancelPlan, CancelConflict, LaunchRefused, LaunchFails
      <3>5. CASE LaunchRunner(c) \/ LaunchWaits(c)
        BY <1>1, <3>5 DEF LaunchRunner, LaunchWaits
      <3> QED
        BY <2>4, <3>1, <3>2, <3>3, <3>4, <3>5 DEF CallStep
    <2> QED
      BY <1>1, <2>1, <2>2, <2>3, <2>4 DEF Next
  <1>2. GateInv /\ [Next]_vars => [stopping' /\ ~stopping => runner.run \in refused]_vars
    BY <1>1
  <1> QED
    BY <1>2, Invariance, PTL DEF Spec, CancelHitsItsRun
=============================================================================
