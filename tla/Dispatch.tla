------------------------------- MODULE Dispatch -------------------------------
(* From an Employee's Task to its one Run.  A Task, the index of the tasks,   *)
(* the dispatch journal and the Session are files of their own; a start that  *)
(* was cut off goes on from what the journal says.  Starts, resumes and       *)
(* cancels are serialised by employeeTaskMu, preparations by prepareMu.  A Loop *)
(* prepares the Task it created, and puts its recipe into the Session, outside *)
(* of employeeTaskMu.                                                          *)
EXTENDS Naturals, FiniteSets

CONSTANTS
  Tasks,      \* the Tasks of one Employee
  None,
  MaxCrossed, \* bound: Tasks the Owner calls for while a Loop prepares them
  MaxFaults   \* bound: crashes and refused writes

VARIABLES server, requests, faults

vars == <<server, requests, faults>>

\* `mine` is the Session as the Runner has it in memory.  History: `started`, the
\* launches by a start; `resumed`, the Tasks launched by a resume; `crossed`, the
\* Tasks the Owner called for while a Loop was preparing them.
NewTask == [state |-> "queued", bound |-> FALSE]
Fresh ==
  [task |-> [t \in Tasks |-> NewTask], index |-> [t \in Tasks |-> NewTask],
   journal |-> [t \in Tasks |-> None], session |-> [t \in Tasks |-> None],
   messages |-> [t \in Tasks |-> 0], runner |-> None, mine |-> None, stopping |-> FALSE,
   started |-> [t \in Tasks |-> 0], resumed |-> {}, crossed |-> {}]

Init == server = Fresh /\ requests = {} /\ faults = 0

Fault == faults < MaxFaults /\ faults' = faults + 1

Terminal == {"completed", "failed", "cancelled"}

-----------------------------------------------------------------------------
(* Calls. *)

Operations == {"start", "resume", "cancel"}
Locked == \E c \in requests : c.op \in Operations
Preparing == \E c \in requests : c.at \in {"save", "match", "mark"}

Returns(c) == requests' = requests \ {c}
Moves(c, at) == requests' = (requests \ {c}) \cup {[c EXCEPT !.at = at, !.copy = None]}
Holds(c, at, copy) == requests' = (requests \ {c}) \cup {[c EXCEPT !.at = at, !.copy = copy]}

Loops(t) == \E c \in requests : c.op = "loop" /\ c.task = t

Call(op, t) ==
  /\ ~Locked /\ UNCHANGED faults
  /\ Loops(t) => Cardinality(server.crossed \cup {t}) <= MaxCrossed
  /\ requests' = requests \cup {[op |-> op, task |-> t, at |-> "task", copy |-> None]}
  /\ server' = IF Loops(t) THEN [server EXCEPT !.crossed = @ \cup {t}] ELSE server

\* startEmployeeLoopInvocation has created the Task, which nobody called for yet,
\* and goes on to prepare it.
startEmployeeLoopInvocation(t) ==
  /\ \A c \in requests : c.op # "loop"
  /\ server.task[t] = NewTask /\ server.journal[t] = None /\ server.session[t] = None
  /\ \A c \in requests : c.task # t
  /\ requests' = requests \cup {[op |-> "loop", task |-> t, at |-> "prepare", copy |-> None]}
  /\ UNCHANGED <<server, faults>>

\* Every read of the tasks compares them with the index.
Readable == server.index = server.task

At(c, ops, at) == c.op \in ops /\ c.at = at /\ UNCHANGED faults
Writes(c, at, next) == At(c, Operations \cup {"loop"}, at) /\ Moves(c, next)

\* No other Task of the Employee is queued or running; a bound Task whose Session
\* lost its Run refuses every start.
AvailableUnlessRunning(t) ==
  \A u \in Tasks \ {t} : ~(server.task[u].bound /\ server.session[u].run = "running")

Available(t) ==
  \A u \in Tasks \ {t} :
    ~(server.task[u].bound /\ server.session[u].run \in {"queued", "running", None})

StartTask(c) ==
  LET t == c.task IN
  /\ At(c, {"start"}, "task") /\ UNCHANGED server
  /\ IF ~Readable \/ server.task[t].state = "cancelled" THEN Returns(c)
     ELSE IF server.task[t].bound THEN Moves(c, "reconcile")
     ELSE IF ~Available(t) THEN Returns(c)
     ELSE Moves(c, IF server.journal[t] \in {None, "prepared"} THEN "prepare" ELSE "session")

-----------------------------------------------------------------------------
(* PrepareEmployeeTask, under prepareMu. *)

\* The journal is written once; a second preparation finds it.
PrepareDispatch(c) ==
  LET t == c.task IN
  /\ At(c, {"start", "loop"}, "prepare") /\ ~Preparing
  /\ IF ~Readable \/ server.task[t].state # "queued"
     THEN Returns(c) /\ UNCHANGED server
     ELSE /\ Holds(c, IF server.journal[t] = "session_created" THEN "match" ELSE "save",
                   server.session[t])
          /\ server' = [server EXCEPT !.journal[t] = IF @ = None THEN "prepared" ELSE @]

Prepared(c) == Moves(c, IF c.op = "loop" THEN "load" ELSE "session")

\* A Session that is there has to be the prepared one, without a Run.
NewPrepared(c) ==
  LET t == c.task IN
  /\ At(c, {"start", "loop"}, "save")
  /\ IF c.copy = None
     THEN /\ Moves(c, "mark")
          /\ server' = [server EXCEPT !.session[t] = [run |-> None, recipe |-> FALSE]]
     ELSE /\ IF server.session[t].run = None THEN Moves(c, "mark") ELSE Returns(c)
          /\ UNCHANGED server

\* The journal had the Session before: there is nothing to mark.
preparedSessionMatches(c) ==
  /\ At(c, {"start", "loop"}, "match") /\ UNCHANGED server
  /\ IF server.session[c.task].run = None THEN Prepared(c) ELSE Returns(c)

MarkSessionCreated(c) ==
  LET t == c.task IN
  /\ At(c, {"start", "loop"}, "mark")
  /\ IF Readable /\ server.journal[t] \in {"prepared", "session_created"}
     THEN server' = [server EXCEPT !.journal[t] = "session_created"] /\ Prepared(c)
     ELSE Returns(c) /\ UNCHANGED server

\* The Loop's recipe is put into the Session, as it was loaded.
LoopLoads(c) ==
  /\ At(c, {"loop"}, "load") /\ Holds(c, "recipe", server.session[c.task]) /\ UNCHANGED server

LoopSaves(c) ==
  /\ At(c, {"loop"}, "recipe") /\ Moves(c, "dispatched")
  /\ server' = [server EXCEPT !.session[c.task] = [c.copy EXCEPT !.recipe = TRUE]]

LoopStarts(c) ==
  /\ At(c, {"loop"}, "dispatched") /\ ~Locked
  /\ requests' = (requests \ {c}) \cup {[c EXCEPT !.op = "start", !.at = "task"]}
  /\ UNCHANGED server

-----------------------------------------------------------------------------
(* StartEmployeeTask goes on from the stage of the journal. *)

LoadSession(c) ==
  LET t     == c.task
      stage == server.journal[t]
  IN  /\ At(c, {"start"}, "session") /\ UNCHANGED server
      /\ \/ /\ server.session[t] # None /\ stage = "session_created"
            /\ Holds(c, "fix", server.session[t])
         \/ /\ server.session[t] # None /\ stage = "run_prepared"
            /\ Holds(c, "run", server.session[t])
         \/ server.session[t] # None /\ stage = "run_created" /\ Moves(c, "bind")
         \/ /\ server.session[t] = None
               \/ stage \notin {"session_created", "run_prepared", "run_created"}
            /\ Returns(c)

PrepareDispatchRun(c) ==
  /\ At(c, {"start"}, "fix") /\ Holds(c, "run", c.copy)
  /\ server' = [server EXCEPT !.journal[c.task] = "run_prepared"]

\* The identifier of the Run is stable: one that is there is taken.
NewRun(c) ==
  /\ At(c, {"start"}, "run") /\ Moves(c, "message")
  /\ server' = [server EXCEPT !.session[c.task] =
                  [c.copy EXCEPT !.run = IF @ = None THEN "queued" ELSE @]]

AppendMessage(c) ==
  /\ Writes(c, "message", "created")
  /\ server' = [server EXCEPT !.messages[c.task] = @ + 1]

ensureEmployeeRunMessage(c) ==
  /\ Writes(c, "message", "created")
  /\ server' = [server EXCEPT !.messages[c.task] = IF @ = 0 THEN 1 ELSE @]

MarkRunCreated(c) ==
  /\ Writes(c, "created", "bind")
  /\ server' = [server EXCEPT !.journal[c.task] = "run_created"]

\* The Task is written, then the index, then the journal.
BindTask(c) ==
  /\ At(c, {"start"}, "bind") /\ Moves(c, "index")
  /\ server' = [server EXCEPT !.task[c.task].bound = TRUE]

SaveIndex(c) ==
  /\ Writes(c, "index", IF c.op = "cancel" THEN "discard" ELSE "bound")
  /\ server' = [server EXCEPT !.index[c.task] = server.task[c.task]]

MarkTaskBound(c) ==
  /\ Writes(c, "bound", "complete")
  /\ server' = [server EXCEPT !.journal[c.task] = "task_bound"]

CompleteDispatch(c) ==
  /\ Writes(c, "complete", "launch")
  /\ server' = [server EXCEPT !.journal[c.task] = None]

\* The Session still holds the Run of the Task.
RunIsThere(t) == server.session[t].run # None

reconcileTaskBoundOnly(c) ==
  LET stage == server.journal[c.task] IN
  /\ At(c, {"start", "resume"}, "reconcile") /\ UNCHANGED server
  /\ IF ~RunIsThere(c.task) THEN Returns(c)
     ELSE IF stage = "task_bound" THEN Moves(c, "complete")
     ELSE IF stage = None THEN Moves(c, "launch")
     ELSE Returns(c)

\* A bound Task: the journal is finished before anything else.
reconcileBoundDispatch(c) ==
  LET stage == server.journal[c.task] IN
  /\ At(c, {"start", "resume"}, "reconcile") /\ UNCHANGED server
  /\ IF ~RunIsThere(c.task) THEN Returns(c)
     ELSE IF stage = "run_created" THEN Moves(c, "bound")
     ELSE IF stage = "task_bound" THEN Moves(c, "complete")
     ELSE IF stage = None THEN Moves(c, "launch")
     ELSE Returns(c)

\* A start launches a Run that never ran; an interrupted one has to be resumed.
Launchable == {"queued"}
LaunchableInterrupted == {"queued", "interrupted"}

\* The Runner goes on with the Session as it was loaded; the call waits until the
\* Run has begun.
Launch(c, runs) ==
  IF server.runner = None /\ server.session[c.task].run \in runs
  THEN /\ Moves(c, "wait")
       /\ server' = [server EXCEPT !.runner = c.task, !.mine = server.session[c.task],
                                   !.stopping = FALSE,
                                   !.started[c.task] = IF c.op = "start" THEN @ + 1 ELSE @,
                                   !.resumed = IF c.op = "resume" THEN @ \cup {c.task} ELSE @]
  ELSE /\ IF server.runner = c.task /\ RunIsThere(c.task) THEN Moves(c, "wait") ELSE Returns(c)
       /\ UNCHANGED server

waitForEmployeeRunProjection(c) ==
  /\ At(c, {"start", "resume"}, "wait") /\ Returns(c) /\ UNCHANGED server
  /\ server.session[c.task].run # IF c.op = "start" THEN "queued" ELSE "interrupted"

StartRunAgain(c) == At(c, {"start"}, "launch") /\ Launch(c, LaunchableInterrupted)
StartRun(c) == At(c, {"start"}, "launch") /\ Launch(c, Launchable)

-----------------------------------------------------------------------------
(* ResumeEmployeeTask and CancelEmployeeTask. *)

ResumeUnreconciled(c) ==
  /\ At(c, {"resume"}, "task") /\ UNCHANGED server
  /\ IF Readable /\ server.task[c.task].bound THEN Moves(c, "launch") ELSE Returns(c)

ResumeTask(c) ==
  /\ At(c, {"resume"}, "task") /\ UNCHANGED server
  /\ IF Readable /\ server.task[c.task].bound THEN Moves(c, "reconcile") ELSE Returns(c)

\* A Run that nothing executes is interrupted, whatever its status was.
Recover(c) ==
  LET t == c.task IN
  /\ At(c, {"resume"}, "launch")
  /\ IF server.runner # None \/ server.session[t].run \in Terminal \cup {None}
     THEN /\ IF server.runner = t THEN Moves(c, "wait") ELSE Returns(c)
          /\ UNCHANGED server
     ELSE Moves(c, "resume") /\ server' = [server EXCEPT !.session[t].run = "interrupted"]

ResumeRun(c) == At(c, {"resume"}, "resume") /\ Launch(c, {"interrupted"})

CancelTask(c) ==
  LET t == c.task IN
  /\ At(c, {"cancel"}, "task")
  /\ IF ~Readable THEN Returns(c) /\ UNCHANGED server
     ELSE IF server.task[t].bound THEN Moves(c, "stop") /\ UNCHANGED server
     ELSE IF server.task[t].state = "cancelled" THEN Moves(c, "discard") /\ UNCHANGED server
     ELSE Moves(c, "index") /\ server' = [server EXCEPT !.task[t].state = "cancelled"]

\* A journal that names a Run is kept, and the call says so.
DiscardPreparedDispatch(c) ==
  LET t == c.task IN
  /\ At(c, {"cancel"}, "discard") /\ Returns(c)
  /\ server' = [server EXCEPT !.journal[t] = IF @ \in {"prepared", "session_created"} THEN None ELSE @]

\* A dormant Run is cancelled on disk, an executing one is told to stop.
cancelBoundEmployeeTask(c) ==
  LET t   == c.task
      run == server.session[t].run
  IN  /\ At(c, {"cancel"}, "stop") /\ Returns(c)
      /\ server' = IF run \in {"queued", "interrupted"} /\ server.runner # t
                   THEN [server EXCEPT !.session[t].run = "cancelled"]
                   ELSE IF run = "running" /\ server.runner = t
                   THEN [server EXCEPT !.stopping = TRUE]
                   ELSE server

-----------------------------------------------------------------------------
(* The Runner, and what goes wrong. *)

\* The Runner writes the Session as it has it in memory.
Commits(run) ==
  LET saved == [server.mine EXCEPT !.run = run] IN
  /\ server' = [server EXCEPT !.mine = saved, !.session[server.runner] = saved]
  /\ UNCHANGED <<requests, faults>>

RunBegins ==
  server.runner # None /\ server.mine.run \in {"queued", "interrupted"} /\ Commits("running")

RunEnds ==
  /\ server.runner # None /\ server.mine.run = "running"
  /\ \E run \in IF server.stopping THEN {"cancelled"} ELSE {"completed", "failed"} : Commits(run)

ReleaseRun ==
  /\ server.runner # None /\ server.mine.run \in Terminal
  /\ server' = [server EXCEPT !.runner = None, !.mine = None, !.stopping = FALSE]
  /\ UNCHANGED <<requests, faults>>

\* A write or a check is refused, or the wait is cut off, and the call returns.
Fails(c) == c.at # "task" /\ Fault /\ Returns(c) /\ UNCHANGED server

\* The next process takes every Run that was under way for interrupted.
Crash ==
  /\ Fault /\ requests' = {}
  /\ server' =
       [server EXCEPT
          !.runner = None, !.mine = None, !.stopping = FALSE,
          !.session = [t \in Tasks |->
            IF @[t] # None /\ @[t].run \in {"queued", "running"}
            THEN [@[t] EXCEPT !.run = "interrupted"] ELSE @[t]]]

-----------------------------------------------------------------------------
Step(c) ==
  \/ StartTask(c) \/ PrepareDispatch(c) \/ NewPrepared(c)
  \/ preparedSessionMatches(c) \/ MarkSessionCreated(c)
  \/ LoopLoads(c) \/ LoopSaves(c) \/ LoopStarts(c)
  \/ LoadSession(c) \/ PrepareDispatchRun(c) \/ NewRun(c) \/ ensureEmployeeRunMessage(c)
  \/ MarkRunCreated(c) \/ BindTask(c) \/ SaveIndex(c) \/ MarkTaskBound(c) \/ CompleteDispatch(c)
  \/ reconcileBoundDispatch(c) \/ StartRun(c) \/ waitForEmployeeRunProjection(c)
  \/ ResumeTask(c) \/ Recover(c) \/ ResumeRun(c)
  \/ CancelTask(c) \/ DiscardPreparedDispatch(c) \/ cancelBoundEmployeeTask(c)

CallWorks == \E c \in requests : c.op # "loop" /\ Step(c)
LoopWorks == \E c \in requests : c.op = "loop" /\ Step(c)
Running == RunBegins \/ RunEnds \/ ReleaseRun

Next ==
  \/ CallWorks \/ LoopWorks \/ Running \/ Crash
  \/ \E c \in requests : Fails(c)
  \/ \E t \in Tasks : startEmployeeLoopInvocation(t) \/ \E op \in Operations : Call(op, t)

Spec == Init /\ [][Next]_vars

\* Calls and Runs go on, and a sync.Mutex is handed to who has waited longest;
\* the Owner of a Task that was cut off starts it again.
FairSpec ==
  /\ Spec /\ WF_vars(CallWorks) /\ SF_vars(LoopWorks) /\ WF_vars(Running)
  /\ \A t \in Tasks : SF_vars(Call("start", t))

-----------------------------------------------------------------------------
(* Properties.  A Loop saves the Session it loaded without employeeTaskMu: what *)
(* is said of a Task is said but of one the Owner called for in between.        *)

\* Whatever write was the last before a crash, each stage of the journal names
\* only what is durable, a bound Task has its Run, and the Run has the Task's
\* prompt once (dispatch.go, StartEmployeeTask).
StagesAreDurable ==
  \A t \in Tasks \ server.crossed :
    LET stage == server.journal[t]
        saved == server.session[t] # None
        run   == saved /\ server.session[t].run # None /\ server.messages[t] = 1
    IN  /\ stage \notin {None, "prepared"} => saved
        /\ stage \in {"run_created", "task_bound"} \/ server.task[t].bound => run
        /\ stage = "task_bound" => server.task[t].bound
        /\ stage # None /\ server.task[t].bound => stage \in {"run_created", "task_bound"}

\* A Run executes only when its Task is bound to it, was not cancelled, and has
\* no dispatch left to reconcile ("binds the Task, and only then allows the
\* existing Runner to start").
LaunchedIsReconciled ==
  server.runner # None /\ server.runner \notin server.crossed =>
    /\ server.task[server.runner] = [state |-> "queued", bound |-> TRUE]
    /\ server.journal[server.runner] = None

\* However often a Task is started, through crashes and refused writes, a start
\* launches its Run once (stableEmployeeRunID).
StartedOnce == \A t \in Tasks \ server.crossed : server.started[t] <= 1

\* A bound Task keeps its Run, which StartEmployeeTask persisted before it bound
\* the Task ("binds the Task, and only then ...").  It does not: a Loop puts back
\* the Session it loaded before the Owner's start.
BoundKeepsItsRun ==
  \A t \in Tasks : server.task[t].bound => RunIsThere(t)

\* A dispatch that was cut off is finished by the next start, unless the Task was
\* cancelled or the index is torn (reconcileBoundDispatch), or a Task lost its Run
\* to a Loop and refuses every start (ensureEmployeeRunAvailable).
DispatchEnds ==
  \A t \in Tasks :
    server.journal[t] # None ~>
      \/ server.journal[t] = None \/ server.task[t].state = "cancelled" \/ ~Readable
      \/ server.crossed # {}

\* The tasks can always be read.  They cannot: a crash between a Task and its
\* index leaves a store that refuses every read (loadTask).
StoreReadable == requests = {} => Readable

\* An Employee has one Task queued or running, and no second one but by a resume,
\* which does not ask (ensureEmployeeRunAvailable).
OneTaskEach ==
  Cardinality({t \in Tasks \ (server.resumed \cup server.crossed) :
    server.task[t].bound /\ server.session[t].run \in {"queued", "running"}}) <= 1
=============================================================================
