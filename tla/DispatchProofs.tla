---------------------------- MODULE DispatchProofs ----------------------------
(* What is proved of the dispatch of Employee Tasks, for any number of Tasks,  *)
(* starts, resumes, cancels, refused writes and crashes.                      *)
EXTENDS Dispatch, FiniteSetTheorems, TLAPS

-----------------------------------------------------------------------------
(* What the files and the calls hold.                                        *)

TaskFiles == [state : {"queued", "cancelled"}, bound : BOOLEAN]
Stages == {"prepared", "session_created", "run_prepared", "run_created", "task_bound"}
RunStates == {"queued", "running", "interrupted"} \cup Terminal
Sessions == [run : RunStates \cup {None}, recipe : BOOLEAN]

\* None is told from a Task, a stage, the status of a Run and a Session.
Distinct == None \notin Tasks \cup Stages \cup RunStates \cup Sessions

Server ==
  [task : [Tasks -> TaskFiles], index : [Tasks -> TaskFiles],
   journal : [Tasks -> Stages \cup {None}], session : [Tasks -> Sessions \cup {None}],
   messages : [Tasks -> Nat], runner : Tasks \cup {None}, mine : Sessions \cup {None},
   stopping : BOOLEAN, started : [Tasks -> Nat], resumed : SUBSET Tasks,
   crossed : SUBSET Tasks]

Places ==
  {"task", "prepare", "save", "match", "mark", "load", "recipe", "dispatched", "session",
   "fix", "run", "message", "created", "bind", "index", "bound", "complete", "reconcile",
   "launch", "wait", "resume", "stop", "discard"}
Calls ==
  [op : Operations \cup {"loop"}, task : Tasks, at : Places, copy : Sessions \cup {None}]

\* employeeTaskMu lets one operation in and there is one Loop call; a Task that
\* was not crossed has one call.
OneAtATime(crossed, calls) ==
  \A c, d \in calls :
    \/ c.task = d.task /\ c.task \notin crossed
    \/ c.op \in Operations <=> d.op \in Operations
    => c = d

HasRun(s, t) == s.session[t] # None /\ s.session[t].run # None

\* The files of Task t: what each stage of its journal names is there.
TaskInv(s, t) ==
  LET stage == s.journal[t] IN
  /\ stage \notin {None, "prepared"} => s.session[t] # None
  /\ s.messages[t] <= 1
  /\ stage \in {"run_created", "task_bound"} \/ s.task[t].bound =>
       HasRun(s, t) /\ s.messages[t] = 1
  /\ s.task[t].bound => s.task[t].state = "queued"
  /\ stage = "task_bound" => s.task[t].bound
  /\ stage # None /\ s.task[t].bound => stage \in {"run_created", "task_bound"}

Unbound(s, t) == s.task[t] = [state |-> "queued", bound |-> FALSE]

\* Where a start works on a Task that is not bound yet.
MayBind ==
  {"prepare", "save", "mark", "session", "fix", "run", "message", "created", "bind"}

\* What a call relies on where it is: no one else works on its Task.
PlaceAt(s, t, op, at, copy) ==
  LET stage == s.journal[t] IN
  /\ at \in MayBind \cup {"load", "recipe"} => Unbound(s, t)
  /\ at \in {"save", "mark"} => stage \in {"prepared", "session_created"}
  /\ at = "prepare" => stage \in {None, "prepared"}
  /\ at = "save" => copy = s.session[t]
  /\ at = "mark" => s.session[t] # None
  /\ at \in {"load", "recipe"} => stage = "session_created"
  /\ at = "recipe" => copy = s.session[t]
  /\ at = "match" => FALSE
  /\ at = "session" => stage \notin {None, "prepared"}
  /\ at = "fix" => stage = "session_created" /\ copy = s.session[t]
  /\ at = "run" => stage = "run_prepared" /\ copy = s.session[t]
  /\ at \in {"message", "created"} => stage = "run_prepared" /\ HasRun(s, t)
  /\ at = "created" => s.messages[t] = 1
  /\ at = "bind" => stage = "run_created"
  /\ at = "index" /\ op # "cancel" => s.task[t].bound /\ stage = "run_created"
  /\ at = "bound" => s.task[t].bound /\ stage = "run_created"
  /\ at = "complete" => s.task[t].bound /\ stage = "task_bound"
  /\ at \in {"reconcile", "stop"} => s.task[t].bound
  /\ at \in {"launch", "resume"} => s.task[t].bound /\ stage = None
  /\ op = "loop" => at \in {"prepare", "save", "mark", "load", "recipe", "dispatched"}

PlaceInv(s, c) == PlaceAt(s, c.task, c.op, c.at, c.copy)

\* What is left for the calls on a crossed Task: a Session is not removed.
Needed(s, t, op, at, copy) ==
  /\ at \in {"recipe", "fix", "run"} => copy # None
  /\ at = "save" /\ copy # None => s.session[t] # None
  /\ at \in {"match", "mark", "load", "recipe", "fix", "run", "message", "created", "bind", "bound", "complete",
             "reconcile", "launch", "resume", "stop"} => s.session[t] # None
  /\ at = "index" /\ op # "cancel" => s.session[t] # None

NeededInv(s, c) == Needed(s, c.task, c.op, c.at, c.copy)

\* A Run executes once its dispatch is over, with the Session as it is on disk; one
\* that a resume launched goes on from where it was interrupted.
RunnerInv(s) ==
  s.runner # None =>
    /\ s.mine # None
    /\ s.runner \notin s.crossed =>
         /\ s.task[s.runner] = [state |-> "queued", bound |-> TRUE]
         /\ s.journal[s.runner] = None
         /\ s.mine = s.session[s.runner]
         /\ s.session[s.runner].run = "interrupted" => s.runner \in s.resumed

\* A Run that a start launched is not launchable again.
StartedInv(s) ==
  \A t \in Tasks \ s.crossed :
    /\ s.started[t] <= 1
    /\ s.started[t] = 1 =>
         s.task[t].bound /\ (s.session[t].run = "queued" => s.runner = t)

Busy(s, t) == s.task[t].bound /\ s.session[t].run \in {"queued", "running"}

\* No two Tasks are under way, and none is but the one that is being dispatched,
\* except by a resume or a crossing.
Excused(s) == s.resumed \cup s.crossed
AloneInv(s, calls) ==
  /\ \A t, u \in Tasks \ Excused(s) : Busy(s, t) /\ Busy(s, u) => t = u
  /\ \A c \in calls :
       c.task \notin s.crossed /\ c.op = "start" /\ c.at \in MayBind =>
         \A u \in Tasks \ {c.task} : Busy(s, u) => u \in Excused(s)

FileInv(s, t) ==
  /\ t \notin s.crossed => TaskInv(s, t)
  /\ s.task[t].bound \/ s.journal[t] \notin {None, "prepared"} => s.session[t] # None

CallInv(s, c) ==
  /\ c.task \notin s.crossed => PlaceInv(s, c)
  /\ NeededInv(s, c)

DispatchInv ==
  /\ server \in Server /\ requests \subseteq Calls
  /\ OneAtATime(server.crossed, requests)
  /\ \A t \in Tasks : FileInv(server, t)
  /\ \A c \in requests : CallInv(server, c)
  /\ RunnerInv(server) /\ StartedInv(server) /\ AloneInv(server, requests)

-----------------------------------------------------------------------------
(* A step of a call touches the files of its Task, and what the call does    *)
(* next is one call, or none.                                                *)

SameFiles(s, z, t) ==
  /\ z.task[t] = s.task[t] /\ z.journal[t] = s.journal[t]
  /\ z.session[t] = s.session[t] /\ z.messages[t] = s.messages[t]

Elsewhere(s, z, t) == \A u \in Tasks \ {t} : SameFiles(s, z, u)

\* The call goes on as one of N, and is lost when N is empty.
GoesOn(c, N) ==
  /\ requests' = (requests \ {c}) \cup N
  /\ \A d \in N :
       /\ d \in Calls /\ d.task = c.task /\ (\A e \in N : e = d)
       /\ d.op = c.op \/ (~Locked /\ d.op = "start" /\ d.at = "task")
       /\ CallInv(server', d)
       /\ c.task \notin server.crossed /\ d.op = "start" /\ d.at \in MayBind =>
            \/ c.op = "start" /\ c.at \in MayBind
            \/ \A u \in Tasks \ {c.task} : ~Busy(server, u)

\* A Task that was not crossed has all that a crossed one needs.
LEMMA PlaceNeeds ==
  ASSUME Distinct, NEW s, NEW t, NEW op, NEW at, NEW copy,
         TaskInv(s, t), PlaceAt(s, t, op, at, copy)
  PROVE  Needed(s, t, op, at, copy)
BY DEF TaskInv, PlaceAt, Needed, HasRun, MayBind, Distinct, Stages

LEMMA TaskNeeds ==
  ASSUME Distinct, NEW s, NEW t, TaskInv(s, t)
  PROVE  FileInv(s, t)
BY DEF TaskInv, FileInv, HasRun

LEMMA CallFacts ==
  ASSUME DispatchInv, NEW c \in requests, c.task \notin server.crossed
  PROVE  /\ c \in Calls /\ c.task \in Tasks
         /\ TaskInv(server, c.task) /\ PlaceInv(server, c)
         /\ server \in Server
<1>1. c \in Calls /\ c.task \in Tasks /\ server \in Server
  BY DEF DispatchInv, Calls
<1>2. FileInv(server, c.task) /\ CallInv(server, c)
  BY <1>1 DEF DispatchInv
<1> QED BY <1>1, <1>2 DEF FileInv, CallInv

LEMMA CallsKept ==
  ASSUME DispatchInv, NEW c \in requests, NEW N, GoesOn(c, N),
         Elsewhere(server, server', c.task), server'.crossed = server.crossed,
         c.task \in server.crossed =>
           (server.session[c.task] # None => server'.session[c.task] # None)
  PROVE  /\ requests' \subseteq Calls /\ OneAtATime(server'.crossed, requests')
         /\ \A d \in requests' : CallInv(server', d)
<1>1. /\ requests \subseteq Calls /\ OneAtATime(server.crossed, requests)
      /\ \A d \in requests : CallInv(server, d)
  BY DEF DispatchInv
<1>2. requests' \subseteq Calls
  BY <1>1 DEF GoesOn
<1>3. ASSUME NEW d \in requests \ {c} PROVE CallInv(server', d)
  <2>1. d.task \in Tasks /\ CallInv(server, d)
    BY <1>1, <1>3 DEF Calls
  <2>2. CASE d.task # c.task
    <3>1. SameFiles(server, server', d.task)
      BY <2>1, <2>2 DEF Elsewhere
    <3>2. PlaceInv(server, d) => PlaceInv(server', d)
      BY <3>1 DEF PlaceInv, PlaceAt, SameFiles, Unbound, HasRun
    <3>3. NeededInv(server, d) => NeededInv(server', d)
      BY <3>1 DEF NeededInv, Needed, SameFiles
    <3> QED BY <2>1, <3>2, <3>3 DEF CallInv
  <2>3. CASE d.task = c.task
    <3>1. c.task \in server.crossed
      BY <1>1, <1>3, <2>3 DEF OneAtATime
    <3>2. NeededInv(server, d) => NeededInv(server', d)
      BY <2>3, <3>1 DEF NeededInv, Needed
    <3> QED BY <2>1, <2>3, <3>1, <3>2 DEF CallInv
  <2> QED BY <2>2, <2>3
<1>4. OneAtATime(server.crossed, requests')
  <2>1. ASSUME NEW d \in requests', NEW e \in requests',
               \/ d.task = e.task /\ d.task \notin server.crossed
               \/ d.op \in Operations <=> e.op \in Operations
        PROVE  d = e
    <3>1. CASE d \in requests \ {c} /\ e \in requests \ {c}
      BY <1>1, <2>1, <3>1 DEF OneAtATime
    <3>2. CASE d \in N /\ e \in N
      BY <3>2 DEF GoesOn
    <3>3. ASSUME NEW x \in N, NEW y \in requests \ {c},
                 \/ x.task = y.task /\ x.task \notin server.crossed
                 \/ x.op \in Operations <=> y.op \in Operations
          PROVE  FALSE
      <4>1. x.task = c.task
        BY <3>3 DEF GoesOn
      <4>2. ~(y.task = c.task /\ c.task \notin server.crossed)
        BY <1>1, <3>3 DEF OneAtATime
      <4>3. x.op \in Operations <=> y.op \in Operations
        BY <3>3, <4>1, <4>2
      <4>4. CASE x.op = c.op
        BY <1>1, <3>3, <4>3, <4>4 DEF OneAtATime
      <4>5. CASE ~Locked /\ x.op = "start"
        BY <3>3, <4>3, <4>5 DEF Locked, Operations
      <4> QED BY <3>3, <4>4, <4>5 DEF GoesOn
    <3> QED BY <2>1, <3>1, <3>2, <3>3 DEF GoesOn
  <2> QED BY <2>1 DEF OneAtATime
<1>5. ASSUME NEW d \in requests' PROVE CallInv(server', d)
  BY <1>3, <1>5 DEF GoesOn
<1> QED BY <1>2, <1>4, <1>5

\* A step that leaves Runner and launches alone, and binds nothing.
FilesStep(c) ==
  /\ server'.runner = server.runner /\ server'.mine = server.mine
  /\ server'.started = server.started /\ server'.resumed = server.resumed
  /\ server'.crossed = server.crossed
  /\ Elsewhere(server, server', c.task)
  /\ \/ ~server.task[c.task].bound /\ ~server'.task[c.task].bound
     \/ /\ server'.task[c.task] = server.task[c.task]
        /\ server'.session[c.task] = server.session[c.task]
        /\ \/ server'.journal[c.task] \in {None, server.journal[c.task]}
           \/ server.journal[c.task] # None

LEMMA OtherFiles ==
  ASSUME Distinct, DispatchInv, NEW t \in Tasks, Elsewhere(server, server', t),
         server'.crossed = server.crossed, FileInv(server', t)
  PROVE  \A u \in Tasks : FileInv(server', u)
<1>1. ASSUME NEW u \in Tasks \ {t} PROVE FileInv(server', u)
  <2>1. SameFiles(server, server', u) /\ FileInv(server, u)
    BY <1>1 DEF Elsewhere, DispatchInv
  <2>2. TaskInv(server, u) => TaskInv(server', u)
    BY <2>1 DEF TaskInv, SameFiles, HasRun
  <2> QED BY <2>1, <2>2 DEF FileInv, SameFiles
<1> QED BY <1>1

LEMMA FilesKeep ==
  ASSUME Distinct, DispatchInv, NEW c \in requests, c.task \notin server.crossed,
         NEW N, GoesOn(c, N), FilesStep(c), server' \in Server, TaskInv(server', c.task)
  PROVE  DispatchInv'
<1> DEFINE t == c.task
<1>1. t \in Tasks /\ TaskInv(server, t)
  BY CallFacts
<1>2. /\ requests' \subseteq Calls /\ OneAtATime(server'.crossed, requests')
      /\ \A d \in requests' : CallInv(server', d)
  BY CallsKept DEF FilesStep
<1>3. \A u \in Tasks : FileInv(server', u)
  BY <1>1, TaskNeeds, OtherFiles DEF FilesStep
<1>4. \A u \in Tasks : /\ server'.task[u].bound = server.task[u].bound
                       /\ server.task[u].bound => server'.task[u] = server.task[u]
                                                 /\ server'.session[u] = server.session[u]
  <2>1. ASSUME NEW u \in Tasks, u # t
        PROVE  server'.task[u] = server.task[u] /\ server'.session[u] = server.session[u]
    BY <2>1 DEF FilesStep, Elsewhere, SameFiles
  <2>2. server.task[t].bound \in BOOLEAN /\ server'.task[t].bound \in BOOLEAN
    BY <1>1 DEF DispatchInv, Server, TaskFiles
  <2>3. /\ server'.task[t].bound = server.task[t].bound
        /\ server.task[t].bound => server'.task[t] = server.task[t]
                                 /\ server'.session[t] = server.session[t]
    BY <2>2 DEF FilesStep
  <2> QED BY <2>1, <2>3
<1>5. RunnerInv(server')
  <2> SUFFICES ASSUME server.runner # None PROVE RunnerInv(server')
    BY DEF FilesStep, RunnerInv
  <2>1. server.runner \in Tasks
    BY DEF DispatchInv, Server
  <2>2. RunnerInv(server) /\ server.mine # None
    BY DEF DispatchInv, RunnerInv
  <2>3. CASE server.runner \in server.crossed
    BY <2>2, <2>3 DEF RunnerInv, FilesStep
  <2>4. CASE server.runner \notin server.crossed
    <3>1. server.task[server.runner].bound
      BY <2>2, <2>4 DEF RunnerInv
    <3>2. server'.task[server.runner] = server.task[server.runner]
          /\ server'.session[server.runner] = server.session[server.runner]
      BY <1>4, <2>1, <3>1
    <3>3. server'.journal[server.runner] = None
      <4>1. CASE server.runner = t
        BY <2>2, <2>4, <3>1, <4>1 DEF RunnerInv, FilesStep
      <4>2. CASE server.runner # t
        BY <2>1, <2>2, <2>4, <4>2 DEF RunnerInv, FilesStep, Elsewhere, SameFiles
      <4> QED BY <4>1, <4>2
    <3> QED BY <2>2, <2>4, <3>2, <3>3 DEF RunnerInv, FilesStep
  <2> QED BY <2>3, <2>4
<1>6. StartedInv(server')
  <2>1. StartedInv(server)
    BY DEF DispatchInv
  <2> QED BY <1>4, <2>1 DEF StartedInv, FilesStep
<1>7. \A u \in Tasks : Busy(server', u) <=> Busy(server, u)
  BY <1>4 DEF Busy
<1>8. AloneInv(server', requests')
  <2>1. AloneInv(server, requests)
    BY DEF DispatchInv
  <2>2. Excused(server') = Excused(server) /\ server'.crossed = server.crossed
    BY DEF FilesStep, Excused
  <2>3. ASSUME NEW d \in requests', d.task \notin server.crossed, d.op = "start",
               d.at \in MayBind, NEW u \in Tasks \ {d.task}, Busy(server, u)
        PROVE  u \in Excused(server)
    <3>1. CASE d \in requests
      BY <2>1, <2>3, <3>1 DEF AloneInv
    <3>2. CASE d \in N
      <4>1. d.task = c.task
        BY <3>2 DEF GoesOn
      <4>2. (c.op = "start" /\ c.at \in MayBind) \/ \A v \in Tasks \ {c.task} : ~Busy(server, v)
        BY <2>3, <3>2 DEF GoesOn
      <4> QED BY <2>1, <2>3, <4>1, <4>2 DEF AloneInv
    <3> QED BY <3>1, <3>2 DEF GoesOn
  <2> QED BY <1>7, <2>1, <2>2, <2>3 DEF AloneInv
<1> QED BY <1>2, <1>3, <1>5, <1>6, <1>8 DEF DispatchInv

LEMMA Lost ==
  ASSUME NEW c, Returns(c) PROVE GoesOn(c, {})
BY DEF Returns, GoesOn

LEMMA Held ==
  ASSUME Distinct, NEW c \in Calls, NEW at \in Places, NEW copy \in Sessions \cup {None},
         Holds(c, at, copy), TaskInv(server', c.task),
         PlaceAt(server', c.task, c.op, at, copy),
         c.op = "start" /\ at \in MayBind =>
           c.at \in MayBind \/ \A u \in Tasks \ {c.task} : ~Busy(server, u)
  PROVE  GoesOn(c, {[c EXCEPT !.at = at, !.copy = copy]})
<1> DEFINE d == [c EXCEPT !.at = at, !.copy = copy]
<1>1. /\ d \in Calls /\ d.task = c.task /\ d.op = c.op /\ d.at = at /\ d.copy = copy
  BY DEF Calls
<1>2. requests' = (requests \ {c}) \cup {d}
  BY DEF Holds
<1> HIDE DEF d
<1>3. CallInv(server', d)
  BY <1>1, PlaceNeeds DEF CallInv, PlaceInv, NeededInv
<1>4. GoesOn(c, {d})
  BY <1>1, <1>2, <1>3 DEF GoesOn
<1> QED BY <1>4 DEF d

LEMMA MovedOn ==
  ASSUME Distinct, NEW c \in Calls, NEW at \in Places,
         Moves(c, at), TaskInv(server', c.task), PlaceAt(server', c.task, c.op, at, None),
         c.op = "start" /\ at \in MayBind =>
           c.at \in MayBind \/ \A u \in Tasks \ {c.task} : ~Busy(server, u)
  PROVE  GoesOn(c, {[c EXCEPT !.at = at, !.copy = None]})
<1>1. Holds(c, at, None)
  BY DEF Moves, Holds
<1> QED BY <1>1, Held

LEMMA ReturnKeeps ==
  ASSUME Distinct, DispatchInv, NEW c \in requests, c.task \notin server.crossed,
         Returns(c), FilesStep(c),
         server' \in Server, TaskInv(server', c.task)
  PROVE  DispatchInv'
BY Lost, FilesKeep

LEMMA HoldKeeps ==
  ASSUME Distinct, DispatchInv, NEW c \in requests, c.task \notin server.crossed,
         NEW at \in Places,
         NEW copy \in Sessions \cup {None}, Holds(c, at, copy), FilesStep(c),
         server' \in Server, TaskInv(server', c.task),
         PlaceAt(server', c.task, c.op, at, copy),
         c.op = "start" /\ at \in MayBind =>
           c.at \in MayBind \/ \A u \in Tasks \ {c.task} : ~Busy(server, u)
  PROVE  DispatchInv'
<1>1. c \in Calls
  BY CallFacts
<1>2. GoesOn(c, {[c EXCEPT !.at = at, !.copy = copy]})
  BY <1>1, Held
<1> QED BY <1>2, FilesKeep

LEMMA MoveKeeps ==
  ASSUME Distinct, DispatchInv, NEW c \in requests, c.task \notin server.crossed,
         NEW at \in Places, Moves(c, at),
         FilesStep(c), server' \in Server, TaskInv(server', c.task),
         PlaceAt(server', c.task, c.op, at, None),
         c.op = "start" /\ at \in MayBind =>
           c.at \in MayBind \/ \A u \in Tasks \ {c.task} : ~Busy(server, u)
  PROVE  DispatchInv'
<1>1. Holds(c, at, None)
  BY DEF Moves, Holds
<1> QED BY <1>1, HoldKeeps

\* A step that writes nothing.
LEMMA NothingWritten ==
  ASSUME DispatchInv, NEW c \in requests, c.task \notin server.crossed, server' = server
  PROVE  FilesStep(c) /\ server' \in Server /\ TaskInv(server', c.task)
BY CallFacts DEF FilesStep, Elsewhere, SameFiles

-----------------------------------------------------------------------------
(* The steps of a start.                                                     *)

LEMMA StartTaskKeeps ==
  ASSUME Distinct, DispatchInv, NEW c \in requests, c.task \notin server.crossed,
         StartTask(c) PROVE DispatchInv'
<1> DEFINE t == c.task
<1>1. /\ c \in Calls /\ t \in Tasks /\ TaskInv(server, t) /\ server \in Server
      /\ c.op = "start" /\ server' = server
  BY CallFacts DEF StartTask, At
<1>2. FilesStep(c) /\ server' \in Server /\ TaskInv(server', t)
  BY <1>1, NothingWritten
<1>3. CASE Returns(c)
  BY <1>2, <1>3, ReturnKeeps
<1>4. CASE server.task[t].bound /\ Moves(c, "reconcile")
  <2>1. PlaceAt(server', t, c.op, "reconcile", None)
    BY <1>1, <1>4 DEF PlaceAt, MayBind
  <2> QED BY <1>2, <1>4, <2>1, MoveKeeps DEF Places, MayBind
<1>5. ASSUME ~server.task[t].bound, server.task[t].state # "cancelled", Available(t)
      PROVE  Unbound(server, t) /\ \A u \in Tasks \ {t} : ~Busy(server, u)
  BY <1>1, <1>5 DEF Unbound, Available, Busy, Server, TaskFiles
<1>6. CASE /\ ~server.task[t].bound /\ server.task[t].state # "cancelled" /\ Available(t)
           /\ server.journal[t] \in {None, "prepared"} /\ Moves(c, "prepare")
  <2>1. PlaceAt(server', t, c.op, "prepare", None)
    BY <1>1, <1>5, <1>6 DEF PlaceAt, MayBind
  <2> QED BY <1>2, <1>5, <1>6, <2>1, MoveKeeps DEF Places
<1>7. CASE /\ ~server.task[t].bound /\ server.task[t].state # "cancelled" /\ Available(t)
           /\ server.journal[t] \notin {None, "prepared"} /\ Moves(c, "session")
  <2>1. PlaceAt(server', t, c.op, "session", None)
    BY <1>1, <1>5, <1>7 DEF PlaceAt, MayBind
  <2> QED BY <1>2, <1>5, <1>7, <2>1, MoveKeeps DEF Places
<1> QED BY <1>3, <1>4, <1>6, <1>7 DEF StartTask

LEMMA PrepareDispatchKeeps ==
  ASSUME Distinct, DispatchInv, NEW c \in requests, c.task \notin server.crossed,
         PrepareDispatch(c) PROVE DispatchInv'
<1> DEFINE t == c.task
           stage == IF server.journal[t] = None THEN "prepared" ELSE server.journal[t]
           at == IF server.journal[t] = "session_created" THEN "match" ELSE "save"
<1>1. /\ c \in Calls /\ t \in Tasks /\ TaskInv(server, t) /\ server \in Server
      /\ c.op \in {"start", "loop"} /\ c.at = "prepare"
  BY CallFacts DEF PrepareDispatch, At
<1>2. Unbound(server, t) /\ server.journal[t] \in {None, "prepared"}
  BY <1>1, CallFacts DEF PlaceInv, PlaceAt, MayBind
<1>3. CASE Returns(c) /\ UNCHANGED server
  BY <1>3, NothingWritten, ReturnKeeps
<1>4. CASE /\ Holds(c, at, server.session[t])
           /\ server' = [server EXCEPT !.journal[t] = stage]
  <2>1. /\ server.session[t] \in Sessions \cup {None} /\ stage = "prepared"
        /\ at = "save"
    BY <1>1, <1>2 DEF Server, Distinct, Stages
  <2>2. /\ server' \in Server /\ FilesStep(c) /\ server'.journal[t] = "prepared"
        /\ server'.session[t] = server.session[t] /\ server'.task[t] = server.task[t]
        /\ server'.messages[t] = server.messages[t]
    BY <1>1, <1>2, <1>4, <2>1 DEF Server, Stages, FilesStep, Elsewhere, SameFiles, Unbound
  <2>3. TaskInv(server', t)
    BY <1>1, <1>2, <2>2 DEF TaskInv, Unbound, HasRun
  <2>4. PlaceAt(server', t, c.op, "save", server.session[t])
    BY <1>2, <2>2 DEF PlaceAt, Unbound
  <2> QED BY <1>1, <1>4, <2>1, <2>2, <2>3, <2>4, HoldKeeps DEF Places, MayBind
<1> QED BY <1>3, <1>4 DEF PrepareDispatch

LEMMA NewPreparedKeeps ==
  ASSUME Distinct, DispatchInv, NEW c \in requests, c.task \notin server.crossed,
         NewPrepared(c) PROVE DispatchInv'
<1> DEFINE t == c.task
           new == [run |-> None, recipe |-> FALSE]
<1>1. /\ c \in Calls /\ t \in Tasks /\ TaskInv(server, t) /\ server \in Server
      /\ c.op \in {"start", "loop"} /\ c.at = "save"
  BY CallFacts DEF NewPrepared, At
<1>2. /\ Unbound(server, t) /\ server.journal[t] \in {"prepared", "session_created"}
      /\ c.copy = server.session[t]
  BY <1>1, CallFacts DEF PlaceInv, PlaceAt, MayBind
<1>3. CASE Returns(c) /\ UNCHANGED server
  BY <1>3, NothingWritten, ReturnKeeps
<1>4. CASE c.copy # None /\ Moves(c, "mark") /\ UNCHANGED server
  <2>1. PlaceAt(server', t, c.op, "mark", None)
    BY <1>2, <1>4 DEF PlaceAt, Unbound
  <2> QED BY <1>1, <1>4, <2>1, NothingWritten, MoveKeeps DEF Places, MayBind
<1>5. CASE Moves(c, "mark") /\ server' = [server EXCEPT !.session[t] = new]
  <2>1. /\ new \in Sessions /\ new # None
        /\ new.run = None
    <3>1. new \in Sessions
      BY DEF Sessions
    <3> QED BY <3>1 DEF Distinct
  <2> HIDE DEF new
  <2>2. /\ server' \in Server /\ FilesStep(c) /\ server'.journal[t] = server.journal[t]
        /\ server'.session[t] = new /\ server'.task[t] = server.task[t]
        /\ server'.messages[t] = server.messages[t]
    BY <1>1, <1>2, <1>5, <2>1 DEF Server, FilesStep, Elsewhere, SameFiles, Unbound
  <2>3. TaskInv(server', t)
    BY <1>1, <1>2, <2>1, <2>2 DEF TaskInv, Unbound, HasRun
  <2>4. PlaceAt(server', t, c.op, "mark", None)
    BY <1>2, <2>1, <2>2 DEF PlaceAt, Unbound
  <2> QED BY <1>1, <1>5, <2>2, <2>3, <2>4, MoveKeeps DEF Places, MayBind
<1> QED BY <1>3, <1>4, <1>5 DEF NewPrepared

LEMMA MatchKeeps ==
  ASSUME Distinct, DispatchInv, NEW c \in requests, c.task \notin server.crossed,
         preparedSessionMatches(c)
  PROVE  DispatchInv'
BY CallFacts DEF preparedSessionMatches, At, PlaceInv, PlaceAt

LEMMA MarkSessionCreatedKeeps ==
  ASSUME Distinct, DispatchInv, NEW c \in requests, c.task \notin server.crossed,
         MarkSessionCreated(c) PROVE DispatchInv'
<1> DEFINE t == c.task
           at == IF c.op = "loop" THEN "load" ELSE "session"
<1>1. /\ c \in Calls /\ t \in Tasks /\ TaskInv(server, t) /\ server \in Server
      /\ c.op \in {"start", "loop"} /\ c.at = "mark"
  BY CallFacts DEF MarkSessionCreated, At
<1>2. /\ Unbound(server, t) /\ server.journal[t] \in {"prepared", "session_created"}
      /\ server.session[t] # None
  BY <1>1, CallFacts DEF PlaceInv, PlaceAt, MayBind
<1>3. CASE Returns(c) /\ UNCHANGED server
  BY <1>3, NothingWritten, ReturnKeeps
<1>4. CASE Moves(c, at) /\ server' = [server EXCEPT !.journal[t] = "session_created"]
  <2>1. /\ server' \in Server /\ FilesStep(c) /\ server'.journal[t] = "session_created"
        /\ server'.session[t] = server.session[t] /\ server'.task[t] = server.task[t]
        /\ server'.messages[t] = server.messages[t]
    BY <1>1, <1>2, <1>4 DEF Server, Stages, FilesStep, Elsewhere, SameFiles, Unbound
  <2>2. TaskInv(server', t)
    BY <1>1, <1>2, <2>1 DEF TaskInv, Unbound, HasRun
  <2>3. PlaceAt(server', t, c.op, at, None)
    <3>1. "session_created" # None
      BY DEF Distinct, Stages
    <3> QED BY <1>1, <1>2, <2>1, <3>1 DEF PlaceAt, Unbound
  <2>4. at \in Places
    BY DEF Places
  <2> HIDE DEF at
  <2> QED BY <1>1, <1>4, <2>1, <2>2, <2>3, <2>4, MoveKeeps DEF MayBind
<1> QED BY <1>3, <1>4 DEF MarkSessionCreated, Prepared

LEMMA LoadSessionKeeps ==
  ASSUME Distinct, DispatchInv, NEW c \in requests, c.task \notin server.crossed,
         LoadSession(c)
  PROVE  DispatchInv'
<1> DEFINE t == c.task
<1>1. /\ c \in Calls /\ t \in Tasks /\ server \in Server /\ c.at = "session"
      /\ c.op = "start" /\ server' = server
  BY CallFacts DEF LoadSession, At
<1>2. Unbound(server, t)
  BY <1>1, CallFacts DEF PlaceInv, PlaceAt, MayBind
<1>3. CASE Returns(c)
  BY <1>1, <1>3, NothingWritten, ReturnKeeps
<1>4. server.session[t] \in Sessions \cup {None}
  BY <1>1 DEF Server
<1>5. CASE server.journal[t] = "session_created" /\ Holds(c, "fix", server.session[t])
  <2>1. PlaceAt(server', t, c.op, "fix", server.session[t])
    BY <1>1, <1>2, <1>5 DEF PlaceAt
  <2> QED BY <1>1, <1>4, <1>5, <2>1, NothingWritten, HoldKeeps DEF Places, MayBind
<1>6. CASE server.journal[t] = "run_prepared" /\ Holds(c, "run", server.session[t])
  <2>1. PlaceAt(server', t, c.op, "run", server.session[t])
    BY <1>1, <1>2, <1>6 DEF PlaceAt
  <2> QED BY <1>1, <1>4, <1>6, <2>1, NothingWritten, HoldKeeps DEF Places, MayBind
<1>7. CASE server.journal[t] = "run_created" /\ Moves(c, "bind")
  <2>1. PlaceAt(server', t, c.op, "bind", None)
    BY <1>1, <1>2, <1>7 DEF PlaceAt
  <2> QED BY <1>1, <1>7, <2>1, NothingWritten, MoveKeeps DEF Places, MayBind
<1> QED BY <1>3, <1>5, <1>6, <1>7 DEF LoadSession

LEMMA PrepareDispatchRunKeeps ==
  ASSUME Distinct, DispatchInv, NEW c \in requests, c.task \notin server.crossed,
         PrepareDispatchRun(c)
  PROVE  DispatchInv'
<1> DEFINE t == c.task
<1>1. /\ c \in Calls /\ t \in Tasks /\ TaskInv(server, t) /\ server \in Server
      /\ c.op = "start" /\ c.at = "fix" /\ Holds(c, "run", c.copy)
      /\ server' = [server EXCEPT !.journal[t] = "run_prepared"]
  BY CallFacts DEF PrepareDispatchRun, At
<1>2. "session_created" # None /\ "run_prepared" # None
  BY DEF Distinct, Stages
<1>3. /\ Unbound(server, t) /\ server.journal[t] = "session_created"
      /\ c.copy = server.session[t] /\ server.session[t] # None
  BY <1>1, <1>2, CallFacts DEF PlaceInv, PlaceAt, MayBind, TaskInv
<1>4. /\ server' \in Server /\ FilesStep(c) /\ server'.journal[t] = "run_prepared"
      /\ server'.session[t] = server.session[t] /\ server'.task[t] = server.task[t]
      /\ server'.messages[t] = server.messages[t]
  BY <1>1, <1>3 DEF Server, Stages, FilesStep, Elsewhere, SameFiles, Unbound
<1>5. TaskInv(server', t)
  BY <1>1, <1>3, <1>4 DEF TaskInv, Unbound, HasRun
<1>6. PlaceAt(server', t, c.op, "run", c.copy)
  BY <1>1, <1>2, <1>3, <1>4 DEF PlaceAt, Unbound
<1>7. c.copy \in Sessions \cup {None}
  BY <1>1 DEF Calls
<1> QED BY <1>1, <1>4, <1>5, <1>6, <1>7, HoldKeeps DEF Places, MayBind

LEMMA NewRunKeeps ==
  ASSUME Distinct, DispatchInv, NEW c \in requests, c.task \notin server.crossed,
         NewRun(c) PROVE DispatchInv'
<1> DEFINE t == c.task
           saved == [c.copy EXCEPT !.run = IF @ = None THEN "queued" ELSE @]
<1>1. /\ c \in Calls /\ t \in Tasks /\ TaskInv(server, t) /\ server \in Server
      /\ c.op = "start" /\ c.at = "run"
      /\ Moves(c, "message") /\ server' = [server EXCEPT !.session[t] = saved]
  BY CallFacts DEF NewRun, At
<1>2. "run_prepared" # None /\ "queued" # None
  BY DEF Distinct, Stages, RunStates
<1>3. /\ Unbound(server, t) /\ server.journal[t] = "run_prepared"
      /\ c.copy = server.session[t] /\ server.session[t] # None
  BY <1>1, <1>2, CallFacts DEF PlaceInv, PlaceAt, MayBind, TaskInv
<1>4. c.copy \in Sessions
  BY <1>1, <1>3 DEF Server
<1>5. saved \in Sessions /\ saved.run # None
  BY <1>2, <1>3, <1>4 DEF Sessions, RunStates
<1>6. saved # None
  BY <1>5 DEF Distinct
<1> HIDE DEF saved
<1>7. /\ server' \in Server /\ FilesStep(c) /\ server'.journal[t] = "run_prepared"
      /\ server'.session[t] = saved /\ server'.task[t] = server.task[t]
      /\ server'.messages[t] = server.messages[t]
  BY <1>1, <1>3, <1>5 DEF Server, FilesStep, Elsewhere, SameFiles, Unbound
<1>8. TaskInv(server', t)
  BY <1>1, <1>3, <1>5, <1>6, <1>7 DEF TaskInv, Unbound, HasRun
<1>9. PlaceAt(server', t, c.op, "message", None)
  BY <1>1, <1>3, <1>5, <1>6, <1>7 DEF PlaceAt, Unbound, HasRun
<1> QED BY <1>1, <1>7, <1>8, <1>9, MoveKeeps DEF Places, MayBind

LEMMA RunMessageKeeps ==
  ASSUME Distinct, DispatchInv, NEW c \in requests, c.task \notin server.crossed,
         ensureEmployeeRunMessage(c)
  PROVE  DispatchInv'
<1> DEFINE t == c.task
           n == IF server.messages[t] = 0 THEN 1 ELSE server.messages[t]
<1>1. /\ c \in Calls /\ t \in Tasks /\ TaskInv(server, t) /\ server \in Server
      /\ c.at = "message" /\ Moves(c, "created")
      /\ server' = [server EXCEPT !.messages[t] = n]
  BY CallFacts DEF ensureEmployeeRunMessage, Writes, At
<1>2. /\ Unbound(server, t) /\ server.journal[t] = "run_prepared" /\ HasRun(server, t)
      /\ c.op # "loop"
  BY <1>1, CallFacts DEF PlaceInv, PlaceAt, MayBind
<1>3. n = 1
  <2>1. server.messages[t] \in Nat /\ server.messages[t] <= 1
    BY <1>1 DEF Server, TaskInv
  <2> QED BY <2>1
<1> HIDE DEF n
<1>4. /\ server' \in Server /\ FilesStep(c) /\ server'.journal[t] = "run_prepared"
      /\ server'.session[t] = server.session[t] /\ server'.task[t] = server.task[t]
      /\ server'.messages[t] = 1
  BY <1>1, <1>2, <1>3 DEF Server, FilesStep, Elsewhere, SameFiles, Unbound
<1>5. TaskInv(server', t)
  BY <1>1, <1>2, <1>4 DEF TaskInv, Unbound, HasRun
<1>6. PlaceAt(server', t, c.op, "created", None)
  BY <1>2, <1>4 DEF PlaceAt, Unbound, HasRun
<1> QED BY <1>1, <1>4, <1>5, <1>6, MoveKeeps DEF Places, MayBind

LEMMA MarkRunCreatedKeeps ==
  ASSUME Distinct, DispatchInv, NEW c \in requests, c.task \notin server.crossed,
         MarkRunCreated(c) PROVE DispatchInv'
<1> DEFINE t == c.task
<1>1. /\ c \in Calls /\ t \in Tasks /\ TaskInv(server, t) /\ server \in Server
      /\ c.at = "created" /\ Moves(c, "bind")
      /\ server' = [server EXCEPT !.journal[t] = "run_created"]
  BY CallFacts DEF MarkRunCreated, Writes, At
<1>2. /\ Unbound(server, t) /\ HasRun(server, t) /\ server.messages[t] = 1
      /\ c.op # "loop"
  BY <1>1, CallFacts DEF PlaceInv, PlaceAt, MayBind
<1>3. "run_created" # None
  BY DEF Distinct, Stages
<1>4. /\ server' \in Server /\ FilesStep(c) /\ server'.journal[t] = "run_created"
      /\ server'.session[t] = server.session[t] /\ server'.task[t] = server.task[t]
      /\ server'.messages[t] = server.messages[t]
  BY <1>1, <1>2 DEF Server, Stages, FilesStep, Elsewhere, SameFiles, Unbound
<1>5. TaskInv(server', t)
  BY <1>1, <1>2, <1>4 DEF TaskInv, Unbound, HasRun
<1>6. PlaceAt(server', t, c.op, "bind", None)
  BY <1>2, <1>3, <1>4 DEF PlaceAt, Unbound
<1> QED BY <1>1, <1>4, <1>5, <1>6, MoveKeeps DEF Places, MayBind

LEMMA SaveIndexKeeps ==
  ASSUME Distinct, DispatchInv, NEW c \in requests, c.task \notin server.crossed,
         SaveIndex(c) PROVE DispatchInv'
<1> DEFINE t == c.task
           at == IF c.op = "cancel" THEN "discard" ELSE "bound"
<1>1. /\ c \in Calls /\ t \in Tasks /\ TaskInv(server, t) /\ server \in Server
      /\ c.at = "index" /\ Moves(c, at)
      /\ server' = [server EXCEPT !.index[t] = server.task[t]]
  BY CallFacts DEF SaveIndex, Writes, At
<1>2. /\ c.op # "loop"
      /\ c.op # "cancel" => server.task[t].bound /\ server.journal[t] = "run_created"
  BY <1>1, CallFacts DEF PlaceInv, PlaceAt, MayBind
<1>3. /\ server' \in Server /\ FilesStep(c) /\ server'.journal[t] = server.journal[t]
      /\ server'.session[t] = server.session[t] /\ server'.task[t] = server.task[t]
      /\ server'.messages[t] = server.messages[t]
  BY <1>1 DEF Server, FilesStep, Elsewhere, SameFiles
<1>4. TaskInv(server', t)
  BY <1>1, <1>3 DEF TaskInv, HasRun
<1>5. PlaceAt(server', t, c.op, at, None)
  BY <1>2, <1>3 DEF PlaceAt, MayBind
<1>6. at \in Places /\ at \notin MayBind
  BY DEF Places, MayBind
<1> HIDE DEF at
<1> QED BY <1>1, <1>3, <1>4, <1>5, <1>6, MoveKeeps

LEMMA MarkTaskBoundKeeps ==
  ASSUME Distinct, DispatchInv, NEW c \in requests, c.task \notin server.crossed,
         MarkTaskBound(c) PROVE DispatchInv'
<1> DEFINE t == c.task
<1>1. /\ c \in Calls /\ t \in Tasks /\ TaskInv(server, t) /\ server \in Server
      /\ c.at = "bound" /\ Moves(c, "complete")
      /\ server' = [server EXCEPT !.journal[t] = "task_bound"]
  BY CallFacts DEF MarkTaskBound, Writes, At
<1>2. /\ server.task[t].bound /\ server.journal[t] = "run_created" /\ c.op # "loop"
      /\ "run_created" # None
  BY <1>1, CallFacts DEF PlaceInv, PlaceAt, MayBind, Distinct, Stages
<1>3. /\ server' \in Server /\ FilesStep(c) /\ server'.journal[t] = "task_bound"
      /\ server'.session[t] = server.session[t] /\ server'.task[t] = server.task[t]
      /\ server'.messages[t] = server.messages[t]
  BY <1>1, <1>2 DEF Server, Stages, FilesStep, Elsewhere, SameFiles
<1>4. TaskInv(server', t)
  BY <1>1, <1>2, <1>3 DEF TaskInv, HasRun
<1>5. PlaceAt(server', t, c.op, "complete", None)
  BY <1>2, <1>3 DEF PlaceAt, MayBind
<1> QED BY <1>1, <1>3, <1>4, <1>5, MoveKeeps DEF Places, MayBind

LEMMA CompleteDispatchKeeps ==
  ASSUME Distinct, DispatchInv, NEW c \in requests, c.task \notin server.crossed,
         CompleteDispatch(c) PROVE DispatchInv'
<1> DEFINE t == c.task
<1>1. /\ c \in Calls /\ t \in Tasks /\ TaskInv(server, t) /\ server \in Server
      /\ c.at = "complete" /\ Moves(c, "launch")
      /\ server' = [server EXCEPT !.journal[t] = None]
  BY CallFacts DEF CompleteDispatch, Writes, At
<1>2. server.task[t].bound /\ c.op # "loop"
  BY <1>1, CallFacts DEF PlaceInv, PlaceAt, MayBind
<1>3. /\ server' \in Server /\ FilesStep(c) /\ server'.journal[t] = None
      /\ server'.session[t] = server.session[t] /\ server'.task[t] = server.task[t]
      /\ server'.messages[t] = server.messages[t]
  BY <1>1, <1>2 DEF Server, Stages, FilesStep, Elsewhere, SameFiles
<1>4. TaskInv(server', t)
  <2>1. None \notin Stages
    BY DEF Distinct
  <2> QED BY <1>1, <1>2, <1>3, <2>1 DEF TaskInv, HasRun, Stages
<1>5. PlaceAt(server', t, c.op, "launch", None)
  BY <1>2, <1>3 DEF PlaceAt, MayBind
<1> QED BY <1>1, <1>3, <1>4, <1>5, MoveKeeps DEF Places, MayBind

LEMMA ReconcileKeeps ==
  ASSUME Distinct, DispatchInv, NEW c \in requests, c.task \notin server.crossed,
         reconcileBoundDispatch(c)
  PROVE  DispatchInv'
<1> DEFINE t == c.task
<1>1. /\ c \in Calls /\ t \in Tasks /\ server \in Server
      /\ c.op \in {"start", "resume"} /\ c.at = "reconcile" /\ server' = server
  BY CallFacts DEF reconcileBoundDispatch, At
<1>2. server.task[t].bound
  BY <1>1, CallFacts DEF PlaceInv, PlaceAt, MayBind
<1>3. ASSUME NEW at \in {"bound", "complete", "launch"}, Moves(c, at),
             PlaceAt(server, t, c.op, at, None)
      PROVE  DispatchInv'
  BY <1>1, <1>3, NothingWritten, MoveKeeps DEF Places, MayBind
<1>4. CASE server.journal[t] = "run_created" /\ Moves(c, "bound")
  <2>1. PlaceAt(server, t, c.op, "bound", None)
    BY <1>1, <1>2, <1>4 DEF PlaceAt, MayBind
  <2> QED BY <1>3, <1>4, <2>1
<1>5. CASE server.journal[t] = "task_bound" /\ Moves(c, "complete")
  <2>1. PlaceAt(server, t, c.op, "complete", None)
    BY <1>1, <1>2, <1>5 DEF PlaceAt, MayBind
  <2> QED BY <1>3, <1>5, <2>1
<1>6. CASE server.journal[t] = None /\ Moves(c, "launch")
  <2>1. PlaceAt(server, t, c.op, "launch", None)
    BY <1>1, <1>2, <1>6 DEF PlaceAt, MayBind
  <2> QED BY <1>3, <1>6, <2>1
<1>7. CASE Returns(c)
  BY <1>1, <1>7, NothingWritten, ReturnKeeps
<1> QED BY <1>4, <1>5, <1>6, <1>7 DEF reconcileBoundDispatch

-----------------------------------------------------------------------------
(* The binding of a Task and the launch of its Run.                          *)

LEMMA LocalKeeps ==
  ASSUME Distinct, DispatchInv, NEW c \in requests, c.task \notin server.crossed,
         NEW N, GoesOn(c, N),
         Elsewhere(server, server', c.task), server' \in Server, TaskInv(server', c.task),
         RunnerInv(server'), StartedInv(server'), server'.crossed = server.crossed,
         \A t, u \in Tasks \ Excused(server') : Busy(server', t) /\ Busy(server', u) => t = u,
         \A u \in Tasks \ {c.task} : Busy(server', u) => Busy(server, u) \/ u \in Excused(server'),
         server.resumed \subseteq server'.resumed,
         \A d \in requests \ {c} : d.op = "start" /\ d.at \in MayBind /\ Busy(server', c.task)
           => Busy(server, c.task) \/ c.task \in Excused(server')
  PROVE  DispatchInv'
<1>1. /\ requests' \subseteq Calls /\ OneAtATime(server'.crossed, requests')
      /\ \A d \in requests' : CallInv(server', d)
  BY CallsKept
<1>2. \A u \in Tasks : FileInv(server', u)
  BY CallFacts, TaskNeeds, OtherFiles
<1>3. ASSUME NEW d \in requests', d.task \notin server.crossed, d.op = "start",
             d.at \in MayBind, NEW u \in Tasks \ {d.task}, Busy(server', u)
      PROVE  u \in Excused(server')
  <2>1. AloneInv(server, requests) /\ Excused(server) \subseteq Excused(server')
    BY DEF DispatchInv, Excused
  <2>2. CASE d \in N
    <3>1. d.task = c.task
      BY <2>2 DEF GoesOn
    <3>2. (c.op = "start" /\ c.at \in MayBind) \/ \A v \in Tasks \ {c.task} : ~Busy(server, v)
      BY <1>3, <2>2 DEF GoesOn
    <3> QED BY <1>3, <2>1, <3>1, <3>2 DEF AloneInv
  <2>3. CASE d \in requests \ {c}
    <3>1. Busy(server, u) \/ u \in Excused(server')
      BY <1>3, <2>3
    <3> QED BY <1>3, <2>1, <2>3, <3>1 DEF AloneInv
  <2> QED BY <2>2, <2>3 DEF GoesOn
<1>4. AloneInv(server', requests')
  BY <1>3 DEF AloneInv
<1> QED BY <1>1, <1>2, <1>4 DEF DispatchInv

LEMMA BindTaskKeeps ==
  ASSUME Distinct, DispatchInv, NEW c \in requests, c.task \notin server.crossed,
         BindTask(c) PROVE DispatchInv'
<1> DEFINE t == c.task
<1>1. /\ c \in Calls /\ t \in Tasks /\ TaskInv(server, t) /\ server \in Server
      /\ c.op = "start" /\ c.at = "bind"
      /\ Moves(c, "index") /\ server' = [server EXCEPT !.task[t].bound = TRUE]
  BY CallFacts DEF BindTask, At
<1>2. /\ Unbound(server, t) /\ HasRun(server, t) /\ server.messages[t] = 1
      /\ server.journal[t] = "run_created"
  BY <1>1, CallFacts DEF PlaceInv, PlaceAt, MayBind, TaskInv
<1>3. /\ server' \in Server /\ server'.journal = server.journal
      /\ server'.session = server.session /\ server'.runner = server.runner
      /\ server'.messages = server.messages /\ server'.mine = server.mine
      /\ server'.crossed = server.crossed
      /\ server'.started = server.started /\ server'.resumed = server.resumed
      /\ server'.task[t] = [state |-> "queued", bound |-> TRUE]
      /\ \A u \in Tasks \ {t} : server'.task[u] = server.task[u]
  <2>1. server' = [server EXCEPT !.task = [server.task EXCEPT
                      ![t] = [server.task[t] EXCEPT !.bound = TRUE]]]
    BY <1>1
  <2>2. [server.task[t] EXCEPT !.bound = TRUE] = [state |-> "queued", bound |-> TRUE]
    <3>1. ASSUME NEW x, x = [state |-> "queued", bound |-> FALSE]
          PROVE  [x EXCEPT !.bound = TRUE] = [state |-> "queued", bound |-> TRUE]
      <4> DEFINE y == [x EXCEPT !.bound = TRUE]
                 z == [state |-> "queued", bound |-> TRUE]
      <4>1. DOMAIN y = {"state", "bound"} /\ DOMAIN z = {"state", "bound"}
        BY <3>1
      <4>2. y.state = z.state /\ y.bound = z.bound
        BY <3>1
      <4> QED BY <3>1, <4>1, <4>2
    <3> QED BY <1>2, <3>1 DEF Unbound
  <2>3. [state |-> "queued", bound |-> TRUE] \in TaskFiles
    BY DEF TaskFiles
  <2>4. server \in Server /\ t \in Tasks
    BY <1>1
  <2> QED BY <2>1, <2>2, <2>3, <2>4 DEF Server
<1>4. Elsewhere(server, server', t)
  BY <1>3 DEF Elsewhere, SameFiles
<1>5. TaskInv(server', t)
  BY <1>1, <1>2, <1>3 DEF TaskInv, HasRun
<1>6. GoesOn(c, {[c EXCEPT !.at = "index", !.copy = None]})
  <2>1. PlaceAt(server', t, c.op, "index", None)
    BY <1>1, <1>2, <1>3 DEF PlaceAt, MayBind
  <2> QED BY <1>1, <1>5, <2>1, MovedOn DEF Places, MayBind
<1>7. RunnerInv(server) /\ StartedInv(server) /\ AloneInv(server, requests)
  BY DEF DispatchInv
<1>8. server.runner # t /\ server.started[t] # 1
  <2>1. None # t
    BY <1>1 DEF Distinct
  <2> QED BY <1>1, <1>2, <1>7, <2>1 DEF RunnerInv, StartedInv, Unbound
<1>9. RunnerInv(server')
  <2>1. server.runner # None => server.runner \in Tasks \ {t}
    BY <1>1, <1>8 DEF Server
  <2> QED BY <1>3, <1>7, <2>1 DEF RunnerInv
<1>10. StartedInv(server')
  BY <1>1, <1>3, <1>7, <1>8 DEF StartedInv
<1>11. \A u \in Tasks \ {t} : Busy(server', u) <=> Busy(server, u)
  BY <1>3 DEF Busy
<1>12. \A u \in Tasks \ {t} : Busy(server, u) => u \in Excused(server)
  BY <1>1, <1>7 DEF AloneInv, MayBind
<1>13. /\ Excused(server') = Excused(server)
       /\ \A u, v \in Tasks \ Excused(server') : Busy(server', u) /\ Busy(server', v) => u = v
  BY <1>3, <1>11, <1>12 DEF Excused
<1>14. ASSUME NEW d \in requests \ {c} PROVE d.op # "start"
  BY <1>1, <1>14 DEF DispatchInv, OneAtATime, Operations
<1> QED BY <1>3, <1>4, <1>5, <1>6, <1>9, <1>10, <1>11, <1>13, <1>14, LocalKeeps

\* Both launches: of a Run that never ran by a start, of an interrupted one by a
\* resume.
LEMMA LaunchKeeps ==
  ASSUME Distinct, DispatchInv, NEW c \in requests, c.task \notin server.crossed,
         NEW runs, Launch(c, runs),
         c.at \in {"launch", "resume"},
         (c.op = "start" /\ runs = {"queued"}) \/ (c.op = "resume" /\ runs = {"interrupted"})
  PROVE  DispatchInv'
<1> DEFINE t == c.task
<1>1. /\ c \in Calls /\ t \in Tasks /\ TaskInv(server, t) /\ server \in Server
  BY CallFacts
<1>2. server.task[t].bound /\ server.journal[t] = None
  BY CallFacts DEF PlaceInv, PlaceAt
<1>3. PlaceAt(server', t, c.op, "wait", None)
  BY DEF PlaceAt, MayBind
<1>4. CASE Returns(c) /\ UNCHANGED server
  BY <1>4, NothingWritten, ReturnKeeps
<1>5. CASE Moves(c, "wait") /\ UNCHANGED server
  BY <1>1, <1>3, <1>5, NothingWritten, MoveKeeps DEF Places, MayBind
<1>6. CASE /\ server.runner = None /\ server.session[t].run \in runs /\ Moves(c, "wait")
           /\ server' = [server EXCEPT !.runner = t, !.mine = server.session[t], !.stopping = FALSE,
                           !.started[t] = IF c.op = "start" THEN @ + 1 ELSE @,
                           !.resumed = IF c.op = "resume" THEN @ \cup {t} ELSE @]
  <2>1. /\ server'.task = server.task /\ server'.journal = server.journal
        /\ server'.session = server.session /\ server'.runner = t
        /\ server'.messages = server.messages /\ server'.crossed = server.crossed
        /\ server'.mine = server.session[t]
        /\ \A u \in Tasks \ {t} : server'.started[u] = server.started[u]
        /\ server'.started[t] = IF c.op = "start" THEN server.started[t] + 1
                                                  ELSE server.started[t]
        /\ server'.resumed = IF c.op = "resume" THEN server.resumed \cup {t} ELSE server.resumed
    BY <1>1, <1>6 DEF Server
  <2>2. server' \in Server
    <3>1. /\ server'.started \in [Tasks -> Nat] /\ server'.resumed \in SUBSET Tasks
      BY <1>1, <1>6, <2>1 DEF Server
    <3>2. server' = [server EXCEPT !.runner = t, !.mine = server.session[t], !.stopping = FALSE,
                       !.started = server'.started, !.resumed = server'.resumed]
      BY <1>1, <1>6, <2>1 DEF Server
    <3>3. server.session[t] \in Sessions \cup {None}
      BY <1>1 DEF Server
    <3> QED BY <1>1, <3>1, <3>2, <3>3 DEF Server
  <2>3. Elsewhere(server, server', t) /\ TaskInv(server', t)
    BY <1>1, <2>1 DEF Elsewhere, SameFiles, TaskInv, HasRun
  <2>4. GoesOn(c, {[c EXCEPT !.at = "wait", !.copy = None]})
    BY <1>1, <1>3, <1>6, <2>3, MovedOn DEF Places, MayBind
  <2>5. StartedInv(server) /\ AloneInv(server, requests)
    BY DEF DispatchInv
  <2>6. RunnerInv(server')
    <3>1. server.task[t] = [state |-> "queued", bound |-> TRUE]
      BY <1>1, <1>2 DEF TaskInv, Server, TaskFiles
    <3>2. server.session[t].run = "interrupted" => t \in server'.resumed
      BY <1>6, <2>1
    <3>3. server.session[t] # None
      BY <1>1, <1>2 DEF TaskInv, HasRun
    <3> QED BY <1>2, <2>1, <3>1, <3>2, <3>3 DEF RunnerInv
  <2>7. StartedInv(server')
    <3>1. \A u \in Tasks \ server.crossed :
            server.started[u] = 1 => server.session[u].run # "queued"
      BY <1>6, <2>5 DEF StartedInv, Distinct
    <3>2. server.started[t] \in Nat /\ server.started[t] <= 1
      BY <1>1, <2>5 DEF StartedInv, Server
    <3>3. server'.started[t] <= 1
      <4>1. c.op = "start" => server.started[t] = 0
        BY <1>1, <1>6, <3>1, <3>2
      <4> QED BY <2>1, <3>2, <4>1
    <3> QED BY <1>2, <2>1, <2>5, <3>1, <3>3 DEF StartedInv
  <2>8. \A u \in Tasks : Busy(server', u) <=> Busy(server, u)
    BY <2>1 DEF Busy
  <2>9. server.resumed \subseteq server'.resumed
    BY <2>1
  <2>10. /\ Excused(server) \subseteq Excused(server')
         /\ \A u, v \in Tasks \ Excused(server') : Busy(server', u) /\ Busy(server', v) => u = v
    BY <2>1, <2>5, <2>8, <2>9 DEF AloneInv, Excused
  <2> QED BY <1>1, <2>1, <2>2, <2>3, <2>4, <2>6, <2>7, <2>8, <2>9, <2>10, LocalKeeps
<1> QED BY <1>4, <1>5, <1>6 DEF Launch

\* A call that gives the Run of its Task, which nothing executes, another status.
LEMMA DormantKeeps ==
  ASSUME Distinct, DispatchInv, NEW c \in requests, c.task \notin server.crossed,
         NEW N, GoesOn(c, N),
         NEW run \in RunStates \ {"queued", "running"},
         server.task[c.task].bound, server.runner # c.task,
         server' = [server EXCEPT !.session[c.task].run = run]
  PROVE  DispatchInv'
<1> DEFINE t == c.task
<1>1. /\ c \in Calls /\ t \in Tasks /\ TaskInv(server, t) /\ server \in Server
  BY CallFacts
<1>2. server.session[t] \in Sessions
  BY <1>1 DEF Server, TaskInv, HasRun
<1>3. /\ server'.task = server.task /\ server'.journal = server.journal
      /\ server'.runner = server.runner /\ server'.started = server.started
      /\ server'.messages = server.messages /\ server'.mine = server.mine
      /\ server'.crossed = server.crossed
      /\ server'.resumed = server.resumed
      /\ \A u \in Tasks \ {t} : server'.session[u] = server.session[u]
      /\ server'.session[t] = [server.session[t] EXCEPT !.run = run]
  BY <1>1 DEF Server
<1>4. server'.session[t] \in Sessions /\ server'.session[t].run = run
  BY <1>2, <1>3 DEF Sessions
<1>5. server' \in Server
  <2>1. server'.session = [server.session EXCEPT ![t] = server'.session[t]]
    BY <1>1, <1>3
  <2> QED BY <1>1, <1>4, <2>1 DEF Server
<1>6. Elsewhere(server, server', t)
  BY <1>3 DEF Elsewhere, SameFiles
<1>7. TaskInv(server', t)
  <2>1. server'.session[t] # None /\ run # None
    BY <1>4 DEF Distinct
  <2> QED BY <1>1, <1>3, <1>4, <2>1 DEF TaskInv, HasRun
<1>8. RunnerInv(server) /\ StartedInv(server) /\ AloneInv(server, requests)
  BY DEF DispatchInv
<1>9. RunnerInv(server')
  <2>1. server.runner # None => server.runner \in Tasks \ {t}
    BY <1>1 DEF Server
  <2> QED BY <1>3, <1>8, <2>1 DEF RunnerInv
<1>10. StartedInv(server')
  BY <1>3, <1>4, <1>8 DEF StartedInv
<1>11. \A u \in Tasks : Busy(server', u) => Busy(server, u)
  BY <1>3, <1>4 DEF Busy
<1>12. /\ Excused(server') = Excused(server)
       /\ \A u, v \in Tasks \ Excused(server') : Busy(server', u) /\ Busy(server', v) => u = v
  BY <1>3, <1>8, <1>11 DEF AloneInv, Excused
<1> QED BY <1>1, <1>3, <1>5, <1>6, <1>7, <1>9, <1>10, <1>11, <1>12, LocalKeeps

LEMMA RecoverKeeps ==
  ASSUME Distinct, DispatchInv, NEW c \in requests, c.task \notin server.crossed,
         Recover(c) PROVE DispatchInv'
<1> DEFINE t == c.task
<1>1. /\ c \in Calls /\ t \in Tasks /\ c.op = "resume" /\ c.at = "launch"
      /\ server \in Server
  BY CallFacts DEF Recover, At
<1>2. server.task[t].bound /\ server.journal[t] = None
  BY <1>1, CallFacts DEF PlaceInv, PlaceAt
<1>3. CASE Returns(c) /\ UNCHANGED server
  BY <1>3, NothingWritten, ReturnKeeps
<1>4. CASE Moves(c, "wait") /\ UNCHANGED server
  <2>1. PlaceAt(server', t, c.op, "wait", None)
    BY <1>1 DEF PlaceAt, MayBind
  <2> QED BY <1>1, <1>4, <2>1, NothingWritten, MoveKeeps DEF Places, MayBind
<1>5. CASE /\ server.runner = None /\ Moves(c, "resume")
           /\ server' = [server EXCEPT !.session[t].run = "interrupted"]
  <2>1. server'.task = server.task /\ server'.journal = server.journal
    BY <1>1, <1>5 DEF Server
  <2>2. PlaceAt(server', t, c.op, "resume", None)
    BY <1>1, <1>2, <2>1 DEF PlaceAt, MayBind
  <2>3. GoesOn(c, {[c EXCEPT !.at = "resume", !.copy = None]})
    <3>1. TaskInv(server, t) /\ server.session[t] \in Sessions
      BY <1>1, <1>2, CallFacts DEF Server, TaskInv, HasRun
    <3>2. server'.session[t] = [server.session[t] EXCEPT !.run = "interrupted"]
          /\ server'.messages = server.messages
      BY <1>1, <1>5 DEF Server
    <3>3. server'.session[t] \in Sessions /\ server'.session[t].run = "interrupted"
      BY <3>1, <3>2 DEF Sessions, RunStates
    <3>4. HasRun(server', t)
      BY <3>3 DEF HasRun, Distinct, RunStates
    <3>5. TaskInv(server', t)
      BY <1>2, <2>1, <3>1, <3>2, <3>4 DEF TaskInv, HasRun
    <3> QED BY <1>1, <1>5, <2>2, <3>5, MovedOn DEF Places, MayBind
  <2>4. server.runner # t /\ "interrupted" \in RunStates \ {"queued", "running"}
    BY <1>1, <1>5 DEF Distinct, RunStates
  <2> QED BY <1>2, <1>5, <2>3, <2>4, DormantKeeps
<1> QED BY <1>3, <1>4, <1>5 DEF Recover

-----------------------------------------------------------------------------
(* The Loop's preparation, the rest of resume and cancel.                    *)

LEMMA LoopLoadsKeeps ==
  ASSUME Distinct, DispatchInv, NEW c \in requests, c.task \notin server.crossed,
         LoopLoads(c) PROVE DispatchInv'
<1> DEFINE t == c.task
<1>1. /\ c \in Calls /\ t \in Tasks /\ server \in Server /\ c.op = "loop" /\ c.at = "load"
      /\ Holds(c, "recipe", server.session[t]) /\ server' = server
  BY CallFacts DEF LoopLoads, At
<1>2. Unbound(server, t) /\ server.journal[t] = "session_created"
  BY <1>1, CallFacts DEF PlaceInv, PlaceAt, MayBind
<1>3. PlaceAt(server', t, c.op, "recipe", server.session[t])
  BY <1>1, <1>2 DEF PlaceAt
<1>4. server.session[t] \in Sessions \cup {None}
  BY <1>1 DEF Server
<1> QED BY <1>1, <1>3, <1>4, NothingWritten, HoldKeeps DEF Places

LEMMA LoopSavesKeeps ==
  ASSUME Distinct, DispatchInv, NEW c \in requests, c.task \notin server.crossed,
         LoopSaves(c) PROVE DispatchInv'
<1> DEFINE t == c.task
           saved == [c.copy EXCEPT !.recipe = TRUE]
<1>1. /\ c \in Calls /\ t \in Tasks /\ TaskInv(server, t) /\ server \in Server
      /\ c.op = "loop" /\ c.at = "recipe" /\ Moves(c, "dispatched")
      /\ server' = [server EXCEPT !.session[t] = saved]
  BY CallFacts DEF LoopSaves, At
<1>2. /\ Unbound(server, t) /\ server.journal[t] = "session_created"
      /\ c.copy = server.session[t]
  BY <1>1, CallFacts DEF PlaceInv, PlaceAt, MayBind
<1>3. server.session[t] # None
  BY <1>1, <1>2 DEF Distinct, Stages, TaskInv
<1>4. c.copy \in Sessions
  BY <1>1, <1>2, <1>3 DEF Server
<1>5. saved \in Sessions
  BY <1>2, <1>4 DEF Sessions
<1>6. saved # None
  BY <1>5 DEF Distinct
<1> HIDE DEF saved
<1>7. /\ server' \in Server /\ FilesStep(c) /\ server'.journal[t] = server.journal[t]
      /\ server'.session[t] = saved /\ server'.task[t] = server.task[t]
      /\ server'.messages[t] = server.messages[t]
  BY <1>1, <1>2, <1>5 DEF Server, FilesStep, Elsewhere, SameFiles, Unbound
<1>8. TaskInv(server', t)
  BY <1>1, <1>2, <1>3, <1>5, <1>6, <1>7 DEF TaskInv, Unbound, HasRun
<1>9. PlaceAt(server', t, c.op, "dispatched", None)
  BY DEF PlaceAt, MayBind
<1> QED BY <1>1, <1>7, <1>8, <1>9, MoveKeeps DEF Places, MayBind

\* The Loop's call becomes a start when it gets the mutex.
LEMMA LoopStartsKeeps ==
  ASSUME Distinct, DispatchInv, NEW c \in requests, c.task \notin server.crossed,
         LoopStarts(c) PROVE DispatchInv'
<1> DEFINE d == [c EXCEPT !.op = "start", !.at = "task"]
<1>1. /\ c \in Calls /\ ~Locked /\ server' = server
      /\ requests' = (requests \ {c}) \cup {d}
  BY CallFacts DEF LoopStarts, At
<1>2. d \in Calls /\ d.task = c.task /\ d.op = "start" /\ d.at = "task"
  BY <1>1 DEF Calls, Operations, Places
<1> HIDE DEF d
<1>3. CallInv(server', d)
  BY <1>2 DEF CallInv, NeededInv, Needed, PlaceInv, PlaceAt, MayBind
<1>4. GoesOn(c, {d})
  BY <1>1, <1>2, <1>3 DEF GoesOn, MayBind
<1> QED BY <1>1, <1>4, NothingWritten, FilesKeep

LEMMA WaitKeeps ==
  ASSUME Distinct, DispatchInv, NEW c \in requests, c.task \notin server.crossed,
         waitForEmployeeRunProjection(c)
  PROVE  DispatchInv'
BY NothingWritten, ReturnKeeps DEF waitForEmployeeRunProjection

LEMMA ResumeTaskKeeps ==
  ASSUME Distinct, DispatchInv, NEW c \in requests, c.task \notin server.crossed,
         ResumeTask(c) PROVE DispatchInv'
<1>1. c \in Calls /\ c.op = "resume" /\ server' = server
  BY CallFacts DEF ResumeTask, At
<1>2. CASE Returns(c)
  BY <1>1, <1>2, NothingWritten, ReturnKeeps
<1>3. CASE server.task[c.task].bound /\ Moves(c, "reconcile")
  <2>1. PlaceAt(server', c.task, c.op, "reconcile", None)
    BY <1>1, <1>3 DEF PlaceAt, MayBind
  <2> QED BY <1>1, <1>3, <2>1, NothingWritten, MoveKeeps DEF Places, MayBind
<1> QED BY <1>2, <1>3 DEF ResumeTask

LEMMA CancelTaskKeeps ==
  ASSUME Distinct, DispatchInv, NEW c \in requests, c.task \notin server.crossed,
         CancelTask(c) PROVE DispatchInv'
<1> DEFINE t == c.task
<1>1. /\ c \in Calls /\ t \in Tasks /\ TaskInv(server, t) /\ server \in Server
      /\ c.op = "cancel"
  BY CallFacts DEF CancelTask, At
<1>2. CASE Returns(c) /\ UNCHANGED server
  BY <1>2, NothingWritten, ReturnKeeps
<1>3. ASSUME NEW at \in {"stop", "discard"}, Moves(c, at), server' = server,
             at = "stop" => server.task[t].bound
      PROVE  DispatchInv'
  <2>1. PlaceAt(server', t, c.op, at, None)
    BY <1>1, <1>3 DEF PlaceAt, MayBind
  <2> QED BY <1>1, <1>3, <2>1, NothingWritten, MoveKeeps DEF Places, MayBind
<1>4. CASE /\ ~server.task[t].bound /\ Moves(c, "index")
           /\ server' = [server EXCEPT !.task[t].state = "cancelled"]
  <2>1. server.task[t] \in TaskFiles
    BY <1>1 DEF Server
  <2>2. /\ [server.task[t] EXCEPT !.state = "cancelled"] \in TaskFiles
        /\ ~[server.task[t] EXCEPT !.state = "cancelled"].bound
    BY <1>4, <2>1 DEF TaskFiles
  <2>3. server' = [server EXCEPT !.task = [server.task EXCEPT
                      ![t] = [server.task[t] EXCEPT !.state = "cancelled"]]]
    BY <1>4
  <2>4. server' \in Server
    BY <1>1, <2>2, <2>3 DEF Server
  <2>5. /\ server'.journal = server.journal /\ server'.session = server.session
        /\ ~server'.task[t].bound
        /\ \A u \in Tasks \ {t} : server'.task[u] = server.task[u]
        /\ server'.runner = server.runner /\ server'.started = server.started
        /\ server'.resumed = server.resumed /\ server'.messages = server.messages
        /\ server'.mine = server.mine /\ server'.crossed = server.crossed
    BY <1>1, <2>2, <2>3 DEF Server
  <2>6. FilesStep(c)
    BY <1>4, <2>5 DEF FilesStep, Elsewhere, SameFiles
  <2>7. TaskInv(server', t)
    BY <1>1, <1>4, <2>5 DEF TaskInv, HasRun
  <2>8. PlaceAt(server', t, c.op, "index", None)
    BY <1>1 DEF PlaceAt, MayBind
  <2> QED BY <1>1, <1>4, <2>4, <2>6, <2>7, <2>8, MoveKeeps DEF Places, MayBind
<1> QED BY <1>2, <1>3, <1>4 DEF CancelTask

LEMMA DiscardKeeps ==
  ASSUME Distinct, DispatchInv, NEW c \in requests, c.task \notin server.crossed,
         DiscardPreparedDispatch(c)
  PROVE  DispatchInv'
<1> DEFINE t == c.task
           stage == IF server.journal[t] \in {"prepared", "session_created"} THEN None
                    ELSE server.journal[t]
<1>1. /\ c \in Calls /\ t \in Tasks /\ TaskInv(server, t) /\ server \in Server
      /\ Returns(c) /\ server' = [server EXCEPT !.journal[t] = stage]
  BY CallFacts DEF DiscardPreparedDispatch, At
<1>2. stage \in Stages \cup {None} /\ stage \in {None, server.journal[t]}
  BY <1>1 DEF Server
<1> HIDE DEF stage
<1>3. /\ server' \in Server /\ FilesStep(c) /\ server'.journal[t] = stage
      /\ server'.session[t] = server.session[t] /\ server'.task[t] = server.task[t]
      /\ server'.messages[t] = server.messages[t]
  BY <1>1, <1>2 DEF Server, FilesStep, Elsewhere, SameFiles
<1>4. TaskInv(server', t)
  <2>1. None \notin {"run_created", "task_bound"}
    BY DEF Distinct, Stages
  <2> QED BY <1>1, <1>2, <1>3, <2>1 DEF TaskInv, HasRun
<1> QED BY <1>1, <1>3, <1>4, ReturnKeeps

LEMMA CancelBoundKeeps ==
  ASSUME Distinct, DispatchInv, NEW c \in requests, c.task \notin server.crossed,
         cancelBoundEmployeeTask(c)
  PROVE  DispatchInv'
<1> DEFINE t == c.task
<1>1. /\ c \in Calls /\ t \in Tasks /\ TaskInv(server, t) /\ server \in Server
      /\ Returns(c) /\ c.at = "stop"
  BY CallFacts DEF cancelBoundEmployeeTask, At
<1>2. server.task[t].bound
  BY <1>1, CallFacts DEF PlaceInv, PlaceAt
<1>3. CASE UNCHANGED server
  BY <1>1, <1>3, NothingWritten, ReturnKeeps
<1>4. CASE server' = [server EXCEPT !.stopping = TRUE]
  <2>1. server' \in Server /\ FilesStep(c) /\ TaskInv(server', t)
    BY <1>1, <1>4 DEF Server, FilesStep, Elsewhere, SameFiles, TaskInv, HasRun
  <2> QED BY <1>1, <2>1, ReturnKeeps
<1>5. CASE server.runner # t /\ server' = [server EXCEPT !.session[t].run = "cancelled"]
  <2>1. GoesOn(c, {})
    BY <1>1, Lost
  <2>2. "cancelled" \in RunStates \ {"queued", "running"}
    BY DEF RunStates, Terminal
  <2> QED BY <1>2, <1>5, <2>1, <2>2, DormantKeeps
<1> QED BY <1>3, <1>4, <1>5 DEF cancelBoundEmployeeTask

LEMMA OwnWorkKeeps ==
  ASSUME Distinct, DispatchInv, NEW c \in requests, c.task \notin server.crossed, Step(c)
  PROVE  DispatchInv'
<1>1. StartRun(c) => DispatchInv'
  BY LaunchKeeps DEF StartRun, Launchable, At
<1>2. ResumeRun(c) => DispatchInv'
  BY LaunchKeeps DEF ResumeRun, At
<1> QED BY <1>1, <1>2, StartTaskKeeps, PrepareDispatchKeeps, NewPreparedKeeps, MatchKeeps,
           MarkSessionCreatedKeeps, LoopLoadsKeeps, LoopSavesKeeps, LoopStartsKeeps,
           LoadSessionKeeps, PrepareDispatchRunKeeps, NewRunKeeps, RunMessageKeeps,
           MarkRunCreatedKeeps, BindTaskKeeps, SaveIndexKeeps, MarkTaskBoundKeeps,
           CompleteDispatchKeeps, ReconcileKeeps, WaitKeeps, ResumeTaskKeeps, RecoverKeeps,
           CancelTaskKeeps, DiscardKeeps, CancelBoundKeeps DEF Step

-----------------------------------------------------------------------------
(* The calls on a crossed Task: nothing is said of its files but that a Session *)
(* is not removed, and the other Tasks are left alone.                         *)

\* What a step does to the Runner and to the launches.
RunnerStep(c) ==
  /\ \A u \in Tasks \ {c.task} : server'.started[u] = server.started[u]
  /\ server'.resumed \cup {c.task} = server.resumed \cup {c.task}
  /\ \/ server'.runner = server.runner /\ server'.mine = server.mine
     \/ server.runner = None /\ server'.runner = c.task /\ server'.mine # None

CrossedStep(c) ==
  /\ server' \in Server /\ server'.crossed = server.crossed
  /\ Elsewhere(server, server', c.task) /\ RunnerStep(c)
  /\ server.session[c.task] # None => server'.session[c.task] # None
  /\ server'.task[c.task].bound \/ server'.journal[c.task] \notin {None, "prepared"} =>
       server'.session[c.task] # None

LEMMA CrossedKeeps ==
  ASSUME Distinct, DispatchInv, NEW c \in requests, c.task \in server.crossed,
         NEW N, GoesOn(c, N), CrossedStep(c)
  PROVE  DispatchInv'
<1> DEFINE t == c.task
<1>1. /\ t \in Tasks /\ server \in Server /\ server'.crossed = server.crossed
      /\ RunnerInv(server) /\ StartedInv(server) /\ AloneInv(server, requests)
  BY DEF DispatchInv, Calls, CrossedStep
<1>2. /\ requests' \subseteq Calls /\ OneAtATime(server'.crossed, requests')
      /\ \A d \in requests' : CallInv(server', d)
  BY CallsKept DEF CrossedStep
<1>3. \A u \in Tasks : FileInv(server', u)
  BY <1>1, OtherFiles DEF CrossedStep, FileInv
<1>4. \A u \in Tasks \ server.crossed :
        SameFiles(server, server', u) /\ server'.started[u] = server.started[u] /\ u # t
  BY DEF CrossedStep, Elsewhere, RunnerStep
<1>5. RunnerInv(server')
  <2>1. CASE server'.runner = server.runner /\ server'.mine = server.mine
    <3>1. server.runner \notin server.crossed /\ server.runner # None =>
            /\ SameFiles(server, server', server.runner)
            /\ server.runner \in server'.resumed <=> server.runner \in server.resumed
      <4> SUFFICES ASSUME server.runner \notin server.crossed, server.runner # None
                   PROVE  /\ SameFiles(server, server', server.runner)
                          /\ server.runner \in server'.resumed <=> server.runner \in server.resumed
        OBVIOUS
      <4>1. server.runner \in Tasks /\ server.runner # t
        BY <1>1 DEF Server
      <4> QED BY <1>4, <4>1 DEF CrossedStep, RunnerStep
    <3> QED BY <1>1, <2>1, <3>1 DEF RunnerInv, SameFiles
  <2>2. CASE server'.runner = t /\ server'.mine # None
    BY <1>1, <2>2 DEF RunnerInv
  <2> QED BY <2>1, <2>2 DEF CrossedStep, RunnerStep
<1>6. StartedInv(server')
  <2>1. \A u \in Tasks \ server.crossed : server.runner = u => server'.runner = u
    BY DEF CrossedStep, RunnerStep, Distinct
  <2> QED BY <1>1, <1>4, <2>1 DEF StartedInv, SameFiles
<1>7. Excused(server') = Excused(server)
  BY <1>1 DEF Excused, CrossedStep, RunnerStep
<1>8. \A u \in Tasks \ server.crossed : Busy(server', u) <=> Busy(server, u)
  BY <1>4 DEF Busy, SameFiles
<1>9. AloneInv(server', requests')
  <2>1. ASSUME NEW d \in requests', d.task \notin server.crossed PROVE d \in requests
    BY <2>1 DEF GoesOn
  <2> QED BY <1>1, <1>7, <1>8, <2>1 DEF AloneInv, Excused
<1> QED BY <1>2, <1>3, <1>5, <1>6, <1>9 DEF DispatchInv, CrossedStep

LEMMA CrossedReturns ==
  ASSUME Distinct, DispatchInv, NEW c \in requests, c.task \in server.crossed,
         Returns(c), CrossedStep(c)
  PROVE  DispatchInv'
BY Lost, CrossedKeeps

LEMMA CrossedHolds ==
  ASSUME Distinct, DispatchInv, NEW c \in requests, c.task \in server.crossed,
         NEW at \in Places, NEW copy \in Sessions \cup {None}, Holds(c, at, copy),
         CrossedStep(c), Needed(server', c.task, c.op, at, copy)
  PROVE  DispatchInv'
<1> DEFINE d == [c EXCEPT !.at = at, !.copy = copy]
<1>1. c \in Calls
  BY DEF DispatchInv
<1>2. /\ d \in Calls /\ d.task = c.task /\ d.op = c.op /\ d.at = at /\ d.copy = copy
  BY <1>1 DEF Calls
<1>3. requests' = (requests \ {c}) \cup {d}
  BY DEF Holds
<1> HIDE DEF d
<1>4. GoesOn(c, {d})
  BY <1>2, <1>3 DEF GoesOn, CallInv, NeededInv, CrossedStep
<1> QED BY <1>4, CrossedKeeps

LEMMA CrossedMoves ==
  ASSUME Distinct, DispatchInv, NEW c \in requests, c.task \in server.crossed,
         NEW at \in Places, Moves(c, at), CrossedStep(c),
         Needed(server', c.task, c.op, at, None)
  PROVE  DispatchInv'
<1>1. Holds(c, at, None)
  BY DEF Moves, Holds
<1> QED BY <1>1, CrossedHolds

LEMMA CrossedFacts ==
  ASSUME DispatchInv, NEW c \in requests
  PROVE  /\ c \in Calls /\ c.task \in Tasks /\ server \in Server
         /\ FileInv(server, c.task) /\ NeededInv(server, c)
BY DEF DispatchInv, Calls, CallInv

\* The steps of a crossed call that write nothing.
LEMMA CrossedIdle ==
  ASSUME DispatchInv, NEW c \in requests, server' = server PROVE CrossedStep(c)
BY CrossedFacts DEF CrossedStep, RunnerStep, Elsewhere, SameFiles, FileInv

\* Those that write the journal.
LEMMA CrossedJournal ==
  ASSUME DispatchInv, NEW c \in requests, NEW stage \in Stages \cup {None},
         server' = [server EXCEPT !.journal[c.task] = stage],
         stage \notin {None, "prepared"} => server.session[c.task] # None
  PROVE  /\ CrossedStep(c) /\ server'.session[c.task] = server.session[c.task]
<1>1. server \in Server /\ c.task \in Tasks /\ FileInv(server, c.task)
  BY CrossedFacts
<1>2. server' \in Server
  BY <1>1 DEF Server
<1> QED BY <1>1, <1>2 DEF CrossedStep, RunnerStep, Elsewhere, SameFiles, FileInv, Server

\* Those that write the Session.
LEMMA CrossedSession ==
  ASSUME Distinct, DispatchInv, NEW c \in requests, NEW saved \in Sessions,
         server' = [server EXCEPT !.session[c.task] = saved]
  PROVE  CrossedStep(c) /\ server'.session[c.task] # None
<1>1. server \in Server /\ c.task \in Tasks /\ saved # None
  BY CrossedFacts DEF Distinct
<1>2. server' \in Server
  BY <1>1 DEF Server
<1> QED BY <1>1, <1>2 DEF CrossedStep, RunnerStep, Elsewhere, SameFiles, Server

\* Those that write the Task, the index or the messages.
LEMMA CrossedTask ==
  ASSUME DispatchInv, NEW c \in requests, NEW file \in TaskFiles,
         server' = [server EXCEPT !.task[c.task] = file],
         file.bound => server.session[c.task] # None
  PROVE  CrossedStep(c) /\ server'.session[c.task] = server.session[c.task]
<1>1. server \in Server /\ c.task \in Tasks /\ FileInv(server, c.task)
  BY CrossedFacts
<1>2. server' \in Server
  BY <1>1 DEF Server
<1> QED BY <1>1, <1>2 DEF CrossedStep, RunnerStep, Elsewhere, SameFiles, FileInv, Server

LEMMA CrossedStartTask ==
  ASSUME Distinct, DispatchInv, NEW c \in requests, c.task \in server.crossed, StartTask(c)
  PROVE  DispatchInv'
<1>1. CrossedStep(c) /\ FileInv(server, c.task) /\ server' = server
  BY CrossedIdle, CrossedFacts DEF StartTask
<1>2. ASSUME NEW at \in {"reconcile", "prepare", "session"}, Moves(c, at),
             at = "reconcile" => server.session[c.task] # None
      PROVE  DispatchInv'
  BY <1>1, <1>2, CrossedMoves DEF Needed, Places
<1> QED BY <1>1, <1>2, CrossedReturns DEF StartTask, FileInv

LEMMA CrossedPrepareDispatch ==
  ASSUME Distinct, DispatchInv, NEW c \in requests, c.task \in server.crossed, PrepareDispatch(c)
  PROVE  DispatchInv'
<1> DEFINE t == c.task
           stage == IF server.journal[t] = None THEN "prepared" ELSE server.journal[t]
           at == IF server.journal[t] = "session_created" THEN "match" ELSE "save"
<1>1. /\ t \in Tasks /\ server \in Server /\ FileInv(server, t)
      /\ server.session[t] \in Sessions \cup {None}
  BY CrossedFacts DEF Server
<1>2. CASE Returns(c) /\ UNCHANGED server
  BY <1>2, CrossedIdle, CrossedReturns
<1>3. CASE /\ Holds(c, at, server.session[t])
           /\ server' = [server EXCEPT !.journal[t] = stage]
  <2>1. stage \in Stages \cup {None} /\ (stage \notin {None, "prepared"} => server.session[t] # None)
    BY <1>1 DEF FileInv, Server, Stages
  <2>2. at \in Places /\ (at = "match" => server.session[t] # None) /\ at \in {"match", "save"}
    BY <1>1 DEF FileInv, Places, Distinct, Stages
  <2> HIDE DEF stage, at
  <2>3. CrossedStep(c) /\ server'.session[t] = server.session[t]
    BY <1>3, <2>1, CrossedJournal
  <2>4. Needed(server', t, c.op, at, server.session[t])
    BY <2>2, <2>3 DEF Needed
  <2> QED BY <1>1, <1>3, <2>2, <2>3, <2>4, CrossedHolds
<1> QED BY <1>2, <1>3 DEF PrepareDispatch

LEMMA CrossedNewPrepared ==
  ASSUME Distinct, DispatchInv, NEW c \in requests, c.task \in server.crossed, NewPrepared(c)
  PROVE  DispatchInv'
<1> DEFINE t == c.task
           new == [run |-> None, recipe |-> FALSE]
<1>1. c.at = "save" /\ NeededInv(server, c)
  BY CrossedFacts DEF NewPrepared, At
<1>2. CASE Moves(c, "mark") /\ server' = [server EXCEPT !.session[t] = new]
  <2>1. new \in Sessions
    BY DEF Sessions
  <2> HIDE DEF new
  <2>2. CrossedStep(c) /\ server'.session[t] # None
    BY <1>2, <2>1, CrossedSession
  <2> QED BY <1>2, <2>2, CrossedMoves DEF Needed, Places
<1>3. CASE c.copy # None /\ Moves(c, "mark") /\ UNCHANGED server
  BY <1>1, <1>3, CrossedIdle, CrossedMoves DEF NeededInv, Needed, Places
<1>4. CASE Returns(c) /\ UNCHANGED server
  BY <1>4, CrossedIdle, CrossedReturns
<1> QED BY <1>2, <1>3, <1>4 DEF NewPrepared

LEMMA CrossedMatch ==
  ASSUME Distinct, DispatchInv, NEW c \in requests, c.task \in server.crossed, preparedSessionMatches(c)
  PROVE  DispatchInv'
<1> DEFINE at == IF c.op = "loop" THEN "load" ELSE "session"
<1>1. c.at = "match" /\ NeededInv(server, c) /\ server' = server
  BY CrossedFacts DEF preparedSessionMatches, At
<1>2. CASE Moves(c, at)
  <2>1. at \in Places /\ Needed(server', c.task, c.op, at, None)
    BY <1>1 DEF NeededInv, Needed, Places
  <2> HIDE DEF at
  <2> QED BY <1>1, <1>2, <2>1, CrossedIdle, CrossedMoves
<1>3. CASE Returns(c)
  BY <1>1, <1>3, CrossedIdle, CrossedReturns
<1> QED BY <1>2, <1>3 DEF preparedSessionMatches, Prepared

LEMMA CrossedMark ==
  ASSUME Distinct, DispatchInv, NEW c \in requests, c.task \in server.crossed, MarkSessionCreated(c)
  PROVE  DispatchInv'
<1> DEFINE t == c.task
           at == IF c.op = "loop" THEN "load" ELSE "session"
<1>1. c.at = "mark" /\ server.session[t] # None
  BY CrossedFacts DEF MarkSessionCreated, At, NeededInv, Needed
<1>2. CASE Moves(c, at) /\ server' = [server EXCEPT !.journal[t] = "session_created"]
  <2>1. CrossedStep(c) /\ server'.session[t] = server.session[t]
    BY <1>1, <1>2, CrossedJournal DEF Stages
  <2>2. at \in Places /\ Needed(server', t, c.op, at, None)
    BY <1>1, <2>1 DEF Needed, Places
  <2> HIDE DEF at
  <2> QED BY <1>2, <2>1, <2>2, CrossedMoves
<1>3. CASE Returns(c) /\ UNCHANGED server
  BY <1>3, CrossedIdle, CrossedReturns
<1> QED BY <1>2, <1>3 DEF MarkSessionCreated, Prepared

LEMMA CrossedLoopLoads ==
  ASSUME Distinct, DispatchInv, NEW c \in requests, c.task \in server.crossed, LoopLoads(c)
  PROVE  DispatchInv'
<1>1. /\ Holds(c, "recipe", server.session[c.task]) /\ server' = server
      /\ server.session[c.task] # None /\ server.session[c.task] \in Sessions \cup {None}
  BY CrossedFacts DEF LoopLoads, At, NeededInv, Needed, Server
<1> QED BY <1>1, CrossedIdle, CrossedHolds DEF Needed, Places

LEMMA CrossedLoopSaves ==
  ASSUME Distinct, DispatchInv, NEW c \in requests, c.task \in server.crossed, LoopSaves(c)
  PROVE  DispatchInv'
<1> DEFINE saved == [c.copy EXCEPT !.recipe = TRUE]
<1>1. c.copy \in Sessions /\ Moves(c, "dispatched")
      /\ server' = [server EXCEPT !.session[c.task] = saved]
  BY CrossedFacts DEF LoopSaves, At, NeededInv, Needed, Calls
<1>2. saved \in Sessions
  BY <1>1 DEF Sessions
<1> HIDE DEF saved
<1> QED BY <1>1, <1>2, CrossedSession, CrossedMoves DEF Needed, Places

LEMMA CrossedLoopStarts ==
  ASSUME Distinct, DispatchInv, NEW c \in requests, c.task \in server.crossed, LoopStarts(c)
  PROVE  DispatchInv'
<1> DEFINE d == [c EXCEPT !.op = "start", !.at = "task"]
<1>1. /\ c \in Calls /\ ~Locked /\ server' = server
      /\ requests' = (requests \ {c}) \cup {d}
  BY CrossedFacts DEF LoopStarts, At
<1>2. d \in Calls /\ d.task = c.task /\ d.op = "start" /\ d.at = "task"
  BY <1>1 DEF Calls, Operations, Places
<1> HIDE DEF d
<1>3. GoesOn(c, {d})
  BY <1>1, <1>2 DEF GoesOn, CallInv, NeededInv, Needed
<1> QED BY <1>1, <1>3, CrossedIdle, CrossedKeeps

LEMMA CrossedLoadSession ==
  ASSUME Distinct, DispatchInv, NEW c \in requests, c.task \in server.crossed, LoadSession(c)
  PROVE  DispatchInv'
<1>1. /\ server' = server /\ CrossedStep(c)
      /\ server.session[c.task] \in Sessions \cup {None}
  BY CrossedIdle, CrossedFacts DEF LoadSession, Server
<1>2. ASSUME NEW at \in {"fix", "run"}, Holds(c, at, server.session[c.task]),
             server.session[c.task] # None
      PROVE  DispatchInv'
  BY <1>1, <1>2, CrossedHolds DEF Needed, Places
<1>3. CASE server.session[c.task] # None /\ Moves(c, "bind")
  BY <1>1, <1>3, CrossedMoves DEF Needed, Places
<1> QED BY <1>1, <1>2, <1>3, CrossedReturns DEF LoadSession

LEMMA CrossedPrepareRun ==
  ASSUME Distinct, DispatchInv, NEW c \in requests, c.task \in server.crossed, PrepareDispatchRun(c)
  PROVE  DispatchInv'
<1>1. /\ Holds(c, "run", c.copy) /\ c.copy # None /\ c.copy \in Sessions \cup {None}
      /\ server.session[c.task] # None
      /\ server' = [server EXCEPT !.journal[c.task] = "run_prepared"]
  BY CrossedFacts DEF PrepareDispatchRun, At, NeededInv, Needed, Calls
<1>2. CrossedStep(c) /\ server'.session[c.task] = server.session[c.task]
  BY <1>1, CrossedJournal DEF Stages
<1> QED BY <1>1, <1>2, CrossedHolds DEF Needed, Places

LEMMA CrossedNewRun ==
  ASSUME Distinct, DispatchInv, NEW c \in requests, c.task \in server.crossed, NewRun(c)
  PROVE  DispatchInv'
<1> DEFINE saved == [c.copy EXCEPT !.run = IF @ = None THEN "queued" ELSE @]
<1>1. c.copy \in Sessions /\ Moves(c, "message")
      /\ server' = [server EXCEPT !.session[c.task] = saved]
  BY CrossedFacts DEF NewRun, At, NeededInv, Needed, Calls
<1>2. saved \in Sessions
  BY <1>1 DEF Sessions, RunStates
<1> HIDE DEF saved
<1> QED BY <1>1, <1>2, CrossedSession, CrossedMoves DEF Needed, Places

LEMMA CrossedMessage ==
  ASSUME Distinct, DispatchInv, NEW c \in requests, c.task \in server.crossed, ensureEmployeeRunMessage(c)
  PROVE  DispatchInv'
<1> DEFINE n == IF server.messages[c.task] = 0 THEN 1 ELSE server.messages[c.task]
<1>1. /\ server \in Server /\ c.task \in Tasks /\ FileInv(server, c.task)
      /\ server.session[c.task] # None /\ Moves(c, "created")
      /\ server' = [server EXCEPT !.messages[c.task] = n]
  BY CrossedFacts DEF ensureEmployeeRunMessage, Writes, At, NeededInv, Needed
<1>2. n \in Nat
  BY <1>1 DEF Server
<1> HIDE DEF n
<1>3. server' \in Server
  BY <1>1, <1>2 DEF Server
<1>4. CrossedStep(c) /\ server'.session[c.task] = server.session[c.task]
  BY <1>1, <1>3 DEF CrossedStep, RunnerStep, Elsewhere, SameFiles, FileInv, Server
<1> QED BY <1>1, <1>4, CrossedMoves DEF Needed, Places

LEMMA CrossedRunCreated ==
  ASSUME Distinct, DispatchInv, NEW c \in requests, c.task \in server.crossed, MarkRunCreated(c)
  PROVE  DispatchInv'
<1>1. /\ server.session[c.task] # None /\ Moves(c, "bind")
      /\ server' = [server EXCEPT !.journal[c.task] = "run_created"]
  BY CrossedFacts DEF MarkRunCreated, Writes, At, NeededInv, Needed
<1>2. CrossedStep(c) /\ server'.session[c.task] = server.session[c.task]
  BY <1>1, CrossedJournal DEF Stages
<1> QED BY <1>1, <1>2, CrossedMoves DEF Needed, Places

LEMMA CrossedTaskBound ==
  ASSUME Distinct, DispatchInv, NEW c \in requests, c.task \in server.crossed, MarkTaskBound(c)
  PROVE  DispatchInv'
<1>1. /\ server.session[c.task] # None /\ Moves(c, "complete")
      /\ server' = [server EXCEPT !.journal[c.task] = "task_bound"]
  BY CrossedFacts DEF MarkTaskBound, Writes, At, NeededInv, Needed
<1>2. CrossedStep(c) /\ server'.session[c.task] = server.session[c.task]
  BY <1>1, CrossedJournal DEF Stages
<1> QED BY <1>1, <1>2, CrossedMoves DEF Needed, Places

LEMMA CrossedComplete ==
  ASSUME Distinct, DispatchInv, NEW c \in requests, c.task \in server.crossed, CompleteDispatch(c)
  PROVE  DispatchInv'
<1>1. /\ server.session[c.task] # None /\ Moves(c, "launch")
      /\ server' = [server EXCEPT !.journal[c.task] = None]
  BY CrossedFacts DEF CompleteDispatch, Writes, At, NeededInv, Needed
<1>2. CrossedStep(c) /\ server'.session[c.task] = server.session[c.task]
  BY <1>1, CrossedJournal
<1> QED BY <1>1, <1>2, CrossedMoves DEF Needed, Places

LEMMA CrossedBind ==
  ASSUME Distinct, DispatchInv, NEW c \in requests, c.task \in server.crossed, BindTask(c)
  PROVE  DispatchInv'
<1> DEFINE file == [server.task[c.task] EXCEPT !.bound = TRUE]
<1>1. /\ server.session[c.task] # None /\ Moves(c, "index") /\ server.task[c.task] \in TaskFiles
      /\ server' = [server EXCEPT !.task[c.task] = file]
  BY CrossedFacts DEF BindTask, At, NeededInv, Needed, Server
<1>2. file \in TaskFiles
  BY <1>1 DEF TaskFiles
<1> HIDE DEF file
<1>3. CrossedStep(c) /\ server'.session[c.task] = server.session[c.task]
  BY <1>1, <1>2, CrossedTask
<1> QED BY <1>1, <1>3, CrossedMoves DEF Needed, Places

LEMMA CrossedIndex ==
  ASSUME Distinct, DispatchInv, NEW c \in requests, c.task \in server.crossed, SaveIndex(c)
  PROVE  DispatchInv'
<1> DEFINE t == c.task
           at == IF c.op = "cancel" THEN "discard" ELSE "bound"
<1>1. /\ server \in Server /\ t \in Tasks /\ FileInv(server, t) /\ Moves(c, at)
      /\ c.op # "cancel" => server.session[t] # None
      /\ server' = [server EXCEPT !.index[t] = server.task[t]]
  BY CrossedFacts DEF SaveIndex, Writes, At, NeededInv, Needed
<1>2. CrossedStep(c) /\ server'.session[t] = server.session[t]
  BY <1>1 DEF CrossedStep, RunnerStep, Elsewhere, SameFiles, FileInv, Server
<1>3. at \in Places /\ Needed(server', t, c.op, at, None)
  BY <1>1, <1>2 DEF Needed, Places
<1> HIDE DEF at
<1> QED BY <1>1, <1>2, <1>3, CrossedMoves

LEMMA CrossedReconcile ==
  ASSUME Distinct, DispatchInv, NEW c \in requests, c.task \in server.crossed, reconcileBoundDispatch(c)
  PROVE  DispatchInv'
<1>1. CrossedStep(c) /\ server' = server /\ server.session[c.task] # None
  BY CrossedIdle, CrossedFacts DEF reconcileBoundDispatch, At, NeededInv, Needed
<1>2. ASSUME NEW at \in {"bound", "complete", "launch"}, Moves(c, at) PROVE DispatchInv'
  BY <1>1, <1>2, CrossedMoves DEF Needed, Places
<1> QED BY <1>1, <1>2, CrossedReturns DEF reconcileBoundDispatch

LEMMA CrossedLaunch ==
  ASSUME Distinct, DispatchInv, NEW c \in requests, c.task \in server.crossed, NEW runs,
         c.at \in {"launch", "resume"}, Launch(c, runs)
  PROVE  DispatchInv'
<1> DEFINE t == c.task
<1>1. /\ server \in Server /\ t \in Tasks /\ FileInv(server, t) /\ server.session[t] # None
  BY CrossedFacts DEF NeededInv, Needed
<1>2. CASE Returns(c) /\ UNCHANGED server
  BY <1>2, CrossedIdle, CrossedReturns
<1>3. CASE Moves(c, "wait") /\ UNCHANGED server
  BY <1>3, CrossedIdle, CrossedMoves DEF Needed, Places
<1>4. CASE /\ server.runner = None /\ Moves(c, "wait")
           /\ server' = [server EXCEPT !.runner = t, !.mine = server.session[t], !.stopping = FALSE,
                           !.started[t] = IF c.op = "start" THEN @ + 1 ELSE @,
                           !.resumed = IF c.op = "resume" THEN @ \cup {t} ELSE @]
  <2>1. /\ server'.task = server.task /\ server'.journal = server.journal
        /\ server'.session = server.session /\ server'.runner = t
        /\ server'.messages = server.messages /\ server'.crossed = server.crossed
        /\ server'.mine = server.session[t]
        /\ \A u \in Tasks \ {t} : server'.started[u] = server.started[u]
        /\ server'.started[t] = IF c.op = "start" THEN server.started[t] + 1
                                                  ELSE server.started[t]
        /\ server'.resumed = IF c.op = "resume" THEN server.resumed \cup {t} ELSE server.resumed
    BY <1>1, <1>4 DEF Server
  <2>2. server' \in Server
    <3>1. /\ server'.started \in [Tasks -> Nat] /\ server'.resumed \in SUBSET Tasks
      BY <1>1, <1>4, <2>1 DEF Server
    <3>2. server' = [server EXCEPT !.runner = t, !.mine = server.session[t], !.stopping = FALSE,
                       !.started = server'.started, !.resumed = server'.resumed]
      BY <1>1, <1>4, <2>1 DEF Server
    <3>3. server.session[t] \in Sessions \cup {None}
      BY <1>1 DEF Server
    <3> QED BY <1>1, <3>1, <3>2, <3>3 DEF Server
  <2>3. server'.resumed \cup {t} = server.resumed \cup {t}
    BY <2>1
  <2>4. CrossedStep(c)
    BY <1>1, <1>4, <2>1, <2>2, <2>3 DEF CrossedStep, RunnerStep, Elsewhere, SameFiles, FileInv
  <2> QED BY <1>4, <2>4, CrossedMoves DEF Needed, Places
<1> QED BY <1>2, <1>3, <1>4 DEF Launch

LEMMA CrossedWait ==
  ASSUME Distinct, DispatchInv, NEW c \in requests, c.task \in server.crossed, waitForEmployeeRunProjection(c)
  PROVE  DispatchInv'
BY CrossedIdle, CrossedReturns DEF waitForEmployeeRunProjection

LEMMA CrossedResumeTask ==
  ASSUME Distinct, DispatchInv, NEW c \in requests, c.task \in server.crossed, ResumeTask(c)
  PROVE  DispatchInv'
<1>1. CrossedStep(c) /\ server' = server /\ FileInv(server, c.task)
  BY CrossedIdle, CrossedFacts DEF ResumeTask
<1>2. CASE server.task[c.task].bound /\ Moves(c, "reconcile")
  BY <1>1, <1>2, CrossedMoves DEF Needed, Places, FileInv
<1> QED BY <1>1, <1>2, CrossedReturns DEF ResumeTask

LEMMA CrossedRecover ==
  ASSUME Distinct, DispatchInv, NEW c \in requests, c.task \in server.crossed, Recover(c)
  PROVE  DispatchInv'
<1> DEFINE saved == [server.session[c.task] EXCEPT !.run = "interrupted"]
<1>1. server.session[c.task] \in Sessions
  BY CrossedFacts DEF Recover, At, NeededInv, Needed, Server
<1>2. saved \in Sessions
  BY <1>1 DEF Sessions, RunStates
<1>3. CASE Moves(c, "wait") /\ UNCHANGED server
  BY <1>3, CrossedIdle, CrossedMoves DEF Needed, Places
<1>4. CASE Returns(c) /\ UNCHANGED server
  BY <1>4, CrossedIdle, CrossedReturns
<1>5. CASE Moves(c, "resume") /\ server' = [server EXCEPT !.session[c.task].run = "interrupted"]
  <2>1. server' = [server EXCEPT !.session[c.task] = saved]
    BY <1>5
  <2> HIDE DEF saved
  <2> QED BY <1>2, <1>5, <2>1, CrossedSession, CrossedMoves DEF Needed, Places
<1> QED BY <1>3, <1>4, <1>5 DEF Recover

LEMMA CrossedCancel ==
  ASSUME Distinct, DispatchInv, NEW c \in requests, c.task \in server.crossed, CancelTask(c)
  PROVE  DispatchInv'
<1> DEFINE file == [server.task[c.task] EXCEPT !.state = "cancelled"]
<1>1. server.task[c.task] \in TaskFiles /\ FileInv(server, c.task) /\ c.op = "cancel"
  BY CrossedFacts DEF CancelTask, At, Server
<1>2. CASE Returns(c) /\ UNCHANGED server
  BY <1>2, CrossedIdle, CrossedReturns
<1>3. CASE server.task[c.task].bound /\ Moves(c, "stop") /\ UNCHANGED server
  BY <1>1, <1>3, CrossedIdle, CrossedMoves DEF Needed, Places, FileInv
<1>4. CASE Moves(c, "discard") /\ UNCHANGED server
  BY <1>4, CrossedIdle, CrossedMoves DEF Needed, Places
<1>5. CASE /\ ~server.task[c.task].bound /\ Moves(c, "index")
           /\ server' = [server EXCEPT !.task[c.task].state = "cancelled"]
  <2>1. server' = [server EXCEPT !.task[c.task] = file]
    BY <1>5
  <2>2. file \in TaskFiles /\ ~file.bound
    BY <1>1, <1>5 DEF TaskFiles
  <2> HIDE DEF file
  <2> QED BY <1>1, <1>5, <2>1, <2>2, CrossedTask, CrossedMoves DEF Needed, Places
<1> QED BY <1>2, <1>3, <1>4, <1>5 DEF CancelTask

LEMMA CrossedDiscard ==
  ASSUME Distinct, DispatchInv, NEW c \in requests, c.task \in server.crossed, DiscardPreparedDispatch(c)
  PROVE  DispatchInv'
<1> DEFINE stage == IF server.journal[c.task] \in {"prepared", "session_created"} THEN None
                    ELSE server.journal[c.task]
<1>1. /\ server \in Server /\ c.task \in Tasks /\ FileInv(server, c.task) /\ Returns(c)
      /\ server' = [server EXCEPT !.journal[c.task] = stage]
  BY CrossedFacts DEF DiscardPreparedDispatch, At
<1>2. /\ stage \in Stages \cup {None}
      /\ stage \notin {None, "prepared"} => server.session[c.task] # None
  BY <1>1 DEF Server, FileInv
<1> HIDE DEF stage
<1> QED BY <1>1, <1>2, CrossedJournal, CrossedReturns

LEMMA CrossedCancelBound ==
  ASSUME Distinct, DispatchInv, NEW c \in requests, c.task \in server.crossed, cancelBoundEmployeeTask(c)
  PROVE  DispatchInv'
<1> DEFINE saved == [server.session[c.task] EXCEPT !.run = "cancelled"]
<1>1. /\ server.session[c.task] \in Sessions /\ Returns(c) /\ server \in Server
      /\ c.task \in Tasks /\ FileInv(server, c.task)
  BY CrossedFacts DEF cancelBoundEmployeeTask, At, NeededInv, Needed, Server
<1>2. saved \in Sessions
  BY <1>1 DEF Sessions, RunStates, Terminal
<1>3. CASE UNCHANGED server
  BY <1>1, <1>3, CrossedIdle, CrossedReturns
<1>4. CASE server' = [server EXCEPT !.stopping = TRUE]
  <2>1. CrossedStep(c)
    BY <1>1, <1>4 DEF CrossedStep, RunnerStep, Elsewhere, SameFiles, FileInv, Server
  <2> QED BY <1>1, <2>1, CrossedReturns
<1>5. CASE server' = [server EXCEPT !.session[c.task].run = "cancelled"]
  <2>1. server' = [server EXCEPT !.session[c.task] = saved]
    BY <1>5
  <2> HIDE DEF saved
  <2> QED BY <1>1, <1>2, <2>1, CrossedSession, CrossedReturns
<1> QED BY <1>3, <1>4, <1>5 DEF cancelBoundEmployeeTask

LEMMA CrossedWorkKeeps ==
  ASSUME Distinct, DispatchInv, NEW c \in requests, c.task \in server.crossed, Step(c)
  PROVE  DispatchInv'
<1>1. StartRun(c) => DispatchInv'
  BY CrossedLaunch DEF StartRun, At
<1>2. ResumeRun(c) => DispatchInv'
  BY CrossedLaunch DEF ResumeRun, At
<1> QED BY <1>1, <1>2, CrossedStartTask, CrossedPrepareDispatch, CrossedNewPrepared,
           CrossedMatch, CrossedMark, CrossedLoopLoads, CrossedLoopSaves, CrossedLoopStarts,
           CrossedLoadSession, CrossedPrepareRun, CrossedNewRun, CrossedMessage,
           CrossedRunCreated, CrossedBind, CrossedIndex, CrossedTaskBound, CrossedComplete,
           CrossedReconcile, CrossedWait, CrossedResumeTask, CrossedRecover, CrossedCancel,
           CrossedDiscard, CrossedCancelBound DEF Step

LEMMA WorkKeeps ==
  ASSUME Distinct, DispatchInv, NEW c \in requests, Step(c) PROVE DispatchInv'
BY OwnWorkKeeps, CrossedWorkKeeps

-----------------------------------------------------------------------------
(* The Runner, what goes wrong, and the calls that come in.                  *)

\* The Runner writes the Session with another status of the Run.
LEMMA RunKeeps ==
  ASSUME Distinct, DispatchInv, server.runner # None,
         NEW run \in RunStates \ {"queued", "interrupted"}, Commits(run),
         run = "running" => server.mine.run \in {"queued", "interrupted"}
  PROVE  DispatchInv'
<1> DEFINE r == server.runner
           saved == [server.mine EXCEPT !.run = run]
<1>1. /\ server \in Server /\ r \in Tasks /\ server.mine \in Sessions /\ requests' = requests
      /\ server' = [server EXCEPT !.mine = saved, !.session[r] = saved]
  BY DEF DispatchInv, Server, RunnerInv, Commits
<1>2. saved \in Sessions /\ saved.run = run
  BY <1>1 DEF Sessions
<1>3. saved # None /\ run # None
  BY <1>2 DEF Distinct
<1> HIDE DEF saved
<1>4. FileInv(server, r) /\ RunnerInv(server) /\ StartedInv(server) /\ AloneInv(server, requests)
  BY <1>1 DEF DispatchInv
<1>5. r \notin server.crossed =>
        /\ server.task[r] = [state |-> "queued", bound |-> TRUE] /\ server.journal[r] = None
        /\ server.mine = server.session[r]
        /\ server.session[r].run = "interrupted" => r \in server.resumed
        /\ TaskInv(server, r)
  BY <1>4 DEF RunnerInv, FileInv
<1>6. /\ server'.task = server.task /\ server'.journal = server.journal
      /\ server'.runner = server.runner /\ server'.started = server.started
      /\ server'.resumed = server.resumed /\ server'.messages = server.messages
      /\ server'.crossed = server.crossed /\ server'.mine = saved
      /\ \A u \in Tasks \ {r} : server'.session[u] = server.session[u]
      /\ server'.session[r] = saved
  BY <1>1 DEF Server
<1>7. server' \in Server
  BY <1>1, <1>2 DEF Server
<1>8. \A u \in Tasks : FileInv(server', u)
  <2>1. FileInv(server', r)
    BY <1>2, <1>3, <1>5, <1>6 DEF FileInv, TaskInv, HasRun
  <2>2. Elsewhere(server, server', r)
    BY <1>6 DEF Elsewhere, SameFiles
  <2> QED BY <1>1, <1>6, <2>1, <2>2, OtherFiles
<1>9. ASSUME NEW d \in requests PROVE CallInv(server', d)
  <2>1. CallInv(server, d) /\ d.task \in Tasks
    BY <1>9 DEF DispatchInv, Calls
  <2>2. NeededInv(server', d)
    BY <1>3, <1>6, <2>1 DEF CallInv, NeededInv, Needed
  <2>3. ASSUME d.task \notin server.crossed PROVE PlaceInv(server', d)
    <3>1. PlaceInv(server, d)
      BY <2>1, <2>3 DEF CallInv
    <3>2. CASE d.task = r
      <4>1. ~Unbound(server, r)
        BY <1>5, <2>3, <3>2 DEF Unbound
      <4> QED BY <1>6, <3>1, <3>2, <4>1 DEF PlaceInv, PlaceAt, MayBind
    <3>3. CASE d.task # r
      <4>1. SameFiles(server, server', d.task)
        BY <1>6, <2>1, <3>3 DEF SameFiles
      <4> QED BY <3>1, <4>1 DEF PlaceInv, PlaceAt, SameFiles, Unbound, HasRun
    <3> QED BY <3>2, <3>3
  <2> QED BY <1>6, <2>2, <2>3 DEF CallInv
<1>10. RunnerInv(server')
  BY <1>2, <1>3, <1>5, <1>6 DEF RunnerInv
<1>11. StartedInv(server')
  BY <1>2, <1>4, <1>6 DEF StartedInv
<1>12. \A u \in Tasks \ server.crossed :
         Busy(server', u) => Busy(server, u) \/ u \in Excused(server)
  <2>1. ASSUME r \notin server.crossed, Busy(server', r)
        PROVE  Busy(server, r) \/ r \in Excused(server)
    <3>1. run = "running"
      BY <1>2, <1>6, <2>1 DEF Busy
    <3> QED BY <1>5, <2>1, <3>1 DEF Busy, Excused
  <2> QED BY <1>6, <2>1 DEF Busy
<1>13. AloneInv(server', requests')
  BY <1>1, <1>4, <1>6, <1>12 DEF AloneInv, Excused
<1>14. OneAtATime(server'.crossed, requests') /\ requests' \subseteq Calls
  BY <1>1, <1>6 DEF DispatchInv
<1> QED BY <1>1, <1>7, <1>8, <1>9, <1>10, <1>11, <1>13, <1>14 DEF DispatchInv

LEMMA ReleaseKeeps ==
  ASSUME Distinct, DispatchInv, ReleaseRun PROVE DispatchInv'
<1>1. /\ server.runner # None /\ server.mine.run \in Terminal
      /\ server' = [server EXCEPT !.runner = None, !.mine = None, !.stopping = FALSE]
      /\ requests' = requests
  BY DEF ReleaseRun
<1>2. server \in Server
  BY DEF DispatchInv
<1>3. /\ server' \in Server /\ server'.task = server.task /\ server'.journal = server.journal
      /\ server'.session = server.session /\ server'.runner = None
      /\ server'.started = server.started /\ server'.resumed = server.resumed
      /\ server'.messages = server.messages /\ server'.crossed = server.crossed
  BY <1>1, <1>2 DEF Server
<1>4. \A t \in Tasks : FileInv(server', t)
  BY <1>3 DEF DispatchInv, FileInv, TaskInv, HasRun
<1>5. ASSUME NEW d \in requests PROVE CallInv(server', d)
  <2>1. CallInv(server, d)
    BY <1>5 DEF DispatchInv
  <2>2. NeededInv(server', d)
    BY <1>3, <2>1 DEF CallInv, NeededInv, Needed
  <2>3. d.task \notin server.crossed => PlaceInv(server', d)
    BY <1>3, <2>1 DEF CallInv, PlaceInv, PlaceAt, Unbound, HasRun
  <2> QED BY <1>3, <2>2, <2>3 DEF CallInv
<1>6. RunnerInv(server')
  BY <1>3 DEF RunnerInv
<1>7. StartedInv(server')
  <2>1. StartedInv(server) /\ RunnerInv(server)
    BY DEF DispatchInv
  <2>2. server.runner \notin server.crossed => server.session[server.runner].run \in Terminal
    BY <1>1, <2>1 DEF RunnerInv
  <2>3. \A t \in Tasks \ server.crossed : server.runner = t => server.session[t].run # "queued"
    BY <2>2 DEF Terminal
  <2> QED BY <1>3, <2>1, <2>3 DEF StartedInv
<1>8. AloneInv(server', requests')
  BY <1>1, <1>3 DEF DispatchInv, AloneInv, Busy, Excused
<1>9. OneAtATime(server'.crossed, requests') /\ requests' \subseteq Calls
  BY <1>1, <1>3 DEF DispatchInv
<1> QED BY <1>1, <1>3, <1>4, <1>5, <1>6, <1>7, <1>8, <1>9 DEF DispatchInv

LEMMA CrashKeeps ==
  ASSUME Distinct, DispatchInv, Crash PROVE DispatchInv'
<1> DEFINE after(t) ==
             IF server.session[t] # None /\ server.session[t].run \in {"queued", "running"}
             THEN [server.session[t] EXCEPT !.run = "interrupted"] ELSE server.session[t]
<1>1. /\ requests' = {}
      /\ server' = [server EXCEPT !.runner = None, !.mine = None, !.stopping = FALSE,
                                  !.session = [t \in Tasks |-> after(t)]]
  BY DEF Crash, DispatchInv, Server
<1>2. server \in Server /\ \A t \in Tasks : FileInv(server, t)
  BY DEF DispatchInv
<1>3. ASSUME NEW t \in Tasks
      PROVE  /\ after(t) \in Sessions \cup {None}
             /\ after(t) = None <=> server.session[t] = None
             /\ server.session[t] # None =>
                  /\ after(t).run = None <=> server.session[t].run = None
                  /\ after(t).run \notin {"queued", "running"}
  <2>1. server.session[t] \in Sessions \cup {None}
    BY <1>2 DEF Server
  <2>2. CASE server.session[t] = None
    BY <2>2
  <2>3. CASE server.session[t] # None /\ server.session[t].run \in {"queued", "running"}
    <3>1. server.session[t] \in Sessions
      BY <2>1, <2>3
    <3>2. after(t) \in Sessions /\ after(t).run = "interrupted"
      BY <2>3, <3>1 DEF Sessions, RunStates
    <3>3. None # "interrupted" /\ None \notin {"queued", "running"} /\ after(t) # None
      BY <3>2 DEF Distinct, RunStates
    <3> HIDE DEF after
    <3> QED BY <2>3, <3>2, <3>3
  <2>4. CASE server.session[t] # None /\ server.session[t].run \notin {"queued", "running"}
    BY <2>1, <2>4
  <2> QED BY <2>2, <2>3, <2>4
<1> HIDE DEF after
<1>4. /\ server'.task = server.task /\ server'.journal = server.journal
      /\ server'.session = [t \in Tasks |-> after(t)] /\ server'.runner = None
      /\ server'.started = server.started /\ server'.resumed = server.resumed
      /\ server'.messages = server.messages /\ server'.crossed = server.crossed
  BY <1>1, <1>2 DEF Server
<1>5. server' \in Server
  BY <1>1, <1>2, <1>3 DEF Server
<1>6. \A t \in Tasks : FileInv(server', t)
  <2>1. ASSUME NEW t \in Tasks, TaskInv(server, t) PROVE TaskInv(server', t)
    BY <1>3, <1>4, <2>1 DEF TaskInv, HasRun
  <2> QED BY <1>2, <1>3, <1>4, <2>1 DEF FileInv
<1>7. \A t \in Tasks : ~Busy(server', t)
  BY <1>2, <1>3, <1>4 DEF Busy, FileInv
<1>8. StartedInv(server')
  <2>1. StartedInv(server)
    BY DEF DispatchInv
  <2> QED BY <1>4, <1>7, <2>1 DEF StartedInv, Busy
<1>9. RunnerInv(server')
  BY <1>4 DEF RunnerInv
<1>10. AloneInv(server', requests')
  BY <1>1, <1>7 DEF AloneInv
<1> QED BY <1>1, <1>5, <1>6, <1>8, <1>9, <1>10 DEF DispatchInv, OneAtATime

\* A call that comes in: its Task is crossed, or no other call works on it.
LEMMA ArrivalKeeps ==
  ASSUME Distinct, DispatchInv, NEW d \in Calls, requests' = requests \cup {d},
         server' = server \/ server' = [server EXCEPT !.crossed = @ \cup {d.task}],
         PlaceInv(server, d), NeededInv(server, d), d.op = "start" => d.at \notin MayBind,
         \A c \in requests :
           /\ ~(c.op \in Operations <=> d.op \in Operations)
           /\ c.task = d.task => d.task \in server'.crossed
  PROVE  DispatchInv'
<1>1. d.task \in Tasks /\ server \in Server
  BY DEF Calls, DispatchInv
<1>2. /\ server' \in Server /\ server'.task = server.task /\ server'.journal = server.journal
      /\ server'.session = server.session /\ server'.runner = server.runner
      /\ server'.mine = server.mine /\ server'.messages = server.messages
      /\ server'.started = server.started /\ server'.resumed = server.resumed
      /\ server.crossed \subseteq server'.crossed
  BY <1>1 DEF Server
<1>3. OneAtATime(server'.crossed, requests') /\ requests' \subseteq Calls
  BY <1>2 DEF DispatchInv, OneAtATime
<1>4. \A t \in Tasks : FileInv(server', t)
  <2>1. ASSUME NEW t \in Tasks PROVE TaskInv(server, t) <=> TaskInv(server', t)
    BY <1>2 DEF TaskInv, HasRun
  <2> QED BY <1>2, <2>1 DEF DispatchInv, FileInv
<1>5. ASSUME NEW c \in requests' PROVE CallInv(server', c)
  <2>1. PlaceInv(server', c) <=> PlaceInv(server, c)
    BY <1>2 DEF PlaceInv, PlaceAt, Unbound, HasRun
  <2>2. NeededInv(server', c) <=> NeededInv(server, c)
    BY <1>2 DEF NeededInv, Needed
  <2> QED BY <1>2, <2>1, <2>2 DEF DispatchInv, CallInv
<1>6. RunnerInv(server') /\ StartedInv(server')
  BY <1>2 DEF DispatchInv, RunnerInv, StartedInv
<1>7. AloneInv(server', requests')
  <2>1. Excused(server) \subseteq Excused(server')
    BY <1>2 DEF Excused
  <2>2. \A u \in Tasks : Busy(server', u) <=> Busy(server, u)
    BY <1>2 DEF Busy
  <2> QED BY <1>2, <2>1, <2>2 DEF DispatchInv, AloneInv
<1> QED BY <1>2, <1>3, <1>4, <1>5, <1>6, <1>7 DEF DispatchInv

LEMMA CallKeeps ==
  ASSUME Distinct, DispatchInv, NEW op \in Operations, NEW t \in Tasks, Call(op, t)
  PROVE  DispatchInv'
<1> DEFINE d == [op |-> op, task |-> t, at |-> "task", copy |-> None]
<1>1. d \in Calls
  BY DEF Calls, Places
<1>2. PlaceInv(server, d) /\ NeededInv(server, d)
  <2>1. op # "loop"
    BY DEF Operations
  <2> QED BY <2>1 DEF PlaceInv, PlaceAt, NeededInv, Needed, MayBind
<1>3. requests' = requests \cup {d} /\ d.task = t /\ d.op \in Operations
      /\ (d.op = "start" => d.at \notin MayBind)
      /\ server' = IF Loops(t) THEN [server EXCEPT !.crossed = @ \cup {t}] ELSE server
  BY DEF Call, MayBind
<1> HIDE DEF d
<1>4. ASSUME NEW c \in requests
      PROVE  /\ ~(c.op \in Operations <=> d.op \in Operations)
             /\ c.task = d.task => d.task \in server'.crossed
  <2>1. c.op \notin Operations /\ c.op \in Operations \cup {"loop"}
    BY <1>4 DEF Call, Locked, DispatchInv, Calls
  <2>2. c.task = t => Loops(t)
    BY <1>4, <2>1 DEF Loops
  <2>3. Loops(t) => t \in server'.crossed
    BY <1>3 DEF DispatchInv, Server
  <2> QED BY <1>3, <2>1, <2>2, <2>3
<1> QED BY <1>1, <1>2, <1>3, <1>4, ArrivalKeeps

LEMMA LoopCallKeeps ==
  ASSUME Distinct, DispatchInv, NEW t \in Tasks, startEmployeeLoopInvocation(t)
  PROVE  DispatchInv'
<1> DEFINE d == [op |-> "loop", task |-> t, at |-> "prepare", copy |-> None]
<1>1. d \in Calls
  BY DEF Calls, Places
<1>2. PlaceInv(server, d) /\ NeededInv(server, d)
  BY DEF PlaceInv, PlaceAt, NeededInv, Needed, MayBind, startEmployeeLoopInvocation,
         NewTask, Unbound
<1>3. ASSUME NEW c \in requests
      PROVE  c.task # d.task /\ ~(c.op \in Operations <=> d.op \in Operations)
  <2>1. c.op # "loop" /\ c.op \in Operations \cup {"loop"} /\ c.task # t
    BY <1>3 DEF startEmployeeLoopInvocation, DispatchInv, Calls
  <2> QED BY <2>1 DEF Operations
<1>4. /\ requests' = requests \cup {d} /\ server' = server /\ d.op # "start"
  BY DEF startEmployeeLoopInvocation
<1> HIDE DEF d
<1> QED BY <1>1, <1>2, <1>3, <1>4, ArrivalKeeps

-----------------------------------------------------------------------------
LEMMA InitDispatch ==
  ASSUME Distinct, Init PROVE DispatchInv
<1>1. server = Fresh /\ requests = {}
  BY DEF Init
<1>2. server \in Server
  BY <1>1 DEF Fresh, Server, NewTask, TaskFiles
<1>3. \A t \in Tasks : /\ FileInv(server, t) /\ ~server.task[t].bound
                       /\ server.started[t] = 0
  BY <1>1 DEF Fresh, FileInv, TaskInv, NewTask, Distinct, Stages
<1>4. RunnerInv(server) /\ StartedInv(server) /\ AloneInv(server, requests)
  BY <1>1, <1>3 DEF Fresh, RunnerInv, StartedInv, AloneInv, Busy
<1> QED BY <1>1, <1>2, <1>3, <1>4 DEF DispatchInv, OneAtATime

LEMMA NextDispatch ==
  ASSUME Distinct, DispatchInv, [Next]_vars PROVE DispatchInv'
<1>1. CASE UNCHANGED vars
  BY <1>1 DEF vars, DispatchInv
<1>2. CASE CallWorks \/ LoopWorks
  BY <1>2, WorkKeeps DEF CallWorks, LoopWorks
<1>3. CASE RunBegins
  <2>1. "running" \in RunStates \ {"queued", "interrupted"}
    BY DEF RunStates
  <2> QED BY <1>3, <2>1, RunKeeps DEF RunBegins
<1>4. CASE RunEnds
  <2>1. PICK run \in {"cancelled", "completed", "failed"} : Commits(run)
    BY <1>4 DEF RunEnds
  <2>2. run \in RunStates \ {"queued", "interrupted"} /\ run # "running"
    BY DEF RunStates, Terminal
  <2> QED BY <1>4, <2>1, <2>2, RunKeeps DEF RunEnds
<1>5. CASE ReleaseRun
  BY <1>5, ReleaseKeeps
<1>6. CASE Crash
  BY <1>6, CrashKeeps
<1>7. ASSUME NEW c \in requests, Fails(c) PROVE DispatchInv'
  BY <1>7, NothingWritten, ReturnKeeps, CrossedIdle, CrossedReturns DEF Fails
<1>8. ASSUME NEW t \in Tasks, NEW op \in Operations, Call(op, t) PROVE DispatchInv'
  BY <1>8, CallKeeps
<1>9. ASSUME NEW t \in Tasks, startEmployeeLoopInvocation(t) PROVE DispatchInv'
  BY <1>9, LoopCallKeeps
<1> QED BY <1>1, <1>2, <1>3, <1>4, <1>5, <1>6, <1>7, <1>8, <1>9 DEF Next, Running

LEMMA AlwaysDispatch ==
  ASSUME Distinct PROVE Spec => []DispatchInv
<1>1. Init => DispatchInv
  BY InitDispatch
<1>2. DispatchInv /\ [Next]_vars => DispatchInv'
  BY NextDispatch
<1> QED BY <1>1, <1>2, PTL DEF Spec

-----------------------------------------------------------------------------
\* Whatever write was the last before a crash or a refusal, the journal of a Task
\* names only what is on disk, and the Run of a bound Task has its prompt once
\* (dispatch.go, StartEmployeeTask).
THEOREM JournalNamesWhatIsThere ==
  ASSUME Distinct PROVE Spec => []StagesAreDurable
<1>1. DispatchInv => StagesAreDurable
  BY DEF DispatchInv, FileInv, StagesAreDurable, TaskInv, HasRun
<1> QED BY <1>1, AlwaysDispatch, PTL

\* No Run of a Task executes before its dispatch is over, and none of a Task that
\* was cancelled (StartEmployeeTask, reconcileBoundDispatch).
THEOREM LaunchAfterDispatch ==
  ASSUME Distinct PROVE Spec => []LaunchedIsReconciled
<1>1. DispatchInv => LaunchedIsReconciled
  BY DEF DispatchInv, RunnerInv, LaunchedIsReconciled
<1> QED BY <1>1, AlwaysDispatch, PTL

\* A start launches the Run of a Task once, however often it is sent, refused or
\* cut off (stableEmployeeRunID, StartRun).
THEOREM StartLaunchesOnce ==
  ASSUME Distinct PROVE Spec => []StartedOnce
<1>1. DispatchInv => StartedOnce
  BY DEF DispatchInv, StartedInv, StartedOnce
<1> QED BY <1>1, AlwaysDispatch, PTL

\* An Employee has one Task under way, except for what a resume brings back
\* (ensureEmployeeRunAvailable).
THEOREM OneTaskUnderWay ==
  ASSUME Distinct PROVE Spec => []OneTaskEach
<1>1. DispatchInv => OneTaskEach
  <2> SUFFICES ASSUME DispatchInv PROVE OneTaskEach
    OBVIOUS
  <2> DEFINE B == {t \in Tasks \ (server.resumed \cup server.crossed) :
                     server.task[t].bound /\ server.session[t].run \in {"queued", "running"}}
  <2>1. \A t, u \in B : t = u
    BY DEF DispatchInv, AloneInv, Busy, Excused
  <2>2. CASE B = {}
    BY <2>2, FS_EmptySet DEF OneTaskEach
  <2>3. CASE B # {}
    <3>1. PICK t \in B : TRUE
      BY <2>3
    <3>2. B = {t}
      BY <2>1, <3>1
    <3>3. Cardinality(B) = 1
      BY <3>2, FS_Singleton
    <3> QED BY <3>3 DEF OneTaskEach
  <2> QED BY <2>2, <2>3
<1> QED BY <1>1, AlwaysDispatch, PTL
=============================================================================
