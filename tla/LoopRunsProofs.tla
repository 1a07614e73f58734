---------------------------- MODULE LoopRunsProofs ----------------------------
(* What is proved of the invocations of a Loop and of its scheduler, for any  *)
(* number of occurrences, starts, updates, cancellations and crashes.        *)
EXTENDS LoopRuns, SequenceTheorems, FiniteSetTheorems, WellFoundedInduction, TLAPS

-----------------------------------------------------------------------------
(* What the store and the calls hold.                                        *)

Statuses == {"new", "prepared", "dispatched", "attached"} \cup Terminal
RunStatuses == {"running", "stopping", "interrupted"} \cup DOMAIN Outcome
Definitions == [revision : Nat, enabled : BOOLEAN, daily : BOOLEAN]
Records ==
  [status : Statuses, bound : BOOLEAN, scheduled : BOOLEAN, definition : Definitions]
States ==
  [revision : Nat, last : Nat, status : Statuses \cup {""}, total : Nat, next : Nat \cup {None}]

\* None is told from a time, the status of a Run and a runtime state.
Distinct == MaxDays \in Nat /\ None \notin Nat \cup RunStatuses \cup States

Server ==
  [definition : Definitions, inv : Seq(Records), run : Seq(RunStatuses \cup {None}),
   state : States \cup {None}, day : 0..MaxDays, claimed : [1..MaxDays -> Nat],
   counted : Seq(Nat), crossed : SUBSET Nat]

Calls ==
  [op : {"start", "cancel"}, inv : Nat, copy : Records \cup {None}, from : States \cup {None},
   at : {"new", "save", "create", "dispatch", "run", "attach", "frontier"}]

Sized(s) == Len(s.run) = Len(s.inv) /\ Len(s.counted) = Len(s.inv)

\* What is saved of invocation i: a record that names its Run says how it ended,
\* and a Run is recorded unless a cancellation crossed the start.
RecordInv(s, i) ==
  LET inv == s.inv[i] IN
  /\ inv.bound => s.run[i] # None /\ inv.status \in {"attached"} \cup Terminal
  /\ inv.bound /\ inv.status \in Terminal =>
       s.run[i] \in DOMAIN Outcome /\ inv.status = Outcome[s.run[i]]
  /\ inv.status = "completed" => inv.bound
  /\ i \notin s.crossed /\ s.run[i] # None =>
       /\ inv.status \notin {"new", "prepared", "skipped"}
       /\ inv.status = "blocked" => inv.bound

Writing == {"save", "create", "dispatch", "run", "attach"}

\* The status in the copy of a start, by the step it takes next.
CopyStatus(at) ==
  CASE at = "save" -> {"prepared", "blocked"}
    [] at \in {"create", "dispatch"} -> {"prepared"}
    [] at \in {"run", "attach"} -> {"dispatched"}
    [] OTHER -> {"attached", "blocked"}

\* A start that still writes is the only writer of its invocation but for a
\* cancellation, which marks it, and its Run is created by its own step.
StartInv(s, c) ==
  c.op = "start" /\ c.at # "new" =>
    /\ c.inv \in 1..Len(s.inv) /\ c.copy \in Records /\ c.copy.status \in CopyStatus(c.at)
    /\ c.at = "frontier" => c.from # None
    /\ c.at \in Writing =>
         /\ ~s.inv[c.inv].bound /\ ~c.copy.bound
         /\ s.run[c.inv] = None <=> c.at # "attach"
    /\ c.at \in Writing /\ c.inv \notin s.crossed =>
         IF c.at = "save" THEN s.inv[c.inv].status = "new" ELSE s.inv[c.inv] = c.copy

CancelInv(s, c) ==
  c.op = "cancel" =>
    /\ c.inv \in 1..Len(s.inv) /\ c.copy \in Records
    /\ ~c.copy.bound /\ c.copy.status \notin Terminal \cup {"new"}

OneStartEach(calls) ==
  \A c, d \in calls :
    c.op = "start" /\ d.op = "start" /\ c.at # "new" /\ d.at # "new" /\ c.inv = d.inv => c = d

Good(s, calls) ==
  /\ s \in Server /\ Sized(s) /\ calls \subseteq Calls
  /\ \A i \in 1..Len(s.inv) : RecordInv(s, i)
  /\ \A c \in calls : StartInv(s, c) /\ CancelInv(s, c)
  /\ OneStartEach(calls)

\* The schedule is past every occurrence that was claimed, and the frontier past
\* every invocation that was counted.
StateInv(s) ==
  /\ \A d \in 1..MaxDays :
       /\ s.claimed[d] <= 1
       /\ s.claimed[d] > 0 =>
            d <= s.day /\ s.state # None /\ (s.state.next = None \/ s.state.next > d)
  /\ \A i \in 1..Len(s.inv) :
       /\ s.counted[i] <= 1
       /\ s.counted[i] > 0 =>
            /\ s.state # None
            /\ i < s.state.last \/ (i = s.state.last /\ s.state.status \in Terminal)
  /\ s.state # None => s.state.last <= Len(s.inv)

\* The scheduler makes one start at a time and works on the state it saved.
ScheduledInv(s, calls) ==
  /\ \A c \in calls : c.op = "start" /\ c.from # None =>
       c.from = s.state /\ (c.at # "new" => c.inv > s.state.last)
  /\ \A c, d \in calls :
       c.op = "start" /\ d.op = "start" /\ c.from # None /\ d.from # None => c = d

AllGood(s, calls) == Good(s, calls) /\ StateInv(s) /\ ScheduledInv(s, calls)

LoopInv == AllGood(server, requests)

-----------------------------------------------------------------------------
(* Facts about data.                                                         *)

\* A finite set of numbers that is not empty has a greatest one.
LEMMA MaxFacts ==
  ASSUME NEW n \in Nat, NEW ids \in SUBSET (1..n), ids # {}
  PROVE  Max(ids) \in ids /\ \A i \in ids : i <= Max(ids)
<1> DEFINE Above(i) == {j \in ids : j > i}
           U == {Above(i) : i \in ids}
<1>1. IsFiniteSet(ids)
  <2>1. IsFiniteSet(1..n)
    <3>1. 1 \in Int /\ n \in Int
      OBVIOUS
    <3> QED BY ONLY <3>1, FS_Interval
  <2> QED BY <2>1, FS_Subset
<1>2. IsWellFoundedOn(StrictSubsetOrdering(ids), FiniteSubsetsOf(ids))
  BY FS_StrictSubsetOrderingWellFounded
<1>3. U \subseteq FiniteSubsetsOf(ids) /\ U # {}
  <2>1. \A i \in ids : Above(i) \subseteq ids
    OBVIOUS
  <2>2. \A i \in ids : IsFiniteSet(Above(i))
    BY <1>1, <2>1, FS_Subset
  <2> HIDE DEF Above
  <2> QED BY <2>1, <2>2 DEF FiniteSubsetsOf
<1>4. PICK x \in U : \A y \in U : ~(<<y, x>> \in StrictSubsetOrdering(ids))
  BY <1>2, <1>3, WFMin
<1>5. PICK i \in ids : x = Above(i)
  BY <1>4
<1>6. ASSUME NEW j \in Above(i) PROVE FALSE
  <2>1. Above(j) \subseteq Above(i) /\ j \notin Above(j) /\ j \in ids
    <3>1. \A k \in ids : k \in Int
      OBVIOUS
    <3>2. j \in ids /\ j > i
      OBVIOUS
    <3>3. \A k \in ids : k > j => k > i
      BY ONLY <3>1, <3>2, i \in ids
    <3>4. ~(j > j)
      BY <3>1, <3>2
    <3> QED BY <3>2, <3>3, <3>4
  <2>2. <<Above(j), Above(i)>> \in StrictSubsetOrdering(ids)
    BY <2>1 DEF StrictSubsetOrdering
  <2> QED BY <1>4, <1>5, <2>1, <2>2
<1>7. \A j \in ids : i >= j
  BY <1>6
<1>8. Max(ids) \in ids /\ \A j \in ids : Max(ids) >= j
  BY <1>7 DEF Max
<1> QED BY <1>8

-----------------------------------------------------------------------------
(* Steps on a server s with the calls under way.                             *)

\* What is over stays as it is, unless a cancellation crossed its start.
FinalKept(s, t) ==
  \A i \in 1..Len(s.inv) :
    s.inv[i].status \in Terminal /\ t.inv[i] # s.inv[i] => i \in t.crossed

LEMMA FewerCalls ==
  ASSUME NEW s, NEW calls, NEW rest \in SUBSET calls, Good(s, calls) PROVE Good(s, rest)
BY DEF Good, OneStartEach

LEMMA OneCallMore ==
  ASSUME NEW s, NEW calls, NEW d \in Calls, Good(s, calls), StartInv(s, d), CancelInv(s, d),
         d.op = "start" => d.at = "new"
  PROVE  Good(s, calls \cup {d})
<1>1. \A c \in calls \cup {d} : StartInv(s, c) /\ CancelInv(s, c)
  BY DEF Good
<1>2. OneStartEach(calls \cup {d})
  BY DEF Good, OneStartEach
<1>3. calls \cup {d} \subseteq Calls
  BY DEF Good
<1> QED BY <1>1, <1>2, <1>3 DEF Good

Beside(s, t, i) ==
  \A j \in 1..Len(s.inv) : j # i => t.inv[j] = s.inv[j] /\ t.run[j] = s.run[j]

GoesOn(t, c, next) ==
  /\ next \subseteq Calls
  /\ \A d \in next : /\ d.op = "start" /\ d.inv = c.inv /\ d.at # "new" /\ d.from = c.from
                     /\ StartInv(t, d)
                     /\ \A e \in next : e = d

\* A start writes its invocation or its Run, and goes on or returns.
LEMMA StartSteps ==
  ASSUME NEW s, NEW calls, Good(s, calls), NEW c \in calls, c.op = "start", c.at # "new",
         NEW t \in Server, Sized(t), Len(t.inv) = Len(s.inv), t.crossed = s.crossed,
         Beside(s, t, c.inv), RecordInv(t, c.inv), c.at \in Writing \/ t.inv[c.inv] = s.inv[c.inv],
         NEW next, GoesOn(t, c, next)
  PROVE  Good(t, (calls \ {c}) \cup next) /\ FinalKept(s, t)
<1> DEFINE after == (calls \ {c}) \cup next
<1>1. c.inv \in 1..Len(s.inv) /\ StartInv(s, c)
  BY DEF Good, StartInv
<1>2. \A j \in 1..Len(t.inv) : RecordInv(t, j)
  <2>1. ASSUME NEW j \in 1..Len(t.inv), j # c.inv PROVE RecordInv(t, j)
    <3>1. t.inv[j] = s.inv[j] /\ t.run[j] = s.run[j] /\ RecordInv(s, j)
      BY <2>1 DEF Good, Beside
    <3> QED BY <3>1 DEF RecordInv
  <2> QED BY <2>1
<1>3. ASSUME NEW e \in calls, e # c PROVE StartInv(t, e) /\ CancelInv(t, e)
  <2>1. StartInv(s, e) /\ CancelInv(s, e)
    BY DEF Good
  <2>2. CASE e.op = "start" /\ e.at # "new"
    <3>1. e.inv # c.inv /\ e.inv \in 1..Len(s.inv)
      BY <1>3, <2>1, <2>2 DEF Good, OneStartEach, StartInv
    <3>2. t.inv[e.inv] = s.inv[e.inv] /\ t.run[e.inv] = s.run[e.inv]
      BY <3>1 DEF Beside
    <3>3. StartInv(t, e)
      BY <2>1, <2>2, <3>1, <3>2 DEF StartInv
    <3> QED BY <2>2, <3>3 DEF CancelInv
  <2>3. CASE ~(e.op = "start" /\ e.at # "new")
    BY <2>1, <2>3 DEF StartInv, CancelInv
  <2> QED BY <2>2, <2>3
<1>4. \A e \in after : StartInv(t, e) /\ CancelInv(t, e)
  BY <1>3 DEF CancelInv, GoesOn
<1>5. OneStartEach(after)
  BY DEF OneStartEach, Good, GoesOn
<1>6. after \subseteq Calls
  BY DEF Good, GoesOn
<1>7. FinalKept(s, t)
  <2>1. c.at \in Writing /\ c.inv \notin s.crossed => s.inv[c.inv].status \notin Terminal
    BY <1>1 DEF StartInv, CopyStatus, Terminal, Writing
  <2> QED BY <2>1 DEF FinalKept, Beside
<1> QED BY <1>2, <1>4, <1>5, <1>6, <1>7 DEF Good

RunsGoOn(s, t) ==
  \A i \in 1..Len(s.inv) : /\ t.run[i] = None <=> s.run[i] = None
                           /\ s.run[i] \in DOMAIN Outcome => t.run[i] = s.run[i]

Reads(s, t) ==
  \A i \in 1..Len(s.inv) : t.inv[i] # s.inv[i] =>
    /\ s.inv[i].bound /\ s.inv[i].status \notin Terminal /\ s.run[i] \in DOMAIN Outcome
    /\ t.inv[i] = [s.inv[i] EXCEPT !.status = Outcome[s.run[i]]]

\* The Runs go on, and reads save how they ended.
LEMMA OthersStep ==
  ASSUME NEW s, NEW calls, Good(s, calls), NEW t \in Server, Sized(t),
         Len(t.inv) = Len(s.inv), t.crossed = s.crossed,
         RunsGoOn(s, t), Reads(s, t)
  PROVE  Good(t, calls) /\ FinalKept(s, t)
<1>1. \A i \in 1..Len(s.inv) : s.inv[i] \in Records /\ t.inv[i] \in Records
  BY DEF Good, Server
<1>2. \A r \in DOMAIN Outcome :
        Outcome[r] \in Terminal \ {"skipped"}
  BY DEF Outcome, Terminal
<1>3. ASSUME NEW i \in 1..Len(t.inv) PROVE RecordInv(t, i)
  <2>1. RecordInv(s, i)
    BY DEF Good
  <2>2. CASE t.inv[i] = s.inv[i]
    BY <2>1, <2>2 DEF RecordInv, RunsGoOn
  <2>3. CASE t.inv[i] # s.inv[i]
    <3>1. /\ s.inv[i].bound /\ s.run[i] \in DOMAIN Outcome /\ s.run[i] # None
          /\ t.run[i] = s.run[i] /\ t.inv[i].bound /\ t.inv[i].status = Outcome[s.run[i]]
      <4>1. /\ s.inv[i].bound /\ s.run[i] \in DOMAIN Outcome /\ t.run[i] = s.run[i]
            /\ t.inv[i] = [s.inv[i] EXCEPT !.status = Outcome[s.run[i]]]
        BY <2>3 DEF Reads, RunsGoOn
      <4>2. s.run[i] # None
        BY <2>1, <4>1 DEF RecordInv
      <4>3. t.inv[i].bound = s.inv[i].bound /\ t.inv[i].status = Outcome[s.run[i]]
        <5> DEFINE v == Outcome[s.run[i]]
        <5> HIDE DEF v
        <5>1. \A r \in Records : [r EXCEPT !.status = v].bound = r.bound /\ [r EXCEPT !.status = v].status = v
          BY DEF Records
        <5>2. t.inv[i] = [s.inv[i] EXCEPT !.status = v]
          BY <4>1 DEF v
        <5> QED BY <1>1, <5>1, <5>2 DEF v
      <4> QED BY <4>1, <4>2, <4>3
    <3>2. t.inv[i].status \in Terminal \ {"skipped"} /\ t.inv[i].status \notin {"new", "prepared", "skipped"}
      BY <1>2, <3>1 DEF Terminal
    <3> QED BY <3>1, <3>2 DEF RecordInv
  <2> QED BY <2>2, <2>3
<1>4. ASSUME NEW c \in calls PROVE StartInv(t, c) /\ CancelInv(t, c)
  <2>1. StartInv(s, c) /\ CancelInv(s, c)
    BY DEF Good
  <2>2. ASSUME c.op = "start", c.at \in Writing
        PROVE  c.inv \in 1..Len(s.inv) /\ t.inv[c.inv] = s.inv[c.inv]
    BY <2>1, <2>2 DEF StartInv, Writing, Reads
  <2>3. StartInv(t, c)
    BY <2>1, <2>2 DEF StartInv, RunsGoOn
  <2> QED BY <2>1, <2>3 DEF CancelInv
<1>5. FinalKept(s, t)
  BY DEF FinalKept, Reads
<1> QED BY <1>3, <1>4, <1>5 DEF Good

\* The state and what history says of it stay.
SameState(s, t) ==
  /\ t.state = s.state /\ t.claimed = s.claimed /\ t.counted = s.counted
  /\ t.day >= s.day /\ Len(t.inv) = Len(s.inv)

LEMMA StateKept ==
  ASSUME NEW s \in Server, NEW t \in Server, SameState(s, t), StateInv(s) PROVE StateInv(t)
<1>1. \A d \in 1..MaxDays : d <= s.day => d <= t.day
  <2>1. s.day \in Int /\ t.day \in Int /\ t.day >= s.day
    BY DEF Server, SameState
  <2> QED BY <2>1
<1>2. /\ t.state = s.state /\ t.claimed = s.claimed /\ t.counted = s.counted
      /\ Len(t.inv) = Len(s.inv)
  BY DEF SameState
<1> QED BY <1>1, <1>2 DEF StateInv

\* A start that leaves the state to the scheduler.
LEMMA StartKeeps ==
  ASSUME NEW s, NEW calls, AllGood(s, calls), NEW c \in calls, c.op = "start", c.at # "new",
         NEW t \in Server, Sized(t), SameState(s, t), t.crossed = s.crossed,
         Beside(s, t, c.inv), RecordInv(t, c.inv), c.at \in Writing \/ t.inv[c.inv] = s.inv[c.inv],
         NEW next, GoesOn(t, c, next)
  PROVE  AllGood(t, (calls \ {c}) \cup next) /\ FinalKept(s, t)
<1>1. Good(s, calls) /\ StateInv(s) /\ ScheduledInv(s, calls) /\ Len(t.inv) = Len(s.inv)
  BY DEF AllGood, SameState
<1>2. Good(t, (calls \ {c}) \cup next) /\ FinalKept(s, t)
  BY <1>1, StartSteps
<1>3. StateInv(t)
  BY <1>1, StateKept DEF Good
<1>4. ScheduledInv(t, (calls \ {c}) \cup next)
  <2>1. t.state = s.state
    BY DEF SameState
  <2> QED BY <1>1, <2>1 DEF ScheduledInv, GoesOn
<1> QED BY <1>2, <1>3, <1>4 DEF AllGood

LEMMA OthersKeep ==
  ASSUME NEW s, NEW calls, AllGood(s, calls), NEW t \in Server, Sized(t),
         SameState(s, t), t.crossed = s.crossed,
         RunsGoOn(s, t), Reads(s, t)
  PROVE  AllGood(t, calls) /\ FinalKept(s, t)
<1>1. Good(s, calls) /\ StateInv(s) /\ ScheduledInv(s, calls) /\ Len(t.inv) = Len(s.inv)
  BY DEF AllGood, SameState
<1>2. Good(t, calls) /\ FinalKept(s, t)
  BY <1>1, OthersStep
<1>3. StateInv(t)
  BY <1>1, StateKept DEF Good
<1>4. ScheduledInv(t, calls)
  BY <1>1 DEF ScheduledInv, SameState
<1> QED BY <1>2, <1>3, <1>4 DEF AllGood

LEMMA CallsReturn ==
  ASSUME NEW s, NEW calls, NEW rest \in SUBSET calls, AllGood(s, calls)
  PROVE  AllGood(s, rest) /\ FinalKept(s, s)
<1>1. Good(s, calls) /\ StateInv(s) /\ ScheduledInv(s, calls)
  BY DEF AllGood
<1>2. Good(s, rest)
  BY <1>1, FewerCalls
<1>3. ScheduledInv(s, rest)
  BY <1>1 DEF ScheduledInv
<1> QED BY <1>1, <1>2, <1>3 DEF AllGood, FinalKept

-----------------------------------------------------------------------------
(* What a write and a move change.                                           *)

LEMMA SaveFacts ==
  ASSUME NEW s \in Server, Sized(s), NEW i \in 1..Len(s.inv), NEW r \in Records,
         NEW t, t = [s EXCEPT !.inv[i] = r]
  PROVE  /\ t \in Server /\ Sized(t) /\ SameState(s, t) /\ t.crossed = s.crossed
         /\ t.run = s.run /\ t.definition = s.definition /\ t.inv[i] = r
         /\ \A j \in 1..Len(s.inv) : j # i => t.inv[j] = s.inv[j]
<1> DEFINE inv == [s.inv EXCEPT ![i] = r]
<1>1. s.inv \in Seq(Records) /\ s.day \in Int
  BY DEF Server
<1>2. /\ inv \in Seq(Records) /\ Len(inv) = Len(s.inv) /\ inv[i] = r
      /\ \A j \in 1..Len(s.inv) : j # i => inv[j] = s.inv[j]
  BY <1>1
<1>3. t = [s EXCEPT !.inv = inv]
  BY DEF Server
<1> HIDE DEF inv
<1>4. /\ t \in Server /\ t.inv = inv /\ t.run = s.run /\ t.definition = s.definition
      /\ t.state = s.state /\ t.claimed = s.claimed /\ t.counted = s.counted /\ t.day = s.day
      /\ t.crossed = s.crossed
  BY <1>2, <1>3 DEF Server
<1>5. Sized(t) /\ SameState(s, t)
  BY <1>1, <1>2, <1>4 DEF Sized, SameState
<1> QED BY <1>2, <1>4, <1>5

SetRun(s, i, run) == [s EXCEPT !.run[i] = run]

LEMMA RunFacts ==
  ASSUME NEW s \in Server, Sized(s), NEW i \in 1..Len(s.inv), NEW run \in RunStatuses,
         NEW t, t = SetRun(s, i, run)
  PROVE  /\ t \in Server /\ Sized(t) /\ SameState(s, t) /\ t.crossed = s.crossed
         /\ t.inv = s.inv /\ t.definition = s.definition /\ t.run[i] = run
         /\ \A j \in 1..Len(s.inv) : j # i => t.run[j] = s.run[j]
<1> DEFINE runs == [s.run EXCEPT ![i] = run]
<1>1. s.run \in Seq(RunStatuses \cup {None}) /\ Len(s.run) = Len(s.inv) /\ s.day \in Int
  BY DEF Server, Sized
<1>2. /\ runs \in Seq(RunStatuses \cup {None}) /\ Len(runs) = Len(s.run) /\ runs[i] = run
      /\ \A j \in 1..Len(s.inv) : j # i => runs[j] = s.run[j]
  BY <1>1
<1>3. t = [s EXCEPT !.run = runs]
  BY DEF Server, SetRun
<1> HIDE DEF runs
<1>4. /\ t \in Server /\ t.run = runs /\ t.inv = s.inv /\ t.definition = s.definition
      /\ t.state = s.state /\ t.claimed = s.claimed /\ t.counted = s.counted /\ t.day = s.day
      /\ t.crossed = s.crossed
  BY <1>2, <1>3 DEF Server
<1>5. Sized(t) /\ SameState(s, t)
  BY <1>1, <1>2, <1>4 DEF Sized, SameState
<1> QED BY <1>2, <1>4, <1>5

LEMMA CopyFacts ==
  ASSUME NEW r \in Records, NEW status \in Statuses
  PROVE  /\ [r EXCEPT !.status = status] \in Records
         /\ [r EXCEPT !.status = status].status = status
         /\ [r EXCEPT !.status = status].bound = r.bound
BY DEF Records

-----------------------------------------------------------------------------
(* The steps of a start.                                                     *)

StepGood == AllGood(server', requests') /\ FinalKept(server, server')

\* What a start that still writes knows.
LEMMA WriterFacts ==
  ASSUME NEW s, NEW calls, AllGood(s, calls), NEW c \in calls, c.op = "start", c.at \in Writing
  PROVE  /\ s \in Server /\ Sized(s) /\ c \in Calls /\ c.at # "new"
         /\ c.inv \in 1..Len(s.inv) /\ c.copy \in Records
         /\ c.copy.status \in CopyStatus(c.at) /\ ~c.copy.bound
         /\ s.run[c.inv] = None <=> c.at # "attach"
         /\ c.inv \notin s.crossed /\ c.at # "save" => s.inv[c.inv] = c.copy
BY DEF AllGood, Good, StartInv, Writing

\* It writes r, which names no Run, before there is one, and returns or goes on.
LEMMA Written ==
  ASSUME NEW s, NEW calls, AllGood(s, calls), NEW c \in calls, c.op = "start",
         c.at \in Writing \ {"attach"}, NEW r \in Records, ~r.bound, r.status # "completed",
         NEW t, t = [s EXCEPT !.inv[c.inv] = r]
  PROVE  /\ AllGood(t, calls \ {c}) /\ FinalKept(s, t)
         /\ \A at \in {"create", "dispatch", "run", "frontier"} :
              r.status \in CopyStatus(at) /\ (at = "frontier" => c.from # None) =>
                AllGood(t, (calls \ {c}) \cup {[c EXCEPT !.at = at, !.copy = r]})
<1>1. /\ s \in Server /\ Sized(s) /\ c \in Calls /\ c.at # "new"
      /\ c.inv \in 1..Len(s.inv) /\ s.run[c.inv] = None
  BY WriterFacts
<1>2. /\ t \in Server /\ Sized(t) /\ SameState(s, t) /\ t.crossed = s.crossed
      /\ t.run = s.run /\ t.inv[c.inv] = r
      /\ \A j \in 1..Len(s.inv) : j # c.inv => t.inv[j] = s.inv[j]
  BY <1>1, SaveFacts
<1>3. Beside(s, t, c.inv)
  BY <1>2 DEF Beside
<1>4. RecordInv(t, c.inv)
  BY <1>1, <1>2 DEF RecordInv
<1>5. GoesOn(t, c, {})
  BY DEF GoesOn
<1>6. AllGood(t, (calls \ {c}) \cup {}) /\ FinalKept(s, t)
  BY <1>1, <1>2, <1>3, <1>4, <1>5, StartKeeps
<1>7. ASSUME NEW at \in {"create", "dispatch", "run", "frontier"}, r.status \in CopyStatus(at),
             at = "frontier" => c.from # None
      PROVE  AllGood(t, (calls \ {c}) \cup {[c EXCEPT !.at = at, !.copy = r]})
  <2> DEFINE d == [c EXCEPT !.at = at, !.copy = r]
  <2>1. /\ d \in Calls /\ d.op = "start" /\ d.inv = c.inv /\ d.from = c.from /\ d.at = at
        /\ d.copy = r
    <3>1. at \in {"save", "create", "dispatch", "run", "attach", "frontier"} /\ r \in Records \cup {None}
      OBVIOUS
    <3> QED BY <1>1, <3>1 DEF Calls
  <2> HIDE DEF d
  <2>2. Len(t.inv) = Len(s.inv)
    BY <1>2 DEF SameState
  <2>3. StartInv(t, d)
    BY <1>1, <1>2, <1>7, <2>1, <2>2 DEF StartInv, Writing
  <2>4. GoesOn(t, c, {d})
    BY <2>1, <2>3 DEF GoesOn
  <2>5. AllGood(t, (calls \ {c}) \cup {d})
    BY <1>1, <1>2, <1>3, <1>4, <2>4, StartKeeps
  <2> QED BY <2>5 DEF d
<1>8. (calls \ {c}) \cup {} = calls \ {c}
  OBVIOUS
<1> QED BY <1>6, <1>7, <1>8

LEMMA SavePreparedGood ==
  ASSUME LoopInv, NEW c \in requests, SavePrepared(c) \/ CreationFails(c) \/ Dispatch(c)
  PROVE  StepGood
<1>1. AllGood(server, requests)
  BY DEF LoopInv
<1>2. c.op = "start" /\ c.at \in Writing \ {"attach"}
  BY DEF SavePrepared, CreationFails, Dispatch, At, Writing
<1>3. c.copy \in Records /\ ~c.copy.bound /\ c.copy.status \in CopyStatus(c.at) /\ server \in Server
  BY <1>1, <1>2, WriterFacts
<1>4. ASSUME NEW r \in Records, ~r.bound, r.status # "completed",
             server' = Saves(c.inv, r)
      PROVE  /\ AllGood(server', requests \ {c}) /\ FinalKept(server, server')
             /\ \A at \in {"create", "dispatch", "run", "frontier"} :
                  r.status \in CopyStatus(at) /\ (at = "frontier" => c.from # None) =>
                    AllGood(server', (requests \ {c}) \cup {[c EXCEPT !.at = at, !.copy = r]})
  BY <1>1, <1>2, <1>4, Written DEF Saves
<1>5. ASSUME NEW r, r \in Records, r.status = "blocked", Launched(c, r)
      PROVE  \/ requests' = requests \ {c}
             \/ /\ c.from # None
                /\ requests' = (requests \ {c}) \cup {[c EXCEPT !.at = "frontier", !.copy = r]}
  BY <1>5 DEF Launched, Returns, Moves
<1>6. CASE SavePrepared(c)
  <2>1. c.copy.status \in {"prepared", "blocked"} /\ server' = Saves(c.inv, c.copy)
    BY <1>3, <1>6 DEF SavePrepared, At, CopyStatus
  <2>2. /\ AllGood(server', requests \ {c}) /\ FinalKept(server, server')
        /\ \A at \in {"create", "dispatch", "run", "frontier"} :
              c.copy.status \in CopyStatus(at) /\ (at = "frontier" => c.from # None) =>
                AllGood(server', (requests \ {c}) \cup {[c EXCEPT !.at = at, !.copy = c.copy]})
    BY <1>3, <1>4, <2>1
  <2>3. CASE c.copy.status = "blocked"
    <3>1. Launched(c, c.copy) /\ "blocked" \in CopyStatus("frontier")
      BY <1>6, <2>3 DEF SavePrepared, CopyStatus
    <3> QED BY <1>3, <1>5, <2>2, <2>3, <3>1 DEF StepGood
  <2>4. CASE c.copy.status # "blocked"
    <3>1. c.copy.status = "prepared" /\ "prepared" \in CopyStatus("create")
      BY <2>1, <2>4 DEF CopyStatus
    <3>2. requests' = (requests \ {c}) \cup {[c EXCEPT !.at = "create", !.copy = c.copy]}
      BY <1>6, <2>4 DEF SavePrepared, Moves
    <3> QED BY <2>2, <3>1, <3>2 DEF StepGood
  <2> QED BY <2>3, <2>4
<1>7. CASE CreationFails(c)
  <2> DEFINE skipped == [c.copy EXCEPT !.status = "skipped"]
             blocked == [c.copy EXCEPT !.status = "blocked"]
  <2>1. {"skipped", "blocked"} \subseteq Statuses /\ "blocked" \in CopyStatus("frontier")
    BY DEF Statuses, Terminal, CopyStatus
  <2>2. /\ skipped \in Records /\ ~skipped.bound /\ skipped.status = "skipped"
        /\ blocked \in Records /\ ~blocked.bound /\ blocked.status = "blocked"
    BY <1>3, <2>1, CopyFacts
  <2>3. \/ server' = Saves(c.inv, skipped) /\ requests' = requests \ {c}
        \/ server' = Saves(c.inv, blocked) /\ Launched(c, blocked)
    BY <1>7 DEF CreationFails, Returns
  <2> HIDE DEF skipped, blocked
  <2>4. CASE server' = Saves(c.inv, skipped) /\ requests' = requests \ {c}
    BY <1>4, <2>2, <2>4 DEF StepGood
  <2>5. CASE server' = Saves(c.inv, blocked) /\ Launched(c, blocked)
    BY <1>4, <1>5, <2>1, <2>2, <2>5 DEF StepGood
  <2> QED BY <2>3, <2>4, <2>5
<1>8. CASE Dispatch(c)
  <2> DEFINE dispatched == [c.copy EXCEPT !.status = "dispatched"]
  <2>1. "dispatched" \in Statuses /\ "dispatched" \in CopyStatus("run")
    BY DEF Statuses, CopyStatus
  <2>2. dispatched \in Records /\ ~dispatched.bound /\ dispatched.status = "dispatched"
    BY <1>3, <2>1, CopyFacts
  <2>3. /\ server' = Saves(c.inv, dispatched)
        /\ requests' = (requests \ {c}) \cup {[c EXCEPT !.at = "run", !.copy = dispatched]}
    BY <1>8 DEF Dispatch, Moves
  <2> HIDE DEF dispatched
  <2> QED BY <1>4, <2>1, <2>2, <2>3 DEF StepGood
<1> QED BY <1>6, <1>7, <1>8

LEMMA CreateSessionGood ==
  ASSUME LoopInv, NEW c \in requests, CreateSession(c) PROVE StepGood
<1> DEFINE d == [c EXCEPT !.at = "dispatch", !.copy = c.copy]
<1>1. AllGood(server, requests) /\ c.op = "start" /\ c.at = "create" /\ c.at \in Writing \ {"attach"}
  BY DEF LoopInv, CreateSession, At, Writing
<1>2. /\ server \in Server /\ Sized(server) /\ c \in Calls /\ c.at # "new"
      /\ c.inv \in 1..Len(server.inv) /\ c.copy \in Records /\ ~c.copy.bound
      /\ server.run[c.inv] = None
      /\ c.inv \notin server.crossed => server.inv[c.inv] = c.copy
  BY <1>1, WriterFacts
<1>3. c.copy.status = "prepared" /\ "prepared" \in CopyStatus("dispatch")
  <2>1. c.copy.status \in CopyStatus(c.at)
    BY <1>1, WriterFacts
  <2> QED BY <1>1, <2>1 DEF CopyStatus
<1>4. requests' = (requests \ {c}) \cup {d} /\ (server' = server \/ server' = Saves(c.inv, c.copy))
  BY DEF CreateSession, Moves
<1>5. CASE server' = Saves(c.inv, c.copy)
  <2>1. AllGood(server', (requests \ {c}) \cup {d}) /\ FinalKept(server, server')
    BY <1>1, <1>2, <1>3, <1>5, Written DEF Saves
  <2> QED BY <1>4, <2>1 DEF StepGood
<1>6. CASE server' = server
  <2>1. /\ d \in Calls /\ d.op = "start" /\ d.inv = c.inv /\ d.from = c.from /\ d.at = "dispatch"
        /\ d.copy = c.copy
    <3>1. c.copy \in Records \cup {None}
      BY <1>2
    <3> QED BY <1>1, <1>2, <3>1 DEF Calls
  <2> HIDE DEF d
  <2>2. StartInv(server, c) /\ RecordInv(server, c.inv)
    BY <1>1, <1>2 DEF AllGood, Good
  <2>3. StartInv(server, d)
    BY <1>1, <1>2, <1>3, <2>1, <2>2 DEF StartInv, Writing
  <2>4. GoesOn(server, c, {d})
    BY <2>1, <2>3 DEF GoesOn
  <2>5. SameState(server, server) /\ Beside(server, server, c.inv)
    <3>1. server.day \in Int
      BY <1>2 DEF Server
    <3> QED BY <3>1 DEF SameState, Beside
  <2>6. AllGood(server, (requests \ {c}) \cup {d}) /\ FinalKept(server, server)
    BY <1>1, <1>2, <2>2, <2>4, <2>5, StartKeeps
  <2> QED BY <1>4, <1>6, <2>6 DEF StepGood
<1> QED BY <1>4, <1>5, <1>6

LEMMA StartRunGood ==
  ASSUME LoopInv, Distinct, NEW c \in requests, StartRun(c) PROVE StepGood
<1>1. AllGood(server, requests) /\ c.op = "start" /\ c.at = "run" /\ c.at \in Writing \ {"attach"}
  BY DEF LoopInv, StartRun, At, Writing
<1>2. /\ server \in Server /\ Sized(server) /\ c \in Calls /\ c.at # "new"
      /\ c.inv \in 1..Len(server.inv) /\ c.copy \in Records /\ ~c.copy.bound
      /\ server.run[c.inv] = None
      /\ c.inv \notin server.crossed => server.inv[c.inv] = c.copy
  BY <1>1, WriterFacts
<1>3. c.copy.status = "dispatched" /\ "dispatched" \in CopyStatus("attach")
  <2>1. c.copy.status \in CopyStatus(c.at)
    BY <1>1, WriterFacts
  <2> QED BY <1>1, <2>1 DEF CopyStatus
<1>4. CASE Busy
  <2> DEFINE failed == [c.copy EXCEPT !.status = "failed"]
  <2>1. failed \in Records /\ ~failed.bound /\ failed.status = "failed"
    <3>1. "failed" \in Statuses
      BY DEF Statuses, Terminal
    <3> QED BY <1>2, <3>1, CopyFacts
  <2>2. server' = Saves(c.inv, failed) /\ requests' = requests \ {c}
    BY <1>4 DEF StartRun, Returns
  <2> HIDE DEF failed
  <2>3. AllGood(server', requests \ {c}) /\ FinalKept(server, server')
    BY <1>1, <2>1, <2>2, Written DEF Saves
  <2> QED BY <2>2, <2>3 DEF StepGood
<1>5. CASE ~Busy
  <2> DEFINE d == [c EXCEPT !.at = "attach", !.copy = c.copy]
  <2>1. /\ d \in Calls /\ d.op = "start" /\ d.inv = c.inv /\ d.from = c.from /\ d.at = "attach"
        /\ d.copy = c.copy
    <3>1. c.copy \in Records \cup {None}
      BY <1>2
    <3> QED BY <1>1, <1>2, <3>1 DEF Calls
  <2>2. server' = [server EXCEPT !.run[c.inv] = "running"] /\ requests' = (requests \ {c}) \cup {d}
    BY <1>5 DEF StartRun, Moves
  <2> HIDE DEF d
  <2>3. "running" \in RunStatuses /\ "running" # None /\ "running" \notin DOMAIN Outcome
    BY DEF RunStatuses, Distinct, Outcome
  <2>4. /\ server' \in Server /\ Sized(server') /\ SameState(server, server')
        /\ server'.crossed = server.crossed /\ server'.inv = server.inv
        /\ server'.run[c.inv] = "running"
        /\ \A j \in 1..Len(server.inv) : j # c.inv => server'.run[j] = server.run[j]
    <3> DEFINE running == "running"
    <3>1. running \in RunStatuses /\ server' = SetRun(server, c.inv, running)
      BY <2>2, <2>3 DEF SetRun
    <3>2. running = "running"
      OBVIOUS
    <3> HIDE DEF running
    <3>3. /\ server' \in Server /\ Sized(server') /\ SameState(server, server')
          /\ server'.crossed = server.crossed /\ server'.inv = server.inv
          /\ server'.run[c.inv] = running
          /\ \A j \in 1..Len(server.inv) : j # c.inv => server'.run[j] = server.run[j]
      BY <1>2, <3>1, RunFacts
    <3> QED BY <3>2, <3>3
  <2>5. StartInv(server, c) /\ RecordInv(server, c.inv)
    BY <1>1, <1>2 DEF AllGood, Good
  <2>6. ~server.inv[c.inv].bound
    BY <1>1, <2>5 DEF StartInv
  <2>7. RecordInv(server', c.inv)
    BY <1>2, <1>3, <2>4, <2>5, <2>6 DEF RecordInv
  <2>8. StartInv(server', d)
    BY <1>1, <1>2, <1>3, <2>1, <2>3, <2>4, <2>6 DEF StartInv, Writing
  <2>9. GoesOn(server', c, {d}) /\ Beside(server, server', c.inv)
    BY <2>1, <2>4, <2>8 DEF GoesOn, Beside
  <2>10. AllGood(server', (requests \ {c}) \cup {d}) /\ FinalKept(server, server')
    BY <1>1, <1>2, <2>4, <2>7, <2>9, StartKeeps
  <2> QED BY <2>2, <2>10 DEF StepGood
<1> QED BY <1>4, <1>5

LEMMA AttachGood ==
  ASSUME LoopInv, Distinct, NEW c \in requests, Attach(c) PROVE StepGood
<1> DEFINE attached == [c.copy EXCEPT !.status = "attached", !.bound = TRUE]
           d == [c EXCEPT !.at = "frontier", !.copy = attached]
<1>1. AllGood(server, requests) /\ c.op = "start" /\ c.at = "attach" /\ c.at \in Writing
  BY DEF LoopInv, Attach, At, Writing
<1>2. /\ server \in Server /\ Sized(server) /\ c \in Calls /\ c.at # "new"
      /\ c.inv \in 1..Len(server.inv) /\ c.copy \in Records /\ server.run[c.inv] # None
  BY <1>1, WriterFacts
<1>3. attached \in Records /\ attached.bound /\ attached.status = "attached"
  BY <1>2 DEF Records, Statuses
<1>4. server' = Saves(c.inv, attached) /\ Launched(c, attached)
  BY DEF Attach
<1>5. \/ requests' = (requests \ {c}) \cup {}
      \/ c.from # None /\ requests' = (requests \ {c}) \cup {d}
  BY <1>4 DEF Launched, Returns, Moves
<1> HIDE DEF attached
<1>6. /\ server' \in Server /\ Sized(server') /\ SameState(server, server')
      /\ server'.crossed = server.crossed /\ server'.run = server.run
      /\ server'.inv[c.inv] = attached
      /\ \A j \in 1..Len(server.inv) : j # c.inv => server'.inv[j] = server.inv[j]
  BY <1>2, <1>3, <1>4, SaveFacts DEF Saves
<1>7. RecordInv(server', c.inv) /\ Beside(server, server', c.inv)
  BY <1>2, <1>3, <1>6 DEF RecordInv, Beside, Terminal
<1>8. /\ d \in Calls /\ d.op = "start" /\ d.inv = c.inv /\ d.from = c.from /\ d.at = "frontier"
      /\ d.copy = attached
  <2>1. attached \in Records \cup {None}
    BY <1>3
  <2> QED BY <1>1, <1>2, <2>1 DEF Calls
<1> HIDE DEF d
<1>9. c.from # None => StartInv(server', d)
  <2>1. Len(server'.inv) = Len(server.inv) /\ "attached" \in CopyStatus("frontier")
    BY <1>6 DEF SameState, CopyStatus
  <2> QED BY <1>2, <1>3, <1>8, <2>1 DEF StartInv, Writing
<1>10. (c.from # None => GoesOn(server', c, {d})) /\ GoesOn(server', c, {})
  BY <1>8, <1>9 DEF GoesOn
<1>11. /\ c.from # None => AllGood(server', (requests \ {c}) \cup {d})
       /\ FinalKept(server, server')
       /\ AllGood(server', (requests \ {c}) \cup {})
  BY <1>1, <1>2, <1>6, <1>7, <1>10, StartKeeps
<1> QED BY <1>5, <1>11 DEF StepGood

-----------------------------------------------------------------------------
(* Cancellations and the other steps.                                        *)

LEMMA SaveCancelledGood ==
  ASSUME LoopInv, NEW c \in requests, SaveCancelled(c) PROVE StepGood
<1> DEFINE i == c.inv
           r == [c.copy EXCEPT !.status = IF @ = "prepared" THEN "skipped" ELSE "cancelled"]
           meets == Starts(i) \/ server.inv[i] # c.copy
           crossed == IF meets THEN server.crossed \cup {i} ELSE server.crossed
           saved == Saves(i, r)
           rest == requests \ {c}
<1>1. /\ server \in Server /\ Sized(server) /\ requests \subseteq Calls /\ OneStartEach(requests)
      /\ \A j \in 1..Len(server.inv) : RecordInv(server, j)
      /\ \A e \in requests : StartInv(server, e) /\ CancelInv(server, e)
      /\ StateInv(server) /\ ScheduledInv(server, requests) /\ Good(server, requests)
  BY DEF LoopInv, AllGood, Good
<1>2. c.op = "cancel" /\ requests' = rest
  BY DEF SaveCancelled, Returns
<1>3. /\ i \in 1..Len(server.inv) /\ c.copy \in Records /\ ~c.copy.bound
      /\ c.copy.status \notin Terminal \cup {"new"}
  BY <1>1, <1>2 DEF CancelInv
<1>4. /\ r \in Records /\ ~r.bound
      /\ r.status = IF c.copy.status = "prepared" THEN "skipped" ELSE "cancelled"
  BY <1>3 DEF Records, Statuses, Terminal
<1>5. server' = [saved EXCEPT !.crossed = crossed]
  <2>1. saved.crossed = server.crossed
    BY <1>1 DEF Saves, Server
  <2>2. server' = [saved EXCEPT !.crossed = IF meets THEN @ \cup {i} ELSE @]
    BY DEF SaveCancelled
  <2> QED BY <2>1, <2>2
<1>6. i \in Nat /\ crossed \subseteq Nat
  <2>1. i \in Nat
    BY <1>3
  <2> QED BY <1>1, <2>1 DEF Server
<1> HIDE DEF r, crossed, saved
<1>7. /\ saved \in Server /\ Sized(saved) /\ SameState(server, saved)
      /\ saved.run = server.run /\ saved.inv[i] = r
      /\ \A j \in 1..Len(server.inv) : j # i => saved.inv[j] = server.inv[j]
  BY <1>1, <1>3, <1>4, SaveFacts DEF Saves, saved
<1>8. /\ server' \in Server /\ server'.inv = saved.inv /\ server'.run = saved.run
      /\ server'.state = saved.state /\ server'.claimed = saved.claimed
      /\ server'.counted = saved.counted /\ server'.day = saved.day
      /\ server'.crossed = crossed
  BY <1>5, <1>6, <1>7 DEF Server
<1>9. /\ Sized(server') /\ SameState(server, server') /\ Len(server'.inv) = Len(server.inv)
      /\ server'.run = server.run /\ server'.inv[i] = r
      /\ \A j \in 1..Len(server.inv) : j # i => server'.inv[j] = server.inv[j]
  BY <1>7, <1>8 DEF Sized, SameState
<1>10. /\ server.crossed \subseteq server'.crossed
       /\ \A j \in 1..Len(server.inv) : j # i => (j \in server'.crossed <=> j \in server.crossed)
       /\ i \notin server'.crossed => i \notin server.crossed /\ ~Starts(i) /\ server.inv[i] = c.copy
  BY <1>8 DEF crossed
<1> HIDE DEF meets
<1>11. RecordInv(server', i)
  <2>1. RecordInv(server, i)
    BY <1>1, <1>3
  <2>2. i \notin server'.crossed /\ server'.run[i] # None => r.status = "cancelled"
    BY <1>4, <1>9, <1>10, <2>1 DEF RecordInv
  <2> QED BY <1>4, <1>9, <2>2 DEF RecordInv
<1>12. \A j \in 1..Len(server'.inv) : RecordInv(server', j)
  <2>1. ASSUME NEW j \in 1..Len(server.inv), j # i PROVE RecordInv(server', j)
    BY <1>1, <1>9, <1>10, <2>1 DEF RecordInv
  <2> QED BY <1>9, <1>11, <2>1
<1>13. ASSUME NEW e \in rest PROVE StartInv(server', e) /\ CancelInv(server', e)
  <2>1. StartInv(server, e) /\ CancelInv(server, e)
    BY <1>1
  <2>2. CASE e.op = "start" /\ e.at # "new" /\ e.inv = i
    <3>1. i \in server'.crossed
      BY <1>10, <2>2 DEF Starts
    <3> QED BY <1>4, <1>9, <2>1, <2>2, <3>1 DEF StartInv, CancelInv
  <2>3. CASE e.op = "start" /\ e.at # "new" /\ e.inv # i
    <3>1. e.inv \in 1..Len(server.inv)
      BY <2>1, <2>3 DEF StartInv
    <3>2. server'.inv[e.inv] = server.inv[e.inv] /\ (e.inv \in server'.crossed <=> e.inv \in server.crossed)
      BY <1>9, <1>10, <2>3, <3>1
    <3> QED BY <1>9, <2>1, <2>3, <3>1, <3>2 DEF StartInv, CancelInv
  <2>4. CASE ~(e.op = "start" /\ e.at # "new")
    BY <1>9, <2>1, <2>4 DEF StartInv, CancelInv
  <2> QED BY <2>2, <2>3, <2>4
<1>14. Good(server', rest)
  BY <1>1, <1>8, <1>9, <1>12, <1>13 DEF Good, OneStartEach
<1>15. StateInv(server') /\ ScheduledInv(server', rest)
  BY <1>1, <1>8, <1>9, StateKept DEF ScheduledInv, SameState
<1>16. FinalKept(server, server')
  <2>1. server.inv[i].status \in Terminal => i \in server'.crossed
    BY <1>3, <1>10
  <2> QED BY <1>9, <2>1 DEF FinalKept
<1> QED BY <1>2, <1>14, <1>15, <1>16 DEF StepGood, AllGood

\* A read that finds a status changed has seen the end of the Run.
LEMMA ReconcileFacts ==
  ASSUME NEW i, reconcileInvocation(i) # server.inv[i].status
  PROVE  /\ server.inv[i].bound /\ server.inv[i].status \notin Terminal
         /\ server.run[i] \in DOMAIN Outcome /\ reconcileInvocation(i) = Outcome[server.run[i]]
         /\ reconcileInvocation(i) \in Statuses
BY DEF reconcileInvocation, Terminal, Outcome, Statuses

LEMMA ReconcileGood ==
  ASSUME LoopInv, NEW i \in Invocations, reconcileTerminal(i), requests' = requests PROVE StepGood
<1> DEFINE r == [server.inv[i] EXCEPT !.status = reconcileInvocation(i)]
<1>1. /\ AllGood(server, requests) /\ server \in Server /\ Sized(server)
      /\ i \in 1..Len(server.inv) /\ server.inv[i] \in Records
  BY DEF LoopInv, AllGood, Good, Invocations, Server
<1>2. reconcileInvocation(i) # server.inv[i].status /\ server' = Saves(i, r)
  BY DEF reconcileTerminal
<1>3. /\ server.inv[i].bound /\ server.inv[i].status \notin Terminal
      /\ server.run[i] \in DOMAIN Outcome /\ reconcileInvocation(i) = Outcome[server.run[i]]
      /\ reconcileInvocation(i) \in Statuses
  BY <1>2, ReconcileFacts
<1>4. r \in Records /\ r = [server.inv[i] EXCEPT !.status = Outcome[server.run[i]]]
  BY <1>1, <1>3 DEF Records
<1> HIDE DEF r
<1>5. /\ server' \in Server /\ Sized(server') /\ SameState(server, server')
      /\ server'.crossed = server.crossed /\ server'.run = server.run /\ server'.inv[i] = r
      /\ \A j \in 1..Len(server.inv) : j # i => server'.inv[j] = server.inv[j]
  BY <1>1, <1>2, <1>4, SaveFacts DEF Saves
<1>6. RunsGoOn(server, server') /\ Reads(server, server')
  BY <1>3, <1>4, <1>5 DEF RunsGoOn, Reads
<1> QED BY <1>1, <1>5, <1>6, OthersKeep DEF StepGood

LEMMA CancelGood ==
  ASSUME LoopInv, Distinct, NEW i \in Invocations, CancelLoopInvocation(i) PROVE StepGood
<1>1. /\ AllGood(server, requests) /\ server \in Server /\ Sized(server)
      /\ i \in 1..Len(server.inv) /\ server.inv[i] \in Records
  BY DEF LoopInv, AllGood, Good, Invocations, Server
<1>2. CASE ~server.inv[i].bound
  <2> DEFINE d == [op |-> "cancel", at |-> "save", inv |-> i, copy |-> server.inv[i], from |-> None]
  <2>1. requests' = requests \cup {d} /\ server' = server
    BY <1>2 DEF CancelLoopInvocation
  <2>2. d \in Calls /\ d.op = "cancel" /\ d.inv = i /\ d.copy = server.inv[i]
    <3>1. i \in Nat
      BY <1>1
    <3> QED BY <1>1, <3>1 DEF Calls
  <2>3. server.inv[i].status \notin Terminal \cup {"new"}
    BY DEF CancelLoopInvocation, Cancellable, Saved, Terminal
  <2> HIDE DEF d
  <2>4. StartInv(server, d) /\ CancelInv(server, d)
    BY <1>1, <1>2, <2>2, <2>3 DEF StartInv, CancelInv
  <2>5. Good(server, requests \cup {d})
    BY <1>1, <2>2, <2>4, OneCallMore DEF AllGood
  <2>6. ScheduledInv(server, requests \cup {d})
    BY <1>1, <2>2 DEF AllGood, ScheduledInv
  <2> QED BY <1>1, <2>1, <2>5, <2>6 DEF AllGood, StepGood, FinalKept
<1>3. CASE server.inv[i].bound
  <2>1. CASE server.run[i] = "running"
    <3> DEFINE stopping == "stopping"
    <3>1. requests' = requests /\ server' = SetRun(server, i, stopping)
      BY <1>3, <2>1 DEF CancelLoopInvocation, SetRun
    <3>2. stopping \in RunStatuses /\ stopping # None /\ "running" # None /\ "running" \notin DOMAIN Outcome
      BY DEF RunStatuses, Outcome, Distinct
    <3> HIDE DEF stopping
    <3>3. /\ server' \in Server /\ Sized(server') /\ SameState(server, server')
          /\ server'.crossed = server.crossed /\ server'.inv = server.inv
          /\ server'.run[i] = stopping
          /\ \A j \in 1..Len(server.inv) : j # i => server'.run[j] = server.run[j]
      BY <1>1, <3>1, <3>2, RunFacts
    <3>4. RunsGoOn(server, server') /\ Reads(server, server')
      BY <2>1, <3>2, <3>3 DEF RunsGoOn, Reads
    <3> QED BY <1>1, <3>1, <3>3, <3>4, OthersKeep DEF StepGood
  <2>2. CASE server.run[i] # "running"
    BY <1>3, <2>2, ReconcileGood DEF CancelLoopInvocation
  <2> QED BY <2>1, <2>2
<1> QED BY <1>2, <1>3

\* Runs end, stop and go on, the day passes, the Loop is updated, the process dies.
LEMMA RunSet ==
  ASSUME LoopInv, Distinct, NEW i \in Invocations, NEW run \in RunStatuses,
         server.run[i] \in {"running", "stopping", "interrupted"},
         server' = SetRun(server, i, run), requests' = requests
  PROVE  StepGood
<1>1. /\ AllGood(server, requests) /\ server \in Server /\ Sized(server)
      /\ i \in 1..Len(server.inv)
  BY DEF LoopInv, AllGood, Good, Invocations, Server
<1>2. server.run[i] # None /\ run # None /\ server.run[i] \notin DOMAIN Outcome
  BY DEF RunStatuses, Distinct, Outcome
<1>3. /\ server' \in Server /\ Sized(server') /\ SameState(server, server')
      /\ server'.crossed = server.crossed /\ server'.inv = server.inv
      /\ server'.run[i] = run
      /\ \A j \in 1..Len(server.inv) : j # i => server'.run[j] = server.run[j]
  BY <1>1, RunFacts
<1>4. RunsGoOn(server, server') /\ Reads(server, server')
  BY <1>2, <1>3 DEF RunsGoOn, Reads
<1> QED BY <1>1, <1>3, <1>4, OthersKeep DEF StepGood

LEMMA RunGood ==
  ASSUME LoopInv, Distinct, NEW i \in Invocations, RunEnds(i) \/ RunStops(i) PROVE StepGood
<1>1. server.run[i] \in {"running", "stopping", "interrupted"} /\ requests' = requests
  BY DEF RunEnds, RunStops
<1>2. \E run \in RunStatuses : server' = SetRun(server, i, run)
  <2>1. CASE RunEnds(i)
    <3>1. PICK run \in {"completed", "rejected", "failed", "cancelled"} :
            server' = [server EXCEPT !.run[i] = run]
      BY <2>1 DEF RunEnds
    <3> QED BY <3>1 DEF SetRun, RunStatuses, Outcome
  <2>2. CASE RunStops(i)
    <3>1. {"interrupted", "running"} \subseteq RunStatuses
      BY DEF RunStatuses
    <3> QED BY <2>2, <3>1 DEF RunStops, SetRun
  <2> QED BY <2>1, <2>2
<1> QED BY <1>1, <1>2, RunSet

LEMMA CrashGood ==
  ASSUME LoopInv, Distinct, Crash PROVE StepGood
<1> DEFINE runs == [i \in Invocations |->
             IF server.run[i] \in {"running", "stopping"} THEN "interrupted" ELSE server.run[i]]
<1>1. /\ AllGood(server, requests) /\ server \in Server /\ Sized(server)
      /\ server.run \in Seq(RunStatuses \cup {None}) /\ Len(server.run) = Len(server.inv)
      /\ Invocations = 1..Len(server.inv) /\ Len(server.inv) \in Nat /\ server.day \in Int
  BY DEF LoopInv, AllGood, Good, Invocations, Server, Sized
<1>2. server' = [server EXCEPT !.run = runs] /\ requests' = {}
  BY <1>1 DEF Crash, Server
<1>3. /\ \A i \in 1..Len(server.inv) : server.run[i] \in RunStatuses \cup {None}
      /\ "interrupted" \in RunStatuses \cup {None} /\ "interrupted" # None
      /\ "running" # None /\ "stopping" # None
      /\ {"running", "stopping"} \cap DOMAIN Outcome = {}
  BY <1>1 DEF RunStatuses, Distinct, Outcome
<1>4. runs \in Seq(RunStatuses \cup {None}) /\ Len(runs) = Len(server.inv)
  BY <1>1, <1>3
<1>5. \A i \in 1..Len(server.inv) :
        /\ runs[i] = None <=> server.run[i] = None
        /\ server.run[i] \in DOMAIN Outcome => runs[i] = server.run[i]
  BY <1>1, <1>3
<1> HIDE DEF runs
<1>6. /\ server' \in Server /\ server'.inv = server.inv /\ server'.run = runs
      /\ server'.state = server.state /\ server'.claimed = server.claimed
      /\ server'.counted = server.counted /\ server'.day = server.day
      /\ server'.crossed = server.crossed
  BY <1>1, <1>2, <1>4 DEF Server
<1>7. Sized(server') /\ SameState(server, server') /\ RunsGoOn(server, server') /\ Reads(server, server')
  <2>1. Sized(server') /\ SameState(server, server')
    BY <1>1, <1>4, <1>6 DEF Sized, SameState
  <2>2. RunsGoOn(server, server')
    BY <1>5, <1>6 DEF RunsGoOn
  <2>3. Reads(server, server')
    BY <1>6 DEF Reads
  <2> QED BY <2>1, <2>2, <2>3
<1>8. AllGood(server', requests) /\ FinalKept(server, server')
  BY <1>1, <1>6, <1>7, OthersKeep
<1>9. AllGood(server', {})
  BY <1>8, CallsReturn
<1> QED BY <1>2, <1>8, <1>9 DEF StepGood

LEMMA TimeGood ==
  ASSUME LoopInv, Distinct, UpdateLoop \/ Tick PROVE StepGood
<1>1. /\ AllGood(server, requests) /\ server \in Server /\ Sized(server) /\ server.day \in Nat
  BY DEF LoopInv, AllGood, Good, Server
<1>2. /\ server' \in Server /\ server'.inv = server.inv /\ server'.run = server.run
      /\ server'.state = server.state /\ server'.claimed = server.claimed
      /\ server'.counted = server.counted /\ server'.day >= server.day
      /\ server'.crossed = server.crossed /\ requests' = requests
  <2>1. CASE UpdateLoop
    <3>1. PICK enabled \in BOOLEAN, daily \in BOOLEAN :
            server' = [server EXCEPT !.definition =
                         [revision |-> @.revision + 1, enabled |-> enabled, daily |-> daily]]
      BY <2>1 DEF UpdateLoop
    <3> DEFINE definition == [revision |-> server.definition.revision + 1, enabled |-> enabled, daily |-> daily]
    <3>2. definition \in Definitions
      BY <1>1 DEF Server, Definitions
    <3>3. server' = [server EXCEPT !.definition = definition]
      BY <1>1, <3>1 DEF Server
    <3> HIDE DEF definition
    <3>4. server.day >= server.day /\ requests' = requests
      BY <1>1, <2>1 DEF UpdateLoop
    <3> QED BY <1>1, <3>2, <3>3, <3>4 DEF Server
  <2>2. CASE Tick
    <3>1. server' = [server EXCEPT !.day = server.day + 1] /\ requests' = requests /\ server.day < MaxDays
      BY <2>2 DEF Tick
    <3>2. server.day + 1 \in 0..MaxDays /\ server.day + 1 >= server.day
      BY <1>1, <3>1 DEF Server, Distinct
    <3> QED BY <1>1, <3>1, <3>2 DEF Server
  <2> QED BY <2>1, <2>2
<1>3. Sized(server') /\ SameState(server, server') /\ RunsGoOn(server, server') /\ Reads(server, server')
  BY <1>1, <1>2 DEF Sized, SameState, RunsGoOn, Reads
<1> QED BY <1>1, <1>2, <1>3, OthersKeep DEF StepGood

LEMMA ReturnGood ==
  ASSUME LoopInv, NEW c \in requests, StartFails(c) PROVE StepGood
BY CallsReturn DEF LoopInv, StartFails, Returns, StepGood

\* A new start has no invocation yet.
LEMMA StartGood ==
  ASSUME LoopInv, StartLoopInvocation PROVE StepGood
<1> DEFINE d == Started(None)
<1>1. AllGood(server, requests) /\ Good(server, requests)
  BY DEF LoopInv, AllGood
<1>2. d \in Calls /\ d.op = "start" /\ d.at = "new" /\ d.from = None
  BY DEF Started, Calls
<1>3. requests' = requests \cup {d} /\ server' = server
  BY DEF StartLoopInvocation
<1> HIDE DEF d
<1>4. StartInv(server, d) /\ CancelInv(server, d)
  BY <1>2 DEF StartInv, CancelInv
<1>5. Good(server, requests \cup {d})
  BY <1>1, <1>2, <1>4, OneCallMore
<1>6. ScheduledInv(server, requests \cup {d})
  BY <1>1, <1>2 DEF AllGood, ScheduledInv
<1> QED BY <1>1, <1>3, <1>5, <1>6 DEF AllGood, StepGood, FinalKept

AppendTo(s, r) ==
  [s EXCEPT !.inv = Append(@, r), !.run = Append(@, None), !.counted = Append(@, 0)]

\* A new invocation comes after all others.
LEMMA Appended ==
  ASSUME NEW s \in Server, Sized(s), NEW r \in Records,
         NEW t, t = AppendTo(s, r)
  PROVE  LET n == Len(s.inv) + 1 IN
         /\ t \in Server /\ Sized(t) /\ Len(t.inv) = n /\ n \in Nat
         /\ t.inv[n] = r /\ t.run[n] = None /\ t.counted[n] = 0
         /\ \A i \in 1..Len(s.inv) :
              t.inv[i] = s.inv[i] /\ t.run[i] = s.run[i] /\ t.counted[i] = s.counted[i]
         /\ t.state = s.state /\ t.claimed = s.claimed /\ t.day = s.day /\ t.crossed = s.crossed
<1> DEFINE n == Len(s.inv) + 1
           inv == Append(s.inv, r)
           run == Append(s.run, None)
           counted == Append(s.counted, 0)
<1>1. /\ s.inv \in Seq(Records) /\ s.run \in Seq(RunStatuses \cup {None}) /\ s.counted \in Seq(Nat)
      /\ Len(s.run) = Len(s.inv) /\ Len(s.counted) = Len(s.inv) /\ Len(s.inv) \in Nat
  BY DEF Server, Sized
<1>2. inv \in Seq(Records) /\ Len(inv) = n /\ inv[n] = r /\ \A i \in 1..Len(s.inv) : inv[i] = s.inv[i]
  BY <1>1
<1>3. /\ run \in Seq(RunStatuses \cup {None}) /\ Len(run) = n /\ run[n] = None
      /\ \A i \in 1..Len(s.inv) : run[i] = s.run[i]
  <2>1. None \in RunStatuses \cup {None}
    OBVIOUS
  <2> QED BY <1>1, <2>1
<1>4. /\ counted \in Seq(Nat) /\ Len(counted) = n /\ counted[n] = 0
      /\ \A i \in 1..Len(s.inv) : counted[i] = s.counted[i]
  BY <1>1
<1>5. t = [s EXCEPT !.inv = inv, !.run = run, !.counted = counted]
  BY DEF Server, AppendTo
<1> HIDE DEF inv, run, counted
<1>6. /\ t \in Server /\ t.inv = inv /\ t.run = run /\ t.counted = counted
      /\ t.state = s.state /\ t.claimed = s.claimed /\ t.day = s.day /\ t.crossed = s.crossed
  BY <1>2, <1>3, <1>4, <1>5 DEF Server
<1>7. Sized(t)
  BY <1>2, <1>3, <1>4, <1>6 DEF Sized
<1> QED BY <1>1, <1>2, <1>3, <1>4, <1>6, <1>7

LEMMA NewInvocationGood ==
  ASSUME LoopInv, NEW c \in requests, NewInvocation(c) PROVE StepGood
<1>1. /\ AllGood(server, requests) /\ Good(server, requests) /\ server \in Server /\ Sized(server)
      /\ c \in Calls /\ c.op = "start" /\ c.at = "new" /\ server.definition \in Definitions
      /\ StateInv(server) /\ ScheduledInv(server, requests)
  BY DEF LoopInv, AllGood, Good, NewInvocation, At, Server
<1>2. CASE c.from # None /\ ~server.definition.daily
  BY <1>1, <1>2, CallsReturn DEF NewInvocation, Returns, StepGood
<1>3. CASE ~(c.from # None /\ ~server.definition.daily)
  <2> DEFINE n == Len(server.inv) + 1
             rest == requests \ {c}
             r == [status |-> "new", bound |-> FALSE, scheduled |-> c.from # None,
                   definition |-> server.definition]
  <2>1. r \in Records /\ r.status = "new" /\ ~r.bound
    BY <1>1 DEF Records, Statuses
  <2>2. server' = AppendTo(server, r)
    BY <1>3 DEF NewInvocation, AppendTo
  <2> HIDE DEF r
  <2>3. /\ server' \in Server /\ Sized(server') /\ Len(server'.inv) = n /\ n \in Nat
        /\ server'.inv[n] = r /\ server'.run[n] = None /\ server'.counted[n] = 0
        /\ \A i \in 1..Len(server.inv) :
             /\ server'.inv[i] = server.inv[i] /\ server'.run[i] = server.run[i]
             /\ server'.counted[i] = server.counted[i]
        /\ server'.state = server.state /\ server'.claimed = server.claimed
        /\ server'.day = server.day /\ server'.crossed = server.crossed
    BY <1>1, <2>1, <2>2, Appended
  <2>4. PICK status \in {"prepared", "blocked"} :
          requests' = rest \cup {[c EXCEPT !.at = "save", !.inv = n,
                                          !.copy = [server'.inv[n] EXCEPT !.status = status]]}
    BY <1>3 DEF NewInvocation
  <2> DEFINE copy == [r EXCEPT !.status = status]
             d == [c EXCEPT !.at = "save", !.inv = n, !.copy = copy]
  <2>5. copy \in Records /\ copy.status = status /\ ~copy.bound
    BY <2>1 DEF Records, Statuses, Terminal
  <2>6. requests' = rest \cup {d}
    BY <2>3, <2>4
  <2> HIDE DEF copy
  <2>7. /\ d \in Calls /\ d.op = "start" /\ d.at = "save" /\ d.inv = n /\ d.copy = copy
        /\ d.from = c.from
    BY <1>1, <2>3, <2>5 DEF Calls
  <2> HIDE DEF d
  <2>8. \A i \in 1..n : i = n \/ i \in 1..Len(server.inv)
    BY <2>3
  <2>9. Len(server.inv) \in Nat /\ n \in 1..n /\ n \notin 1..Len(server.inv)
        /\ 1..Len(server.inv) \subseteq 1..n
    BY <1>1 DEF Server
  <2>10. \A i \in 1..n : RecordInv(server', i)
    <3>1. RecordInv(server', n)
      BY <2>1, <2>3 DEF RecordInv
    <3>2. ASSUME NEW i \in 1..Len(server.inv) PROVE RecordInv(server', i)
      <4>1. RecordInv(server, i)
        BY <1>1 DEF Good
      <4> QED BY <2>3, <4>1 DEF RecordInv
    <3> QED BY <2>8, <3>1, <3>2
  <2>11. ASSUME NEW e \in requests PROVE StartInv(server', e) /\ CancelInv(server', e)
    <3>1. StartInv(server, e) /\ CancelInv(server, e)
      BY <1>1 DEF Good
    <3>2. CASE e.op = "start" /\ e.at # "new"
      <4>1. e.inv \in 1..Len(server.inv) /\ e.inv \in 1..n
        BY <2>9, <3>1, <3>2 DEF StartInv
      <4>2. server'.inv[e.inv] = server.inv[e.inv] /\ server'.run[e.inv] = server.run[e.inv]
        BY <2>3, <4>1
      <4> QED BY <2>3, <3>1, <3>2, <4>1, <4>2 DEF StartInv, CancelInv
    <3>3. CASE ~(e.op = "start" /\ e.at # "new")
      BY <2>3, <2>9, <3>1, <3>3 DEF StartInv, CancelInv
    <3> QED BY <3>2, <3>3
  <2>12. StartInv(server', d) /\ CancelInv(server', d)
    <3>1. status \in CopyStatus("save")
      BY DEF CopyStatus
    <3> QED BY <2>1, <2>3, <2>5, <2>7, <2>9, <3>1 DEF StartInv, CancelInv, Writing
  <2>13. OneStartEach(rest \cup {d})
    <3>1. \A e \in rest : e.op = "start" /\ e.at # "new" => e.inv \in 1..Len(server.inv)
      BY <1>1 DEF Good, StartInv
    <3> QED BY <1>1, <2>7, <2>9, <3>1 DEF Good, OneStartEach
  <2>14. Good(server', rest \cup {d})
    BY <1>1, <2>3, <2>7, <2>10, <2>11, <2>12, <2>13 DEF Good
  <2>15. StateInv(server')
    <3>1. server.state # None => server.state.last <= Len(server.inv)
      BY <1>1 DEF StateInv
    <3>2. server.state # None => server.state.last \in Nat
      BY <1>1 DEF Server, States
    <3>3. server.state # None => server.state.last <= n
      BY <2>9, <3>1, <3>2
    <3>4. \A i \in 1..n :
            /\ server'.counted[i] <= 1
            /\ server'.counted[i] > 0 =>
                 /\ server.state # None
                 /\ i < server.state.last \/ (i = server.state.last /\ server.state.status \in Terminal)
      BY <1>1, <2>3, <2>8 DEF StateInv
    <3> QED BY <1>1, <2>3, <3>3, <3>4 DEF StateInv
  <2>16. ScheduledInv(server', rest \cup {d})
    <3>1. server.state # None => n > server.state.last
      <4>1. server.state # None => server.state.last <= Len(server.inv) /\ server.state.last \in Nat
        BY <1>1 DEF StateInv, Server, States
      <4> QED BY <2>9, <4>1
    <3>2. c.from # None => c.from = server.state
      BY <1>1 DEF ScheduledInv
    <3> QED BY <1>1, <2>3, <2>7, <3>1, <3>2 DEF ScheduledInv
  <2>17. FinalKept(server, server')
    BY <2>3 DEF FinalKept
  <2> QED BY <2>6, <2>14, <2>15, <2>16, <2>17 DEF StepGood, AllGood
<1> QED BY <1>2, <1>3

LEMMA MoveFrontierGood ==
  ASSUME LoopInv, Distinct, NEW c \in requests, MoveFrontier(c) PROVE StepGood
<1> DEFINE state == [c.from EXCEPT !.last = c.inv, !.status = c.copy.status]
           rest == requests \ {c}
<1>1. /\ AllGood(server, requests) /\ Good(server, requests) /\ server \in Server /\ Sized(server)
      /\ c \in Calls /\ c.op = "start" /\ c.at = "frontier"
      /\ StateInv(server) /\ ScheduledInv(server, requests) /\ StartInv(server, c)
  BY DEF LoopInv, AllGood, Good, MoveFrontier, At
<1>2. /\ c.inv \in 1..Len(server.inv) /\ c.copy \in Records /\ c.from # None
      /\ c.from = server.state /\ c.inv > server.state.last
  BY <1>1 DEF StartInv, ScheduledInv
<1>3. server.state \in States /\ None \notin States /\ c.inv \in Nat /\ Len(server.inv) \in Nat
      /\ server.state.last \in Nat
  <2>1. server.state \in States \cup {None}
    BY <1>1 DEF Server
  <2>2. None \notin States
    BY DEF Distinct
  <2>3. server.state \in States
    BY <1>2, <2>1
  <2>4. Len(server.inv) \in Nat
    BY <1>1 DEF Server
  <2>5. server.state.last \in Nat
    BY <2>3 DEF States
  <2> QED BY <1>2, <2>2, <2>3, <2>4, <2>5
<1>4. server' = [server EXCEPT !.state = state] /\ requests' = rest
  BY DEF MoveFrontier, Returns
<1>5. state \in States /\ state.last = c.inv /\ state.next = server.state.next
  <2>1. c.copy.status \in Statuses
    BY <1>2 DEF Records
  <2> QED BY <1>2, <1>3, <2>1 DEF States
<1> HIDE DEF state
<1>6. /\ server' \in Server /\ server'.inv = server.inv /\ server'.run = server.run
      /\ server'.state = state /\ server'.claimed = server.claimed
      /\ server'.counted = server.counted /\ server'.day = server.day
      /\ server'.crossed = server.crossed
  BY <1>1, <1>4, <1>5 DEF Server
<1>7. RunsGoOn(server, server') /\ Reads(server, server') /\ Sized(server')
  BY <1>1, <1>6 DEF RunsGoOn, Reads, Sized
<1>8. Good(server', requests) /\ FinalKept(server, server')
  BY <1>1, <1>6, <1>7, OthersStep
<1>9. Good(server', rest)
  BY <1>8, FewerCalls
<1>10. StateInv(server')
  <2>1. state # None
    BY <1>3, <1>5
  <2>2. ASSUME NEW i \in 1..Len(server.inv), server.counted[i] > 0 PROVE i < state.last
    <3>1. i <= server.state.last
      BY <1>1, <1>3, <2>2 DEF StateInv
    <3> QED BY <1>2, <1>3, <1>5, <3>1
  <2>3. state.last <= Len(server.inv)
    BY <1>2, <1>3, <1>5
  <2> QED BY <1>1, <1>5, <1>6, <2>1, <2>2, <2>3 DEF StateInv
<1>11. ScheduledInv(server', rest)
  BY <1>1, <1>2 DEF ScheduledInv
<1> QED BY <1>4, <1>8, <1>9, <1>10, <1>11 DEF StepGood, AllGood

-----------------------------------------------------------------------------
(* The projection of the runtime state.                                      *)

LEMMA AlignFacts ==
  ASSUME server \in Server, NEW state \in States
  PROVE  /\ alignLoopRuntimeDefinition(state) \in States
         /\ alignLoopRuntimeDefinition(state).last = state.last
         /\ alignLoopRuntimeDefinition(state).status = state.status
         /\ alignLoopRuntimeDefinition(state).next \in {state.next, server.day + 1, None}
<1> DEFINE next == NextScheduledTime(server.definition, server.day)
<1>1. server.day \in Nat /\ server.definition.revision \in Nat
  BY DEF Server, Definitions
<1>2. next \in {server.day + 1, None} /\ next \in Nat \cup {None}
  BY <1>1 DEF NextScheduledTime
<1> HIDE DEF next
<1>3. alignLoopRuntimeDefinition(state) =
        IF state.revision = server.definition.revision THEN state
        ELSE [state EXCEPT !.revision = server.definition.revision, !.next = next]
  BY DEF alignLoopRuntimeDefinition, next
<1> QED BY <1>1, <1>2, <1>3 DEF States

LEMMA ReconcileType ==
  ASSUME server \in Server, NEW i \in 1..Len(server.inv) PROVE reconcileInvocation(i) \in Statuses
<1>1. server.inv[i] \in Records
  BY DEF Server
<1>2. server.inv[i].status \in Statuses
  BY <1>1 DEF Records
<1> QED BY <1>2, ReconcileFacts

LEMMA ProjectFacts ==
  ASSUME server \in Server, NEW state \in States, NEW p, p = ProjectRuntimeState(state)
  PROVE  /\ p \in States
         /\ p.next \in {state.next, server.day + 1, None}
         /\ Seen(state) = {} => p.last = state.last /\ p.status = state.status
         /\ Seen(state) # {} =>
              /\ p.last \in Seen(state) /\ p.status = reconcileInvocation(p.last)
              /\ \A i \in Seen(state) : i <= p.last
<1> DEFINE last == Max(Seen(state))
           end == server.inv[Max(Ended(state))].definition
           seen == [state EXCEPT !.last = last, !.status = reconcileInvocation(last)]
           ended == [seen EXCEPT !.total = @ + Cardinality(Ended(state)), !.revision = end.revision,
                                 !.next = NextScheduledTime(end, server.day)]
<1>1. /\ Len(server.inv) \in Nat /\ server.day \in Nat /\ Invocations = 1..Len(server.inv)
      /\ \A i \in 1..Len(server.inv) : server.inv[i].definition.revision \in Nat
  <2>1. server.inv \in Seq(Records) /\ server.day \in Nat
    BY DEF Server
  <2>2. \A r \in Records : r.definition.revision \in Nat
    BY DEF Records, Definitions
  <2>3. \A i \in 1..Len(server.inv) : server.inv[i] \in Records
    BY <2>1
  <2> QED BY <2>1, <2>2, <2>3 DEF Invocations
<1>2. Seen(state) \in SUBSET (1..Len(server.inv)) /\ Ended(state) \in SUBSET (1..Len(server.inv))
      /\ Ended(state) \subseteq Seen(state)
  BY <1>1 DEF Seen, Ended
<1>3. CASE Seen(state) = {}
  <2>1. p = state
    BY <1>3 DEF ProjectRuntimeState
  <2> QED BY <1>3, <2>1 DEF States
<1>4. CASE Seen(state) # {}
  <2>1. last \in Seen(state) /\ (\A i \in Seen(state) : i <= last)
    BY <1>1, <1>2, <1>4, MaxFacts
  <2>2. last \in Nat /\ reconcileInvocation(last) \in Statuses
    BY <1>2, <2>1, ReconcileType
  <2> HIDE DEF last
  <2>3. seen \in States /\ seen.last = last /\ seen.status = reconcileInvocation(last) /\ seen.next = state.next
    BY <2>2 DEF States
  <2>4. p = IF Ended(state) = {} THEN seen ELSE ended
    BY <1>4 DEF ProjectRuntimeState, last
  <2>5. CASE Ended(state) = {}
    <3>1. p = seen
      BY <2>4, <2>5
    <3> HIDE DEF seen
    <3>2. p.next \in {state.next, server.day + 1, None}
      BY <2>3, <3>1
    <3> QED BY <1>4, <2>1, <2>3, <3>1, <3>2
  <2>6. CASE Ended(state) # {}
    <3>1. end.revision \in Nat
      <4>1. Max(Ended(state)) \in 1..Len(server.inv)
        BY <1>1, <1>2, <2>6, MaxFacts
      <4> QED BY <1>1, <4>1
    <3>2. Cardinality(Ended(state)) \in Nat
      <4>1. IsFiniteSet(1..Len(server.inv))
        BY <1>1, FS_Interval
      <4>2. IsFiniteSet(Ended(state))
        BY <1>2, <4>1, FS_Subset
      <4> QED BY <4>2, FS_CardinalityType
    <3> HIDE DEF end, seen
    <3> DEFINE next == NextScheduledTime(end, server.day)
               total == seen.total + Cardinality(Ended(state))
    <3>3. next \in {server.day + 1, None} /\ next \in Nat \cup {None}
      BY <1>1 DEF NextScheduledTime
    <3>4. total \in Nat
      <4>1. seen.total \in Nat
        BY <2>3 DEF States
      <4> QED BY <3>2, <4>1
    <3>5. p = [seen EXCEPT !.total = total, !.revision = end.revision, !.next = next]
      BY <2>3, <2>4, <2>6 DEF States
    <3> HIDE DEF next, total
    <3>6. p \in States /\ p.last = seen.last /\ p.status = seen.status /\ p.next = next
      BY <2>3, <3>1, <3>3, <3>4, <3>5 DEF States
    <3> QED BY <1>4, <2>1, <2>3, <3>3, <3>6
  <2> QED BY <2>5, <2>6
<1> QED BY <1>3, <1>4

-----------------------------------------------------------------------------
(* A read of the runtime state.                                              *)

\* A read saves some of what it reconciled, and the state with what it counted or neither.
LEMMA ReadSteps ==
  ASSUME server \in Server, LoopRuntimeState
  PROVE  \E kept, state, counted :
           /\ server' = [server EXCEPT !.inv = Reconciled(kept), !.state = state, !.counted = counted]
           /\ \/ state = ProjectedState /\ counted = Tallied
              \/ state = server.state /\ counted = server.counted
<1>1. CASE \E kept : Read(kept)
  BY <1>1 DEF Read, Server
<1>2. CASE server' = [server EXCEPT !.inv = Reconciled({})]
  <2> DEFINE old == server.state
             was == server.counted
  <2>1. server' = [server EXCEPT !.inv = Reconciled({}), !.state = old, !.counted = was]
    BY <1>2 DEF Server
  <2> QED BY <2>1
<1> QED BY <1>1, <1>2 DEF LoopRuntimeState

\* The state that a read starts from goes on from the saved one.
LEMMA LoadedFacts ==
  ASSUME server \in Server
  PROVE  /\ LoadedState \in States
         /\ server.state = None => LoadedState.last = 0 /\ LoadedState.next \in {server.day + 1, None}
         /\ server.state # None =>
              /\ server.state \in States
              /\ LoadedState.last = server.state.last /\ LoadedState.status = server.state.status
              /\ LoadedState.next \in {server.state.next, server.day + 1, None}
<1>1. CASE server.state = None
  <2> DEFINE next == NextScheduledTime(server.definition, server.day)
  <2>1. server.day \in Nat /\ server.definition.revision \in Nat
    BY DEF Server, Definitions
  <2>2. next \in {server.day + 1, None} /\ next \in Nat \cup {None}
    BY <2>1 DEF NextScheduledTime
  <2> HIDE DEF next
  <2>3. LoadedState = [revision |-> server.definition.revision, last |-> 0, status |-> "", total |-> 0,
                   next |-> next]
    BY <1>1 DEF LoadedState, NewRuntimeState, next
  <2> QED BY <1>1, <2>1, <2>2, <2>3 DEF States
<1>2. CASE server.state # None
  <2>1. server.state \in States
    BY <1>2 DEF Server
  <2> QED BY <1>2, <2>1, AlignFacts DEF LoadedState
<1> QED BY <1>1, <1>2

\* The new state is past all that was counted and all that ended.
LEMMA ProjectedFacts ==
  ASSUME server \in Server
  PROVE  /\ ProjectedState \in States
         /\ ProjectedState.next \in {LoadedState.next, server.day + 1, None}
         /\ Seen(LoadedState) = {} => ProjectedState.last = LoadedState.last /\ ProjectedState.status = LoadedState.status
         /\ Seen(LoadedState) # {} =>
              /\ ProjectedState.last \in Seen(LoadedState)
              /\ ProjectedState.status = reconcileInvocation(ProjectedState.last)
              /\ \A i \in Seen(LoadedState) : i <= ProjectedState.last
<1> DEFINE p == ProjectRuntimeState(LoadedState)
<1>1. LoadedState \in States
  BY LoadedFacts
<1>2. /\ p \in States
      /\ p.next \in {LoadedState.next, server.day + 1, None}
      /\ Seen(LoadedState) = {} => p.last = LoadedState.last /\ p.status = LoadedState.status
      /\ Seen(LoadedState) # {} =>
           /\ p.last \in Seen(LoadedState) /\ p.status = reconcileInvocation(p.last)
           /\ \A i \in Seen(LoadedState) : i <= p.last
  BY <1>1, ProjectFacts
<1>3. ProjectedState = alignLoopRuntimeDefinition(p)
  BY DEF ProjectedState
<1> HIDE DEF p
<1>4. /\ ProjectedState \in States /\ ProjectedState.last = p.last /\ ProjectedState.status = p.status
      /\ ProjectedState.next \in {p.next, server.day + 1, None}
  BY <1>2, <1>3, AlignFacts
<1> QED BY <1>2, <1>4

LEMMA ReconciledFacts ==
  ASSUME server \in Server, NEW kept
  PROVE  /\ Reconciled(kept) \in Seq(Records) /\ Len(Reconciled(kept)) = Len(server.inv)
         /\ \A i \in 1..Len(server.inv) : Reconciled(kept)[i] # server.inv[i] =>
              /\ server.inv[i].bound /\ server.inv[i].status \notin Terminal
              /\ server.run[i] \in DOMAIN Outcome
              /\ Reconciled(kept)[i] = [server.inv[i] EXCEPT !.status = Outcome[server.run[i]]]
<1>1. /\ server.inv \in Seq(Records) /\ Len(server.inv) \in Nat /\ Invocations = 1..Len(server.inv)
      /\ \A i \in 1..Len(server.inv) : server.inv[i] \in Records
  BY DEF Server, Invocations
<1>2. ASSUME NEW i \in 1..Len(server.inv)
      PROVE  /\ Reconciled(kept)[i] \in Records
             /\ Reconciled(kept)[i] # server.inv[i] =>
                  /\ server.inv[i].bound /\ server.inv[i].status \notin Terminal
                  /\ server.run[i] \in DOMAIN Outcome
                  /\ Reconciled(kept)[i] = [server.inv[i] EXCEPT !.status = Outcome[server.run[i]]]
  <2> DEFINE status == reconcileInvocation(i)
             r == [server.inv[i] EXCEPT !.status = status]
  <2>1. status \in Statuses /\ server.inv[i] \in Records
    BY <1>1, ReconcileType
  <2>2. status # server.inv[i].status =>
          /\ server.inv[i].bound /\ server.inv[i].status \notin Terminal
          /\ server.run[i] \in DOMAIN Outcome /\ status = Outcome[server.run[i]]
    BY ReconcileFacts
  <2>3. Reconciled(kept)[i] \in {server.inv[i], r}
    BY <1>1 DEF Reconciled
  <2> HIDE DEF status
  <2>4. r \in Records /\ (r # server.inv[i] => status # server.inv[i].status)
    BY <2>1 DEF Records
  <2>5. r # server.inv[i] => r = [server.inv[i] EXCEPT !.status = Outcome[server.run[i]]]
    BY <2>2, <2>4
  <2> HIDE DEF r
  <2> QED BY <2>1, <2>2, <2>3, <2>4, <2>5
<1>3. DOMAIN Reconciled(kept) = 1..Len(server.inv)
  BY <1>1 DEF Reconciled
<1>4. Reconciled(kept) \in [1..Len(server.inv) -> Records]
  <2>1. \A i \in 1..Len(server.inv) : Reconciled(kept)[i] \in Records
    BY <1>2
  <2> QED BY <1>1, <2>1 DEF Reconciled
<1>5. Reconciled(kept) \in Seq(Records) /\ Len(Reconciled(kept)) = Len(server.inv)
  BY <1>1, <1>4
<1> QED BY <1>2, <1>5

LEMMA TalliedFacts ==
  ASSUME server \in Server, Sized(server)
  PROVE  /\ Tallied \in Seq(Nat) /\ Len(Tallied) = Len(server.inv)
         /\ \A i \in 1..Len(server.inv) :
              Tallied[i] = IF i \in Ended(LoadedState) THEN server.counted[i] + 1 ELSE server.counted[i]
<1>1. /\ server.counted \in Seq(Nat) /\ Len(server.counted) = Len(server.inv)
      /\ Len(server.inv) \in Nat /\ Invocations = 1..Len(server.inv)
  BY DEF Server, Sized, Invocations
<1>2. \A i \in 1..Len(server.inv) : server.counted[i] \in Nat /\ server.counted[i] + 1 \in Nat
  BY <1>1
<1>3. Tallied \in [1..Len(server.inv) -> Nat]
  BY <1>1, <1>2 DEF Tallied
<1> QED BY <1>1, <1>3 DEF Tallied

\* What was counted lies before the frontier that a read starts from.
LEMMA CountedIsPassed ==
  ASSUME server \in Server, StateInv(server), NEW i \in 1..Len(server.inv), server.counted[i] > 0
  PROVE  /\ server.state # None /\ i < Frontier(LoadedState)
         /\ i \notin Seen(LoadedState)
         /\ i < LoadedState.last \/ (i = LoadedState.last /\ LoadedState.status \in Terminal)
<1>1. server.state # None /\ (i < server.state.last \/ (i = server.state.last /\ server.state.status \in Terminal))
  BY DEF StateInv
<1>2. /\ LoadedState.last = server.state.last /\ LoadedState.status = server.state.status
      /\ LoadedState \in States
  BY <1>1, LoadedFacts
<1>3. LoadedState.last \in Nat /\ i \in Nat /\ i >= 1
  <2>1. LoadedState.last \in Nat
    BY <1>2 DEF States
  <2>2. i \in Nat /\ i >= 1
    OBVIOUS
  <2> QED BY <2>1, <2>2
<1>4. i < Frontier(LoadedState)
  BY <1>1, <1>2, <1>3 DEF Frontier
<1>5. Frontier(LoadedState) \in Nat
  BY <1>3 DEF Frontier
<1>6. i \notin Seen(LoadedState)
  BY <1>3, <1>4, <1>5 DEF Seen
<1> QED BY <1>1, <1>2, <1>4, <1>6

\* What was before the frontier stays before it.
LEMMA PassedStaysPassed ==
  ASSUME server \in Server, NEW i \in 1..Len(server.inv), i < Frontier(LoadedState),
         i < LoadedState.last \/ (i = LoadedState.last /\ LoadedState.status \in Terminal)
  PROVE  i < ProjectedState.last \/ (i = ProjectedState.last /\ ProjectedState.status \in Terminal)
<1>1. CASE Seen(LoadedState) = {}
  BY <1>1, ProjectedFacts
<1>2. CASE Seen(LoadedState) # {}
  <2>1. ProjectedState.last \in Seen(LoadedState)
    BY <1>2, ProjectedFacts
  <2>2. Invocations = 1..Len(server.inv)
    BY DEF Server, Invocations
  <2>3. ProjectedState.last >= Frontier(LoadedState) /\ ProjectedState.last \in 1..Len(server.inv)
    BY <2>1, <2>2 DEF Seen
  <2>4. Frontier(LoadedState) \in Nat
    <3>1. LoadedState.last \in Nat
      BY LoadedFacts DEF States
    <3> QED BY <3>1 DEF Frontier
  <2> QED BY <2>3, <2>4
<1> QED BY <1>1, <1>2

\* An invocation that a read counts was not counted before, and is then passed.
LEMMA EndedIsPassed ==
  ASSUME server \in Server, NEW i \in Ended(LoadedState)
  PROVE  i < ProjectedState.last \/ (i = ProjectedState.last /\ ProjectedState.status \in Terminal)
<1>1. i \in Seen(LoadedState) /\ reconcileInvocation(i) \in Terminal /\ Seen(LoadedState) # {}
  BY DEF Ended
<1>2. /\ i <= ProjectedState.last /\ ProjectedState.last \in Seen(LoadedState)
      /\ ProjectedState.status = reconcileInvocation(ProjectedState.last)
  BY <1>1, ProjectedFacts
<1>3. Seen(LoadedState) \subseteq Nat
  BY DEF Seen, Invocations, Server
<1>4. i \in Nat /\ ProjectedState.last \in Nat
  BY <1>1, <1>2, <1>3
<1>5. i < ProjectedState.last \/ i = ProjectedState.last
  BY <1>2, <1>4
<1> QED BY <1>1, <1>2, <1>5

LEMMA ReadKeepsState ==
  ASSUME LoopInv, NEW t, t \in Server, Len(t.inv) = Len(server.inv), t.day = server.day,
         t.claimed = server.claimed, t.state = ProjectedState, t.counted = Tallied, Distinct
  PROVE  StateInv(t)
<1>1. /\ server \in Server /\ Sized(server) /\ StateInv(server)
      /\ server.day \in Nat /\ Len(server.inv) \in Nat /\ None \notin States
  BY DEF LoopInv, AllGood, Good, Server, Distinct
<1>2. ProjectedState \in States /\ ProjectedState # None /\ LoadedState \in States
  BY <1>1, ProjectedFacts, LoadedFacts
<1>3. ASSUME NEW d \in 1..MaxDays, t.claimed[d] > 0
      PROVE  d <= t.day /\ (ProjectedState.next = None \/ ProjectedState.next > d)
  <2>1. /\ d <= server.day /\ server.state # None
        /\ server.state.next = None \/ server.state.next > d
    BY <1>1, <1>3 DEF StateInv
  <2>2. ProjectedState.next \in {server.state.next, server.day + 1, None}
    BY <1>1, <2>1, ProjectedFacts, LoadedFacts
  <2>3. server.day + 1 > d
    BY <1>1, <2>1
  <2> QED BY <2>1, <2>2, <2>3
<1>4. ASSUME NEW i \in 1..Len(server.inv)
      PROVE  /\ Tallied[i] <= 1
             /\ Tallied[i] > 0 =>
                  i < ProjectedState.last \/ (i = ProjectedState.last /\ ProjectedState.status \in Terminal)
  <2>1. server.counted[i] \in Nat /\ server.counted[i] <= 1
    BY <1>1 DEF StateInv, Server, Sized
  <2>2. CASE i \in Ended(LoadedState)
    <3>1. server.counted[i] = 0
      BY <1>1, <2>1, <2>2, CountedIsPassed DEF Ended
    <3>2. Tallied[i] = 1
      BY <1>1, <2>2, <3>1, TalliedFacts
    <3> QED BY <1>1, <2>2, <3>2, EndedIsPassed
  <2>3. CASE i \notin Ended(LoadedState)
    <3>1. Tallied[i] = server.counted[i]
      BY <1>1, <2>3, TalliedFacts
    <3>2. ASSUME server.counted[i] > 0
          PROVE  i < ProjectedState.last \/ (i = ProjectedState.last /\ ProjectedState.status \in Terminal)
      BY <1>1, <3>2, CountedIsPassed, PassedStaysPassed
    <3> QED BY <2>1, <3>1, <3>2
  <2> QED BY <2>2, <2>3
<1>5. ProjectedState.last <= Len(server.inv)
  <2>1. CASE Seen(LoadedState) = {}
    <3>1. ProjectedState.last = LoadedState.last
      BY <1>1, <2>1, ProjectedFacts
    <3>2. LoadedState.last = 0 \/ (server.state # None /\ LoadedState.last = server.state.last)
      BY <1>1, LoadedFacts
    <3> QED BY <1>1, <3>1, <3>2 DEF StateInv
  <2>2. CASE Seen(LoadedState) # {}
    <3>1. ProjectedState.last \in Seen(LoadedState)
      BY <1>1, <2>2, ProjectedFacts
    <3>2. ProjectedState.last \in 1..Len(server.inv)
      BY <1>1, <3>1 DEF Seen, Invocations, Server
    <3> QED BY <1>1, <3>2
  <2> QED BY <2>1, <2>2
<1>6. \A d \in 1..MaxDays : t.claimed[d] <= 1
  BY <1>1 DEF StateInv
<1> QED BY <1>2, <1>3, <1>4, <1>5, <1>6 DEF StateInv

LEMMA ReadGood ==
  ASSUME LoopInv, Distinct, LoopRuntimeState PROVE StepGood
<1>1. /\ AllGood(server, requests) /\ Good(server, requests) /\ server \in Server /\ Sized(server)
      /\ StateInv(server) /\ server.day \in Nat /\ server.state \in States \cup {None}
      /\ server.counted \in Seq(Nat) /\ Len(server.counted) = Len(server.inv)
      /\ Len(server.run) = Len(server.inv)
  BY DEF LoopInv, AllGood, Good, Server, Sized
<1>2. PICK kept, state, counted :
        /\ server' = [server EXCEPT !.inv = Reconciled(kept), !.state = state, !.counted = counted]
        /\ \/ state = ProjectedState /\ counted = Tallied
           \/ state = server.state /\ counted = server.counted
  BY <1>1, ReadSteps
<1> DEFINE inv == Reconciled(kept)
<1>3. /\ inv \in Seq(Records) /\ Len(inv) = Len(server.inv)
      /\ \A i \in 1..Len(server.inv) : inv[i] # server.inv[i] =>
           /\ server.inv[i].bound /\ server.inv[i].status \notin Terminal
           /\ server.run[i] \in DOMAIN Outcome
           /\ inv[i] = [server.inv[i] EXCEPT !.status = Outcome[server.run[i]]]
  BY <1>1, ReconciledFacts
<1>4. state \in States \cup {None} /\ counted \in Seq(Nat) /\ Len(counted) = Len(server.inv)
  BY <1>1, <1>2, ProjectedFacts, TalliedFacts
<1> HIDE DEF inv
<1>5. server' = [server EXCEPT !.inv = inv, !.state = state, !.counted = counted]
  BY <1>2 DEF inv
<1>6. /\ server' \in Server /\ server'.inv = inv /\ server'.run = server.run
      /\ server'.state = state /\ server'.claimed = server.claimed
      /\ server'.counted = counted /\ server'.day = server.day
      /\ server'.crossed = server.crossed
  BY <1>1, <1>3, <1>4, <1>5 DEF Server
<1>7. Sized(server') /\ RunsGoOn(server, server') /\ Reads(server, server')
  BY <1>1, <1>3, <1>4, <1>6 DEF Sized, RunsGoOn, Reads
<1>8. Good(server', requests) /\ FinalKept(server, server')
  <2>1. Len(server'.inv) = Len(server.inv) /\ server'.crossed = server.crossed
    BY <1>3, <1>6
  <2> QED BY <1>1, <1>6, <1>7, <2>1, OthersStep
<1>9. StateInv(server')
  <2>1. CASE state = ProjectedState /\ counted = Tallied
    <3>1. Len(server'.inv) = Len(server.inv)
      BY <1>3, <1>6
    <3> QED BY <1>6, <2>1, <3>1, ReadKeepsState
  <2>2. CASE state = server.state /\ counted = server.counted
    <3>1. SameState(server, server')
      BY <1>1, <1>3, <1>6, <2>2 DEF SameState
    <3> QED BY <1>1, <1>6, <3>1, StateKept
  <2> QED BY <1>2, <2>1, <2>2
<1>10. ScheduledInv(server', requests) /\ requests' = requests
  BY DEF LoopRuntimeState, Scheduling, ScheduledInv
<1> QED BY <1>8, <1>9, <1>10 DEF StepGood, AllGood

-----------------------------------------------------------------------------
(* The scheduler.                                                            *)

SetState(s, state, claimed) == [s EXCEPT !.state = state, !.claimed = claimed]

\* The scheduler changes the state and what is claimed.
LEMMA StateSet ==
  ASSUME LoopInv, NEW state \in States, NEW claimed \in [1..MaxDays -> Nat],
         NEW t, t = SetState(server, state, claimed)
  PROVE  /\ Good(t, requests) /\ FinalKept(server, t)
         /\ t.state = state /\ t.claimed = claimed /\ t.day = server.day
         /\ t.counted = server.counted /\ t.inv = server.inv
<1>1. Good(server, requests) /\ server \in Server /\ Sized(server)
  BY DEF LoopInv, AllGood, Good
<1>2. /\ t \in Server /\ t.inv = server.inv /\ t.run = server.run
      /\ t.state = state /\ t.claimed = claimed
      /\ t.counted = server.counted /\ t.day = server.day /\ t.crossed = server.crossed
  BY <1>1 DEF Server, SetState
<1>3. Sized(t) /\ RunsGoOn(server, t) /\ Reads(server, t) /\ Len(t.inv) = Len(server.inv)
  BY <1>1, <1>2 DEF Sized, RunsGoOn, Reads
<1> QED BY <1>1, <1>2, <1>3, OthersStep

\* A state is made or realigned, and left for the next tick.
LEMMA RealignGood ==
  ASSUME LoopInv, Distinct, RunDueLoops,
         server' = [server EXCEPT !.state = LoadedState], requests' = requests
  PROVE  StepGood
<1>1. /\ Good(server, requests) /\ server \in Server /\ StateInv(server) /\ ScheduledInv(server, requests)
      /\ server.claimed \in [1..MaxDays -> Nat] /\ server.day \in Nat
      /\ Len(server.inv) \in Nat /\ None \notin States
  BY DEF LoopInv, AllGood, Good, Server, Distinct
<1>2. /\ LoadedState \in States /\ LoadedState # None
      /\ server.state = None => LoadedState.last = 0
      /\ server.state # None =>
           /\ LoadedState.last = server.state.last /\ LoadedState.status = server.state.status
           /\ LoadedState.next \in {server.state.next, server.day + 1, None}
  BY <1>1, LoadedFacts
<1> DEFINE state == LoadedState
           claimed == server.claimed
<1>3. server' = SetState(server, state, claimed)
  BY <1>1 DEF Server, SetState
<1>4. claimed = server.claimed /\ claimed \in [1..MaxDays -> Nat] /\ state \in States /\ state = LoadedState
  BY <1>1, <1>2
<1> HIDE DEF claimed, state
<1>5. /\ Good(server', requests) /\ FinalKept(server, server')
      /\ server'.state = LoadedState /\ server'.claimed = server.claimed
      /\ server'.day = server.day /\ server'.counted = server.counted /\ server'.inv = server.inv
  BY <1>3, <1>4, StateSet
<1>6. StateInv(server')
  <2>1. ASSUME NEW d \in 1..MaxDays, server.claimed[d] > 0
        PROVE  d <= server.day /\ (LoadedState.next = None \/ LoadedState.next > d)
    <3>1. /\ d <= server.day /\ server.state # None
          /\ server.state.next = None \/ server.state.next > d
      BY <1>1, <2>1 DEF StateInv
    <3>2. LoadedState.next \in {server.state.next, server.day + 1, None}
      BY <1>2, <3>1
    <3>3. server.day + 1 > d
      BY <1>1, <3>1
    <3> QED BY <3>1, <3>2, <3>3
  <2>2. ASSUME NEW i \in 1..Len(server.inv), server.counted[i] > 0
        PROVE  i < LoadedState.last \/ (i = LoadedState.last /\ LoadedState.status \in Terminal)
    BY <1>1, <2>2, CountedIsPassed
  <2>3. LoadedState.last <= Len(server.inv)
    BY <1>1, <1>2 DEF StateInv
  <2>4. /\ \A d \in 1..MaxDays : server.claimed[d] <= 1
        /\ \A i \in 1..Len(server.inv) : server.counted[i] <= 1
    BY <1>1 DEF StateInv
  <2> QED BY <1>2, <1>5, <2>1, <2>2, <2>3, <2>4 DEF StateInv
<1>7. ScheduledInv(server', requests)
  BY DEF RunDueLoops, Scheduling, ScheduledInv
<1> QED BY <1>5, <1>6, <1>7 DEF StepGood, AllGood

\* An occurrence is claimed, and its start made.
LEMMA ClaimGood ==
  ASSUME LoopInv, Distinct, RunDueLoops, Due,
         NEW state, state = [server.state EXCEPT !.next = NextScheduledTime(server.definition, @)],
         Claim(state), requests' = requests \cup {Started(state)}
  PROVE  StepGood
<1> DEFINE day == server.state.next
           d == Started(state)
           claimed == [server.claimed EXCEPT ![day] = @ + 1]
<1>1. /\ Good(server, requests) /\ server \in Server /\ StateInv(server) /\ ScheduledInv(server, requests)
      /\ server.claimed \in [1..MaxDays -> Nat] /\ server.day \in Nat
      /\ server.state \in States /\ None \notin States
  BY DEF LoopInv, AllGood, Good, Server, Distinct, Due
<1>2. day \in Nat /\ day <= server.day /\ server.definition.daily /\ server.state # None /\ day # None
  <2>1. day \in Nat \cup {None}
    BY <1>1 DEF States
  <2> QED BY <2>1 DEF Due
<1>3. state = [server.state EXCEPT !.next = day + 1]
  BY <1>2 DEF NextScheduledTime
<1>4. /\ state \in States /\ state.next = day + 1 /\ state # None
      /\ state.last = server.state.last /\ state.status = server.state.status
  <2>1. day + 1 \in Nat
    BY <1>2
  <2> HIDE DEF day
  <2>2. /\ state \in States /\ state.next = day + 1
        /\ state.last = server.state.last /\ state.status = server.state.status
    BY <1>1, <1>3, <2>1 DEF States
  <2> QED BY <1>1, <2>2
<1>5. server' = SetState(server, state, claimed)
  BY <1>1 DEF Claim, Server, SetState
<1>6. /\ claimed \in [1..MaxDays -> Nat]
      /\ \A k \in 1..MaxDays : claimed[k] = IF k = day THEN server.claimed[k] + 1 ELSE server.claimed[k]
  <2> HIDE DEF day
  <2>1. \A k \in 1..MaxDays : server.claimed[k] \in Nat
    BY <1>1
  <2>2. \A k \in 1..MaxDays : server.claimed[k] + 1 \in Nat
    BY <2>1
  <2>3. /\ DOMAIN claimed = 1..MaxDays
        /\ \A k \in 1..MaxDays : claimed[k] = IF k = day THEN server.claimed[k] + 1 ELSE server.claimed[k]
    BY <1>1
  <2>4. claimed \in [1..MaxDays -> Nat]
    BY <1>1, <2>1, <2>2, <2>3
  <2> QED BY <2>3, <2>4
<1> HIDE DEF claimed, day
<1>7. /\ Good(server', requests) /\ FinalKept(server, server')
      /\ server'.state = state /\ server'.claimed = claimed
      /\ server'.day = server.day /\ server'.counted = server.counted /\ server'.inv = server.inv
  BY <1>4, <1>5, <1>6, StateSet
<1>8. StateInv(server')
  <2>1. ASSUME NEW k \in 1..MaxDays
        PROVE  /\ claimed[k] <= 1
               /\ claimed[k] > 0 => k <= server.day /\ state.next > k
    <3>1. /\ server.claimed[k] \in Nat /\ server.claimed[k] <= 1
          /\ server.claimed[k] > 0 => k <= server.day /\ day > k
      BY <1>1, <1>2 DEF StateInv, day
    <3>2. CASE k = day
      <4>1. server.claimed[k] = 0
        BY <1>2, <3>1, <3>2
      <4> QED BY <1>2, <1>4, <1>6, <3>2, <4>1
    <3>3. CASE k # day
      BY <1>2, <1>4, <1>6, <3>1, <3>3
    <3> QED BY <3>2, <3>3
  <2> QED BY <1>1, <1>2, <1>4, <1>7, <2>1 DEF StateInv
<1>9. d \in Calls /\ d.op = "start" /\ d.at = "new" /\ d.from = state
  BY <1>4 DEF Started, Calls
<1> HIDE DEF d
<1>10. Good(server', requests \cup {d})
  BY <1>7, <1>9, OneCallMore DEF StartInv, CancelInv
<1>11. ScheduledInv(server', requests \cup {d})
  BY <1>7, <1>9 DEF RunDueLoops, Scheduling, ScheduledInv
<1> QED BY <1>7, <1>8, <1>10, <1>11 DEF StepGood, AllGood, d

LEMMA DueGood ==
  ASSUME LoopInv, Distinct, RunDueLoops PROVE StepGood
<1>1. CASE server.state = None
  BY <1>1, RealignGood DEF RunDueLoops, LoadedState
<1>2. CASE server.state # None /\ server.state.revision # server.definition.revision
  <2>1. server' = [server EXCEPT !.state = alignLoopRuntimeDefinition(server.state)] /\ requests' = requests
    BY <1>2 DEF RunDueLoops
  <2>2. server' = [server EXCEPT !.state = LoadedState]
    BY <1>2, <2>1 DEF LoadedState
  <2> QED BY <2>1, <2>2, RealignGood
<1>3. CASE server.state # None /\ server.state.revision = server.definition.revision
  <2> DEFINE state == [server.state EXCEPT !.next = NextScheduledTime(server.definition, @)]
  <2>1. Due /\ Claim(state) /\ requests' = requests \cup {Started(state)}
    BY <1>3 DEF RunDueLoops
  <2> QED BY <2>1, ClaimGood
<1> QED BY <1>1, <1>2, <1>3

-----------------------------------------------------------------------------
(* The whole system.                                                         *)

LEMMA WorkGood ==
  ASSUME LoopInv, Distinct, NEW c \in requests, Step(c) PROVE StepGood
BY NewInvocationGood, SavePreparedGood, CreateSessionGood, StartRunGood, AttachGood, MoveFrontierGood,
   SaveCancelledGood DEF Step

LEMMA EveryStepGood ==
  ASSUME LoopInv, Distinct, Next PROVE StepGood
<1>1. CASE Working
  BY <1>1, WorkGood DEF Working
<1>2. CASE Reading
  BY <1>2, ReconcileGood DEF Reading, GetInvocation
<1>3. CASE Executing
  BY <1>3, RunGood DEF Executing
<1>4. CASE RunDueLoops
  BY <1>4, DueGood
<1>5. CASE LoopRuntimeState
  BY <1>5, ReadGood
<1>6. CASE StartLoopInvocation
  BY <1>6, StartGood
<1>7. CASE UpdateLoop \/ Tick
  BY <1>7, TimeGood
<1>8. CASE Crash
  BY <1>8, CrashGood
<1>9. CASE \E c \in requests : StartFails(c)
  BY <1>9, ReturnGood
<1>10. CASE \E i \in Invocations : CancelLoopInvocation(i) \/ RunStops(i)
  BY <1>10, CancelGood, RunGood
<1> QED BY <1>1, <1>2, <1>3, <1>4, <1>5, <1>6, <1>7, <1>8, <1>9, <1>10 DEF Next

LEMMA InitGood ==
  ASSUME Distinct, Init PROVE LoopInv
<1>1. server = Fresh /\ requests = {}
  BY DEF Init
<1> DEFINE claimed == [d \in 1..MaxDays |-> 0]
           definition == [revision |-> 1, enabled |-> TRUE, daily |-> TRUE]
           empty == <<>>
<1>2. claimed \in [1..MaxDays -> Nat] /\ (\A d \in 1..MaxDays : claimed[d] = 0)
  OBVIOUS
<1>3. definition \in Definitions /\ 0 \in 0..MaxDays
  BY DEF Definitions, Distinct
<1>4. empty \in Seq(Records) /\ empty \in Seq(Nat) /\ empty \in Seq(RunStatuses \cup {None}) /\ Len(empty) = 0
  OBVIOUS
<1> HIDE DEF claimed, definition, empty
<1>5. server = [definition |-> definition, inv |-> empty, run |-> empty, state |-> None, day |-> 0,
                claimed |-> claimed, counted |-> empty, crossed |-> {}]
  BY <1>1 DEF Fresh, claimed, definition, empty
<1>6. server \in Server
  BY <1>2, <1>3, <1>4, <1>5 DEF Server
<1>7. /\ server.inv = empty /\ server.run = empty /\ server.counted = empty /\ server.state = None
      /\ server.claimed = claimed
  BY <1>5
<1>8. 1..Len(server.inv) = {} /\ Sized(server)
  BY <1>4, <1>7 DEF Sized
<1>9. Good(server, requests) /\ ScheduledInv(server, requests)
  BY <1>1, <1>6, <1>8 DEF Good, OneStartEach, ScheduledInv
<1>10. StateInv(server)
  BY <1>2, <1>7, <1>8 DEF StateInv
<1> QED BY <1>9, <1>10 DEF LoopInv, AllGood

LEMMA AlwaysGood ==
  ASSUME Distinct PROVE Spec => []LoopInv
<1>1. Init => LoopInv
  BY InitGood
<1>2. LoopInv /\ [Next]_vars => LoopInv'
  <2>1. LoopInv /\ Next => LoopInv'
    BY EveryStepGood DEF StepGood, LoopInv
  <2>2. LoopInv /\ UNCHANGED vars => LoopInv'
    BY DEF vars, LoopInv
  <2> QED BY <2>1, <2>2
<1> QED BY <1>1, <1>2, PTL DEF Spec

-----------------------------------------------------------------------------
(* What follows.                                                             *)

\* No occurrence of the schedule is claimed twice, however often the process dies
\* and the Loop is updated (RunDueLoops): a claimed occurrence lies before the next.
THEOREM ClaimedOnce ==
  ASSUME Distinct PROVE Spec => []OccurrenceOnce
<1>1. LoopInv => OccurrenceOnce
  BY DEF LoopInv, AllGood, StateInv, OccurrenceOnce
<1> QED BY <1>1, AlwaysGood, PTL

\* No invocation is counted twice in the runtime state, whatever ended between two
\* reads and whatever was not saved (LoopRuntimeState): the frontier is past it.
THEOREM ProjectedOnce ==
  ASSUME Distinct PROVE Spec => []CountedOnce
<1>1. LoopInv => CountedOnce
  BY DEF LoopInv, AllGood, Good, Server, StateInv, CountedOnce, Invocations
<1> QED BY <1>1, AlwaysGood, PTL

\* An invocation that is over and names its Run says how the Run ended, and what was
\* not verified is never completed, in every interleaving of starts, reads and
\* cancellations (reconcileInvocation).
THEOREM EndsLikeItsRun ==
  ASSUME Distinct PROVE Spec => []ReflectsItsRun
<1>1. LoopInv => ReflectsItsRun
  <2>1. LoopInv => Invocations = 1..Len(server.inv) /\ \A i \in 1..Len(server.inv) : RecordInv(server, i)
    BY DEF LoopInv, AllGood, Good, Server, Invocations
  <2> QED BY <2>1 DEF RecordInv, ReflectsItsRun
<1> QED BY <1>1, AlwaysGood, PTL

\* A Run that exists has an invocation that says so, whichever write was the last
\* before a crash, unless a cancellation crossed the start (startLoopInvocation).
THEOREM NoRunWithoutRecord ==
  ASSUME Distinct PROVE Spec => []RunIsRecorded
<1>1. LoopInv => RunIsRecorded
  BY DEF LoopInv, AllGood, Good, Server, RecordInv, RunIsRecorded, Invocations
<1> QED BY <1>1, AlwaysGood, PTL

\* No step leaves a terminal state of an invocation, unless a cancellation crossed
\* the start (Status, reconcileInvocation).
THEOREM FinalStates ==
  ASSUME Distinct PROVE Spec => FinalUnlessCrossed
<1>1. LoopInv => Invocations = 1..Len(server.inv)
  BY DEF LoopInv, AllGood, Good, Server, Invocations
<1>2. LoopInv /\ [Next]_vars => FinalStaysFinal \/ UNCHANGED vars
  <2>1. LoopInv /\ Next => FinalStaysFinal
    BY <1>1, EveryStepGood DEF StepGood, FinalKept, FinalStaysFinal
  <2> QED BY <2>1
<1> QED BY <1>2, AlwaysGood, PTL DEF Spec, FinalUnlessCrossed
=============================================================================
