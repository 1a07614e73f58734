---------------------------- MODULE ApprovalsProofs ----------------------------
(* What is proved of the approvals of a Run, for any number of requests, of     *)
(* calls under way, of launches and of crashes, and whatever stale copies are   *)
(* saved over the Session.                                                      *)
EXTENDS Approvals, TLAPS

-----------------------------------------------------------------------------
(* What the Runner and the broker hold.                                        *)

Decisions == {"approved", "denied"}
Statuses == Decisions \cup {"pending", "expired", "consumed"}
Kept == [Ids -> Statuses \cup {None}]
Counts == [Ids -> Nat]
Handling == {"asked", "waiting", "unheard", "woken", "decided", "consumed"}
Places == Handling \cup {"idle", "turn", "ending", "done"}
WaiterStates == {"open", "decided"}

\* The bounds that are counted up to.
BoundsAreNaturals == MaxRequests \in Nat /\ MaxLaunches \in Nat

\* None is told from a status and from a waiter.
Distinct == None \notin Statuses \cup WaiterStates

Server ==
  [disk : Kept, over : BOOLEAN, mine : Kept, at : Places, asked : {0} \cup Ids,
   told : Decisions \cup {None}, waiters : [Ids -> WaiterStates \cup {None}],
   past : SUBSET Ids, stopping : BOOLEAN, releases : Nat, launches : 0..MaxLaunches,
   overwritten : BOOLEAN, waits : Counts, delivered : Counts, approvals : Counts,
   effects : Counts]

Copies == [status : Kept, over : BOOLEAN]
Requests ==
  [request : {0} \cup Ids, approve : BOOLEAN, copy : Copies,
   next : {"expire", "launch", "lookup", "save", "deliver"}]

\* The Runner is parked on r and was told nothing yet.
Parked(s, r) == s.at = "waiting" /\ s.asked = r /\ s.told = None

\* The Runner goes towards a tool call on an approval of r that it was told of.
Spends(s, r) ==
  /\ s.asked = r
  /\ \/ s.at \in {"waiting", "woken"} /\ s.told = "approved"
     \/ s.at = "decided" /\ s.mine[r] = "approved"
     \/ s.at = "consumed"

\* Each wait has room for its answer, each approval for the call it allows.
AnswersInv(s) ==
  \A r \in Ids : s.delivered[r] + (IF Parked(s, r) THEN 1 ELSE 0) <= s.waits[r]
EffectsInv(s) ==
  \A r \in Ids : s.effects[r] + (IF Spends(s, r) THEN 1 ELSE 0) <= s.approvals[r]

ParkedInv(s) == \A r \in Ids : s.waiters[r] = "open" => Parked(s, r)

HandledInv(s) ==
  /\ s.at \in Handling => s.asked \in Ids
  /\ s.at = "woken" => s.told # None
  /\ s.at = "consumed" => s.disk[s.asked] = "consumed" \/ s.overwritten

GoodServer(s) ==
  /\ s \in Server /\ AnswersInv(s) /\ EffectsInv(s) /\ ParkedInv(s) /\ HandledInv(s)

ApprovalInv ==
  /\ GoodServer(server)
  /\ requests \subseteq Requests
  /\ \A q \in requests : q.next \in {"lookup", "save", "deliver"} => q.request \in Ids

-----------------------------------------------------------------------------
(* Steps of the Runner and of the broker.                                      *)

\* The history of waits, answers and calls is the same.
SameHistory(s, t) ==
  /\ t.waits = s.waits /\ t.delivered = s.delivered
  /\ t.approvals = s.approvals /\ t.effects = s.effects

\* A step without history: it may give up a wait or an approval, not gain one.
LEMMA Quiet ==
  ASSUME NEW s, NEW t, GoodServer(s), t \in Server, SameHistory(s, t),
         \A r \in Ids : Parked(t, r) => Parked(s, r),
         \A r \in Ids : Spends(t, r) => Spends(s, r),
         ParkedInv(t), HandledInv(t)
  PROVE  GoodServer(t)
<1>1. AnswersInv(t)
  <2> SUFFICES ASSUME NEW r \in Ids
               PROVE  t.delivered[r] + (IF Parked(t, r) THEN 1 ELSE 0) <= t.waits[r]
    BY DEF AnswersInv
  <2>1. s.delivered[r] \in Nat /\ s.waits[r] \in Nat
    BY DEF GoodServer, Server, Counts
  <2>2. s.delivered[r] + (IF Parked(s, r) THEN 1 ELSE 0) <= s.waits[r]
    BY DEF GoodServer, AnswersInv
  <2>3. CASE Parked(t, r)
    BY <2>1, <2>2, <2>3 DEF SameHistory
  <2>4. CASE ~Parked(t, r)
    BY <2>1, <2>2, <2>4 DEF SameHistory
  <2> QED BY <2>3, <2>4
<1>2. EffectsInv(t)
  <2> SUFFICES ASSUME NEW r \in Ids
               PROVE  t.effects[r] + (IF Spends(t, r) THEN 1 ELSE 0) <= t.approvals[r]
    BY DEF EffectsInv
  <2>1. s.effects[r] \in Nat /\ s.approvals[r] \in Nat
    BY DEF GoodServer, Server, Counts
  <2>2. s.effects[r] + (IF Spends(s, r) THEN 1 ELSE 0) <= s.approvals[r]
    BY DEF GoodServer, EffectsInv
  <2>3. CASE Spends(t, r)
    BY <2>1, <2>2, <2>3 DEF SameHistory
  <2>4. CASE ~Spends(t, r)
    BY <2>1, <2>2, <2>4 DEF SameHistory
  <2> QED BY <2>3, <2>4
<1> QED BY <1>1, <1>2 DEF GoodServer

\* A step to a place where the Runner handles no request, and has no waiter.
LEMMA Leaves ==
  ASSUME NEW s, NEW t, GoodServer(s), t \in Server, SameHistory(s, t),
         t.at \notin Handling, \A r \in Ids : t.waiters[r] # "open"
  PROVE  GoodServer(t)
<1>1. \A r \in Ids : ~Parked(t, r) /\ ~Spends(t, r)
  BY DEF Parked, Spends, Handling
<1>2. ParkedInv(t) /\ HandledInv(t)
  BY DEF ParkedInv, HandledInv, Handling
<1> QED BY <1>1, <1>2, Quiet

\* The Runner is not parked, so that the broker has no open waiter.
LEMMA NoneOpen ==
  ASSUME NEW s, GoodServer(s), s.at # "waiting" PROVE \A r \in Ids : s.waiters[r] # "open"
BY DEF GoodServer, ParkedInv, Parked

LEMMA ExpiredKept ==
  ASSUME NEW f \in Kept PROVE ExpireRunPending(f) \in Kept
BY DEF ExpireRunPending, Kept, Statuses, Undecided

LEMMA AskGood ==
  ASSUME Distinct, GoodServer(server), Ask PROVE GoodServer(server')
<1> DEFINE n == NewRequest
           mine == [server.mine EXCEPT ![n] = Undecided]
           past == server.past \ {n}
<1>1. server \in Server /\ n \in Ids /\ server.at = "turn"
  BY DEF GoodServer, Ask, At
<1>2. mine \in Kept /\ past \in SUBSET Ids
  BY <1>1 DEF Server, Kept, Undecided, Statuses
<1>3. server' = [[server EXCEPT !.mine[n] = Undecided, !.asked = n, !.past = @ \ {n}]
                   EXCEPT !.disk = mine, !.overwritten = FALSE, !.at = "asked"]
  BY <1>1 DEF Ask, Emit, Server
<1>4. server' = [server EXCEPT !.mine = mine, !.asked = n, !.past = past, !.disk = mine,
                               !.overwritten = FALSE, !.at = "asked"]
  BY <1>1, <1>3 DEF Server
<1> HIDE DEF n, mine, past
<1>5. server' \in Server
  BY <1>1, <1>2, <1>4 DEF Server, Places, Handling
<1>6. SameHistory(server, server') /\ server'.at = "asked" /\ server'.asked = n
      /\ server'.waiters = server.waiters
  BY <1>1, <1>4 DEF Server, SameHistory
<1>7. \A r \in Ids : ~Parked(server', r) /\ ~Spends(server', r)
  BY <1>6 DEF Parked, Spends
<1>8. ParkedInv(server') /\ HandledInv(server')
  BY <1>1, <1>6, NoneOpen DEF ParkedInv, HandledInv
<1> QED BY <1>5, <1>6, <1>7, <1>8, Quiet

LEMMA WaitGood ==
  ASSUME Distinct, GoodServer(server), Wait PROVE GoodServer(server')
<1> DEFINE r == server.asked
<1>1. server \in Server /\ r \in Ids /\ server.at = "asked"
  BY DEF GoodServer, Wait, At, HandledInv, Handling
<1>2. \A q \in Ids : server.waiters[q] # "open"
  BY <1>1, NoneOpen
<1>3. CASE server.waiters[r] # None
  <2>1. server' = [server EXCEPT !.at = "unheard"]
    BY <1>3 DEF Wait
  <2>2. server' \in Server
    BY <1>1, <2>1 DEF Server, Places, Handling
  <2>3. SameHistory(server, server') /\ server'.at = "unheard" /\ server'.asked = r
        /\ server'.waiters = server.waiters
    BY <1>1, <2>1 DEF Server, SameHistory
  <2>4. \A q \in Ids : ~Parked(server', q) /\ ~Spends(server', q)
    BY <2>3 DEF Parked, Spends
  <2>5. ParkedInv(server') /\ HandledInv(server')
    BY <1>1, <1>2, <2>3 DEF ParkedInv, HandledInv
  <2> QED BY <2>2, <2>3, <2>4, <2>5, Quiet
<1>4. CASE server.waiters[r] = None
  <2> DEFINE waiters == [server.waiters EXCEPT ![r] = "open"]
             waits == [server.waits EXCEPT ![r] = @ + 1]
  <2>1. server' = [server EXCEPT !.waiters = waiters, !.at = "waiting", !.told = None,
                                 !.waits = waits]
    BY <1>1, <1>4 DEF Wait, Server
  <2>2. waiters \in [Ids -> WaiterStates \cup {None}] /\ waits \in Counts
    BY <1>1 DEF Server, Counts, WaiterStates
  <2>3. /\ \A q \in Ids : waiters[q] = "open" => q = r
        /\ waits[r] = server.waits[r] + 1 /\ \A q \in Ids : q # r => waits[q] = server.waits[q]
    BY <1>1, <1>2 DEF Server, Counts
  <2> HIDE DEF waiters, waits
  <2>4. server' \in Server
    BY <1>1, <2>1, <2>2 DEF Server, Places, Handling
  <2>5. /\ server'.at = "waiting" /\ server'.asked = r /\ server'.told = None
        /\ server'.waiters = waiters /\ server'.waits = waits
        /\ server'.delivered = server.delivered
        /\ server'.approvals = server.approvals /\ server'.effects = server.effects
    BY <1>1, <2>1 DEF Server
  <2>6. AnswersInv(server')
    <3> SUFFICES ASSUME NEW q \in Ids
                 PROVE  server'.delivered[q] + (IF Parked(server', q) THEN 1 ELSE 0)
                          <= server'.waits[q]
      BY DEF AnswersInv
    <3>1. server.delivered[q] \in Nat /\ server.waits[q] \in Nat
      BY <1>1 DEF Server, Counts
    <3>2. server.delivered[q] <= server.waits[q]
      <4>1. ~Parked(server, q)
        BY <1>1 DEF Parked
      <4> QED BY <3>1, <4>1 DEF GoodServer, AnswersInv
    <3>3. CASE q = r
      BY <2>3, <2>5, <3>1, <3>2, <3>3
    <3>4. CASE q # r
      <4>1. ~Parked(server', q)
        BY <2>5, <3>4 DEF Parked
      <4> QED BY <2>3, <2>5, <3>1, <3>2, <3>4, <4>1
    <3> QED BY <3>3, <3>4
  <2>7. EffectsInv(server')
    <3> SUFFICES ASSUME NEW q \in Ids
                 PROVE  server'.effects[q] + (IF Spends(server', q) THEN 1 ELSE 0)
                          <= server'.approvals[q]
      BY DEF EffectsInv
    <3>1. ~Spends(server', q)
      BY <2>5 DEF Spends, Distinct, Statuses, Decisions
    <3>2. ~Spends(server, q)
      BY <1>1 DEF Spends
    <3> QED BY <2>5, <3>1, <3>2 DEF GoodServer, EffectsInv
  <2>8. ParkedInv(server') /\ HandledInv(server')
    BY <1>1, <2>3, <2>5 DEF ParkedInv, HandledInv, Parked
  <2> QED BY <2>4, <2>6, <2>7, <2>8 DEF GoodServer
<1> QED BY <1>3, <1>4

LEMMA HeardGood ==
  ASSUME Distinct, GoodServer(server), Heard PROVE GoodServer(server')
<1>1. /\ server \in Server /\ server.at = "waiting" /\ server.asked \in Ids
      /\ server.told # None /\ server' = [server EXCEPT !.at = "woken"]
  BY DEF GoodServer, Heard, At, HandledInv, Handling
<1>2. server' \in Server
  BY <1>1 DEF Server, Places, Handling
<1>3. /\ SameHistory(server, server') /\ server'.at = "woken" /\ server'.told = server.told
      /\ server'.asked = server.asked /\ server'.waiters = server.waiters
  BY <1>1 DEF Server, SameHistory
<1>4. \A r \in Ids : ~Parked(server', r) /\ (Spends(server', r) => Spends(server, r))
  BY <1>1, <1>3 DEF Parked, Spends
<1>5. \A r \in Ids : server'.waiters[r] # "open"
  BY <1>1, <1>3 DEF GoodServer, ParkedInv, Parked
<1>6. ParkedInv(server') /\ HandledInv(server')
  BY <1>1, <1>3, <1>5 DEF ParkedInv, HandledInv
<1> QED BY <1>2, <1>3, <1>4, <1>6, Quiet

LEMMA WaitEndsGood ==
  ASSUME Distinct, GoodServer(server), WaitEnds PROVE GoodServer(server')
<1> DEFINE r == server.asked
           waiters == [server.waiters EXCEPT ![r] = IF @ = "open" THEN None ELSE @]
<1>1. server \in Server /\ server.at = "waiting" /\ r \in Ids
  BY DEF GoodServer, WaitEnds, At, HandledInv, Handling
<1>2. server' = [server EXCEPT !.at = "unheard", !.waiters = waiters]
  BY <1>1 DEF WaitEnds, Server
<1>3. waiters \in [Ids -> WaiterStates \cup {None}] /\ \A q \in Ids : waiters[q] # "open"
  <2>1. \A q \in Ids : q # r => server.waiters[q] # "open"
    BY DEF GoodServer, ParkedInv, Parked
  <2>2. server.waiters \in [Ids -> WaiterStates \cup {None}]
    BY <1>1 DEF Server
  <2> QED BY <1>1, <2>1, <2>2 DEF WaiterStates, Distinct
<1> HIDE DEF waiters
<1>4. server' \in Server
  BY <1>1, <1>2, <1>3 DEF Server, Places, Handling
<1>5. /\ SameHistory(server, server') /\ server'.at = "unheard" /\ server'.asked = r
      /\ server'.waiters = waiters
  BY <1>1, <1>2 DEF Server, SameHistory
<1>6. \A q \in Ids : ~Parked(server', q) /\ ~Spends(server', q)
  BY <1>5 DEF Parked, Spends
<1>7. ParkedInv(server') /\ HandledInv(server')
  BY <1>1, <1>3, <1>5 DEF ParkedInv, HandledInv
<1> QED BY <1>4, <1>5, <1>6, <1>7, Quiet

\* One status in memory is set, and the Session stored.
LEMMA StatusStored ==
  ASSUME server \in Server, NEW r \in Ids, NEW v \in Statuses, NEW at \in Places,
         Emit([server EXCEPT !.mine[r] = v], at)
  PROVE  /\ server' \in Server /\ SameHistory(server, server') /\ server'.at = at
         /\ server'.asked = server.asked /\ server'.waiters = server.waiters
         /\ server'.disk[r] = v /\ server'.mine[r] = v
<1> DEFINE mine == [server.mine EXCEPT ![r] = v]
<1>1. mine \in Kept /\ mine[r] = v
  BY DEF Server, Kept
<1>2. [server EXCEPT !.mine[r] = v] = [server EXCEPT !.mine = mine]
  BY DEF Server
<1>3. [server EXCEPT !.mine[r] = v].mine = mine
  BY DEF Server
<1>4. server' = [[server EXCEPT !.mine = mine] EXCEPT !.disk = mine, !.overwritten = FALSE, !.at = at]
  BY <1>2, <1>3 DEF Emit
<1> HIDE DEF mine
<1>5. server' = [server EXCEPT !.mine = mine, !.disk = mine, !.overwritten = FALSE, !.at = at]
  BY <1>4 DEF Server
<1>6. server' \in Server
  BY <1>1, <1>5 DEF Server
<1>7. /\ SameHistory(server, server') /\ server'.at = at /\ server'.asked = server.asked
      /\ server'.waiters = server.waiters /\ server'.disk = mine /\ server'.mine = mine
  BY <1>5 DEF Server, SameHistory
<1> QED BY <1>1, <1>6, <1>7

\* The same without the store.
LEMMA StatusSet ==
  ASSUME server \in Server, NEW r \in Ids, NEW v \in Statuses, NEW at \in Places,
         server' = [server EXCEPT !.mine[r] = v, !.at = at]
  PROVE  /\ server' \in Server /\ SameHistory(server, server') /\ server'.at = at
         /\ server'.waiters = server.waiters
<1> DEFINE mine == [server.mine EXCEPT ![r] = v]
<1>1. mine \in Kept
  BY DEF Server, Kept
<1>2. server' = [server EXCEPT !.mine = mine, !.at = at]
  BY DEF Server
<1> HIDE DEF mine
<1> QED BY <1>1, <1>2 DEF Server, SameHistory

LEMMA UnheardGood ==
  ASSUME Distinct, GoodServer(server), Unheard PROVE GoodServer(server')
<1>1. server \in Server /\ server.at = "unheard" /\ server.asked \in Ids
  BY DEF GoodServer, Unheard, At, HandledInv, Handling
<1>2. \A q \in Ids : server.waiters[q] # "open"
  BY <1>1, NoneOpen
<1>3. CASE IsExpired(server.mine, server.asked)
  <2>1. Emit([server EXCEPT !.mine[server.asked] = "expired"], "turn")
    BY <1>3 DEF Unheard
  <2>2. "expired" \in Statuses /\ "turn" \in Places /\ "turn" \notin Handling
    BY DEF Statuses, Places, Handling
  <2> QED BY <1>1, <1>2, <2>1, <2>2, StatusStored, Leaves
<1>4. CASE ~IsExpired(server.mine, server.asked)
  <2>1. server' = [server EXCEPT !.at = "ending"]
    BY <1>4 DEF Unheard
  <2>2. server' \in Server /\ SameHistory(server, server') /\ server'.waiters = server.waiters
        /\ server'.at \notin Handling
    BY <1>1, <2>1 DEF Server, SameHistory, Places, Handling
  <2> QED BY <1>2, <2>2, Leaves
<1> QED BY <1>3, <1>4

LEMMA DecideGood ==
  ASSUME Distinct, GoodServer(server), Decide PROVE GoodServer(server')
<1> DEFINE r == server.asked
<1>1. server \in Server /\ server.at = "woken" /\ r \in Ids /\ server.told \in Decisions
  BY DEF GoodServer, Decide, At, HandledInv, Handling, Server
<1>2. \A q \in Ids : server.waiters[q] # "open"
  BY <1>1, NoneOpen
<1>3. CASE IsExpired(server.mine, r)
  <2>1. server' = [server EXCEPT !.mine[r] = "expired", !.at = "done"]
    BY <1>3 DEF Decide
  <2>2. "expired" \in Statuses /\ "done" \in Places /\ "done" \notin Handling
    BY DEF Statuses, Places, Handling
  <2>3. server' \in Server /\ SameHistory(server, server') /\ server'.at = "done"
        /\ server'.waiters = server.waiters
    BY <1>1, <2>1, <2>2, StatusSet
  <2> QED BY <1>2, <2>2, <2>3, Leaves
<1>4. CASE ~IsExpired(server.mine, r)
  <2> DEFINE told == server.told
  <2>1. Emit([server EXCEPT !.mine[r] = told], "decided")
    BY <1>4 DEF Decide
  <2>2. told \in Statuses /\ "decided" \in Places
    BY <1>1 DEF Statuses, Places, Handling
  <2> HIDE DEF told
  <2>3. /\ server' \in Server /\ SameHistory(server, server') /\ server'.at = "decided"
        /\ server'.asked = r /\ server'.waiters = server.waiters /\ server'.mine[r] = told
    BY <1>1, <2>1, <2>2, StatusStored
  <2>4. \A q \in Ids : ~Parked(server', q)
    BY <2>3 DEF Parked
  <2>5. ASSUME NEW q \in Ids, Spends(server', q) PROVE Spends(server, q)
    BY <1>1, <2>3, <2>5 DEF Spends, told
  <2>6. ParkedInv(server') /\ HandledInv(server')
    BY <1>1, <1>2, <2>3 DEF ParkedInv, HandledInv
  <2> QED BY <2>3, <2>4, <2>5, <2>6, Quiet
<1> QED BY <1>3, <1>4

LEMMA DeniedGood ==
  ASSUME Distinct, GoodServer(server), Denied PROVE GoodServer(server')
<1>1. server \in Server /\ server.at = "decided" /\ server' = [server EXCEPT !.at = "done"]
  BY DEF GoodServer, Denied, At
<1>2. \A q \in Ids : server.waiters[q] # "open"
  BY <1>1, NoneOpen
<1>3. server' \in Server /\ SameHistory(server, server') /\ server'.waiters = server.waiters
      /\ server'.at \notin Handling
  BY <1>1 DEF Server, SameHistory, Places, Handling
<1> QED BY <1>2, <1>3, Leaves

LEMMA ConsumeGood ==
  ASSUME Distinct, GoodServer(server), Consume PROVE GoodServer(server')
<1> DEFINE r == server.asked
<1>1. server \in Server /\ server.at = "decided" /\ r \in Ids /\ server.mine[r] = "approved"
  BY DEF GoodServer, Consume, At, HandledInv, Handling
<1>2. \A q \in Ids : server.waiters[q] # "open"
  BY <1>1, NoneOpen
<1>3. CASE r \in server.past
  <2>1. server' = [server EXCEPT !.mine[r] = "expired", !.at = "done"]
    BY <1>3 DEF Consume
  <2>2. "expired" \in Statuses /\ "done" \in Places /\ "done" \notin Handling
    BY DEF Statuses, Places, Handling
  <2>3. server' \in Server /\ SameHistory(server, server') /\ server'.at = "done"
        /\ server'.waiters = server.waiters
    BY <1>1, <2>1, <2>2, StatusSet
  <2> QED BY <1>2, <2>2, <2>3, Leaves
<1>4. CASE r \notin server.past
  <2>1. Emit([server EXCEPT !.mine[r] = "consumed"], "consumed")
    BY <1>4 DEF Consume
  <2>2. "consumed" \in Statuses /\ "consumed" \in Places
    BY DEF Statuses, Places, Handling
  <2>3. /\ server' \in Server /\ SameHistory(server, server') /\ server'.at = "consumed"
        /\ server'.asked = r /\ server'.waiters = server.waiters
        /\ server'.disk[r] = "consumed"
    BY <1>1, <2>1, <2>2, StatusStored
  <2>4. \A q \in Ids : ~Parked(server', q) /\ (Spends(server', q) => Spends(server, q))
    BY <1>1, <2>3 DEF Parked, Spends
  <2>5. ParkedInv(server') /\ HandledInv(server')
    BY <1>1, <1>2, <2>3 DEF ParkedInv, HandledInv
  <2> QED BY <2>3, <2>4, <2>5, Quiet
<1> QED BY <1>3, <1>4

LEMMA ToolGood ==
  ASSUME Distinct, GoodServer(server), executeTool PROVE GoodServer(server')
<1> DEFINE r == server.asked
           effects == [server.effects EXCEPT ![r] = @ + 1]
<1>1. server \in Server /\ server.at = "consumed" /\ r \in Ids
  BY DEF GoodServer, executeTool, At, HandledInv, Handling
<1>2. effects \in Counts /\ effects[r] = server.effects[r] + 1
      /\ \A q \in Ids : q # r => effects[q] = server.effects[q]
  BY <1>1 DEF Server, Counts
<1>3. server' = [server EXCEPT !.effects = effects, !.at = "done"]
  BY <1>1 DEF executeTool, Server
<1> HIDE DEF effects
<1>4. server' \in Server
  BY <1>1, <1>2, <1>3 DEF Server, Places, Handling
<1>5. /\ server'.at = "done" /\ server'.effects = effects /\ server'.waits = server.waits
      /\ server'.delivered = server.delivered /\ server'.approvals = server.approvals
      /\ server'.waiters = server.waiters
  BY <1>1, <1>3 DEF Server
<1>6. \A q \in Ids : ~Parked(server', q) /\ ~Spends(server', q) /\ ~Parked(server, q)
  BY <1>1, <1>5 DEF Parked, Spends
<1>7. AnswersInv(server')
  BY <1>5, <1>6 DEF GoodServer, AnswersInv
<1>8. EffectsInv(server')
  <2> SUFFICES ASSUME NEW q \in Ids
               PROVE  server'.effects[q] + (IF Spends(server', q) THEN 1 ELSE 0)
                        <= server'.approvals[q]
    BY DEF EffectsInv
  <2>1. server.effects[q] \in Nat /\ server.approvals[q] \in Nat
    BY <1>1 DEF Server, Counts
  <2>2. server.effects[q] + (IF Spends(server, q) THEN 1 ELSE 0) <= server.approvals[q]
    BY DEF GoodServer, EffectsInv
  <2>3. CASE q = r
    <3>1. Spends(server, q)
      BY <1>1, <2>3 DEF Spends
    <3> QED BY <1>2, <1>5, <1>6, <2>1, <2>2, <2>3, <3>1
  <2>4. CASE q # r
    <3>1. ~Spends(server, q)
      BY <2>4 DEF Spends
    <3> QED BY <1>2, <1>5, <1>6, <2>1, <2>2, <2>4, <3>1
  <2> QED BY <2>3, <2>4
<1>9. ParkedInv(server') /\ HandledInv(server')
  BY <1>1, <1>5, NoneOpen DEF ParkedInv, HandledInv, Handling
<1> QED BY <1>4, <1>7, <1>8, <1>9 DEF GoodServer

LEMMA CompletedGood ==
  ASSUME Distinct, GoodServer(server), ToolCompleted PROVE GoodServer(server')
<1>1. /\ server \in Server /\ server.at = "done"
      /\ server' = [server EXCEPT !.disk = server.mine, !.overwritten = FALSE, !.at = "turn"]
  BY DEF GoodServer, ToolCompleted, At, Emit
<1>2. server' \in Server /\ SameHistory(server, server') /\ server'.waiters = server.waiters
      /\ server'.at \notin Handling
  BY <1>1 DEF Server, SameHistory, Places, Handling
<1> QED BY <1>1, <1>2, Leaves, NoneOpen

\* The Runner returns, with its Session stored or not.
LEMMA ReturnsGood ==
  ASSUME Distinct, NEW s, GoodServer(s), \A r \in Ids : s.waiters[r] # "open",
         NEW u, u \in Server, SameHistory(s, u), \A r \in Ids : u.waiters[r] # "open"
  PROVE  GoodServer(Returns(u))
<1> DEFINE gone == [r \in Ids |-> None]
           t == [u EXCEPT !.at = "idle", !.mine = gone, !.asked = 0, !.told = None]
<1>1. gone \in Kept
  BY DEF Kept
<1>2. Returns(u) = t
  BY DEF Returns
<1> HIDE DEF gone
<1>3. t \in Server /\ SameHistory(s, t) /\ t.waiters = u.waiters /\ t.at \notin Handling
  BY <1>1 DEF Server, SameHistory, Places, Handling
<1> QED BY <1>2, <1>3, Leaves

LEMMA EndsGood ==
  ASSUME Distinct, GoodServer(server), server.at # "waiting", NEW over \in BOOLEAN, Ends(over)
  PROVE  GoodServer(server')
<1> DEFINE kept == ExpireRunPending(server.mine)
           releases == server.releases + 1
           u == [server EXCEPT !.disk = kept, !.over = over, !.overwritten = FALSE,
                               !.releases = releases]
<1>1. server \in Server /\ server.mine \in Kept
  BY DEF GoodServer, Server
<1>2. kept \in Kept /\ releases \in Nat
  BY <1>1, ExpiredKept DEF Server
<1>3. server' = Returns(u)
  BY DEF Ends
<1> HIDE DEF kept, releases
<1>4. u \in Server /\ SameHistory(server, u) /\ u.waiters = server.waiters
  BY <1>1, <1>2 DEF Server, SameHistory
<1> HIDE DEF u
<1> QED BY <1>3, <1>4, ReturnsGood, NoneOpen

LEMMA ReleaseGood ==
  ASSUME Distinct, GoodServer(server), Release PROVE GoodServer(server')
<1> DEFINE none == [r \in Ids |-> None]
           releases == server.releases - 1
<1>1. server \in Server /\ server' = [server EXCEPT !.releases = releases, !.waiters = none]
  BY DEF GoodServer, Release
<1>0. releases \in Nat
  BY DEF GoodServer, Server, Release
<1>2. none \in [Ids -> WaiterStates \cup {None}] /\ \A r \in Ids : none[r] # "open"
  BY DEF Distinct, WaiterStates
<1> HIDE DEF none, releases
<1>3. server' \in Server
  BY <1>0, <1>1, <1>2 DEF Server
<1>4. /\ SameHistory(server, server') /\ server'.waiters = none /\ server'.at = server.at
      /\ server'.asked = server.asked /\ server'.told = server.told
      /\ server'.mine = server.mine /\ server'.disk = server.disk
      /\ server'.overwritten = server.overwritten
  BY <1>1 DEF Server, SameHistory
<1>5. \A r \in Ids : (Parked(server', r) => Parked(server, r))
                     /\ (Spends(server', r) => Spends(server, r))
  BY <1>4 DEF Parked, Spends
<1>6. ParkedInv(server') /\ HandledInv(server')
  BY <1>2, <1>4 DEF ParkedInv, HandledInv, GoodServer
<1> QED BY <1>3, <1>4, <1>5, <1>6, Quiet

LEMMA WriteFailsGood ==
  ASSUME Distinct, GoodServer(server), WriteFails PROVE GoodServer(server')
<1> DEFINE u == [server EXCEPT !.releases = @ + 1]
<1>1. server \in Server /\ server.at # "waiting" /\ server' = Returns(u)
  BY DEF GoodServer, WriteFails
<1>2. u \in Server /\ SameHistory(server, u) /\ u.waiters = server.waiters
  BY <1>1 DEF Server, SameHistory
<1> HIDE DEF u
<1> QED BY <1>1, <1>2, ReturnsGood, NoneOpen

LEMMA CrashGood ==
  ASSUME Distinct, GoodServer(server), Crash PROVE GoodServer(server')
<1> DEFINE none == [r \in Ids |-> None]
           mine == [r \in Ids |-> None]
           t == [server EXCEPT !.waiters = none, !.releases = 0, !.at = "idle", !.mine = mine,
                               !.asked = 0, !.told = None]
<1>1. server \in Server
  BY DEF GoodServer
<1>2. none \in [Ids -> WaiterStates \cup {None}] /\ \A r \in Ids : none[r] # "open"
  BY DEF Distinct, WaiterStates
<1>3. mine \in Kept
  BY DEF Kept
<1>4. server' = [[server EXCEPT !.waiters = none, !.releases = 0]
                   EXCEPT !.at = "idle", !.mine = mine, !.asked = 0, !.told = None]
  BY DEF Crash, Returns
<1> HIDE DEF none, mine
<1>5. server' = t
  BY <1>1, <1>4 DEF Server
<1>6. t \in Server /\ SameHistory(server, t) /\ t.waiters = none /\ t.at \notin Handling
  BY <1>1, <1>2, <1>3 DEF Server, SameHistory, Places, Handling
<1> QED BY <1>2, <1>5, <1>6, Leaves

\* A step that leaves what the Runner handles: the order to stop, a deadline,
\* or an older copy stored over the Session.
LEMMA BesideGood ==
  ASSUME NEW s, GoodServer(s), NEW t, t \in Server, SameHistory(s, t), t.waiters = s.waiters,
         t.at = s.at, t.asked = s.asked, t.told = s.told, t.mine = s.mine,
         t.overwritten \/ (t.disk = s.disk /\ t.overwritten = s.overwritten)
  PROVE  GoodServer(t)
<1>1. \A r \in Ids : (Parked(t, r) <=> Parked(s, r)) /\ (Spends(t, r) <=> Spends(s, r))
  BY DEF Parked, Spends
<1>2. ParkedInv(t) /\ HandledInv(t)
  BY <1>1 DEF GoodServer, ParkedInv, HandledInv
<1> QED BY <1>1, <1>2, Quiet

LEMMA StoredGood ==
  ASSUME Distinct, GoodServer(server), NEW copy \in Copies, NEW status \in Kept,
         Stores(copy, status)
  PROVE  GoodServer(server')
<1>1. /\ server \in Server /\ copy.over \in BOOLEAN
      /\ server' = [server EXCEPT !.disk = status, !.over = copy.over, !.overwritten = TRUE]
  BY DEF GoodServer, Stores, Copies
<1>2. server' \in Server
  BY <1>1 DEF Server
<1>3. /\ SameHistory(server, server') /\ server'.waiters = server.waiters
      /\ server'.at = server.at /\ server'.asked = server.asked /\ server'.told = server.told
      /\ server'.mine = server.mine /\ server'.overwritten
  BY <1>1 DEF Server, SameHistory
<1> QED BY <1>2, <1>3, BesideGood

LEMMA InterruptGood ==
  ASSUME Distinct, GoodServer(server), Interrupt PROVE GoodServer(server')
<1>1. server \in Server /\ server' = [server EXCEPT !.stopping = TRUE]
  BY DEF GoodServer, Interrupt
<1>2. server' \in Server
  BY <1>1 DEF Server
<1>3. /\ SameHistory(server, server') /\ server'.waiters = server.waiters
      /\ server'.at = server.at /\ server'.asked = server.asked /\ server'.told = server.told
      /\ server'.mine = server.mine /\ server'.disk = server.disk
      /\ server'.overwritten = server.overwritten
  BY <1>1 DEF Server, SameHistory
<1> QED BY <1>2, <1>3, BesideGood

LEMMA DeadlineGood ==
  ASSUME Distinct, GoodServer(server), NEW r \in Ids, Deadline(r) PROVE GoodServer(server')
<1> DEFINE past == server.past \cup {r}
<1>1. server \in Server /\ server' = [server EXCEPT !.past = past]
  BY DEF GoodServer, Deadline
<1>2. past \in SUBSET Ids
  BY <1>1 DEF Server
<1> HIDE DEF past
<1>3. server' \in Server
  BY <1>1, <1>2 DEF Server
<1>4. /\ SameHistory(server, server') /\ server'.waiters = server.waiters
      /\ server'.at = server.at /\ server'.asked = server.asked /\ server'.told = server.told
      /\ server'.mine = server.mine /\ server'.disk = server.disk
      /\ server'.overwritten = server.overwritten
  BY <1>1 DEF Server, SameHistory
<1> QED BY <1>3, <1>4, BesideGood

LEMMA LaunchGood ==
  ASSUME Distinct, BoundsAreNaturals, GoodServer(server), NEW q \in Requests, Launch(q)
  PROVE  GoodServer(server')
<1> DEFINE launches == server.launches + 1
<1>1. server \in Server /\ q.copy.status \in Kept /\ q.copy.over \in BOOLEAN
  BY DEF GoodServer, Requests, Copies
<1>2. CASE server.at # "idle" \/ server.launches = MaxLaunches
  BY <1>2 DEF Launch
<1>3. CASE server.at = "idle" /\ server.launches # MaxLaunches
  <2>1. server' = [server EXCEPT !.disk = q.copy.status, !.mine = q.copy.status,
                                 !.over = q.copy.over, !.overwritten = FALSE, !.at = "turn",
                                 !.stopping = FALSE, !.launches = launches]
    BY <1>3 DEF Launch
  <2>2. launches \in 0..MaxLaunches
    BY <1>1, <1>3 DEF Server, BoundsAreNaturals
  <2> HIDE DEF launches
  <2>3. server' \in Server
    BY <1>1, <2>1, <2>2 DEF Server, Places
  <2>4. SameHistory(server, server') /\ server'.waiters = server.waiters
        /\ server'.at \notin Handling
    BY <1>1, <2>1 DEF Server, SameHistory, Handling
  <2> QED BY <1>3, <2>3, <2>4, Leaves, NoneOpen
<1> QED BY <1>2, <1>3

LEMMA DeliverGood ==
  ASSUME Distinct, GoodServer(server), NEW q \in Requests, q.request \in Ids, deliver(q)
  PROVE  GoodServer(server')
<1> DEFINE r == q.request
           told == Decision(q.approve)
           waiters == [server.waiters EXCEPT ![r] = "decided"]
           delivered == [server.delivered EXCEPT ![r] = @ + 1]
           approvals == [server.approvals EXCEPT ![r] = IF q.approve THEN @ + 1 ELSE @]
<1>1. server \in Server /\ r \in Ids /\ q.approve \in BOOLEAN
  BY DEF GoodServer, Requests
<1>2. CASE ~MayDeliver(r)
  BY <1>2 DEF deliver
<1>3. CASE MayDeliver(r)
  <2>1. Parked(server, r) /\ \A p \in Ids : p # r => server.waiters[p] # "open"
    BY <1>1, <1>3 DEF GoodServer, ParkedInv, MayDeliver, Parked
  <2>2. server' = [server EXCEPT !.waiters = waiters, !.told = told, !.delivered = delivered,
                                 !.approvals = approvals]
    BY <1>1, <1>3 DEF deliver, Server
  <2>3. /\ waiters \in [Ids -> WaiterStates \cup {None}] /\ waiters[r] = "decided"
        /\ \A p \in Ids : p # r => waiters[p] = server.waiters[p]
    BY <1>1 DEF Server, WaiterStates
  <2>4. /\ delivered \in Counts /\ delivered[r] = server.delivered[r] + 1
        /\ \A p \in Ids : p # r => delivered[p] = server.delivered[p]
    BY <1>1 DEF Server, Counts
  <2>5. /\ approvals \in Counts
        /\ approvals[r] = IF q.approve THEN server.approvals[r] + 1 ELSE server.approvals[r]
        /\ \A p \in Ids : p # r => approvals[p] = server.approvals[p]
    BY <1>1 DEF Server, Counts
  <2>6. told \in Decisions /\ (told = "approved" => q.approve)
    BY <1>1 DEF Decision, Decisions
  <2> HIDE DEF told, waiters, delivered, approvals
  <2>7. server' \in Server
    BY <1>1, <2>2, <2>3, <2>4, <2>5, <2>6 DEF Server
  <2>8. /\ server'.at = "waiting" /\ server'.asked = r /\ server'.told = told
        /\ server'.waiters = waiters /\ server'.waits = server.waits
        /\ server'.delivered = delivered /\ server'.approvals = approvals
        /\ server'.effects = server.effects
    BY <1>1, <2>1, <2>2 DEF Server, Parked
  <2>9. told # None
    BY <2>6 DEF Distinct, Statuses, Decisions
  <2>10. \A p \in Ids : ~Parked(server', p) /\ (p # r => ~Spends(server', p) /\ ~Parked(server, p))
    BY <2>1, <2>8, <2>9 DEF Parked, Spends
  <2>11. AnswersInv(server')
    <3> SUFFICES ASSUME NEW p \in Ids PROVE server'.delivered[p] <= server'.waits[p]
      BY <2>7, <2>10 DEF AnswersInv, Server, Counts
    <3>1. server.delivered[p] \in Nat /\ server.waits[p] \in Nat
          /\ server.delivered[p] + (IF Parked(server, p) THEN 1 ELSE 0) <= server.waits[p]
      BY <1>1 DEF Server, Counts, GoodServer, AnswersInv
    <3>2. CASE p = r
      BY <2>1, <2>4, <2>8, <3>1, <3>2
    <3>3. CASE p # r
      BY <2>4, <2>8, <2>10, <3>1, <3>3
    <3> QED BY <3>2, <3>3
  <2>12. EffectsInv(server')
    <3> SUFFICES ASSUME NEW p \in Ids
                 PROVE  server'.effects[p] + (IF Spends(server', p) THEN 1 ELSE 0)
                          <= server'.approvals[p]
      BY DEF EffectsInv
    <3>1. server.effects[p] \in Nat /\ server.approvals[p] \in Nat
          /\ server.effects[p] <= server.approvals[p]
      <4>1. server.effects[p] \in Nat /\ server.approvals[p] \in Nat
        BY <1>1 DEF Server, Counts
      <4>2. server.effects[p] + (IF Spends(server, p) THEN 1 ELSE 0) <= server.approvals[p]
        BY DEF GoodServer, EffectsInv
      <4> QED BY <4>1, <4>2
    <3>2. CASE p = r
      <4>1. Spends(server', p) => q.approve
        BY <2>6, <2>8 DEF Spends
      <4>2. CASE q.approve
        BY <2>5, <2>8, <3>1, <3>2, <4>2
      <4>3. CASE ~q.approve
        BY <2>5, <2>8, <3>1, <3>2, <4>1, <4>3
      <4> QED BY <4>2, <4>3
    <3>3. CASE p # r
      BY <2>5, <2>8, <2>10, <3>1, <3>3
    <3> QED BY <3>2, <3>3
  <2>13. ParkedInv(server') /\ HandledInv(server')
    <3>1. \A p \in Ids : waiters[p] # "open"
      BY <2>1, <2>3
    <3> QED BY <1>1, <2>8, <3>1 DEF ParkedInv, HandledInv
  <2> QED BY <2>7, <2>11, <2>12, <2>13 DEF GoodServer
<1> QED BY <1>2, <1>3

-----------------------------------------------------------------------------
(* The steps.                                                                  *)

LoadedInv(some) ==
  /\ some \subseteq Requests
  /\ \A q \in some : q.next \in {"lookup", "save", "deliver"} => q.request \in Ids

LEMMA LoadedIsCopy == ASSUME GoodServer(server) PROVE Loaded \in Copies
BY DEF GoodServer, Server, Loaded, Copies

\* A call goes on with its next stage, or returns.
LEMMA SwapGood ==
  ASSUME LoadedInv(requests), NEW q \in requests,
         NEW new, new \in Requests, new.request = q.request,
         new.next \in {"launch", "expire"} \/ q.request \in Ids,
         Swap(q, new)
  PROVE  LoadedInv(requests')
BY DEF LoadedInv, Swap, Requests

LEMMA AnsweredGood ==
  ASSUME LoadedInv(requests), NEW q \in requests, Answered(q) PROVE LoadedInv(requests')
BY DEF LoadedInv, Answered

LEMMA InitGood == ASSUME Distinct, BoundsAreNaturals, Init PROVE ApprovalInv
<1> DEFINE none == [r \in Ids |-> None]
           zero == [r \in Ids |-> 0]
<1>1. server = [disk |-> none, over |-> FALSE, mine |-> none, at |-> "idle", asked |-> 0,
                told |-> None, waiters |-> none, past |-> {}, stopping |-> FALSE,
                releases |-> 0, launches |-> 0, overwritten |-> FALSE, waits |-> zero,
                delivered |-> zero, approvals |-> zero, effects |-> zero]
  BY DEF Init, Fresh
<1>2. /\ none \in Kept /\ none \in [Ids -> WaiterStates \cup {None}] /\ zero \in Counts
      /\ \A r \in Ids : none[r] # "open" /\ zero[r] = 0
  BY DEF Kept, Counts, Distinct, WaiterStates
<1> HIDE DEF none, zero
<1>3. server \in Server
  BY <1>1, <1>2 DEF Server, Places, BoundsAreNaturals
<1>4. \A r \in Ids : ~Parked(server, r) /\ ~Spends(server, r)
  BY <1>1 DEF Parked, Spends
<1>5. AnswersInv(server) /\ EffectsInv(server)
  <2>1. /\ server.waits = zero /\ server.delivered = zero /\ server.approvals = zero
        /\ server.effects = zero
    BY <1>1
  <2>2. \A r \in Ids : zero[r] = 0
    BY <1>2
  <2> QED BY <1>4, <2>1, <2>2 DEF AnswersInv, EffectsInv
<1>6. ParkedInv(server) /\ HandledInv(server)
  BY <1>1, <1>2 DEF ParkedInv, HandledInv, Handling
<1> QED BY <1>3, <1>5, <1>6 DEF ApprovalInv, GoodServer, Init

LEMMA RunnerStep ==
  ASSUME Distinct, GoodServer(server),
         Working \/ Release \/ Ask \/ Finish \/ StoppedBetween \/ WriteFails \/ Interrupt
           \/ Crash \/ \E r \in Ids : Deadline(r)
  PROVE  GoodServer(server')
<1>1. CASE Wait \/ Heard \/ WaitEnds \/ Unheard
  BY <1>1, WaitGood, HeardGood, WaitEndsGood, UnheardGood
<1>2. CASE Decide \/ Denied \/ Consume \/ executeTool \/ ToolCompleted
  BY <1>2, DecideGood, DeniedGood, ConsumeGood, ToolGood, CompletedGood
<1>3. CASE Stopped \/ Finish \/ StoppedBetween
  <2>1. PICK over \in BOOLEAN : Ends(over)
    BY <1>3 DEF Stopped, Finish, StoppedBetween
  <2>2. server.at # "waiting"
    BY <1>3 DEF Stopped, Finish, StoppedBetween, At
  <2> QED BY <2>1, <2>2, EndsGood
<1>4. CASE Release \/ Ask \/ WriteFails \/ Interrupt \/ Crash
  BY <1>4, ReleaseGood, AskGood, WriteFailsGood, InterruptGood, CrashGood
<1>5. CASE \E r \in Ids : Deadline(r)
  BY <1>5, DeadlineGood
<1> QED BY <1>1, <1>2, <1>3, <1>4, <1>5 DEF Working

LEMMA RunnerKeepsCalls ==
  ASSUME LoadedInv(requests),
         Working \/ Release \/ Ask \/ Finish \/ StoppedBetween \/ WriteFails \/ Interrupt
           \/ Crash \/ \E r \in Ids : Deadline(r)
  PROVE  LoadedInv(requests')
<1>1. requests' = requests \/ requests' = {}
  BY DEF Working, Wait, Heard, WaitEnds, Unheard, Decide, Denied, Consume, executeTool,
         ToolCompleted, Stopped, Release, Ask, Finish, StoppedBetween, WriteFails, Interrupt,
         Crash, Deadline, At
<1> QED BY <1>1 DEF LoadedInv

LEMMA CallGood ==
  ASSUME Distinct, BoundsAreNaturals, GoodServer(server), LoadedInv(requests), CallStep
  PROVE  GoodServer(server') /\ LoadedInv(requests')
<1>1. PICK q \in requests :
        ExpiresPending(q) \/ Launch(q) \/ waiterFor(q) \/ deliver(q) \/ Save(q)
  BY DEF CallStep
<1>2. q \in Requests /\ q.copy \in Copies /\ q.copy.status \in Kept
  BY DEF LoadedInv, Requests, Copies
<1>3. CASE ExpiresPending(q)
  <2> DEFINE kept == ExpireRunPending(q.copy.status)
             new == [q EXCEPT !.next = "launch", !.copy.status = kept]
  <2>1. kept \in Kept
    BY <1>2, ExpiredKept
  <2>2. Swap(q, new) /\ (server' = server \/ Stores(q.copy, kept))
    BY <1>3 DEF ExpiresPending
  <2> HIDE DEF kept
  <2>3. new \in Requests /\ new.request = q.request /\ new.next = "launch"
    BY <1>2, <2>1 DEF Requests, Copies
  <2> HIDE DEF new
  <2>4. LoadedInv(requests')
    BY <2>2, <2>3, SwapGood
  <2> QED BY <1>2, <2>1, <2>2, <2>4, StoredGood
<1>4. CASE Launch(q)
  <2>1. Answered(q)
    BY <1>4 DEF Launch
  <2> QED BY <1>2, <1>4, <2>1, LaunchGood, AnsweredGood
<1>5. CASE waiterFor(q)
  <2>1. server' = server /\ q.request \in Ids
    BY <1>5 DEF waiterFor, LoadedInv
  <2>2. CASE Answered(q)
    BY <2>1, <2>2, AnsweredGood
  <2>3. ASSUME NEW next \in {"save", "deliver"}, Swap(q, [q EXCEPT !.next = next])
        PROVE  LoadedInv(requests')
    <3> DEFINE new == [q EXCEPT !.next = next]
    <3>1. new \in Requests /\ new.request = q.request
      BY <1>2 DEF Requests
    <3> HIDE DEF new
    <3> QED BY <2>1, <2>3, <3>1, SwapGood DEF new
  <2>4. \/ Answered(q)
        \/ Swap(q, [q EXCEPT !.next = "save"])
        \/ Swap(q, [q EXCEPT !.next = "deliver"])
    BY <1>5 DEF waiterFor
  <2> QED BY <2>1, <2>2, <2>3, <2>4
<1>6. CASE deliver(q)
  <2>1. q.request \in Ids /\ Answered(q)
    BY <1>6 DEF deliver, LoadedInv
  <2> QED BY <1>2, <1>6, <2>1, DeliverGood, AnsweredGood
<1>7. CASE Save(q)
  <2> DEFINE v == IF IsExpired(q.copy.status, q.request) THEN "expired" ELSE Decision(q.approve)
             status == [q.copy.status EXCEPT ![q.request] = v]
  <2>1. v \in Statuses
    BY DEF Decision, Statuses, Decisions
  <2>2. Answered(q) /\ (server' = server \/ Stores(q.copy, status))
    BY <1>7 DEF Save
  <2> HIDE DEF v
  <2>3. status \in Kept
    BY <1>2, <2>1 DEF Kept
  <2> HIDE DEF status
  <2> QED BY <1>2, <2>2, <2>3, StoredGood, AnsweredGood
<1> QED BY <1>1, <1>3, <1>4, <1>5, <1>6, <1>7

LEMMA NewCallGood ==
  ASSUME GoodServer(server), LoadedInv(requests),
         ResumeLoads \/ \E r \in Ids : \E approve \in BOOLEAN : Load(r, approve)
  PROVE  server' = server /\ LoadedInv(requests')
<1>1. Loaded \in Copies
  BY LoadedIsCopy
<1>2. CASE ResumeLoads
  <2> DEFINE q == [request |-> 0, approve |-> FALSE, copy |-> Loaded, next |-> "expire"]
  <2>1. q \in Requests /\ q.next = "expire"
    BY <1>1 DEF Requests
  <2>2. server' = server /\ requests' = requests \cup {q}
    BY <1>2 DEF ResumeLoads, Calls
  <2> HIDE DEF q
  <2> QED BY <2>1, <2>2 DEF LoadedInv
<1>3. CASE \E r \in Ids : \E approve \in BOOLEAN : Load(r, approve)
  <2>1. PICK r \in Ids : \E approve \in BOOLEAN : Load(r, approve)
    BY <1>3
  <2>2. PICK approve \in BOOLEAN : Load(r, approve)
    BY <2>1
  <2> DEFINE q == [request |-> r, approve |-> approve, copy |-> Loaded, next |-> "lookup"]
  <2>3. q \in Requests /\ q.request \in Ids
    BY <1>1 DEF Requests
  <2>4. server' = server /\ requests' = requests \cup {q}
    BY <2>2 DEF Load, Calls
  <2> HIDE DEF q
  <2> QED BY <2>3, <2>4 DEF LoadedInv
<1> QED BY <1>2, <1>3

LEMMA StepGood ==
  ASSUME Distinct, BoundsAreNaturals, ApprovalInv, [Next]_vars PROVE ApprovalInv'
<1>1. GoodServer(server) /\ LoadedInv(requests)
  BY DEF ApprovalInv, LoadedInv
<1>2. GoodServer(server') /\ LoadedInv(requests')
  <2>1. CASE Working \/ Release \/ Ask \/ Finish \/ StoppedBetween \/ WriteFails \/ Interrupt
               \/ Crash \/ \E r \in Ids : Deadline(r)
    BY <1>1, <2>1, RunnerStep, RunnerKeepsCalls
  <2>2. CASE CallStep
    BY <1>1, <2>2, CallGood
  <2>3. CASE ResumeLoads \/ \E r \in Ids : \E approve \in BOOLEAN : Load(r, approve)
    BY <1>1, <2>3, NewCallGood
  <2>4. CASE UNCHANGED vars
    BY <1>1, <2>4 DEF vars
  <2> QED BY <2>1, <2>2, <2>3, <2>4 DEF Next
<1> QED BY <1>2 DEF ApprovalInv, LoadedInv

LEMMA AlwaysGood == ASSUME Distinct, BoundsAreNaturals PROVE Spec => []ApprovalInv
<1>1. Init => ApprovalInv
  BY InitGood
<1>2. ApprovalInv /\ [Next]_vars => ApprovalInv'
  BY StepGood
<1> QED BY <1>1, <1>2, PTL DEF Spec

-----------------------------------------------------------------------------
(* The theorems.                                                               *)

\* A tool call that needs approval runs only on an approval that its Runner was
\* told of, and never twice on one, whatever crashes, resumes and stale saves
\* come between (awaitApproval).
THEOREM OneCallPerApproval ==
  ASSUME Distinct, BoundsAreNaturals PROVE Spec => []OneEffectPerApproval
<1>1. ApprovalInv => OneEffectPerApproval
  <2> SUFFICES ASSUME ApprovalInv, NEW r \in Ids
               PROVE  server.effects[r] <= server.approvals[r]
    BY DEF OneEffectPerApproval
  <2>1. server.effects[r] \in Nat /\ server.approvals[r] \in Nat
    BY DEF ApprovalInv, GoodServer, Server, Counts
  <2>2. server.effects[r] + (IF Spends(server, r) THEN 1 ELSE 0) <= server.approvals[r]
    BY DEF ApprovalInv, GoodServer, EffectsInv
  <2> QED BY <2>1, <2>2
<1> QED BY <1>1, AlwaysGood, PTL

\* A wait is answered at most once: of two decisions about a request one is
\* delivered (approvalBroker deliver).
THEOREM DeliveredOnce ==
  ASSUME Distinct, BoundsAreNaturals PROVE Spec => []HeardOnce
<1>1. ApprovalInv => HeardOnce
  <2> SUFFICES ASSUME ApprovalInv, NEW r \in Ids
               PROVE  server.delivered[r] <= server.waits[r]
    BY DEF HeardOnce
  <2>1. server.delivered[r] \in Nat /\ server.waits[r] \in Nat
    BY DEF ApprovalInv, GoodServer, Server, Counts
  <2>2. server.delivered[r] + (IF Parked(server, r) THEN 1 ELSE 0) <= server.waits[r]
    BY DEF ApprovalInv, GoodServer, AnswersInv
  <2> QED BY <2>1, <2>2
<1> QED BY <1>1, AlwaysGood, PTL

\* The broker holds an undecided waiter only while its Runner is parked on that
\* request (approvalBroker Wait and Release).
THEOREM NoWaiterOutlivesItsRun ==
  ASSUME Distinct, BoundsAreNaturals PROVE Spec => []WaitersHaveRunners
<1>1. ApprovalInv => WaitersHaveRunners
  BY DEF ApprovalInv, GoodServer, ParkedInv, Parked, WaitersHaveRunners
<1> QED BY <1>1, AlwaysGood, PTL

\* The tool runs after its consumption was stored (awaitApproval), and only an
\* older copy that a call saved since can have taken it off the disk.
LEMMA ToolsAreConsumed ==
  ASSUME Distinct, BoundsAreNaturals, ApprovalInv, [Next]_vars PROVE OnlyConsumed
<1> SUFFICES ASSUME NEW r \in Ids, server'.effects[r] > server.effects[r]
             PROVE  server.disk[r] = "consumed" \/ server.overwritten
  BY DEF OnlyConsumed
<1>1. server \in Server /\ server.effects[r] \in Nat
  BY DEF ApprovalInv, GoodServer, Server, Counts
<1>2. CASE executeTool
  <2>1. server.at = "consumed" /\ server.asked \in Ids
    BY <1>2 DEF ApprovalInv, GoodServer, HandledInv, Handling, executeTool, At
  <2>2. server'.effects = [server.effects EXCEPT ![server.asked] = @ + 1]
    BY <1>1, <1>2 DEF executeTool, Server
  <2>3. r = server.asked
    BY <1>1, <2>1, <2>2 DEF Server, Counts
  <2> QED BY <2>1, <2>3 DEF ApprovalInv, GoodServer, HandledInv
<1>3. CASE ~executeTool
  <2>1. server'.effects = server.effects
    <3>1. CASE Wait \/ Heard \/ WaitEnds \/ Unheard \/ Decide \/ Denied \/ Consume
      BY <1>1, <3>1 DEF Wait, Heard, WaitEnds, Unheard, Decide, Denied, Consume, Emit, Server
    <3>2. CASE ToolCompleted \/ Stopped \/ Release \/ Ask \/ Finish \/ StoppedBetween
      BY <1>1, <3>2 DEF ToolCompleted, Stopped, Release, Ask, Finish, StoppedBetween, Ends,
                        Returns, Emit, Server
    <3>3. CASE WriteFails \/ Interrupt \/ Crash \/ \E q \in Ids : Deadline(q)
      BY <1>1, <3>3 DEF WriteFails, Interrupt, Crash, Deadline, Returns, Server
    <3>4. CASE ResumeLoads \/ \E q \in Ids : \E approve \in BOOLEAN : Load(q, approve)
      BY <3>4 DEF ResumeLoads, Load
    <3>5. CASE CallStep
      <4>1. PICK q \in requests :
              ExpiresPending(q) \/ Launch(q) \/ waiterFor(q) \/ deliver(q) \/ Save(q)
        BY <3>5 DEF CallStep
      <4> QED BY <1>1, <4>1 DEF ExpiresPending, Launch, waiterFor, deliver, Save, Stores, Server
    <3>6. CASE UNCHANGED vars
      BY <3>6 DEF vars
    <3> QED BY <1>3, <3>1, <3>2, <3>3, <3>4, <3>5, <3>6 DEF Next, Working
  <2> QED BY <1>1, <2>1
<1> QED BY <1>2, <1>3

\* "The approval is durably consumed before the side effect runs".
THEOREM ConsumedIsDurable ==
  ASSUME Distinct, BoundsAreNaturals PROVE Spec => ConsumedBeforeEffect
<1>1. ApprovalInv /\ [Next]_vars => [OnlyConsumed]_vars
  BY ToolsAreConsumed
<1> QED BY <1>1, AlwaysGood, PTL DEF Spec, ConsumedBeforeEffect
=============================================================================
