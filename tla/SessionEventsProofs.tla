-------------------------- MODULE SessionEventsProofs --------------------------
(* What is proved of the Session page and its event stream, for every number *)
(* of events, pieces of text and faults and every capacity of a channel.     *)
EXTENDS SessionEvents, SequenceTheorems, TLAPS

-----------------------------------------------------------------------------
(* The log and what is on its way.                                           *)

Events == [run : Nat, kind : Kinds]

\* The Run of the latest event.
Latest == IF log = <<>> THEN 0 ELSE log[Len(log)].run

\* Runs are numbered in the order they begin.
LogInv ==
  /\ log \in Seq(Events)
  /\ \A k \in 1..Len(log) : log[k].run \in 1..k
  /\ \A j, k \in 1..Len(log) : j <= k => log[j].run <= log[k].run

Messages ==
  [seq : Nat, run : Nat, kind : Kinds]
    \cup [kind : {"delta"}, run : Nat, piece : Nat] \cup [kind : {"bad"}]

\* The stream carries what the server committed.
WireInv ==
  /\ wire \in Seq(Messages)
  /\ link # "open" => wire = <<>>
  /\ \A i \in 1..Len(wire) : wire[i].kind \in Kinds =>
       wire[i].seq \in 1..Len(log) /\ wire[i] = Payload(wire[i].seq)

\* Nothing is ahead of the log, and the page is subscribed once it shows something.
PositionInv ==
  /\ deltas \in Nat
  /\ after \in 0..Len(log) /\ lastId \in 0..Len(log) /\ highWater \in 0..Len(log)
  /\ stored \in 0..Len(log) /\ shown \in Unread..Len(log) /\ current \in NoRequest..Len(log)
  /\ current >= 0 => shown <= current
  /\ link = "none" <=> shown = Unread
  /\ shown = Unread => status = "connected"
  /\ post \in [op : {"none", "start", "cancel", "done"}, run : Nat]
  /\ post.op = "cancel" => post.run # 0

StreamInv == LogInv /\ WireInv /\ PositionInv

\* A stream sends every event after the mark that it does not pass over, each
\* once and in order.
IsEvent(i) == i \in 1..Len(wire) /\ wire[i].kind \in Kinds

OrderInv ==
  /\ after <= highWater /\ lastId <= highWater
  /\ \A i, j \in 1..Len(wire) : IsEvent(i) /\ IsEvent(j) /\ i < j => wire[i].seq < wire[j].seq
  /\ link = "open" =>
       \A k \in (highWater+1..Len(log)) \ missed :
         \E i \in 1..Len(wire) : IsEvent(i) /\ wire[i].seq = k

-----------------------------------------------------------------------------
(* Coverage. *)

\* MarkedIsCovered with a failure that a new request has not yet forgotten.
CoveredInv ==
  shown # Unread =>
    \A k \in (1..highWater) \ missed : Refreshing(log[k]) =>
      k <= shown \/ current = Unread \/ current >= k \/ (failed /\ current = NoRequest)

-----------------------------------------------------------------------------
(* The committed events.                                                     *)

\* What a commit appends: an event of the Run that executes, or the first of
\* a new one (commitAndPublish).
Appends(run, kind) ==
  /\ Commit(run, kind) /\ kind \in Kinds
  /\ (Now # 0 /\ run = Now) \/ (MayBegin /\ run = Len(log) + 1)
  /\ UNCHANGED <<deltas, link, after, lastId, highWater, hadError, invalid, status,
                 stored, filter, text, page>>

\* Every step either appends an event or leaves the log alone.
LEMMA StepLog ==
  ASSUME PositionInv, [Next]_vars, ~(\E run, kind : Appends(run, kind))
  PROVE  log' = log
<1> "begin" \in Kinds /\ "note" \in Kinds /\ "end" \in Kinds
  BY DEF Kinds
<1>1. CASE Progress
  BY <1>1 DEF Progress, Appends
<1>2. CASE StartElsewhere
  BY <1>2 DEF StartElsewhere, Appends
<1>3. CASE Serve
  BY <1>3 DEF Serve, Appends, MayBegin, PositionInv
<1> QED BY <1>1, <1>2, <1>3
        DEF Next, vars, Delta, Garbage, Read, Arrive, ArriveLate, RequestFails, Recovered,
            Revisit, OtherTab, Submit, Cancel, Answer, Opened, Lost, ReceiveBad,
            ReceiveDelta, ReceiveEvent, Reconnect, Render

LEMMA NowIsLatest == LogInv => Now \in {0, Latest} /\ Latest \in 0..Len(log)
<1> SUFFICES ASSUME LogInv PROVE Now \in {0, Latest} /\ Latest \in 0..Len(log)
  OBVIOUS
<1>1. Len(log) \in Nat /\ (log # <<>> => Len(log) >= 1)
  BY EmptySeq, LenProperties DEF LogInv
<1>2. CASE log = <<>>
  BY <1>2, EmptySeq DEF Now, Active, Latest
<1>3. CASE log # <<>>
  BY <1>1, <1>3 DEF LogInv, Now, Active, Latest
<1> QED BY <1>2, <1>3

LEMMA Appended1 ==
  ASSUME LogInv, NEW run, NEW kind, Appends(run, kind)
  PROVE  /\ LogInv' /\ Len(log) \in Nat /\ Len(log') = Len(log) + 1
         /\ \A k \in 1..Len(log) : log'[k] = log[k]
         /\ log'[Len(log) + 1] = [run |-> run, kind |-> kind]
         /\ Latest' = run /\ run \in 1..Len(log) + 1 /\ Latest <= run
         /\ kind \in Kinds
<1>1. Len(log) \in Nat /\ kind \in Kinds
  BY LenProperties DEF LogInv, Appends
<1>2. run \in 1..Len(log) + 1 /\ Latest <= run
  BY <1>1, NowIsLatest DEF Appends
<1> DEFINE e == [run |-> run, kind |-> kind]
<1>3. e \in Events /\ log' = Append(log, e)
  BY <1>1, <1>2 DEF Events, Appends, Commit
<1>4. /\ log' \in Seq(Events) /\ Len(log') = Len(log) + 1
      /\ \A k \in 1..Len(log) : log'[k] = log[k]
      /\ log'[Len(log) + 1] = e
  BY <1>1, <1>3, AppendProperties DEF LogInv
<1>5. ASSUME NEW j \in 1..Len(log'), NEW k \in 1..Len(log'), j <= k
      PROVE  log'[k].run \in 1..k /\ log'[j].run <= log'[k].run
  <2>1. CASE k \in 1..Len(log)
    BY <1>1, <1>4, <1>5, <2>1 DEF LogInv
  <2>2. CASE k = Len(log) + 1
    <3>1. log'[k].run = run
      BY <1>4, <2>2
    <3>2. j \in 1..Len(log) => log'[j].run <= Latest
      <4> SUFFICES ASSUME j \in 1..Len(log) PROVE log[j].run <= Latest
        BY <1>4
      <4>1. log # <<>> /\ Len(log) \in 1..Len(log)
        BY <1>1, EmptySeq
      <4> QED BY <4>1 DEF LogInv, Latest
    <3>3. log'[j].run \in Nat /\ Latest \in Nat
      BY <1>1, <1>4, <2>2, <3>1, <1>2, NowIsLatest DEF LogInv
    <3> QED BY <1>1, <1>2, <1>4, <2>2, <3>1, <3>2, <3>3
  <2> QED BY <1>1, <1>4, <2>1, <2>2
<1>6. \A k \in 1..Len(log') : k <= k
  BY <1>1, <1>4
<1>7. LogInv'
  BY <1>4, <1>5, <1>6 DEF LogInv
<1>8. Latest' = run
  <2>1. log' # <<>>
    BY <1>1, <1>4, EmptySeq
  <2> QED BY <1>4, <2>1 DEF Latest
<1> QED BY <1>1, <1>2, <1>4, <1>7, <1>8

-----------------------------------------------------------------------------
(* The stream.                                                               *)

\* A stream that gets one message more.
LEMMA WireAppended ==
  ASSUME WireInv, NEW m \in Messages, wire' = Append(wire, m)
  PROVE  /\ wire' \in Seq(Messages) /\ Len(wire) \in Nat /\ Len(wire') = Len(wire) + 1
         /\ \A i \in 1..Len(wire) : wire'[i] = wire[i]
         /\ wire'[Len(wire) + 1] = m
BY AppendProperties, LenProperties DEF WireInv

\* A stream whose first message is received.
LEMMA WireReceived ==
  ASSUME WireInv, wire # <<>>, wire' = Tail(wire)
  PROVE  /\ wire' \in Seq(Messages) /\ Len(wire') \in Nat /\ Len(wire) = Len(wire') + 1
         /\ \A i \in 1..Len(wire') : wire'[i] = wire[i + 1]
         /\ Head(wire) = wire[1] /\ 1 \in 1..Len(wire) /\ Head(wire) \in Messages
         /\ link = "open"
<1>1. /\ wire' \in Seq(Messages) /\ Len(wire') = Len(wire) - 1
      /\ \A i \in 1..Len(wire') : wire'[i] = wire[i + 1]
      /\ Head(wire) \in Messages
  BY HeadTailProperties DEF WireInv
<1>2. Len(wire) \in Nat /\ Len(wire) >= 1 /\ link = "open"
  BY EmptySeq DEF WireInv
<1>3. Head(wire) = wire[1]
  BY <1>2 DEF WireInv
<1> QED BY <1>1, <1>2, <1>3

\* The history of the log since p.
LEMMA HistoryFaithful ==
  ASSUME LogInv, NEW p \in 0..Len(log)
  PROVE  /\ History(p) \in Seq(Messages) /\ Len(History(p)) = Len(log) - p
         /\ \A i \in 1..Len(History(p)) :
              /\ History(p)[i] = Payload(p + i) /\ History(p)[i].kind \in Kinds
              /\ History(p)[i].seq = p + i /\ p + i \in 1..Len(log)
<1>1. Len(log) \in Nat /\ Len(log) - p \in Nat
  BY LenProperties DEF LogInv
<1>2. ASSUME NEW k \in 1..Len(log)
      PROVE  Payload(k) \in Messages /\ Payload(k).kind \in Kinds /\ Payload(k).seq = k
  <2>1. log[k] \in Events
    BY ElementOfSeq DEF LogInv
  <2>2. log[k].run \in Nat /\ log[k].kind \in Kinds
    BY <2>1 DEF Events
  <2>3. Payload(k) \in [seq : Nat, run : Nat, kind : Kinds]
    BY <2>2 DEF Payload
  <2> QED BY <2>2, <2>3 DEF Messages, Payload
<1>3. \A i \in 1..(Len(log) - p) : p + i \in 1..Len(log)
  BY <1>1
<1>4. History(p) \in [1..(Len(log) - p) -> Messages]
  BY <1>2, <1>3 DEF History
<1>5. History(p) \in Seq(Messages)
  BY <1>1, <1>4, SeqDef
<1>6. Len(History(p)) = Len(log) - p
  BY <1>1, <1>4, <1>5, LenProperties
<1>7. ASSUME NEW i \in 1..(Len(log) - p)
      PROVE  History(p)[i] = Payload(p + i)
  BY DEF History
<1> QED BY <1>2, <1>3, <1>5, <1>6, <1>7

LEMMA InitStream == Init => StreamInv
<1> SUFFICES ASSUME Init PROVE StreamInv
  OBVIOUS
<1>1. log = <<>> /\ wire = <<>> /\ Len(<<>>) = 0
  BY EmptySeq DEF Init
<1>2. <<>> \in Seq(Events) /\ <<>> \in Seq(Messages)
  BY EmptySeq
<1>3. LogInv /\ WireInv
  BY <1>1, <1>2 DEF LogInv, WireInv
<1> QED BY <1>1, <1>3
        DEF Init, StreamInv, PositionInv, Unread, NoRequest, NoText, Idle

LEMMA AppendStream ==
  ASSUME StreamInv, NEW run, NEW kind, Appends(run, kind),
         post' \in [op : {"none", "start", "cancel", "done"}, run : Nat],
         post'.op = "cancel" => post'.run # 0
  PROVE  StreamInv'
<1>1. /\ LogInv' /\ Len(log) \in Nat /\ Len(log') = Len(log) + 1
      /\ \A k \in 1..Len(log) : log'[k] = log[k]
      /\ log'[Len(log) + 1] = [run |-> run, kind |-> kind]
      /\ run \in 1..Len(log) + 1 /\ kind \in Kinds
  BY Appended1 DEF StreamInv
<1>2. /\ UNCHANGED <<link, after, lastId, highWater, status, stored, shown, current,
                     deltas>>
      /\ \/ wire' = wire
         \/ /\ link = "open"
            /\ wire' = Append(wire, [seq |-> Len(log) + 1, run |-> run, kind |-> kind])
  BY DEF Appends, Commit, Published, page
<1>3. PositionInv'
  BY <1>1, <1>2 DEF StreamInv, PositionInv, Unread, NoRequest
<1>4. \A k \in 1..Len(log) : Payload(k)' = Payload(k)
  BY <1>1 DEF Payload
<1>5. CASE wire' = wire
  <2>1. \A k \in 1..Len(log) : k \in 1..Len(log')
    BY <1>1
  <2>2. WireInv'
    BY <1>2, <1>4, <1>5, <2>1 DEF StreamInv, WireInv
  <2> QED BY <1>1, <1>3, <2>2 DEF StreamInv
<1>6. CASE link = "open" /\ wire' =
             Append(wire, [seq |-> Len(log) + 1, run |-> run, kind |-> kind])
  <2> DEFINE m == [seq |-> Len(log) + 1, run |-> run, kind |-> kind]
  <2>1. m \in Messages /\ m = Payload(Len(log))' /\ m.seq = Len(log')
    <3>1. Payload(Len(log))' = [seq |-> Len(log'), run |-> log'[Len(log')].run,
                                kind |-> log'[Len(log')].kind]
      BY DEF Payload
    <3>2. m \in [seq : Nat, run : Nat, kind : Kinds]
      BY <1>1
    <3> QED BY <1>1, <3>1, <3>2 DEF Messages
  <2>2. /\ wire' \in Seq(Messages) /\ Len(wire) \in Nat /\ Len(wire') = Len(wire) + 1
        /\ \A i \in 1..Len(wire) : wire'[i] = wire[i]
        /\ wire'[Len(wire) + 1] = m
    BY <1>2, <1>6, <2>1, WireAppended DEF StreamInv
  <2>3. ASSUME NEW i \in 1..Len(wire'), wire'[i].kind \in Kinds
        PROVE  wire'[i].seq \in 1..Len(log') /\ wire'[i] = Payload(wire[i].seq)'
    <3>1. CASE i \in 1..Len(wire)
      <4>1. wire'[i] = wire[i] /\ wire[i].seq \in 1..Len(log) /\ wire[i] = Payload(wire[i].seq)
        BY <2>2, <2>3, <3>1 DEF StreamInv, WireInv
      <4> QED BY <1>1, <4>1 DEF Payload
    <3>2. CASE i = Len(wire) + 1
      <4>1. wire'[i] = m /\ wire'[i].seq = Len(log')
        BY <2>1, <2>2, <3>2
      <4>2. Payload(wire[i].seq)' = Payload(Len(log))'
        BY <4>1 DEF Payload
      <4> QED BY <1>1, <2>1, <4>1, <4>2
    <3> QED BY <2>2, <3>1, <3>2
  <2>4. WireInv'
    BY <1>2, <1>6, <2>2, <2>3 DEF WireInv
  <2> QED BY <1>1, <1>3, <2>4 DEF StreamInv
<1> QED BY <1>2, <1>5, <1>6

\* The five things that become of the stream while the log stays.
LEMMA WireKept ==
  ASSUME WireInv, log' = log, wire' = wire, link' = link
  PROVE  WireInv'
BY DEF WireInv, Payload

LEMMA WireDropped ==
  ASSUME log' = log, wire' = <<>>
  PROVE  WireInv'
<1>1. wire' \in Seq(Messages) /\ Len(wire') = 0
  BY EmptySeq
<1> QED BY <1>1 DEF WireInv

LEMMA WireLonger ==
  ASSUME WireInv, log' = log, link = "open", link' = link,
         NEW m \in Messages, m.kind \notin Kinds, wire' = Append(wire, m)
  PROVE  WireInv'
<1>1. /\ wire' \in Seq(Messages) /\ Len(wire) \in Nat /\ Len(wire') = Len(wire) + 1
      /\ \A i \in 1..Len(wire) : wire'[i] = wire[i]
      /\ wire'[Len(wire) + 1] = m
  BY WireAppended
<1>2. \A i \in 1..Len(wire') : i \in 1..Len(wire) \/ i = Len(wire) + 1
  BY <1>1
<1> QED BY <1>1, <1>2 DEF WireInv, Payload

LEMMA WireShorter ==
  ASSUME WireInv, log' = log, link' = link, wire # <<>>, wire' = Tail(wire)
  PROVE  WireInv'
<1>1. /\ wire' \in Seq(Messages) /\ Len(wire') \in Nat /\ Len(wire) = Len(wire') + 1
      /\ \A i \in 1..Len(wire') : wire'[i] = wire[i + 1]
      /\ link = "open"
  BY WireReceived
<1>2. \A i \in 1..Len(wire') : i + 1 \in 1..Len(wire)
  BY <1>1
<1> QED BY <1>1, <1>2 DEF WireInv, Payload

LEMMA WireOpened ==
  ASSUME LogInv, log' = log, link' = "open", NEW p \in 0..Len(log), wire' = History(p)
  PROVE  WireInv'
<1>1. /\ wire' \in Seq(Messages)
      /\ \A i \in 1..Len(wire') :
           wire'[i] = Payload(p + i) /\ wire'[i].seq = p + i /\ p + i \in 1..Len(log)
  BY HistoryFaithful
<1> QED BY <1>1 DEF WireInv, Payload

LEMMA StepStream == StreamInv /\ [Next]_vars => StreamInv'
<1> SUFFICES ASSUME StreamInv, [Next]_vars PROVE StreamInv'
  OBVIOUS
<1> USE DEF StreamInv
<1>1. CASE \E run, kind : Appends(run, kind)
  <2>1. PICK run, kind : Appends(run, kind)
    BY <1>1
  <2>2. log' # log
    <3>1. Len(log) \in Nat /\ Len(log') = Len(log) + 1
      BY <2>1, Appended1
    <3> QED BY <3>1
  <2>3. \/ post' = post
        \/ post' = [post EXCEPT !.op = "done"]
    BY <2>2
       DEF Next, vars, Progress, StartElsewhere, Serve, Delta, Garbage, Read, Arrive,
           ArriveLate, RequestFails, Recovered, Revisit, OtherTab, Submit, Cancel, Answer,
           Opened, Lost, ReceiveBad, ReceiveDelta, ReceiveEvent, Reconnect, Render
  <2>4. /\ post' \in [op : {"none", "start", "cancel", "done"}, run : Nat]
        /\ post'.op = "cancel" => post'.run # 0
    BY <2>3 DEF PositionInv
  <2> QED BY <2>1, <2>4, AppendStream
<1>2. CASE ~(\E run, kind : Appends(run, kind))
  <2>1. log' = log
    BY <1>2, StepLog
  <2>2. LogInv' /\ Len(log) \in Nat
    BY <2>1, LenProperties DEF LogInv
  <2> USE <2>1, <2>2
  <2>4. CASE UNCHANGED <<link, wire, after, lastId, highWater, stored, shown, current,
                         status, post, deltas>>
    BY <2>4, WireKept DEF PositionInv
  <2>5. CASE Delta
    <3> DEFINE m == [kind |-> "delta", run |-> Now, piece |-> deltas + 1]
    <3>1. m \in Messages /\ m.kind \notin Kinds
      <4>1. Now \in Nat
        BY NowIsLatest
      <4>2. m \in [kind : {"delta"}, run : Nat, piece : Nat]
        BY <4>1 DEF PositionInv
      <4> QED BY <4>2 DEF Messages, Kinds
    <3>2. link' = link /\ (wire' = wire \/ (link = "open" /\ wire' = Append(wire, m)))
      BY <2>5 DEF Delta, Published
    <3>3. WireInv'
      BY <3>1, <3>2, WireKept, WireLonger
    <3>4. PositionInv'
      BY <2>5 DEF Delta, PositionInv, page
    <3> QED BY <3>3, <3>4
  <2>6. CASE Garbage
    <3>1. [kind |-> "bad"] \in Messages /\ [kind |-> "bad"].kind \notin Kinds
      BY DEF Messages, Kinds
    <3>2. WireInv'
      BY <2>6, <3>1, WireLonger DEF Garbage
    <3>3. PositionInv'
      BY <2>6 DEF Garbage, PositionInv, page
    <3> QED BY <3>2, <3>3
  <2>7. CASE Read
    <3>1. WireInv'
      BY <2>7, WireKept DEF Read, stream
    <3>2. PositionInv'
      BY <2>7 DEF Read, PositionInv, stream, Unread, NoRequest
    <3> QED BY <3>1, <3>2
  <2>8. CASE Arrive
    <3>1. /\ current >= 0 /\ shown' = current /\ current' = NoRequest
          /\ UNCHANGED <<deltas, post>>
      BY <2>8 DEF Arrive, Subscribe
    <3>2. CASE link = "none"
      <4>1. /\ link' = "connecting" /\ wire' = <<>> /\ after' = Validated(current)
            /\ lastId' = 0 /\ highWater' = Validated(current)
            /\ stored' = Validated(current)
        BY <2>8, <3>2 DEF Arrive, Subscribe
      <4>2. Validated(current) \in 0..Len(log)
        BY DEF Validated, PositionInv
      <4>3. PositionInv'
        BY <3>1, <4>1, <4>2 DEF PositionInv, Unread, NoRequest
      <4> QED BY <4>1, <4>3, WireDropped
    <3>3. CASE link # "none"
      <4>1. UNCHANGED <<link, wire, after, lastId, highWater, stored>>
        BY <2>8, <3>3 DEF Arrive, Subscribe, stream
      <4>2. PositionInv'
        BY <3>1, <3>3, <4>1 DEF PositionInv, Unread, NoRequest
      <4> QED BY <4>1, <4>2, WireKept
    <3> QED BY <3>2, <3>3
  <2>9. CASE ArriveLate
    BY <2>9, <2>4 DEF ArriveLate, stream
  <2>10. CASE RequestFails
    <3>1. WireInv'
      BY <2>10, WireKept DEF RequestFails, stream
    <3>2. PositionInv'
      BY <2>10 DEF RequestFails, PositionInv, stream, NoRequest
    <3> QED BY <3>1, <3>2
  <2>11. CASE Recovered
    <3>1. WireInv'
      BY <2>11, WireKept DEF Recovered, stream
    <3>2. PositionInv'
      BY <2>11 DEF Recovered, Request, PositionInv, stream, NoRequest, Unread
    <3> QED BY <3>1, <3>2
  <2>12. CASE Revisit
    <3>1. WireInv'
      BY <2>12, WireDropped DEF Revisit
    <3>2. PositionInv'
      BY <2>12 DEF Revisit, PositionInv, NoRequest, Unread
    <3> QED BY <3>1, <3>2
  <2>13. CASE OtherTab
    <3>1. WireInv'
      BY <2>13, WireKept DEF OtherTab, stream
    <3>2. PositionInv'
      BY <2>13 DEF OtherTab, PositionInv, stream, page
    <3> QED BY <3>1, <3>2
  <2>14. CASE Submit \/ Cancel
    <3>1. WireInv'
      BY <2>14, WireKept DEF Submit, Cancel, stream
    <3>2. UNCHANGED <<link, after, lastId, highWater, stored, shown, current, status, deltas>>
      BY <2>14 DEF Submit, Cancel, stream, page
    <3>3. /\ post' \in [op : {"none", "start", "cancel", "done"}, run : Nat]
          /\ post'.op = "cancel" => post'.run # 0
      <4>1. CASE Submit
        BY <4>1 DEF Submit
      <4>2. CASE Cancel
        <5>1. Active(shown) # 0 /\ post' = [op |-> "cancel", run |-> Active(shown)]
          BY <4>2 DEF Cancel
        <5>2. shown \in 1..Len(log) /\ Active(shown) = log[shown].run
          BY <5>1 DEF PositionInv, Active, Unread
        <5>3. Active(shown) \in Nat
          BY <5>2 DEF LogInv
        <5> QED BY <5>1, <5>3
      <4> QED BY <2>14, <4>1, <4>2
    <3>4. PositionInv'
      BY <3>2, <3>3 DEF PositionInv
    <3> QED BY <3>1, <3>4
  <2>15. CASE Serve
    <3>1. UNCHANGED <<link, after, lastId, highWater, stored, shown, current, status, deltas>>
      BY <2>15 DEF Serve, page
    <3>2. post' = Idle /\ wire' = wire
      <4>1. ~Appends(Len(log) + 1, "begin") /\ ~Appends(Now, "end")
        BY <1>2
      <4>2. post.op = "cancel" => post.run # 0
        BY DEF PositionInv
      <4> QED BY <2>15, <4>1, <4>2 DEF Serve, Appends, Kinds
    <3>3. WireInv'
      BY <3>1, <3>2, WireKept
    <3>4. PositionInv'
      BY <3>1, <3>2 DEF PositionInv, Idle
    <3> QED BY <3>3, <3>4
  <2>16. CASE Answer
    <3>1. WireInv'
      BY <2>16, WireKept DEF Answer, stream
    <3>2. PositionInv'
      BY <2>16 DEF Answer, Request, PositionInv, stream, NoRequest, Unread, Idle
    <3> QED BY <3>1, <3>2
  <2>17. CASE Opened
    <3>1. (IF lastId > after THEN lastId ELSE after) \in 0..Len(log)
      BY DEF PositionInv
    <3>2. WireInv'
      BY <2>17, <3>1, WireOpened DEF Opened
    <3>3. /\ UNCHANGED <<after, lastId, highWater, stored, shown, deltas, post>>
          /\ link # "none" /\ link' = "open"
          /\ current' \in {current, Unread}
      BY <2>17 DEF Opened, Request
    <3>4. PositionInv'
      BY <3>3 DEF PositionInv, NoRequest, Unread
    <3> QED BY <3>2, <3>4
  <2>18. CASE Lost
    <3>1. WireInv'
      BY <2>18, WireDropped DEF Lost
    <3>2. PositionInv'
      BY <2>18 DEF Lost, PositionInv, page
    <3> QED BY <3>1, <3>2
  <2>19. CASE ReceiveBad
    <3>1. link = "open"
      BY <2>19 DEF ReceiveBad, WireInv
    <3>2. WireInv'
      <4>1. CASE wire' = <<>>
        BY <4>1, WireDropped
      <4>2. CASE wire' # <<>>
        BY <2>19, <4>2, WireShorter DEF ReceiveBad
      <4> QED BY <4>1, <4>2
    <3>3. PositionInv'
      BY <2>19, <3>1 DEF ReceiveBad, PositionInv, page
    <3> QED BY <3>2, <3>3
  <2>20. CASE ReceiveDelta
    <3>1. link = "open"
      BY <2>20 DEF ReceiveDelta, WireInv
    <3>2. WireInv'
      BY <2>20, WireShorter DEF ReceiveDelta
    <3>3. PositionInv'
      BY <2>20, <3>1 DEF ReceiveDelta, PositionInv, page
    <3> QED BY <3>2, <3>3
  <2>21. CASE ReceiveEvent
    <3> DEFINE q == Head(wire)
    <3>1. WireInv'
      BY <2>21, WireShorter DEF ReceiveEvent
    <3>2. q = wire[1] /\ 1 \in 1..Len(wire) /\ link = "open"
      BY <2>21, WireReceived DEF ReceiveEvent
    <3>3. q.seq \in 1..Len(log)
      BY <2>21, <3>2 DEF ReceiveEvent, WireInv
    <3>4. /\ UNCHANGED <<after, shown, deltas, post, link, status>>
          /\ lastId' = q.seq /\ highWater' \in {highWater, q.seq}
          /\ stored' \in {stored, q.seq} /\ current' \in {current, Unread}
      BY <2>21 DEF ReceiveEvent, Request
    <3>5. PositionInv'
      BY <3>2, <3>3, <3>4 DEF PositionInv, NoRequest, Unread
    <3> QED BY <3>1, <3>5
  <2>22. CASE Reconnect
    <3>1. WireInv'
      BY <2>22, WireDropped DEF Reconnect
    <3>2. PositionInv'
      BY <2>22 DEF Reconnect, PositionInv, page
    <3> QED BY <3>1, <3>2
  <2>23. CASE Progress \/ StartElsewhere
    <3>1. Len(log') # Len(log)
      BY <2>23, AppendProperties DEF Progress, StartElsewhere, Commit
    <3> QED BY <3>1
  <2>24. CASE Render \/ UNCHANGED vars
    BY <2>24, <2>4 DEF Render, vars, stream, page
  <2> QED BY <2>5, <2>6, <2>7, <2>8, <2>9, <2>10, <2>11, <2>12, <2>13, <2>14, <2>15, <2>16,
             <2>17, <2>18, <2>19, <2>20, <2>21, <2>22, <2>23, <2>24 DEF Next
<1> QED BY <1>1, <1>2

-----------------------------------------------------------------------------
(* Order.                                                                    *)

LEMMA OrderAppended ==
  ASSUME StreamInv, OrderInv, NEW run, NEW kind, Appends(run, kind)
  PROVE  OrderInv'
<1>1. /\ Len(log) \in Nat /\ Len(log') = Len(log) + 1 /\ kind \in Kinds
      /\ run \in 1..Len(log) + 1 /\ Len(wire) \in Nat
  BY Appended1, LenProperties DEF StreamInv, WireInv
<1>2. /\ UNCHANGED <<link, after, lastId, highWater>>
      /\ \/ wire' = wire /\ (link = "open" => missed' = missed \cup {Len(log) + 1})
         \/ /\ link = "open" /\ missed \subseteq missed'
            /\ wire' = Append(wire, [seq |-> Len(log) + 1, run |-> run, kind |-> kind])
  BY DEF Appends, Commit, Published, Skipped
<1>3. after' <= highWater' /\ lastId' <= highWater'
  BY <1>2 DEF OrderInv
<1>4. CASE wire' = wire /\ (link = "open" => missed' = missed \cup {Len(log) + 1})
  <2>1. \A k \in 1..Len(wire) : IsEvent(k)' = IsEvent(k)
    BY <1>4 DEF IsEvent
  <2>2. ASSUME link = "open", NEW k \in (highWater+1..Len(log')) \ missed'
        PROVE  \E i \in 1..Len(wire) : IsEvent(i) /\ wire[i].seq = k
    <3>1. k \in (highWater+1..Len(log)) \ missed
      BY <1>1, <1>4, <2>2 DEF StreamInv, PositionInv
    <3> QED BY <2>2, <3>1 DEF OrderInv
  <2> QED BY <1>2, <1>3, <1>4, <2>1, <2>2 DEF OrderInv, IsEvent
<1>5. CASE /\ link = "open" /\ missed \subseteq missed'
           /\ wire' = Append(wire, [seq |-> Len(log) + 1, run |-> run, kind |-> kind])
  <2> DEFINE m == [seq |-> Len(log) + 1, run |-> run, kind |-> kind]
  <2>1. m \in Messages /\ m.kind \in Kinds /\ m.seq = Len(log) + 1
    <3>1. m \in [seq : Nat, run : Nat, kind : Kinds]
      BY <1>1
    <3> QED BY <1>1, <3>1 DEF Messages
  <2>2. /\ Len(wire') = Len(wire) + 1
        /\ \A i \in 1..Len(wire) : wire'[i] = wire[i]
        /\ wire'[Len(wire) + 1] = m
    BY <1>2, <1>5, <2>1, WireAppended DEF StreamInv
  <2>3. \A i \in 1..Len(wire) : IsEvent(i)' = IsEvent(i)
    BY <1>1, <2>2 DEF IsEvent
  <2>4. ASSUME NEW i \in 1..Len(wire'), NEW j \in 1..Len(wire'),
               IsEvent(i)', IsEvent(j)', i < j
        PROVE  wire'[i].seq < wire'[j].seq
    <3>1. i \in 1..Len(wire) /\ IsEvent(i) /\ wire'[i] = wire[i]
      BY <1>1, <2>2, <2>3, <2>4
    <3>2. wire[i].seq \in 1..Len(log)
      BY <3>1 DEF StreamInv, WireInv, IsEvent
    <3>3. CASE j \in 1..Len(wire)
      BY <2>2, <2>3, <2>4, <3>1, <3>3 DEF OrderInv
    <3>4. CASE j = Len(wire) + 1
      BY <1>1, <2>1, <2>2, <3>1, <3>2, <3>4
    <3> QED BY <1>1, <2>2, <3>3, <3>4
  <2>5. ASSUME NEW k \in (highWater+1..Len(log')) \ missed'
        PROVE  \E i \in 1..Len(wire') : IsEvent(i)' /\ wire'[i].seq = k
    <3>1. highWater \in Nat
      BY <1>1 DEF StreamInv, PositionInv
    <3>2. CASE k \in highWater+1..Len(log)
      <4>1. PICK i \in 1..Len(wire) : IsEvent(i) /\ wire[i].seq = k
        BY <1>5, <2>5, <3>2 DEF OrderInv
      <4> QED BY <1>1, <2>2, <2>3, <4>1
    <3>3. CASE k = Len(log) + 1
      <4>1. Len(wire) + 1 \in 1..Len(wire')
        BY <1>1, <2>2
      <4> QED BY <2>1, <2>2, <3>3, <4>1 DEF IsEvent
    <3> QED BY <1>1, <2>5, <3>1, <3>2, <3>3
  <2> QED BY <1>2, <1>3, <2>4, <2>5 DEF OrderInv
<1> QED BY <1>2, <1>4, <1>5

\* Another message, not an event, is sent.
LEMMA OrderLonger ==
  ASSUME StreamInv, OrderInv, log' = log, NEW m \in Messages, m.kind \notin Kinds,
         wire' = Append(wire, m), UNCHANGED <<link, after, lastId, highWater, missed>>
  PROVE  OrderInv'
<1>1. /\ Len(wire) \in Nat /\ Len(wire') = Len(wire) + 1
      /\ \A i \in 1..Len(wire) : wire'[i] = wire[i]
      /\ wire'[Len(wire) + 1] = m
  BY WireAppended DEF StreamInv
<1>2. \A i \in 1..Len(wire') : IsEvent(i)' <=> i \in 1..Len(wire) /\ IsEvent(i)
  BY <1>1 DEF IsEvent
<1>3. \A i \in 1..Len(wire) : i \in 1..Len(wire')
  BY <1>1
<1> QED BY <1>1, <1>2, <1>3 DEF OrderInv

LEMMA Past ==
  ASSUME NEW g \in Nat, NEW h \in Nat, g <= h, NEW n \in Nat, NEW k \in h+1..n
  PROVE  k \in g+1..n /\ k > h /\ \A x : x <= h => x # k
OBVIOUS

\* The first message is received, and the mark is at or past it.
LEMMA OrderShorter ==
  ASSUME StreamInv, OrderInv, log' = log, wire # <<>>, wire' = Tail(wire),
         link' = link, missed \subseteq missed', highWater' \in Nat, highWater <= highWater',
         IsEvent(1) => wire[1].seq <= highWater',
         after' <= highWater', lastId' <= highWater'
  PROVE  OrderInv'
<1>1. /\ Len(wire') \in Nat /\ Len(wire) = Len(wire') + 1
      /\ \A i \in 1..Len(wire') : wire'[i] = wire[i + 1]
      /\ link = "open"
  BY WireReceived DEF StreamInv
<1>2. highWater \in Nat /\ Len(log) \in Nat
  BY LenProperties DEF StreamInv, PositionInv, LogInv
<1>3. \A i \in 1..Len(wire') : IsEvent(i)' = IsEvent(i + 1) /\ i + 1 \in 1..Len(wire)
  BY <1>1 DEF IsEvent
<1>4. ASSUME NEW i \in 1..Len(wire'), NEW j \in 1..Len(wire'), IsEvent(i)', IsEvent(j)', i < j
      PROVE  wire'[i].seq < wire'[j].seq
  <2>1. i + 1 < j + 1
    BY <1>4
  <2> QED BY <1>1, <1>3, <1>4, <2>1 DEF OrderInv
<1>5. ASSUME NEW k \in (highWater'+1..Len(log)) \ missed'
      PROVE  \E i \in 1..Len(wire') : IsEvent(i)' /\ wire'[i].seq = k
  <2>1. k \in highWater+1..Len(log) /\ \A x : x <= highWater' => x # k
    BY ONLY <1>2, Past, highWater' \in Nat, highWater <= highWater'
  <2>2. PICK i \in 1..Len(wire) : IsEvent(i) /\ wire[i].seq = k
    BY <1>1, <1>5, <2>1 DEF OrderInv
  <2>3. i # 1
    BY <2>1, <2>2
  <2>4. i - 1 \in 1..Len(wire') /\ (i - 1) + 1 = i
    BY <1>1, <2>3
  <2> QED BY <1>1, <1>3, <2>2, <2>4
<1> QED BY <1>1, <1>4, <1>5 DEF OrderInv

LEMMA OrderDropped ==
  ASSUME wire' = <<>>, link' # "open", after' <= highWater', lastId' <= highWater'
  PROVE  OrderInv'
<1>1. Len(wire') = 0
  BY EmptySeq
<1> QED BY <1>1 DEF OrderInv, IsEvent

LEMMA OrderKept ==
  ASSUME OrderInv, UNCHANGED <<log, wire, link, after, lastId, highWater, missed>>
  PROVE  OrderInv'
BY DEF OrderInv, IsEvent

\* A stream opened at p sends what follows p.
LEMMA OrderOpened ==
  ASSUME StreamInv, OrderInv, log' = log, NEW p \in 0..Len(log), wire' = History(p),
         p <= highWater, UNCHANGED <<after, lastId, highWater>>
  PROVE  OrderInv'
<1>1. Len(log) \in Nat /\ highWater \in Nat
  BY LenProperties DEF StreamInv, LogInv, PositionInv
<1>2. /\ Len(wire') = Len(log) - p
      /\ \A i \in 1..Len(wire') : wire'[i].kind \in Kinds /\ wire'[i].seq = p + i
  BY HistoryFaithful DEF StreamInv
<1>3. \A k \in highWater+1..Len(log) : k - p \in 1..Len(wire') /\ p + (k - p) = k
  BY <1>1, <1>2
<1>4. \A i \in 1..Len(wire') : IsEvent(i)'
  BY <1>2 DEF IsEvent
<1>5. \A i, j \in 1..Len(wire') : i < j => wire'[i].seq < wire'[j].seq
  BY <1>1, <1>2
<1>6. \A k \in highWater+1..Len(log) : \E i \in 1..Len(wire') : IsEvent(i)' /\ wire'[i].seq = k
  BY <1>2, <1>3, <1>4
<1>7. after' <= highWater' /\ lastId' <= highWater'
  BY DEF OrderInv
<1> QED BY <1>5, <1>6, <1>7 DEF OrderInv

\* What precedes the first event past the mark was passed over.
LEMMA OnlyPassedOver ==
  ASSUME StreamInv, OrderInv, link = "open", IsEvent(1),
         NEW k \in highWater+1..Len(log), k < wire[1].seq
  PROVE  k \in missed
<1> SUFFICES ASSUME k \notin missed PROVE FALSE
  OBVIOUS
<1>1. highWater \in Nat /\ Len(log) \in Nat /\ wire[1].seq \in 1..Len(log) /\ Len(wire) \in Nat
  BY LenProperties DEF StreamInv, LogInv, WireInv, PositionInv, IsEvent
<1>2. PICK i \in 1..Len(wire) : IsEvent(i) /\ wire[i].seq = k
  BY DEF OrderInv
<1>3. CASE i = 1
  BY <1>1, <1>2, <1>3
<1>4. CASE i # 1
  <2>1. 1 \in 1..Len(wire) /\ 1 < i
    BY <1>1, <1>4
  <2>2. wire[1].seq < wire[i].seq
    BY <1>2, <2>1 DEF OrderInv
  <2> QED BY <1>1, <1>2, <2>2
<1> QED BY <1>3, <1>4

LEMMA StepOrder == StreamInv /\ OrderInv /\ [Next]_vars => OrderInv'
<1> SUFFICES ASSUME StreamInv, OrderInv, [Next]_vars PROVE OrderInv'
  OBVIOUS
<1>1. CASE \E run, kind : Appends(run, kind)
  BY <1>1, OrderAppended
<1>2. CASE ~(\E run, kind : Appends(run, kind))
  <2>1. log' = log
    BY <1>2, StepLog DEF StreamInv
  <2>2. Len(log) \in Nat /\ highWater \in 0..Len(log) /\ after \in 0..Len(log)
        /\ lastId \in 0..Len(log)
    BY LenProperties DEF StreamInv, LogInv, PositionInv
  <2>3. after <= highWater /\ lastId <= highWater
    BY DEF OrderInv
  <2>4. CASE UNCHANGED <<wire, link, after, lastId, highWater, missed>>
    BY <2>1, <2>4, OrderKept
  <2>5. CASE Delta \/ Garbage
    <3>1. UNCHANGED <<link, after, lastId, highWater, missed>>
      BY <2>5 DEF Delta, Garbage, passed
    <3>2. CASE wire' = wire
      BY <2>4, <3>1, <3>2
    <3>3. CASE wire' # wire
      <4>1. \/ wire' = Append(wire, [kind |-> "delta", run |-> Now, piece |-> deltas + 1])
            \/ wire' = Append(wire, [kind |-> "bad"])
        BY <2>5, <3>3 DEF Delta, Garbage, Published
      <4>2. Now \in Nat /\ deltas + 1 \in Nat
        BY NowIsLatest DEF StreamInv, PositionInv
      <4>3. [kind |-> "delta", run |-> Now, piece |-> deltas + 1]
              \in [kind : {"delta"}, run : Nat, piece : Nat]
        BY <4>2
      <4> QED BY <2>1, <3>1, <4>1, <4>3, OrderLonger DEF Messages, Kinds
    <3> QED BY <3>2, <3>3
  <2>6. CASE Arrive
    <3>1. CASE link = "none"
      <4>1. /\ link' = "connecting" /\ wire' = <<>> /\ after' = Validated(current)
            /\ lastId' = 0 /\ highWater' = Validated(current)
        BY <2>6, <3>1 DEF Arrive, Subscribe
      <4>2. Validated(current) \in 0..Len(log)
        BY <2>2 DEF Validated, StreamInv, PositionInv
      <4> QED BY <4>1, <4>2, OrderDropped
    <3>2. CASE link # "none"
      BY <2>4, <2>6, <3>2 DEF Arrive, Subscribe, stream, passed
    <3> QED BY <3>1, <3>2
  <2>7. CASE Revisit \/ Lost
    BY <2>3, <2>7, OrderDropped DEF Revisit, Lost
  <2>8. CASE Reconnect
    BY <2>2, <2>8, OrderDropped DEF Reconnect
  <2>9. CASE Opened
    <3> DEFINE p == IF lastId > after THEN lastId ELSE after
    <3>1. p \in 0..Len(log) /\ p <= highWater
      BY <2>2, <2>3
    <3> QED BY <2>1, <2>9, <3>1, OrderOpened DEF Opened
  <2>10. CASE ReceiveBad
    <3>1. link = "open" /\ wire # <<>> /\ 1 \in 1..Len(wire) /\ wire[1] = Head(wire)
      BY <2>10, WireReceived DEF ReceiveBad, StreamInv, WireInv
    <3>2. UNCHANGED <<after, lastId, highWater, missed>> /\ ~IsEvent(1)
      BY <2>10, <3>1 DEF ReceiveBad, IsEvent, Kinds, passed
    <3>3. CASE link' = "closed"
      BY <2>3, <2>10, <3>1, <3>2, <3>3, OrderDropped DEF ReceiveBad
    <3>4. CASE link' # "closed"
      BY <2>1, <2>2, <2>3, <2>10, <3>1, <3>2, <3>4, OrderShorter DEF ReceiveBad
    <3> QED BY <3>3, <3>4
  <2>11. CASE ReceiveDelta
    <3>1. wire # <<>> /\ wire' = Tail(wire) /\ UNCHANGED <<link, after, lastId, highWater, missed>>
      BY <2>11 DEF ReceiveDelta, passed
    <3>2. ~IsEvent(1)
      <4>1. wire[1] = Head(wire)
        BY <3>1
      <4> QED BY <2>11, <4>1 DEF ReceiveDelta, IsEvent, Kinds
    <3> QED BY <2>1, <2>2, <2>3, <3>1, <3>2, OrderShorter
  <2>12. CASE ReceiveEvent
    <3>1. wire # <<>> /\ wire' = Tail(wire) /\ UNCHANGED <<link, after>>
      BY <2>12 DEF ReceiveEvent
    <3>2. wire[1] = Head(wire) /\ 1 \in 1..Len(wire)
      BY <2>1, <3>1, WireReceived DEF StreamInv
    <3>3. wire[1].seq \in 1..Len(log) /\ IsEvent(1)
      BY <2>12, <3>2 DEF ReceiveEvent, IsEvent, StreamInv, WireInv
    <3>4. /\ lastId' = wire[1].seq
          /\ highWater' = IF wire[1].seq > highWater THEN wire[1].seq ELSE highWater
      BY <2>12, <3>2 DEF ReceiveEvent
    <3>6. missed \subseteq missed'
      BY <2>12 DEF ReceiveEvent
    <3>5. highWater' \in Nat /\ highWater <= highWater' /\ wire[1].seq <= highWater'
          /\ after' <= highWater' /\ lastId' <= highWater'
      BY <2>2, <2>3, <3>1, <3>3, <3>4
    <3> QED BY <2>1, <3>1, <3>5, <3>6, OrderShorter
  <2>13. CASE Progress \/ StartElsewhere \/ Serve
    <3>1. wire' = wire /\ missed' = missed
      <4>1. Append(log, [run |-> Now, kind |-> "end"]) # log
            /\ \A run, kind : Append(log, [run |-> run, kind |-> kind]) # log
        BY AppendProperties DEF StreamInv, LogInv
      <4> QED BY <2>1, <2>13, <4>1 DEF Progress, StartElsewhere, Serve, Commit
    <3> QED BY <2>4, <2>13, <3>1 DEF Progress, StartElsewhere, Serve
  <2>14. CASE Read \/ ArriveLate \/ RequestFails \/ Recovered \/ OtherTab \/ Submit \/ Cancel
              \/ Answer \/ Render \/ UNCHANGED vars
    BY <2>4, <2>14 DEF Read, ArriveLate, RequestFails, Recovered, OtherTab, Submit, Cancel,
                       Answer, Render, vars, stream, passed
  <2> QED BY <2>5, <2>6, <2>7, <2>8, <2>9, <2>10, <2>11, <2>12, <2>13, <2>14 DEF Next
<1> QED BY <1>1, <1>2

-----------------------------------------------------------------------------
(* What is marked is covered.                                                *)

LEMMA CoveredAppended ==
  ASSUME StreamInv, CoveredInv, NEW run, NEW kind, Appends(run, kind)
  PROVE  CoveredInv'
<1>1. Len(log) \in Nat /\ \A k \in 1..Len(log) : log'[k] = log[k]
  BY Appended1 DEF StreamInv
<1>2. UNCHANGED <<highWater, shown, current, failed>> /\ missed \subseteq missed'
  BY DEF Appends, Commit, page
<1>3. \A k \in 1..highWater : log'[k] = log[k]
  BY <1>1 DEF StreamInv, PositionInv
<1> QED BY <1>2, <1>3 DEF CoveredInv, Refreshing

LEMMA StepCovered == StreamInv /\ OrderInv /\ CoveredInv /\ [Next]_vars => CoveredInv'
<1> SUFFICES ASSUME StreamInv, OrderInv, CoveredInv, [Next]_vars PROVE CoveredInv'
  OBVIOUS
<1>1. CASE \E run, kind : Appends(run, kind)
  BY <1>1, CoveredAppended
<1>2. CASE ~(\E run, kind : Appends(run, kind))
  <2>1. log' = log
    BY <1>2, StepLog DEF StreamInv
  <2>2. /\ Len(log) \in Nat /\ highWater \in 0..Len(log)
        /\ shown \in Unread..Len(log) /\ current \in NoRequest..Len(log)
        /\ (current >= 0 => shown <= current)
    BY LenProperties DEF StreamInv, LogInv, PositionInv
  <2> DEFINE Cover(k) == k <= shown \/ current = Unread \/ current >= k
                           \/ (failed /\ current = NoRequest)
  <2>3. shown # Unread => \A k \in (1..highWater) \ missed : Refreshing(log[k]) => Cover(k)
    BY DEF CoveredInv
  <2>4. CASE UNCHANGED <<shown, current, failed, highWater, missed>>
    BY <2>1, <2>4 DEF CoveredInv
  <2>5. CASE current' = Unread
    BY <2>5 DEF CoveredInv
  <2>6. CASE Read
    <3>1. UNCHANGED <<shown, highWater, missed>> /\ current' = Len(log)
      BY <2>6 DEF Read, stream, passed
    <3> QED BY <2>2, <3>1 DEF CoveredInv
  <2>7. CASE Arrive
    <3>1. current >= 0 /\ shown' = current /\ missed' = missed
      BY <2>7 DEF Arrive, passed
    <3>2. ASSUME NEW k \in (1..highWater') \ missed, Refreshing(log[k]) PROVE k <= shown'
      <4>1. CASE link = "none"
        <5>1. highWater' = Validated(current) /\ Validated(current) <= current
          BY <2>7, <3>1, <4>1 DEF Arrive, Subscribe, Validated
        <5>2. Validated(current) \in Nat /\ current \in Nat
          BY <2>2, <3>1 DEF Validated, StreamInv, PositionInv, NoRequest
        <5> QED BY <3>1, <3>2, <5>1, <5>2
      <4>2. CASE link # "none"
        <5>1. highWater' = highWater /\ shown # Unread
          BY <2>7, <4>2 DEF Arrive, Subscribe, stream, StreamInv, PositionInv
        <5>2. Cover(k)
          BY <2>3, <3>2, <5>1
        <5> QED BY <2>2, <3>1, <3>2, <5>1, <5>2 DEF Unread, NoRequest
      <4> QED BY <4>1, <4>2
    <3> QED BY <2>1, <3>1, <3>2 DEF CoveredInv
  <2>8. CASE RequestFails
    <3>1. current' = NoRequest /\ failed'
      BY <2>8 DEF RequestFails
    <3> QED BY <3>1 DEF CoveredInv
  <2>9. CASE Revisit
    BY <2>9 DEF Revisit, CoveredInv
  <2>10. CASE ReceiveEvent
    <3> DEFINE q == Head(wire)
               fresh == q.seq > highWater
    <3>1. /\ q = wire[1] /\ 1 \in 1..Len(wire) /\ link = "open" /\ q.kind \in Kinds
          /\ UNCHANGED <<shown, failed>>
      BY <2>10, WireReceived DEF ReceiveEvent, StreamInv
    <3>2. q.seq \in 1..Len(log) /\ q = Payload(q.seq) /\ IsEvent(1)
      BY <3>1 DEF StreamInv, WireInv, IsEvent
    <3>3. CASE ~fresh
      BY <2>4, <2>10, <3>1, <3>3 DEF ReceiveEvent
    <3>4. CASE fresh /\ Heard(q) /\ Refreshing(q)
      BY <2>5, <2>10, <3>4 DEF ReceiveEvent, Request
    <3>5. CASE fresh /\ ~(Heard(q) /\ Refreshing(q))
      <4>1. current' = current /\ highWater' = q.seq
        BY <2>10, <3>5 DEF ReceiveEvent
      <4>2. missed \subseteq missed' /\ (~Heard(q) => q.seq \in missed')
        BY <2>10, <3>5 DEF ReceiveEvent
      <4>3. Refreshing(log[q.seq]) => q.seq \in missed'
        <5>1. q.kind = log[q.seq].kind
          BY <3>2 DEF Payload
        <5> QED BY <3>5, <4>2, <5>1 DEF Refreshing
      <4>4. ASSUME NEW k \in 1..highWater'
            PROVE  k \in 1..highWater \/ k = q.seq \/ k \in missed
        <5>1. CASE k \in highWater+1..q.seq-1
          <6>1. k \in highWater+1..Len(log) /\ k < wire[1].seq
            BY <2>2, <3>1, <3>2, <5>1
          <6> QED BY <3>1, <3>2, <6>1, OnlyPassedOver
        <5> QED BY <2>2, <3>2, <4>1, <4>4, <5>1
      <4> QED BY <2>1, <2>3, <3>1, <4>1, <4>2, <4>3, <4>4 DEF CoveredInv
    <3> QED BY <3>3, <3>4, <3>5
  <2>11. CASE Recovered \/ Answer
    BY <2>5, <2>11 DEF Recovered, Answer, Request
  <2>12. CASE Opened
    <3>1. UNCHANGED <<shown, highWater, failed>> /\ missed' = {k \in missed : k <= highWater}
      BY <2>12 DEF Opened
    <3>2. current' = Unread \/ current' = current
      BY <2>12 DEF Opened, Request
    <3>3. \A k \in 1..highWater : k \in missed => k \in missed'
      BY <2>2, <3>1
    <3> QED BY <2>1, <2>5, <3>1, <3>2, <3>3 DEF CoveredInv
  <2>13. CASE Progress \/ StartElsewhere \/ Serve
    <3>1. missed' = missed
      <4>1. \A run, kind : Append(log, [run |-> run, kind |-> kind]) # log
        BY AppendProperties DEF StreamInv, LogInv
      <4> QED BY <2>1, <2>13, <4>1 DEF Progress, StartElsewhere, Serve, Commit
    <3> QED BY <2>4, <2>13, <3>1 DEF Progress, StartElsewhere, Serve, page
  <2>14. CASE Delta \/ Garbage \/ OtherTab \/ Submit \/ Cancel \/ Lost \/ ReceiveBad
              \/ ReceiveDelta \/ Reconnect \/ Render \/ ArriveLate \/ UNCHANGED vars
    BY <2>4, <2>14 DEF Delta, Garbage, OtherTab, Submit, Cancel, Lost, ReceiveBad, ReceiveDelta,
                       Reconnect, Render, ArriveLate, vars, stream, page, passed
  <2> QED BY <2>6, <2>7, <2>8, <2>9, <2>10, <2>11, <2>12, <2>13, <2>14 DEF Next
<1> QED BY <1>1, <1>2

-----------------------------------------------------------------------------
(* Theorems.                                                                 *)

LEMMA AlwaysStream == Spec => []StreamInv
<1>1. Init => StreamInv
  BY InitStream
<1>2. StreamInv /\ [Next]_vars => StreamInv'
  BY StepStream
<1> QED BY <1>1, <1>2, PTL DEF Spec

LEMMA AlwaysOrdered == Spec => []OrderInv
<1>1. Init => OrderInv
  <2> SUFFICES ASSUME Init PROVE OrderInv
    OBVIOUS
  <2>1. wire = <<>> /\ Len(wire) = 0
    BY EmptySeq DEF Init
  <2> QED BY <2>1 DEF Init, OrderInv, IsEvent
<1>2. StreamInv /\ OrderInv /\ [Next]_vars => OrderInv'
  BY StepOrder
<1> QED BY <1>1, <1>2, AlwaysStream, PTL DEF Spec

\* Answers out of order never take the projection of a page that is not left
\* back to an earlier version: refresh aborts the request before, and the
\* answer it waits for is never older than what it shows (AgentPage refresh).
THEOREM ShownMovesForward == Spec => NeverBackwards
<1>1. ASSUME StreamInv, [Next]_vars
      PROVE  [shown # Unread /\ shown' # Unread => shown' >= shown]_vars
  <2>1. shown \in Unread..Len(log) /\ (current >= 0 => shown <= current) /\ Len(log) \in Nat
    BY <1>1, LenProperties DEF StreamInv, PositionInv, LogInv
  <2>2. \/ shown' = shown \/ shown' = Unread
        \/ current >= 0 /\ shown' = current
    BY <1>1 DEF Next, vars, page, Progress, StartElsewhere, Delta, Garbage, Read, Arrive,
           ArriveLate, RequestFails, Recovered, Revisit, OtherTab, Submit, Cancel, Serve,
           Answer, Opened, Lost, ReceiveBad, ReceiveDelta, ReceiveEvent, Reconnect, Render
  <2> QED BY <2>1, <2>2 DEF Unread
<1> QED BY <1>1, AlwaysStream, PTL DEF Spec, NeverBackwards

\* High water hides nothing that was heard (sessionEvents.ts handlePayload): an
\* event that starts or ends a Run is counted as seen only if the page shows it,
\* has asked for it or says that it is stale, or if the stream passed it over
\* because its channel was full or the page listens to another Run; through any
\* number of reloads, reconnections, garbage, other tabs and late answers.
THEOREM HighWaterHidesNothing == Spec => []MarkedIsCovered
<1>1. Init => CoveredInv
  BY DEF Init, CoveredInv
<1>2. StreamInv /\ OrderInv /\ CoveredInv /\ [Next]_vars => CoveredInv'
  BY StepCovered
<1>3. CoveredInv => MarkedIsCovered
  BY DEF CoveredInv, MarkedIsCovered, Covers
<1> QED BY <1>1, <1>2, <1>3, AlwaysStream, AlwaysOrdered, PTL DEF Spec
=============================================================================
