-------------------------- MODULE SessionStoreProofs --------------------------
(***************************************************************************)
(* Proofs about the Session store: its type invariant, the order of the    *)
(* event history and the durability of what was acknowledged, for any      *)
(* number of commits, events, faults and crashes.                          *)
(***************************************************************************)
EXTENDS SessionLog, SequenceTheorems, FiniteSetTheorems, WellFoundedInduction, TLAPS

Alive == owner.ver > 0

InSeq(e, s) == \E k \in DOMAIN s : s[k] = e

Increasing(s) == \A j, k \in DOMAIN s : j < k => s[j].seq < s[k].seq

UpTo(s, n) == \A k \in DOMAIN s : s[k].seq <= n

After(s, e) == \A k \in DOMAIN s : s[k].seq < e.seq

\* An event is in the history, or numbered after all of it.
Settled(e) == InSeq(e, file) \/ After(file, e)

\* Who holds the mutex, and what that says of the memory.
Held ==
  /\ stage = "idle" <=> holder = None
  /\ stage \in {"idle", "read"} => extra = <<>>
  /\ stage = "read" => journal = NoJournal /\ holder \in {"detached", "load"}
  /\ holder = "load" => reader = "idle" /\ extra = <<>>
  /\ ~Alive => /\ holder \in {None, "load"} /\ pending = <<>> /\ owner = NoSession
               /\ reader # "idle" => journal = NoJournal
  /\ holder \in {"commit", "reserve"} => extra = <<>>
  /\ holder = "load" => stage # "journal"
  /\ holder = "reserve" => owner.calls > 0
  /\ ckpt.ver > 0
  /\ journal # NoJournal => journal.state.ver > 0
  /\ stage \in {"checkpoint", "scan", "append", "remove"} => journal # NoJournal

\* How far each number got.
Numbered ==
  /\ UpTo(file, ckpt.next)
  /\ UpTo(journal.events, journal.state.next)
  /\ journal # NoJournal => ckpt.next <= journal.state.next
  /\ stage \in {"scan", "append", "remove"} => ckpt = journal.state
  /\ stage = "journal" /\ holder # "detached" => owner.next = counter
  /\ stage = "journal" => UpTo(extra, counter)
  /\ UpTo(pending, counter)
  /\ Alive => ckpt.next <= counter /\ journal.state.next <= counter

\* Every list of events is in order.
Ordered ==
  /\ Increasing(file) /\ Increasing(journal.events) /\ Increasing(pending)
  /\ Increasing(left)
  /\ stage = "journal" => Increasing(pending \o extra)

\* What is still to be written comes after what is written.
Placed ==
  /\ \A k \in DOMAIN pending :
       \/ InSeq(pending[k], file)
       \/ InSeq(pending[k], journal.events)
       \/ After(file, pending[k]) /\ After(journal.events, pending[k])
  /\ \A k \in DOMAIN journal.events : Settled(journal.events[k])
  /\ stage = "journal" => \A k \in DOMAIN extra : After(file, extra[k])
  /\ stage = "append" =>
       /\ \A k \in DOMAIN journal.events :
            InSeq(journal.events[k], file) \/ InSeq(journal.events[k], left)
       /\ \A k \in DOMAIN left :
            /\ InSeq(left[k], journal.events)
            /\ left[k].seq > last => After(file, left[k])
            /\ left[k].seq <= last => InSeq(left[k], file)
  /\ stage = "remove" =>
       \A k \in DOMAIN journal.events : InSeq(journal.events[k], file)

StoreInv ==
  TypeOK /\ Held /\ Numbered /\ Ordered /\ Placed /\ AckedIsDurable

\* What each copy of the Session says of the model calls that were entered.
Counted ==
  /\ made <= ckpt.calls
  /\ journal # NoJournal => made <= journal.state.calls
  /\ Alive => made <= owner.calls
  /\ holder = "reserve" => made < owner.calls
  /\ holder = "reserve" /\ stage # "journal" => made < journal.state.calls
  /\ \A s \in {ckpt, journal.state, owner} : s.calls <= MaxModelCalls

VersionsUpTo(s, n) == \A k \in DOMAIN s : s[k].ver <= n

\* What the events report, with the Session they were written with.  This
\* needs a single committer.
Versioned ==
  /\ holder # "detached" /\ extra = <<>>
  /\ VersionsUpTo(file, ckpt.ver)
  /\ VersionsUpTo(journal.events, journal.state.ver)
  /\ VersionsUpTo(pending, owner.ver)
  /\ journal # NoJournal => ckpt.ver <= journal.state.ver
  /\ Alive => ckpt.ver <= owner.ver /\ journal.state.ver <= owner.ver
-----------------------------------------------------------------------------
(* Types.                                                                  *)

\* The entries of a list of events.
LEMMA EventFacts ==
  ASSUME NEW s \in Seq(Event), NEW k \in DOMAIN s
  PROVE  /\ s[k] \in Event
         /\ s[k].seq \in Nat /\ s[k].seq > 0 /\ s[k].id \in Nat /\ s[k].ver \in Nat
         /\ k \in 1..Len(s) /\ k \in Nat
<1>1. s[k] \in Event /\ k \in 1..Len(s)
  BY SMT
<1> QED BY <1>1, SMT DEF Event

\* The last number of the file bounds it, and comes from it.
LEMMA LastSequenceFacts ==
  ASSUME TypeOK, EventsInOrder
  PROVE  /\ LastSequence \in Nat
         /\ UpTo(file, LastSequence)
         /\ LastSequence = 0 \/ \E k \in DOMAIN file : file[k].seq = LastSequence
<1> DEFINE S == {0} \cup {file[k].seq : k \in DOMAIN file}
           Bounds(m) == \A k \in DOMAIN file : file[k].seq <= m
<1>1. \E m \in S : Bounds(m)
  <2>1. CASE file = <<>>
    BY <2>1, SMT
  <2>2. CASE file # <<>>
    <3>1. Len(file) \in DOMAIN file
      BY <2>2, SMT DEF TypeOK
    <3>2. Bounds(file[Len(file)].seq)
      <4>1. SUFFICES ASSUME NEW k \in DOMAIN file
                     PROVE  file[k].seq <= file[Len(file)].seq
        OBVIOUS
      <4>2. file \in Seq(Event)
        BY DEF TypeOK
      <4>3. CASE k = Len(file)
        BY <4>2, <4>3, EventFacts, SMT
      <4>4. CASE k # Len(file)
        <5>1. k < Len(file)
          BY <4>2, <4>4, SMT
        <5>2. file[k].seq < file[Len(file)].seq
          BY <5>1, <3>1 DEF EventsInOrder
        <5> QED BY <5>2, <4>2, <3>1, EventFacts, SMT
      <4> QED BY <4>3, <4>4
    <3> QED BY <3>1, <3>2
  <2> QED BY <2>1, <2>2
<1>2. LastSequence \in S /\ Bounds(LastSequence)
  BY <1>1 DEF LastSequence
<1>3. \A k \in DOMAIN file : file[k].seq \in Nat
  BY EventFacts DEF TypeOK
<1> QED BY <1>2, <1>3 DEF UpTo

\* The numbers of a Session.
LEMMA SessionParts ==
  ASSUME NEW s \in Session
  PROVE  s.ver \in Nat /\ s.calls \in Nat /\ s.next \in Nat
BY DEF Session

\* Changing one number of a Session leaves a Session.
LEMMA SessionRecord ==
  ASSUME NEW s \in Session, NEW n \in Nat
  PROVE  /\ [s EXCEPT !.ver = n] \in Session
         /\ [s EXCEPT !.calls = n] \in Session
         /\ [s EXCEPT !.next = n] \in Session
         /\ Sequenced(s, n) \in Session
<1>1. s.ver \in Nat /\ s.calls \in Nat /\ s.next \in Nat
  BY SessionParts
<1>2. Bigger(n, s.next) \in Nat
  BY <1>1 DEF Bigger
<1> QED BY <1>1, <1>2 DEF Session, Sequenced

\* The numbers of the events of a commit.
LEMMA NumbersOfCommit ==
  ASSUME NEW a \in Nat, NEW b \in Nat, NEW v \in Nat, NEW n \in 0..2, NEW k \in 1..n
  PROVE  /\ a + k \in Nat \ {0} /\ b + k \in Nat \ {0} /\ v + 1 \in Nat
         /\ b + k <= b + n /\ b + k > b
  OBVIOUS

\* An action keeps every variable in its type.
LEMMA TypesKept ==
  ASSUME StoreInv, [Next]_vars
  PROVE  TypeOK'
<1> USE DEF Release, disk, memory, lock, load, ghost
<1>0. /\ journal \in [state : Session, events : Seq(Event)]
      /\ ckpt \in Session /\ file \in Seq(Event) /\ torn \in BOOLEAN
      /\ counter \in Nat /\ pending \in Seq(Event) /\ owner \in Session
      /\ holder \in {None, "commit", "reserve", "detached", "load"}
      /\ stage \in {"idle", "journal", "checkpoint", "scan", "append", "remove", "read"}
      /\ extra \in Seq(Event) /\ left \in Seq(Event) /\ last \in Nat
      /\ reader \in {"idle", "unlocked", "statted", "replaced"}
      /\ loaded \in {None, "ok", "failed", "replaced"}
      /\ issued \in Nat /\ acked \subseteq Nat /\ made \in Nat /\ faults \in Nat
  BY DEF StoreInv, TypeOK
<1>a. /\ journal.state \in Session /\ journal.events \in Seq(Event)
      /\ owner.ver \in Nat /\ owner.calls \in Nat /\ owner.next \in Nat
      /\ ckpt.ver \in Nat /\ ckpt.next \in Nat
  BY <1>0, SessionParts
<1>b. \A m, n \in Nat : Bigger(m, n) \in Nat
  BY DEF Bigger
<1>c. <<>> \in Seq(Event)
  OBVIOUS
<1>1. ASSUME NEW n \in 0..2, Commit(n) PROVE TypeOK'
  <2> DEFINE new == [k \in 1..n |-> NewEvent(k, owner.ver + 1)]
  <2>1. new \in Seq(Event)
    <3>1. ASSUME NEW k \in 1..n PROVE NewEvent(k, owner.ver + 1) \in Event
      <4>1. issued + k \in Nat \ {0} /\ counter + k \in Nat \ {0} /\ owner.ver + 1 \in Nat
        BY <1>0, <1>a, NumbersOfCommit
      <4> QED BY <4>1 DEF NewEvent, Event
    <3> QED BY <3>1
  <2>2. pending' = pending \o new
    BY <1>1 DEF Commit
  <2>3. pending' \in Seq(Event)
    BY <1>0, <2>1, <2>2, ConcatProperties
  <2>4. owner' \in Session
    <3>1. owner' = Sequenced([owner EXCEPT !.ver = owner.ver + 1], counter + n)
      BY <1>1 DEF Commit
    <3>2. owner.ver + 1 \in Nat /\ counter + n \in Nat
      BY <1>0, <1>a
    <3>3. [owner EXCEPT !.ver = owner.ver + 1] \in Session
      BY <1>0, <3>2, SessionRecord
    <3> QED BY <3>1, <3>2, <3>3, SessionRecord
  <2>5. counter' \in Nat
    BY <1>1, <2>4, SessionParts DEF Commit
  <2>6. issued' \in Nat
    BY <1>0, <1>1 DEF Commit
  <2> HIDE DEF new
  <2> QED BY <1>0, <1>1, <2>3, <2>4, <2>5, <2>6 DEF Commit, Take, TypeOK
<1>2. CASE Reserve
  <2>1. owner' = Sequenced([owner EXCEPT !.calls = owner.calls + 1], counter)
    BY <1>2 DEF Reserve
  <2>2. owner.calls + 1 \in Nat
    BY <1>a
  <2>3. owner' \in Session
    BY <1>0, <2>1, <2>2, SessionRecord
  <2>4. counter' \in Nat
    BY <1>2, <2>3, SessionParts DEF Reserve
  <2> QED BY <1>0, <1>2, <2>3, <2>4 DEF Reserve, Take, TypeOK
<1>3. CASE Detach
  BY <1>0, <1>3 DEF Detach, Take, Recovering, TypeOK
<1>4. CASE Load
  BY <1>0, <1>4 DEF Load, Take, Recovering, TypeOK
<1>5. CASE DetachedCommit
  <2>1. NewEvent(1, ckpt.ver) \in Event
    BY <1>0, <1>a DEF NewEvent, Event
  <2>2. counter' = Bigger(counter + 1, ckpt.next) /\ issued' = issued + 1
    BY <1>5 DEF DetachedCommit
  <2>4. counter + 1 \in Nat /\ issued + 1 \in Nat
    BY <1>0
  <2>5. counter' \in Nat /\ issued' \in Nat
    BY <1>a, <1>b, <2>2, <2>4
  <2>3. extra' \in Seq(Event)
    BY <1>5, <2>1 DEF DetachedCommit
  <2> QED BY <1>0, <1>5, <2>5, <2>3 DEF DetachedCommit, TypeOK
<1>6. Batch \in [state : Session, events : Seq(Event)]
  <2>1. pending \o extra \in Seq(Event)
    BY <1>0, ConcatProperties
  <2>2. Sequenced(ckpt, counter) \in Session
    BY <1>0, SessionRecord
  <2> QED BY <1>0, <2>1, <2>2 DEF Batch
<1>7. CASE WriteJournal
  BY <1>0, <1>6, <1>7 DEF WriteJournal, TypeOK
<1>8. CASE WriteCheckpoint
  BY <1>0, <1>a, <1>8 DEF WriteCheckpoint, Replaced, TypeOK
<1>9. CASE ScanEvents
  <2>1. LastSequence \in Nat
    BY LastSequenceFacts DEF StoreInv, Ordered, Increasing, EventsInOrder
  <2> QED BY <1>0, <1>a, <1>9, <2>1 DEF ScanEvents, TypeOK
<1>10. TakeBack => owner' \in Session
  <2>1. CASE holder = "reserve"
    <3>1. owner.calls - 1 \in Nat
      BY <1>a, <2>1 DEF StoreInv, Held
    <3>2. [owner EXCEPT !.calls = owner.calls - 1] \in Session
      BY <1>0, <3>1, SessionRecord
    <3> QED BY <2>1, <3>2 DEF TakeBack
  <2>2. CASE holder # "reserve"
    BY <1>0, <2>2 DEF TakeBack
  <2> QED BY <2>1, <2>2
<1>11. Fail => /\ owner' \in Session /\ holder' = None /\ stage' = "idle"
               /\ extra' = <<>> /\ left' = <<>> /\ last' \in Nat
               /\ loaded' \in {None, "ok", "failed", "replaced"}
               /\ counter' \in Nat /\ pending' \in Seq(Event)
               /\ issued' \in Nat /\ acked' \subseteq Nat /\ made' \in Nat
  BY <1>0, <1>10 DEF Fail
<1>12. CASE ScanRefused
  BY <1>0, <1>c, <1>11, <1>12 DEF ScanRefused, TypeOK
<1>13. CASE AppendEvent
  <2>1. Head(left) \in Event /\ Tail(left) \in Seq(Event)
    BY <1>0, <1>13, HeadTailProperties DEF AppendEvent
  <2>2. Append(file, Head(left)) \in Seq(Event)
    BY <1>0, <2>1, AppendProperties
  <2>3. file' \in Seq(Event) /\ left' \in Seq(Event)
    BY <1>0, <1>13, <2>1, <2>2 DEF AppendEvent
  <2> QED BY <1>0, <1>13, <2>3 DEF AppendEvent, TypeOK
<1>14. CASE AppendDone
  BY <1>0, <1>14 DEF AppendDone, TypeOK
<1>15. NoJournal \in [state : Session, events : Seq(Event)]
  <2>1. NoSession \in Session
    BY DEF NoSession, Session
  <2> QED BY <1>c, <2>1 DEF NoJournal
<1>17. CASE RemoveJournal
  <2>1. Ids(journal.events) \subseteq Nat
    BY <1>a, EventFacts DEF Ids
  <2>2. made' \in {made, made + 1} /\ acked' \in {acked, acked \cup Ids(journal.events)}
    BY <1>17 DEF RemoveJournal
  <2>5. made' \in Nat /\ acked' \subseteq Nat
    BY <1>0, <2>1, <2>2
  <2>3. pending' \in Seq(Event) /\ extra' \in Seq(Event) /\ left' \in Seq(Event)
    BY <1>0, <1>c, <1>17 DEF RemoveJournal
  <2>4. /\ holder' \in {None, "commit", "reserve", "detached", "load"}
        /\ stage' \in {"idle", "read"}
    BY <1>0, <1>17 DEF RemoveJournal
  <2> QED BY <1>0, <1>15, <1>17, <2>5, <2>3, <2>4 DEF RemoveJournal, TypeOK
<1>18. CASE LoadUnlock
  BY <1>0, <1>c, <1>18 DEF LoadUnlock, TypeOK
<1>19. CASE LoadStat \/ LoadReplaced
  BY <1>0, <1>19 DEF LoadStat, LoadReplaced, TypeOK
<1>20. CASE LoadRead
  <2>1. owner' \in Session /\ counter' \in Nat
    BY <1>0, <1>a, <1>b, <1>20 DEF LoadRead
  <2> QED BY <1>0, <1>20, <2>1 DEF LoadRead, TypeOK
<1>21. CASE JournalFails
  BY <1>0, <1>c, <1>6, <1>11, <1>21 DEF JournalFails, Fault, TypeOK
<1>22. CASE CheckpointFails
  <2>1. /\ ckpt' \in Session
        /\ reader' \in {"idle", "unlocked", "statted", "replaced"}
    BY <1>0, <1>a, <1>22 DEF CheckpointFails, Replaced
  <2> QED BY <1>0, <1>c, <1>11, <1>22, <2>1 DEF CheckpointFails, Fault, TypeOK
<1>23. CASE AppendFails
  <2>1. torn' \in BOOLEAN
    BY <1>0, <1>23 DEF AppendFails
  <2>2. faults' \in Nat
    BY <1>0, <1>23 DEF AppendFails, Fault
  <2> QED BY <1>0, <1>c, <1>11, <1>23, <2>1, <2>2 DEF AppendFails, TypeOK
<1>24. CASE RemoveFails
  <2>1. journal' \in [state : Session, events : Seq(Event)]
    BY <1>0, <1>15, <1>24 DEF RemoveFails
  <2>2. faults' \in Nat
    BY <1>0, <1>24 DEF RemoveFails, Fault
  <2> QED BY <1>0, <1>c, <1>11, <1>24, <2>1, <2>2 DEF RemoveFails, TypeOK
<1>25. CASE Crash
  <2>1. NoSession \in Session
    BY DEF NoSession, Session
  <2> QED BY <1>0, <1>c, <1>25, <2>1 DEF Crash, Fault, TypeOK
<1>26. CASE UNCHANGED vars
  BY <1>0, <1>26 DEF vars, TypeOK
<1> QED BY <1>1, <1>2, <1>3, <1>4, <1>5, <1>7, <1>8, <1>9, <1>12, <1>13, <1>14,
           <1>17, <1>18, <1>19, <1>20, <1>21, <1>22, <1>23, <1>24, <1>25, <1>26
        DEF Next, Holder, Reader, Faulty

-----------------------------------------------------------------------------
(* The mutex.                                                              *)

\* What the operations on a Session leave of its version.
LEMMA VersionKept ==
  ASSUME NEW s \in Session, NEW n
  PROVE  /\ Sequenced(s, n).ver = s.ver /\ Sequenced(s, n).calls = s.calls
         /\ [s EXCEPT !.calls = n].ver = s.ver
         /\ [s EXCEPT !.ver = n].ver = n
         /\ [s EXCEPT !.calls = n].calls = n
         /\ [s EXCEPT !.calls = n].next = s.next
         /\ [s EXCEPT !.ver = n].next = s.next
         /\ Sequenced(s, n).next = Bigger(n, s.next)
BY DEF Session, Sequenced

\* An action leaves the mutex and the memory consistent.
LEMMA HeldKept ==
  ASSUME StoreInv, [Next]_vars
  PROVE  Held'
<1> USE DEF Release, disk, memory, lock, load, ghost
<1>0. /\ ckpt \in Session /\ owner \in Session /\ journal.state \in Session
      /\ counter \in Nat /\ issued \in Nat
      /\ holder \in {None, "commit", "reserve", "detached", "load"}
      /\ reader \in {"idle", "unlocked", "statted", "replaced"}
      /\ owner.ver \in Nat /\ owner.calls \in Nat
  BY SessionParts DEF StoreInv, TypeOK
<1>a. /\ stage = "idle" <=> holder = None
      /\ stage \in {"idle", "read"} => extra = <<>>
      /\ stage = "read" => journal = NoJournal /\ holder \in {"detached", "load"}
      /\ holder = "load" => reader = "idle" /\ extra = <<>>
      /\ ~Alive => /\ holder \in {None, "load"} /\ pending = <<>> /\ owner = NoSession
                   /\ reader # "idle" => journal = NoJournal
      /\ holder \in {"commit", "reserve"} => extra = <<>>
      /\ holder = "load" => stage # "journal"
      /\ holder = "reserve" => owner.calls > 0
      /\ ckpt.ver > 0
      /\ journal # NoJournal => journal.state.ver > 0
      /\ stage \in {"checkpoint", "scan", "append", "remove"} => journal # NoJournal
  BY DEF StoreInv, Held
<1>b. NoSession.ver = 0
  BY DEF NoSession
<1>c. owner # NoSession => Alive
  BY <1>a
<1>d. owner' = owner => Alive' = Alive
  BY DEF Alive
<1>e. Fail => /\ Alive' = Alive /\ (~Alive => owner' = owner)
              /\ holder' = None /\ stage' = "idle" /\ extra' = <<>>
              /\ pending' = pending
  <2>1. CASE holder = "reserve"
    <3>1. Alive
      BY <2>1, <1>a DEF None
    <3>2. TakeBack => owner'.ver = owner.ver
      BY <1>0, <2>1, VersionKept DEF TakeBack
    <3> QED BY <3>1, <3>2 DEF Fail, Alive
  <2>2. CASE holder # "reserve"
    BY <2>2, <1>d DEF Fail, TakeBack
  <2> QED BY <2>1, <2>2
<1>1. ASSUME NEW n \in 0..2, Commit(n) PROVE Held'
  <2>1. owner'.ver = owner.ver + 1
    <3>1. owner' = Sequenced([owner EXCEPT !.ver = owner.ver + 1], counter + n)
      BY <1>1 DEF Commit
    <3>2. owner.ver + 1 \in Nat
      BY <1>0
    <3>3. [owner EXCEPT !.ver = owner.ver + 1] \in Session
      BY <1>0, <3>2, SessionRecord
    <3>4. owner'.ver = [owner EXCEPT !.ver = owner.ver + 1].ver
      BY <3>1, <3>3, VersionKept
    <3> QED BY <1>0, <3>4, VersionKept
  <2>2. Alive'
    BY <1>0, <2>1 DEF Alive
  <2> QED BY <1>1, <1>a, <2>2 DEF Commit, Take, Held, None
<1>2. CASE Reserve
  <2>1. owner'.ver = owner.ver /\ owner'.calls = owner.calls + 1
    <3>1. owner' = Sequenced([owner EXCEPT !.calls = owner.calls + 1], counter)
      BY <1>2 DEF Reserve
    <3>2. owner.calls + 1 \in Nat
      BY <1>0
    <3>3. [owner EXCEPT !.calls = owner.calls + 1] \in Session
      BY <1>0, <3>2, SessionRecord
    <3>4. /\ owner'.ver = [owner EXCEPT !.calls = owner.calls + 1].ver
          /\ owner'.calls = [owner EXCEPT !.calls = owner.calls + 1].calls
      BY <3>1, <3>3, VersionKept
    <3> QED BY <1>0, <3>4, VersionKept
  <2>2. Alive' /\ owner'.calls > 0
    BY <1>0, <1>2, <1>c, <2>1 DEF Alive, Reserve
  <2> QED BY <1>2, <1>a, <2>2 DEF Reserve, Take, Held, None
<1>3. CASE Detach
  BY <1>3, <1>a, <1>c, <1>d DEF Detach, Take, Recovering, Held, None
<1>4. CASE Load
  BY <1>4, <1>a, <1>d DEF Load, Take, Recovering, Held, None
<1>5. CASE DetachedCommit
  BY <1>5, <1>a, <1>d DEF DetachedCommit, Held, None
<1>6. CASE WriteJournal \/ JournalFails
  <2>1. Batch.state.ver > 0
    <3>1. CASE holder = "detached"
      BY <1>0, <1>a, <3>1, VersionKept DEF Batch
    <3>2. CASE holder # "detached"
      <4>1. Alive
        BY <1>6, <1>0, <1>a, <3>2 DEF WriteJournal, JournalFails, None
      <4> QED BY <3>2, <4>1 DEF Batch, Alive
    <3> QED BY <3>1, <3>2
  <2>4. Batch # NoJournal
    BY <2>1, <1>b DEF NoJournal
  <2>2. CASE WriteJournal
    BY <1>a, <1>d, <2>1, <2>2, <2>4 DEF WriteJournal, Held, None
  <2>3. CASE JournalFails
    <3>1. holder # "load" /\ Alive
      BY <2>3, <1>a, <1>0 DEF JournalFails, None
    <3>2. journal' # NoJournal => journal'.state.ver > 0
      BY <2>3, <1>a, <2>1 DEF JournalFails
    <3> QED BY <2>3, <1>a, <1>e, <3>1, <3>2 DEF JournalFails, Held, None
  <2> QED BY <1>6, <2>2, <2>3
<1>7. CASE WriteCheckpoint \/ CheckpointFails
  <2>1. ckpt'.ver > 0
    BY <1>7, <1>a DEF WriteCheckpoint, CheckpointFails
  <2>2. CASE WriteCheckpoint
    BY <1>a, <1>d, <2>1, <2>2 DEF WriteCheckpoint, Replaced, Held, None
  <2>3. CASE CheckpointFails
    BY <1>a, <1>e, <2>1, <2>3 DEF CheckpointFails, Replaced, Held, None
  <2> QED BY <1>7, <2>2, <2>3
<1>8. CASE ScanEvents \/ AppendEvent \/ AppendDone
  BY <1>8, <1>a, <1>d DEF ScanEvents, AppendEvent, AppendDone, Held, None
<1>9. CASE ScanRefused \/ AppendFails \/ RemoveFails
  <2>1. CASE ScanRefused
    BY <2>1, <1>a, <1>e DEF ScanRefused, Held, None
  <2>2. CASE AppendFails
    BY <2>2, <1>a, <1>e DEF AppendFails, Held, None
  <2>3. CASE RemoveFails
    BY <2>3, <1>a, <1>e DEF RemoveFails, Held, None
  <2> QED BY <1>9, <2>1, <2>2, <2>3
<1>10. CASE RemoveJournal
  BY <1>10, <1>a, <1>d DEF RemoveJournal, Held, None
<1>11. CASE LoadUnlock
  BY <1>11, <1>a, <1>d DEF LoadUnlock, Held, None
<1>12. CASE LoadStat \/ LoadReplaced
  BY <1>12, <1>a, <1>d DEF LoadStat, LoadReplaced, Held, None
<1>13. CASE LoadRead
  <2>1. Alive'
    BY <1>13, <1>a, <1>c DEF LoadRead, Alive
  <2>2. owner'.calls > 0 \/ holder # "reserve"
    <3>1. CASE owner = NoSession
      BY <3>1, <1>a, <1>b DEF Alive, None
    <3>2. CASE owner # NoSession
      BY <3>2, <1>13, <1>a DEF LoadRead
    <3> QED BY <3>1, <3>2
  <2> QED BY <1>13, <1>a, <2>1, <2>2 DEF LoadRead, Held, None
<1>14. CASE Crash
  BY <1>14, <1>a DEF Crash, Held, None
<1>15. CASE UNCHANGED vars
  BY <1>15, <1>a, <1>d DEF vars, Held
<1> QED BY <1>1, <1>2, <1>3, <1>4, <1>5, <1>6, <1>7, <1>8, <1>9, <1>10, <1>11,
           <1>12, <1>13, <1>14, <1>15
        DEF Next, Holder, Reader, Faulty

-----------------------------------------------------------------------------
(* Lists of events.                                                        *)

\* A larger number bounds what a smaller one does.
LEMMA UpToMore ==
  ASSUME NEW s \in Seq(Event), NEW m \in Nat, NEW n \in Nat, UpTo(s, m), m <= n
  PROVE  UpTo(s, n)
BY EventFacts DEF UpTo

\* The entries of a concatenation are those of its parts, in their order.
LEMMA ConcatEntries ==
  ASSUME NEW s \in Seq(Event), NEW t \in Seq(Event)
  PROVE  /\ s \o t \in Seq(Event)
         /\ \A k \in DOMAIN (s \o t) :
              \/ k \in DOMAIN s /\ (s \o t)[k] = s[k]
              \/ k - Len(s) \in DOMAIN t /\ (s \o t)[k] = t[k - Len(s)] /\ k > Len(s)
         /\ \A k \in DOMAIN s : k \in DOMAIN (s \o t) /\ (s \o t)[k] = s[k]
         /\ \A k \in DOMAIN t :
              k + Len(s) \in DOMAIN (s \o t) /\ (s \o t)[k + Len(s)] = t[k]
<1>1. /\ s \o t \in Seq(Event) /\ Len(s \o t) = Len(s) + Len(t)
      /\ \A k \in 1..Len(s) + Len(t) :
           (s \o t)[k] = IF k <= Len(s) THEN s[k] ELSE t[k - Len(s)]
  BY ConcatProperties
<1>2. /\ DOMAIN s = 1..Len(s) /\ DOMAIN t = 1..Len(t)
      /\ DOMAIN (s \o t) = 1..Len(s) + Len(t)
      /\ Len(s) \in Nat /\ Len(t) \in Nat
  BY <1>1, SMT
<1> QED BY <1>1, <1>2

\* A bound of two lists bounds their concatenation.
LEMMA UpToConcat ==
  ASSUME NEW s \in Seq(Event), NEW t \in Seq(Event), NEW n,
         UpTo(s, n), UpTo(t, n)
  PROVE  UpTo(s \o t, n)
BY ConcatEntries DEF UpTo

\* The entries after an append.
LEMMA AppendEntries ==
  ASSUME NEW s \in Seq(Event), NEW e \in Event
  PROVE  /\ Append(s, e) \in Seq(Event)
         /\ \A k \in DOMAIN Append(s, e) :
              \/ k \in DOMAIN s /\ Append(s, e)[k] = s[k]
              \/ k = Len(s) + 1 /\ Append(s, e)[k] = e
         /\ \A k \in DOMAIN s : k \in DOMAIN Append(s, e) /\ Append(s, e)[k] = s[k]
         /\ Len(s) + 1 \in DOMAIN Append(s, e) /\ Append(s, e)[Len(s) + 1] = e
<1>1. /\ Append(s, e) \in Seq(Event) /\ Len(Append(s, e)) = Len(s) + 1
      /\ \A k \in 1..Len(s) : Append(s, e)[k] = s[k]
      /\ Append(s, e)[Len(s) + 1] = e
  BY AppendProperties
<1>2. /\ DOMAIN s = 1..Len(s) /\ DOMAIN Append(s, e) = 1..Len(s) + 1
      /\ Len(s) \in Nat
  BY <1>1, SMT
<1> QED BY <1>1, <1>2

\* The entries of a tail are the later entries of the list.
LEMMA TailEntries ==
  ASSUME NEW s \in Seq(Event), s # <<>>
  PROVE  /\ Tail(s) \in Seq(Event)
         /\ 1 \in DOMAIN s /\ Head(s) = s[1]
         /\ \A k \in DOMAIN Tail(s) : k + 1 \in DOMAIN s /\ Tail(s)[k] = s[k + 1]
         /\ \A k \in DOMAIN s : k = 1 \/ (k - 1 \in DOMAIN Tail(s) /\ Tail(s)[k - 1] = s[k])
<1>1. /\ Head(s) = s[1] /\ Tail(s) \in Seq(Event) /\ Len(Tail(s)) = Len(s) - 1
      /\ \A k \in 1..Len(Tail(s)) : Tail(s)[k] = s[k + 1]
  BY HeadTailProperties
<1>2. /\ DOMAIN s = 1..Len(s) /\ DOMAIN Tail(s) = 1..Len(s) - 1
      /\ Len(s) \in Nat /\ Len(s) > 0
  BY <1>1, SMT
<1> QED BY <1>1, <1>2

-----------------------------------------------------------------------------
(* The numbers.                                                            *)

\* An action keeps every number within its bound.
LEMMA NumberedKept ==
  ASSUME StoreInv, [Next]_vars
  PROVE  Numbered'
<1> USE DEF Release, disk, memory, lock, load, ghost
<1>0. /\ ckpt \in Session /\ owner \in Session /\ journal.state \in Session
      /\ ckpt.next \in Nat /\ owner.next \in Nat /\ journal.state.next \in Nat
      /\ journal.events \in Seq(Event) /\ file \in Seq(Event)
      /\ pending \in Seq(Event) /\ extra \in Seq(Event) /\ left \in Seq(Event)
      /\ counter \in Nat /\ issued \in Nat
      /\ owner.ver \in Nat /\ owner.calls \in Nat /\ ckpt.ver \in Nat
  BY SessionParts DEF StoreInv, TypeOK
<1>a. /\ UpTo(file, ckpt.next)
      /\ UpTo(journal.events, journal.state.next)
      /\ journal # NoJournal => ckpt.next <= journal.state.next
      /\ stage \in {"scan", "append", "remove"} => ckpt = journal.state
      /\ stage = "journal" /\ holder # "detached" => owner.next = counter
      /\ stage = "journal" => UpTo(extra, counter)
      /\ UpTo(pending, counter)
      /\ Alive => ckpt.next <= counter /\ journal.state.next <= counter
  BY DEF StoreInv, Numbered
<1>b. /\ stage = "idle" <=> holder = None
      /\ ~Alive => /\ holder \in {None, "load"} /\ owner = NoSession
                   /\ reader # "idle" => journal = NoJournal
      /\ stage = "read" => journal = NoJournal /\ holder \in {"detached", "load"}
      /\ holder = "load" => stage # "journal"
      /\ stage \in {"checkpoint", "scan", "append", "remove"} => journal # NoJournal
  BY DEF StoreInv, Held
<1>c. owner # NoSession => Alive
  BY <1>b
<1>d. /\ \A m, n \in Nat : Bigger(m, n) \in Nat /\ m <= Bigger(m, n) /\ n <= Bigger(m, n)
      /\ \A m, n \in Nat : n <= m => Bigger(m, n) = m
  BY DEF Bigger
<1>e. UpTo(<<>>, 0) /\ (\A n : UpTo(<<>>, n))
  BY DEF UpTo
<1>f. NoJournal.state.next = 0 /\ NoJournal.events = <<>>
  BY DEF NoJournal, NoSession
<1>g. owner' = owner => Alive' = Alive
  BY DEF Alive
<1>h. Fail => Alive' = Alive
  <2>1. CASE holder = "reserve"
    BY <1>0, <2>1, VersionKept DEF Fail, TakeBack, Alive
  <2>2. CASE holder # "reserve"
    BY <2>2 DEF Fail, TakeBack, Alive
  <2> QED BY <2>1, <2>2
<1>1. ASSUME NEW n \in 0..2, Commit(n) PROVE Numbered'
  <2> DEFINE new == [k \in 1..n |-> NewEvent(k, owner.ver + 1)]
  <2>1. pending' = pending \o new /\ owner # NoSession
    BY <1>1 DEF Commit
  <2>2. new \in Seq(Event) /\ UpTo(new, counter + n)
    <3>1. ASSUME NEW k \in 1..n
          PROVE NewEvent(k, owner.ver + 1) \in Event /\ NewEvent(k, owner.ver + 1).seq <= counter + n
      <4>0. issued \in Nat /\ counter \in Nat /\ owner.ver \in Nat
        BY <1>0
      <4>1. issued + k \in Nat \ {0} /\ counter + k \in Nat \ {0} /\ owner.ver + 1 \in Nat
            /\ counter + k <= counter + n
        BY <4>0, NumbersOfCommit
      <4> QED BY <4>1 DEF NewEvent, Event
    <3> QED BY <3>1 DEF UpTo
  <2>3. counter + n \in Nat /\ counter <= counter + n
    BY <1>0
  <2>4. /\ counter' = Bigger(counter + n, owner.next) /\ owner'.next = counter'
    <3>1. /\ owner' = Sequenced([owner EXCEPT !.ver = owner.ver + 1], counter + n)
          /\ counter' = owner'.next
      BY <1>1 DEF Commit
    <3>2. owner.ver + 1 \in Nat
      BY <1>0
    <3>3. [owner EXCEPT !.ver = owner.ver + 1] \in Session
      BY <1>0, <3>2, SessionRecord
    <3>4. owner'.next = Bigger(counter + n, [owner EXCEPT !.ver = owner.ver + 1].next)
      BY <3>1, <3>3, VersionKept
    <3>5. [owner EXCEPT !.ver = owner.ver + 1].next = owner.next
      BY <1>0, VersionKept
    <3> QED BY <3>1, <3>4, <3>5
  <2>5. counter' \in Nat /\ counter + n <= counter' /\ counter <= counter'
    <3>1. PICK top \in Nat : top = counter + n
      BY <2>3
    <3>2. owner.next \in Nat
      BY SessionParts DEF StoreInv, TypeOK
    <3>3. Bigger(top, owner.next) \in Nat /\ top <= Bigger(top, owner.next)
      BY <1>d, <3>2
    <3>4. counter' = Bigger(top, owner.next)
      BY <2>4, <3>1
    <3>5. counter \in Nat /\ counter <= top
      BY <1>0, <2>3, <3>1
    <3> QED BY <3>1, <3>3, <3>4, <3>5
  <2> HIDE DEF new
  <2>6. UpTo(pending, counter') /\ UpTo(new, counter')
    BY <1>0, <1>a, <2>2, <2>3, <2>5, UpToMore
  <2>7. UpTo(pending', counter')
    BY <1>0, <2>1, <2>2, <2>6, UpToConcat
  <2>8. /\ ckpt' = ckpt /\ file' = file /\ journal' = journal /\ extra' = extra
        /\ stage' = "journal" /\ extra = <<>>
    BY <1>1, <1>b DEF Commit, Take, StoreInv, Held
  <2>9. ckpt.next <= counter' /\ journal.state.next <= counter'
    BY <1>0, <1>a, <1>c, <2>1, <2>5
  <2> QED BY <1>a, <1>e, <2>4, <2>7, <2>8, <2>9 DEF Numbered
<1>2. CASE Reserve
  <2>1. counter' = Bigger(counter, owner.next) /\ owner'.next = counter'
    <3>1. /\ owner' = Sequenced([owner EXCEPT !.calls = owner.calls + 1], counter)
          /\ counter' = owner'.next
      BY <1>2 DEF Reserve
    <3>2. owner.calls + 1 \in Nat
      BY <1>0
    <3>3. [owner EXCEPT !.calls = owner.calls + 1] \in Session
      BY <1>0, <3>2, SessionRecord
    <3>4. owner'.next = Bigger(counter, [owner EXCEPT !.calls = owner.calls + 1].next)
      BY <3>1, <3>3, VersionKept
    <3>5. [owner EXCEPT !.calls = owner.calls + 1].next = owner.next
      BY <1>0, VersionKept
    <3> QED BY <3>1, <3>4, <3>5
  <2>2. counter' \in Nat /\ counter <= counter'
    BY <1>0, <1>d, <2>1
  <2>3. UpTo(pending, counter')
    BY <1>0, <1>a, <2>2, UpToMore
  <2>4. /\ ckpt' = ckpt /\ file' = file /\ journal' = journal /\ extra' = extra
        /\ stage' = "journal" /\ extra = <<>> /\ pending' = pending /\ owner # NoSession
    BY <1>2, <1>b DEF Reserve, Take, StoreInv, Held
  <2>5. ckpt.next <= counter' /\ journal.state.next <= counter'
    BY <1>0, <1>a, <1>c, <2>2, <2>4
  <2> QED BY <1>a, <1>e, <2>1, <2>3, <2>4, <2>5 DEF Numbered
<1>3. CASE Detach \/ Load
  BY <1>3, <1>a, <1>b, <1>g DEF Detach, Load, Take, Recovering, Numbered
<1>5. CASE DetachedCommit
  <2>1. /\ counter' = Bigger(counter + 1, ckpt.next)
        /\ extra' = <<[id |-> issued + 1, seq |-> counter + 1, ver |-> ckpt.ver]>>
        /\ holder' = "detached" /\ stage' = "journal" /\ owner' = owner
        /\ pending' = pending /\ ckpt' = ckpt /\ journal' = journal /\ file' = file
    BY <1>5 DEF DetachedCommit, NewEvent
  <2>2. counter' \in Nat /\ counter + 1 <= counter' /\ counter <= counter'
    <3>1. counter + 1 \in Nat /\ counter <= counter + 1
      BY <1>0
    <3>2. counter' \in Nat /\ counter + 1 <= counter'
      BY <1>0, <1>d, <2>1, <3>1
    <3> QED BY <1>0, <3>1, <3>2
  <2>3. UpTo(pending, counter') /\ UpTo(extra', counter')
    <3>1. UpTo(pending, counter')
      BY <1>0, <1>a, <2>2, UpToMore
    <3>2. DOMAIN extra' = {1} /\ extra'[1].seq = counter + 1
      BY <2>1
    <3> QED BY <2>2, <3>1, <3>2 DEF UpTo
  <2>4. Alive => ckpt.next <= counter' /\ journal.state.next <= counter'
    BY <1>0, <1>a, <2>2
  <2> QED BY <1>a, <1>g, <2>1, <2>3, <2>4 DEF Numbered
<1>6. CASE WriteJournal \/ JournalFails
  <2>1. Alive
    BY <1>6, <1>b DEF WriteJournal, JournalFails, None
  <2>2. UpTo(pending \o extra, counter)
    BY <1>0, <1>6, <1>a, UpToConcat DEF WriteJournal, JournalFails
  <2>3. Batch.state.next = counter
    <3>1. CASE holder = "detached"
      <4>1. Batch.state = Sequenced(ckpt, counter)
        BY <3>1 DEF Batch
      <4>2. Batch.state.next = Bigger(counter, ckpt.next)
        BY <1>0, <4>1, VersionKept
      <4> QED BY <1>0, <1>a, <1>d, <2>1, <4>2
    <3>2. CASE holder # "detached"
      BY <1>6, <1>a, <3>2 DEF Batch, WriteJournal, JournalFails
    <3> QED BY <3>1, <3>2
  <2>4. UpTo(Batch.events, Batch.state.next) /\ ckpt.next <= Batch.state.next
        /\ Batch.state.next <= counter
    BY <1>0, <1>a, <2>1, <2>2, <2>3 DEF Batch
  <2>5. CASE WriteJournal
    BY <1>a, <1>g, <2>4, <2>5 DEF WriteJournal, Numbered
  <2>6. CASE JournalFails
    <3>1. /\ UpTo(journal'.events, journal'.state.next)
          /\ journal' # NoJournal => ckpt.next <= journal'.state.next
          /\ journal'.state.next <= counter
      BY <2>6, <2>1, <2>4, <1>a DEF JournalFails
    <3> QED BY <1>a, <2>1, <2>6, <3>1 DEF JournalFails, Fail, Numbered
  <2> QED BY <1>6, <2>5, <2>6
<1>7. CASE WriteCheckpoint \/ CheckpointFails
  <2>1. ckpt.next <= journal.state.next
    BY <1>7, <1>a, <1>b DEF WriteCheckpoint, CheckpointFails
  <2>2. UpTo(file, journal.state.next)
    BY <1>0, <1>a, <2>1, UpToMore
  <2>3. CASE WriteCheckpoint
    BY <1>0, <1>a, <1>g, <2>2, <2>3 DEF WriteCheckpoint, Numbered
  <2>4. CASE CheckpointFails
    <3>1. ckpt' = ckpt \/ ckpt' = journal.state
      BY <2>4 DEF CheckpointFails
    <3>2. /\ UpTo(file, ckpt'.next) /\ ckpt'.next <= journal.state.next
          /\ Alive => ckpt'.next <= counter
      BY <1>0, <1>a, <2>1, <2>2, <3>1
    <3> QED BY <1>a, <1>h, <2>4, <3>2 DEF CheckpointFails, Fail, Numbered
  <2> QED BY <1>7, <2>3, <2>4
<1>8. CASE ScanEvents \/ AppendDone
  BY <1>8, <1>a, <1>g DEF ScanEvents, AppendDone, Numbered
<1>9. CASE AppendEvent
  <2>1. left # <<>> /\ stage = "append" /\ ckpt = journal.state
    BY <1>9, <1>a DEF AppendEvent
  <2>2. 1 \in DOMAIN left /\ Head(left) = left[1]
    BY <1>0, <2>1, TailEntries
  <2>3. InSeq(left[1], journal.events)
    BY <2>1, <2>2 DEF StoreInv, Placed
  <2>4. Head(left).seq <= ckpt.next /\ Head(left) \in Event
    BY <1>0, <1>a, <2>1, <2>2, <2>3, EventFacts DEF InSeq, UpTo
  <2>5. UpTo(Append(file, Head(left)), ckpt.next)
    <3>1. SUFFICES ASSUME NEW k \in DOMAIN Append(file, Head(left))
                   PROVE  Append(file, Head(left))[k].seq <= ckpt.next
      BY DEF UpTo
    <3>2. \/ k \in DOMAIN file /\ Append(file, Head(left))[k] = file[k]
          \/ Append(file, Head(left))[k] = Head(left)
      BY <1>0, <2>4, AppendEntries
    <3> QED BY <1>a, <2>4, <3>2 DEF UpTo
  <2> QED BY <1>9, <1>a, <1>g, <2>5 DEF AppendEvent, Numbered
<1>10. CASE ScanRefused \/ AppendFails
  <2>1. /\ stage' = "idle" /\ UNCHANGED <<journal, ckpt, file, counter, pending>>
        /\ Alive' = Alive
    BY <1>10, <1>h DEF ScanRefused, AppendFails, Fail
  <2> QED BY <1>a, <2>1 DEF Numbered
<1>11. CASE RemoveFails
  <2>1. /\ UpTo(journal'.events, journal'.state.next)
        /\ journal' # NoJournal => ckpt.next <= journal'.state.next
        /\ Alive => journal'.state.next <= counter
    BY <1>0, <1>11, <1>a, <1>e, <1>f DEF RemoveFails
  <2> QED BY <1>11, <1>a, <1>h, <2>1 DEF RemoveFails, Fail, Numbered
<1>12. CASE RemoveJournal
  <2>1. /\ journal' = NoJournal /\ UpTo(journal'.events, journal'.state.next)
        /\ Alive => journal'.state.next <= counter
    BY <1>0, <1>12, <1>e, <1>f DEF RemoveJournal
  <2>2. pending' = pending \/ pending' = <<>>
    BY <1>12 DEF RemoveJournal
  <2>3. UpTo(pending', counter)
    BY <1>a, <1>e, <2>2
  <2>4. stage' \in {"read", "idle"}
    BY <1>12 DEF RemoveJournal
  <2> QED BY <1>12, <1>a, <1>g, <2>1, <2>3, <2>4 DEF RemoveJournal, Numbered
<1>13. CASE LoadUnlock \/ LoadStat \/ LoadReplaced
  BY <1>13, <1>a, <1>g DEF LoadUnlock, LoadStat, LoadReplaced, Numbered
<1>14. CASE LoadRead
  <2>1. counter' = Bigger(counter, ckpt.next)
    BY <1>14 DEF LoadRead
  <2>2. counter' \in Nat /\ counter <= counter' /\ ckpt.next <= counter'
    BY <1>0, <1>d, <2>1
  <2>3. UpTo(pending, counter') /\ (stage = "journal" => UpTo(extra, counter'))
    BY <1>0, <1>a, <2>2, UpToMore
  <2>4. CASE Alive
    <3>1. owner' = owner
      <4>1. NoSession.ver = 0
        BY DEF NoSession
      <4> QED BY <1>14, <2>4, <4>1 DEF LoadRead, Alive
    <3>2. counter' = counter
      BY <1>0, <1>a, <1>d, <2>1, <2>4
    <3> QED BY <1>14, <1>a, <2>2, <2>3, <2>4, <3>1, <3>2 DEF LoadRead, Numbered
  <2>5. CASE ~Alive
    <3>1. journal = NoJournal /\ holder \in {None, "load"}
      BY <1>14, <1>b, <2>5 DEF LoadRead
    <3>2. journal.state.next <= counter'
      BY <1>f, <2>2, <3>1
    <3>3. stage # "journal"
      BY <1>b, <3>1
    <3> QED BY <1>14, <1>a, <2>2, <2>3, <3>2, <3>3 DEF LoadRead, Numbered
  <2> QED BY <2>4, <2>5
<1>15. CASE Crash
  <2>1. ~Alive'
    BY <1>15 DEF Crash, Alive, NoSession
  <2> QED BY <1>15, <1>a, <1>e, <2>1 DEF Crash, Numbered
<1>16. CASE UNCHANGED vars
  BY <1>16, <1>a, <1>g DEF vars, Numbered
<1> QED BY <1>1, <1>2, <1>3, <1>5, <1>6, <1>7, <1>8, <1>9, <1>10, <1>11,
           <1>12, <1>13, <1>14, <1>15, <1>16
        DEF Next, Holder, Reader, Faulty

-----------------------------------------------------------------------------
(* The order.                                                              *)

\* Two lists in order, one after the other, are a list in order.
LEMMA IncreasingConcat ==
  ASSUME NEW s \in Seq(Event), NEW t \in Seq(Event), Increasing(s), Increasing(t),
         \A j \in DOMAIN s, k \in DOMAIN t : s[j].seq < t[k].seq
  PROVE  Increasing(s \o t)
<1>1. SUFFICES ASSUME NEW j \in DOMAIN (s \o t), NEW k \in DOMAIN (s \o t), j < k
               PROVE  (s \o t)[j].seq < (s \o t)[k].seq
  BY DEF Increasing
<1>2. /\ \/ j \in DOMAIN s /\ (s \o t)[j] = s[j]
         \/ j - Len(s) \in DOMAIN t /\ (s \o t)[j] = t[j - Len(s)] /\ j > Len(s)
      /\ \/ k \in DOMAIN s /\ (s \o t)[k] = s[k]
         \/ k - Len(s) \in DOMAIN t /\ (s \o t)[k] = t[k - Len(s)] /\ k > Len(s)
  BY ConcatEntries
<1>3. j \in Nat /\ k \in Nat /\ Len(s) \in Nat
  BY ConcatEntries, EventFacts
<1>4. CASE j \in DOMAIN s /\ k \in DOMAIN s
  <2>1. (s \o t)[j] = s[j] /\ (s \o t)[k] = s[k]
    BY <1>4, ConcatEntries
  <2> QED BY <1>1, <1>4, <2>1 DEF Increasing
<1>5. CASE j \notin DOMAIN s /\ k \notin DOMAIN s
  <2>1. j - Len(s) < k - Len(s)
    BY <1>1, <1>3
  <2> QED BY <1>2, <1>5, <2>1 DEF Increasing
<1>6. CASE j \in DOMAIN s /\ k \notin DOMAIN s
  <2>1. (s \o t)[j] = s[j]
    BY <1>6, ConcatEntries
  <2> QED BY <1>2, <1>6, <2>1
<1>7. CASE j \notin DOMAIN s /\ k \in DOMAIN s
  <2>1. k <= Len(s)
    BY <1>7, EventFacts
  <2> QED BY <1>1, <1>2, <1>3, <1>7, <2>1
<1> QED BY <1>4, <1>5, <1>6, <1>7

\* An event after all of a list can be appended to it.
LEMMA IncreasingAppend ==
  ASSUME NEW s \in Seq(Event), NEW e \in Event, Increasing(s), After(s, e)
  PROVE  Increasing(Append(s, e))
<1>1. SUFFICES ASSUME NEW j \in DOMAIN Append(s, e), NEW k \in DOMAIN Append(s, e), j < k
               PROVE  Append(s, e)[j].seq < Append(s, e)[k].seq
  BY DEF Increasing
<1>2. Append(s, e) \in Seq(Event) /\ Len(Append(s, e)) = Len(s) + 1
  BY AppendProperties
<1>3. j \in 1..Len(s) + 1 /\ k \in 1..Len(s) + 1 /\ Len(s) \in Nat
  BY <1>2, EventFacts
<1>4. j \in DOMAIN s /\ Append(s, e)[j] = s[j]
  <2>1. j # Len(s) + 1
    BY <1>1, <1>3
  <2> QED BY <2>1, AppendEntries
<1>5. CASE k = Len(s) + 1
  BY <1>4, <1>5, AppendEntries DEF After
<1>6. CASE k # Len(s) + 1
  <2>1. k \in DOMAIN s /\ Append(s, e)[k] = s[k]
    BY <1>6, AppendEntries
  <2> QED BY <1>1, <1>4, <2>1 DEF Increasing
<1> QED BY <1>5, <1>6

\* The tail of a list in order is in order, and after its head.
LEMMA IncreasingTail ==
  ASSUME NEW s \in Seq(Event), s # <<>>, Increasing(s)
  PROVE  /\ Increasing(Tail(s))
         /\ \A k \in DOMAIN Tail(s) : Head(s).seq < Tail(s)[k].seq
<1>1. /\ Tail(s) \in Seq(Event) /\ 1 \in DOMAIN s /\ Head(s) = s[1]
      /\ \A k \in DOMAIN Tail(s) : k + 1 \in DOMAIN s /\ Tail(s)[k] = s[k + 1]
  BY TailEntries
<1>2. \A k \in DOMAIN Tail(s) : k \in Nat /\ 1 < k + 1
  BY <1>1, EventFacts
<1>3. \A j, k \in DOMAIN Tail(s) : j < k => j + 1 < k + 1
  BY <1>2
<1> QED BY <1>1, <1>2, <1>3 DEF Increasing

\* An action keeps every list of events in order.
LEMMA OrderedKept ==
  ASSUME StoreInv, [Next]_vars
  PROVE  Ordered'
<1> USE DEF Release, disk, memory, lock, load, ghost
<1>0. /\ journal.events \in Seq(Event) /\ file \in Seq(Event)
      /\ pending \in Seq(Event) /\ extra \in Seq(Event) /\ left \in Seq(Event)
      /\ counter \in Nat /\ issued \in Nat /\ owner.ver \in Nat /\ ckpt.ver \in Nat
  BY SessionParts DEF StoreInv, TypeOK
<1>a. /\ Increasing(file) /\ Increasing(journal.events) /\ Increasing(pending)
      /\ Increasing(left)
      /\ stage = "journal" => Increasing(pending \o extra)
  BY DEF StoreInv, Ordered
<1>b. Increasing(<<>>) /\ NoJournal.events = <<>>
  BY DEF Increasing, NoJournal
<1>c. UpTo(pending, counter)
  BY DEF StoreInv, Numbered
<1>d. holder = None => extra = <<>>
  BY DEF StoreInv, Held
<1>e. pending \o <<>> = pending
  BY <1>0
<1>f. Fail => /\ stage' = "idle" /\ pending' = pending /\ left' = <<>>
  BY DEF Fail
<1>1. ASSUME NEW n \in 0..2, Commit(n) PROVE Ordered'
  <2> DEFINE new == [k \in 1..n |-> NewEvent(k, owner.ver + 1)]
  <2>1. /\ pending' = pending \o new /\ extra' = <<>>
        /\ UNCHANGED <<file, journal, left>>
    BY <1>1, <1>d DEF Commit, Take
  <2>2. \A k \in 1..n : NewEvent(k, owner.ver + 1) \in Event
    <3>1. ASSUME NEW k \in 1..n PROVE NewEvent(k, owner.ver + 1) \in Event
      <4>0. issued \in Nat /\ counter \in Nat /\ owner.ver \in Nat
        BY <1>0
      <4>1. issued + k \in Nat \ {0} /\ counter + k \in Nat \ {0} /\ owner.ver + 1 \in Nat
        BY <4>0, NumbersOfCommit
      <4> QED BY <4>1 DEF NewEvent, Event
    <3> QED BY <3>1
  <2>3. new \in Seq(Event)
    BY <2>2
  <2>4. DOMAIN new = 1..n /\ \A k \in 1..n : new[k].seq = counter + k
    BY DEF NewEvent
  <2> HIDE DEF new
  <2>5. Increasing(new)
    BY <1>0, <2>4 DEF Increasing
  <2>6. \A j \in DOMAIN pending, k \in DOMAIN new : pending[j].seq < new[k].seq
    <3>1. ASSUME NEW j \in DOMAIN pending, NEW k \in 1..n
          PROVE  pending[j].seq < new[k].seq
      <4>1. pending[j].seq \in Nat /\ pending[j].seq <= counter
        BY <1>0, <1>c, EventFacts DEF UpTo
      <4> QED BY <1>0, <2>4, <4>1
    <3> QED BY <2>4, <3>1
  <2>7. Increasing(pending')
    BY <1>0, <1>a, <2>1, <2>3, <2>5, <2>6, IncreasingConcat
  <2>8. pending' \o extra' = pending'
    BY <1>0, <2>1, <2>3, ConcatEntries
  <2> QED BY <1>a, <2>1, <2>7, <2>8 DEF Ordered
<1>2. CASE Reserve
  BY <1>2, <1>a, <1>d, <1>e DEF Reserve, Take, Ordered
<1>3. CASE Detach \/ Load
  BY <1>3, <1>a DEF Detach, Load, Take, Recovering, Ordered
<1>4. CASE DetachedCommit
  <2> DEFINE e == NewEvent(1, ckpt.ver)
  <2>1. extra' = <<e>> /\ UNCHANGED <<pending, file, journal, left>>
    BY <1>4 DEF DetachedCommit
  <2>2. e \in Event /\ e.seq = counter + 1
    BY <1>0 DEF NewEvent, Event
  <2> HIDE DEF e
  <2>3. <<e>> \in Seq(Event) /\ DOMAIN <<e>> = {1} /\ <<e>>[1] = e
    BY <2>2
  <2>4. Increasing(<<e>>)
    BY <2>3 DEF Increasing
  <2>5. \A j \in DOMAIN pending, k \in DOMAIN <<e>> : pending[j].seq < <<e>>[k].seq
    <3>1. ASSUME NEW j \in DOMAIN pending PROVE pending[j].seq < counter + 1
      <4>1. pending[j].seq \in Nat /\ pending[j].seq <= counter
        BY <1>0, <1>c, EventFacts DEF UpTo
      <4> QED BY <1>0, <4>1
    <3> QED BY <2>2, <2>3, <3>1
  <2>6. Increasing(pending \o <<e>>)
    BY <1>0, <1>a, <2>3, <2>4, <2>5, IncreasingConcat
  <2> QED BY <1>a, <2>1, <2>6 DEF Ordered
<1>5. CASE WriteJournal
  BY <1>5, <1>a DEF WriteJournal, Batch, Ordered
<1>6. CASE JournalFails
  <2>2. journal' = journal \/ journal' = Batch
    BY <1>6 DEF JournalFails
  <2>3. Increasing(Batch.events)
    BY <1>6, <1>a DEF JournalFails, Batch
  <2>1. Increasing(journal'.events)
    BY <1>a, <2>2, <2>3
  <2> QED BY <1>6, <1>a, <1>b, <1>f, <2>1 DEF JournalFails, Ordered
<1>7. CASE WriteCheckpoint
  BY <1>7, <1>a DEF WriteCheckpoint, Ordered
<1>8. CASE ScanEvents
  BY <1>8, <1>a DEF ScanEvents, Ordered
<1>9. CASE ScanRefused \/ CheckpointFails \/ AppendFails
  <2>1. Fail /\ UNCHANGED <<journal, file>>
    BY <1>9 DEF ScanRefused, CheckpointFails, AppendFails
  <2> QED BY <1>a, <1>b, <1>f, <2>1 DEF Ordered
<1>10. CASE AppendEvent
  <2>1. stage = "append" /\ left # <<>>
    BY <1>10 DEF AppendEvent
  <2>2. Head(left) \in Event /\ 1 \in DOMAIN left /\ Head(left) = left[1]
    BY <1>0, <2>1, TailEntries, EventFacts
  <2>3. Head(left).seq > last => After(file, Head(left))
    BY <2>1, <2>2 DEF StoreInv, Placed
  <2>4. Increasing(file')
    BY <1>0, <1>10, <1>a, <2>2, <2>3, IncreasingAppend DEF AppendEvent
  <2>5. Increasing(left')
    BY <1>0, <1>10, <1>a, <2>1, IncreasingTail DEF AppendEvent
  <2> QED BY <1>10, <1>a, <2>1, <2>4, <2>5 DEF AppendEvent, Ordered
<1>11. CASE AppendDone
  BY <1>11, <1>a DEF AppendDone, Ordered
<1>12. CASE RemoveJournal
  <2>1. /\ journal' = NoJournal /\ pending' \in {pending, <<>>} /\ left' = <<>>
        /\ stage' # "journal" /\ file' = file
    BY <1>12 DEF RemoveJournal
  <2> QED BY <1>a, <1>b, <2>1 DEF Ordered
<1>13. CASE LoadUnlock \/ LoadStat \/ LoadRead \/ LoadReplaced
  BY <1>13, <1>a, <1>b DEF LoadUnlock, LoadStat, LoadRead, LoadReplaced, Ordered
<1>14. CASE RemoveFails
  <2>1. Fail /\ journal' \in {journal, NoJournal} /\ file' = file
    BY <1>14 DEF RemoveFails
  <2> QED BY <1>a, <1>b, <1>f, <2>1 DEF Ordered
<1>15. CASE Crash
  BY <1>15, <1>a, <1>b DEF Crash, Ordered
<1>16. CASE UNCHANGED vars
  BY <1>16, <1>a DEF vars, Ordered
<1> QED BY <1>1, <1>2, <1>3, <1>4, <1>5, <1>6, <1>7, <1>8, <1>9, <1>10, <1>11,
           <1>12, <1>13, <1>14, <1>15, <1>16
        DEF Next, Holder, Reader, Faulty

-----------------------------------------------------------------------------
(* What is still to be written.                                            *)

\* An action keeps what is to be written after what is written.
LEMMA PlacedKept ==
  ASSUME StoreInv, [Next]_vars
  PROVE  Placed'
<1> USE DEF Release, disk, memory, lock, load, ghost
<1>0. /\ journal.events \in Seq(Event) /\ file \in Seq(Event)
      /\ pending \in Seq(Event) /\ extra \in Seq(Event) /\ left \in Seq(Event)
      /\ counter \in Nat /\ issued \in Nat /\ last \in Nat
      /\ owner.ver \in Nat /\ ckpt.ver \in Nat
      /\ ckpt.next \in Nat /\ journal.state.next \in Nat
  BY SessionParts DEF StoreInv, TypeOK
<1>p. \A k \in DOMAIN pending :
        \/ InSeq(pending[k], file)
        \/ InSeq(pending[k], journal.events)
        \/ After(file, pending[k]) /\ After(journal.events, pending[k])
  BY DEF StoreInv, Placed
<1>q. \A k \in DOMAIN journal.events : Settled(journal.events[k])
  BY DEF StoreInv, Placed
<1>r. stage = "journal" => \A k \in DOMAIN extra : After(file, extra[k])
  BY DEF StoreInv, Placed
<1>s. stage = "append" =>
       /\ \A k \in DOMAIN journal.events :
            InSeq(journal.events[k], file) \/ InSeq(journal.events[k], left)
       /\ \A k \in DOMAIN left :
            /\ InSeq(left[k], journal.events)
            /\ left[k].seq > last => After(file, left[k])
            /\ left[k].seq <= last => InSeq(left[k], file)
  BY DEF StoreInv, Placed
<1>t. stage = "remove" =>
        \A k \in DOMAIN journal.events : InSeq(journal.events[k], file)
  BY DEF StoreInv, Placed
<1>a. /\ Alive => /\ ckpt.next <= counter /\ journal.state.next <= counter
      /\ UpTo(file, ckpt.next) /\ UpTo(journal.events, journal.state.next)
  BY DEF StoreInv, Numbered
<1>b. /\ holder = None => extra = <<>> /\ stage = "idle"
      /\ ~Alive => holder \in {None, "load"} /\ owner = NoSession
  BY DEF StoreInv, Held
<1>c. Alive => UpTo(file, counter) /\ UpTo(journal.events, counter)
  BY <1>0, <1>a, UpToMore
<1>d. ASSUME Alive, NEW e \in Event, e.seq > counter
      PROVE  After(file, e) /\ After(journal.events, e)
  <2>1. e.seq \in Nat
    BY <1>d DEF Event
  <2>2. ASSUME NEW s \in Seq(Event), UpTo(s, counter) PROVE After(s, e)
    <3>1. \A k \in DOMAIN s : s[k].seq \in Nat /\ s[k].seq <= counter
      BY <2>2, EventFacts DEF UpTo
    <3> QED BY <1>0, <1>d, <2>1, <3>1 DEF After
  <2> QED BY <1>0, <1>c, <1>d, <2>2
<1>f. Fail => stage' = "idle" /\ pending' = pending
  BY DEF Fail
<1>g. ASSUME UNCHANGED <<journal, file>>, pending' \in {pending, <<>>},
             stage' \in {"idle", "read", "checkpoint", "scan"}
      PROVE  Placed'
  BY <1>p, <1>q, <1>g DEF Placed, Settled, InSeq, After
<1>h. ASSUME stage = "remove", journal' \in {journal, NoJournal}, file' = file,
             pending' \in {pending, <<>>}, stage' \in {"idle", "read"}
      PROVE  Placed'
  <2>1. \A k \in DOMAIN pending :
          InSeq(pending[k], file) \/ After(file, pending[k])
    BY <1>h, <1>p, <1>t DEF InSeq
  <2>2. CASE journal' = journal
    BY <1>g, <1>h, <2>2
  <2>3. CASE journal' = NoJournal
    <3>1. DOMAIN NoJournal.events = {}
      BY DEF NoJournal
    <3> QED BY <1>h, <2>1, <2>3, <3>1 DEF Placed, Settled, InSeq, After
  <2> QED BY <1>h, <2>2, <2>3
<1>1. ASSUME NEW n \in 0..2, Commit(n) PROVE Placed'
  <2> DEFINE new == [k \in 1..n |-> NewEvent(k, owner.ver + 1)]
  <2>1. /\ pending' = pending \o new /\ extra' = <<>> /\ Alive
        /\ UNCHANGED <<file, journal>> /\ stage' = "journal"
    BY <1>1, <1>b DEF Commit, Take
  <2>2. \A k \in 1..n : NewEvent(k, owner.ver + 1) \in Event /\ NewEvent(k, owner.ver + 1).seq > counter
    <3>1. ASSUME NEW k \in 1..n
          PROVE  NewEvent(k, owner.ver + 1) \in Event /\ NewEvent(k, owner.ver + 1).seq > counter
      <4>0. issued \in Nat /\ counter \in Nat /\ owner.ver \in Nat
        BY <1>0
      <4>1. issued + k \in Nat \ {0} /\ counter + k \in Nat \ {0} /\ owner.ver + 1 \in Nat
            /\ counter + k > counter
        BY <4>0, NumbersOfCommit
      <4> QED BY <4>1 DEF NewEvent, Event
    <3> QED BY <3>1
  <2>3. new \in Seq(Event)
    BY <2>2
  <2>4. \A k \in DOMAIN new : new[k] \in Event /\ new[k].seq > counter
    BY <2>2
  <2> HIDE DEF new
  <2>5. \A k \in DOMAIN pending' :
          \/ InSeq(pending'[k], file)
          \/ InSeq(pending'[k], journal.events)
          \/ After(file, pending'[k]) /\ After(journal.events, pending'[k])
    <3>1. SUFFICES ASSUME NEW k \in DOMAIN (pending \o new)
                   PROVE  \/ InSeq((pending \o new)[k], file)
                          \/ InSeq((pending \o new)[k], journal.events)
                          \/ /\ After(file, (pending \o new)[k])
                             /\ After(journal.events, (pending \o new)[k])
      BY <2>1
    <3>2. \/ k \in DOMAIN pending /\ (pending \o new)[k] = pending[k]
          \/ k - Len(pending) \in DOMAIN new /\ (pending \o new)[k] = new[k - Len(pending)]
      BY <1>0, <2>3, ConcatEntries
    <3> QED BY <1>d, <1>p, <2>1, <2>4, <3>2
  <2> QED BY <1>q, <2>1, <2>5 DEF Placed, Settled, InSeq, After
<1>2. CASE Reserve
  <2>1. /\ pending' = pending /\ extra' = <<>>
        /\ UNCHANGED <<file, journal>> /\ stage' = "journal"
    BY <1>2, <1>b DEF Reserve, Take
  <2> QED BY <1>p, <1>q, <2>1 DEF Placed, Settled, InSeq, After
<1>3. CASE Detach \/ Load
  <2>1. /\ UNCHANGED <<file, journal, pending>> /\ stage' \in {"read", "checkpoint"}
    BY <1>3 DEF Detach, Load, Take, Recovering
  <2> QED BY <1>g, <2>1
<1>4. CASE DetachedCommit
  <2> DEFINE e == NewEvent(1, ckpt.ver)
  <2>1. /\ extra' = <<e>> /\ UNCHANGED <<pending, file, journal>>
        /\ stage' = "journal"
    BY <1>4 DEF DetachedCommit
  <2>2. Alive
    BY <1>4, <1>b DEF DetachedCommit, None
  <2>3. e \in Event /\ e.seq > counter
    BY <1>0 DEF NewEvent, Event
  <2> HIDE DEF e
  <2>4. After(file, e)
    BY <1>d, <2>2, <2>3
  <2>5. \A k \in DOMAIN extra' : extra'[k] = e
    BY <2>1
  <2> QED BY <1>p, <1>q, <2>1, <2>4, <2>5 DEF Placed, Settled, InSeq, After
<1>5. CASE WriteJournal \/ JournalFails
  <2>1. stage = "journal" /\ UNCHANGED <<file, pending>>
        /\ journal' \in {journal, Batch} /\ stage' \in {"checkpoint", "idle"}
    BY <1>5 DEF WriteJournal, JournalFails, Fail
  <2>2. CASE journal' = journal
    BY <1>g, <2>1, <2>2
  <2>3. CASE journal' = Batch
    <3>1. journal'.events = pending \o extra
      BY <2>3 DEF Batch
    <3>2. \A k \in DOMAIN pending : InSeq(pending[k], pending \o extra)
      BY <1>0, ConcatEntries DEF InSeq
    <3>3. ASSUME NEW k \in DOMAIN pending PROVE Settled(pending[k])
      BY <1>p, <1>q DEF Settled, InSeq
    <3>4. ASSUME NEW k \in DOMAIN extra PROVE Settled(extra[k])
      BY <1>r, <2>1 DEF Settled
    <3>5. \A k \in DOMAIN (pending \o extra) : Settled((pending \o extra)[k])
      BY <1>0, <3>3, <3>4, ConcatEntries
    <3>6. \A k \in DOMAIN journal'.events :
            InSeq(journal'.events[k], file') \/ After(file', journal'.events[k])
      BY <2>1, <3>1, <3>5 DEF Settled
    <3>7. \A k \in DOMAIN pending' : InSeq(pending'[k], journal'.events)
      BY <2>1, <3>1, <3>2
    <3>8. stage' \notin {"journal", "append", "remove"}
      BY <2>1
    <3> QED BY <3>6, <3>7, <3>8 DEF Placed, Settled, InSeq, After
  <2> QED BY <2>1, <2>2, <2>3
<1>6. CASE WriteCheckpoint
  <2>1. UNCHANGED <<journal, file, pending>>
    BY <1>6 DEF WriteCheckpoint
  <2>2. CASE journal.events = <<>>
    <3>1. DOMAIN journal.events = {} /\ stage' = "remove"
      BY <1>6, <2>2 DEF WriteCheckpoint
    <3> QED BY <1>p, <2>1, <3>1 DEF Placed, Settled, InSeq, After
  <2>3. CASE journal.events # <<>>
    BY <1>6, <1>g, <2>1, <2>3 DEF WriteCheckpoint
  <2> QED BY <2>2, <2>3
<1>7. CASE ScanRefused \/ CheckpointFails \/ AppendFails
  <2>1. Fail /\ UNCHANGED <<journal, file>>
    BY <1>7 DEF ScanRefused, CheckpointFails, AppendFails
  <2> QED BY <1>f, <1>g, <2>1
<1>8. CASE ScanEvents
  <2>1. /\ UNCHANGED <<journal, file, pending>> /\ stage' = "append"
        /\ left' = journal.events /\ last' = LastSequence
    BY <1>8 DEF ScanEvents
  <2>2. /\ LastSequence \in Nat
        /\ UpTo(file, LastSequence)
        /\ LastSequence = 0 \/ \E k \in DOMAIN file : file[k].seq = LastSequence
    BY LastSequenceFacts DEF StoreInv, Ordered, Increasing, EventsInOrder
  <2>3. ASSUME NEW k \in DOMAIN journal.events
        PROVE  /\ InSeq(journal.events[k], journal.events)
               /\ journal.events[k].seq > LastSequence => After(file, journal.events[k])
               /\ journal.events[k].seq <= LastSequence => InSeq(journal.events[k], file)
    <3>1. journal.events[k].seq \in Nat /\ journal.events[k].seq > 0
      BY <1>0, EventFacts
    <3>2. \A j \in DOMAIN file : file[j].seq \in Nat /\ file[j].seq <= LastSequence
      BY <1>0, <2>2, EventFacts DEF UpTo
    <3>3. journal.events[k].seq > LastSequence => After(file, journal.events[k])
      BY <2>2, <3>1, <3>2 DEF After
    <3>4. After(file, journal.events[k]) => journal.events[k].seq > LastSequence
      BY <2>2, <3>1, <3>2 DEF After
    <3>5. InSeq(journal.events[k], file) \/ After(file, journal.events[k])
      BY <1>q DEF Settled
    <3> QED BY <2>2, <3>1, <3>3, <3>4, <3>5 DEF InSeq
  <2> QED BY <1>p, <1>q, <2>1, <2>3 DEF Placed, Settled, InSeq, After
<1>9. CASE AppendEvent
  <2> DEFINE h == Head(left)
  <2>1. /\ stage = "append" /\ left # <<>> /\ left' = Tail(left) /\ stage' = "append"
        /\ file' = IF h.seq > last THEN Append(file, h) ELSE file
        /\ UNCHANGED <<journal, pending, last>>
    BY <1>9 DEF AppendEvent
  <2>2. h \in Event /\ h = left[1] /\ 1 \in DOMAIN left
    BY <1>0, <2>1, TailEntries, EventFacts
  <2>3. /\ InSeq(h, journal.events)
        /\ h.seq > last => After(file, h)
        /\ h.seq <= last => InSeq(h, file)
    BY <1>s, <2>1, <2>2
  <2> HIDE DEF h
  <2>4. \A e : InSeq(e, file) => InSeq(e, file')
    <3>1. \A k \in DOMAIN file : k \in DOMAIN file' /\ file'[k] = file[k]
      BY <1>0, <2>1, <2>2, AppendEntries
    <3> QED BY <3>1 DEF InSeq
  <2>5. InSeq(h, file')
    <3>1. CASE h.seq > last
      <4>1. Len(file) + 1 \in DOMAIN file' /\ file'[Len(file) + 1] = h
        BY <1>0, <2>1, <2>2, <3>1, AppendEntries
      <4> QED BY <4>1 DEF InSeq
    <3>2. CASE ~(h.seq > last)
      <4>1. h.seq \in Nat
        BY <2>2 DEF Event
      <4>2. h.seq <= last
        BY <1>0, <3>2, <4>1
      <4> QED BY <2>3, <2>4, <4>2
    <3> QED BY <3>1, <3>2
  <2>6. ASSUME NEW e, After(file, e), h.seq < e.seq PROVE After(file', e)
    <3>1. \A k \in DOMAIN file' : file'[k] = h \/ (k \in DOMAIN file /\ file'[k] = file[k])
      BY <1>0, <2>1, <2>2, AppendEntries
    <3> QED BY <2>6, <3>1 DEF After
  <2>7. /\ Tail(left) \in Seq(Event)
        /\ \A k \in DOMAIN Tail(left) : k + 1 \in DOMAIN left /\ Tail(left)[k] = left[k + 1]
        /\ \A k \in DOMAIN left : k = 1 \/ (k - 1 \in DOMAIN Tail(left) /\ Tail(left)[k - 1] = left[k])
        /\ \A k \in DOMAIN Tail(left) : h.seq < Tail(left)[k].seq
    <3>1. Increasing(left)
      BY DEF StoreInv, Ordered
    <3> QED BY <1>0, <2>1, <3>1, TailEntries, IncreasingTail DEF h
  <2>8. ASSUME NEW k \in DOMAIN left'
        PROVE  /\ InSeq(left'[k], journal.events)
               /\ left'[k].seq > last => After(file', left'[k])
               /\ left'[k].seq <= last => InSeq(left'[k], file')
    <3>1. k + 1 \in DOMAIN left /\ left'[k] = left[k + 1] /\ h.seq < left'[k].seq
      BY <2>1, <2>7, <2>8
    <3>2. /\ InSeq(left'[k], journal.events)
          /\ left'[k].seq > last => After(file, left'[k])
          /\ left'[k].seq <= last => InSeq(left'[k], file)
      BY <1>s, <2>1, <3>1
    <3> QED BY <2>4, <2>6, <3>1, <3>2
  <2>9. ASSUME NEW k \in DOMAIN journal.events
        PROVE  InSeq(journal.events[k], file') \/ InSeq(journal.events[k], left')
    <3>1. CASE InSeq(journal.events[k], file)
      BY <2>4, <3>1
    <3>2. CASE InSeq(journal.events[k], left)
      <4>1. PICK j \in DOMAIN left : left[j] = journal.events[k]
        BY <3>2 DEF InSeq
      <4>2. CASE j = 1
        BY <2>2, <2>5, <4>1, <4>2
      <4>3. CASE j # 1
        <5>1. j - 1 \in DOMAIN left' /\ left'[j - 1] = journal.events[k]
          BY <2>1, <2>7, <4>1, <4>3
        <5> QED BY <5>1 DEF InSeq
      <4> QED BY <4>2, <4>3
    <3> QED BY <1>s, <2>1, <3>1, <3>2
  <2>10. ASSUME NEW k \in DOMAIN journal.events
         PROVE  InSeq(journal.events[k], file') \/ After(file', journal.events[k])
    <3>1. CASE InSeq(journal.events[k], left')
      <4>1. PICK j \in DOMAIN left' : left'[j] = journal.events[k]
        BY <3>1 DEF InSeq
      <4>2. left'[j].seq \in Nat
        BY <2>1, <2>7, EventFacts
      <4> QED BY <1>0, <2>8, <4>1, <4>2
    <3> QED BY <2>9, <3>1
  <2>11. ASSUME NEW k \in DOMAIN pending
         PROVE  \/ InSeq(pending[k], file')
                \/ InSeq(pending[k], journal.events)
                \/ After(file', pending[k]) /\ After(journal.events, pending[k])
    <3>1. CASE After(file, pending[k]) /\ After(journal.events, pending[k])
      <4>1. h.seq < pending[k].seq
        BY <2>3, <3>1 DEF InSeq, After
      <4> QED BY <2>6, <3>1, <4>1
    <3> QED BY <1>p, <2>4, <3>1
  <2>12. (\A k \in DOMAIN pending :
            \/ InSeq(pending[k], file)
            \/ InSeq(pending[k], journal.events)
            \/ After(file, pending[k]) /\ After(journal.events, pending[k]))'
    BY <2>1, <2>11 DEF InSeq, After
  <2>13. (\A k \in DOMAIN journal.events : Settled(journal.events[k]))'
    BY <2>1, <2>10 DEF Settled, InSeq, After
  <2>14. (\A k \in DOMAIN journal.events :
            InSeq(journal.events[k], file) \/ InSeq(journal.events[k], left))'
    BY <2>1, <2>9 DEF InSeq
  <2>15. (\A k \in DOMAIN left :
            /\ InSeq(left[k], journal.events)
            /\ left[k].seq > last => After(file, left[k])
            /\ left[k].seq <= last => InSeq(left[k], file))'
    BY <2>1, <2>8 DEF InSeq, After
  <2> QED BY <2>1, <2>12, <2>13, <2>14, <2>15 DEF Placed
<1>10. CASE AppendDone
  <2>1. /\ stage = "append" /\ left = <<>> /\ stage' = "remove"
        /\ UNCHANGED <<journal, file, pending>>
    BY <1>10 DEF AppendDone
  <2>2. \A k \in DOMAIN journal.events : InSeq(journal.events[k], file)
    BY <1>s, <2>1 DEF InSeq
  <2> QED BY <1>p, <1>q, <2>1, <2>2 DEF Placed, Settled, InSeq, After
<1>11. CASE RemoveJournal
  <2>1. /\ stage = "remove" /\ journal' = NoJournal /\ file' = file
        /\ pending' \in {pending, <<>>} /\ stage' \in {"idle", "read"}
    BY <1>11 DEF RemoveJournal
  <2> QED BY <1>h, <2>1
<1>12. CASE RemoveFails
  <2>1. /\ stage = "remove" /\ journal' \in {journal, NoJournal} /\ file' = file
        /\ pending' = pending /\ stage' = "idle"
    BY <1>12, <1>f DEF RemoveFails
  <2> QED BY <1>h, <2>1
<1>13. CASE LoadUnlock
  BY <1>13, <1>g DEF LoadUnlock
<1>14. CASE LoadStat \/ LoadRead \/ LoadReplaced \/ UNCHANGED vars
  <2>1. UNCHANGED <<journal, file, pending, stage, extra, left, last>>
    BY <1>14 DEF LoadStat, LoadRead, LoadReplaced, vars
  <2> QED BY <1>p, <1>q, <1>r, <1>s, <1>t, <2>1 DEF Placed, Settled, InSeq, After
<1>15. CASE Crash
  BY <1>15, <1>g DEF Crash
<1> QED BY <1>1, <1>2, <1>3, <1>4, <1>5, <1>6, <1>7, <1>8, <1>9, <1>10, <1>11,
           <1>12, <1>13, <1>14, <1>15
        DEF Next, Holder, Reader, Faulty

-----------------------------------------------------------------------------
(* What was acknowledged.                                                  *)

\* An action keeps every acknowledged event in the history.
LEMMA AckedKept ==
  ASSUME StoreInv, [Next]_vars
  PROVE  AckedIsDurable'
<1> USE DEF Release, disk, memory, lock, load, ghost
<1>0. file \in Seq(Event) /\ left \in Seq(Event) /\ acked \subseteq Ids(file)
  BY DEF StoreInv, TypeOK, AckedIsDurable
<1>1. CASE AppendEvent
  <2>1. Head(left) \in Event
    BY <1>0, <1>1, HeadTailProperties DEF AppendEvent
  <2>2. \A k \in DOMAIN file : k \in DOMAIN file' /\ file'[k] = file[k]
    BY <1>0, <1>1, <2>1, AppendEntries DEF AppendEvent
  <2>3. acked' = acked
    BY <1>1 DEF AppendEvent
  <2> QED BY <1>0, <2>2, <2>3 DEF AckedIsDurable, Ids
<1>2. CASE RemoveJournal
  <2>1. file' = file /\ acked' \in {acked, acked \cup Ids(journal.events)}
    BY <1>2 DEF RemoveJournal
  <2>2. \A k \in DOMAIN journal.events : InSeq(journal.events[k], file)
    BY <1>2 DEF RemoveJournal, StoreInv, Placed
  <2>3. Ids(journal.events) \subseteq Ids(file)
    BY <2>2 DEF InSeq, Ids
  <2> QED BY <1>0, <2>1, <2>3 DEF AckedIsDurable, Ids
<1>3. CASE file' = file /\ acked' = acked
  BY <1>0, <1>3 DEF AckedIsDurable, Ids
<1>4. CASE \E n \in 0..2 : Commit(n)
  BY <1>3, <1>4 DEF Commit
<1>5. CASE Reserve \/ Detach \/ Load \/ UNCHANGED vars
  BY <1>3, <1>5 DEF Reserve, Detach, Load, vars
<1>6. CASE DetachedCommit \/ WriteJournal \/ WriteCheckpoint \/ ScanEvents \/ AppendDone
  BY <1>3, <1>6 DEF DetachedCommit, WriteJournal, WriteCheckpoint, ScanEvents, AppendDone
<1>7. CASE ScanRefused \/ Faulty
  BY <1>3, <1>7 DEF ScanRefused, Faulty, JournalFails, CheckpointFails, AppendFails,
                    RemoveFails, Crash, Fail
<1>8. CASE LoadUnlock \/ Reader
  BY <1>3, <1>8 DEF LoadUnlock, Reader, LoadStat, LoadRead, LoadReplaced
<1> QED BY <1>1, <1>2, <1>4, <1>5, <1>6, <1>7, <1>8 DEF Next, Holder

-----------------------------------------------------------------------------
(* The model calls.                                                        *)

\* What each action that changes the owner's Session does to its numbers.
LEMMA OwnerChanges ==
  ASSUME StoreInv
  PROVE  /\ \A n \in 0..2 : Commit(n) =>
              owner'.calls = owner.calls /\ owner'.ver = owner.ver + 1
         /\ Reserve => owner'.calls = owner.calls + 1 /\ owner'.ver = owner.ver
         /\ Fail => /\ owner'.ver = owner.ver
                    /\ owner'.calls = IF holder = "reserve" THEN owner.calls - 1
                                      ELSE owner.calls
<1>1. owner \in Session /\ owner.ver \in Nat /\ owner.calls \in Nat /\ counter \in Nat
  BY SessionParts DEF StoreInv, TypeOK
<1>2. ASSUME NEW n \in 0..2, Commit(n)
      PROVE  owner'.calls = owner.calls /\ owner'.ver = owner.ver + 1
  <2>1. owner' = Sequenced([owner EXCEPT !.ver = owner.ver + 1], counter + n)
    BY <1>2 DEF Commit
  <2>2. owner.ver + 1 \in Nat
    BY <1>1
  <2>3. [owner EXCEPT !.ver = owner.ver + 1] \in Session
    BY <1>1, <2>2, SessionRecord
  <2>4. /\ [owner EXCEPT !.ver = owner.ver + 1].calls = owner.calls
        /\ [owner EXCEPT !.ver = owner.ver + 1].ver = owner.ver + 1
    BY <1>1 DEF Session
  <2> QED BY <2>1, <2>3, <2>4, VersionKept
<1>3. Reserve => owner'.calls = owner.calls + 1 /\ owner'.ver = owner.ver
  <2>1. SUFFICES ASSUME Reserve PROVE owner'.calls = owner.calls + 1 /\ owner'.ver = owner.ver
    OBVIOUS
  <2>2. owner' = Sequenced([owner EXCEPT !.calls = owner.calls + 1], counter)
    BY <2>1 DEF Reserve
  <2>3. owner.calls + 1 \in Nat
    BY <1>1
  <2>4. [owner EXCEPT !.calls = owner.calls + 1] \in Session
    BY <1>1, <2>3, SessionRecord
  <2>5. /\ [owner EXCEPT !.calls = owner.calls + 1].calls = owner.calls + 1
        /\ [owner EXCEPT !.calls = owner.calls + 1].ver = owner.ver
    BY <1>1 DEF Session
  <2> QED BY <2>2, <2>4, <2>5, VersionKept
<1>4. Fail => /\ owner'.ver = owner.ver
              /\ owner'.calls = IF holder = "reserve" THEN owner.calls - 1
                                ELSE owner.calls
  BY <1>1, VersionKept DEF Fail, TakeBack
<1> QED BY <1>2, <1>3, <1>4

\* An action keeps every entered call counted.
LEMMA CountedKept ==
  ASSUME StoreInv, Counted, [Next]_vars
  PROVE  Counted'
<1> USE DEF Release, disk, memory, lock, load, ghost
<1>0. /\ ckpt \in Session /\ owner \in Session /\ journal.state \in Session
      /\ ckpt.calls \in Nat /\ owner.calls \in Nat /\ journal.state.calls \in Nat
      /\ counter \in Nat /\ made \in Nat /\ MaxModelCalls \in Nat
      /\ owner.ver \in Nat /\ ckpt.ver \in Nat
  BY StoreAssumption, SessionParts DEF StoreInv, TypeOK
<1>a. /\ made <= ckpt.calls
      /\ journal # NoJournal => made <= journal.state.calls
      /\ Alive => made <= owner.calls
      /\ holder = "reserve" => made < owner.calls
      /\ holder = "reserve" /\ stage # "journal" => made < journal.state.calls
      /\ ckpt.calls <= MaxModelCalls /\ journal.state.calls <= MaxModelCalls
      /\ owner.calls <= MaxModelCalls
  BY DEF Counted
<1>b. /\ stage = "idle" <=> holder = None
      /\ ~Alive => holder \in {None, "load"} /\ owner = NoSession
      /\ stage = "read" => journal = NoJournal /\ holder \in {"detached", "load"}
      /\ holder = "load" => stage # "journal"
      /\ stage \in {"checkpoint", "scan", "append", "remove"} => journal # NoJournal
  BY DEF StoreInv, Held
<1>c. owner # NoSession => Alive
  BY <1>b
<1>d. owner' = owner => Alive' = Alive
  BY DEF Alive
<1>e. NoJournal.state.calls = 0 /\ NoSession.calls = 0
  BY DEF NoJournal, NoSession
<1>f. Fail => /\ Alive' = Alive /\ made' = made /\ holder' = None
              /\ Alive => made' <= owner'.calls
              /\ owner'.calls <= MaxModelCalls
  BY <1>0, <1>a, OwnerChanges DEF Fail, Alive
<1>1. ASSUME NEW n \in 0..2, Commit(n) PROVE Counted'
  <2>1. owner'.calls = owner.calls /\ Alive
    BY <1>1, <1>c, OwnerChanges DEF Commit
  <2> QED BY <1>1, <1>a, <2>1 DEF Commit, Take, Counted
<1>2. CASE Reserve
  <2>1. owner'.calls = owner.calls + 1 /\ Alive /\ owner.calls < MaxModelCalls
    BY <1>2, <1>c, OwnerChanges DEF Reserve
  <2>2. made' = made /\ holder' = "reserve" /\ stage' = "journal"
        /\ ckpt' = ckpt /\ journal' = journal
    BY <1>2 DEF Reserve, Take
  <2> QED BY <1>0, <1>a, <2>1, <2>2 DEF Counted
<1>3. CASE Detach \/ Load
  BY <1>3, <1>a, <1>d DEF Detach, Load, Take, Counted
<1>4. CASE DetachedCommit \/ LoadUnlock \/ LoadStat \/ LoadReplaced
  BY <1>4, <1>a, <1>d DEF DetachedCommit, LoadUnlock, LoadStat, LoadReplaced, Counted, None
<1>5. CASE WriteJournal \/ JournalFails
  <2>1. Alive /\ stage = "journal"
    BY <1>5, <1>b DEF WriteJournal, JournalFails, None
  <2>2. Batch.state.calls = IF holder = "detached" THEN ckpt.calls ELSE owner.calls
    BY <1>0, VersionKept DEF Batch
  <2>3. CASE WriteJournal
    BY <1>0, <1>a, <1>d, <2>1, <2>2, <2>3 DEF WriteJournal, Counted
  <2>4. CASE JournalFails
    <3>1. /\ journal' # NoJournal => made <= journal'.state.calls
          /\ journal'.state.calls <= MaxModelCalls
      BY <2>4, <1>0, <1>a, <2>1, <2>2 DEF JournalFails
    <3> QED BY <2>4, <1>a, <1>f, <2>1, <3>1 DEF JournalFails, Counted, None
  <2> QED BY <1>5, <2>3, <2>4
<1>6. CASE WriteCheckpoint \/ CheckpointFails
  <2>1. made <= journal.state.calls
    BY <1>6, <1>a, <1>b DEF WriteCheckpoint, CheckpointFails
  <2>2. CASE WriteCheckpoint
    BY <2>1, <2>2, <1>a, <1>d DEF WriteCheckpoint, Counted
  <2>3. CASE CheckpointFails
    BY <2>1, <2>3, <1>a, <1>f DEF CheckpointFails, Counted, None
  <2> QED BY <1>6, <2>2, <2>3
<1>7. CASE ScanEvents \/ AppendEvent \/ AppendDone
  BY <1>7, <1>a, <1>d DEF ScanEvents, AppendEvent, AppendDone, Counted
<1>8. CASE ScanRefused \/ AppendFails \/ RemoveFails
  <2>1. ckpt' = ckpt /\ journal' \in {journal, NoJournal} /\ Fail
    BY <1>8 DEF ScanRefused, AppendFails, RemoveFails
  <2> QED BY <2>1, <1>0, <1>a, <1>e, <1>f DEF Counted, None
<1>9. CASE RemoveJournal
  <2>1. /\ ckpt = journal.state /\ ckpt' = ckpt /\ owner' = owner /\ journal' = NoJournal
        /\ stage = "remove"
    BY <1>9 DEF RemoveJournal, StoreInv, Numbered
  <2>2. CASE holder = "load" \/ (holder = "detached" /\ extra = <<>>)
    BY <1>9, <1>0, <1>a, <1>d, <1>e, <2>1, <2>2 DEF RemoveJournal, Counted
  <2>3. CASE ~(holder = "load" \/ (holder = "detached" /\ extra = <<>>))
    <3>1. /\ holder' = None
          /\ made' = IF holder = "reserve" THEN made + 1 ELSE made
      BY <1>9, <2>3 DEF RemoveJournal
    <3>2. holder = "reserve" => Alive /\ made < owner.calls /\ made < ckpt.calls
      BY <1>a, <1>b, <2>1 DEF None
    <3>3. made' <= ckpt.calls /\ (Alive => made' <= owner.calls)
      BY <1>0, <1>a, <3>1, <3>2
    <3> QED BY <1>0, <1>a, <1>d, <1>e, <2>1, <3>1, <3>3 DEF Counted, None
  <2> QED BY <2>2, <2>3
<1>10. CASE LoadRead
  <2>1. CASE owner = NoSession
    <3>1. ~Alive /\ holder # "reserve"
      BY <2>1, <1>b DEF Alive, NoSession, None
    <3>2. owner' = ckpt /\ ckpt' = ckpt /\ journal' = journal /\ made' = made
          /\ holder' = holder
      BY <1>10, <2>1 DEF LoadRead
    <3> QED BY <1>a, <3>1, <3>2 DEF Counted
  <2>2. CASE owner # NoSession
    BY <1>10, <1>a, <1>d, <2>2 DEF LoadRead, Counted
  <2> QED BY <2>1, <2>2
<1>11. CASE Crash
  <2>1. ~Alive' /\ owner'.calls = 0
    BY <1>11 DEF Crash, Alive, NoSession
  <2> QED BY <1>11, <1>0, <1>a, <2>1 DEF Crash, Counted, None
<1>12. CASE UNCHANGED vars
  BY <1>12, <1>a, <1>d DEF vars, Counted
<1> QED BY <1>1, <1>2, <1>3, <1>4, <1>5, <1>6, <1>7, <1>8, <1>9, <1>10, <1>11, <1>12
        DEF Next, Holder, Reader, Faulty

-----------------------------------------------------------------------------
(* What the events report.                                                 *)

\* The versions of a concatenation.
LEMMA VersionsConcat ==
  ASSUME NEW s \in Seq(Event), NEW t \in Seq(Event), NEW n,
         VersionsUpTo(s, n), VersionsUpTo(t, n)
  PROVE  VersionsUpTo(s \o t, n)
BY ConcatEntries DEF VersionsUpTo

\* A later version bounds what an earlier one does.
LEMMA VersionsMore ==
  ASSUME NEW s \in Seq(Event), NEW m \in Nat, NEW n \in Nat, VersionsUpTo(s, m), m <= n
  PROVE  VersionsUpTo(s, n)
BY EventFacts DEF VersionsUpTo

\* Without detached events, an action keeps every event with its Session.
LEMMA VersionedKept ==
  ASSUME ~DetachedEvents, StoreInv, Versioned, [Next]_vars
  PROVE  Versioned'
<1> USE DEF Release, disk, memory, lock, load, ghost
<1>0. /\ ckpt \in Session /\ owner \in Session /\ journal.state \in Session
      /\ ckpt.ver \in Nat /\ owner.ver \in Nat /\ journal.state.ver \in Nat
      /\ journal.events \in Seq(Event) /\ file \in Seq(Event)
      /\ pending \in Seq(Event) /\ left \in Seq(Event)
      /\ counter \in Nat /\ issued \in Nat
  BY SessionParts DEF StoreInv, TypeOK
<1>a. /\ holder # "detached" /\ extra = <<>>
      /\ VersionsUpTo(file, ckpt.ver)
      /\ VersionsUpTo(journal.events, journal.state.ver)
      /\ VersionsUpTo(pending, owner.ver)
      /\ journal # NoJournal => ckpt.ver <= journal.state.ver
      /\ Alive => ckpt.ver <= owner.ver /\ journal.state.ver <= owner.ver
  BY DEF Versioned
<1>b. /\ stage = "idle" <=> holder = None
      /\ ~Alive => /\ holder \in {None, "load"} /\ owner = NoSession /\ pending = <<>>
                   /\ reader # "idle" => journal = NoJournal
      /\ holder = "load" => stage # "journal"
      /\ stage \in {"checkpoint", "scan", "append", "remove"} => journal # NoJournal
  BY DEF StoreInv, Held
<1>c. owner # NoSession => Alive
  BY <1>b
<1>d. owner' = owner => Alive' = Alive
  BY DEF Alive
<1>e. NoJournal.state.ver = 0 /\ NoJournal.events = <<>> /\ NoSession.ver = 0
  BY DEF NoJournal, NoSession
<1>f. \A n : VersionsUpTo(<<>>, n)
  BY DEF VersionsUpTo
<1>g. Fail => /\ Alive' = Alive /\ owner'.ver = owner.ver /\ pending' = pending
              /\ holder' = None /\ extra' = <<>>
  BY OwnerChanges DEF Fail, Alive
<1>1. ASSUME NEW n \in 0..2, Commit(n) PROVE Versioned'
  <2> DEFINE new == [k \in 1..n |-> NewEvent(k, owner.ver + 1)]
  <2>1. owner'.ver = owner.ver + 1 /\ pending' = pending \o new /\ Alive
    BY <1>1, <1>c, OwnerChanges DEF Commit
  <2>2. owner.ver + 1 \in Nat /\ owner.ver <= owner.ver + 1
    BY <1>0
  <2>3. new \in Seq(Event) /\ VersionsUpTo(new, owner.ver + 1)
    <3>1. ASSUME NEW k \in 1..n
          PROVE  /\ NewEvent(k, owner.ver + 1) \in Event
                 /\ NewEvent(k, owner.ver + 1).ver <= owner.ver + 1
      <4>1. issued + k \in Nat \ {0} /\ counter + k \in Nat \ {0}
        BY <1>0, NumbersOfCommit
      <4> QED BY <2>2, <4>1 DEF NewEvent, Event
    <3> QED BY <3>1 DEF VersionsUpTo
  <2> HIDE DEF new
  <2>4. VersionsUpTo(pending, owner.ver + 1)
    BY <1>0, <1>a, <2>2, VersionsMore
  <2>5. VersionsUpTo(pending', owner'.ver)
    BY <1>0, <2>1, <2>3, <2>4, VersionsConcat
  <2>6. /\ ckpt' = ckpt /\ file' = file /\ journal' = journal /\ extra' = extra
        /\ holder' = "commit"
    BY <1>1 DEF Commit, Take
  <2>7. ckpt.ver <= owner'.ver /\ journal.state.ver <= owner'.ver
    BY <1>0, <1>a, <2>1
  <2> QED BY <1>a, <2>5, <2>6, <2>7 DEF Versioned
<1>2. CASE Reserve
  <2>1. owner'.ver = owner.ver /\ Alive' = Alive
    BY <1>2, OwnerChanges DEF Alive
  <2> QED BY <1>2, <1>a, <2>1 DEF Reserve, Take, Versioned
<1>3. CASE Detach
  BY <1>3 DEF Detach
<1>4. CASE Load
  BY <1>4, <1>a, <1>d DEF Load, Take, Versioned
<1>5. CASE DetachedCommit
  BY <1>5, <1>a DEF DetachedCommit
<1>6. CASE WriteJournal \/ JournalFails
  <2>1. Alive
    BY <1>6, <1>b DEF WriteJournal, JournalFails, None
  <2>2. Batch.state = owner /\ VersionsUpTo(Batch.events, owner.ver)
    BY <1>0, <1>a, <1>f, VersionsConcat DEF Batch
  <2>3. CASE WriteJournal
    BY <1>0, <1>a, <1>d, <2>1, <2>2, <2>3 DEF WriteJournal, Versioned
  <2>4. CASE JournalFails
    <3>1. /\ VersionsUpTo(journal'.events, journal'.state.ver)
          /\ journal' # NoJournal => ckpt.ver <= journal'.state.ver
          /\ journal'.state.ver <= owner.ver
      BY <2>4, <1>0, <1>a, <2>1, <2>2 DEF JournalFails
    <3> QED BY <2>4, <1>a, <1>g, <2>1, <3>1 DEF JournalFails, Versioned, None
  <2> QED BY <1>6, <2>3, <2>4
<1>7. CASE WriteCheckpoint \/ CheckpointFails
  <2>1. ckpt.ver <= journal.state.ver
    BY <1>7, <1>a, <1>b DEF WriteCheckpoint, CheckpointFails
  <2>2. VersionsUpTo(file, journal.state.ver)
    BY <1>0, <1>a, <2>1, VersionsMore
  <2>3. CASE WriteCheckpoint
    BY <1>0, <1>a, <1>d, <2>2, <2>3 DEF WriteCheckpoint, Versioned
  <2>4. CASE CheckpointFails
    BY <1>0, <1>a, <1>g, <2>2, <2>4 DEF CheckpointFails, Versioned, None
  <2> QED BY <1>7, <2>3, <2>4
<1>8. CASE ScanEvents \/ AppendDone
  BY <1>8, <1>a, <1>d DEF ScanEvents, AppendDone, Versioned
<1>9. CASE AppendEvent
  <2>1. Head(left) \in Event /\ 1 \in DOMAIN left /\ Head(left) = left[1]
    <3>1. left # <<>>
      BY <1>9 DEF AppendEvent
    <3>2. 1 \in DOMAIN left /\ Head(left) = left[1]
      BY <1>0, <3>1, TailEntries
    <3> QED BY <1>0, <3>2, EventFacts
  <2>2. Head(left).ver <= ckpt.ver
    <3>1. InSeq(left[1], journal.events)
      BY <1>9, <2>1 DEF AppendEvent, StoreInv, Placed
    <3>2. ckpt = journal.state
      BY <1>9 DEF AppendEvent, StoreInv, Numbered
    <3> QED BY <1>a, <2>1, <3>1, <3>2 DEF InSeq, VersionsUpTo
  <2>3. VersionsUpTo(file', ckpt.ver)
    BY <1>9, <1>0, <1>a, <2>1, <2>2, AppendEntries DEF AppendEvent, VersionsUpTo
  <2> QED BY <1>9, <1>a, <1>d, <2>3 DEF AppendEvent, Versioned
<1>10. CASE ScanRefused \/ AppendFails \/ RemoveFails
  <2>1. ckpt' = ckpt /\ file' = file /\ journal' \in {journal, NoJournal} /\ Fail
    BY <1>10 DEF ScanRefused, AppendFails, RemoveFails
  <2> QED BY <2>1, <1>0, <1>a, <1>e, <1>f, <1>g DEF Versioned, None
<1>11. CASE RemoveJournal
  <2>1. /\ ckpt' = ckpt /\ file' = file /\ owner' = owner /\ journal' = NoJournal
        /\ pending' \in {pending, <<>>} /\ extra' = <<>> /\ holder' \in {holder, None}
    BY <1>11, <1>a DEF RemoveJournal
  <2> QED BY <2>1, <1>0, <1>a, <1>d, <1>e, <1>f DEF Versioned, None
<1>12. CASE LoadUnlock \/ LoadStat \/ LoadReplaced
  BY <1>12, <1>a, <1>d DEF LoadUnlock, LoadStat, LoadReplaced, Versioned, None
<1>13. CASE LoadRead
  <2>1. CASE owner = NoSession
    <3>1. ~Alive /\ pending = <<>> /\ journal = NoJournal
      BY <1>13, <2>1, <1>b DEF LoadRead, Alive, NoSession
    <3>2. owner' = ckpt /\ ckpt' = ckpt /\ journal' = journal /\ file' = file
          /\ pending' = pending /\ holder' = holder /\ extra' = extra
      BY <1>13, <2>1 DEF LoadRead
    <3> QED BY <1>0, <1>a, <1>e, <1>f, <3>1, <3>2 DEF Versioned
  <2>2. CASE owner # NoSession
    BY <1>13, <1>a, <1>d, <2>2 DEF LoadRead, Versioned
  <2> QED BY <2>1, <2>2
<1>14. CASE Crash
  <2>1. ~Alive'
    BY <1>14 DEF Crash, Alive, NoSession
  <2> QED BY <1>14, <1>a, <1>f, <2>1 DEF Crash, Versioned, None
<1>15. CASE UNCHANGED vars
  BY <1>15, <1>a, <1>d DEF vars, Versioned
<1> QED BY <1>1, <1>2, <1>3, <1>4, <1>5, <1>6, <1>7, <1>8, <1>9, <1>10, <1>11, <1>12,
           <1>13, <1>14, <1>15
        DEF Next, Holder, Reader, Faulty

-----------------------------------------------------------------------------
(* One atomic log.                                                         *)

\* The largest of some numbers up to n.
LEMMA MaxFacts ==
  ASSUME NEW n \in Nat, NEW ids \in SUBSET (0..n), ids # {}
  PROVE  Max(ids) \in ids /\ \A i \in ids : i <= Max(ids)
<1> DEFINE Above(i) == {j \in ids : j > i}
           U == {Above(i) : i \in ids}
<1>1. IsFiniteSet(ids)
  <2>1. IsFiniteSet(0..n)
    <3>1. 0 \in Int /\ n \in Int
      OBVIOUS
    <3> QED BY ONLY <3>1, FS_Interval
  <2> QED BY <2>1, FS_Subset
<1>2. IsWellFoundedOn(StrictSubsetOrdering(ids), FiniteSubsetsOf(ids))
  BY FS_StrictSubsetOrderingWellFounded
<1>3. U \subseteq FiniteSubsetsOf(ids) /\ U # {}
  <2>1. \A i \in ids : Above(i) \subseteq ids
    OBVIOUS
  <2>2. \A i \in ids : IsFiniteSet(Above(i))
    BY <1>1, <2>1, FS_Subset
  <2> HIDE DEF Above
  <2> QED BY <2>1, <2>2 DEF FiniteSubsetsOf
<1>4. PICK x \in U : \A y \in U : ~(<<y, x>> \in StrictSubsetOrdering(ids))
  BY <1>2, <1>3, WFMin
<1>5. PICK i \in ids : x = Above(i)
  BY <1>4
<1>6. ASSUME NEW j \in Above(i) PROVE FALSE
  <2>1. Above(j) \subseteq Above(i) /\ j \notin Above(j) /\ j \in ids
    <3>1. \A k \in ids : k \in Int
      OBVIOUS
    <3>2. j \in ids /\ j > i
      OBVIOUS
    <3>3. \A k \in ids : k > j => k > i
      BY ONLY <3>1, <3>2, i \in ids
    <3>4. ~(j > j)
      BY <3>1, <3>2
    <3> QED BY <3>2, <3>3, <3>4
  <2>2. <<Above(j), Above(i)>> \in StrictSubsetOrdering(ids)
    BY <2>1 DEF StrictSubsetOrdering
  <2> QED BY <1>4, <1>5, <2>1, <2>2
<1>7. \A j \in ids : i >= j
  BY <1>6
<1>8. Max(ids) \in ids /\ \A j \in ids : Max(ids) >= j
  BY <1>7 DEF Max
<1> QED BY <1>8

\* An event of the journal is in the file exactly if the scan finds its number.
LEMMA ScanSeparates ==
  ASSUME StoreInv
  PROVE  \A e \in Event : /\ InSeq(e, file) => e.seq <= LastSequence
                          /\ After(file, e) <=> e.seq > LastSequence
<1>1. TypeOK /\ EventsInOrder /\ file \in Seq(Event)
  BY DEF StoreInv, TypeOK, Ordered, Increasing, EventsInOrder
<1>2. /\ LastSequence \in Nat /\ UpTo(file, LastSequence)
      /\ LastSequence = 0 \/ \E k \in DOMAIN file : file[k].seq = LastSequence
  BY <1>1, LastSequenceFacts
<1>3. SUFFICES ASSUME NEW e \in Event
               PROVE  /\ InSeq(e, file) => e.seq <= LastSequence
                      /\ After(file, e) <=> e.seq > LastSequence
  OBVIOUS
<1>4. e.seq \in Nat /\ e.seq > 0
  BY DEF Event
<1>5. \A k \in DOMAIN file : file[k].seq \in Nat /\ file[k].seq <= LastSequence
  BY <1>1, <1>2, EventFacts DEF UpTo
<1>6. InSeq(e, file) => e.seq <= LastSequence
  BY <1>5 DEF InSeq
<1>7. After(file, e) => e.seq > LastSequence
  BY <1>2, <1>4 DEF After
<1>8. e.seq > LastSequence => After(file, e)
  BY <1>2, <1>4, <1>5 DEF After
<1> QED BY <1>6, <1>7, <1>8

\* How much of a list of events is up to a number.
Prefix(events, n, number) ==
  /\ n \in 0..Len(events)
  /\ \A k \in DOMAIN events : k <= n <=> events[k].seq <= number

\* There is one such length.
LEMMA PrefixExists ==
  ASSUME NEW s \in Seq(Event), NEW number \in Nat, Increasing(s)
  PROVE  \E n : Prefix(s, n, number)
<1> DEFINE P == {k \in DOMAIN s : s[k].seq <= number}
<1>1. Len(s) \in Nat /\ DOMAIN s = 1..Len(s)
  OBVIOUS
<1>2. CASE P = {}
  <2>1. 0 \in 0..Len(s) /\ \A k \in DOMAIN s : ~(k <= 0)
    BY <1>1
  <2> QED BY <1>2, <2>1 DEF Prefix
<1>3. CASE P # {}
  <2>1. P \in SUBSET (0..Len(s))
    BY <1>1
  <2> DEFINE top == Max(P)
  <2>2. top \in P /\ \A i \in P : i <= top
    <3> HIDE DEF P
    <3> QED BY <1>1, <1>3, <2>1, MaxFacts
  <2>3. top \in DOMAIN s /\ s[top].seq <= number /\ top \in 0..Len(s)
    BY <1>1, <2>2
  <2> HIDE DEF top
  <2>4. ASSUME NEW k \in DOMAIN s PROVE k <= top <=> s[k].seq <= number
    <3>1. s[k].seq \in Nat /\ s[top].seq \in Nat /\ k \in Nat /\ top \in Nat
      BY <1>1, <2>3, EventFacts
    <3>2. s[k].seq <= number => k <= top
      BY <2>2
    <3>3. k < top => s[k].seq < s[top].seq
      BY <2>3 DEF Increasing
    <3> QED BY <2>3, <3>1, <3>2, <3>3
  <2> QED BY <2>3, <2>4 DEF Prefix
<1> QED BY <1>2, <1>3

LEMMA PrefixUnique ==
  ASSUME NEW s \in Seq(Event), NEW number, NEW m, NEW n,
         Prefix(s, m, number), Prefix(s, n, number)
  PROVE  m = n
<1>1. m \in 0..Len(s) /\ n \in 0..Len(s) /\ DOMAIN s = 1..Len(s) /\ Len(s) \in Nat
  BY DEF Prefix
<1>2. \A k \in DOMAIN s : k <= m <=> k <= n
  BY DEF Prefix
<1>3. CASE m < n
  <2>1. n \in DOMAIN s /\ n <= n /\ ~(n <= m)
    BY <1>1, <1>3
  <2> QED BY <1>2, <2>1
<1>4. CASE n < m
  <2>1. m \in DOMAIN s /\ m <= m /\ ~(m <= n)
    BY <1>1, <1>4
  <2> QED BY <1>2, <2>1
<1> QED BY <1>1, <1>3, <1>4

\* Written is that length for the journal.
LEMMA WrittenFacts ==
  ASSUME StoreInv
  PROVE  /\ Prefix(journal.events, Written, LastSequence)
         /\ \A n : Prefix(journal.events, n, LastSequence) => n = Written
<1>1. journal.events \in Seq(Event) /\ Increasing(journal.events) /\ LastSequence \in Nat
  <2>1. TypeOK /\ EventsInOrder
    BY DEF StoreInv, Ordered, Increasing, EventsInOrder
  <2> QED BY <2>1, LastSequenceFacts DEF StoreInv, TypeOK, Ordered
<1>2. PICK n : Prefix(journal.events, n, LastSequence)
  BY <1>1, PrefixExists
<1>3. Prefix(journal.events, Written, LastSequence)
  BY <1>2 DEF Written, Prefix
<1> QED BY <1>1, <1>3, PrefixUnique

\* The entries of the log.
LogOf(events, n, rest) == events \o SubSeq(rest, n + 1, Len(rest))

LEMMA LogOfEntries ==
  ASSUME NEW s \in Seq(Event), NEW t \in Seq(Event), NEW n \in 0..Len(t)
  PROVE  /\ LogOf(s, n, t) \in Seq(Event)
         /\ Len(LogOf(s, n, t)) = Len(s) + Len(t) - n
         /\ \A k \in 1..(Len(s) + Len(t) - n) :
              LogOf(s, n, t)[k] = IF k <= Len(s) THEN s[k] ELSE t[k - Len(s) + n]
<1> DEFINE r == SubSeq(t, n + 1, Len(t))
<1>1. Len(s) \in Nat /\ Len(t) \in Nat /\ n \in Nat /\ n <= Len(t)
      /\ n + 1 \in Int /\ Len(t) \in Int
  OBVIOUS
<1>2. \A i \in (n + 1)..Len(t) : t[i] \in Event
  OBVIOUS
<1>3. /\ r \in Seq(Event)
      /\ Len(r) = IF n + 1 <= Len(t) THEN Len(t) - (n + 1) + 1 ELSE 0
      /\ \A i \in 1..(Len(t) - (n + 1) + 1) : r[i] = t[n + 1 + i - 1]
  BY <1>1, <1>2, SubSeqProperties
<1>4. Len(r) = Len(t) - n
  BY <1>1, <1>3
<1>5. \A i \in 1..(Len(t) - n) : r[i] = t[i + n]
  <2>1. SUFFICES ASSUME NEW i \in 1..(Len(t) - n) PROVE r[i] = t[i + n]
    OBVIOUS
  <2>2. i \in 1..(Len(t) - (n + 1) + 1) /\ n + 1 + i - 1 = i + n
    BY <1>1
  <2> HIDE DEF r
  <2> QED BY <1>3, <2>2
<1> HIDE DEF r
<1>6. /\ s \o r \in Seq(Event) /\ Len(s \o r) = Len(s) + Len(r)
      /\ \A i \in 1..(Len(s) + Len(r)) :
           (s \o r)[i] = IF i <= Len(s) THEN s[i] ELSE r[i - Len(s)]
  BY <1>3, ConcatProperties
<1>7. ASSUME NEW k \in 1..(Len(s) + Len(t) - n)
      PROVE  (s \o r)[k] = IF k <= Len(s) THEN s[k] ELSE t[k - Len(s) + n]
  <2>1. CASE k <= Len(s)
    BY <1>1, <1>4, <1>6, <2>1
  <2>2. CASE ~(k <= Len(s))
    <3>1. k - Len(s) \in 1..(Len(t) - n) /\ k \in 1..(Len(s) + Len(r))
      BY <1>1, <1>4, <2>2
    <3>2. (s \o r)[k] = r[k - Len(s)]
      BY <1>6, <2>2, <3>1
    <3> QED BY <1>5, <2>2, <3>1, <3>2
  <2> QED BY <2>1, <2>2
<1>8. LogOf(s, n, t) = s \o r
  BY DEF LogOf, r
<1>9. Len(s \o r) = Len(s) + Len(t) - n
  BY <1>1, <1>4, <1>6
<1> QED BY <1>6, <1>7, <1>8, <1>9

\* A log is its first part and what follows it.
LEMMA LogSplits ==
  ASSUME NEW a \in Seq(Event), NEW b \in Seq(Event), NEW n \in 0..Len(a), n <= Len(b),
         \A k \in 1..n : a[k] = b[k]
  PROVE  b = SubSeq(a, 1, n) \o SubSeq(b, n + 1, Len(b))
<1> DEFINE p == SubSeq(a, 1, n)
<1>1. /\ Len(a) \in Nat /\ Len(b) \in Nat /\ n \in 0..Len(b) /\ n \in Nat /\ n \in Int
      /\ 1 \in Int /\ n <= Len(a)
  OBVIOUS
<1>2. \A i \in 1..n : a[i] \in Event
  OBVIOUS
<1>3. /\ p \in Seq(Event) /\ Len(p) = (IF 1 <= n THEN n - 1 + 1 ELSE 0)
      /\ \A i \in 1..(n - 1 + 1) : p[i] = a[1 + i - 1]
  BY <1>1, <1>2, SubSeqProperties
<1>4. Len(p) = n
  BY <1>1, <1>3
<1>5. \A i \in 1..n : p[i] = a[i]
  <2>1. SUFFICES ASSUME NEW i \in 1..n PROVE p[i] = a[i]
    OBVIOUS
  <2>2. i \in 1..(n - 1 + 1) /\ 1 + i - 1 = i
    BY <1>1
  <2> HIDE DEF p
  <2> QED BY <1>3, <2>2
<1> HIDE DEF p
<1>6. /\ LogOf(p, n, b) \in Seq(Event) /\ Len(LogOf(p, n, b)) = n + Len(b) - n
      /\ \A k \in 1..(n + Len(b) - n) :
           LogOf(p, n, b)[k] = IF k <= n THEN p[k] ELSE b[k - n + n]
  <2>1. p \in Seq(Event) /\ n \in 0..Len(b)
    BY <1>1, <1>3
  <2>2. /\ LogOf(p, n, b) \in Seq(Event) /\ Len(LogOf(p, n, b)) = Len(p) + Len(b) - n
        /\ \A k \in 1..(Len(p) + Len(b) - n) :
             LogOf(p, n, b)[k] = IF k <= Len(p) THEN p[k] ELSE b[k - Len(p) + n]
    BY ONLY <2>1, b \in Seq(Event), LogOfEntries
  <2> QED BY ONLY <1>4, <2>2
<1>7. Len(LogOf(p, n, b)) = Len(b)
  BY <1>1, <1>6
<1>8. ASSUME NEW k \in 1..Len(b) PROVE b[k] = LogOf(p, n, b)[k]
  <2>1. k \in 1..(n + Len(b) - n) /\ k - n + n = k
    BY <1>1
  <2>2. LogOf(p, n, b)[k] = IF k <= n THEN p[k] ELSE b[k]
    BY <1>6, <2>1
  <2>3. k <= n => k \in 1..n
    BY <1>1
  <2> QED BY <1>5, <2>2, <2>3
<1>9. b = LogOf(p, n, b)
  BY <1>6, <1>7, <1>8, SeqEqual
<1> QED BY <1>9 DEF LogOf, p

\* What the log, the version and the sure part are in a state of the store.
LogFacts ==
  /\ Prefix(journal.events, Written, LastSequence)
  /\ \A n : Prefix(journal.events, n, LastSequence) => n = Written
  /\ LastSequence \in Nat /\ UpTo(file, LastSequence)
  /\ LastSequence = 0 \/ \E k \in DOMAIN file : file[k].seq = LastSequence
  /\ Log = LogOf(file, Written, journal.events)
  /\ Log \in Seq(Event) /\ Len(file) <= Len(Log) /\ Len(file) \in Nat
  /\ \A k \in 1..Len(file) : Log[k] = file[k]
  /\ Effective.ver \in Nat
  /\ Abstract!Consistent(Log, Effective.ver)

SureFacts ==
  /\ Sure \in 0..Len(file)
  /\ \A k \in DOMAIN file : file[k].id \in acked => k <= Sure
  /\ Sure > 0 => file[Sure].id \in acked

\* The log of a state is in order and goes with the version.
LEMMA LogMapped == StoreInv /\ Versioned => LogFacts
<1> SUFFICES ASSUME StoreInv, Versioned PROVE LogFacts
  OBVIOUS
<1> DEFINE t == journal.events
<1>0. /\ file \in Seq(Event) /\ t \in Seq(Event) /\ Len(file) \in Nat /\ Len(t) \in Nat
      /\ DOMAIN file = 1..Len(file) /\ DOMAIN t = 1..Len(t)
      /\ ckpt.ver \in Nat /\ journal.state.ver \in Nat
  BY SessionParts DEF StoreInv, TypeOK
<1>1. /\ Prefix(t, Written, LastSequence)
      /\ \A n : Prefix(t, n, LastSequence) => n = Written
  BY WrittenFacts
<1>2. TypeOK /\ EventsInOrder
  BY DEF StoreInv, Ordered, Increasing, EventsInOrder
<1>3. /\ LastSequence \in Nat /\ UpTo(file, LastSequence)
      /\ LastSequence = 0 \/ \E k \in DOMAIN file : file[k].seq = LastSequence
  BY <1>2, LastSequenceFacts
<1>4. Written \in 0..Len(t) /\ \A k \in DOMAIN t : k > Written => t[k].seq > LastSequence
  <2>1. Written \in 0..Len(t) /\ \A k \in DOMAIN t : k <= Written <=> t[k].seq <= LastSequence
    BY <1>1 DEF Prefix
  <2>2. \A k \in DOMAIN t : t[k].seq \in Nat /\ k \in Nat
    BY <1>0, EventFacts
  <2> QED BY <1>0, <1>3, <2>1, <2>2
<1>5. Log = LogOf(file, Written, t)
  BY DEF Log, Rest, LogOf
<1>6. /\ Log \in Seq(Event) /\ Len(Log) = Len(file) + Len(t) - Written
      /\ \A k \in 1..(Len(file) + Len(t) - Written) :
           Log[k] = IF k <= Len(file) THEN file[k] ELSE t[k - Len(file) + Written]
  <2> HIDE DEF t
  <2> QED BY <1>0, <1>4, <1>5, LogOfEntries
<1> HIDE DEF t
<1>7. Len(file) <= Len(Log) /\ \A k \in 1..Len(file) : Log[k] = file[k]
  BY <1>0, <1>4, <1>6
<1>8. DOMAIN Log = 1..(Len(file) + Len(t) - Written)
  BY <1>6
<1>9. ASSUME NEW k \in DOMAIN Log
      PROVE  \/ k \in DOMAIN file /\ Log[k] = file[k]
             \/ /\ k > Len(file) /\ k - Len(file) + Written \in DOMAIN t
                /\ k - Len(file) + Written > Written
                /\ Log[k] = t[k - Len(file) + Written]
  <2>1. k \in 1..(Len(file) + Len(t) - Written) /\ k \in Nat
    BY <1>0, <1>4, <1>8
  <2>2. Log[k] = IF k <= Len(file) THEN file[k] ELSE t[k - Len(file) + Written]
    BY <1>6, <2>1
  <2>3. CASE k <= Len(file)
    BY <1>0, <2>1, <2>2, <2>3
  <2>4. CASE ~(k <= Len(file))
    <3>1. Written \in Nat /\ k - Len(file) + Written \in 1..Len(t)
          /\ k - Len(file) + Written > Written
      BY <1>0, <1>4, <2>1, <2>4
    <3> QED BY <1>0, <2>1, <2>2, <2>4, <3>1
  <2> QED BY <2>3, <2>4
<1>10. Effective.ver \in Nat /\ VersionsUpTo(file, Effective.ver)
       /\ VersionsUpTo(t, Effective.ver)
  <2>1. CASE journal = NoJournal
    <3>1. t = <<>>
      BY <2>1 DEF NoJournal, t
    <3> QED BY <1>0, <2>1, <3>1 DEF Effective, Versioned, VersionsUpTo
  <2>2. CASE journal # NoJournal
    <3>1. VersionsUpTo(file, ckpt.ver) /\ ckpt.ver <= journal.state.ver
          /\ VersionsUpTo(t, journal.state.ver)
      BY <2>2 DEF Versioned, t
    <3> QED BY <1>0, <2>2, <3>1, VersionsMore DEF Effective
  <2> QED BY <2>1, <2>2
<1>11. \A k \in DOMAIN Log : Log[k].ver <= Effective.ver
  BY <1>9, <1>10 DEF VersionsUpTo
<1>12. ASSUME NEW j \in DOMAIN Log, NEW k \in DOMAIN Log, j < k
       PROVE  Log[j].seq < Log[k].seq
  <2>1. /\ Increasing(file) /\ Increasing(t)
    BY DEF StoreInv, Ordered, t
  <2>2. j \in Nat /\ k \in Nat
    BY <1>0, <1>4, <1>8
  <2>3. CASE k \in DOMAIN file /\ Log[k] = file[k]
    <3>1. j \in DOMAIN file /\ Log[j] = file[j]
      BY <1>0, <1>9, <2>2, <2>3, <1>12
    <3> QED BY <1>12, <2>1, <2>3, <3>1 DEF Increasing
  <2>4. CASE /\ k > Len(file) /\ k - Len(file) + Written \in DOMAIN t
             /\ k - Len(file) + Written > Written
             /\ Log[k] = t[k - Len(file) + Written]
    <3>1. CASE j \in DOMAIN file /\ Log[j] = file[j]
      <4>1. Log[j].seq <= LastSequence /\ Log[k].seq > LastSequence
        BY <1>3, <1>4, <2>4, <3>1 DEF UpTo
      <4>2. Log[j] \in Event /\ Log[k] \in Event
        BY <1>0, <2>4, <3>1, EventFacts
      <4> QED BY <1>3, <4>1, <4>2 DEF Event
    <3>2. CASE /\ j > Len(file) /\ j - Len(file) + Written \in DOMAIN t
               /\ Log[j] = t[j - Len(file) + Written]
      <4>1. j - Len(file) + Written < k - Len(file) + Written
        BY <1>0, <1>4, <2>2, <1>12
      <4> QED BY <2>1, <2>4, <3>2, <4>1 DEF Increasing
    <3> QED BY <1>9, <3>1, <3>2
  <2> QED BY <1>9, <2>3, <2>4
<1>13. Abstract!Consistent(Log, Effective.ver)
  BY <1>11, <1>12 DEF Abstract!Consistent
<1> QED BY <1>0, <1>1, <1>3, <1>5, <1>6, <1>7, <1>10, <1>13 DEF LogFacts, t

LEMMA SureMapped == StoreInv => SureFacts
<1> SUFFICES ASSUME StoreInv PROVE SureFacts
  OBVIOUS
<1> DEFINE S == {0} \cup {k \in DOMAIN file : file[k].id \in acked}
<1>1. Len(file) \in Nat /\ DOMAIN file = 1..Len(file)
  BY DEF StoreInv, TypeOK
<1>2. S \in SUBSET (0..Len(file)) /\ S # {}
  BY <1>1
<1>3. Sure = Max(S)
  BY DEF Sure
<1>4. Sure \in S /\ \A i \in S : i <= Sure
  <2> HIDE DEF S
  <2> QED BY <1>1, <1>2, <1>3, MaxFacts
<1> QED BY <1>1, <1>2, <1>4 DEF SureFacts

-----------------------------------------------------------------------------
(* The steps of the store and those of the log.                            *)

Facts == StoreInv /\ Versioned /\ LogFacts /\ SureFacts

\* What a step is that leaves the log and the version alone.
Same ==
  /\ file' = file /\ journal'.events = journal.events
  /\ Effective'.ver = Effective.ver

\* Nothing but the memory changed.
LEMMA StaysTheSame ==
  ASSUME Same, acked' = acked
  PROVE  UNCHANGED Abstract!vars
<1>1. LastSequence' = LastSequence
  BY DEF Same, LastSequence
<1>2. Written' = Written
  BY <1>1 DEF Same, Written
<1>3. Rest' = Rest /\ Log' = Log
  BY <1>2 DEF Same, Rest, Log
<1>4. Sure' = Sure
  BY DEF Same, Sure
<1> QED BY <1>3, <1>4 DEF Same, Abstract!vars

\* What was sure stays sure while the history and the acknowledgements grow.
LEMMA SureGrows ==
  ASSUME SureFacts, SureFacts', acked \subseteq acked',
         file \in Seq(Event), file' \in Seq(Event), Len(file) <= Len(file)',
         \A k \in 1..Len(file) : file'[k] = file[k]
  PROVE  Sure' \in Sure..Len(file)'
<1>1. /\ Sure \in 0..Len(file) /\ Sure' \in 0..Len(file)'
      /\ Len(file) \in Nat /\ Len(file)' \in Nat /\ DOMAIN file' = 1..Len(file)'
  BY DEF SureFacts
<1>2. CASE Sure = 0
  BY <1>1, <1>2
<1>3. CASE Sure > 0
  <2>1. Sure \in 1..Len(file) /\ file[Sure].id \in acked
    BY <1>1, <1>3 DEF SureFacts
  <2>2. Sure \in DOMAIN file' /\ file'[Sure].id \in acked'
    BY <1>1, <2>1
  <2>3. Sure <= Sure'
    BY <2>2 DEF SureFacts
  <2> QED BY <1>1, <2>3
<1> QED BY <1>1, <1>2, <1>3

\* A journal is written: what was in the file is kept, what the last journal
\* would have added is replaced.
LEMMA JournalCommits ==
  ASSUME Facts, Facts', file' = file, acked' = acked, ckpt' = ckpt,
         journal' = Batch, stage = "journal"
  PROVE  Abstract!Next
<1>0. /\ ckpt.ver \in Nat /\ owner.ver \in Nat /\ journal.state.ver \in Nat
      /\ file \in Seq(Event)
  BY SessionParts DEF Facts, StoreInv, TypeOK
<1>1. Alive /\ Batch.state = owner
  BY DEF Facts, StoreInv, Held, Versioned, Batch, None
<1>2. Effective.ver <= owner.ver
  BY <1>1 DEF Facts, Versioned, Effective
<1>3. Effective'.ver = owner.ver
  <2>1. journal'.state.ver = owner.ver /\ owner.ver > 0
    BY <1>1 DEF Alive
  <2>2. NoJournal.state.ver = 0
    BY DEF NoJournal, NoSession
  <2>3. journal' # NoJournal
    BY <1>0, <2>1, <2>2
  <2> QED BY <2>1, <2>3 DEF Effective
<1>4. Sure' = Sure /\ Sure \in 0..Len(file)
  BY DEF Facts, Sure, SureFacts
<1>5. /\ Log \in Seq(Event) /\ Len(file) <= Len(Log) /\ Len(file) \in Nat
      /\ \A k \in 1..Len(file) : Log[k] = file[k]
  BY DEF Facts, LogFacts
<1>6. /\ Log' \in Seq(Event) /\ Len(file) <= Len(Log')
      /\ \A k \in 1..Len(file) : Log'[k] = file[k]
  <2>1. /\ Log' \in Seq(Event) /\ Len(file') <= Len(Log')
        /\ \A k \in 1..Len(file') : Log'[k] = file'[k]
    BY DEF Facts, LogFacts
  <2> QED BY <2>1
<1>7. Len(file) \in 0..Len(Log) /\ Len(file) \in Sure..Len(Log)
  BY <1>4, <1>5
<1>8. \A k \in 1..Len(file) : Log[k] = Log'[k]
  BY <1>5, <1>6
<1>9. Log' = SubSeq(Log, 1, Len(file)) \o SubSeq(Log', Len(file) + 1, Len(Log'))
  BY <1>5, <1>6, <1>7, <1>8, LogSplits
<1>10. Effective'.ver \in Nat /\ Abstract!Consistent(Log', Effective'.ver)
  BY DEF Facts, LogFacts
<1>11. Abstract!Commit
  <2>1. Effective.ver <= Effective'.ver
    BY <1>2, <1>3
  <2> QED BY <1>4, <1>7, <1>9, <1>10, <2>1 DEF Abstract!Commit
<1> QED BY <1>11 DEF Abstract!Next

\* An event of the journal moves into the file: the log is the same.
LEMMA AppendKeepsLog ==
  ASSUME Facts, Facts', AppendEvent, Head(left).seq > last
  PROVE  Log' = Log
<1> DEFINE t == journal.events
           h == Head(left)
           next == Written + 1
<1>0. /\ file \in Seq(Event) /\ t \in Seq(Event) /\ left \in Seq(Event)
      /\ Len(file) \in Nat /\ Len(t) \in Nat /\ DOMAIN t = 1..Len(t)
      /\ DOMAIN file = 1..Len(file)
  BY DEF Facts, StoreInv, TypeOK
<1>1. /\ journal' = journal /\ file' = Append(file, h)
      /\ stage = "append" /\ left # <<>>
  BY DEF AppendEvent
<1>2. 1 \in DOMAIN left /\ h = left[1] /\ h \in Event
  BY <1>0, <1>1, TailEntries, EventFacts
<1>3. /\ InSeq(h, t) /\ After(file, h)
      /\ \A k \in DOMAIN t : InSeq(t[k], file) \/ InSeq(t[k], left)
  BY <1>1, <1>2 DEF Facts, StoreInv, Placed
<1>4. Increasing(t) /\ Increasing(left)
  BY DEF Facts, StoreInv, Ordered
<1>5. /\ Written \in 0..Len(t) /\ LastSequence \in Nat /\ Written \in Nat
      /\ \A k \in DOMAIN t : k <= Written <=> t[k].seq <= LastSequence
  BY <1>0 DEF Facts, LogFacts, Prefix
<1>6. PICK i \in DOMAIN t : t[i] = h
  BY <1>3 DEF InSeq
<1>7. \A k \in DOMAIN t : t[k] \in Event /\ t[k].seq \in Nat /\ k \in Nat
  BY <1>0, EventFacts
<1>8. h.seq \in Nat /\ h.seq > LastSequence
  BY <1>2, <1>3, <1>6, <1>7, ScanSeparates DEF Facts
<1>9. i > Written
  BY <1>5, <1>6, <1>7, <1>8
<1>10. ASSUME NEW k \in DOMAIN t, k > Written PROVE i <= k
  <2>1. t[k].seq > LastSequence
    BY <1>5, <1>7, <1>10
  <2>2. ~InSeq(t[k], file)
    BY <1>5, <1>7, <2>1, ScanSeparates DEF Facts
  <2>3. PICK m \in DOMAIN left : left[m] = t[k]
    BY <1>3, <2>2 DEF InSeq
  <2>4. m \in Nat /\ (m = 1 \/ 1 < m) /\ left[m].seq \in Nat
    BY <1>0, EventFacts
  <2>5. h.seq <= t[k].seq
    BY <1>2, <1>4, <1>8, <2>3, <2>4 DEF Increasing
  <2>6. k < i => t[k].seq < h.seq
    BY <1>4, <1>6 DEF Increasing
  <2> QED BY <1>7, <1>8, <2>5, <2>6
<1>11. i = next
  <2>1. next \in DOMAIN t /\ next > Written
    BY <1>0, <1>5, <1>7, <1>9
  <2>2. i <= next
    BY <1>10, <2>1
  <2> QED BY <1>5, <1>7, <1>9, <2>2
<1>12. next \in DOMAIN t /\ t[next] = h /\ next \in 0..Len(t) /\ next \in Nat
  BY <1>0, <1>6, <1>7, <1>11
<1>13. LastSequence' = h.seq
  <2>1. /\ LastSequence' \in Nat /\ UpTo(file', LastSequence')
        /\ LastSequence' = 0 \/ \E k \in DOMAIN file' : file'[k].seq = LastSequence'
    BY DEF Facts, LogFacts
  <2>2. h.seq <= LastSequence' /\ LastSequence' > 0
    <3>1. PICK k \in DOMAIN file' : file'[k] = h
      BY <1>0, <1>1, <1>2, AppendEntries
    <3>2. h.seq <= LastSequence'
      BY <2>1, <3>1 DEF UpTo
    <3> QED BY <1>2, <2>1, <3>2 DEF Event
  <2>3. PICK k \in DOMAIN file' : file'[k].seq = LastSequence'
    BY <2>1, <2>2
  <2>4. file'[k] = h \/ (k \in DOMAIN file /\ file'[k] = file[k])
    BY <1>0, <1>1, <1>2, AppendEntries
  <2>5. ASSUME k \in DOMAIN file, file'[k] = file[k] PROVE FALSE
    <3>1. file[k].seq < h.seq
      BY <1>3, <2>5 DEF After
    <3>2. file[k].seq = LastSequence'
      BY <2>3, <2>5
    <3> QED BY <1>8, <2>1, <2>2, <3>1, <3>2
  <2> QED BY <2>3, <2>4, <2>5
<1>14. Prefix(t, next, h.seq)
  <2>1. ASSUME NEW k \in DOMAIN t PROVE k <= next <=> t[k].seq <= h.seq
    <3>1. k < next => t[k].seq < h.seq
      BY <1>4, <1>12 DEF Increasing
    <3>2. next < k => h.seq < t[k].seq
      BY <1>4, <1>12 DEF Increasing
    <3> QED BY <1>7, <1>8, <1>12, <3>1, <3>2
  <2> QED BY <1>12, <2>1 DEF Prefix
<1>15. Written' = next
  <2>1. \A n : Prefix(t, n, LastSequence') => n = Written'
    BY <1>1 DEF Facts, LogFacts
  <2> QED BY <1>13, <1>14, <2>1
<1>16. Log = LogOf(file, Written, t) /\ Log' = LogOf(file', next, t)
  <2>1. Log' = LogOf(file', Written', t)
    BY <1>1 DEF Facts, LogFacts
  <2> QED BY <1>15, <2>1 DEF Facts, LogFacts
<1>17. file' \in Seq(Event) /\ Len(file') = Len(file) + 1 /\ file'[Len(file) + 1] = h
       /\ \A k \in 1..Len(file) : file'[k] = file[k]
  BY <1>0, <1>1, <1>2, AppendProperties
<1> HIDE DEF t, h, next
<1>18. /\ Log \in Seq(Event) /\ Len(Log) = Len(file) + Len(t) - Written
       /\ \A k \in 1..(Len(file) + Len(t) - Written) :
            Log[k] = IF k <= Len(file) THEN file[k] ELSE t[k - Len(file) + Written]
  BY <1>0, <1>5, <1>16, LogOfEntries
<1>19. /\ Log' \in Seq(Event) /\ Len(Log') = Len(file') + Len(t) - next
       /\ \A k \in 1..(Len(file') + Len(t) - next) :
            Log'[k] = IF k <= Len(file') THEN file'[k] ELSE t[k - Len(file') + next]
  BY <1>0, <1>12, <1>16, <1>17, LogOfEntries
<1>20. next = Written + 1
  BY DEF next
<1>21. Len(Log') = Len(Log)
  BY <1>0, <1>5, <1>17, <1>18, <1>19, <1>20
<1>22. ASSUME NEW k \in 1..Len(Log) PROVE Log[k] = Log'[k]
  <2>1. /\ k \in 1..(Len(file) + Len(t) - Written) /\ k \in Nat
        /\ k \in 1..(Len(file') + Len(t) - next)
    BY <1>0, <1>5, <1>17, <1>18, <1>20
  <2>2. CASE k <= Len(file)
    BY <1>0, <1>17, <1>18, <1>19, <2>1, <2>2
  <2>3. CASE k = Len(file) + 1
    <3>1. k - Len(file) + Written = next /\ ~(k <= Len(file)) /\ k <= Len(file')
      BY <1>0, <1>5, <1>17, <1>20, <2>3
    <3> QED BY <1>12, <1>17, <1>18, <1>19, <2>1, <2>3, <3>1
  <2>4. CASE k > Len(file) + 1
    <3>1. /\ k - Len(file) + Written = k - Len(file') + next
          /\ ~(k <= Len(file)) /\ ~(k <= Len(file'))
      BY <1>0, <1>5, <1>17, <1>20, <2>1, <2>4
    <3> QED BY <1>18, <1>19, <2>1, <3>1
  <2> QED BY <1>0, <2>1, <2>2, <2>3, <2>4
<1> QED BY <1>18, <1>19, <1>21, <1>22, SeqEqual

\* An event the scan has passed over changes nothing; one that is written is
\* acknowledged no earlier than it was.
LEMMA AppendMaps ==
  ASSUME Facts, Facts', AppendEvent
  PROVE  [Abstract!Next]_(Abstract!vars)
<1>0. /\ journal' = journal /\ ckpt' = ckpt /\ acked' = acked
      /\ file' = IF Head(left).seq > last THEN Append(file, Head(left)) ELSE file
      /\ left # <<>> /\ left \in Seq(Event) /\ file \in Seq(Event)
  BY DEF AppendEvent, ghost, Facts, StoreInv, TypeOK
<1>1. Effective'.ver = Effective.ver
  BY <1>0 DEF Effective
<1>2. CASE Head(left).seq > last
  <2>1. Log' = Log
    BY <1>2, AppendKeepsLog
  <2>2. Head(left) \in Event
    BY <1>0, HeadTailProperties
  <2>3. /\ file' \in Seq(Event) /\ Len(file) <= Len(file)'
        /\ \A k \in 1..Len(file) : file'[k] = file[k]
    <3>1. file' = Append(file, Head(left))
      BY <1>0, <1>2
    <3>2. file' \in Seq(Event) /\ Len(file') = Len(file) + 1 /\ Len(file) \in Nat
          /\ \A k \in 1..Len(file) : file'[k] = file[k]
      BY <1>0, <2>2, <3>1, AppendProperties
    <3> QED BY <3>2
  <2>4. Sure' \in Sure..Len(file)'
    BY <1>0, <2>3, SureGrows DEF Facts
  <2>5. Len(file') <= Len(Log') /\ Len(file') \in Nat /\ Log' \in Seq(Event)
    BY DEF Facts, LogFacts
  <2>6. Sure \in Nat
    BY <1>0 DEF Facts, SureFacts
  <2>7. Sure' \in Sure..Len(Log)
    BY <2>1, <2>4, <2>5, <2>6
  <2> QED BY <1>1, <2>1, <2>7 DEF Abstract!Next, Abstract!Acknowledge
<1>3. CASE ~(Head(left).seq > last)
  BY <1>0, <1>1, <1>3, StaysTheSame DEF Same
<1> QED BY <1>2, <1>3

\* The journal is removed: all of it is in the file, and what it committed may
\* be acknowledged.
LEMMA RemovalMaps ==
  ASSUME Facts, Facts', stage = "remove", journal' = NoJournal,
         file' = file, ckpt' = ckpt, acked \subseteq acked'
  PROVE  Abstract!Acknowledge
<1> DEFINE t == journal.events
<1>0. /\ file \in Seq(Event) /\ t \in Seq(Event) /\ Len(t) \in Nat /\ DOMAIN t = 1..Len(t)
      /\ Len(file) \in Nat
  BY DEF Facts, StoreInv, TypeOK
<1>1. Effective' = Effective
  <2>1. ckpt = journal.state
    BY DEF Facts, StoreInv, Numbered
  <2> QED BY <2>1 DEF Effective
<1>2. Written = Len(t)
  <2>1. \A k \in DOMAIN t : InSeq(t[k], file)
    BY DEF Facts, StoreInv, Placed
  <2>2. \A k \in DOMAIN t : t[k] \in Event /\ k \in Nat
    BY <1>0, EventFacts
  <2>3. \A k \in DOMAIN t : k <= Len(t) /\ t[k].seq <= LastSequence
    BY <1>0, <2>1, <2>2, ScanSeparates DEF Facts
  <2>4. Prefix(t, Len(t), LastSequence)
    BY <1>0, <2>3 DEF Prefix
  <2> QED BY <2>4 DEF Facts, LogFacts
<1>3. Log = file
  <2>1. Rest = <<>>
    <3>1. Len(t) + 1 \in Int /\ Len(t) \in Int /\ Len(t) < Len(t) + 1
      BY <1>0
    <3>2. SubSeq(t, Len(t) + 1, Len(t)) = <<>>
      BY <3>1, SubSeqEmpty
    <3> QED BY <1>2, <3>2 DEF Rest
  <2> QED BY <1>0, <2>1, ConcatEmptySeq DEF Log
<1>4. Log' = file
  <2>1. journal'.events = <<>>
    BY DEF NoJournal
  <2>2. Written' = 0
    BY <2>1 DEF Facts, LogFacts, Prefix
  <2>3. Rest' = <<>>
    <3>1. Rest' = SubSeq(<<>>, 1, 0)
      BY <2>1, <2>2 DEF Rest
    <3> QED BY <3>1, SubSeqEmpty
  <2> QED BY <1>0, <2>3, ConcatEmptySeq DEF Log
<1>5. Sure' \in Sure..Len(file)
  BY <1>0, SureGrows DEF Facts
<1> QED BY <1>1, <1>3, <1>4, <1>5 DEF Abstract!Acknowledge

\* Every step of the store is a step of the log or none.
LEMMA StepMaps ==
  ASSUME ~DetachedEvents, Facts, Facts', [Next]_vars
  PROVE  [Abstract!Next]_(Abstract!vars)
<1> USE DEF Release, disk, memory, lock, load, ghost
<1>1. ASSUME UNCHANGED <<journal, ckpt, file, acked>>
      PROVE  [Abstract!Next]_(Abstract!vars)
  BY <1>1, StaysTheSame DEF Same, Effective
<1>2. CASE \E n \in 0..2 : Commit(n)
  BY <1>1, <1>2 DEF Commit
<1>3. CASE Reserve \/ Detach \/ Load
  BY <1>1, <1>3 DEF Reserve, Detach, Load
<1>4. CASE DetachedCommit \/ ScanEvents \/ ScanRefused \/ AppendDone \/ LoadUnlock
  BY <1>1, <1>4 DEF DetachedCommit, ScanEvents, ScanRefused, AppendDone, LoadUnlock, Fail
<1>5. CASE Reader \/ Crash \/ AppendFails
  BY <1>1, <1>5 DEF Reader, LoadStat, LoadRead, LoadReplaced, Crash, AppendFails, Fail
<1>6. CASE WriteJournal \/ JournalFails
  <2>1. stage = "journal" /\ UNCHANGED <<ckpt, file, acked>> /\ journal' \in {journal, Batch}
    BY <1>6 DEF WriteJournal, JournalFails, Fail
  <2>2. CASE journal' = journal
    BY <1>1, <2>1, <2>2
  <2>3. CASE journal' = Batch
    BY <2>1, <2>3, JournalCommits
  <2> QED BY <2>1, <2>2, <2>3
<1>7. CASE WriteCheckpoint \/ CheckpointFails
  <2>1. UNCHANGED <<journal, file, acked>> /\ journal # NoJournal
    BY <1>7 DEF WriteCheckpoint, CheckpointFails, Fail, Facts, StoreInv, Held
  <2>2. Effective' = Effective
    BY <2>1 DEF Effective
  <2> QED BY <2>1, <2>2, StaysTheSame DEF Same
<1>8. CASE AppendEvent
  BY <1>8, AppendMaps
<1>9. CASE RemoveJournal \/ RemoveFails
  <2>1. /\ stage = "remove" /\ UNCHANGED <<ckpt, file>> /\ acked \subseteq acked'
        /\ journal' \in {journal, NoJournal} /\ (journal' = journal => acked' = acked)
    BY <1>9 DEF RemoveJournal, RemoveFails, Fail, Facts, StoreInv, Held
  <2>2. CASE journal' = journal
    BY <1>1, <2>1, <2>2
  <2>3. CASE journal' = NoJournal
    BY <2>1, <2>3, RemovalMaps DEF Abstract!Next
  <2> QED BY <2>1, <2>2, <2>3
<1>10. CASE UNCHANGED vars
  BY <1>1, <1>10 DEF vars
<1> QED BY <1>2, <1>3, <1>4, <1>5, <1>6, <1>7, <1>8, <1>9, <1>10
        DEF Next, Holder, Faulty

-----------------------------------------------------------------------------
(* The theorems.                                                           *)

\* The invariant holds at first, and every action keeps it.
LEMMA StoreInvariant == Spec => []StoreInv
<1>1. Init => StoreInv
  <2>1. SUFFICES ASSUME Init PROVE StoreInv
    OBVIOUS
  <2>2. /\ ckpt = [ver |-> 1, calls |-> 0, next |-> 0] /\ owner = ckpt
        /\ NoSession = [ver |-> 0, calls |-> 0, next |-> 0]
        /\ journal.state = NoSession /\ journal.events = <<>> /\ journal = NoJournal
    BY <2>1 DEF Init, NoJournal, NoSession
  <2>3. ckpt \in Session /\ NoSession \in Session /\ <<>> \in Seq(Event)
    BY <2>2 DEF Session
  <2>4. NoJournal \in [state : Session, events : Seq(Event)]
    BY <2>3 DEF NoJournal
  <2>5. TypeOK
    BY <2>1, <2>2, <2>3, <2>4 DEF Init, TypeOK
  <2>6. Alive /\ ckpt.next = 0 /\ journal.state.next = 0 /\ ckpt.ver > 0 /\ owner.next = 0
    BY <2>2 DEF Alive
  <2>7. Held
    <3>1. /\ stage = "idle" /\ holder = None /\ extra = <<>> /\ reader = "idle"
          /\ ckpt.ver > 0 /\ Alive /\ journal = NoJournal
      BY <2>1, <2>2, <2>6 DEF Init
    <3> QED BY <3>1 DEF Held, None
  <2>8. Numbered
    BY <2>1, <2>2, <2>6 DEF Init, Numbered, UpTo
  <2>9. Ordered
    BY <2>1, <2>2 DEF Init, Ordered, Increasing
  <2>10. Placed /\ AckedIsDurable
    BY <2>1, <2>2 DEF Init, Placed, AckedIsDurable
  <2> QED BY <2>5, <2>7, <2>8, <2>9, <2>10 DEF StoreInv
<1>2. StoreInv /\ [Next]_vars => StoreInv'
  BY TypesKept, HeldKept, NumberedKept, OrderedKept, PlacedKept, AckedKept DEF StoreInv
<1> QED BY <1>1, <1>2, PTL DEF Spec

\* Every variable keeps its type, for any bounds (SessionStore).
THEOREM StoreTypeCorrect == Spec => []TypeOK
<1>1. StoreInv => TypeOK
  BY DEF StoreInv
<1> QED BY <1>1, StoreInvariant, PTL

\* The event history has every event once and in order, however often
\* operations fail, are retried or recovered (appendEventsIdempotent).
THEOREM HistoryInOrder == Spec => []EventsInOrder
<1>1. StoreInv => EventsInOrder
  BY DEF StoreInv, Ordered, Increasing, EventsInOrder
<1> QED BY <1>1, StoreInvariant, PTL

\* An event reported as committed never leaves the history (CommitEvents,
\* CommitDetachedEvent).
THEOREM AckedStaysDurable == Spec => []AckedIsDurable
<1>1. StoreInv => AckedIsDurable
  BY DEF StoreInv
<1> QED BY <1>1, StoreInvariant, PTL

\* A model call that was entered is counted in what a Load returns, whatever
\* failed in between, and the budget holds (ReserveModelCall).
THEOREM CallsStayCounted == Spec => []CallsAreCounted
<1>1. Init => Counted
  <2>1. SUFFICES ASSUME Init PROVE Counted
    OBVIOUS
  <2>2. /\ ckpt.calls = 0 /\ owner.calls = 0 /\ journal.state.calls = 0 /\ made = 0
        /\ holder = None /\ journal = NoJournal
    BY <2>1 DEF Init, NoJournal, NoSession
  <2> QED BY <2>2, StoreAssumption DEF Counted, None
<1>2. StoreInv /\ Counted /\ [Next]_vars => Counted'
  BY CountedKept
<1>3. StoreInv /\ Counted => CallsAreCounted
  <2>1. SUFFICES ASSUME StoreInv, Counted PROVE CallsAreCounted
    OBVIOUS
  <2>2. made \in Nat /\ ckpt.calls \in Nat /\ MaxModelCalls \in Nat
    BY <2>1, StoreAssumption, SessionParts DEF StoreInv, TypeOK
  <2>3. made <= ckpt.calls /\ ckpt.calls <= MaxModelCalls
        /\ (journal # NoJournal => made <= journal.state.calls)
    BY <2>1 DEF Counted
  <2> QED BY <2>2, <2>3 DEF CallsAreCounted, Effective
<1> QED BY <1>1, <1>2, <1>3, StoreInvariant, PTL DEF Spec

\* No sequence number is handed out twice: the numbers a process goes on from
\* cover the whole history (Load, commitLocked).
THEOREM NumbersStayFresh == Spec => []NumbersAreFresh
<1>1. StoreInv => NumbersAreFresh
  <2>1. SUFFICES ASSUME StoreInv PROVE NumbersAreFresh
    OBVIOUS
  <2>2. /\ ckpt.next \in Nat /\ journal.state.next \in Nat /\ counter \in Nat
        /\ file \in Seq(Event)
    BY <2>1, SessionParts DEF StoreInv, TypeOK
  <2>3. /\ UpTo(file, ckpt.next)
        /\ journal # NoJournal => ckpt.next <= journal.state.next
        /\ owner # NoSession => ckpt.next <= counter
    BY <2>1 DEF StoreInv, Numbered, Held
  <2>4. UpTo(file, Effective.next) /\ (owner # NoSession => UpTo(file, counter))
    BY <2>2, <2>3, UpToMore DEF Effective
  <2> QED BY <2>4 DEF NumbersAreFresh, UpTo
<1> QED BY <1>1, StoreInvariant, PTL

\* At first there is nothing to report.
LEMMA VersionedAtFirst == Init => Versioned
<1>1. SUFFICES ASSUME Init PROVE Versioned
  OBVIOUS
<1>2. /\ ckpt.ver = 1 /\ owner.ver = 1 /\ journal.state.ver = 0 /\ journal = NoJournal
      /\ journal.events = <<>> /\ file = <<>> /\ pending = <<>> /\ extra = <<>>
      /\ holder = None
  BY <1>1 DEF Init, NoJournal, NoSession
<1> QED BY <1>2 DEF Versioned, VersionsUpTo, None

\* With a single committer no event is in the history whose Session is not
\* (commitLocked, applyJournalLocked); with workers that commit events of their
\* own it is false.
THEOREM EventsImplyTheirState ==
  ASSUME ~DetachedEvents
  PROVE  Spec => []EventImpliesState
<1>1. Init => Versioned
  BY VersionedAtFirst
<1>2. StoreInv /\ Versioned /\ [Next]_vars => Versioned'
  BY VersionedKept
<1>3. StoreInv /\ Versioned => EventImpliesState
  <2>1. SUFFICES ASSUME StoreInv, Versioned PROVE EventImpliesState
    OBVIOUS
  <2>2. ckpt.ver \in Nat /\ journal.state.ver \in Nat /\ file \in Seq(Event)
    BY <2>1, SessionParts DEF StoreInv, TypeOK
  <2>3. VersionsUpTo(file, Effective.ver)
    BY <2>1, <2>2, VersionsMore DEF Versioned, Effective
  <2> QED BY <2>3 DEF EventImpliesState, VersionsUpTo
<1> QED BY <1>1, <1>2, <1>3, StoreInvariant, PTL DEF Spec
\* With a single committer the store is the atomic log it promises to be: behind
\* its journal, its retries and its crashes a commit takes effect in one step,
\* what was acknowledged is never lost, and a crash is not seen at all
\* (commitLocked, applyJournalLocked, recoverJournalLocked).
THEOREM StoreIsADurableLog ==
  ASSUME ~DetachedEvents
  PROVE  Spec => ImplementsDurableLog
<1>1. Spec => []Versioned
  <2>1. Init => Versioned
    BY VersionedAtFirst
  <2>2. StoreInv /\ Versioned /\ [Next]_vars => Versioned'
    BY VersionedKept
  <2> QED BY <2>1, <2>2, StoreInvariant, PTL DEF Spec
<1>2. StoreInv /\ Versioned => Facts
  BY LogMapped, SureMapped DEF Facts
<1>3. Facts /\ Facts' /\ [Next]_vars => [Abstract!Next]_(Abstract!vars)
  BY StepMaps
<1>4. Init => Abstract!Init
  <2>1. SUFFICES ASSUME Init PROVE Abstract!Init
    OBVIOUS
  <2>2. journal = NoJournal /\ ckpt.ver = 1 /\ file = <<>> /\ acked = {}
    BY <2>1 DEF Init
  <2>3. journal.events = <<>>
    BY <2>2 DEF NoJournal
  <2>4. Log = <<>>
    <3>1. 0 \in 0..Len(journal.events)
          /\ \A k \in DOMAIN journal.events :
               k <= 0 <=> journal.events[k].seq <= LastSequence
      BY <2>3
    <3>2. Written \in 0..Len(journal.events)
      BY <3>1 DEF Written
    <3>3. Written = 0
      BY <2>3, <3>2
    <3>4. Rest = <<>>
      <4>1. Rest = SubSeq(<<>>, 1, 0)
        BY <2>3, <3>3 DEF Rest
      <4> QED BY <4>1, SubSeqEmpty
    <3> QED BY <2>2, <3>4 DEF Log
  <2>5. Sure = 0
    <3>1. {0} \cup {k \in DOMAIN file : file[k].id \in acked} = {0}
      BY <2>2
    <3> QED BY <3>1, MaxFacts DEF Sure
  <2>6. Effective.ver = 1
    BY <2>2 DEF Effective
  <2> QED BY <2>4, <2>5, <2>6 DEF Abstract!Init
<1> QED BY <1>1, <1>2, <1>3, <1>4, StoreInvariant, PTL DEF Spec, ImplementsDurableLog, Abstract!Spec
=============================================================================
