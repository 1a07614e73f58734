------------------------------ MODULE DurableLog ------------------------------
(***************************************************************************)
(* What the Session store promises its callers, without its files, its     *)
(* journal and its crashes: one atomic record of a Session's version and   *)
(* of the events that led to it.  A commit changes both in one step.  What *)
(* was acknowledged stays; the tail nobody was told about, left by a       *)
(* commit that failed, may be replaced by the next one.  A crash is not    *)
(* even an action: it changes nothing of this.                             *)
(***************************************************************************)
EXTENDS Naturals, Sequences

VARIABLES
  log,      \* the events, each [id, seq, ver]
  version,  \* the version of the Session
  sure      \* how much of the log was acknowledged

vars == <<log, version, sure>>

Init == log = <<>> /\ version = 1 /\ sure = 0

\* The events are numbered upwards and belong to the Session or to its past.
Consistent(events, v) ==
  /\ \A k \in DOMAIN events : events[k].ver <= v
  /\ \A j, k \in DOMAIN events : j < k => events[j].seq < events[k].seq

\* A commit keeps at least what was acknowledged and adds events to it.
Commit ==
  \E keep \in sure..Len(log) :
    /\ log' = SubSeq(log, 1, keep) \o SubSeq(log', keep + 1, Len(log'))
    /\ version' \in Nat /\ version <= version'
    /\ Consistent(log', version')
    /\ UNCHANGED sure

Acknowledge == sure' \in sure..Len(log) /\ UNCHANGED <<log, version>>

Next == Commit \/ Acknowledge

Spec == Init /\ [][Next]_vars
=============================================================================
