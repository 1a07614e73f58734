------------------------------ MODULE EmployeeTabs ------------------------------
(* The tabs of an Employee's page that show a resource of its own: Knowledge,  *)
(* Memory and Activity. Opening a tab reads its resource; a mutation made on   *)
(* the tab reads it again and shows that. What the other tabs save is the      *)
(* matter of EmployeeEditor.                                                   *)
EXTENDS Naturals, Sequences, FiniteSets

CONSTANTS
  None,
  MaxTabs, MaxWrites,   \* bounds: tabs opened, mutations sent or made by others,
  MaxFaults             \* failures, reconnects and others' mutations

VARIABLES server, page, requests, faults

vars == <<server, page, requests, faults>>

\* Bounds: sources and facts, events of the log, events of one page of it.
Items == {1}
MaxLog == 3
Limit == 1

Tabs == {"overview", "knowledge", "memory", "activity"}

\* The overview shows the Knowledge too.
Resource(tab) == IF tab = "overview" THEN "knowledge" ELSE tab

\* The Memory is read in two requests.
Parts(of) ==
  CASE of = "knowledge" -> {"sources"}
    [] of = "memory" -> {"facts", "candidates"}
    [] of = "activity" -> {"events"}

Fault == faults < MaxFaults /\ faults' = faults + 1

\* `detail` and `epoch` count the reads of the Employee and the tabs opened;
\* history: `disturbed`, something happened that the page could not know of, or
\* a mutation and a read of the tab that it does not end were under way at once.
Fresh(tab) ==
  [tab |-> tab, epoch |-> 1, detail |-> 0,
   shown |-> [of \in {"knowledge", "memory", "activity"} |-> None],
   dialog |-> None, busy |-> FALSE, disturbed |-> FALSE]

\* `got` is what was read of each part.
Request(do, id, of, base, asking) ==
  [do |-> do, id |-> id, of |-> of, base |-> base, epoch |-> asking.epoch, detail |-> asking.detail,
   status |-> IF do \in {"load", "more"} THEN "reading" ELSE "sent",
   got |-> [part \in Parts(of) |-> None]]

Load(asking) == Request("load", None, Resource(asking.tab), None, asking)

Init ==
  /\ server = [version |-> 0, sources |-> Items, log |-> 2,
               memory |-> [item \in Items |-> "candidate"]]
  /\ \E tab \in Tabs : page = Fresh(tab) /\ requests = {Load(Fresh(tab))}
  /\ faults = 0

Swap(q, new) == requests' = (requests \ {q}) \cup {new}

Reads == {"load", "more"}
Mutations == {"accept", "reject", "edit", "forget", "add", "delete"}
Mutating == {q \in requests : q.do \in Mutations}

MayWrite == server.version + Cardinality(Mutating) < MaxWrites

-----------------------------------------------------------------------------
(* The server. *)

Knows(item, states) == server.memory[item] \in states

\* Facts and Candidates, each with what it says.
Remembered(states) == {<<item, server.memory[item]>> : item \in {i \in Items : Knows(i, states)}}

\* A page of the log begins after the last event the client has.
EventsAfter(last) ==
  LET end == IF last + Limit < server.log THEN last + Limit ELSE server.log
  IN [ids |-> [i \in 1 .. (end - last) |-> last + i], more |-> end < server.log]

Content(part, base) ==
  CASE part = "sources" -> server.sources
    [] part = "facts" -> Remembered({"fact", "edited"})
    [] part = "candidates" -> Remembered({"candidate"})
    [] part = "events" -> EventsAfter(IF base = None THEN 0 ELSE Len(base))

\* The states a mutation leads to, none when the server refuses it.
Outcomes(do, id) ==
  LET Remember(states, new) ==
        IF Knows(id, states)
        THEN {[server EXCEPT !.memory[id] = new, !.version = @ + 1]} ELSE {}
      Keep(sources) == {[server EXCEPT !.sources = sources, !.version = @ + 1]}
  IN CASE do = "accept" -> Remember({"candidate"}, "fact")
       [] do = "reject" -> Remember({"candidate"}, "gone")
       [] do = "edit" -> Remember({"fact", "edited"}, "edited")
       [] do = "forget" -> Remember({"fact", "edited"}, "gone")
       [] do = "add" -> IF id \in server.sources THEN {} ELSE Keep(server.sources \cup {id})
       [] do = "delete" -> IF id \in server.sources THEN Keep(server.sources \ {id}) ELSE {}

\* Another tab, or an Employee at work, does the same; the log grows.
OtherWrite ==
  /\ Fault /\ MayWrite
  /\ \E do \in {"accept", "forget", "add", "delete"}, id \in Items : server' \in Outcomes(do, id)
  /\ page' = [page EXCEPT !.disturbed = TRUE] /\ UNCHANGED requests

Logged ==
  /\ server.log < MaxLog /\ page.tab = "activity"
  /\ server' = [server EXCEPT !.log = @ + 1] /\ UNCHANGED <<page, requests, faults>>

\* Adding a source answers with the Knowledge at once, the others are followed
\* by a read.
Serve(q) ==
  /\ q.status = "sent"
  /\ IF Outcomes(q.do, q.id) = {}
     THEN Swap(q, [q EXCEPT !.status = "failed"]) /\ UNCHANGED server
     ELSE server' \in Outcomes(q.do, q.id) /\ Swap(q, [q EXCEPT !.status = "reading"])
  /\ UNCHANGED <<page, faults>>

ReadPart(q, part) ==
  /\ q.status = "reading" /\ q.got[part] = None
  /\ Swap(q, [q EXCEPT !.got[part] = Content(part, q.base)])
  /\ UNCHANGED <<server, page, faults>>

Lost(q) ==
  /\ q.status \in {"sent", "reading"} /\ Fault /\ Swap(q, [q EXCEPT !.status = "failed"])
  /\ UNCHANGED <<server, page>>

-----------------------------------------------------------------------------
(* The tabs. *)

SelectTab(tab) ==
  /\ page.dialog = None /\ tab # page.tab /\ page.epoch < MaxTabs
  /\ page' = [page EXCEPT !.tab = tab, !.epoch = @ + 1,
                          !.disturbed = Mutating # {}]
  /\ requests' = requests \cup {Load(page')}
  /\ UNCHANGED <<server, faults>>

\* It can be asked for again while it is under way; bound: twice.
LoadMore ==
  LET shown == page.shown["activity"]
  IN /\ page.tab = "activity" /\ page.dialog = None /\ shown # None
     /\ shown.more /\ Cardinality({q \in requests : q.do = "more"}) < 2
     /\ requests' = requests \cup
          {Request("more", Cardinality(requests), "activity", shown.ids, page)}
     /\ UNCHANGED <<server, page, faults>>

IsCurrentAlways(q) == TRUE

IsCurrent(q) == q.epoch = page.epoch

Whole(q) == q.status = "reading" /\ \A part \in Parts(q.of) : q.got[part] # None

ShownAppended(q) ==
  CASE q.do = "load" /\ q.of = "activity" -> q.got["events"]
    [] q.do = "more" -> [q.got["events"] EXCEPT !.ids = page.shown["activity"].ids \o @]
    [] OTHER -> q.got

\* What a load shows, and what more of the log adds to what was shown when it
\* was asked for.
Shown(q) ==
  CASE q.do = "load" /\ q.of = "activity" -> q.got["events"]
    [] q.do = "more" -> [q.got["events"] EXCEPT !.ids = q.base \o @]
    [] OTHER -> q.got

ReadAnswered(q) ==
  /\ q.do \in Reads /\ Whole(q)
  /\ page' = IF IsCurrent(q) THEN [page EXCEPT !.shown[q.of] = Shown(q)] ELSE page
  /\ requests' = requests \ {q} /\ UNCHANGED <<server, faults>>

\* Nothing says so: the tab stays as it is.
ReadFails(q) ==
  /\ q.do \in Reads /\ q.status = "failed"
  /\ page' = IF IsCurrent(q) THEN [page EXCEPT !.disturbed = TRUE] ELSE page
  /\ requests' = requests \ {q} /\ UNCHANGED <<server, faults>>

-----------------------------------------------------------------------------
(* The mutations. *)

CanMutate == ~page.busy /\ page.dialog = None

\* What a tab offers: each item that it shows, by what it shows it as.
Offers(do, id) ==
  LET memory == page.shown["memory"]
      In(part) == page.tab = "memory" /\ memory # None /\ \E pair \in memory[part] : pair[1] = id
  IN CASE do \in {"accept", "reject"} -> In("candidates")
       [] do \in {"edit", "forget"} -> In("facts")
       [] do = "add" -> page.tab = "knowledge"
       [] do = "delete" -> /\ page.tab = "knowledge" /\ page.shown["knowledge"] # None
                           /\ id \in page.shown["knowledge"]["sources"]

Confirmed == {"reject", "forget", "delete"}

BeingRead == \E q \in requests : q.do = "load" /\ q.of = page.tab /\ IsCurrent(q)

Send(do, id) ==
  MayWrite /\ requests' = requests \cup {Request(do, id, page.tab, None, page)}

Click(do, id) ==
  /\ CanMutate /\ do \notin Confirmed /\ Offers(do, id) /\ Send(do, id)
  /\ page' = [page EXCEPT !.busy = TRUE, !.disturbed = @ \/ BeingRead]
  /\ UNCHANGED <<server, faults>>

\* confirmKnowledgeDelete, confirmMemory
Ask(do, id) ==
  /\ CanMutate /\ do \in Confirmed /\ Offers(do, id)
  /\ page' = [page EXCEPT !.dialog = [do |-> do, id |-> id]]
  /\ UNCHANGED <<server, requests, faults>>

Confirm ==
  /\ page.dialog # None /\ Send(page.dialog.do, page.dialog.id)
  /\ page' = [page EXCEPT !.busy = TRUE, !.dialog = None, !.disturbed = @ \/ BeingRead]
  /\ UNCHANGED <<server, faults>>

Dismiss ==
  /\ page.dialog # None /\ page' = [page EXCEPT !.dialog = None]
  /\ UNCHANGED <<server, requests, faults>>

\* The server is back: the Employee is read again, its tabs are not.
Reconnected ==
  /\ Fault /\ page' = [page EXCEPT !.detail = @ + 1, !.disturbed = @ \/ Mutating # {}]
  /\ UNCHANGED <<server, requests>>

MutateAnsweredUnread(q) ==
  /\ q.do \in Mutations /\ Whole(q)
  /\ page' = [page EXCEPT !.busy = FALSE] /\ requests' = requests \ {q}
  /\ UNCHANGED <<server, faults>>

MutateAnswered(q) ==
  /\ q.do \in Mutations /\ Whole(q)
  /\ page' = [page EXCEPT !.busy = FALSE,
                          !.shown[q.of] = IF q.detail = page.detail THEN Shown(q) ELSE @]
  /\ requests' = requests \ {q} /\ UNCHANGED <<server, faults>>

MutateFailsLocked(q) ==
  /\ q.do \in Mutations /\ q.status = "failed"
  /\ page' = [page EXCEPT !.busy = q.detail # page.detail, !.disturbed = TRUE]
  /\ requests' = requests \ {q} /\ UNCHANGED <<server, faults>>

MutateFails(q) ==
  /\ q.do \in Mutations /\ q.status = "failed"
  /\ page' = [page EXCEPT !.busy = FALSE, !.disturbed = TRUE]
  /\ requests' = requests \ {q} /\ UNCHANGED <<server, faults>>

-----------------------------------------------------------------------------
Answer(q) ==
  \/ Serve(q) \/ ReadAnswered(q) \/ ReadFails(q) \/ MutateAnswered(q) \/ MutateFails(q)
  \/ \E part \in Parts(q.of) : ReadPart(q, part)

Next ==
  \/ OtherWrite \/ Logged \/ LoadMore \/ Confirm \/ Dismiss \/ Reconnected
  \/ \E tab \in Tabs : SelectTab(tab)
  \/ \E do \in Mutations, id \in Items :
       Click(do, id) \/ Ask(do, id)
  \/ \E q \in requests : Answer(q) \/ Lost(q)

Spec == Init /\ [][Next]_vars

Answers(kinds) == \E q \in requests : q.do \in kinds /\ Answer(q)

\* Tabs are read and mutations answered, whatever else of the log is asked for.
FairSpec == Spec /\ WF_vars(Answers({"load"})) /\ WF_vars(Answers(Mutations))

-----------------------------------------------------------------------------
(* Properties *)

\* When nothing is under way, and nothing happened behind the page's back since
\* its tab was opened, the tab shows the server's Knowledge and Memory, in
\* whatever order late answers of tabs left before come (tabEpoch, mutate).  Left
\* out is a mutation under way beside a read of its own tab: neither ends the
\* other, and the older answer may come last (see the README).
SettledIsTrue ==
  LET of == Resource(page.tab)
  IN of # "activity" /\ requests = {} /\ ~page.disturbed =>
       page.shown[of] = [part \in Parts(of) |-> Content(part, None)]

\* However often more of the log is asked for and in whatever order it comes,
\* the Activity is the log from its first event, without hole or repeat
\* (EmployeeDetailPage loadMore).
ActivityIsAPrefix ==
  LET shown == page.shown["activity"]
  IN shown # None => \A i \in DOMAIN shown.ids : shown.ids[i] = i

\* A mutation that is over, however it ended, lets the next one be made (mutate).
BusyEnds == page.busy ~> ~page.busy
=============================================================================
