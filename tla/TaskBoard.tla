------------------------------- MODULE TaskBoard -------------------------------
(* The Task board: cards the Owner drags between columns, the confirmation   *)
(* that starts or resumes a Task whose card is dropped on In progress, and   *)
(* the server's board document.  What the page shows of the board may be     *)
(* stale in any way, since its answers carry no version: a drop may find any *)
(* card in any column.                                                       *)
EXTENDS Naturals, FiniteSets

CONSTANTS
  Tasks, Notes,       \* the cards
  Listed,             \* the Tasks of the page's list: 100 of each Employee
  None,
  MaxDrops, MaxFaults \* bounds: drops of a card; losses, failures and reloads

CardsAssumption ==
  /\ Tasks \cap Notes = {} /\ Listed \subseteq Tasks /\ None \notin Tasks \cup Notes
  /\ MaxDrops \in Nat /\ MaxFaults \in Nat

VARIABLES
  state,      \* server: the state of each Task
  column,     \* server: the column of each card in board.json
  cached,     \* page: the state of each Task of its list, None when not in it
  list,       \* a reload of the list that was read and is not shown yet
  candidate,  \* startCandidate
  generation, \* startGenerationRef
  loads,      \* Task reads of beginStartLoad under way
  busy,       \* startBusy
  committed,  \* executionCommittedRef
  calls,      \* Start and Resume POSTs under way
  puts,       \* card PUTs under way
  drops,      \* history: cards dropped so far
  wanted,     \* history: the Task the Owner dropped and did not call off
  faults

server == <<state, column>>
modal == <<candidate, generation, busy, committed, wanted>>
page == <<cached, list>>
vars == <<server, page, modal, loads, calls, puts, drops, faults>>

Cards == Tasks \cup Notes
Columns == {"todo", "in_progress", "done"}
States == {"prepared", "running", "interrupted", "done", "cancelled"}
Actions == {"start", "resume"}

\* startActionForState
ActionFor(s) ==
  IF s = "prepared" THEN "start" ELSE IF s = "interrupted" THEN "resume" ELSE None

\* The list as it is read now.
TaskList == [t \in Tasks |-> IF t \in Listed THEN state[t] ELSE None]

Init ==
  /\ state \in [Tasks -> {"prepared", "interrupted"}]
  /\ column = [c \in Cards |-> "todo"]
  /\ cached = TaskList /\ list = None
  /\ candidate = None /\ generation = 0 /\ loads = {} /\ busy = FALSE
  /\ committed = FALSE /\ calls = {} /\ puts = {} /\ drops = 0
  /\ wanted = None /\ faults = 0

Fault == faults < MaxFaults /\ faults' = faults + 1

-----------------------------------------------------------------------------
(* The server. *)

\* A Task runs, stops or ends by itself or on somebody else's word.
TaskMoves(t) ==
  /\ \/ state[t] = "running" /\ state' = [state EXCEPT ![t] = "interrupted"]
     \/ state[t] = "running" /\ state' = [state EXCEPT ![t] = "done"]
     \/ ActionFor(state[t]) # None /\ state' = [state EXCEPT ![t] = "running"]
     \/ state[t] = "prepared" /\ state' = [state EXCEPT ![t] = "cancelled"]
  /\ UNCHANGED <<column, page, modal, loads, calls, puts, drops, faults>>

Step(set, old, new) == (set \ {old}) \cup {new}

\* Starting what was started, and resuming what runs, changes nothing.
Allows(c) ==
  IF c.action = "start" THEN state[c.card] # "cancelled"
  ELSE state[c.card] \in {"interrupted", "running"}

Executes(c) ==
  IF ActionFor(state[c.card]) = c.action THEN [state EXCEPT ![c.card] = "running"] ELSE state

ServePost(c) ==
  /\ c.step = "sent"
  /\ \/ /\ Allows(c) /\ state' = Executes(c)
        /\ calls' = Step(calls, c, [c EXCEPT !.step = "accepted", !.answer = state'[c.card]])
        /\ UNCHANGED faults
     \/ \* served, but the answer is lost
        /\ Allows(c) /\ state' = Executes(c) /\ Fault
        /\ calls' = Step(calls, c, [c EXCEPT !.step = "refused"])
     \/ /\ ~Allows(c) /\ UNCHANGED <<state, faults>>
        /\ calls' = Step(calls, c, [c EXCEPT !.step = "refused"])
     \/ /\ Fault /\ UNCHANGED state
        /\ calls' = Step(calls, c, [c EXCEPT !.step = "refused"])
  /\ UNCHANGED <<column, page, modal, loads, puts, drops>>

\* UpdateTaskBoardCard loads the document and saves it in two steps that
\* nothing ties together: what others saved between them is lost.
LoadDocument(p) ==
  /\ p.step = "sent"
  /\ puts' = Step(puts, p, [p EXCEPT !.step = "loaded", !.document = column])
  /\ UNCHANGED <<server, page, modal, loads, calls, drops, faults>>

SaveDocument(p) ==
  /\ p.step = "loaded"
  /\ \/ /\ column' = [p.document EXCEPT ![p.card] = p.to]
        /\ puts' = Step(puts, p, [p EXCEPT !.step = "saved"])
        /\ UNCHANGED faults
     \/ /\ Fault /\ puts' = Step(puts, p, [p EXCEPT !.step = "failed"])
        /\ UNCHANGED column
  /\ UNCHANGED <<state, page, modal, loads, calls, drops>>

-----------------------------------------------------------------------------
(* Moving a card. *)

Put(c, to, gen) == [card |-> c, to |-> to, gen |-> gen, id |-> drops, step |-> "sent",
                     document |-> None]

\* dropCard on a column that starts nothing: saveBoardCard.  The
\* confirmation covers the board while it is open.
Move(c, to) ==
  /\ c \in Tasks => to # "in_progress"
  /\ candidate = None /\ drops < MaxDrops
  /\ drops' = drops + 1
  /\ puts' = puts \cup {Put(c, to, 0)}
  /\ UNCHANGED <<server, page, modal, loads, calls, faults>>

\* The answer of saveBoardCard; a failure reloads the board.
MoveAnswered(p) ==
  /\ p.gen = 0 /\ p.step \in {"saved", "failed"}
  /\ puts' = puts \ {p}
  /\ UNCHANGED <<server, page, modal, loads, calls, drops, faults>>

-----------------------------------------------------------------------------
(* Starting a Task. *)

\* applyLoadedTask: the confirmation opens for what the loaded state allows.
Apply(t, s) ==
  IF ActionFor(s) = None
  THEN candidate' = None /\ wanted' = None
  ELSE candidate' = [card |-> t, action |-> ActionFor(s)] /\ wanted' = t

\* beginStartLoad: a Task of the page's list is taken as the list has it, however
\* old that is; another is loaded first.
DropToStart(t) ==
  /\ ~busy /\ drops < MaxDrops /\ drops' = drops + 1
  /\ generation' = generation + 1 /\ committed' = FALSE
  /\ IF t \in Listed
     THEN Apply(t, cached[t]) /\ UNCHANGED loads
     ELSE /\ candidate' = [card |-> t, action |-> None] /\ wanted' = t
          /\ loads' = loads \cup {[card |-> t, gen |-> generation + 1, state |-> None]}
  /\ UNCHANGED <<server, page, busy, calls, puts, faults>>

ReadTask(l) ==
  /\ l.state = None
  /\ loads' = Step(loads, l, [l EXCEPT !.state = state[l.card]])
  /\ UNCHANGED <<server, page, modal, calls, puts, drops, faults>>

IsCurrentAlways(gen) == TRUE

\* isCurrent guards what a load may still do.
IsCurrent(gen) == gen = generation

Loaded(l) ==
  /\ l.state # None /\ loads' = loads \ {l}
  /\ IF IsCurrent(l.gen)
     THEN Apply(l.card, l.state)
     ELSE UNCHANGED <<candidate, wanted>>
  /\ UNCHANGED <<server, page, generation, busy, committed, calls, puts, drops, faults>>

LoadFails(l) ==
  /\ Fault /\ loads' = loads \ {l}
  /\ IF IsCurrent(l.gen)
     THEN candidate' = None /\ wanted' = None
     ELSE UNCHANGED <<candidate, wanted>>
  /\ UNCHANGED <<server, page, generation, busy, committed, calls, puts, drops>>

CancelWhileBusy ==
  /\ candidate # None
  /\ generation' = generation + 1 /\ committed' = FALSE
  /\ candidate' = None /\ wanted' = None
  /\ UNCHANGED <<server, page, busy, loads, calls, puts, drops, faults>>

\* cancelStartCandidate: not once the POST is on its way.
CancelStart ==
  /\ candidate # None /\ ~busy
  /\ generation' = generation + 1 /\ committed' = FALSE
  /\ candidate' = None /\ wanted' = None
  /\ UNCHANGED <<server, page, busy, loads, calls, puts, drops, faults>>

Post(attempt) ==
  [card |-> candidate.card, action |-> candidate.action, gen |-> generation,
   attempt |-> attempt, step |-> "sent", answer |-> None]

ConfirmAgain ==
  /\ candidate # None /\ candidate.action # None
  /\ busy' = TRUE
  /\ calls' = calls \cup {Post(Cardinality(calls))}
  /\ UNCHANGED <<server, page, candidate, generation, committed, wanted, loads, puts,
                 drops, faults>>

\* confirmStartCandidate
Confirm ==
  /\ candidate # None /\ candidate.action # None /\ ~busy
  /\ busy' = TRUE
  /\ IF committed
     THEN puts' = puts \cup {Put(candidate.card, "in_progress", generation)} /\ UNCHANGED calls
     ELSE calls' = calls \cup {Post(Cardinality(calls))} /\ UNCHANGED puts
  /\ UNCHANGED <<server, page, candidate, generation, committed, wanted, loads, drops, faults>>

\* Once the Task executes its card is moved; handleBoardTaskUpdated replaces it
\* in the list.
Accepted(c) ==
  /\ c.step = "accepted" /\ calls' = calls \ {c}
  /\ IF IsCurrent(c.gen)
     THEN /\ committed' = TRUE
          /\ cached' = IF c.card \notin Listed THEN cached
                       ELSE [cached EXCEPT ![c.card] = c.answer]
          /\ puts' = puts \cup {Put(c.card, "in_progress", c.gen)}
     ELSE UNCHANGED <<committed, cached, puts>>
  /\ UNCHANGED <<server, list, candidate, generation, busy, wanted, loads, drops, faults>>

RefusedMoves(c) ==
  /\ c.step = "refused" /\ calls' = calls \ {c}
  /\ IF IsCurrent(c.gen)
     THEN puts' = puts \cup {Put(c.card, "in_progress", c.gen)}
     ELSE UNCHANGED puts
  /\ UNCHANGED <<server, page, candidate, generation, committed, busy, wanted, loads,
                 drops, faults>>

\* A failed POST leaves the confirmation open for another try.
Refused(c) ==
  /\ c.step = "refused" /\ calls' = calls \ {c}
  /\ busy' = IF IsCurrent(c.gen) THEN FALSE ELSE busy
  /\ UNCHANGED <<server, page, candidate, generation, committed, wanted, loads, puts,
                 drops, faults>>

\* The PUT ends the interaction, whether it succeeds or not.
CardAnswered(p) ==
  /\ p.gen # 0 /\ p.step \in {"saved", "failed"} /\ puts' = puts \ {p}
  /\ IF IsCurrent(p.gen)
     THEN candidate' = None /\ wanted' = None /\ busy' = FALSE
     ELSE UNCHANGED <<candidate, wanted, busy>>
  /\ UNCHANGED <<server, page, generation, committed, loads, calls, drops, faults>>

\* The page loads its Tasks again after a reconnect; what it read is shown
\* later, over what an accepted start put there meanwhile.
ReadList ==
  /\ Fault /\ list' = TaskList
  /\ UNCHANGED <<server, cached, modal, loads, calls, puts, drops>>

ShowList ==
  /\ list # None /\ cached' = list /\ list' = None
  /\ UNCHANGED <<server, modal, loads, calls, puts, drops, faults>>

\* The page is left, or its board is taken away while it loads again: the
\* unmount bumps the generation, the next mount starts afresh.
Leave ==
  /\ Fault /\ generation' = generation + 1
  /\ candidate' = None /\ wanted' = None /\ busy' = FALSE /\ committed' = FALSE
  /\ cached' = TaskList /\ list' = None
  /\ UNCHANGED <<server, loads, calls, puts, drops>>

-----------------------------------------------------------------------------
Next ==
  \/ \E t \in Tasks : TaskMoves(t) \/ DropToStart(t)
  \/ \E c \in Cards, to \in Columns : Move(c, to)
  \/ \E c \in calls : ServePost(c) \/ Accepted(c) \/ Refused(c)
  \/ \E p \in puts : LoadDocument(p) \/ SaveDocument(p) \/ MoveAnswered(p) \/ CardAnswered(p)
  \/ \E l \in loads : ReadTask(l) \/ Loaded(l) \/ LoadFails(l)
  \/ CancelStart \/ Confirm \/ ReadList \/ ShowList \/ Leave

Spec == Init /\ [][Next]_vars

\* Requests are served and answered; the Owner need not do anything.
Answers ==
  \/ \E c \in calls : ServePost(c) \/ Accepted(c) \/ Refused(c)
  \/ \E p \in puts : LoadDocument(p) \/ SaveDocument(p) \/ MoveAnswered(p) \/ CardAnswered(p)

Fairness == WF_vars(Answers)

FairSpec == Spec /\ Fairness

-----------------------------------------------------------------------------
(* Properties. *)

\* The board, its confirmation and the requests under way are well typed.
TypeOK ==
  /\ state \in [Tasks -> States] /\ column \in [Cards -> Columns]
  /\ cached \in [Tasks -> {None} \cup States]
  /\ list \in {None} \cup [Tasks -> {None} \cup States]
  /\ candidate \in {None} \cup [card : Tasks, action : {None} \cup Actions]
  /\ generation \in Nat /\ busy \in BOOLEAN /\ committed \in BOOLEAN
  /\ \A l \in loads : l.card \in Tasks /\ l.gen \in Nat /\ l.state \in {None} \cup States
  /\ \A c \in calls : c.card \in Tasks /\ c.action \in Actions
  /\ \A p \in puts : p.card \in Cards /\ p.document \in {None} \cup [Cards -> Columns]
  /\ wanted \in {None} \cup Tasks

\* What the modal offers and what is being started is the Task the Owner
\* dropped last and has not called off, however late an earlier load or
\* answer comes (useTaskBoard startGenerationRef).
StartsWhatIsWanted ==
  /\ candidate # None => candidate.card = wanted
  /\ \A c \in calls : c.gen = generation => c.card = wanted

\* One interaction has one POST under way, and none once the Task is known
\* to execute ("a committed execution never POSTs twice").
OneExecution ==
  LET own == {c \in calls : c.gen = generation}
  IN  Cardinality(own) <= 1 /\ (committed => own = {})

\* The board never has a Task in progress that was never started: the PUT of an
\* interaction comes after its POST was accepted, and no older document that a
\* save puts back has more (confirmStartCandidate, UpdateTaskBoardCard).
MovedAfterStart ==
  /\ \A p \in puts : p.gen # 0 => state[p.card] # "prepared"
  /\ \A t \in Tasks : column[t] = "in_progress" => state[t] # "prepared"

\* The modal that locks itself while a POST or PUT is under way is unlocked
\* again (useTaskBoard startBusy).
BusyEnds == busy ~> ~busy
=============================================================================
