----------------------------- MODULE SessionEvents -----------------------------
(* The Session page of the web client and the event stream it listens to:    *)
(* one EventSource per Session with its high water mark, the hook that       *)
(* projects the events, and the page that reloads the authoritative Session  *)
(* on the events that change it.  The server commits an event before it      *)
(* publishes it, so the length of the log is the version of the Session.     *)
EXTENDS Integers, Sequences, FiniteSetsExt

CONSTANTS
  MaxSent,            \* bound: events committed and pieces of text streamed
  MaxFaults,          \* bound: losses, refusals, garbage, failures, recoveries
  InvalidLimit,       \* INVALID_EVENT_LIMIT
  Buffer              \* the capacity of a subscriber's channel, 256 in the code

ASSUME BoundsAssumption ==
  MaxSent \in Nat /\ MaxFaults \in Nat /\ InvalidLimit \in Nat \ {0} /\ Buffer \in Nat

VARIABLES
  log,       \* the committed events, [run, kind]
  deltas,    \* pieces of text the model streamed
  link,      \* readyState of the EventSource, as the browser drives it
  after,     \* the position in the URL of the EventSource
  lastId,    \* the id the browser sends when it connects again by itself
  wire,      \* payloads on their way
  highWater, \* connection.highWater
  hadError, invalid, status,   \* connection.hadError, invalidEvents, status
  stored,    \* localStorage, shared by every tab
  filter,    \* runId of the subscriber, 0 when it has none
  text,      \* streamingText with truncated, and the updates not rendered yet
  shown,     \* version of the projection; Unread before the first
  current,   \* the request of the latest requestVersion
  old,       \* an earlier one that was answered before it was aborted
  failed,    \* the error flag
  post,      \* a mutation under way
  missed,    \* history: events that a stream passed over and did not send again
  gaps,      \* history: pieces of text that the server skipped
  faults

stream == <<link, after, lastId, wire, highWater, hadError, invalid, status>>
page == <<shown, current, old, failed>>
passed == <<missed, gaps>>
vars == <<log, deltas, stream, stored, filter, text, page, post, passed, faults>>

Unread == -1
NoRequest == -2
Kinds == {"begin", "note", "end"}

\* REFRESH_EVENT_TYPES as the events of the model see them, without and with
\* the terminal ones.
RefreshingBegins(e) == e.kind = "begin"

\* plan_created, model_started and the terminal events stand for the types
\* that start a Run, reset the text only, and end a Run.
Refreshing(e) == e.kind \in {"begin", "end"}

Idle == [op |-> "none", run |-> 0]

\* `last` is the last piece shown, 0 if the text is empty, `hole` (history) that
\* one before it is missing that the server did not skip, `cut` the state truncated.  Of the updates not yet
\* rendered: `held` is streamTruncatedRef, `queued` the pieces after the last
\* reset, `clear` that there was a reset, `before` that pieces came before it.
NoText ==
  [last |-> 0, hole |-> FALSE, cut |-> FALSE, held |-> FALSE,
   queued |-> {}, clear |-> FALSE, before |-> FALSE]

Uncleared == text

\* The text, the flag and the ref are reset; the states follow when they render.
Cleared ==
  IF text = NoText THEN text
  ELSE [text EXCEPT !.held = FALSE, !.queued = {}, !.clear = TRUE,
                    !.before = @ \/ text.queued # {}]

\* The Run that is active in version v of the Session, 0 if none is.  A Run
\* has the number of the event it begins with.
Active(v) == IF v <= 0 \/ log[v].kind = "end" THEN 0 ELSE log[v].run

Payload(k) == [seq |-> k, run |-> log[k].run, kind |-> log[k].kind]

\* What a stream opened at position p sends first.
History(p) == [k \in 1..(Len(log) - p) |-> Payload(p + k)]

Init ==
  /\ log = <<>> /\ deltas = 0
  /\ link = "none" /\ after = 0 /\ lastId = 0 /\ wire = <<>>
  /\ highWater = 0 /\ hadError = FALSE /\ invalid = 0 /\ status = "connected"
  /\ stored = 0 /\ filter = 0 /\ text = NoText
  /\ shown = Unread /\ current = Unread /\ old = NoRequest /\ failed = FALSE
  /\ post = Idle /\ missed = {} /\ gaps = {} /\ faults = 0

Fault == faults < MaxFaults /\ faults' = faults + 1

-----------------------------------------------------------------------------
(* The server. *)

\* publish: whoever listens gets it, unless the channel is full.
Published(p) ==
  (IF link = "open" THEN {Append(wire, p)} ELSE {})
    \cup (IF link # "open" \/ Len(wire) >= Buffer THEN {wire} ELSE {})

Skipped == link = "open" /\ wire' = wire

\* An event of the Run is committed, and then published.
Commit(run, kind) ==
  LET k == Len(log) + 1 IN
  /\ Len(log) + deltas < MaxSent
  /\ log' = Append(log, [run |-> run, kind |-> kind])
  /\ wire' \in Published([seq |-> k, run |-> run, kind |-> kind])
  /\ missed' = IF Skipped THEN missed \cup {k} ELSE missed

Now == Active(Len(log))

\* The Run that executes starts a model call or ends.
Progress ==
  /\ Now # 0
  /\ \E kind \in {"note", "end"} : Commit(Now, kind)
  /\ UNCHANGED <<deltas, link, after, lastId, highWater, hadError, invalid, status,
                 stored, filter, text, page, post, gaps, faults>>

MayBegin == Now = 0

\* Another tab, a schedule or the command line starts a Run.
StartElsewhere ==
  /\ MayBegin
  /\ Commit(Len(log) + 1, "begin")
  /\ UNCHANGED <<deltas, link, after, lastId, highWater, hadError, invalid, status,
                 stored, filter, text, page, post, gaps, faults>>

\* A model_delta has no sequence number and is sent once, to a stream that
\* is open.
Delta ==
  /\ Now # 0 /\ Len(log) + deltas < MaxSent
  /\ deltas' = deltas + 1
  /\ wire' \in Published([kind |-> "delta", run |-> Now, piece |-> deltas + 1])
  /\ gaps' = IF Skipped THEN gaps \cup {deltas + 1} ELSE gaps
  /\ UNCHANGED <<log, link, after, lastId, highWater, hadError, invalid, status,
                 stored, filter, text, page, post, missed, faults>>

\* Something the client cannot decode.
Garbage ==
  /\ Fault /\ link = "open"
  /\ wire' = Append(wire, [kind |-> "bad"])
  /\ UNCHANGED <<log, deltas, link, after, lastId, highWater, hadError, invalid,
                 status, stored, filter, text, page, post, passed>>

-----------------------------------------------------------------------------
(* The page: refresh and the effects that follow its answer. *)

\* A new request aborts the one before, whose answer may already have come.
Request ==
  /\ current' = Unread
  /\ old' \in {NoRequest} \cup ({current} \ {Unread})

\* The server reads the Session for the request.
Read ==
  /\ current = Unread /\ current' = Len(log)
  /\ UNCHANGED <<log, deltas, stream, stored, filter, text, shown, old, failed, post,
                 passed, faults>>

ValidatedUnchecked(frontier) == stored

\* validatedSessionHighWater: a mark beyond the frontier is thrown away.
Validated(frontier) == IF stored <= frontier THEN stored ELSE 0

\* The effect keyed by frontier, Run and Session subscribes again: the first
\* time it creates the connection, later it keeps it and forgets the text.
Subscribe(v) ==
  /\ filter' = Active(v)
  /\ text' = IF v = shown THEN text ELSE Cleared
  /\ IF link = "none"
     THEN /\ link' = "connecting" /\ after' = Validated(v) /\ lastId' = 0
          /\ highWater' = Validated(v) /\ stored' = Validated(v)
          /\ hadError' = FALSE /\ invalid' = 0 /\ status' = "connected"
          /\ wire' = <<>>
     ELSE UNCHANGED <<stream, stored>>

\* The answer of the latest request is the projection from now on.
Arrive ==
  /\ current >= 0
  /\ shown' = current /\ failed' = FALSE /\ current' = NoRequest
  /\ Subscribe(current)
  /\ UNCHANGED <<log, deltas, old, post, passed, faults>>

ArriveLateApplied ==
  /\ old # NoRequest /\ old' = NoRequest /\ shown' = old
  /\ Subscribe(old)
  /\ UNCHANGED <<log, deltas, current, failed, post, passed, faults>>

\* The answer of an earlier request changes nothing.
ArriveLate ==
  /\ old # NoRequest /\ old' = NoRequest
  /\ UNCHANGED <<log, deltas, stream, stored, filter, text, shown, current, failed,
                 post, passed, faults>>

RequestFails ==
  /\ Fault /\ current # NoRequest
  /\ current' = NoRequest /\ failed' = TRUE
  /\ UNCHANGED <<log, deltas, stream, stored, filter, text, shown, old, post, passed>>

\* The connection to the server recovers: a new generation.
Recovered ==
  /\ Fault /\ Request
  /\ UNCHANGED <<log, deltas, stream, stored, filter, text, shown, failed, post, passed>>

\* The Owner leaves the page and comes back, or reloads it.  The last
\* subscriber closes the source; only the stored mark survives, and the hook
\* starts over without an error to show.
Revisit ==
  /\ Fault /\ post = Idle
  /\ link' = "none" /\ wire' = <<>> /\ filter' = 0 /\ text' = NoText
  /\ shown' = Unread /\ current' = Unread /\ old' = NoRequest /\ failed' = FALSE
  /\ status' = "connected" /\ missed' = {} /\ gaps' = {}
  /\ UNCHANGED <<log, deltas, after, lastId, highWater, hadError, invalid, stored,
                 post>>

\* Another tab of the browser stores its own mark.  It is read only when the
\* connection is created.
OtherTab ==
  /\ Fault /\ link = "none" /\ stored' \in 0..Len(log)
  /\ UNCHANGED <<log, deltas, stream, filter, text, page, post, passed>>

-----------------------------------------------------------------------------
(* Mutations. *)

Submit ==
  /\ shown # Unread /\ post = Idle /\ Active(shown) = 0
  /\ post' = [op |-> "start", run |-> 0]
  /\ UNCHANGED <<log, deltas, stream, stored, filter, text, page, passed, faults>>

Cancel ==
  /\ shown # Unread /\ post = Idle /\ Active(shown) # 0
  /\ post' = [op |-> "cancel", run |-> Active(shown)]
  /\ UNCHANGED <<log, deltas, stream, stored, filter, text, page, passed, faults>>

\* The server does what it is asked, or refuses, which is only a toast.
Serve ==
  /\ \/ /\ post.op = "start" /\ MayBegin
        /\ Commit(Len(log) + 1, "begin") /\ post' = [post EXCEPT !.op = "done"]
     \/ /\ post.op = "cancel" /\ Now = post.run
        /\ Commit(Now, "end") /\ post' = [post EXCEPT !.op = "done"]
     \/ /\ post.op \in {"start", "cancel"}
        /\ post' = Idle /\ UNCHANGED <<log, wire, missed>>
  /\ UNCHANGED <<deltas, link, after, lastId, highWater, hadError, invalid, status,
                 stored, filter, text, page, gaps, faults>>

\* Success reloads the Session.
Answer ==
  /\ post.op = "done" /\ post' = Idle
  /\ Request
  /\ UNCHANGED <<log, deltas, stream, stored, filter, text, shown, failed, passed, faults>>

-----------------------------------------------------------------------------
(* The stream. *)

\* onopen: the server resumes after the position the browser names; a stream
\* that had an error forgets its text and reloads the Session.
Opened ==
  /\ link \in {"connecting", "retrying"}
  /\ link' = "open" /\ status' = "connected" /\ hadError' = FALSE
  /\ wire' = History(IF lastId > after THEN lastId ELSE after)
  /\ IF hadError
     THEN Request /\ text' = Cleared
     ELSE UNCHANGED <<current, old, text>>
  /\ missed' = {k \in missed : k <= highWater}
  /\ UNCHANGED <<log, deltas, after, lastId, highWater, invalid, stored, filter,
                 shown, failed, post, gaps, faults>>

\* onerror: what is on its way is lost and the browser tries again, unless
\* it was answered with an error: then it never does.
Lost ==
  /\ Fault
  /\ \/ link = "open" /\ link' = "retrying"
     \/ link \in {"connecting", "retrying"} /\ link' = "dead"
  /\ wire' = <<>> /\ hadError' = TRUE /\ status' = "reconnecting"
  /\ UNCHANGED <<log, deltas, after, lastId, highWater, invalid, stored, filter,
                 text, page, post, passed>>

Heard(p) == filter = 0 \/ p.run = filter

\* onEvent for a model_delta: unless the text was cut, an updater is queued.
Appended(p) == IF text.held THEN text ELSE [text EXCEPT !.queued = @ \cup {p.piece}]

\* React runs the updaters when it renders.  A piece that would make the text
\* too long is left out, sets the ref and flags the text, also if the text it
\* belonged to was reset; what was queued behind it is appended all the same.
Render ==
  /\ text.queued # {} \/ text.clear
  /\ \E long \in SUBSET text.queued, earlier \in {FALSE, text.before} :
       LET joined == (text.queued \ long) \cup ({IF text.clear THEN 0 ELSE text.last} \ {0})
           over   == long # {} \/ earlier
       IN  text' =
             [NoText EXCEPT
                !.last = IF joined = {} THEN 0 ELSE Max(joined),
                !.hole = (text.hole /\ ~text.clear)
                           \/ \E k \in 1..deltas \ (joined \cup gaps) :
                                \E before, behind \in joined : before < k /\ k < behind,
                !.cut  = over \/ (text.cut /\ ~text.clear),
                !.held = text.held \/ over]
  /\ UNCHANGED <<log, deltas, stream, stored, filter, page, post, passed, faults>>

\* fatalInvalidStream after too many in a row.
ReceiveBad ==
  /\ wire # <<>> /\ Head(wire).kind = "bad"
  /\ invalid' = invalid + 1
  /\ IF invalid' >= InvalidLimit
     THEN link' = "closed" /\ status' = "fatal" /\ wire' = <<>>
     ELSE wire' = Tail(wire) /\ UNCHANGED <<link, status>>
  /\ UNCHANGED <<log, deltas, after, lastId, highWater, hadError, stored, filter,
                 text, page, post, passed, faults>>

ReceiveDelta ==
  /\ wire # <<>> /\ Head(wire).kind = "delta"
  /\ wire' = Tail(wire) /\ invalid' = 0
  /\ text' = IF Heard(Head(wire)) THEN Appended(Head(wire)) ELSE text
  /\ UNCHANGED <<log, deltas, link, after, lastId, highWater, hadError, status,
                 stored, filter, page, post, passed, faults>>

\* A sequenced event counts once and moves the mark, also when its Run is
\* not the one the page listens to.
ReceiveEvent ==
  /\ wire # <<>> /\ Head(wire).kind \in Kinds
  /\ LET p == Head(wire)
         fresh == p.seq > highWater
     IN  /\ wire' = Tail(wire) /\ invalid' = 0 /\ lastId' = p.seq
         /\ IF fresh
            THEN highWater' = p.seq /\ stored' = p.seq
            ELSE UNCHANGED <<highWater, stored>>
         /\ text' = IF fresh /\ Heard(p) THEN Cleared ELSE text
         /\ missed' = IF fresh /\ ~Heard(p) THEN missed \cup {p.seq} ELSE missed
         /\ IF fresh /\ Heard(p) /\ Refreshing(p)
            THEN Request
            ELSE UNCHANGED <<current, old>>
  /\ UNCHANGED <<log, deltas, link, after, hadError, status, filter, shown, failed,
                 post, gaps, faults>>

\* The button shown after a fatal error: a new source from the same mark.
Reconnect ==
  /\ status = "fatal"
  /\ link' = "connecting" /\ after' = highWater /\ lastId' = 0 /\ wire' = <<>>
  /\ hadError' = TRUE /\ invalid' = 0 /\ status' = "reconnecting"
  /\ UNCHANGED <<log, deltas, highWater, stored, filter, text, page, post, passed, faults>>

-----------------------------------------------------------------------------
Next ==
  \/ Progress \/ StartElsewhere \/ Delta \/ Garbage
  \/ Read \/ Arrive \/ ArriveLate \/ RequestFails \/ Recovered \/ Revisit \/ OtherTab
  \/ Submit \/ Cancel \/ Serve \/ Answer
  \/ Opened \/ Lost \/ ReceiveBad \/ ReceiveDelta \/ ReceiveEvent \/ Reconnect
  \/ Render

Spec == Init /\ [][Next]_vars

\* The network answers and the browser dispatches; nobody has to press a
\* button, and the server need not commit anything.
Fairness ==
  /\ WF_vars(Read) /\ WF_vars(Arrive) /\ WF_vars(Opened)
  /\ WF_vars(ReceiveBad \/ ReceiveDelta \/ ReceiveEvent)
  /\ WF_vars(Answer)

FairSpec == Spec /\ Fairness

-----------------------------------------------------------------------------
(* Properties. *)

\* The stream, the requests and the projection of sessionEvents.ts,
\* useSessionEvents.ts and AgentPage.tsx are well typed, and no mark, URL or
\* snapshot is ahead of what the server committed.
TypeOK ==
  /\ log \in Seq([run : Nat, kind : Kinds]) /\ deltas \in 0..MaxSent
  /\ link \in {"none", "connecting", "open", "retrying", "dead", "closed"}
  /\ after \in 0..Len(log) /\ lastId \in 0..Len(log) /\ highWater \in 0..Len(log)
  /\ hadError \in BOOLEAN /\ failed \in BOOLEAN
  /\ invalid \in 0..InvalidLimit /\ status \in {"connected", "reconnecting", "fatal"}
  /\ stored \in 0..Len(log) /\ filter \in Nat
  /\ text \in [last : 0..deltas, hole : BOOLEAN, cut : BOOLEAN, held : BOOLEAN,
               queued : SUBSET (1..deltas), clear : BOOLEAN, before : BOOLEAN]
  /\ shown \in Unread..Len(log)
  /\ current \in NoRequest..Len(log) /\ old \in {NoRequest} \cup 0..Len(log)
  /\ post \in [op : {"none", "start", "cancel", "done"}, run : Nat]
  /\ missed \in SUBSET (1..Len(log)) /\ gaps \in SUBSET (1..deltas)
  /\ faults \in 0..MaxFaults

\* The page may show event k without a new request for it: it is in the
\* projection, a request that will show it is under way, or the page says
\* that it is stale.
Covers(k) ==
  \/ k <= shown
  \/ current = Unread \/ current >= k
  \/ failed

\* High water hides nothing that was heard (sessionEvents.ts handlePayload): an
\* event that starts or ends a Run is dropped as already seen only if the page
\* covers it, through reloads, reconnections, other tabs and late answers.  What
\* the stream passed over, since the channel was full (publish) or the page
\* listened to another Run (Subscriber.runId), is not heard.
MarkedIsCovered ==
  shown # Unread => \A k \in (1..highWater) \ missed : Refreshing(log[k]) => Covers(k)

\* Answers out of order never take the projection back to an earlier version
\* (AgentPage refresh): a page that is not left only moves forward.
NeverBackwards == [][shown # Unread /\ shown' # Unread => shown' >= shown]_vars

\* A text that lacks a piece which the server sent says that it was truncated,
\* through lost connections, resets and pieces that are rendered later than they
\* came (useSessionEvents onEvent, onReconnect).
HolesAreShown == text.hole => text.cut

\* The page says that what it shows may be old.
Flagged == failed \/ status # "connected" \/ (shown = Unread /\ current # NoRequest)

\* Nobody looks at an old Run for ever: once the server is quiet the page shows the
\* Run that is active, says that it may be stale, or was passed over by an event
\* that it should have reloaded the Session for.
EventuallyCurrent ==
  []<>\/ Flagged
      \/ shown # Unread /\ Active(shown) = Now
      \/ \E k \in missed : k > shown /\ Refreshing(log[k])
=============================================================================
