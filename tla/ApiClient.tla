------------------------------- MODULE ApiClient -------------------------------
(* One request of the web client, from its endpoint to its outcome, over a    *)
(* server that may answer anything, in any pieces, or stop, and a page that   *)
(* may abort it at any moment.                                                *)
EXTENDS Naturals, Sequences

CONSTANTS
  None,
  MaxChunks  \* bound: chunks of a body

VARIABLES request

vars == <<request>>

\* Sizes are in halves of a MiB.
DEFAULT_MAX_RESPONSE_BYTES == 2
SESSION_MAX_RESPONSE_BYTES == 32
Chunks == {1, 2, 31}

-----------------------------------------------------------------------------
(* What the client asks for. A path is the sequence of its segments after     *)
(* /api, an identifier in it is Id; the query and the body are left out.      *)

Id == "{}"

Endpoint(method, path, answer) == [method |-> method, path |-> path, answer |-> answer]

\* A request that awaits a value, and one that awaits nothing.
Get(path) == Endpoint("GET", path, "value")
Post(path) == Endpoint("POST", path, "value")
Put(path) == Endpoint("PUT", path, "value")
DeleteSilently(path) == Endpoint("DELETE", path, "nothing")
Delete(path) == Endpoint("DELETE", path, "value")
Remove(path) == Endpoint("DELETE", path, "nothing")

StatusEndpoints ==
  {Get(<<"health">>), Get(<<"info">>), Get(<<"loops">>), Get(<<"loops", Id, "runtime">>),
   Get(<<"settings", "notifications">>), Get(<<"reports">>), Post(<<"reports", Id, "retry">>),
   Get(<<"loops", Id, "invocations">>)}

EmployeeEndpoints ==
  {Get(<<"employees">>), Get(<<"employees", Id>>), Post(<<"employees">>), Put(<<"employees", Id>>),
   Post(<<"employees", Id, "dry-run">>), Get(<<"projects">>), Get(<<"skills">>),
   Get(<<"employees", Id, "skills">>), Put(<<"employees", Id, "skills">>)}
  \cup {Post(<<"employees", Id, action>>) : action \in {"disable", "enable", "archive"}}

EmployeeDataEndpoints ==
  LET Of(rest) == <<"employees", Id>> \o rest
  IN {Get(Of(<<"knowledge">>)), Post(Of(<<"knowledge">>)), Post(Of(<<"knowledge", Id, "refresh">>)),
      Remove(Of(<<"knowledge", Id>>)), Get(Of(<<"memory">>)), Get(Of(<<"memory-candidates">>)),
      Post(Of(<<"memory-candidates", Id, "accept">>)), Remove(Of(<<"memory-candidates", Id>>)),
      Put(Of(<<"memory", Id>>)), Remove(Of(<<"memory", Id>>)), Get(Of(<<"activity">>))}

TaskEndpoints ==
  {Get(<<"employees", Id, "tasks">>), Post(<<"employees", Id, "tasks">>), Get(<<"employee-tasks", Id>>)}
  \cup {Post(<<"employee-tasks", Id, action>>) : action \in {"start", "cancel", "resume"}}

BoardEndpoints ==
  {Get(<<"task-board">>), Put(<<"task-board">>), Put(<<"task-board", "cards", Id>>),
   Post(<<"task-board", "notes">>)}

LoopEndpoints ==
  {Get(<<"loops", Id>>), Post(<<"loops">>), Put(<<"loops", Id>>), Post(<<"loops", "import">>),
   Post(<<"loops", Id, "dry-run">>), Post(<<"loops", Id, "invocations">>),
   Get(<<"loop-invocations", Id>>), Post(<<"loop-invocations", Id, "cancel">>),
   Get(<<"team-template", "export">>), Post(<<"team-template", "import">>)}

OwnerEndpoints ==
  {Get(<<"owner">>), Put(<<"owner">>), Put(<<"owner", "facts", Id>>), Delete(<<"owner", "facts", Id>>),
   Put(<<"settings", "providers", Id, "api-key">>), Delete(<<"settings", "providers", Id, "credentials">>),
   Post(<<"settings", "providers", "openai-codex", "login">>), Get(<<"settings", "logins", Id>>)}

SessionEndpoints ==
  {Get(<<"sessions">>), Get(<<"sessions", Id>>), Post(<<"sessions">>), Post(<<"sessions", Id, "runs">>),
   Get(<<"sessions", Id, "approvals">>), Post(<<"sessions", Id, "approvals", Id, "decide">>)}
  \cup {Post(<<"sessions", Id, "runs", Id, action>>) : action \in {"cancel", "resume", "approve"}}

Endpoints ==
  UNION {StatusEndpoints, EmployeeEndpoints, EmployeeDataEndpoints, TaskEndpoints, BoardEndpoints,
         LoopEndpoints, OwnerEndpoints, SessionEndpoints}

\* Segments that put a path outside the API or within another resource: a
\* fragment, a hidden "..", a broken escape, another origin.
Refused == {"x#y", "%2e%2e", "%", "//x"}

-----------------------------------------------------------------------------
(* What the server serves: its routes, each with the status of its success.   *)
(* "{}" stands for any one segment; every other GET is the page itself.       *)

Route(method, paths, status) == {[method |-> method, path |-> path, status |-> status] : path \in paths}

EmployeeRoutes ==
  UNION {
    Route("GET", {<<"employees">>, <<"employees", Id>>}, "ok"),
    Route("POST", {<<"employees">>}, "ok"), Route("PUT", {<<"employees", Id>>}, "ok"),
    Route("POST", {<<"employees", Id, a>> :
            a \in {"dry-run", "disable", "enable", "archive", "knowledge", "tasks"}}, "ok"),
    Route("GET", {<<"employees", Id, a>> :
            a \in {"activity", "skills", "knowledge", "memory", "memory-candidates", "tasks"}}, "ok"),
    Route("PUT", {<<"employees", Id, "skills">>, <<"employees", Id, "memory", Id>>}, "ok"),
    Route("POST", {<<"employees", Id, "knowledge", Id, "refresh">>,
                   <<"employees", Id, "memory-candidates", Id, "accept">>}, "ok"),
    Route("DELETE", {<<"employees", Id, a, Id>> : a \in {"knowledge", "memory-candidates", "memory"}}, "204")}

Routes ==
  EmployeeRoutes \cup UNION {
    Route("GET", {<<a>> : a \in {"health", "info", "owner", "projects", "skills", "task-board", "loops",
                                  "reports", "sessions"}}, "ok"),
    Route("PUT", {<<"task-board">>, <<"task-board", "cards", Id>>, <<"owner">>, <<"owner", "facts", Id>>,
                  <<"loops", Id>>, <<"settings", "providers", Id, "api-key">>}, "ok"),
    Route("POST", {<<"employee-tasks", Id, a>> : a \in {"start", "cancel", "resume"}}, "ok"),
    Route("POST", {<<"task-board", "notes">>, <<"loops">>, <<"loops", "import">>, <<"sessions">>,
                   <<"team-template", "import">>}, "ok"),
    Route("GET", {<<a, Id>> : a \in {"employee-tasks", "loops", "loop-invocations", "sessions"}}, "ok"),
    Route("GET", {<<"loops", Id, a>> : a \in {"runtime", "invocations"}}, "ok"),
    Route("POST", {<<"loops", Id, a>> : a \in {"dry-run", "invocations"}}, "ok"),
    Route("POST", {<<"loop-invocations", Id, "cancel">>, <<"reports", Id, "retry">>}, "ok"),
    Route("GET", {<<"team-template", "export">>, <<"settings", "logins", Id>>,
                  <<"settings", "notifications">>, <<"sessions", Id, "approvals">>}, "ok"),
    Route("POST", {<<"sessions", Id, "runs">>, <<"sessions", Id, "approvals", Id, "decide">>}, "ok"),
    Route("POST", {<<"sessions", Id, "runs", Id, a>> : a \in {"cancel", "resume", "approve"}}, "ok"),
    Route("DELETE", {<<"owner", "facts", Id>>, <<"settings", "providers", Id, "credentials">>}, "ok"),
    Route("POST", {<<"settings", "providers", "openai-codex", "login">>}, "ok"),
    Route("GET", {<<"loops", Id, "contract.md">>}, "text"),
    Route("GET", {<<"sessions", Id, "events">>}, "stream"), Route("POST", {<<"run">>}, "stream")}

Matches(route) ==
  /\ route.method = request.method
  /\ Len(route.path) = Len(request.path)
  /\ \A i \in DOMAIN route.path : route.path[i] \in {Id, request.path[i]}

\* The answers of the handlers: the success of the route, or an error, as JSON;
\* a request that no route takes is answered with the page or in plain text.
ServerAnswers ==
  IF \E route \in Routes : Matches(route)
  THEN {[status |-> route.status, json |-> route.status = "ok"] : route \in {r \in Routes : Matches(r)}}
       \cup {[status |-> "error", json |-> TRUE]}
  ELSE {[status |-> IF request.method = "GET" THEN "ok" ELSE "error", json |-> FALSE]}

-----------------------------------------------------------------------------
\* `text` is what the client holds of the body, `character` an unfinished
\* character at its end; `body` is the stream: not there yet, open, drained,
\* broken or cancelled; what is history is under `sent`.
Init ==
  \E endpoint \in Endpoints \cup {Get(<<segment>>) : segment \in Refused} :
    request = [path |-> endpoint.path, method |-> endpoint.method, answer |-> endpoint.answer,
               phase |-> "new", outcome |-> None,
               ok |-> FALSE, json |-> FALSE, status |-> None, declared |-> None,
               body |-> None, text |-> 0, character |-> FALSE, chunks |-> 0, aborted |-> FALSE,
               sent |-> [fetched |-> FALSE, served |-> FALSE, whole |-> FALSE, valid |-> TRUE]]

\* apiRequestNoContent waits for a 204.
NoContent == request.answer = "nothing"

Is(phase) == request.phase = phase /\ request.outcome = None

\* An answer with this body and this outcome.
Ends(outcome, body) ==
  request' = [request EXCEPT !.outcome = outcome, !.body = body]

safelyCancel == IF request.body = "open" THEN "cancelled" ELSE request.body

-----------------------------------------------------------------------------
(* The request. *)

validateApiPath == \A i \in DOMAIN request.path : request.path[i] \notin Refused

responseByteLimit ==
  IF request.method = "GET" /\ request.path = <<"sessions", Id>>
  THEN SESSION_MAX_RESPONSE_BYTES ELSE DEFAULT_MAX_RESPONSE_BYTES

Refuse == Is("new") /\ ~validateApiPath /\ Ends("invalid_path", request.body)

Fetch ==
  /\ Is("new") /\ validateApiPath
  /\ request' = [request EXCEPT !.phase = "sent", !.sent.fetched = TRUE]

Abort ==
  /\ Is("sent") \/ Is("head") \/ Is("reading")
  /\ ~request.aborted
  /\ request' = [request EXCEPT !.aborted = TRUE, !.body = IF @ = "open" THEN "broken" ELSE @]

\* The server answers: the status and the headers of a body that follows.
Answer ==
  /\ Is("sent") /\ ~request.aborted
  /\ \E status \in {"ok", "204", "error"}, json \in BOOLEAN, length \in {None, 0, 2, 3, 33} :
       request' = [request EXCEPT !.phase = "head", !.ok = status # "error", !.status = status,
                                  !.json = json, !.declared = length,
                                  !.sent.served = [status |-> status, json |-> json] \in ServerAnswers,
                                  !.body = IF status = "204" THEN "drained" ELSE "open"]

\* fetch or a read rejects: by the signal, or because the connection is gone.
Rejected == Ends(IF request.aborted THEN "aborted" ELSE "network_error", "broken")

FetchRejects == Is("sent") /\ Rejected

Declared == request.declared

HeadRefusedOpen ==
  /\ Is("head")
  /\ \/ ~request.ok /\ Ends("http_error", request.body)
     \/ request.ok /\ NoContent /\ request.status # "204" /\ Ends("invalid_response", safelyCancel)
     \/ request.ok /\ ~NoContent /\ ~request.json /\ Ends("invalid_content_type", request.body)

HeadRefused ==
  /\ Is("head")
  /\ \/ ~request.ok /\ Ends("http_error", safelyCancel)
     \/ request.ok /\ NoContent /\ request.status # "204" /\ Ends("invalid_response", safelyCancel)
     \/ /\ request.ok /\ ~NoContent /\ ~request.json
        /\ Ends("invalid_content_type", safelyCancel)

Deleted ==
  Is("head") /\ request.ok /\ NoContent /\ request.status = "204" /\ Ends("value", safelyCancel)

MayRead == Is("head") /\ request.ok /\ ~NoContent /\ request.json

\* A declared length that is no number or too large refuses the body unread.
TooLarge == Declared # None /\ Declared \notin 0 .. responseByteLimit

StartReading ==
  /\ MayRead
  /\ IF TooLarge
     THEN Ends("response_too_large", safelyCancel)
     ELSE request' = [request EXCEPT !.phase = "reading"]

CountedAlone(size) == size

Counted(size) == request.text + size

\* The next chunk, which may end within a character.
Decoded(size, character) ==
  request' = [request EXCEPT !.text = @ + size, !.character = character, !.chunks = @ + 1]

Chunk ==
  /\ Is("reading") /\ request.body = "open" /\ request.chunks < MaxChunks
  /\ \E size \in Chunks, character \in {"whole", "cut", "invalid"} :
       IF Counted(size) > responseByteLimit
       THEN Ends("response_too_large", safelyCancel)
       ELSE IF character = "invalid"
            THEN Ends("invalid_response", safelyCancel)
            ELSE Decoded(size, character = "cut")

\* A 204 of a read has no body at all.
LastChunk ==
  /\ Is("reading") /\ request.body \in {"open", "drained"}
  /\ request' = [request EXCEPT !.body = "drained", !.phase = "read",
                                !.sent.whole = request.body = "open", !.sent.valid = ~request.character]

ReadRejects == Is("reading") /\ request.body \in {"open", "broken"} /\ Rejected

UnfinishedUnseen == FALSE

\* The last decode of an empty chunk, which is fatal within a character.
Unfinished == request.character

\* The text is a document that the decoder of the caller accepts, or not.
decode ==
  /\ Is("read")
  /\ IF Unfinished
     THEN Ends("invalid_response", safelyCancel)
     ELSE \E outcome \in IF request.text = 0 THEN {"invalid_json"}
                         ELSE {"invalid_json", "invalid_response", "value"} :
            Ends(outcome, request.body)

Next ==
  \/ Refuse \/ Fetch \/ Abort \/ Answer \/ FetchRejects \/ HeadRefused \/ Deleted
  \/ StartReading \/ Chunk \/ LastChunk \/ ReadRejects \/ decode

Spec == Init /\ [][Next]_vars

-----------------------------------------------------------------------------
(* Properties *)

\* Whatever length the server declares and however it cuts the body, the client
\* holds no more than the limit of the path (readBoundedText).
HeldIsBounded == request.text <= responseByteLimit

\* A caller is given a value only of a whole, valid, successful JSON answer, and
\* is told of an abort only when it asked for one (apiRequest).
OutcomeIsTrue ==
  /\ request.outcome = "value" =>
       /\ request.ok
       /\ NoContent \/ (request.json /\ request.sent.whole /\ request.sent.valid)
  /\ request.outcome = "aborted" => request.aborted
  /\ (request.outcome = "invalid_path") = (request.outcome # None /\ ~request.sent.fetched)

\* What the routes of the server answer is what the endpoint waits for: such an
\* answer is refused for its status only when it is an error, and never for
\* its type (endpoints.ts, server.go Handler).
ServedIsUnderstood ==
  request.sent.served =>
    /\ request.outcome = "http_error" => request.json
    /\ request.outcome # "invalid_content_type"
    /\ request.outcome = "invalid_response" => request.phase # "head"

\* However a request ends, no stream is left open behind it (safelyCancel).
NothingLeftOpen == request.outcome # None => request.body # "open"
=============================================================================
