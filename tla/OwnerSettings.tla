----------------------------- MODULE OwnerSettings -----------------------------
(* The settings page: the Owner's profile and facts, a provider's key and     *)
(* credentials, and the login that is polled until somebody decides it.  The  *)
(* page loads again after every reconnect, also beside a mutation.            *)
EXTENDS Naturals, FiniteSets

CONSTANTS
  None,
  MaxFacts, MaxLogins, MaxFaults  \* bounds: facts ever stored; logins; reconnects and failures

VARIABLES server, page, requests, faults

vars == <<server, page, requests, faults>>

\* The rest of the profile is saved and loaded with the facts; `forgotten` and
\* `next`, the fact to be added next, are history.
Stored ==
  [facts |-> {}, configured |-> FALSE, login |-> None, logins |-> 0,
   forgotten |-> {}, next |-> 1]

Fresh ==
  [mounted |-> TRUE, loading |-> TRUE, facts |-> {}, configured |-> FALSE, key |-> FALSE,
   sent |-> FALSE, dialog |-> None, login |-> None, armed |-> FALSE, busy |-> FALSE]

Request(kind) ==
  [kind |-> kind, fact |-> 0, facts |-> {}, login |-> None, configured |-> FALSE,
   status |-> "sent"]

Init ==
  server = Stored /\ page = Fresh /\ requests = {Request("load")} /\ faults = 0

Fault == faults < MaxFaults /\ faults' = faults + 1

Of(kinds) == {q \in requests : q.kind \in kinds}

-----------------------------------------------------------------------------
(* Loading. *)

\* The effect of load: a new generation aborts the load before it.
Reconnect ==
  /\ page.mounted /\ Fault
  /\ requests' = (requests \ Of({"load"})) \cup {Request("load")}
  /\ UNCHANGED <<server, page>>

Loaded(q) ==
  /\ q.kind = "load" /\ q.status # "sent" /\ requests' = requests \ {q}
  /\ page' = IF q.status = "done"
             THEN [page EXCEPT !.loading = FALSE, !.facts = q.facts, !.configured = q.configured]
             ELSE [page EXCEPT !.loading = FALSE]
  /\ UNCHANGED <<server, faults>>

\* The page is left: loads and polls are aborted, mutations go on.
Leave ==
  /\ page.mounted /\ page.dialog = None
  /\ page' = [Fresh EXCEPT !.mounted = FALSE]
  /\ requests' = requests \ Of({"load", "poll", "approval"})
  /\ UNCHANGED <<server, faults>>

-----------------------------------------------------------------------------
(* Mutations. *)

\* Two of them go on with a read of what is configured.
Mutations ==
  {"profile", "add", "forget", "key", "keyInfo", "credentials", "info", "login"}

MayMutate == ~page.loading /\ ~page.busy

Send(q) == requests' = requests \cup {q}

submitProfile ==
  /\ MayMutate /\ Send([Request("profile") EXCEPT !.facts = page.facts]) /\ page' = [page EXCEPT !.busy = TRUE]
  /\ UNCHANGED <<server, faults>>

addFact ==
  /\ MayMutate /\ server.next <= MaxFacts
  /\ Send([Request("add") EXCEPT !.fact = server.next])
  /\ server' = [server EXCEPT !.next = @ + 1]
  /\ page' = [page EXCEPT !.busy = TRUE]
  /\ UNCHANGED faults

\* The dialogs open at any time and look at busy when they are confirmed.
confirmForgetFact(fact) ==
  /\ fact \in page.facts /\ page.dialog = None
  /\ page' = [page EXCEPT !.dialog = [kind |-> "forget", fact |-> fact]]
  /\ UNCHANGED <<server, requests, faults>>

confirmDeleteCredentials ==
  /\ page.configured /\ ~page.busy /\ page.dialog = None
  /\ page' = [page EXCEPT !.dialog = [kind |-> "credentials", fact |-> 0]]
  /\ UNCHANGED <<server, requests, faults>>

ConfirmUnguarded ==
  /\ page.dialog # None
  /\ Send([Request(page.dialog.kind) EXCEPT !.fact = page.dialog.fact])
  /\ page' = [page EXCEPT !.dialog = None, !.busy = TRUE]
  /\ UNCHANGED <<server, faults>>

Confirm ==
  /\ page.dialog # None
  /\ IF page.busy
     THEN page' = [page EXCEPT !.dialog = None] /\ UNCHANGED requests
     ELSE /\ Send([Request(page.dialog.kind) EXCEPT !.fact = page.dialog.fact])
          /\ page' = [page EXCEPT !.dialog = None, !.busy = TRUE]
  /\ UNCHANGED <<server, faults>>

Dismiss ==
  /\ page.dialog # None /\ page' = [page EXCEPT !.dialog = None]
  /\ UNCHANGED <<server, requests, faults>>

TypeKey ==
  /\ page.mounted /\ ~page.loading /\ page' = [page EXCEPT !.key = TRUE, !.sent = FALSE]
  /\ UNCHANGED <<server, requests, faults>>

saveKey ==
  /\ MayMutate /\ page.key /\ Send(Request("key"))
  /\ page' = [page EXCEPT !.busy = TRUE, !.sent = TRUE]
  /\ UNCHANGED <<server, faults>>

beginCodexLogin ==
  /\ MayMutate /\ server.logins < MaxLogins
  /\ ~page.configured \/ page.login \in {"error", "expired"}
  /\ Send(Request("login"))
  /\ page' = [page EXCEPT !.busy = TRUE]
  /\ UNCHANGED <<server, faults>>

-----------------------------------------------------------------------------
(* The server. *)

\* PUT /api/owner replaces the profile, facts included.
Applied(q) ==
  CASE q.kind = "profile"     -> [server EXCEPT !.facts = q.facts]
    [] q.kind = "add"         -> [server EXCEPT !.facts = @ \cup {q.fact}]
    [] q.kind = "forget"      -> [server EXCEPT !.facts = @ \ {q.fact}]
    [] q.kind = "key"         -> [server EXCEPT !.configured = TRUE]
    [] q.kind = "credentials" -> [server EXCEPT !.configured = FALSE]
    [] q.kind = "login"       -> [server EXCEPT !.login = "pending", !.logins = @ + 1]
    [] OTHER                  -> server

Swap(q, new) == requests' = (requests \ {q}) \cup {new}

Failed(q) == [Request(q.kind) EXCEPT !.status = "failed"]

Profiles == {"load", "profile", "add", "forget"}

\* What the page takes from an answer.
Answered(q, s) ==
  [q EXCEPT !.status = "done",
            !.fact = IF q.kind = "forget" THEN @ ELSE 0,
            !.facts = IF q.kind \in Profiles THEN s.facts ELSE {},
            !.configured = q.kind \in {"load", "keyInfo", "info", "approval"} /\ s.configured,
            !.login = IF q.kind = "poll" THEN s.login ELSE None]

Refusable(q) == q.kind = "forget" /\ q.fact \notin server.facts

Serve(q) ==
  /\ q.status = "sent" /\ ~Refusable(q) /\ server' = Applied(q)
  /\ \/ Swap(q, Answered(q, server')) /\ UNCHANGED faults
     \/ Fault /\ Swap(q, Failed(q))
  /\ UNCHANGED page

Refuse(q) ==
  /\ q.status = "sent" /\ Swap(q, Failed(q))
  /\ IF Refusable(q) THEN UNCHANGED faults ELSE Fault
  /\ UNCHANGED <<server, page>>

\* The Owner, or a clock, decides the login elsewhere.
LoginDecided ==
  /\ server.login = "pending"
  /\ \/ server' = [server EXCEPT !.login = "approved", !.configured = TRUE]
     \/ server' = [server EXCEPT !.login = "expired"]
  /\ UNCHANGED <<page, requests, faults>>

-----------------------------------------------------------------------------
(* Answers. *)

ProfileAnswered(q) ==
  /\ q.kind \in {"profile", "add", "forget"} /\ q.status # "sent"
  /\ requests' = requests \ {q}
  /\ page' = IF ~page.mounted THEN page
             ELSE IF q.status = "done" THEN [page EXCEPT !.facts = q.facts, !.busy = FALSE]
             ELSE [page EXCEPT !.busy = FALSE]
  /\ server' = IF q.kind = "forget" /\ q.status = "done"
               THEN [server EXCEPT !.forgotten = @ \cup {q.fact}] ELSE server
  /\ UNCHANGED faults

\* After a key or credentials the page reads what is configured.
SecretSaved(q) ==
  /\ q.kind \in {"key", "credentials"} /\ q.status = "done"
  /\ Swap(q, Request(IF q.kind = "key" THEN "keyInfo" ELSE "info"))
  /\ UNCHANGED <<server, page, faults>>

SecretEndsKeyKept(q) ==
  /\ \/ q.kind \in {"key", "credentials"} /\ q.status = "failed"
     \/ q.kind \in {"keyInfo", "info"} /\ q.status # "sent"
  /\ requests' = requests \ {q}
  /\ page' = IF ~page.mounted THEN page
             ELSE [page EXCEPT !.busy = FALSE,
                               !.configured = IF q.status = "done" THEN q.configured ELSE @,
                               !.key = IF q.status = "done" /\ q.kind = "keyInfo" THEN FALSE ELSE @]
  /\ UNCHANGED <<server, faults>>

\* The key is cleared whatever became of it.
SecretEnds(q) ==
  /\ \/ q.kind \in {"key", "credentials"} /\ q.status = "failed"
     \/ q.kind \in {"keyInfo", "info"} /\ q.status # "sent"
  /\ requests' = requests \ {q}
  /\ page' = IF ~page.mounted THEN page
             ELSE [page EXCEPT !.busy = FALSE,
                               !.configured = IF q.status = "done" THEN q.configured ELSE @,
                               !.key = IF q.kind \in {"key", "keyInfo"} THEN FALSE ELSE @]
  /\ UNCHANGED <<server, faults>>

\* setLogin with a pending login arms the timer, and a poll under way is aborted.
LoginStarted(q) ==
  /\ q.kind = "login" /\ q.status # "sent"
  /\ IF page.mounted /\ q.status = "done"
     THEN /\ requests' = (requests \ {q}) \ Of({"poll", "approval"})
          /\ page' = [page EXCEPT !.busy = FALSE, !.login = "pending", !.armed = TRUE]
     ELSE /\ requests' = requests \ {q}
          /\ page' = IF page.mounted THEN [page EXCEPT !.busy = FALSE] ELSE page
  /\ UNCHANGED <<server, faults>>

Poll ==
  /\ page.login = "pending" /\ page.armed
  /\ Send(Request("poll")) /\ page' = [page EXCEPT !.armed = FALSE]
  /\ UNCHANGED <<server, faults>>

PollAnsweredOnce(q) ==
  /\ q.kind = "poll" /\ q.status = "done" /\ q.login # "approved"
  /\ requests' = requests \ {q}
  /\ page' = [page EXCEPT !.login = q.login]
  /\ UNCHANGED <<server, faults>>

\* A login that is still pending is a new object: the effect runs again.
PollAnswered(q) ==
  /\ q.kind = "poll" /\ q.status = "done" /\ q.login # "approved"
  /\ requests' = requests \ {q}
  /\ page' = [page EXCEPT !.login = q.login, !.armed = (q.login = "pending")]
  /\ UNCHANGED <<server, faults>>

PollApproved(q) ==
  /\ q.kind = "poll" /\ q.status = "done" /\ q.login = "approved"
  /\ Swap(q, Request("approval"))
  /\ UNCHANGED <<server, page, faults>>

Approved(q) ==
  /\ q.kind = "approval" /\ q.status = "done" /\ requests' = requests \ {q}
  /\ page' = [page EXCEPT !.login = "approved", !.configured = q.configured]
  /\ UNCHANGED <<server, faults>>

PollFails(q) ==
  /\ q.kind \in {"poll", "approval"} /\ q.status = "failed" /\ requests' = requests \ {q}
  /\ page' = [page EXCEPT !.login = "error"]
  /\ UNCHANGED <<server, faults>>

-----------------------------------------------------------------------------
Answer(q) ==
  \/ Serve(q) \/ Refuse(q) \/ Loaded(q) \/ ProfileAnswered(q) \/ SecretSaved(q)
  \/ SecretEnds(q) \/ LoginStarted(q) \/ PollAnswered(q) \/ PollApproved(q)
  \/ Approved(q) \/ PollFails(q)

Next ==
  \/ Reconnect \/ Leave \/ submitProfile \/ addFact
  \/ \E fact \in 1 .. MaxFacts : confirmForgetFact(fact)
  \/ confirmDeleteCredentials \/ Confirm \/ Dismiss \/ TypeKey \/ saveKey
  \/ beginCodexLogin \/ LoginDecided \/ Poll
  \/ \E q \in requests : Answer(q)

Spec == Init /\ [][Next]_vars

\* The mutation and the poll of this visit are answered, timers fire, and a
\* login does not stay pending.
Answers(kinds) == \E q \in Of(kinds) : Answer(q)

Fairness ==
  /\ WF_vars(Answers(Mutations)) /\ WF_vars(Answers({"poll", "approval"}))
  /\ WF_vars(Poll) /\ WF_vars(LoginDecided)

FairSpec == Spec /\ Fairness

-----------------------------------------------------------------------------
(* Properties. *)

\* A visit of the page has one mutation under way, though the dialogs can be
\* opened and confirmed at any time (SettingsPage busyRef).
OneMutation ==
  Cardinality(Of(Mutations)) <= 1

\* A key that was sent is not kept in its input once the request is over, also
\* when it failed ("API keys are transient inputs", saveKey).
KeyIsTransient ==
  page.key /\ page.sent => Of({"key", "keyInfo"}) # {}

\* A fact whose removal the page reported is not stored again
\* (server.go deleteOwnerFact, saveOwner).
ForgottenStaysForgotten == server.forgotten \cap server.facts = {}

\* A login the page shows as pending is polled until it is not
\* (the effect of login).
LoginEnds == page.login = "pending" ~> page.login # "pending"

\* The page locked by busy is unlocked again.
BusyEnds == page.busy ~> ~page.busy
=============================================================================
