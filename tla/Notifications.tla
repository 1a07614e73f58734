----------------------------- MODULE Notifications -----------------------------
(* The report of a terminal Loop or Employee Task: it is stored, delivered by *)
(* OpenClaw or by mail, marked as delivered, and stored again, each a file of *)
(* its own.  Every read of a terminal task reports it once more.  The report  *)
(* center lists the reports and retries one at a time.                        *)
EXTENDS Naturals, FiniteSets

CONSTANTS
  Reports,      \* the terminal outcomes of an instance
  None,
  OpenClaw,     \* the hooks endpoint is configured
  Email,        \* SMTP is configured
  MaxFaults     \* bound: crashes, refused writes, deliveries without an answer, reconnects

VARIABLES server, page, requests, faults

vars == <<server, page, requests, faults>>

\* `delivered` and `unsure` count messages that went out and attempts whose end
\* was never recorded; both are history.
Empty ==
  [report |-> [r \in Reports |-> None], marked |-> {}, jobs |-> {},
   delivered |-> [r \in Reports |-> 0], unsure |-> [r \in Reports |-> 0]]

Report(status, channel) == [status |-> status, channel |-> channel]
Job(r, by) == [report |-> r, by |-> by, step |-> "waiting", channel |-> None]
Request(kind, r) == [kind |-> kind, report |-> r, status |-> "sent", answer |-> None]

Shown == [r \in Reports |-> None]

Init ==
  /\ server = Empty /\ faults = 0 /\ requests = {Request("load", None)}
  /\ page = [reports |-> Shown, loading |-> TRUE, error |-> FALSE, busy |-> FALSE]

Fault == faults < MaxFaults /\ faults' = faults + 1

-----------------------------------------------------------------------------
(* One delivery, under notificationDeliveryMu. *)

\* An outcome becomes terminal, or is read again.
Notify(r) ==
  /\ \A j \in server.jobs : j.by = "page" \/ j.report # r
  /\ server' = [server EXCEPT !.jobs = @ \cup {Job(r, "reader")}]
  /\ UNCHANGED <<page, requests, faults>>

Goes(j, step) == (server.jobs \ {j}) \cup {[j EXCEPT !.step = step]}
Ends(j) == server.jobs \ {j}

\* SaveReport refuses what it would not read back: a report that was sent names
\* its channel.
SaveReport(r, new) ==
  IF new.status = "sent" /\ new.channel = None
  THEN server.report ELSE [server.report EXCEPT ![r] = new]

LockedByReader(j) == \A k \in server.jobs : k.step = "waiting" \/ k.by # j.by
Locked(j) == \A k \in server.jobs : k.step = "waiting"

\* The report is pending again before it is looked at.
Begin(j) ==
  /\ j.step = "waiting" /\ Locked(j)
  /\ server' = [server EXCEPT !.report = SaveReport(j.report, Report("pending", None)),
                              !.jobs = Goes(j, "saved")]
  /\ UNCHANGED <<page, requests, faults>>

BeginFails(j) ==
  /\ j.step = "waiting" /\ Locked(j) /\ Fault
  /\ server' = [server EXCEPT !.jobs = Ends(j)]
  /\ UNCHANGED <<page, requests>>

DeliveredByReport(j) == server.report[j.report].status = "sent"
Delivered(j) == j.report \in server.marked

AlreadySent(j) ==
  /\ j.step = "saved" /\ Delivered(j)
  /\ server' = [server EXCEPT !.report = SaveReport(j.report, Report("sent", "legacy")),
                              !.jobs = Ends(j)]
  /\ UNCHANGED <<page, requests, faults>>

\* What a channel did with the message: `out` messages went out, `unsure` when
\* its answer does not say so.
Outcomes ==
  {[ok |-> TRUE, out |-> 1, unsure |-> 0], [ok |-> FALSE, out |-> 0, unsure |-> 0],
   [ok |-> FALSE, out |-> 1, unsure |-> 1]}

Unused == [ok |-> TRUE, out |-> 0, unsure |-> 0]

\* Mail is the fallback of a hooks endpoint that failed: err is nil when there is
\* none.
ByMail(claw) == Email /\ ~claw.ok

AcceptedUnseen(claw, mail) == OpenClaw \/ Email
Accepted(claw, mail) ==
  (OpenClaw \/ Email) /\ (IF ByMail(claw) THEN mail.ok ELSE claw.ok)

Channel(mailed) ==
  IF mailed THEN "email" ELSE IF OpenClaw THEN "openclaw" ELSE None

Send(j) ==
  /\ j.step = "saved" /\ ~Delivered(j)
  /\ \E claw \in IF OpenClaw THEN Outcomes ELSE {Unused} :
     \E mail \in IF ByMail(claw) THEN Outcomes ELSE {Unused} :
       LET mailed == ByMail(claw)
           ok     == Accepted(claw, mail)
           unsure == claw.unsure + mail.unsure
       IN  /\ faults + unsure <= MaxFaults /\ faults' = faults + unsure
           /\ server' =
                [server EXCEPT
                   !.delivered[j.report] = @ + claw.out + mail.out,
                   !.unsure[j.report] = @ + unsure,
                   !.report = IF ok THEN @ ELSE SaveReport(j.report, Report("failed", Channel(mailed))),
                   !.jobs = IF ok
                            THEN Ends(j) \cup {[j EXCEPT !.step = "sent", !.channel = Channel(mailed)]}
                            ELSE Ends(j)]
  /\ UNCHANGED <<page, requests>>

MarkNotificationSent(j) ==
  /\ j.step = "sent"
  /\ server' = [server EXCEPT !.marked = @ \cup {j.report}, !.jobs = Goes(j, "marked")]
  /\ UNCHANGED <<page, requests, faults>>

MarkFails(j) ==
  /\ j.step = "sent" /\ Fault
  /\ server' = [server EXCEPT !.unsure[j.report] = @ + 1, !.jobs = Ends(j)]
  /\ UNCHANGED <<page, requests>>

Sent(j) ==
  /\ j.step = "marked"
  /\ server' = [server EXCEPT !.report = SaveReport(j.report, Report("sent", j.channel)),
                              !.jobs = Ends(j)]
  /\ UNCHANGED <<page, requests, faults>>

\* The process dies between two steps; nothing of the delivery is kept but its
\* files.
Crash ==
  /\ server.jobs # {} /\ Fault
  /\ server' =
       [server EXCEPT
          !.jobs = {},
          !.unsure = [r \in Reports |->
            @[r] + Cardinality({j \in server.jobs : j.report = r /\ j.step = "sent"})]]
  /\ requests' = {[q EXCEPT !.status = IF @ = "done" THEN @ ELSE "failed"] : q \in requests}
  /\ UNCHANGED page

-----------------------------------------------------------------------------
(* The report center. *)

Swap(q, new) == requests' = (requests \ {q}) \cup {new}

\* A new generation aborts the load of the effect and starts another.
Reconnect ==
  /\ Fault
  /\ requests' = {q \in requests : q.kind # "load"} \cup {Request("load", None)}
  /\ UNCHANGED <<server, page>>

Reload ==
  /\ page.error /\ \A q \in requests : q.kind # "load"
  /\ page' = [page EXCEPT !.loading = TRUE]
  /\ requests' = requests \cup {Request("load", None)}
  /\ UNCHANGED <<server, faults>>

retry(r) ==
  /\ ~page.loading /\ ~page.error /\ ~page.busy
  /\ page.reports[r] # None /\ page.reports[r].status # "sent"
  /\ requests' = requests \cup {Request("retry", r)} /\ page' = [page EXCEPT !.busy = TRUE]
  /\ UNCHANGED <<server, faults>>

ListReports(q) ==
  /\ q.kind = "load" /\ q.status = "sent"
  /\ Swap(q, [q EXCEPT !.status = "done", !.answer = server.report])
  /\ UNCHANGED <<server, page, faults>>

\* RetryReport waits for the delivery it starts, then reads the report.
RetryReport(q) ==
  /\ q.kind = "retry" /\ q.status = "sent"
  /\ server' = [server EXCEPT !.jobs = @ \cup {Job(q.report, "page")}]
  /\ Swap(q, [q EXCEPT !.status = "waiting"])
  /\ UNCHANGED <<page, faults>>

RetryEnded(q) == \A j \in server.jobs : j.by = "page" => j.report # q.report

Retried(q) ==
  /\ q.status = "waiting" /\ RetryEnded(q)
  /\ Swap(q, [q EXCEPT !.status = "done", !.answer = server.report[q.report]])
  /\ UNCHANGED <<server, page, faults>>

Lost(q) ==
  /\ q.status \in {"sent", "waiting"} /\ Fault
  /\ Swap(q, [q EXCEPT !.status = "failed"])
  /\ UNCHANGED <<server, page>>

Ended(q) == q.status \in {"done", "failed"} /\ requests' = requests \ {q}

Loaded(q) ==
  /\ q.kind = "load" /\ Ended(q)
  /\ page' = IF q.status = "done"
             THEN [page EXCEPT !.reports = q.answer, !.loading = FALSE, !.error = FALSE]
             ELSE [page EXCEPT !.loading = FALSE, !.error = TRUE]
  /\ UNCHANGED <<server, faults>>

RetryAnswered(q) ==
  /\ q.kind = "retry" /\ Ended(q)
  /\ page' = IF q.status = "done"
             THEN [page EXCEPT !.reports[q.report] = q.answer, !.busy = FALSE]
             ELSE [page EXCEPT !.busy = FALSE]
  /\ UNCHANGED <<server, faults>>

-----------------------------------------------------------------------------
Delivery ==
  \E j \in server.jobs :
    Begin(j) \/ AlreadySent(j) \/ Send(j) \/ MarkNotificationSent(j) \/ Sent(j)

Answers ==
  \E q \in requests :
    ListReports(q) \/ RetryReport(q) \/ Retried(q) \/ Loaded(q) \/ RetryAnswered(q)

Next ==
  \/ Delivery
  \/ Answers
  \/ \E j \in server.jobs : BeginFails(j) \/ MarkFails(j)
  \/ \E r \in Reports : Notify(r) \/ retry(r)
  \/ \E q \in requests : Lost(q)
  \/ Crash \/ Reconnect \/ Reload

RetryBegins == \E j \in server.jobs : j.by = "page" /\ Begin(j)

\* The channels end within thirty seconds, and a sync.Mutex is handed to who has
\* waited longest; nobody has to read a task again.
Spec == Init /\ [][Next]_vars
FairSpec ==
  Spec /\ WF_vars(Delivery) /\ WF_vars(Answers) /\ SF_vars(RetryBegins)

-----------------------------------------------------------------------------
(* Properties. *)

\* What the report center shows as sent, and what the marker of a report says,
\* was delivered at least once (notifyTerminalCompletion: "persisted only after
\* delivery succeeds").  Without OpenClaw it is not: mail is never tried.
SentIsDelivered ==
  \A r \in Reports :
    (r \in server.marked \/ (page.reports[r] # None /\ page.reports[r].status = "sent"))
      => server.delivered[r] > 0

\* A message goes out once, and once more for each attempt whose outcome the
\* server could not record (notificationDeliveryMu, MarkNotificationSent).
OncePerRecord == \A r \in Reports : server.delivered[r] <= 1 + server.unsure[r]

\* A report that was delivered and marked is never stored as failed, whatever a
\* retry or a later read meets (NotificationSent before Send).
MarkedNeverFails ==
  \A r \in server.marked : server.report[r].status # "failed"

\* A report that was stored as sent stays so.  It does not: each further read of
\* the task makes it pending first (SaveReport before GetReport).
SentStaysSent ==
  [][\A r \in Reports :
       (server.report[r] # None /\ server.report[r].status = "sent")
         => server'.report[r].status = "sent"]_vars

\* A retry ends, and the page can retry again (retry, RetryReport).
BusyEnds == page.busy ~> ~page.busy
=============================================================================
