-------------------------- MODULE NotificationsProofs --------------------------
(* What is proved of the reports and their delivery, for any number of        *)
(* reports, retries, reads, lost answers and crashes.                         *)
EXTENDS Notifications, FiniteSetTheorems, TLAPS

-----------------------------------------------------------------------------
(* What the files, the deliveries and the page hold.                         *)

Channels == {"email", "openclaw", "legacy"}
Records == [status : {"pending", "failed", "sent"}, channel : Channels \cup {None}]
Jobs ==
  [report : Reports, by : {"reader", "page"}, step : {"waiting", "saved", "sent", "marked"},
   channel : Channels \cup {None}]
Lists == [Reports -> Records \cup {None}]

\* None is told from a report and from a channel.
Distinct == None \notin Records \cup Channels

Server ==
  [report : Lists, marked : SUBSET Reports, jobs : SUBSET Jobs,
   delivered : [Reports -> Nat], unsure : [Reports -> Nat]]

\* notificationDeliveryMu.
OneDelivery(s) == \A j, k \in s.jobs : j.step # "waiting" /\ k.step # "waiting" => j = k

Sending(s, r) == \E j \in s.jobs : j.report = r /\ j.step = "sent"

\* What is stored of a report while it is delivered and once it is marked, and what
\* of it went out: one message is known of, from the answer of its channel on.
ReportInv(s, r) ==
  /\ s.delivered[r] <= s.unsure[r] + IF r \in s.marked \/ Sending(s, r) THEN 1 ELSE 0
  /\ r \in s.marked => s.report[r] # None /\ s.report[r].status # "failed"
  /\ \A j \in s.jobs : j.report = r /\ j.step # "waiting" =>
       s.report[r] # None /\ s.report[r].status = "pending"
  /\ \A j \in s.jobs : j.report = r /\ j.step = "sent" => r \notin s.marked
  /\ \A j \in s.jobs : j.report = r /\ j.step = "marked" => r \in s.marked

Requests ==
  [kind : {"load", "retry"}, report : Reports \cup {None},
   status : {"sent", "waiting", "done", "failed"}, answer : Lists \cup Records \cup {None}]

\* Only a retry waits for a delivery.
RequestInv(q) ==
  /\ q.kind = "retry" => q.report \in Reports
  /\ q.status = "waiting" => q.kind = "retry"

DeliveryInv ==
  /\ server \in Server /\ OneDelivery(server)
  /\ \A r \in Reports : ReportInv(server, r)
  /\ requests \subseteq Requests
  /\ \A q \in requests : RequestInv(q)

\* A report that says it was sent was delivered, wherever it is: on disk, on its way
\* to the page or shown.
Page == [reports : Lists, loading : BOOLEAN, error : BOOLEAN, busy : BOOLEAN]

SaysSent(x) == x # None /\ x.status = "sent"
Says(s, r) == r \in s.marked \/ Sending(s, r) \/ SaysSent(s.report[r])
Honest(s, list) == \A r \in Reports : SaysSent(list[r]) => s.delivered[r] > 0

AnswerHonest(s, q) ==
  /\ q.status = "done" /\ q.kind = "load" => q.answer \in Lists /\ Honest(s, q.answer)
  /\ q.status = "done" /\ q.kind = "retry" =>
       /\ q.answer \in Records \cup {None}
       /\ SaysSent(q.answer) => s.delivered[q.report] > 0

ServerHonest(s) == \A r \in Reports : Says(s, r) => s.delivered[r] > 0

HonestInv ==
  /\ ServerHonest(server)
  /\ page \in Page /\ Honest(server, page.reports)
  /\ \A q \in requests : AnswerHonest(server, q)

-----------------------------------------------------------------------------
(* A step of a delivery: the others wait for the mutex.                      *)

Alone(j) == \A k \in server.jobs \ {j} : k.step = "waiting"

\* Nothing of report r changes but that other deliveries may begin or end.
Untouched(r) ==
  /\ server'.report[r] = server.report[r] /\ server'.delivered[r] = server.delivered[r]
  /\ server'.unsure[r] = server.unsure[r] /\ (r \in server'.marked <=> r \in server.marked)

LEMMA ActiveIsAlone ==
  ASSUME DeliveryInv, NEW j \in server.jobs, j.step # "waiting" PROVE Alone(j)
BY DEF DeliveryInv, OneDelivery, Alone

\* The delivery goes on as the one in N, or ends when N is empty.
DeliversOn(j, N) ==
  /\ Alone(j) /\ server'.jobs = (server.jobs \ {j}) \cup N /\ requests' = requests
  /\ N \subseteq Jobs /\ \A k \in N : k.report = j.report /\ (\A l \in N : l = k)
  /\ \A r \in Reports \ {j.report} : Untouched(r)

LEMMA DeliveryKeeps ==
  ASSUME DeliveryInv, NEW j \in server.jobs, NEW N, DeliversOn(j, N), server' \in Server,
         ReportInv(server', j.report)
  PROVE  DeliveryInv'
<1>1. \A k \in server'.jobs : k.step # "waiting" => k \in N
  BY DEF DeliversOn, Alone
<1>2. OneDelivery(server')
  BY <1>1 DEF DeliversOn, OneDelivery
<1>3. ASSUME NEW r \in Reports \ {j.report} PROVE ReportInv(server', r)
  <2>1. ReportInv(server, r)
    BY DEF DeliveryInv
  <2>2. ~Sending(server, r) /\ ~Sending(server', r)
    BY <1>1, <1>3 DEF Sending, DeliversOn, Alone
  <2>3. \A k \in server'.jobs : k.report = r => k.step = "waiting"
    BY <1>1, <1>3 DEF DeliversOn
  <2> QED BY <1>3, <2>1, <2>2, <2>3 DEF DeliversOn, Untouched, ReportInv
<1> QED BY <1>2, <1>3 DEF DeliveryInv, DeliversOn

LEMMA JobFacts ==
  ASSUME DeliveryInv, NEW j \in server.jobs
  PROVE  /\ server \in Server /\ j \in Jobs /\ j.report \in Reports
         /\ ReportInv(server, j.report)
BY DEF DeliveryInv, Server, Jobs

\* What SaveReport stores of a report that it takes.
LEMMA Saves ==
  ASSUME NEW r \in Reports, NEW new \in Records, server \in Server,
         new.status = "sent" => new.channel # None
  PROVE  /\ SaveReport(r, new) \in Lists /\ SaveReport(r, new)[r] = new
         /\ \A u \in Reports \ {r} : SaveReport(r, new)[u] = server.report[u]
BY DEF SaveReport, Server, Lists

LEMMA BeginKeeps ==
  ASSUME Distinct, DeliveryInv, NEW j \in server.jobs, Begin(j) PROVE DeliveryInv'
<1> DEFINE r == j.report
           n == [j EXCEPT !.step = "saved"]
           new == Report("pending", None)
<1>1. /\ server \in Server /\ j \in Jobs /\ r \in Reports /\ ReportInv(server, r)
      /\ j.step = "waiting" /\ Alone(j) /\ requests' = requests
      /\ server' = [server EXCEPT !.report = SaveReport(r, new), !.jobs = (server.jobs \ {j}) \cup {n}]
  BY JobFacts DEF Begin, Locked, Alone, Goes
<1>2. /\ new \in Records /\ new.status = "pending" /\ new # None
  BY DEF Report, Records, Distinct
<1>3. /\ n \in Jobs /\ n.report = r /\ n.step = "saved"
  BY <1>1 DEF Jobs
<1> HIDE DEF n, new
<1>4. /\ SaveReport(r, new) \in Lists /\ SaveReport(r, new)[r] = new
      /\ \A u \in Reports \ {r} : SaveReport(r, new)[u] = server.report[u]
  BY <1>1, <1>2, Saves
<1>5. /\ server' \in Server /\ server'.jobs = (server.jobs \ {j}) \cup {n}
      /\ server'.report = SaveReport(r, new) /\ server'.marked = server.marked
      /\ server'.delivered = server.delivered /\ server'.unsure = server.unsure
  BY <1>1, <1>3, <1>4 DEF Server
<1>6. DeliversOn(j, {n})
  BY <1>1, <1>3, <1>4, <1>5 DEF DeliversOn, Untouched
<1>7. ~Sending(server, r) /\ ~Sending(server', r)
  BY <1>1, <1>3, <1>5 DEF Sending, Alone
<1>8. \A k \in server'.jobs : k.step # "waiting" => k.step = "saved"
  BY <1>1, <1>3, <1>5 DEF Alone
<1>9. ReportInv(server', r)
  BY <1>1, <1>2, <1>4, <1>5, <1>7, <1>8 DEF ReportInv
<1> QED BY <1>5, <1>6, <1>9, DeliveryKeeps

\* A delivery that ends, whatever it leaves stored of its report.
LEMMA EndKeeps ==
  ASSUME Distinct, DeliveryInv, NEW j \in server.jobs, Alone(j), requests' = requests,
         server' \in Server, server'.jobs = server.jobs \ {j},
         \A u \in Reports \ {j.report} : Untouched(u),
         server'.marked = server.marked,
         server'.delivered[j.report] <=
           server'.unsure[j.report] + IF j.report \in server.marked THEN 1 ELSE 0,
         j.report \in server.marked =>
           server'.report[j.report] # None /\ server'.report[j.report].status # "failed"
  PROVE  DeliveryInv'
<1>1. DeliversOn(j, {})
  BY DEF DeliversOn
<1>2. \A k \in server'.jobs : k.step = "waiting"
  BY DEF Alone
<1>3. ReportInv(server', j.report)
  BY <1>2 DEF ReportInv, Sending
<1> QED BY <1>1, <1>3, DeliveryKeeps

LEMMA BeginFailsKeeps ==
  ASSUME Distinct, DeliveryInv, NEW j \in server.jobs, BeginFails(j) PROVE DeliveryInv'
<1>1. /\ server \in Server /\ ReportInv(server, j.report) /\ j.report \in Reports
      /\ Alone(j) /\ j.step = "waiting" /\ requests' = requests
      /\ server' = [server EXCEPT !.jobs = server.jobs \ {j}]
  BY JobFacts DEF BeginFails, Ends, Locked, Alone
<1>2. /\ server' \in Server /\ server'.jobs = server.jobs \ {j}
      /\ server'.report = server.report /\ server'.marked = server.marked
      /\ server'.delivered = server.delivered /\ server'.unsure = server.unsure
  BY <1>1 DEF Server
<1>3. ~Sending(server, j.report)
  BY <1>1 DEF Sending, Alone
<1> QED BY <1>1, <1>2, <1>3, EndKeeps DEF ReportInv, Untouched

LEMMA AlreadySentKeeps ==
  ASSUME Distinct, DeliveryInv, NEW j \in server.jobs, AlreadySent(j)
  PROVE  DeliveryInv'
<1> DEFINE r == j.report
           new == Report("sent", "legacy")
<1>1. /\ server \in Server /\ ReportInv(server, r) /\ r \in Reports
      /\ Alone(j) /\ j.step = "saved" /\ requests' = requests /\ r \in server.marked
      /\ server' = [server EXCEPT !.report = SaveReport(r, new), !.jobs = server.jobs \ {j}]
  BY JobFacts, ActiveIsAlone DEF AlreadySent, Ends, Delivered
<1>2. new \in Records /\ new.status = "sent" /\ new.channel # None /\ new # None
  BY DEF Report, Records, Channels, Distinct
<1> HIDE DEF new
<1>3. /\ SaveReport(r, new) \in Lists /\ SaveReport(r, new)[r] = new
      /\ \A u \in Reports \ {r} : SaveReport(r, new)[u] = server.report[u]
  BY <1>1, <1>2, Saves
<1>4. /\ server' \in Server /\ server'.jobs = server.jobs \ {j}
      /\ server'.report = SaveReport(r, new) /\ server'.marked = server.marked
      /\ server'.delivered = server.delivered /\ server'.unsure = server.unsure
  BY <1>1, <1>3 DEF Server
<1> QED BY <1>1, <1>2, <1>3, <1>4, EndKeeps DEF ReportInv, Untouched

\* Of the messages of one attempt one is accounted for by its answer.
LEMMA OutcomeFacts ==
  ASSUME NEW claw \in IF OpenClaw THEN Outcomes ELSE {Unused},
         NEW mail \in IF ByMail(claw) THEN Outcomes ELSE {Unused}
  PROVE  /\ claw.out + mail.out \in Nat /\ claw.unsure + mail.unsure \in Nat
         /\ claw.out + mail.out <=
              claw.unsure + mail.unsure + IF Accepted(claw, mail) THEN 1 ELSE 0
         /\ OpenClaw /\ Accepted(claw, mail) => claw.out + mail.out > 0
<1>1. ASSUME NEW x \in Outcomes \cup {Unused}
      PROVE  /\ x.ok \in BOOLEAN /\ x.out \in Nat /\ x.unsure \in Nat
             /\ x.ok => x.out <= 1 /\ x.unsure = 0
             /\ ~x.ok => x.out = x.unsure
  <2>1. \/ x.ok = TRUE /\ x.out = 1 /\ x.unsure = 0
        \/ x.ok = FALSE /\ x.out = 0 /\ x.unsure = 0
        \/ x.ok = FALSE /\ x.out = 1 /\ x.unsure = 1
        \/ x.ok = TRUE /\ x.out = 0 /\ x.unsure = 0
    BY DEF Outcomes, Unused
  <2>2. x.ok \in BOOLEAN
    BY <2>1
  <2> QED BY <2>1, <2>2
<1>2. \A x \in Outcomes : x.ok => x.out = 1
  BY DEF Outcomes
<1>3. Unused.ok /\ Unused.out = 0 /\ Unused.unsure = 0
  BY DEF Unused
<1>4. claw \in Outcomes \cup {Unused} /\ mail \in Outcomes \cup {Unused}
  OBVIOUS
<1>5. CASE ByMail(claw)
  BY <1>1, <1>2, <1>4, <1>5 DEF ByMail, Accepted
<1>6. CASE ~ByMail(claw)
  <2>1. mail.out = 0 /\ mail.unsure = 0
    BY <1>3, <1>6
  <2>2. Accepted(claw, mail) => claw.ok
    BY <1>6 DEF Accepted, ByMail
  <2>3. ~Accepted(claw, mail) => ~claw.ok \/ (~OpenClaw /\ ~Email)
    BY <1>6 DEF Accepted, ByMail
  <2>4. ~OpenClaw => claw.out = 0 /\ claw.unsure = 0
    BY <1>3
  <2>5. OpenClaw => claw \in Outcomes
    OBVIOUS
  <2> QED BY <1>1, <1>2, <1>4, <2>1, <2>2, <2>3, <2>4, <2>5
<1> QED BY <1>5, <1>6

LEMMA ChannelFacts ==
  \A mailed \in BOOLEAN : Channel(mailed) \in Channels \cup {None}
BY DEF Channel, Channels

\* What an attempt does to the server.
Attempt(j, claw, mail) ==
  LET r == j.report IN
  /\ server'.marked = server.marked
  /\ server'.delivered = [server.delivered EXCEPT ![r] = @ + (claw.out + mail.out)]
  /\ server'.unsure = [server.unsure EXCEPT ![r] = @ + (claw.unsure + mail.unsure)]
  /\ IF Accepted(claw, mail)
     THEN /\ server'.report = server.report
          /\ \E n \in Jobs : /\ n.report = r /\ n.step = "sent"
                             /\ server'.jobs = (server.jobs \ {j}) \cup {n}
     ELSE /\ \E new \in Records : /\ new.status = "failed"
                                  /\ server'.report = SaveReport(r, new)
          /\ server'.jobs = server.jobs \ {j}

LEMMA SendIsAttempt ==
  ASSUME DeliveryInv, NEW j \in server.jobs, Send(j)
  PROVE  \E claw \in IF OpenClaw THEN Outcomes ELSE {Unused} :
         \E mail \in IF ByMail(claw) THEN Outcomes ELSE {Unused} : Attempt(j, claw, mail)
<1> DEFINE r == j.report
<1> DEFINE After(claw, mail) ==
        server' =
          [server EXCEPT
             !.delivered[r] = @ + claw.out + mail.out,
             !.unsure[r] = @ + (claw.unsure + mail.unsure),
             !.report = IF Accepted(claw, mail) THEN @
                        ELSE SaveReport(r, Report("failed", Channel(ByMail(claw)))),
             !.jobs = IF Accepted(claw, mail)
                      THEN Ends(j) \cup {[j EXCEPT !.step = "sent", !.channel = Channel(ByMail(claw))]}
                      ELSE Ends(j)]
<1>0. PICK claw \in IF OpenClaw THEN Outcomes ELSE {Unused} :
        \E mail \in IF ByMail(claw) THEN Outcomes ELSE {Unused} : After(claw, mail)
  BY DEF Send
<1>1. PICK mail \in IF ByMail(claw) THEN Outcomes ELSE {Unused} : After(claw, mail)
  BY <1>0
<1>2. server \in Server /\ j \in Jobs /\ r \in Reports
  BY JobFacts
<1>3. /\ claw.out \in Nat /\ mail.out \in Nat /\ claw.unsure \in Nat /\ mail.unsure \in Nat
  BY DEF Outcomes, Unused
<1>4. server.delivered[r] \in Nat /\ server.unsure[r] \in Nat
  BY <1>2 DEF Server
<1>5. Channel(ByMail(claw)) \in Channels \cup {None}
  BY ChannelFacts DEF ByMail, Channel, Channels
<1> DEFINE n == [j EXCEPT !.step = "sent", !.channel = Channel(ByMail(claw))]
           new == Report("failed", Channel(ByMail(claw)))
<1>6. n \in Jobs /\ n.report = r /\ n.step = "sent"
  BY <1>2, <1>5 DEF Jobs
<1>7. new \in Records /\ new.status = "failed"
  BY <1>5 DEF Report, Records
<1>8. /\ server'.marked = server.marked
      /\ server'.delivered = [server.delivered EXCEPT ![r] = @ + claw.out + mail.out]
      /\ server'.unsure = [server.unsure EXCEPT ![r] = @ + (claw.unsure + mail.unsure)]
      /\ server'.report = IF Accepted(claw, mail) THEN server.report ELSE SaveReport(r, new)
      /\ server'.jobs = IF Accepted(claw, mail) THEN (server.jobs \ {j}) \cup {n}
                        ELSE server.jobs \ {j}
  BY <1>1, <1>2 DEF Server, Ends
<1> HIDE DEF n, new
<1>9. server.delivered[r] + claw.out + mail.out = server.delivered[r] + (claw.out + mail.out)
  BY <1>3, <1>4
<1>10. Attempt(j, claw, mail)
  BY <1>2, <1>6, <1>7, <1>8, <1>9 DEF Attempt
<1> QED BY <1>10

LEMMA SendKeeps ==
  ASSUME Distinct, DeliveryInv, NEW j \in server.jobs, Send(j) PROVE DeliveryInv'
<1> DEFINE r == j.report
<1>1. /\ server \in Server /\ ReportInv(server, r) /\ r \in Reports
      /\ Alone(j) /\ j.step = "saved" /\ r \notin server.marked /\ requests' = requests
  BY JobFacts, ActiveIsAlone DEF Send, Delivered
<1>0. PICK claw \in IF OpenClaw THEN Outcomes ELSE {Unused} :
        \E mail \in IF ByMail(claw) THEN Outcomes ELSE {Unused} : Attempt(j, claw, mail)
  BY SendIsAttempt
<1>2. PICK mail \in IF ByMail(claw) THEN Outcomes ELSE {Unused} : Attempt(j, claw, mail)
  BY <1>0
<1> DEFINE out == claw.out + mail.out
           unsure == claw.unsure + mail.unsure
<1>3. /\ out \in Nat /\ unsure \in Nat
      /\ out <= unsure + IF Accepted(claw, mail) THEN 1 ELSE 0
  BY OutcomeFacts
<1> HIDE DEF out, unsure
<1>4. /\ server'.marked = server.marked
      /\ server'.delivered = [server.delivered EXCEPT ![r] = @ + out]
      /\ server'.unsure = [server.unsure EXCEPT ![r] = @ + unsure]
  BY <1>2 DEF Attempt, out, unsure
<1>5. ~Sending(server, r)
  BY <1>1 DEF Sending, Alone
<1>6. /\ server.delivered[r] \in Nat /\ server.unsure[r] \in Nat
      /\ server.delivered[r] <= server.unsure[r]
  BY <1>1, <1>5 DEF ReportInv, Server
<1>7. /\ server'.delivered[r] = server.delivered[r] + out
      /\ server'.unsure[r] = server.unsure[r] + unsure
      /\ server'.delivered \in [Reports -> Nat] /\ server'.unsure \in [Reports -> Nat]
      /\ \A u \in Reports \ {r} : /\ server'.delivered[u] = server.delivered[u]
                                  /\ server'.unsure[u] = server.unsure[u]
  BY <1>1, <1>3, <1>4, <1>6 DEF Server
<1>9. CASE Accepted(claw, mail)
  <2>1. PICK n \in Jobs : /\ n.report = r /\ n.step = "sent"
                          /\ server'.jobs = (server.jobs \ {j}) \cup {n}
    BY <1>2, <1>9 DEF Attempt
  <2>2. server'.report = server.report
    BY <1>2, <1>9 DEF Attempt
  <2>3. server' \in Server
    <3>1. server' = [server EXCEPT !.delivered = server'.delivered, !.unsure = server'.unsure,
                                   !.jobs = server'.jobs, !.report = server'.report]
      BY <1>1 DEF Send, Server
    <3> QED BY <1>1, <1>7, <2>1, <2>2, <3>1 DEF Server
  <2>4. DeliversOn(j, {n})
    BY <1>1, <1>4, <1>7, <2>1, <2>2 DEF DeliversOn, Untouched
  <2>5. \A k \in server'.jobs : k.step # "waiting" => k = n
    BY <1>1, <2>1 DEF Alone
  <2>6. Sending(server', r)
    BY <2>1 DEF Sending
  <2>7. server.report[r] # None /\ server.report[r].status = "pending"
    BY <1>1 DEF ReportInv
  <2>8. server'.delivered[r] <= server'.unsure[r] + 1
    BY <1>3, <1>6, <1>7, <1>9
  <2>9. ReportInv(server', r)
    BY <1>1, <1>4, <2>1, <2>2, <2>5, <2>6, <2>7, <2>8 DEF ReportInv
  <2> QED BY <2>3, <2>4, <2>9, DeliveryKeeps
<1>10. CASE ~Accepted(claw, mail)
  <2>1. PICK new \in Records : new.status = "failed" /\ server'.report = SaveReport(r, new)
    BY <1>2, <1>10 DEF Attempt
  <2>2. server'.jobs = server.jobs \ {j}
    BY <1>2, <1>10 DEF Attempt
  <2>3. /\ SaveReport(r, new) \in Lists
        /\ \A u \in Reports \ {r} : SaveReport(r, new)[u] = server.report[u]
    BY <1>1, <2>1, Saves
  <2>4. server' \in Server
    <3>1. server' = [server EXCEPT !.delivered = server'.delivered, !.unsure = server'.unsure,
                                   !.jobs = server'.jobs, !.report = server'.report]
      BY <1>1 DEF Send, Server
    <3> QED BY <1>1, <1>7, <2>1, <2>2, <2>3, <3>1 DEF Server
  <2>5. server'.delivered[r] <= server'.unsure[r] + IF r \in server.marked THEN 1 ELSE 0
    BY <1>1, <1>3, <1>6, <1>7, <1>10
  <2>6. \A u \in Reports \ {r} : Untouched(u)
    BY <1>4, <1>7, <2>1, <2>3 DEF Untouched
  <2> QED BY <1>1, <1>4, <2>2, <2>4, <2>5, <2>6, EndKeeps
<1> QED BY <1>9, <1>10

LEMMA MarkKeeps ==
  ASSUME Distinct, DeliveryInv, NEW j \in server.jobs, MarkNotificationSent(j)
  PROVE  DeliveryInv'
<1> DEFINE r == j.report
           n == [j EXCEPT !.step = "marked"]
<1>1. /\ server \in Server /\ j \in Jobs /\ ReportInv(server, r) /\ r \in Reports
      /\ Alone(j) /\ j.step = "sent" /\ requests' = requests
      /\ server' = [server EXCEPT !.marked = server.marked \cup {r},
                                  !.jobs = (server.jobs \ {j}) \cup {n}]
  BY JobFacts, ActiveIsAlone DEF MarkNotificationSent, Goes
<1>2. n \in Jobs /\ n.report = r /\ n.step = "marked"
  BY <1>1 DEF Jobs
<1> HIDE DEF n
<1>3. /\ server' \in Server /\ server'.jobs = (server.jobs \ {j}) \cup {n}
      /\ server'.report = server.report /\ server'.marked = server.marked \cup {r}
      /\ server'.delivered = server.delivered /\ server'.unsure = server.unsure
  BY <1>1, <1>2 DEF Server
<1>4. DeliversOn(j, {n})
  BY <1>1, <1>2, <1>3 DEF DeliversOn, Untouched
<1>5. \A k \in server'.jobs : k.step # "waiting" => k = n
  BY <1>1, <1>3 DEF Alone
<1>6. /\ Sending(server, r) /\ server.report[r] # None /\ server.report[r].status = "pending"
  BY <1>1 DEF Sending, ReportInv
<1>7. ReportInv(server', r)
  BY <1>1, <1>2, <1>3, <1>5, <1>6 DEF ReportInv
<1> QED BY <1>3, <1>4, <1>7, DeliveryKeeps

LEMMA MarkFailsKeeps ==
  ASSUME Distinct, DeliveryInv, NEW j \in server.jobs, MarkFails(j) PROVE DeliveryInv'
<1> DEFINE r == j.report
<1>1. /\ server \in Server /\ ReportInv(server, r) /\ r \in Reports
      /\ Alone(j) /\ j.step = "sent" /\ requests' = requests
      /\ server' = [server EXCEPT !.unsure[r] = @ + 1, !.jobs = server.jobs \ {j}]
  BY JobFacts, ActiveIsAlone DEF MarkFails, Ends
<1>2. server.unsure[r] \in Nat /\ server.delivered[r] \in Nat
  BY <1>1 DEF Server
<1>3. /\ server' \in Server /\ server'.jobs = server.jobs \ {j}
      /\ server'.report = server.report /\ server'.marked = server.marked
      /\ server'.delivered = server.delivered /\ server'.unsure[r] = server.unsure[r] + 1
      /\ \A u \in Reports \ {r} : server'.unsure[u] = server.unsure[u]
  <2> DEFINE unsure == [server.unsure EXCEPT ![r] = server.unsure[r] + 1]
  <2>1. /\ unsure \in [Reports -> Nat] /\ unsure[r] = server.unsure[r] + 1
        /\ \A u \in Reports \ {r} : unsure[u] = server.unsure[u]
    BY <1>1, <1>2 DEF Server
  <2>2. server' = [server EXCEPT !.unsure = unsure, !.jobs = server.jobs \ {j}]
    BY <1>1
  <2> HIDE DEF unsure
  <2> QED BY <1>1, <2>1, <2>2 DEF Server
<1>4. Sending(server, r) /\ r \notin server.marked
  BY <1>1 DEF Sending, ReportInv
<1>5. server.delivered[r] <= server.unsure[r] + 1
  BY <1>1, <1>4 DEF ReportInv
<1>6. server'.delivered[r] <= server'.unsure[r] + IF r \in server.marked THEN 1 ELSE 0
  BY <1>2, <1>3, <1>4, <1>5
<1>7. \A u \in Reports \ {r} : Untouched(u)
  BY <1>3 DEF Untouched
<1> QED BY <1>1, <1>3, <1>4, <1>6, <1>7, EndKeeps

LEMMA SentKeeps ==
  ASSUME Distinct, DeliveryInv, NEW j \in server.jobs, Sent(j) PROVE DeliveryInv'
<1> DEFINE r == j.report
           new == Report("sent", j.channel)
<1>1. /\ server \in Server /\ j \in Jobs /\ ReportInv(server, r) /\ r \in Reports
      /\ Alone(j) /\ j.step = "marked" /\ requests' = requests
      /\ server' = [server EXCEPT !.report = SaveReport(r, new), !.jobs = server.jobs \ {j}]
  BY JobFacts, ActiveIsAlone DEF Sent, Ends
<1>2. new \in Records /\ new.status = "sent" /\ new.channel = j.channel /\ new # None
  BY <1>1 DEF Report, Records, Jobs, Distinct
<1> HIDE DEF new
<1>3. r \in server.marked /\ server.report[r] # None /\ server.report[r].status = "pending"
  BY <1>1 DEF ReportInv
<1>4. /\ SaveReport(r, new) \in Lists /\ SaveReport(r, new)[r] \in {new, server.report[r]}
      /\ \A u \in Reports \ {r} : SaveReport(r, new)[u] = server.report[u]
  BY <1>1, <1>2, Saves DEF SaveReport, Server
<1>5. /\ server' \in Server /\ server'.jobs = server.jobs \ {j}
      /\ server'.report = SaveReport(r, new) /\ server'.marked = server.marked
      /\ server'.delivered = server.delivered /\ server'.unsure = server.unsure
  BY <1>1, <1>4 DEF Server
<1> QED BY <1>1, <1>2, <1>3, <1>4, <1>5, EndKeeps DEF ReportInv, Untouched

\* A delivery that waits for the mutex, of a read of its task or of a retry.
LEMMA JobArrives ==
  ASSUME DeliveryInv, NEW n \in Jobs, n.step = "waiting",
         server' = [server EXCEPT !.jobs = @ \cup {n}]
  PROVE  /\ server' \in Server /\ OneDelivery(server')
         /\ \A r \in Reports : ReportInv(server', r)
         /\ \A r \in Reports : Sending(server', r) <=> Sending(server, r)
<1>1. /\ server' \in Server /\ server'.jobs = server.jobs \cup {n}
      /\ server'.report = server.report /\ server'.marked = server.marked
      /\ server'.delivered = server.delivered /\ server'.unsure = server.unsure
  BY DEF DeliveryInv, Server
<1>2. OneDelivery(server')
  BY <1>1 DEF DeliveryInv, OneDelivery
<1>3. \A r \in Reports : Sending(server', r) <=> Sending(server, r)
  BY <1>1 DEF Sending
<1>4. ASSUME NEW r \in Reports PROVE ReportInv(server', r)
  <2>1. ReportInv(server, r)
    BY DEF DeliveryInv
  <2> QED BY <1>1, <1>3, <2>1 DEF ReportInv
<1> QED BY <1>1, <1>2, <1>3, <1>4

\* A delivery that dies after its message went out leaves it unsure.
LEMMA CrashFacts ==
  ASSUME DeliveryInv, Crash
  PROVE  /\ server' \in Server /\ server'.jobs = {} /\ server'.report = server.report
         /\ server'.marked = server.marked /\ server'.delivered = server.delivered
         /\ \A r \in Reports :
              /\ server'.unsure[r] >= server.unsure[r]
              /\ Sending(server, r) => server'.unsure[r] >= server.unsure[r] + 1
<1> DEFINE S(r) == {j \in server.jobs : j.report = r /\ j.step = "sent"}
<1>1. server \in Server /\ OneDelivery(server)
  BY DEF DeliveryInv
<1>2. ASSUME NEW r \in Reports
      PROVE  /\ Cardinality(S(r)) \in Nat
             /\ Sending(server, r) => Cardinality(S(r)) = 1
  <2>1. CASE S(r) = {}
    BY <2>1, FS_EmptySet DEF Sending
  <2>2. CASE S(r) # {}
    <3>1. PICK j \in S(r) : TRUE
      BY <2>2
    <3>2. S(r) = {j}
      BY <1>1, <3>1 DEF OneDelivery
    <3> QED BY <3>2, FS_Singleton
  <2> QED BY <2>1, <2>2
<1> DEFINE unsure == [r \in Reports |-> server.unsure[r] + Cardinality(S(r))]
<1>3. server' = [server EXCEPT !.jobs = {}, !.unsure = unsure]
  BY DEF Crash
<1> HIDE DEF S
<1>4. unsure \in [Reports -> Nat]
  BY <1>1, <1>2 DEF Server
<1>5. \A r \in Reports : /\ unsure[r] >= server.unsure[r]
                         /\ Sending(server, r) => unsure[r] >= server.unsure[r] + 1
  BY <1>1, <1>2 DEF Server
<1> HIDE DEF unsure
<1> QED BY <1>1, <1>3, <1>4, <1>5 DEF Server

LEMMA CrashKeeps ==
  ASSUME DeliveryInv, Crash PROVE DeliveryInv'
<1>1. ASSUME NEW r \in Reports PROVE ReportInv(server', r)
  <2>1. ReportInv(server, r) /\ server.unsure[r] \in Nat /\ server.delivered[r] \in Nat
        /\ server'.unsure[r] \in Nat
    BY CrashFacts DEF DeliveryInv, Server
  <2>2. server'.delivered[r] <= server'.unsure[r] + IF r \in server.marked THEN 1 ELSE 0
    BY <2>1, CrashFacts DEF ReportInv
  <2>3. ~Sending(server', r)
    BY CrashFacts DEF Sending
  <2> QED BY <2>1, <2>2, <2>3, CrashFacts DEF ReportInv
<1>2. /\ requests' \subseteq Requests
      /\ \A q \in requests' : RequestInv(q)
  <2>1. ASSUME NEW q \in requests,
               NEW n, n = [q EXCEPT !.status = IF @ = "done" THEN @ ELSE "failed"]
        PROVE  n \in Requests /\ RequestInv(n)
    BY <2>1 DEF DeliveryInv, Requests, RequestInv
  <2> QED BY <2>1 DEF Crash
<1> QED BY <1>1, <1>2, CrashFacts DEF DeliveryInv, OneDelivery

-----------------------------------------------------------------------------
(* The report center.                                                        *)

\* A fetch goes on as another state of itself.
LEMMA SwapKeeps ==
  ASSUME DeliveryInv, NEW q \in requests, NEW status \in {"sent", "waiting", "done", "failed"},
         NEW answer \in Lists \cup Records \cup {None},
         status = "waiting" => q.kind = "retry",
         Swap(q, [q EXCEPT !.status = status, !.answer = answer])
  PROVE  /\ requests' \subseteq Requests
         /\ \A p \in requests' : RequestInv(p)
<1> DEFINE n == [q EXCEPT !.status = status, !.answer = answer]
<1>1. q \in Requests /\ RequestInv(q)
  BY DEF DeliveryInv
<1>2. n \in Requests /\ n.kind = q.kind /\ n.report = q.report /\ n.status = status
  BY <1>1 DEF Requests
<1>3. requests' = (requests \ {q}) \cup {n}
  BY DEF Swap
<1> HIDE DEF n
<1> QED BY <1>1, <1>2, <1>3 DEF DeliveryInv, RequestInv

\* The same, when the answer stays.
LEMMA StatusKeeps ==
  ASSUME DeliveryInv, NEW q \in requests, NEW status \in {"sent", "waiting", "done", "failed"},
         status = "waiting" => q.kind = "retry",
         Swap(q, [q EXCEPT !.status = status])
  PROVE  /\ requests' \subseteq Requests
         /\ \A p \in requests' : RequestInv(p)
<1>1. q \in Requests
  BY DEF DeliveryInv
<1>2. [q EXCEPT !.status = status] = [q EXCEPT !.status = status, !.answer = q.answer]
  BY <1>1 DEF Requests
<1>3. q.answer \in Lists \cup Records \cup {None}
  BY <1>1 DEF Requests
<1> QED BY <1>2, <1>3, SwapKeeps

LEMMA ServerKept ==
  ASSUME DeliveryInv, server' = server, requests' \subseteq Requests,
         \A p \in requests' : RequestInv(p)
  PROVE  DeliveryInv'
BY DEF DeliveryInv

LEMMA NewRequests ==
  /\ Request("load", None) \in Requests
  /\ \A r \in Reports : Request("retry", r) \in Requests
BY DEF Request, Requests

LEMMA RetryReportKeeps ==
  ASSUME DeliveryInv, NEW q \in requests, RetryReport(q) PROVE DeliveryInv'
<1>1. q.report \in Reports
  BY DEF DeliveryInv, RetryReport, RequestInv
<1>2. Job(q.report, "page") \in Jobs /\ Job(q.report, "page").step = "waiting"
  BY <1>1 DEF Job, Jobs
<1>3. /\ server' \in Server /\ OneDelivery(server')
      /\ \A r \in Reports : ReportInv(server', r)
  BY <1>2, JobArrives DEF RetryReport
<1>4. /\ requests' \subseteq Requests
      /\ \A p \in requests' : RequestInv(p)
  BY StatusKeeps DEF RetryReport
<1> QED BY <1>3, <1>4 DEF DeliveryInv

LEMMA NotifyKeeps ==
  ASSUME DeliveryInv, NEW r \in Reports, Notify(r) PROVE DeliveryInv'
<1>1. Job(r, "reader") \in Jobs /\ Job(r, "reader").step = "waiting"
  BY DEF Job, Jobs
<1>2. /\ server' \in Server /\ OneDelivery(server')
      /\ \A u \in Reports : ReportInv(server', u)
  BY <1>1, JobArrives DEF Notify
<1> QED BY <1>2 DEF DeliveryInv, Notify

LEMMA AnswersKeep ==
  ASSUME DeliveryInv, NEW q \in requests,
         ListReports(q) \/ Retried(q) \/ Loaded(q) \/ RetryAnswered(q) \/ Lost(q)
  PROVE  DeliveryInv'
<1>1. q \in Requests /\ server \in Server /\ RequestInv(q)
  BY DEF DeliveryInv
<1>2. CASE ListReports(q)
  <2>1. server.report \in Lists \cup Records \cup {None}
    BY <1>1 DEF Server
  <2> QED BY <1>2, <2>1, SwapKeeps, ServerKept DEF ListReports
<1>3. CASE Loaded(q) \/ RetryAnswered(q)
  BY <1>3, ServerKept DEF Loaded, RetryAnswered, Ended, DeliveryInv
<1>4. CASE Lost(q)
  BY <1>4, StatusKeeps, ServerKept DEF Lost
<1>5. CASE Retried(q)
  <2>1. q.report \in Reports
    BY <1>1, <1>5 DEF Retried, RequestInv
  <2>2. server.report[q.report] \in Lists \cup Records \cup {None}
    BY <1>1, <2>1 DEF Server, Lists
  <2> QED BY <1>5, <2>2, SwapKeeps, ServerKept DEF Retried
<1> QED BY <1>2, <1>3, <1>4, <1>5

LEMMA PageKeeps ==
  ASSUME DeliveryInv, Reconnect \/ Reload \/ \E r \in Reports : retry(r) PROVE DeliveryInv'
<1>1. /\ RequestInv(Request("load", None))
      /\ \A r \in Reports : RequestInv(Request("retry", r))
  BY DEF Request, RequestInv
<1>2. CASE Reconnect
  BY <1>1, <1>2, NewRequests, ServerKept DEF Reconnect, DeliveryInv
<1>3. CASE Reload
  BY <1>1, <1>3, NewRequests, ServerKept DEF Reload, DeliveryInv
<1>4. CASE \E r \in Reports : retry(r)
  BY <1>1, <1>4, NewRequests, ServerKept DEF retry, DeliveryInv
<1> QED BY <1>2, <1>3, <1>4

LEMMA NothingDelivered == Init => DeliveryInv
<1> SUFFICES ASSUME Init PROVE DeliveryInv
  OBVIOUS
<1>1. /\ server = Empty /\ requests = {Request("load", None)}
  BY DEF Init
<1>2. server \in Server /\ server.jobs = {} /\ server.marked = {}
  BY <1>1 DEF Empty, Server, Lists
<1>3. \A r \in Reports : server.delivered[r] = 0 /\ server.unsure[r] = 0
  BY <1>1 DEF Empty
<1>4. \A r \in Reports : ReportInv(server, r)
  BY <1>2, <1>3 DEF ReportInv
<1>5. RequestInv(Request("load", None))
  BY DEF Request, RequestInv
<1> QED BY <1>1, <1>2, <1>4, <1>5, NewRequests DEF DeliveryInv, OneDelivery

LEMMA DeliveryStep == Distinct /\ DeliveryInv /\ [Next]_vars => DeliveryInv'
<1> SUFFICES ASSUME Distinct, DeliveryInv, [Next]_vars PROVE DeliveryInv'
  OBVIOUS
<1>1. CASE Delivery
  BY <1>1, BeginKeeps, AlreadySentKeeps, SendKeeps, MarkKeeps, SentKeeps DEF Delivery
<1>2. CASE Answers
  BY <1>2, AnswersKeep, RetryReportKeeps DEF Answers
<1>3. CASE \E j \in server.jobs : BeginFails(j) \/ MarkFails(j)
  BY <1>3, BeginFailsKeeps, MarkFailsKeeps
<1>4. CASE \E r \in Reports : Notify(r) \/ retry(r)
  BY <1>4, NotifyKeeps, PageKeeps
<1>5. CASE \E q \in requests : Lost(q)
  BY <1>5, AnswersKeep
<1>6. CASE Crash \/ Reconnect \/ Reload
  BY <1>6, CrashKeeps, PageKeeps
<1>7. CASE UNCHANGED vars
  BY <1>7 DEF vars, DeliveryInv
<1> QED BY <1>1, <1>2, <1>3, <1>4, <1>5, <1>6, <1>7 DEF Next

LEMMA AlwaysDelivery == ASSUME Distinct PROVE Spec => []DeliveryInv
BY NothingDelivered, DeliveryStep, PTL DEF Spec

-----------------------------------------------------------------------------
(* What is shown as sent was delivered.                                      *)

\* Nothing that went out comes back, and what a step adds to what the server says
\* went out.
Earned ==
  /\ \A r \in Reports : server'.delivered[r] >= server.delivered[r]
  /\ \A r \in Reports : Says(server', r) => Says(server, r) \/ server'.delivered[r] > 0

LEMMA NothingOutEarns ==
  ASSUME DeliveryInv, server'.delivered = server.delivered,
         \A r \in Reports : Says(server', r) => Says(server, r)
  PROVE  Earned
BY DEF DeliveryInv, Server, Earned

LEMMA BeginEarns ==
  ASSUME Distinct, DeliveryInv, NEW j \in server.jobs, Begin(j) \/ BeginFails(j) PROVE Earned
<1> DEFINE r == j.report
<1>1. /\ server \in Server /\ j \in Jobs /\ r \in Reports
  BY JobFacts
<1>2. CASE Begin(j)
  <2> DEFINE n == [j EXCEPT !.step = "saved"]
             new == Report("pending", None)
  <2>1. n.step = "saved"
    BY <1>1 DEF Jobs
  <2>2. new \in Records /\ new.status = "pending"
    BY DEF Report, Records
  <2> HIDE DEF n, new
  <2>3. /\ SaveReport(r, new)[r] = new
        /\ \A u \in Reports \ {r} : SaveReport(r, new)[u] = server.report[u]
    BY <1>1, <2>2, Saves
  <2>4. /\ server'.jobs = (server.jobs \ {j}) \cup {n}
        /\ server'.report = SaveReport(r, new) /\ server'.marked = server.marked
        /\ server'.delivered = server.delivered
    BY <1>1, <1>2 DEF Begin, Goes, Server, n, new
  <2> QED BY <2>1, <2>2, <2>3, <2>4, NothingOutEarns DEF Says, Sending, SaysSent
<1>3. CASE BeginFails(j)
  <2>1. /\ server'.jobs = server.jobs \ {j}
        /\ server'.report = server.report /\ server'.marked = server.marked
        /\ server'.delivered = server.delivered
    BY <1>1, <1>3 DEF BeginFails, Ends, Server
  <2> QED BY <2>1, NothingOutEarns DEF Says, Sending
<1> QED BY <1>2, <1>3

\* The mark was written before, so the report that was taken out of the way says
\* what it says again.
LEMMA EndEarns ==
  ASSUME Distinct, DeliveryInv, NEW j \in server.jobs, AlreadySent(j) \/ Sent(j) PROVE Earned
<1> DEFINE r == j.report
           new == IF AlreadySent(j) THEN Report("sent", "legacy") ELSE Report("sent", j.channel)
<1>1. /\ server \in Server /\ j \in Jobs /\ r \in Reports /\ ReportInv(server, r)
  BY JobFacts
<1>2. r \in server.marked
  BY <1>1 DEF AlreadySent, Delivered, Sent, ReportInv
<1>3. server' = [server EXCEPT !.report = SaveReport(r, new), !.jobs = server.jobs \ {j}]
  BY DEF AlreadySent, Sent, Ends
<1> HIDE DEF new
<1>4. /\ server'.jobs = server.jobs \ {j} /\ server'.marked = server.marked
      /\ server'.report = SaveReport(r, new) /\ server'.delivered = server.delivered
  BY <1>1, <1>3 DEF Server
<1>5. \A u \in Reports \ {r} : SaveReport(r, new)[u] = server.report[u]
  BY <1>1 DEF SaveReport, Server, Lists
<1> QED BY <1>2, <1>4, <1>5, NothingOutEarns DEF Says, Sending

LEMMA MarkEarns ==
  ASSUME DeliveryInv, NEW j \in server.jobs, MarkNotificationSent(j) \/ MarkFails(j)
  PROVE  Earned
<1> DEFINE r == j.report
           n == [j EXCEPT !.step = "marked"]
<1>1. /\ server \in Server /\ j \in Jobs /\ r \in Reports /\ j.step = "sent"
  BY JobFacts DEF MarkNotificationSent, MarkFails
<1>2. Sending(server, r)
  BY <1>1 DEF Sending
<1>3. n.step = "marked"
  BY <1>1 DEF Jobs
<1>4. /\ server'.jobs \subseteq (server.jobs \ {j}) \cup {n}
      /\ server'.marked \subseteq server.marked \cup {r}
      /\ server'.report = server.report /\ server'.delivered = server.delivered
  BY <1>1 DEF MarkNotificationSent, MarkFails, Goes, Ends, Server
<1> HIDE DEF n
<1> QED BY <1>2, <1>3, <1>4, NothingOutEarns DEF Says, Sending

LEMMA SendEarns ==
  ASSUME OpenClaw, DeliveryInv, NEW j \in server.jobs, Send(j) PROVE Earned
<1> DEFINE r == j.report
<1>1. /\ server \in Server /\ r \in Reports /\ server.delivered[r] \in Nat
  BY JobFacts DEF Server
<1>0. PICK claw \in IF OpenClaw THEN Outcomes ELSE {Unused} :
        \E mail \in IF ByMail(claw) THEN Outcomes ELSE {Unused} : Attempt(j, claw, mail)
  BY SendIsAttempt
<1>2. PICK mail \in IF ByMail(claw) THEN Outcomes ELSE {Unused} : Attempt(j, claw, mail)
  BY <1>0
<1> DEFINE out == claw.out + mail.out
<1>3. out \in Nat /\ (Accepted(claw, mail) => out > 0)
  BY OutcomeFacts
<1> HIDE DEF out
<1>4. /\ server'.marked = server.marked
      /\ server'.delivered = [server.delivered EXCEPT ![r] = @ + out]
  BY <1>2 DEF Attempt, out
<1>5. /\ server'.delivered[r] = server.delivered[r] + out
      /\ \A u \in Reports \ {r} : server'.delivered[u] = server.delivered[u]
  BY <1>1, <1>4 DEF Server
<1>6. \A u \in Reports : server'.delivered[u] >= server.delivered[u]
  BY <1>1, <1>3, <1>5 DEF Server
<1>7. CASE Accepted(claw, mail)
  <2>1. PICK n \in Jobs : n.report = r /\ server'.jobs = (server.jobs \ {j}) \cup {n}
    BY <1>2, <1>7 DEF Attempt
  <2>2. server'.report = server.report
    BY <1>2, <1>7 DEF Attempt
  <2>3. server'.delivered[r] > 0
    BY <1>1, <1>3, <1>5, <1>7
  <2>4. \A u \in Reports \ {r} : Says(server', u) => Says(server, u)
    BY <1>4, <2>1, <2>2 DEF Says, Sending
  <2> QED BY <1>6, <2>3, <2>4 DEF Earned
<1>8. CASE ~Accepted(claw, mail)
  <2>1. PICK new \in Records : new.status = "failed" /\ server'.report = SaveReport(r, new)
    BY <1>2, <1>8 DEF Attempt
  <2>2. server'.jobs = server.jobs \ {j}
    BY <1>2, <1>8 DEF Attempt
  <2>3. /\ SaveReport(r, new)[r] = new
        /\ \A u \in Reports \ {r} : SaveReport(r, new)[u] = server.report[u]
    BY <1>1, <2>1, Saves
  <2>4. \A u \in Reports : Says(server', u) => Says(server, u)
    BY <1>4, <2>1, <2>2, <2>3 DEF Says, Sending, SaysSent
  <2> QED BY <1>6, <2>4 DEF Earned
<1> QED BY <1>7, <1>8

LEMMA ArrivalEarns ==
  ASSUME DeliveryInv, NEW n \in Jobs, n.step = "waiting",
         server' = [server EXCEPT !.jobs = @ \cup {n}]
  PROVE  Earned
<1>1. /\ server'.report = server.report /\ server'.marked = server.marked
      /\ server'.delivered = server.delivered
  BY DEF DeliveryInv, Server
<1> QED BY <1>1, JobArrives, NothingOutEarns DEF Says

LEMMA EveryStepEarns ==
  ASSUME Distinct, OpenClaw, DeliveryInv, [Next]_vars PROVE Earned
<1>1. CASE server' = server
  BY <1>1, NothingOutEarns
<1>2. ASSUME NEW j \in server.jobs,
             Begin(j) \/ AlreadySent(j) \/ Send(j) \/ MarkNotificationSent(j) \/ Sent(j)
               \/ BeginFails(j) \/ MarkFails(j)
      PROVE  Earned
  BY <1>2, BeginEarns, EndEarns, MarkEarns, SendEarns
<1>3. ASSUME NEW r \in Reports, Notify(r) PROVE Earned
  <2>1. Job(r, "reader") \in Jobs /\ Job(r, "reader").step = "waiting"
    BY DEF Job, Jobs
  <2> QED BY <1>3, <2>1, ArrivalEarns DEF Notify
<1>4. ASSUME NEW q \in requests, RetryReport(q) PROVE Earned
  <2>1. Job(q.report, "page") \in Jobs /\ Job(q.report, "page").step = "waiting"
    BY <1>4 DEF Job, Jobs, DeliveryInv, RequestInv, RetryReport
  <2> QED BY <1>4, <2>1, ArrivalEarns DEF RetryReport
<1>5. CASE Crash
  BY <1>5, CrashFacts, NothingOutEarns DEF Says, Sending
<1>6. ASSUME NEW q \in requests,
             ListReports(q) \/ Retried(q) \/ Loaded(q) \/ RetryAnswered(q) \/ Lost(q)
      PROVE  server' = server
  BY <1>6 DEF ListReports, Retried, Loaded, RetryAnswered, Lost
<1>7. ASSUME Reconnect \/ Reload \/ UNCHANGED vars \/ \E r \in Reports : retry(r)
      PROVE  server' = server
  BY <1>7 DEF Reconnect, Reload, retry, vars
<1> QED BY <1>1, <1>2, <1>3, <1>4, <1>5, <1>6, <1>7 DEF Next, Delivery, Answers

\* What was said before the step is still so, and what the server says is.
LEMMA EarnedKeeps ==
  ASSUME DeliveryInv, DeliveryInv', HonestInv, Earned
  PROVE  /\ ServerHonest(server') /\ Honest(server', page.reports)
         /\ \A q \in requests : AnswerHonest(server', q)
<1>1. \A r \in Reports : server.delivered[r] > 0 => server'.delivered[r] > 0
  BY DEF DeliveryInv, Server, Earned
<1>2. ServerHonest(server')
  BY <1>1 DEF HonestInv, ServerHonest, Earned
<1>3. \A list : Honest(server, list) => Honest(server', list)
  BY <1>1 DEF Honest
<1>4. ASSUME NEW q \in requests PROVE AnswerHonest(server', q)
  <2>1. AnswerHonest(server, q) /\ (q.kind = "retry" => q.report \in Reports)
    BY DEF HonestInv, DeliveryInv, RequestInv
  <2> QED BY <1>1, <1>3, <2>1 DEF AnswerHonest
<1> QED BY <1>2, <1>3, <1>4 DEF HonestInv

\* A fetch whose answer is not there yet says nothing.
LEMMA NoAnswerYet ==
  ASSUME NEW s, NEW q, q.status # "done" PROVE AnswerHonest(s, q)
BY DEF AnswerHonest

LEMMA RequestsHonest ==
  ASSUME DeliveryInv, DeliveryInv', HonestInv, Earned, Next
  PROVE  \A p \in requests' : AnswerHonest(server', p)
<1> USE EarnedKeeps
<1>1. \A kind, r : Request(kind, r).status = "sent"
  BY DEF Request
<1>2. CASE requests' = requests
  BY <1>2
<1>3. CASE Reconnect \/ Reload \/ \E r \in Reports : retry(r)
  BY <1>1, <1>3, NoAnswerYet DEF Reconnect, Reload, retry
<1>4. CASE Crash
  <2>1. ASSUME NEW q \in requests, NEW n, n = [q EXCEPT !.status = IF @ = "done" THEN @ ELSE "failed"]
        PROVE  n = q \/ n.status # "done"
    BY <2>1 DEF DeliveryInv, Requests
  <2> QED BY <1>4, <2>1, NoAnswerYet DEF Crash
<1>5. ASSUME NEW q \in requests, RetryReport(q) \/ Lost(q) PROVE \A p \in requests' : AnswerHonest(server', p)
  <2>1. \A s \in {"waiting", "failed"} : [q EXCEPT !.status = s].status # "done"
    BY DEF DeliveryInv, Requests
  <2> QED BY <1>5, <2>1, NoAnswerYet DEF RetryReport, Lost, Swap
<1>6. ASSUME NEW q \in requests, ListReports(q) PROVE \A p \in requests' : AnswerHonest(server', p)
  <2> DEFINE n == [q EXCEPT !.status = "done", !.answer = server.report]
  <2>1. n.status = "done" /\ n.kind = "load" /\ n.answer = server.report
    BY <1>6 DEF DeliveryInv, Requests, ListReports
  <2>2. server' = server /\ requests' = (requests \ {q}) \cup {n}
    BY <1>6 DEF ListReports, Swap
  <2> HIDE DEF n
  <2>3. server.report \in Lists /\ Honest(server, server.report)
    BY DEF DeliveryInv, Server, HonestInv, ServerHonest, Says, Honest
  <2>4. AnswerHonest(server', n)
    BY <2>1, <2>2, <2>3 DEF AnswerHonest
  <2> QED BY <2>2, <2>4
<1>7. ASSUME NEW q \in requests, Retried(q) PROVE \A p \in requests' : AnswerHonest(server', p)
  <2> DEFINE n == [q EXCEPT !.status = "done", !.answer = server.report[q.report]]
  <2>1. q.kind = "retry" /\ q.report \in Reports /\ q \in Requests
    BY <1>7 DEF DeliveryInv, RequestInv, Retried
  <2>2. /\ n.status = "done" /\ n.kind = "retry" /\ n.report = q.report
        /\ n.answer = server.report[q.report]
    BY <2>1 DEF Requests
  <2>3. server' = server /\ requests' = (requests \ {q}) \cup {n}
    BY <1>7 DEF Retried, Swap
  <2> HIDE DEF n
  <2>4. /\ server.report[q.report] \in Records \cup {None}
        /\ SaysSent(server.report[q.report]) => server.delivered[q.report] > 0
    BY <2>1 DEF DeliveryInv, Server, Lists, HonestInv, ServerHonest, Says
  <2>5. AnswerHonest(server', n)
    BY <2>2, <2>3, <2>4 DEF AnswerHonest
  <2> QED BY <2>3, <2>5
<1>8. ASSUME NEW q \in requests, Loaded(q) \/ RetryAnswered(q) PROVE \A p \in requests' : AnswerHonest(server', p)
  BY <1>8 DEF Loaded, RetryAnswered, Ended
<1>9. ASSUME NEW j \in server.jobs,
             Begin(j) \/ AlreadySent(j) \/ Send(j) \/ MarkNotificationSent(j) \/ Sent(j)
               \/ BeginFails(j) \/ MarkFails(j)
      PROVE  requests' = requests
  BY <1>9 DEF Begin, AlreadySent, Send, MarkNotificationSent, Sent, BeginFails, MarkFails
<1>10. ASSUME NEW r \in Reports, Notify(r) PROVE requests' = requests
  BY <1>10 DEF Notify
<1> QED BY <1>2, <1>3, <1>4, <1>5, <1>6, <1>7, <1>8, <1>9, <1>10 DEF Next, Delivery, Answers

LEMMA PageHonest ==
  ASSUME DeliveryInv, DeliveryInv', HonestInv, Earned, Next
  PROVE  page' \in Page /\ Honest(server', page'.reports)
<1>1. page \in Page /\ Honest(server', page.reports)
  BY EarnedKeeps DEF HonestInv
<1>2. CASE page' = page
  BY <1>1, <1>2
<1>3. CASE Reload \/ \E r \in Reports : retry(r)
  <2>1. page' \in Page /\ page'.reports = page.reports
    BY <1>1, <1>3 DEF Reload, retry, Page
  <2> QED BY <1>1, <2>1
<1>4. ASSUME NEW q \in requests, Loaded(q) PROVE page' \in Page /\ Honest(server', page'.reports)
  <2>1. CASE q.status = "done"
    <3>1. q.answer \in Lists /\ Honest(server', q.answer)
      BY <1>4, <2>1, EarnedKeeps DEF Loaded, AnswerHonest
    <3>2. page' \in Page /\ page'.reports = q.answer
      BY <1>1, <1>4, <2>1, <3>1 DEF Loaded, Page
    <3> QED BY <3>1, <3>2
  <2>2. CASE q.status # "done"
    <3>1. page' \in Page /\ page'.reports = page.reports
      BY <1>1, <1>4, <2>2 DEF Loaded, Page
    <3> QED BY <1>1, <3>1
  <2> QED BY <2>1, <2>2
<1>5. ASSUME NEW q \in requests, RetryAnswered(q)
      PROVE  page' \in Page /\ Honest(server', page'.reports)
  <2>1. CASE q.status = "done"
    <3> DEFINE list == [page.reports EXCEPT ![q.report] = q.answer]
    <3>1. /\ q.report \in Reports /\ q.answer \in Records \cup {None}
          /\ SaysSent(q.answer) => server'.delivered[q.report] > 0
      BY <1>5, <2>1, EarnedKeeps DEF RetryAnswered, AnswerHonest, DeliveryInv, RequestInv
    <3>2. page.reports \in Lists
      BY <1>1 DEF Page
    <3>3. list \in Lists /\ Honest(server', list)
      BY <1>1, <3>1, <3>2 DEF Lists, Honest
    <3>4. page' = [page EXCEPT !.reports = list, !.busy = FALSE]
      BY <1>5, <2>1 DEF RetryAnswered
    <3> HIDE DEF list
    <3>5. page' \in Page /\ page'.reports = list
      BY <1>1, <3>3, <3>4 DEF Page
    <3> QED BY <3>3, <3>5
  <2>2. CASE q.status # "done"
    <3>1. page' \in Page /\ page'.reports = page.reports
      BY <1>1, <1>5, <2>2 DEF RetryAnswered, Page
    <3> QED BY <1>1, <3>1
  <2> QED BY <2>1, <2>2
<1>6. ASSUME NEW q \in requests, ListReports(q) \/ Retried(q) \/ RetryReport(q) \/ Lost(q)
      PROVE  page' = page
  BY <1>6 DEF ListReports, Retried, RetryReport, Lost
<1>7. ASSUME NEW j \in server.jobs,
             Begin(j) \/ AlreadySent(j) \/ Send(j) \/ MarkNotificationSent(j) \/ Sent(j)
               \/ BeginFails(j) \/ MarkFails(j)
      PROVE  page' = page
  BY <1>7 DEF Begin, AlreadySent, Send, MarkNotificationSent, Sent, BeginFails, MarkFails
<1>8. ASSUME Crash \/ Reconnect \/ \E r \in Reports : Notify(r) PROVE page' = page
  BY <1>8 DEF Crash, Reconnect, Notify
<1> QED BY <1>2, <1>3, <1>4, <1>5, <1>6, <1>7, <1>8 DEF Next, Delivery, Answers

LEMMA NothingSaid == Init => HonestInv
<1> SUFFICES ASSUME Init PROVE HonestInv
  OBVIOUS
<1>1. \A r \in Reports : ~Says(server, r)
  BY DEF Init, Empty, Says, Sending, SaysSent
<1>2. Shown \in Lists /\ \A r \in Reports : ~SaysSent(Shown[r])
  BY DEF Shown, Lists, SaysSent
<1>3. page = [reports |-> Shown, loading |-> TRUE, error |-> FALSE, busy |-> FALSE]
  BY DEF Init
<1> HIDE DEF Shown
<1>4. page \in Page /\ page.reports = Shown
  BY <1>2, <1>3 DEF Page
<1>5. \A q \in requests : q.status = "sent"
  BY DEF Init, Request
<1> QED BY <1>1, <1>2, <1>4, <1>5, NoAnswerYet DEF HonestInv, ServerHonest, Honest

LEMMA HonestStep ==
  Distinct /\ OpenClaw /\ DeliveryInv /\ DeliveryInv' /\ HonestInv /\ [Next]_vars => HonestInv'
<1> SUFFICES ASSUME Distinct, OpenClaw, DeliveryInv, DeliveryInv', HonestInv, [Next]_vars
             PROVE  HonestInv'
  OBVIOUS
<1>1. CASE Next
  <2>1. Earned
    BY EveryStepEarns
  <2> QED BY <1>1, <2>1, EarnedKeeps, RequestsHonest, PageHonest DEF HonestInv
<1>2. CASE UNCHANGED vars
  BY <1>2 DEF vars, HonestInv
<1> QED BY <1>1, <1>2

-----------------------------------------------------------------------------
(* The theorems.                                                             *)

\* However many reads, retries, crashes and lost answers a report meets, no more of
\* it goes out than one message and one for each attempt whose end the server could
\* not record (notificationDeliveryMu, MarkNotificationSent before the next Send).
THEOREM DeliveredOncePerRecord == ASSUME Distinct PROVE Spec => []OncePerRecord
<1>1. DeliveryInv => OncePerRecord
  BY DEF DeliveryInv, Server, ReportInv, OncePerRecord
<1> QED BY <1>1, AlwaysDelivery, PTL

\* A report that was delivered and marked is never stored as failed, whatever a
\* retry or a later read meets (NotificationSent before Send).
THEOREM MarkedReportsNeverFail == ASSUME Distinct PROVE Spec => []MarkedNeverFails
<1>1. DeliveryInv => MarkedNeverFails
  BY DEF DeliveryInv, Server, ReportInv, MarkedNeverFails
<1> QED BY <1>1, AlwaysDelivery, PTL

\* With the hooks endpoint configured, what the report center shows as sent and what
\* a marker says was sent went out at least once: a delivery the server only supposes
\* is never shown (notifyTerminalCompletion, "persisted only after delivery
\* succeeds").  Without it a run shows that the page says so of a report nobody got.
THEOREM SentReportsWereDelivered ==
  ASSUME Distinct, OpenClaw PROVE Spec => []SentIsDelivered
<1>1. HonestInv => SentIsDelivered
  BY DEF HonestInv, ServerHonest, Honest, Says, SaysSent, SentIsDelivered
<1> QED BY <1>1, AlwaysDelivery, NothingSaid, HonestStep, PTL DEF Spec
=============================================================================
