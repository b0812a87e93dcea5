---------------------------- MODULE EmailCampaign ----------------------------
(***************************************************************************)
(* One email campaign: the row in core_emailcampaign, its recipient rows,  *)
(* the Celery messages that ask for its delivery, the workers that run     *)
(* send_email_campaign, Celery Beat's dispatch of scheduled campaigns, and *)
(* the manager's retry button (core/tasks.py, web/views.py).               *)
(*                                                                         *)
(* The database runs in autocommit outside transaction.atomic, so each     *)
(* query of the task is an action of its own and other processes act       *)
(* between them.  Messages are acknowledged when a worker takes them (the  *)
(* Celery default), so a crash loses the message with the worker.          *)
(***************************************************************************)
EXTENDS Naturals, FiniteSets

CONSTANTS
  Address,      \* email addresses a campaign may be sent to
  Worker,       \* Celery worker processes
  Dispatcher,   \* overlapping runs of dispatch_scheduled_email_campaigns
  Request,      \* overlapping POSTs to EmailCampaignRetryView
  MaxMessages   \* bound: a retry is posted only below this many messages

ASSUME MaxMessagesAssumption == MaxMessages \in Nat

VARIABLES
  status,       \* EmailCampaign.status, or "none" before it is created
  recipients,   \* EmailCampaign.recipient_emails
  row,          \* EmailCampaignRecipient.status, or "none" without a row
  leads,        \* the email_marketing_opt_out values of the leads at an address
  unpublished,  \* deliveries asked for (committed) and not yet handed to the broker
  queue,        \* send_email_campaign messages at the broker
  due,          \* dispatchers whose due_ids holds the campaign
  checked,      \* retry requests that read a retryable status
  pc,           \* where each worker is in send_email_campaign
  pending,      \* its list of rows still to handle
  optedIn,      \* its opted_in_emails
  current,      \* {the address whose row it is sending}, or {}
  answer,       \* what the provider said about the current row
  verdict,      \* the status it computed from the counts
  delivered,    \* history: times the provider took a message for an address (2: or more)
  withheld,     \* history: addresses opted out ever since the worker began
  faults        \* history: the kinds of fault that have happened

campaignVars == <<status, recipients, row>>
brokerVars == <<unpublished, queue, due, checked>>
workerVars == <<pc, pending, optedIn, current, answer, verdict>>
historyVars == <<delivered, withheld, faults>>
vars == <<campaignVars, leads, brokerVars, workerVars, historyVars>>

Status == {"scheduled", "queued", "sending", "sent", "partial", "failed"}
RowStatus == {"queued", "sending", "sent", "failed", "suppressed"}
Fault == {"crash", "lost", "ambiguous"}
Retryable == {"partial", "failed"}
Settled == {"sent", "partial", "failed"}

\* An address is opted in when some lead that has it has not opted out.
OptedIn == {a \in Address : FALSE \in leads[a]}

Rows(S) == {a \in Address : row[a] \in S}
SetRows(A, s) == [a \in Address |-> IF a \in A THEN s ELSE row[a]]

Active(w) == pc[w] # "idle"

------------------------------------------------------------------------------
(* A campaign is new, or was scheduled before recipient rows existed       *)
(* (migration 0011), which _ensure_recipient_records repairs.              *)
Init ==
  /\ \/ status = "none" /\ recipients = {}
     \/ status = "scheduled" /\ recipients \in (SUBSET Address) \ {{}}
  /\ row = [a \in Address |-> "none"]
  /\ leads \in [Address -> SUBSET BOOLEAN]
  /\ unpublished = 0
  /\ queue = 0
  /\ due = {}
  /\ checked = {}
  /\ pc = [w \in Worker |-> "idle"]
  /\ pending = [w \in Worker |-> {}]
  /\ optedIn = [w \in Worker |-> {}]
  /\ current = [w \in Worker |-> {}]
  /\ answer = [w \in Worker |-> "none"]
  /\ verdict = [w \in Worker |-> "none"]
  /\ delivered = [a \in Address |-> 0]
  /\ withheld = [w \in Worker |-> {}]
  /\ faults = {}

------------------------------------------------------------------------------
(* The web views.                                                          *)

\* EmailCampaignCreateView.form_valid: the campaign and its rows are one
\* transaction; a queued campaign is published by transaction.on_commit.
Create(A, s) ==
  /\ status = "none"
  /\ A # {} /\ A \subseteq OptedIn
  /\ status' = s
  /\ recipients' = A
  /\ row' = SetRows(A, "queued")
  /\ unpublished' = IF s = "queued" THEN unpublished + 1 ELSE unpublished
  /\ UNCHANGED <<leads, queue, due, checked, workerVars, historyVars>>

\* EmailCampaignRetryView.post reads the status without a lock ...
CheckRetry(r) ==
  /\ r \notin checked
  /\ status \in Retryable
  /\ unpublished + queue < MaxMessages
  /\ checked' = checked \cup {r}
  /\ UNCHANGED <<campaignVars, leads, unpublished, queue, due, workerVars, historyVars>>

\* ... and then writes "queued" over whatever status the row has by now.
CommitRetry(r) ==
  /\ r \in checked
  /\ checked' = checked \ {r}
  /\ status' = "queued"
  /\ unpublished' = unpublished + 1
  /\ UNCHANGED <<recipients, row, leads, queue, due, workerVars, historyVars>>

\* EmailUnsubscribeView updates every lead that has the address.
Unsubscribe(a) ==
  /\ leads[a] # {}
  /\ leads' = [leads EXCEPT ![a] = {TRUE}]
  /\ UNCHANGED <<campaignVars, brokerVars, workerVars, historyVars>>

\* A lead with the address is created, or a form or the API sets its flag
\* back: the address is opted in again.
OptIn(a) ==
  /\ FALSE \notin leads[a]
  /\ leads' = [leads EXCEPT ![a] = @ \cup {FALSE}]
  /\ withheld' = [w \in Worker |-> withheld[w] \ {a}]
  /\ UNCHANGED <<campaignVars, brokerVars, workerVars, delivered, faults>>

------------------------------------------------------------------------------
(* Celery Beat and the broker.                                             *)

\* dispatch_scheduled_email_campaigns lists the due campaigns ...
ScanDue(d) ==
  /\ d \notin due
  /\ status = "scheduled"
  /\ due' = due \cup {d}
  /\ UNCHANGED <<campaignVars, leads, unpublished, queue, checked, workerVars, historyVars>>

\* Mutant of DispatchDue: an update by primary key alone.
DispatchStaleDue(d) ==
  /\ d \in due
  /\ due' = due \ {d}
  /\ status' = "queued"
  /\ unpublished' = unpublished + 1
  /\ UNCHANGED <<recipients, row, leads, queue, checked, workerVars, historyVars>>

\* ... and queues each by an update conditional on its status.
DispatchDue(d) ==
  /\ d \in due
  /\ due' = due \ {d}
  /\ \/ /\ status = "scheduled"
        /\ status' = "queued"
        /\ unpublished' = unpublished + 1
     \/ /\ status # "scheduled"
        /\ UNCHANGED <<status, unpublished>>
  /\ UNCHANGED <<recipients, row, leads, queue, checked, workerVars, historyVars>>

\* send_email_campaign.delay, after the commit that asked for it.
Publish ==
  /\ unpublished > 0
  /\ unpublished' = unpublished - 1
  /\ queue' = queue + 1
  /\ UNCHANGED <<campaignVars, leads, due, checked, workerVars, historyVars>>

\* The process dies, or the broker refuses, between the commit and .delay.
LosePublish ==
  /\ unpublished > 0
  /\ unpublished' = unpublished - 1
  /\ faults' = faults \cup {"lost"}
  /\ UNCHANGED <<campaignVars, leads, queue, due, checked, workerVars, delivered, withheld>>

------------------------------------------------------------------------------
(* send_email_campaign.                                                    *)

\* The claim: status is read and set to "sending" under select_for_update.
Claim(w) ==
  /\ pc[w] = "idle"
  /\ queue > 0
  /\ queue' = queue - 1
  /\ \/ /\ status \in {"queued"} \cup Retryable
        /\ status' = "sending"
        /\ pc' = [pc EXCEPT ![w] = "recover"]
        /\ withheld' = [withheld EXCEPT ![w] = Address \ OptedIn]
     \/ /\ status \notin {"queued"} \cup Retryable
        /\ UNCHANGED <<status, pc, withheld>>
  /\ UNCHANGED <<recipients, row, leads, unpublished, due, checked, pending, optedIn,
                 current, answer, verdict, delivered, faults>>

\* _ensure_recipient_records adds the missing rows, then the rows an
\* interrupted delivery left in "sending" are made "failed".
Recover(w) ==
  /\ pc[w] = "recover"
  /\ row' = [a \in Address |-> CASE row[a] = "none" /\ a \in recipients -> "queued"
                                 [] row[a] = "sending" -> "failed"
                                 [] OTHER -> row[a]]
  /\ pc' = [pc EXCEPT ![w] = "load"]
  /\ UNCHANGED <<status, recipients, leads, brokerVars, pending, optedIn, current, answer,
                 verdict, historyVars>>

\* Mutant of Load: suppressed rows are tried again.
LoadSuppressed(w) ==
  /\ pc[w] = "load"
  /\ pending' = [pending EXCEPT ![w] = Rows({"queued", "failed", "suppressed"})]
  /\ pc' = [pc EXCEPT ![w] = "audience"]
  /\ UNCHANGED <<campaignVars, leads, brokerVars, optedIn, current, answer, verdict, historyVars>>

\* The rows to deliver.
Load(w) ==
  /\ pc[w] = "load"
  /\ pending' = [pending EXCEPT ![w] = Rows({"queued", "failed"})]
  /\ pc' = [pc EXCEPT ![w] = "audience"]
  /\ UNCHANGED <<campaignVars, leads, brokerVars, optedIn, current, answer, verdict, historyVars>>

\* Mutant of ReadAudience: the addresses opted in when the campaign was made.
ReadStoredAudience(w) ==
  /\ pc[w] = "audience"
  /\ optedIn' = [optedIn EXCEPT ![w] = recipients]
  /\ pc' = [pc EXCEPT ![w] = "suppress"]
  /\ UNCHANGED <<campaignVars, leads, brokerVars, pending, current, answer, verdict, historyVars>>

\* The opt-outs are read again, once, before delivery.
ReadAudience(w) ==
  /\ pc[w] = "audience"
  /\ optedIn' = [optedIn EXCEPT ![w] = OptedIn]
  /\ pc' = [pc EXCEPT ![w] = "suppress"]
  /\ UNCHANGED <<campaignVars, leads, brokerVars, pending, current, answer, verdict, historyVars>>

\* One row that is no longer eligible is saved as "suppressed".
Suppress(w, a) ==
  /\ pc[w] = "suppress"
  /\ a \in pending[w] \ optedIn[w]
  /\ row' = [row EXCEPT ![a] = "suppressed"]
  /\ pending' = [pending EXCEPT ![w] = @ \ {a}]
  /\ UNCHANGED <<status, recipients, leads, brokerVars, pc, optedIn, current, answer, verdict,
                 historyVars>>

\* pending = still_eligible, and the connection is opened.
Connect(w) ==
  /\ pc[w] = "suppress"
  /\ pending[w] \subseteq optedIn[w]
  /\ pc' = [pc EXCEPT ![w] = "deliver"]
  /\ UNCHANGED <<campaignVars, leads, brokerVars, pending, optedIn, current, answer, verdict,
                 historyVars>>

\* The next row is saved as "sending" ...
StartRow(w, a) ==
  /\ pc[w] = "deliver"
  /\ current[w] = {}
  /\ a \in pending[w]
  /\ row' = [row EXCEPT ![a] = "sending"]
  /\ pending' = [pending EXCEPT ![w] = @ \ {a}]
  /\ current' = [current EXCEPT ![w] = {a}]
  /\ UNCHANGED <<status, recipients, leads, brokerVars, pc, optedIn, answer, verdict, historyVars>>

\* ... the provider takes the message, refuses it, or takes it and the
\* answer is an error (a timeout after DATA, a dropped connection) ...
Transmit(w, a, got) ==
  /\ pc[w] = "deliver"
  /\ current[w] = {a}
  /\ answer[w] = "none"
  /\ answer' = [answer EXCEPT ![w] = IF got = "accepted" THEN "accepted" ELSE "refused"]
  /\ delivered' = IF got = "refused" \/ delivered[a] = 2 THEN delivered
                  ELSE [delivered EXCEPT ![a] = @ + 1]
  /\ faults' = IF got = "ambiguous" THEN faults \cup {"ambiguous"} ELSE faults
  /\ UNCHANGED <<campaignVars, leads, brokerVars, pc, pending, optedIn, current, verdict, withheld>>

\* Mutant of RecordRow: the result is not saved.
ForgetRow(w, a) ==
  /\ current[w] = {a}
  /\ answer[w] # "none"
  /\ current' = [current EXCEPT ![w] = {}]
  /\ answer' = [answer EXCEPT ![w] = "none"]
  /\ UNCHANGED <<campaignVars, leads, brokerVars, pc, pending, optedIn, verdict, historyVars>>

\* ... and the row is saved with the result.
RecordRow(w, a) ==
  /\ current[w] = {a}
  /\ answer[w] # "none"
  /\ row' = [row EXCEPT ![a] = IF answer[w] = "accepted" THEN "sent" ELSE "failed"]
  /\ current' = [current EXCEPT ![w] = {}]
  /\ answer' = [answer EXCEPT ![w] = "none"]
  /\ UNCHANGED <<status, recipients, leads, brokerVars, pc, pending, optedIn, verdict, historyVars>>

\* The worker's local variables are gone with it.
Leave(w) ==
  /\ pc' = [pc EXCEPT ![w] = "idle"]
  /\ pending' = [pending EXCEPT ![w] = {}]
  /\ optedIn' = [optedIn EXCEPT ![w] = {}]
  /\ current' = [current EXCEPT ![w] = {}]
  /\ answer' = [answer EXCEPT ![w] = "none"]
  /\ verdict' = [verdict EXCEPT ![w] = "none"]
  /\ withheld' = [withheld EXCEPT ![w] = {}]

\* Mutant of ConnectionFails: the exception ends the task.
ConnectionRaises(w) ==
  /\ pc[w] = "deliver"
  /\ current[w] = {} \/ answer[w] # "none"
  /\ Leave(w)
  /\ UNCHANGED <<campaignVars, leads, brokerVars, delivered, faults>>

\* Reading an attachment, opening or closing the connection or saving a row
\* fails: what is not settled is marked failed, and the loop is left.  When
\* it is the save of an accepted row that fails, the answer is lost with it.
ConnectionFails(w) ==
  /\ pc[w] = "deliver"
  /\ current[w] = {} \/ answer[w] # "none"
  /\ row' = SetRows(Rows({"queued", "sending"}), "failed")
  /\ pending' = [pending EXCEPT ![w] = {}]
  /\ current' = [current EXCEPT ![w] = {}]
  /\ answer' = [answer EXCEPT ![w] = "none"]
  /\ pc' = [pc EXCEPT ![w] = "count"]
  /\ faults' = IF answer[w] = "accepted" THEN faults \cup {"ambiguous"} ELSE faults
  /\ UNCHANGED <<status, recipients, leads, brokerVars, optedIn, verdict, delivered, withheld>>

\* Every pending row has been tried.
Disconnect(w) ==
  /\ pc[w] = "deliver"
  /\ current[w] = {} /\ pending[w] = {}
  /\ pc' = [pc EXCEPT ![w] = "count"]
  /\ UNCHANGED <<campaignVars, leads, brokerVars, pending, optedIn, current, answer, verdict,
                 historyVars>>

\* The counts that decide the campaign's final status ...
Outcome ==
  IF Rows({"failed"}) = {} /\ Rows(RowStatus) = Rows({"sent", "suppressed"}) THEN "sent"
  ELSE IF Rows({"sent"}) # {} THEN "partial"
  ELSE "failed"

Count(w) ==
  /\ pc[w] = "count"
  /\ verdict' = [verdict EXCEPT ![w] = Outcome]
  /\ pc' = [pc EXCEPT ![w] = "finish"]
  /\ UNCHANGED <<campaignVars, leads, brokerVars, pending, optedIn, current, answer, historyVars>>

\* ... and the unconditional update that writes it.
Finish(w) ==
  /\ pc[w] = "finish"
  /\ status' = verdict[w]
  /\ Leave(w)
  /\ UNCHANGED <<recipients, row, leads, brokerVars, delivered, faults>>

\* The worker process dies anywhere in the task.
Crash(w) ==
  /\ Active(w)
  /\ Leave(w)
  /\ faults' = faults \cup {"crash"}
  /\ UNCHANGED <<campaignVars, leads, brokerVars, delivered>>

------------------------------------------------------------------------------
WorkerStep(w) ==
  \/ Claim(w)
  \/ Recover(w)
  \/ Load(w)
  \/ ReadAudience(w)
  \/ \E a \in Address : Suppress(w, a)
  \/ Connect(w)
  \/ \E a \in Address : StartRow(w, a)
  \/ \E a \in Address, got \in {"accepted", "refused", "ambiguous"} : Transmit(w, a, got)
  \/ \E a \in Address : RecordRow(w, a)
  \/ ConnectionFails(w)
  \/ Disconnect(w)
  \/ Count(w)
  \/ Finish(w)

Next ==
  \/ \E A \in SUBSET Address, s \in {"scheduled", "queued"} : Create(A, s)
  \/ \E r \in Request : CheckRetry(r) \/ CommitRetry(r)
  \/ \E a \in Address : Unsubscribe(a) \/ OptIn(a)
  \/ \E d \in Dispatcher : ScanDue(d) \/ DispatchDue(d)
  \/ Publish
  \/ LosePublish
  \/ \E w \in Worker : WorkerStep(w) \/ Crash(w)

\* Beat runs every minute, a published message reaches a worker, and a worker
\* that does not crash goes on.  Users and faults are not fair.
Fairness ==
  /\ WF_vars(\E d \in Dispatcher : ScanDue(d))
  /\ \A d \in Dispatcher : WF_vars(DispatchDue(d))
  /\ WF_vars(Publish)
  /\ \A w \in Worker : WF_vars(WorkerStep(w))

Spec == Init /\ [][Next]_vars /\ Fairness

\* What a row means to the ledger: everything but "sent" and "suppressed" is open.
Settlement == [a \in Address |-> IF row[a] \in {"sent", "suppressed"} THEN row[a] ELSE "open"]

Ledger == INSTANCE CampaignLedger WITH
  audience <- recipients, outcome <- Settlement, complete <- (status = "sent")

------------------------------------------------------------------------------
(* Types: in particular a recipient row, a worker and a campaign only ever  *)
(* have the statuses and the places in the code that the handlers give them. *)
TypeOK ==
  /\ status \in Status \cup {"none"}
  /\ recipients \subseteq Address
  /\ row \in [Address -> RowStatus \cup {"none"}]
  /\ leads \in [Address -> SUBSET BOOLEAN]
  /\ unpublished \in Nat
  /\ queue \in Nat
  /\ due \subseteq Dispatcher
  /\ checked \subseteq Request
  /\ pc \in [Worker -> {"idle", "recover", "load", "audience", "suppress", "deliver",
                        "count", "finish"}]
  /\ pending \in [Worker -> SUBSET Address]
  /\ optedIn \in [Worker -> SUBSET Address]
  /\ current \in [Worker -> SUBSET Address]
  /\ answer \in [Worker -> {"none", "accepted", "refused"}]
  /\ verdict \in [Worker -> Settled \cup {"none"}]
  /\ delivered \in [Address -> 0..2]
  /\ withheld \in [Worker -> SUBSET Address]
  /\ faults \subseteq Fault

(* No two workers deliver the campaign at once, and none does while         *)
(* another delivery is on its way: the locked claim in send_email_campaign  *)
(* and the conditional update of the dispatcher keep one delivery alive     *)
(* (as long as retry requests do not overlap).                              *)
SoleSender ==
  /\ \A v, w \in Worker : Active(v) /\ Active(w) => v = w
  /\ (\E w \in Worker : Active(w)) => status = "sending" /\ unpublished = 0 /\ queue = 0

(* A customer gets the campaign twice only if a worker died between the     *)
(* provider's answer and the row's save, or the provider took a message and *)
(* answered with an error: retries alone never mail anyone again.           *)
DuplicateNeedsFault ==
  \A a \in Address : delivered[a] = 2 => faults \cap {"crash", "ambiguous"} # {}

(* Whoever has been opted out since before the delivery was claimed is not  *)
(* mailed by it, however long ago the recipient list was made.              *)
OptOutHonoured ==
  [][\A w \in Worker, a \in Address :
       delivered'[a] # delivered[a] /\ current[w] = {a} => a \notin withheld[w]]_vars

(* Each address is settled once, and a campaign reported as sent has        *)
(* settled all of them: rows and status implement CampaignLedger.           *)
ImplementsLedger == Ledger!Spec

(* A campaign that is due or being delivered settles, unless a worker       *)
(* crashes or a message is lost on the way.                                 *)
CampaignSettles ==
  status \in {"scheduled", "queued", "sending"}
    ~> (status \in Settled \/ faults \cap {"crash", "lost"} # {})

(* A retry mails only recipients that failed ("Failed recipients were       *)
(* queued for another attempt."): a row recorded as sent is not mailed.     *)
RetrySkipsSent ==
  [][\A a \in Address : row[a] = "sent" => delivered'[a] = delivered[a]]_vars

(* What an operator needs after a failure: with no delivery under way, a    *)
(* row left in "sending" can still be retried ("A crashed worker must not   *)
(* leave rows permanently unretryable.").                                   *)
InterruptedRowsAreRetryable ==
  Rows({"sending"}) # {} /\ (\A w \in Worker : ~Active(w)) /\ unpublished + queue = 0
    => status \in Retryable

==============================================================================
