------------------------- MODULE EmailCampaignProofs -------------------------
(***************************************************************************)
(* Proofs about EmailCampaign, for any sets of addresses, workers,         *)
(* dispatchers and requests.                                               *)
(***************************************************************************)
EXTENDS EmailCampaign, TLAPS

------------------------------------------------------------------------------
(* Types.                                                                  *)

LEMMA OutcomeType == Outcome \in Settled
  BY DEF Outcome, Settled

LEMMA InitTypeOK == Init => TypeOK
  BY DEF Init, TypeOK, Status

LEMMA ViewTypeOK ==
  ASSUME TypeOK
  PROVE  /\ \A A \in SUBSET Address, s \in {"scheduled", "queued"} : Create(A, s) => TypeOK'
         /\ \A r \in Request : (CheckRetry(r) => TypeOK') /\ (CommitRetry(r) => TypeOK')
         /\ \A a \in Address : (Unsubscribe(a) => TypeOK') /\ (OptIn(a) => TypeOK')
<1> USE DEF TypeOK, campaignVars, brokerVars, workerVars, historyVars
<1>1. ASSUME NEW A \in SUBSET Address, NEW s \in {"scheduled", "queued"}, Create(A, s)
      PROVE  TypeOK'
  <2>1. /\ status' \in Status \cup {"none"} /\ unpublished' \in Nat
        /\ row' \in [Address -> RowStatus \cup {"none"}]
    BY <1>1 DEF Create, SetRows, Status, RowStatus
  <2> QED
    BY <1>1, <2>1 DEF Create
<1>2. ASSUME NEW r \in Request, CheckRetry(r)
      PROVE  TypeOK'
  BY <1>2 DEF CheckRetry
<1>3. ASSUME NEW r \in Request, CommitRetry(r)
      PROVE  TypeOK'
  BY <1>3 DEF CommitRetry, Status
<1>4. ASSUME NEW a \in Address, Unsubscribe(a)
      PROVE  TypeOK'
  BY <1>4 DEF Unsubscribe
<1>5. ASSUME NEW a \in Address, OptIn(a)
      PROVE  TypeOK'
  <2>1. leads' \in [Address -> SUBSET BOOLEAN] /\ withheld' \in [Worker -> SUBSET Address]
    BY <1>5 DEF OptIn
  <2> QED
    BY <1>5, <2>1 DEF OptIn
<1> QED
  BY <1>1, <1>2, <1>3, <1>4, <1>5

LEMMA BrokerTypeOK ==
  ASSUME TypeOK
  PROVE  /\ \A d \in Dispatcher : (ScanDue(d) => TypeOK') /\ (DispatchDue(d) => TypeOK')
         /\ (Publish => TypeOK') /\ (LosePublish => TypeOK')
<1> USE DEF TypeOK, campaignVars, brokerVars, workerVars, historyVars
<1>1. ASSUME NEW d \in Dispatcher, ScanDue(d)
      PROVE  TypeOK'
  BY <1>1 DEF ScanDue
<1>2. ASSUME NEW d \in Dispatcher, DispatchDue(d)
      PROVE  TypeOK'
  <2>1. status' \in Status \cup {"none"} /\ unpublished' \in Nat
    BY <1>2 DEF DispatchDue, Status
  <2> QED
    BY <1>2, <2>1 DEF DispatchDue
<1>3. CASE Publish
  BY <1>3 DEF Publish
<1>4. CASE LosePublish
  BY <1>4 DEF LosePublish, Fault
<1> QED
  BY <1>1, <1>2, <1>3, <1>4

LEMMA WorkerTypeOK ==
  ASSUME TypeOK, NEW w \in Worker
  PROVE  (WorkerStep(w) => TypeOK') /\ (Crash(w) => TypeOK')
<1> USE DEF TypeOK, campaignVars, brokerVars, workerVars, historyVars
<1>1. CASE Claim(w)
  <2>1. queue' \in Nat
    BY <1>1 DEF Claim
  <2>2. \/ /\ status' = "sending"
           /\ pc' = [pc EXCEPT ![w] = "recover"]
           /\ withheld' = [withheld EXCEPT ![w] = Address \ OptedIn]
        \/ UNCHANGED <<status, pc, withheld>>
    BY <1>1 DEF Claim
  <2>3. UNCHANGED <<recipients, row, leads, unpublished, due, checked, pending, optedIn,
                    current, answer, verdict, delivered, faults>>
    BY <1>1 DEF Claim
  <2> QED
    BY <2>1, <2>2, <2>3 DEF Status
<1>2. CASE Recover(w)
  BY <1>2 DEF Recover, RowStatus
<1>3. CASE Load(w)
  BY <1>3 DEF Load, Rows
<1>4. CASE ReadAudience(w)
  <2>1. OptedIn \subseteq Address
    BY DEF OptedIn
  <2> QED
    BY <1>4, <2>1 DEF ReadAudience
<1>5. ASSUME NEW a \in Address, Suppress(w, a)
      PROVE  TypeOK'
  BY <1>5 DEF Suppress, RowStatus
<1>6. CASE Connect(w)
  BY <1>6 DEF Connect
<1>7. ASSUME NEW a \in Address, StartRow(w, a)
      PROVE  TypeOK'
  BY <1>7 DEF StartRow, RowStatus
<1>8. ASSUME NEW a \in Address, NEW got \in {"accepted", "refused", "ambiguous"},
             Transmit(w, a, got)
      PROVE  TypeOK'
  <2>1. delivered' \in [Address -> 0..2] /\ faults' \subseteq Fault
    BY <1>8 DEF Transmit, Fault
  <2> QED
    BY <1>8, <2>1 DEF Transmit
<1>9. ASSUME NEW a \in Address, RecordRow(w, a)
      PROVE  TypeOK'
  BY <1>9 DEF RecordRow, RowStatus
<1>10. CASE ConnectionFails(w)
  <2>1. row' \in [Address -> RowStatus \cup {"none"}] /\ faults' \subseteq Fault
    BY <1>10 DEF ConnectionFails, SetRows, RowStatus, Fault
  <2> QED
    BY <1>10, <2>1 DEF ConnectionFails
<1>11. CASE Disconnect(w)
  BY <1>11 DEF Disconnect
<1>12. CASE Count(w)
  BY <1>12, OutcomeType DEF Count
<1>13. CASE Finish(w)
  BY <1>13 DEF Finish, Leave, Status, Settled
<1>14. CASE Crash(w)
  BY <1>14 DEF Crash, Leave, Fault
<1> QED
  BY <1>1, <1>2, <1>3, <1>4, <1>5, <1>6, <1>7, <1>8, <1>9, <1>10, <1>11, <1>12, <1>13, <1>14
  DEF WorkerStep

LEMMA NextTypeOK == TypeOK /\ [Next]_vars => TypeOK'
<1> SUFFICES ASSUME TypeOK, [Next]_vars
             PROVE  TypeOK'
  OBVIOUS
<1>1. CASE Next
  BY <1>1, ViewTypeOK, BrokerTypeOK, WorkerTypeOK DEF Next
<1>2. CASE UNCHANGED vars
  BY <1>2 DEF TypeOK, vars, campaignVars, brokerVars, workerVars, historyVars
<1> QED
  BY <1>1, <1>2

(* Every variable keeps its type, whatever the interleaving of views,       *)
(* dispatchers, workers and faults.                                         *)
THEOREM TypeCorrect == Spec => []TypeOK
  BY InitTypeOK, NextTypeOK, PTL DEF Spec

------------------------------------------------------------------------------
(* One delivery at a time, when retry requests do not overlap.             *)

NoOverlap == \A r, s \in Request : r = s

\* Where the campaign is, seen from its messages, workers and requests:
\* at most one of them carries it on.
Flow ==
  /\ \A v, w \in Worker : Active(v) /\ Active(w) => v = w
  /\ (\E w \in Worker : Active(w)) => /\ status = "sending"
                                     /\ unpublished = 0 /\ queue = 0
                                     /\ checked = {}
  /\ unpublished + queue <= 1
  /\ unpublished + queue = 1 => status = "queued" /\ checked = {}
  /\ checked # {} => status \in Retryable

LEMMA InitFlow == Init => Flow
  BY DEF Init, Flow, Active

\* A step that only moves an active worker, or stops one, keeps Flow.
LEMMA QuietFlow ==
  ASSUME Flow, UNCHANGED <<status, unpublished, queue, checked>>,
         \A w \in Worker : Active(w)' => Active(w)
  PROVE  Flow'
  BY DEF Flow

LEMMA WorkerFlow ==
  ASSUME TypeOK, Flow, NEW w \in Worker, WorkerStep(w) \/ Crash(w)
  PROVE  Flow'
<1> USE DEF brokerVars, workerVars, campaignVars, historyVars
<1>1. CASE Claim(w)
  <2>1. queue \in Nat /\ unpublished \in Nat /\ queue > 0
    BY <1>1 DEF Claim, TypeOK
  <2>2. queue = 1 /\ unpublished = 0 /\ status = "queued" /\ checked = {}
    BY <2>1 DEF Flow
  <2>3. \A v \in Worker : ~Active(v)
    BY <2>2 DEF Flow
  <2>4. status' = "sending" /\ pc' = [pc EXCEPT ![w] = "recover"]
    BY <1>1, <2>2 DEF Claim
  <2>5. queue' = 0 /\ unpublished' = 0 /\ checked' = {}
    BY <1>1, <2>2 DEF Claim
  <2>6. \A v \in Worker : Active(v)' => v = w
    BY <2>3, <2>4 DEF Active, TypeOK
  <2> QED
    BY <2>4, <2>5, <2>6 DEF Flow
<1>2. CASE Finish(w)
  <2>1. Active(w)
    BY <1>2 DEF Finish, Active
  <2>2. unpublished' = 0 /\ queue' = 0 /\ checked' = {}
    BY <1>2, <2>1 DEF Finish, Flow
  <2>3. \A v \in Worker : ~Active(v)'
    BY <1>2, <2>1 DEF Finish, Leave, Flow, Active, TypeOK
  <2> QED
    BY <2>2, <2>3 DEF Flow
<1>3. CASE ~Claim(w) /\ ~Finish(w)
  <2> DEFINE Moves == /\ UNCHANGED <<status, unpublished, queue, checked>>
                      /\ \A v \in Worker : v # w => pc'[v] = pc[v]
                      /\ Active(w)' => Active(w)
  <2>1. Moves
    <3> USE DEF Active, TypeOK
    <3>1. CASE Recover(w)
      BY <3>1 DEF Recover
    <3>2. CASE Load(w)
      BY <3>2 DEF Load
    <3>3. CASE ReadAudience(w)
      BY <3>3 DEF ReadAudience
    <3>4. ASSUME NEW a \in Address, Suppress(w, a)
          PROVE  Moves
      BY <3>4 DEF Suppress
    <3>5. CASE Connect(w)
      BY <3>5 DEF Connect
    <3>6. ASSUME NEW a \in Address, StartRow(w, a)
          PROVE  Moves
      BY <3>6 DEF StartRow
    <3>7. ASSUME NEW a \in Address, NEW got \in {"accepted", "refused", "ambiguous"},
                 Transmit(w, a, got)
          PROVE  Moves
      BY <3>7 DEF Transmit
    <3>8. ASSUME NEW a \in Address, RecordRow(w, a)
          PROVE  Moves
      BY <3>8 DEF RecordRow
    <3>9. CASE ConnectionFails(w)
      BY <3>9 DEF ConnectionFails
    <3>10. CASE Disconnect(w)
      BY <3>10 DEF Disconnect
    <3>11. CASE Count(w)
      BY <3>11 DEF Count
    <3>12. CASE Crash(w)
      BY <3>12 DEF Crash, Leave
    <3> QED
      BY <1>3, <3>1, <3>2, <3>3, <3>4, <3>5, <3>6, <3>7, <3>8, <3>9, <3>10, <3>11, <3>12
      DEF WorkerStep
  <2> QED
    BY <2>1, QuietFlow DEF Active
<1> QED
  BY <1>1, <1>2, <1>3

LEMMA ViewFlow ==
  ASSUME NoOverlap, TypeOK, Flow
  PROVE  /\ \A A \in SUBSET Address, s \in {"scheduled", "queued"} : Create(A, s) => Flow'
         /\ \A r \in Request : (CheckRetry(r) => Flow') /\ (CommitRetry(r) => Flow')
         /\ \A a \in Address : (Unsubscribe(a) => Flow') /\ (OptIn(a) => Flow')
<1> USE DEF brokerVars, workerVars, campaignVars, historyVars, Retryable
<1>0. unpublished \in Nat /\ queue \in Nat
  BY DEF TypeOK
<1>1. ASSUME NEW A \in SUBSET Address, NEW s \in {"scheduled", "queued"}, Create(A, s)
      PROVE  Flow'
  <2>1. /\ unpublished + queue = 0 /\ checked = {} /\ \A w \in Worker : ~Active(w)
    BY <1>0, <1>1 DEF Create, Flow
  <2>2. \A w \in Worker : ~Active(w)'
    BY <1>1, <2>1 DEF Create, Active
  <2>3. /\ checked' = {} /\ status' = s /\ queue' = 0
        /\ unpublished' = IF s = "queued" THEN 1 ELSE 0
    BY <1>0, <1>1, <2>1 DEF Create
  <2> QED
    BY <2>2, <2>3 DEF Flow
<1>2. ASSUME NEW r \in Request, CheckRetry(r)
      PROVE  Flow'
  <2>1. /\ unpublished + queue = 0 /\ status \in Retryable /\ \A w \in Worker : ~Active(w)
    BY <1>0, <1>2 DEF CheckRetry, Flow
  <2>2. \A w \in Worker : ~Active(w)'
    BY <1>2, <2>1 DEF CheckRetry, Active
  <2>3. UNCHANGED <<status, unpublished, queue>>
    BY <1>2 DEF CheckRetry
  <2> QED
    BY <1>0, <2>1, <2>2, <2>3 DEF Flow
<1>3. ASSUME NEW r \in Request, CommitRetry(r)
      PROVE  Flow'
  <2>1. /\ unpublished = 0 /\ queue = 0 /\ \A w \in Worker : ~Active(w)
    BY <1>0, <1>3 DEF CommitRetry, Flow
  <2>2. /\ checked' = {} /\ status' = "queued" /\ queue' = 0 /\ unpublished' = 1
    BY <1>3, <2>1 DEF CommitRetry, NoOverlap, TypeOK
  <2>3. \A w \in Worker : ~Active(w)'
    BY <1>3, <2>1 DEF CommitRetry, Active
  <2> QED
    BY <2>2, <2>3 DEF Flow
<1>4. ASSUME NEW a \in Address, Unsubscribe(a) \/ OptIn(a)
      PROVE  Flow'
  <2>1. UNCHANGED <<status, unpublished, queue, checked, pc>>
    BY <1>4 DEF Unsubscribe, OptIn
  <2> QED
    BY <2>1, QuietFlow DEF Active
<1> QED
  BY <1>1, <1>2, <1>3, <1>4

LEMMA BrokerFlow ==
  ASSUME TypeOK, Flow
  PROVE  /\ \A d \in Dispatcher : (ScanDue(d) => Flow') /\ (DispatchDue(d) => Flow')
         /\ (Publish => Flow') /\ (LosePublish => Flow')
<1> USE DEF brokerVars, workerVars, campaignVars, historyVars, Retryable
<1>0. unpublished \in Nat /\ queue \in Nat
  BY DEF TypeOK
<1>1. ASSUME NEW d \in Dispatcher, ScanDue(d)
      PROVE  Flow'
  <2>1. UNCHANGED <<status, unpublished, queue, checked, pc>>
    BY <1>1 DEF ScanDue
  <2> QED
    BY <2>1, QuietFlow DEF Active
<1>2. ASSUME NEW d \in Dispatcher, DispatchDue(d)
      PROVE  Flow'
  <2>1. CASE status = "scheduled"
    <3>1. unpublished = 0 /\ queue = 0 /\ checked = {} /\ \A w \in Worker : ~Active(w)
      BY <1>0, <2>1 DEF Flow
    <3>2. unpublished' = 1 /\ queue' = 0 /\ checked' = {} /\ status' = "queued"
      BY <1>2, <2>1, <3>1 DEF DispatchDue
    <3>3. \A w \in Worker : ~Active(w)'
      BY <1>2, <3>1 DEF DispatchDue, Active
    <3> QED
      BY <3>2, <3>3 DEF Flow
  <2>2. CASE status # "scheduled"
    <3>1. UNCHANGED <<status, unpublished, queue, checked, pc>>
      BY <1>2, <2>2 DEF DispatchDue
    <3> QED
      BY <3>1, QuietFlow DEF Active
  <2> QED
    BY <2>1, <2>2
<1>3. ASSUME Publish \/ LosePublish
      PROVE  Flow'
  <2>1. /\ unpublished > 0 /\ unpublished' = unpublished - 1
        /\ queue' = queue + 1 \/ queue' = queue
        /\ UNCHANGED <<status, checked, pc>>
    BY <1>3 DEF Publish, LosePublish
  <2>2. unpublished = 1 /\ queue = 0 /\ checked = {} /\ status = "queued"
    BY <1>0, <2>1 DEF Flow
  <2>3. \A w \in Worker : ~Active(w)'
    BY <2>1, <2>2 DEF Flow, Active
  <2> QED
    BY <2>1, <2>2, <2>3 DEF Flow
<1> QED
  BY <1>1, <1>2, <1>3

LEMMA NextFlow == NoOverlap /\ TypeOK /\ Flow /\ [Next]_vars => Flow'
<1> SUFFICES ASSUME NoOverlap, TypeOK, Flow, [Next]_vars
             PROVE  Flow'
  OBVIOUS
<1>1. CASE Next
  BY <1>1, ViewFlow, BrokerFlow, WorkerFlow DEF Next
<1>2. CASE UNCHANGED vars
  <2>1. UNCHANGED <<status, unpublished, queue, checked, pc>>
    BY <1>2 DEF vars, campaignVars, brokerVars, workerVars
  <2> QED
    BY <2>1, QuietFlow DEF Active
<1> QED
  BY <1>1, <1>2

LEMMA FlowCorrect == NoOverlap /\ Spec => []Flow
<1> SUFFICES ASSUME NoOverlap
             PROVE  Spec => []Flow
  OBVIOUS
<1>1. TypeOK /\ Flow /\ [Next]_vars => Flow'
  BY NextFlow
<1> QED
  BY <1>1, InitFlow, TypeCorrect, PTL DEF Spec

(* While retry requests do not overlap, at most one worker delivers the     *)
(* campaign, and no further delivery waits while it does.                   *)
THEOREM SoleSenderCorrect == NoOverlap /\ Spec => []SoleSender
<1>1. Flow => SoleSender
  BY DEF Flow, SoleSender
<1> QED
  BY <1>1, FlowCorrect, PTL

------------------------------------------------------------------------------
(* The rows follow the ledger.                                             *)

Done(a) == row[a] \in {"sent", "suppressed"}

\* What a worker knows of the rows while it delivers.
Knows(w) ==
  /\ pc[w] \notin {"idle", "recover"} => \A a \in recipients : row[a] # "none"
  /\ pc[w] \in {"idle", "recover", "load"} => pending[w] = {} /\ current[w] = {}
  /\ \A a \in pending[w] : row[a] \in {"queued", "failed"}
  /\ \A a \in current[w] : row[a] = "sending"
  /\ pc[w] = "finish" => verdict[w] \in Settled
  /\ pc[w] = "finish" /\ verdict[w] = "sent" => \A a \in recipients : Done(a)

Progress ==
  /\ status = "none" <=> recipients = {}
  /\ \A a \in Address \ recipients : row[a] = "none"
  /\ \A w \in Worker : Knows(w)
  /\ status = "sent" => \A a \in recipients : Done(a)

LEMMA InitProgress == Init => Progress /\ Ledger!Init
  BY DEF Init, Progress, Knows, Done, Ledger!Init, Settlement

LedgerStep == [Ledger!Next]_<<recipients, Settlement, status = "sent">>

\* Steps that touch neither rows nor status.
LEMMA QuietProgress ==
  ASSUME Progress, UNCHANGED <<status, recipients, row, pc, pending, current, verdict>>
  PROVE  Progress' /\ LedgerStep
  BY DEF Progress, Knows, Done, LedgerStep, Settlement

LEMMA ViewProgress ==
  ASSUME TypeOK, Flow, Progress
  PROVE  /\ \A A \in SUBSET Address, s \in {"scheduled", "queued"} :
              Create(A, s) => Progress' /\ LedgerStep
         /\ \A r \in Request : /\ CheckRetry(r) => Progress' /\ LedgerStep
                               /\ CommitRetry(r) => Progress' /\ LedgerStep
         /\ \A a \in Address : /\ Unsubscribe(a) => Progress' /\ LedgerStep
                               /\ OptIn(a) => Progress' /\ LedgerStep
<1> USE DEF brokerVars, workerVars, campaignVars, historyVars
<1>1. ASSUME NEW A \in SUBSET Address, NEW s \in {"scheduled", "queued"}, Create(A, s)
      PROVE  Progress' /\ LedgerStep
  <2>1. /\ recipients = {} /\ recipients' = A /\ A # {}
        /\ status = "none" /\ status' = s /\ row' = SetRows(A, "queued")
        /\ UNCHANGED <<pc, pending, current, verdict>>
    BY <1>1 DEF Create, Progress
  <2>2. \A w \in Worker : pc[w] = "idle"
    BY <2>1 DEF Flow, Active
  <2>3. \A a \in Address : row'[a] = IF a \in A THEN "queued" ELSE "none"
    BY <2>1 DEF Progress, SetRows
  <2>4. Progress'
    BY <2>1, <2>2, <2>3 DEF Progress, Knows
  <2>5. Settlement' = Settlement
    BY <2>1, <2>3 DEF Progress, Settlement
  <2>6. LedgerStep
    BY <2>1, <2>5 DEF LedgerStep, Ledger!Next, Ledger!Announce
  <2> QED
    BY <2>4, <2>6
<1>2. ASSUME NEW r \in Request, CheckRetry(r)
      PROVE  Progress' /\ LedgerStep
  BY <1>2, QuietProgress DEF CheckRetry
<1>3. ASSUME NEW r \in Request, CommitRetry(r)
      PROVE  Progress' /\ LedgerStep
  <2>1. /\ status \in Retryable /\ status' = "queued"
        /\ UNCHANGED <<recipients, row, pc, pending, current, verdict>>
    BY <1>3 DEF CommitRetry, Flow
  <2> QED
    BY <2>1 DEF Progress, Knows, Done, LedgerStep, Settlement, Retryable
<1>4. ASSUME NEW a \in Address, Unsubscribe(a) \/ OptIn(a)
      PROVE  Progress' /\ LedgerStep
  BY <1>4, QuietProgress DEF Unsubscribe, OptIn
<1> QED
  BY <1>1, <1>2, <1>3, <1>4

LEMMA BrokerProgress ==
  ASSUME TypeOK, Progress
  PROVE  /\ \A d \in Dispatcher : /\ ScanDue(d) => Progress' /\ LedgerStep
                                  /\ DispatchDue(d) => Progress' /\ LedgerStep
         /\ Publish => Progress' /\ LedgerStep
         /\ LosePublish => Progress' /\ LedgerStep
<1> USE DEF brokerVars, workerVars, campaignVars, historyVars
<1>1. ASSUME NEW d \in Dispatcher, ScanDue(d)
      PROVE  Progress' /\ LedgerStep
  BY <1>1, QuietProgress DEF ScanDue
<1>2. ASSUME NEW d \in Dispatcher, DispatchDue(d)
      PROVE  Progress' /\ LedgerStep
  <2>1. CASE status = "scheduled"
    <3>1. /\ status' = "queued"
          /\ UNCHANGED <<recipients, row, pc, pending, current, verdict>>
      BY <1>2, <2>1 DEF DispatchDue
    <3> QED
      BY <2>1, <3>1 DEF Progress, Knows, Done, LedgerStep, Settlement
  <2>2. CASE status # "scheduled"
    BY <1>2, <2>2, QuietProgress DEF DispatchDue
  <2> QED
    BY <2>1, <2>2
<1>3. ASSUME Publish \/ LosePublish
      PROVE  Progress' /\ LedgerStep
  BY <1>3, QuietProgress DEF Publish, LosePublish
<1> QED
  BY <1>1, <1>2, <1>3

LEMMA WorkerProgress ==
  ASSUME TypeOK, Flow, Progress, NEW w \in Worker, WorkerStep(w) \/ Crash(w)
  PROVE  Progress' /\ LedgerStep
<1> USE DEF brokerVars, workerVars, campaignVars, historyVars
<1>0. /\ \A v \in Worker \ {w} : Active(w) => pc[v] = "idle"
      /\ Active(w) => status = "sending"
  BY DEF Flow, Active
\* A row that is not settled becomes another unsettled value.
<1>a. ASSUME UNCHANGED <<recipients, status>>,
             row' \in [Address -> RowStatus \cup {"none"}],
             \A a \in Address : Done(a) \/ Done(a)' => row'[a] = row[a]
      PROVE  LedgerStep
  BY <1>a DEF LedgerStep, Settlement, Done
\* One row of the audience is settled.
<1>b. ASSUME UNCHANGED <<recipients, status>>, status = "sending",
             NEW a \in recipients, ~Done(a), Done(a)',
             row' = [row EXCEPT ![a] = row'[a]]
      PROVE  LedgerStep
  <2>1. a \in Address
    BY DEF TypeOK
  <2>2. Settlement' = [Settlement EXCEPT ![a] = row'[a]]
    BY <1>b, <2>1 DEF Settlement, Done, TypeOK
  <2>3. Ledger!Settle(a, row'[a])
    BY <1>b, <2>1, <2>2 DEF Ledger!Settle, Settlement, Done, TypeOK
  <2> QED
    BY <1>b, <2>1, <2>3 DEF LedgerStep, Ledger!Next, Done
\* While w is active it is alone, so only what it knows can change.
<1>c. ASSUME Active(w), UNCHANGED <<recipients, status>>, Knows(w)',
             \A a \in Address \ recipients : row'[a] = "none",
             \A v \in Worker \ {w} : /\ pc'[v] = pc[v] /\ pending'[v] = pending[v]
                                    /\ current'[v] = current[v] /\ verdict'[v] = verdict[v]
      PROVE  Progress'
  <2>1. ASSUME NEW v \in Worker \ {w}
        PROVE  Knows(v)'
    BY <1>0, <1>c DEF Progress, Knows
  <2>2. status' = "sending"
    BY <1>0, <1>c
  <2> QED
    BY <1>c, <2>1, <2>2 DEF Progress
<1>d. ASSUME NEW v \in Worker
      PROVE  Knows(v)
  BY DEF Progress
<1>1. CASE Claim(w)
  <2>1. /\ status # "sent" /\ status # "none" /\ status' = "sending"
        /\ pc[w] = "idle" /\ pc' = [pc EXCEPT ![w] = "recover"]
    BY <1>1 DEF Claim, Flow, TypeOK
  <2> QED
    BY <1>1, <2>1 DEF Claim, Progress, Knows, Done, LedgerStep, Settlement, TypeOK
<1>2. CASE Recover(w)
  <2>1. \A a \in Address : Done(a) \/ Done(a)' => row'[a] = row[a]
    BY <1>2 DEF Recover, Done
  <2>2. row' \in [Address -> RowStatus \cup {"none"}]
    BY <1>2 DEF Recover, TypeOK, RowStatus
  <2>3. \A a \in Address : row'[a] = "none" <=> a \notin recipients
    BY <1>2 DEF Recover, Progress, TypeOK, RowStatus
  <2>4. Knows(w)'
    BY <1>2, <1>d, <2>3 DEF Recover, Knows, TypeOK
  <2>5. Progress'
    BY <1>2, <1>c, <2>3, <2>4 DEF Recover, Active
  <2> QED
    BY <1>2, <1>a, <2>1, <2>2, <2>5 DEF Recover
<1>3. CASE Load(w)
  <2>1. Knows(w)'
    BY <1>3, <1>d DEF Load, Knows, TypeOK, Rows
  <2>2. Progress'
    BY <1>3, <1>c, <2>1 DEF Load, Active, Progress
  <2> QED
    BY <1>3, <1>a, <2>2 DEF Load, Done, TypeOK
<1>4. CASE ReadAudience(w)
  <2>1. Knows(w)'
    BY <1>4, <1>d DEF ReadAudience, Knows, TypeOK, Done
  <2>2. Progress'
    BY <1>4, <1>c, <2>1 DEF ReadAudience, Active, Progress
  <2> QED
    BY <1>4, <1>a, <2>2 DEF ReadAudience, Done, TypeOK
<1>5. ASSUME NEW a \in Address, Suppress(w, a)
      PROVE  Progress' /\ LedgerStep
  <2>1. /\ pc[w] = "suppress" /\ a \in pending[w] /\ row[a] \in {"queued", "failed"}
        /\ row' = [row EXCEPT ![a] = "suppressed"]
        /\ UNCHANGED <<recipients, status>>
    BY <1>5, <1>d DEF Suppress, Knows
  <2>2. a \in recipients
    BY <2>1 DEF Progress
  <2>3. Knows(w)'
    BY <1>5, <1>d, <2>1 DEF Suppress, Knows, TypeOK, Done
  <2>4. Progress'
    BY <1>5, <1>c, <2>1, <2>2, <2>3 DEF Suppress, Active, Progress, TypeOK
  <2>5. LedgerStep
    BY <1>0, <1>b, <2>1, <2>2 DEF Active, Done, TypeOK
  <2> QED
    BY <2>4, <2>5
<1>6. CASE Connect(w)
  <2>1. Knows(w)'
    BY <1>6, <1>d DEF Connect, Knows, TypeOK, Done
  <2>2. Progress'
    BY <1>6, <1>c, <2>1 DEF Connect, Active, Progress
  <2> QED
    BY <1>6, <1>a, <2>2 DEF Connect, Done, TypeOK
<1>7. ASSUME NEW a \in Address, StartRow(w, a)
      PROVE  Progress' /\ LedgerStep
  <2>1. /\ pc[w] = "deliver" /\ a \in pending[w] /\ row[a] \in {"queued", "failed"}
        /\ row' = [row EXCEPT ![a] = "sending"]
        /\ UNCHANGED <<recipients, status, pc, verdict>>
    BY <1>7, <1>d DEF StartRow, Knows
  <2>2. a \in recipients
    BY <2>1 DEF Progress
  <2>3. Knows(w)'
    BY <1>7, <1>d, <2>1 DEF StartRow, Knows, TypeOK, Done
  <2>4. Progress'
    BY <1>7, <1>c, <2>1, <2>2, <2>3 DEF StartRow, Active, Progress, TypeOK
  <2>5. LedgerStep
    BY <1>a, <2>1 DEF Done, TypeOK, RowStatus
  <2> QED
    BY <2>4, <2>5
<1>8. ASSUME NEW a \in Address, NEW got \in {"accepted", "refused", "ambiguous"},
             Transmit(w, a, got)
      PROVE  Progress' /\ LedgerStep
  BY <1>8, QuietProgress DEF Transmit
<1>9. ASSUME NEW a \in Address, RecordRow(w, a)
      PROVE  Progress' /\ LedgerStep
  <2>1. /\ a \in current[w] /\ row[a] = "sending" /\ Active(w)
        /\ UNCHANGED <<recipients, status, pc, pending, verdict>>
        /\ current' = [current EXCEPT ![w] = {}]
    BY <1>9, <1>d DEF RecordRow, Knows, Active
  <2>2. row' = [row EXCEPT ![a] = "sent"] \/ row' = [row EXCEPT ![a] = "failed"]
    BY <1>9 DEF RecordRow
  <2>3. a \in recipients
    BY <2>1 DEF Progress
  <2>4. Knows(w)'
    BY <1>d, <2>1, <2>2 DEF Knows, TypeOK, Done
  <2>5. Progress'
    BY <1>c, <2>1, <2>2, <2>3, <2>4 DEF Progress, TypeOK
  <2>6. LedgerStep
    <3>1. CASE row' = [row EXCEPT ![a] = "sent"]
      BY <1>0, <1>b, <2>1, <2>3, <3>1 DEF Done, TypeOK
    <3>2. CASE row' = [row EXCEPT ![a] = "failed"]
      BY <1>a, <2>1, <3>2 DEF Done, TypeOK, RowStatus
    <3> QED
      BY <2>2, <3>1, <3>2
  <2> QED
    BY <2>5, <2>6
<1>10. CASE ConnectionFails(w)
  <2>1. /\ pc[w] = "deliver" /\ pc' = [pc EXCEPT ![w] = "count"]
        /\ pending' = [pending EXCEPT ![w] = {}] /\ current' = [current EXCEPT ![w] = {}]
        /\ UNCHANGED <<recipients, status, verdict>>
    BY <1>10 DEF ConnectionFails
  <2>2. \A a \in Address : row'[a] = IF row[a] \in {"queued", "sending"} THEN "failed" ELSE row[a]
    BY <1>10 DEF ConnectionFails, SetRows, Rows
  <2>3. row' \in [Address -> RowStatus \cup {"none"}]
    BY <1>10 DEF ConnectionFails, SetRows, TypeOK, RowStatus
  <2>4. Knows(w)'
    BY <1>d, <2>1, <2>2 DEF Knows, TypeOK
  <2>5. Progress'
    BY <1>c, <2>1, <2>2, <2>4 DEF Active, Progress
  <2>6. LedgerStep
    BY <1>a, <2>1, <2>2, <2>3 DEF Done
  <2> QED
    BY <2>5, <2>6
<1>11. CASE Disconnect(w)
  <2>1. Knows(w)'
    BY <1>11, <1>d DEF Disconnect, Knows, TypeOK, Done
  <2>2. Progress'
    BY <1>11, <1>c, <2>1 DEF Disconnect, Active, Progress
  <2> QED
    BY <1>11, <1>a, <2>2 DEF Disconnect, Done, TypeOK
<1>12. CASE Count(w)
  <2>1. /\ pc[w] = "count" /\ pc' = [pc EXCEPT ![w] = "finish"]
        /\ verdict' = [verdict EXCEPT ![w] = Outcome]
        /\ UNCHANGED <<recipients, status, row, pending, current>>
    BY <1>12 DEF Count
  <2>2. Outcome = "sent" => \A a \in recipients : Done(a)
    <3>1. Outcome = "sent" => Rows(RowStatus) = Rows({"sent", "suppressed"})
      BY DEF Outcome
    <3> QED
      BY <1>d, <2>1, <3>1 DEF Rows, Knows, Done, TypeOK
  <2>3. Knows(w)'
    BY <1>d, <2>1, <2>2, OutcomeType DEF Knows, TypeOK, Done
  <2>4. Progress'
    BY <1>c, <2>1, <2>3 DEF Active, Progress
  <2> QED
    BY <1>a, <2>1, <2>4 DEF Done, TypeOK
<1>13. CASE Finish(w)
  <2>1. /\ pc[w] = "finish" /\ verdict[w] \in Settled /\ status = "sending"
        /\ status' = verdict[w]
        /\ UNCHANGED <<recipients, row>>
    BY <1>0, <1>13, <1>d DEF Finish, Knows, Active
  <2>2. status' = "sent" => \A a \in recipients : Done(a)
    BY <1>d, <2>1 DEF Knows
  <2>3. \A v \in Worker : Knows(v)'
    BY <1>13, <1>d, <1>0, <2>1 DEF Finish, Leave, Knows, TypeOK, Active
  <2>4. Progress'
    BY <2>1, <2>2, <2>3 DEF Progress, Done, Settled
  <2>5. LedgerStep
    <3>1. CASE status' = "sent"
      <4>1. recipients # {} /\ recipients \subseteq Address
        BY <2>1 DEF Progress, TypeOK
      <4>2. Ledger!Complete
        BY <2>1, <2>2, <3>1, <4>1 DEF Ledger!Complete, Settlement, Done
      <4> QED
        BY <4>2 DEF LedgerStep, Ledger!Next
    <3>2. CASE status' # "sent"
      BY <2>1, <3>2 DEF LedgerStep, Settlement
    <3> QED
      BY <3>1, <3>2
  <2> QED
    BY <2>4, <2>5
<1>14. CASE Crash(w)
  <2>1. UNCHANGED <<recipients, status, row>> /\ Active(w)
    BY <1>14 DEF Crash
  <2>2. Knows(w)'
    BY <1>14, <1>d DEF Crash, Leave, Knows, TypeOK
  <2>3. Progress'
    BY <1>14, <1>c, <2>1, <2>2 DEF Crash, Leave, Progress, TypeOK
  <2> QED
    BY <2>1, <2>3 DEF LedgerStep, Settlement
<1> QED
  BY <1>1, <1>2, <1>3, <1>4, <1>5, <1>6, <1>7, <1>8, <1>9, <1>10, <1>11, <1>12, <1>13, <1>14
  DEF WorkerStep

LEMMA NextProgress == TypeOK /\ Flow /\ Progress /\ [Next]_vars => Progress' /\ LedgerStep
<1> SUFFICES ASSUME TypeOK, Flow, Progress, [Next]_vars
             PROVE  Progress' /\ LedgerStep
  OBVIOUS
<1>1. CASE Next
  BY <1>1, ViewProgress, BrokerProgress, WorkerProgress DEF Next
<1>2. CASE UNCHANGED vars
  BY <1>2, QuietProgress DEF vars, campaignVars, workerVars
<1> QED
  BY <1>1, <1>2

(* While retry requests do not overlap, the rows and the status of a        *)
(* campaign implement the ledger: no settled row is ever unsettled, and     *)
(* "sent" is reported only, and for good, when no recipient is open.        *)
THEOREM ImplementsLedgerCorrect == NoOverlap /\ Spec => ImplementsLedger
<1>1. TypeOK /\ Flow /\ Progress /\ [Next]_vars => Progress' /\ LedgerStep
  BY NextProgress
<1> QED
  BY <1>1, InitProgress, TypeCorrect, FlowCorrect, PTL
  DEF Spec, ImplementsLedger, Ledger!Spec, LedgerStep

------------------------------------------------------------------------------
(* Who is mailed.                                                          *)

\* A worker mails only from its audience, which holds nobody withheld.
Respects(w) ==
  /\ withheld[w] \cap OptedIn = {}
  /\ pc[w] \in {"suppress", "deliver"} => optedIn[w] \cap withheld[w] = {}
  /\ pc[w] = "deliver" => pending[w] \cup current[w] \subseteq optedIn[w]
  /\ pc[w] # "deliver" => current[w] = {}

Respect == \A w \in Worker : Respects(w)

LEMMA InitRespect == Init => Respect
  BY DEF Init, Respect, Respects

\* What a step of one worker leaves of another.
LEMMA OtherRespects ==
  ASSUME NEW v \in Worker, Respects(v), UNCHANGED leads,
         pc'[v] = pc[v], pending'[v] = pending[v], optedIn'[v] = optedIn[v],
         current'[v] = current[v], withheld'[v] = withheld[v]
  PROVE  Respects(v)'
  BY DEF Respects, OptedIn

LEMMA WorkerRespect ==
  ASSUME TypeOK, Respect, NEW w \in Worker, WorkerStep(w) \/ Crash(w)
  PROVE  Respect'
<1> USE DEF brokerVars, workerVars, campaignVars, historyVars, TypeOK
<1>1. UNCHANGED leads /\ Respects(w)
  BY DEF Respect, WorkerStep, Claim, Recover, Load, ReadAudience, Suppress, Connect, StartRow,
         Transmit, RecordRow, ConnectionFails, Disconnect, Count, Finish, Crash
<1>2. ASSUME NEW v \in Worker, v # w
      PROVE  /\ pc'[v] = pc[v] /\ pending'[v] = pending[v] /\ optedIn'[v] = optedIn[v]
             /\ current'[v] = current[v] /\ withheld'[v] = withheld[v]
  <2>1. CASE Claim(w)
    BY <1>2, <2>1 DEF Claim
  <2>2. CASE Recover(w) \/ Load(w) \/ ReadAudience(w) \/ Connect(w) \/ Disconnect(w) \/ Count(w)
    BY <1>2, <2>2 DEF Recover, Load, ReadAudience, Connect, Disconnect, Count
  <2>3. CASE \E a \in Address : Suppress(w, a) \/ StartRow(w, a) \/ RecordRow(w, a)
    BY <1>2, <2>3 DEF Suppress, StartRow, RecordRow
  <2>4. CASE \E a \in Address, got \in {"accepted", "refused", "ambiguous"} : Transmit(w, a, got)
    BY <1>2, <2>4 DEF Transmit
  <2>5. CASE ConnectionFails(w)
    BY <1>2, <2>5 DEF ConnectionFails
  <2>6. CASE Finish(w) \/ Crash(w)
    BY <1>2, <2>6 DEF Finish, Crash, Leave
  <2> QED
    BY <2>1, <2>2, <2>3, <2>4, <2>5, <2>6 DEF WorkerStep
<1>3. OptedIn' = OptedIn /\ OptedIn \subseteq Address
  BY <1>1 DEF OptedIn
<1>4. Respects(w)'
  <2>1. CASE Claim(w)
    <3>1. CASE pc' = [pc EXCEPT ![w] = "recover"] /\ withheld' = [withheld EXCEPT ![w] = Address \ OptedIn]
      BY <1>1, <1>3, <2>1, <3>1 DEF Claim, Respects
    <3>2. CASE UNCHANGED <<pc, withheld>>
      BY <1>1, <1>3, <2>1, <3>2 DEF Claim, Respects
    <3> QED
      BY <2>1, <3>1, <3>2 DEF Claim
  <2>2. CASE Recover(w) \/ Load(w) \/ Count(w) \/ Disconnect(w)
    BY <1>1, <1>3, <2>2 DEF Recover, Load, Count, Disconnect, Respects
  <2>3. CASE ReadAudience(w)
    BY <1>1, <1>3, <2>3 DEF ReadAudience, Respects
  <2>4. CASE Connect(w)
    BY <1>1, <1>3, <2>4 DEF Connect, Respects
  <2>5. ASSUME NEW a \in Address, Suppress(w, a)
        PROVE  Respects(w)'
    BY <1>1, <1>3, <2>5 DEF Suppress, Respects
  <2>6. ASSUME NEW a \in Address, StartRow(w, a)
        PROVE  Respects(w)'
    BY <1>1, <1>3, <2>6 DEF StartRow, Respects
  <2>7. ASSUME NEW a \in Address, RecordRow(w, a)
        PROVE  Respects(w)'
    BY <1>1, <1>3, <2>7 DEF RecordRow, Respects
  <2>8. ASSUME NEW a \in Address, NEW got \in {"accepted", "refused", "ambiguous"},
               Transmit(w, a, got)
        PROVE  Respects(w)'
    BY <1>1, <1>3, <2>8 DEF Transmit, Respects
  <2>9. CASE ConnectionFails(w)
    BY <1>1, <1>3, <2>9 DEF ConnectionFails, Respects
  <2>10. CASE Finish(w) \/ Crash(w)
    BY <1>1, <1>3, <2>10 DEF Finish, Crash, Leave, Respects
  <2> QED
    BY <2>1, <2>2, <2>3, <2>4, <2>5, <2>6, <2>7, <2>8, <2>9, <2>10 DEF WorkerStep
<1>5. ASSUME NEW v \in Worker, v # w
      PROVE  Respects(v)'
  <2>1. Respects(v)
    BY DEF Respect
  <2> HIDE DEF TypeOK
  <2> QED
    BY <1>1, <1>2, <1>5, <2>1, OtherRespects
<1> QED
  BY <1>4, <1>5 DEF Respect

LEMMA NextRespect == TypeOK /\ Respect /\ [Next]_vars => Respect'
<1> SUFFICES ASSUME TypeOK, Respect, [Next]_vars
             PROVE  Respect'
  OBVIOUS
<1> USE DEF brokerVars, workerVars, campaignVars, historyVars
<1>1. ASSUME NEW w \in Worker, WorkerStep(w) \/ Crash(w)
      PROVE  Respect'
  BY <1>1, WorkerRespect
<1>2. ASSUME NEW a \in Address, Unsubscribe(a)
      PROVE  Respect'
  <2>1. OptedIn' \subseteq OptedIn
    BY <1>2 DEF Unsubscribe, OptedIn, TypeOK
  <2> QED
    BY <1>2, <2>1 DEF Unsubscribe, Respect, Respects
<1>3. ASSUME NEW a \in Address, OptIn(a)
      PROVE  Respect'
  <2>1. OptedIn' = OptedIn \cup {a}
    BY <1>3 DEF OptIn, OptedIn, TypeOK
  <2>2. \A w \in Worker : withheld'[w] = withheld[w] \ {a}
    BY <1>3 DEF OptIn
  <2> QED
    BY <1>3, <2>1, <2>2 DEF OptIn, Respect, Respects
<1>4. ASSUME UNCHANGED <<leads, pc, pending, optedIn, current, withheld>>
      PROVE  Respect'
  BY <1>4 DEF Respect, Respects, OptedIn
<1>5. CASE UNCHANGED vars
  BY <1>4, <1>5 DEF vars
<1>6. ASSUME NEW A \in SUBSET Address, NEW s \in {"scheduled", "queued"}, Create(A, s)
      PROVE  Respect'
  BY <1>4, <1>6 DEF Create
<1>7. ASSUME NEW r \in Request, CheckRetry(r) \/ CommitRetry(r)
      PROVE  Respect'
  BY <1>4, <1>7 DEF CheckRetry, CommitRetry
<1>8. ASSUME NEW d \in Dispatcher, ScanDue(d) \/ DispatchDue(d)
      PROVE  Respect'
  BY <1>4, <1>8 DEF ScanDue, DispatchDue
<1>9. CASE Publish \/ LosePublish
  BY <1>4, <1>9 DEF Publish, LosePublish
<1> QED
  BY <1>1, <1>2, <1>3, <1>5, <1>6, <1>7, <1>8, <1>9 DEF Next

(* Whatever retries, dispatches and crashes overlap, and however often      *)
(* people opt out and in, a delivery mails nobody who has been opted out    *)
(* ever since it began.                                                     *)
THEOREM OptOutHonouredCorrect == Spec => OptOutHonoured
<1>1. TypeOK /\ Respect /\ [Next]_vars =>
        [\A w \in Worker, a \in Address :
           delivered'[a] # delivered[a] /\ current[w] = {a} => a \notin withheld[w]]_vars
  BY DEF Respect, Respects
<1>2. TypeOK /\ Respect /\ [Next]_vars => Respect'
  BY NextRespect
<1> QED
  BY <1>1, <1>2, InitRespect, TypeCorrect, PTL DEF Spec, OptOutHonoured

------------------------------------------------------------------------------
(* Who is mailed twice.                                                    *)

\* The provider took the message for a, and the row is not saved yet.
Unsaved(a) == \E w \in Worker : current[w] = {a} /\ answer[w] = "accepted"

\* A delivered address is on record as sent or about to be, so it is not
\* among the rows of a retry.
Tallied(a) == delivered[a] = 0 \/ (delivered[a] = 1 /\ (row[a] = "sent" \/ Unsaved(a)))

Harmless == faults \cap {"crash", "ambiguous"} = {}

Tally == Harmless => \A a \in Address : Tallied(a)

LEMMA InitTally == Init => Tally
  BY DEF Init, Tally, Tallied

\* A sent row stays sent, and what is unsaved stays so.
LEMMA KeptTally ==
  ASSUME TypeOK, Tally, Harmless' => Harmless, UNCHANGED delivered,
         \A a \in Address : row[a] = "sent" => row'[a] = "sent",
         \A v \in Worker : answer[v] = "accepted" /\ current[v] # {} =>
            answer'[v] = "accepted" /\ current'[v] = current[v]
  PROVE  Tally'
<1> SUFFICES ASSUME Harmless', NEW a \in Address
             PROVE  Tallied(a)'
  BY DEF Tally
<1>1. Tallied(a)
  BY DEF Tally
<1>2. Unsaved(a) => Unsaved(a)'
  BY DEF Unsaved
<1> QED
  BY <1>1, <1>2 DEF Tallied

LEMMA WorkerTally ==
  ASSUME TypeOK, Flow, Progress, Respect, Tally, NEW w \in Worker, WorkerStep(w) \/ Crash(w)
  PROVE  Tally'
<1> USE DEF brokerVars, workerVars, campaignVars, historyVars
<1>0. \A v \in Worker : Knows(v) /\ Respects(v)
  BY DEF Progress, Respect
<1>a. \A v \in Worker : current[v] # {} => pc[v] = "deliver"
  BY <1>0 DEF Respects
<1>b. \A v \in Worker : current[v] # {} /\ Active(w) => v = w
  BY <1>a DEF Flow, Active
<1>1. CASE Claim(w)
  BY <1>1, KeptTally DEF Claim, Harmless
<1>2. CASE Recover(w)
  <2>1. \A a \in Address : row[a] = "sent" => row'[a] = "sent"
    BY <1>2 DEF Recover
  <2> QED
    BY <1>2, <2>1, KeptTally DEF Recover, Harmless
<1>3. CASE Load(w) \/ ReadAudience(w) \/ Connect(w) \/ Disconnect(w) \/ Count(w)
  BY <1>3, KeptTally DEF Load, ReadAudience, Connect, Disconnect, Count, Harmless
<1>4. ASSUME NEW a \in Address, Suppress(w, a)
      PROVE  Tally'
  <2>1. row[a] # "sent"
    BY <1>0, <1>4 DEF Suppress, Knows
  <2>2. \A b \in Address : row[b] = "sent" => row'[b] = "sent"
    BY <1>4, <2>1 DEF Suppress, TypeOK
  <2> QED
    BY <1>4, <2>2, KeptTally DEF Suppress, Harmless
<1>5. ASSUME NEW a \in Address, StartRow(w, a)
      PROVE  Tally'
  <2>1. row[a] # "sent"
    BY <1>0, <1>5 DEF StartRow, Knows
  <2>2. \A b \in Address : row[b] = "sent" => row'[b] = "sent"
    BY <1>5, <2>1 DEF StartRow, TypeOK
  <2>3. \A v \in Worker : current[v] # {} => current'[v] = current[v]
    BY <1>5 DEF StartRow, TypeOK
  <2> QED
    BY <1>5, <2>2, <2>3, KeptTally DEF StartRow, Harmless
<1>6. ASSUME NEW a \in Address, NEW got \in {"accepted", "refused", "ambiguous"},
             Transmit(w, a, got)
      PROVE  Tally'
  <2>0. /\ current[w] = {a} /\ answer[w] = "none"
        /\ answer' = [answer EXCEPT ![w] = IF got = "accepted" THEN "accepted" ELSE "refused"]
        /\ delivered' = IF got = "refused" \/ delivered[a] = 2 THEN delivered
                        ELSE [delivered EXCEPT ![a] = @ + 1]
        /\ faults' = IF got = "ambiguous" THEN faults \cup {"ambiguous"} ELSE faults
        /\ UNCHANGED <<row, current>>
    BY <1>6 DEF Transmit
  <2>1. \A v \in Worker : answer[v] = "accepted" => answer'[v] = "accepted"
    BY <2>0 DEF TypeOK
  <2>2. CASE got = "refused"
    BY <2>0, <2>1, <2>2, KeptTally DEF Harmless
  <2>3. CASE got = "ambiguous"
    BY <2>0, <2>3 DEF Tally, Harmless
  <2>4. CASE got = "accepted"
    <3> SUFFICES ASSUME Harmless', NEW b \in Address
                 PROVE  Tallied(b)'
      BY DEF Tally
    <3>1. \A c \in Address : Tallied(c)
      BY <2>0, <2>4 DEF Tally, Harmless
    <3>2. CASE b = a
      <4>1. row[a] = "sending" /\ Active(w)
        BY <1>0, <1>a, <2>0 DEF Knows, Active
      <4>2. ~Unsaved(a)
        BY <1>b, <2>0, <4>1 DEF Unsaved
      <4>3. delivered[a] = 0
        BY <3>1, <4>1, <4>2 DEF Tallied
      <4>4. delivered'[a] = 1
        BY <2>0, <2>4, <4>3 DEF TypeOK
      <4>5. answer'[w] = "accepted" /\ current'[w] = {a}
        BY <2>0, <2>4 DEF TypeOK
      <4> QED
        BY <3>2, <4>4, <4>5 DEF Tallied, Unsaved
    <3>3. CASE b # a
      <4>1. delivered'[b] = delivered[b] /\ row'[b] = row[b]
        BY <2>0, <3>3 DEF TypeOK
      <4>2. Unsaved(b) => Unsaved(b)'
        BY <2>0, <2>1 DEF Unsaved
      <4> QED
        BY <3>1, <4>1, <4>2 DEF Tallied
    <3> QED
      BY <3>2, <3>3
  <2> QED
    BY <2>2, <2>3, <2>4
<1>7. ASSUME NEW a \in Address, RecordRow(w, a)
      PROVE  Tally'
  <2>0. /\ current[w] = {a} /\ Active(w) /\ row[a] = "sending"
        /\ row' = [row EXCEPT ![a] = IF answer[w] = "accepted" THEN "sent" ELSE "failed"]
        /\ current' = [current EXCEPT ![w] = {}]
        /\ answer' = [answer EXCEPT ![w] = "none"]
        /\ UNCHANGED <<delivered, faults>>
    BY <1>0, <1>a, <1>7 DEF RecordRow, Active, Knows
  <2> SUFFICES ASSUME Harmless', NEW b \in Address
               PROVE  Tallied(b)'
    BY DEF Tally
  <2>1. Tallied(b)
    BY <2>0 DEF Tally, Harmless
  <2>2. delivered'[b] = delivered[b]
    BY <2>0
  <2>3. CASE b = a
    <3>1. Unsaved(a) => row'[a] = "sent"
      BY <1>b, <2>0 DEF Unsaved, TypeOK
    <3> QED
      BY <2>0, <2>1, <2>2, <2>3, <3>1 DEF Tallied
  <2>4. CASE b # a
    <3>1. ~Unsaved(b)
      BY <1>b, <2>0, <2>4 DEF Unsaved
    <3>2. row'[b] = row[b]
      BY <2>0, <2>4 DEF TypeOK
    <3> QED
      BY <2>1, <2>2, <3>1, <3>2 DEF Tallied
  <2> QED
    BY <2>3, <2>4
<1>8. CASE ConnectionFails(w)
  <2>0. /\ current[w] = {} \/ answer[w] # "none"
        /\ row' = SetRows(Rows({"queued", "sending"}), "failed")
        /\ current' = [current EXCEPT ![w] = {}]
        /\ answer' = [answer EXCEPT ![w] = "none"]
        /\ faults' = IF answer[w] = "accepted" THEN faults \cup {"ambiguous"} ELSE faults
        /\ UNCHANGED delivered
    BY <1>8 DEF ConnectionFails
  <2>1. \A b \in Address : row[b] = "sent" => row'[b] = "sent"
    BY <2>0 DEF SetRows, Rows
  <2>2. CASE answer[w] = "accepted"
    BY <2>0, <2>2 DEF Tally, Harmless
  <2>3. CASE answer[w] # "accepted"
    BY <2>0, <2>1, <2>3, KeptTally DEF Harmless, TypeOK
  <2> QED
    BY <2>2, <2>3
<1>9. CASE Finish(w)
  <2>1. current[w] = {}
    BY <1>a, <1>9 DEF Finish
  <2> QED
    BY <1>9, <2>1, KeptTally DEF Finish, Leave, Harmless, TypeOK
<1>10. CASE Crash(w)
  BY <1>10 DEF Crash, Tally, Harmless
<1> QED
  BY <1>1, <1>2, <1>3, <1>4, <1>5, <1>6, <1>7, <1>8, <1>9, <1>10 DEF WorkerStep

LEMMA NextTally == TypeOK /\ Flow /\ Progress /\ Respect /\ Tally /\ [Next]_vars => Tally'
<1> SUFFICES ASSUME TypeOK, Flow, Progress, Respect, Tally, [Next]_vars
             PROVE  Tally'
  OBVIOUS
<1> USE DEF brokerVars, workerVars, campaignVars, historyVars
<1>1. ASSUME NEW w \in Worker, WorkerStep(w) \/ Crash(w)
      PROVE  Tally'
  BY <1>1, WorkerTally
<1>2. ASSUME UNCHANGED <<row, current, answer, delivered>>, Harmless' => Harmless
      PROVE  Tally'
  BY <1>2, KeptTally
<1>3. CASE UNCHANGED vars
  BY <1>2, <1>3 DEF vars, Harmless
<1>4. ASSUME NEW A \in SUBSET Address, NEW s \in {"scheduled", "queued"}, Create(A, s)
      PROVE  Tally'
  <2>1. \A a \in Address : row[a] = "none"
    BY <1>4 DEF Create, Progress
  <2> QED
    BY <1>4, <2>1, KeptTally DEF Create, Harmless
<1>5. ASSUME NEW r \in Request, CheckRetry(r) \/ CommitRetry(r)
      PROVE  Tally'
  BY <1>2, <1>5 DEF CheckRetry, CommitRetry, Harmless
<1>6. ASSUME NEW a \in Address, Unsubscribe(a) \/ OptIn(a)
      PROVE  Tally'
  BY <1>2, <1>6 DEF Unsubscribe, OptIn, Harmless
<1>7. ASSUME NEW d \in Dispatcher, ScanDue(d) \/ DispatchDue(d)
      PROVE  Tally'
  BY <1>2, <1>7 DEF ScanDue, DispatchDue, Harmless
<1>8. CASE Publish
  BY <1>2, <1>8 DEF Publish, Harmless
<1>9. CASE LosePublish
  BY <1>2, <1>9 DEF LosePublish, Harmless
<1> QED
  BY <1>1, <1>3, <1>4, <1>5, <1>6, <1>7, <1>8, <1>9 DEF Next

(* While retry requests do not overlap, any number of retries, dispatches   *)
(* and lost messages mail nobody twice, unless a worker died in the         *)
(* delivery or the provider's answer was lost.                              *)
THEOREM DuplicateNeedsFaultCorrect == NoOverlap /\ Spec => []DuplicateNeedsFault
<1> SUFFICES ASSUME NoOverlap
             PROVE  Spec => []DuplicateNeedsFault
  OBVIOUS
<1>1. TypeOK /\ Flow /\ Progress /\ [Next]_vars => Progress'
  BY NextProgress
<1>2. TypeOK /\ Respect /\ [Next]_vars => Respect'
  BY NextRespect
<1>3. TypeOK /\ Flow /\ Progress /\ Respect /\ Tally /\ [Next]_vars => Tally'
  BY NextTally
<1>4. Init => Progress
  BY InitProgress
<1>5. Tally => DuplicateNeedsFault
  BY DEF Tally, Tallied, Harmless, DuplicateNeedsFault
<1>6. Spec => []Flow
  BY FlowCorrect
<1> QED
  BY <1>1, <1>2, <1>3, <1>4, <1>5, <1>6, InitRespect, InitTally, TypeCorrect, PTL DEF Spec

(* What the retry button promises, kept while retry requests do not         *)
(* overlap: a delivery mails no recipient whose row says sent.  (What       *)
(* happens where they do is in EmailCampaignRetryRace.cfg.)                 *)
THEOREM RetrySkipsSentCorrect == NoOverlap /\ Spec => RetrySkipsSent
<1> SUFFICES ASSUME NoOverlap
             PROVE  Spec => RetrySkipsSent
  OBVIOUS
<1>1. TypeOK /\ Flow /\ Progress /\ [Next]_vars => Progress'
  BY NextProgress
<1>2. Init => Progress
  BY InitProgress
<1>3. TypeOK /\ Progress /\ [Next]_vars =>
        [\A a \in Address : row[a] = "sent" => delivered'[a] = delivered[a]]_vars
  <2> SUFFICES ASSUME TypeOK, Progress, Next, NEW a \in Address, row[a] = "sent"
               PROVE  delivered'[a] = delivered[a]
    OBVIOUS
  <2> USE DEF historyVars
  <2>1. CASE UNCHANGED delivered
    BY <2>1
  <2>2. ASSUME NEW w \in Worker, NEW b \in Address,
               NEW got \in {"accepted", "refused", "ambiguous"}, Transmit(w, b, got)
        PROVE  delivered'[a] = delivered[a]
    <3>1. row[b] = "sending"
      BY <2>2 DEF Transmit, Progress, Knows
    <3> QED
      BY <2>2, <3>1 DEF Transmit, TypeOK
  <2> QED
    BY <2>1, <2>2
    DEF Next, WorkerStep, Create, CheckRetry, CommitRetry, Unsubscribe, OptIn, ScanDue,
        DispatchDue, Publish, LosePublish, Crash, Claim, Recover, Load, ReadAudience, Suppress,
        Connect, StartRow, RecordRow, ConnectionFails, Disconnect, Count, Finish
<1>4. Spec => []Flow
  BY FlowCorrect
<1> QED
  BY <1>1, <1>2, <1>3, <1>4, TypeCorrect, PTL DEF Spec, RetrySkipsSent

------------------------------------------------------------------------------
(* Which rows are left behind.                                             *)

\* Unless a worker has crashed, every row in "sending" has a worker at it.
Attended ==
  "crash" \notin faults =>
    \A a \in Address : row[a] = "sending" => \E w \in Worker : current[w] = {a}

\* Where nobody delivers and a row still says "sending", somebody crashed.
AbandonedNeedsCrash ==
  Rows({"sending"}) # {} /\ (\A w \in Worker : ~Active(w)) => "crash" \in faults

\* A step that sets no row to "sending" and takes no worker from its row.
LEMMA KeptAttended ==
  ASSUME Attended, "crash" \in faults => "crash" \in faults',
         \A a \in Address : row'[a] = "sending" => row[a] = "sending",
         \A a \in Address, v \in Worker :
            row'[a] = "sending" /\ current[v] = {a} => current'[v] = {a}
  PROVE  Attended'
  BY DEF Attended

LEMMA WorkerAttended ==
  ASSUME TypeOK, Respect, Attended, NEW w \in Worker, WorkerStep(w) \/ Crash(w)
  PROVE  Attended'
<1> USE DEF campaignVars, brokerVars, workerVars, historyVars
<1>1. CASE Claim(w) \/ Load(w) \/ ReadAudience(w) \/ Connect(w) \/ Disconnect(w) \/ Count(w)
  BY <1>1, KeptAttended DEF Claim, Load, ReadAudience, Connect, Disconnect, Count
<1>2. CASE Recover(w)
  <2>1. \A a \in Address : row'[a] # "sending"
    BY <1>2 DEF Recover, TypeOK
  <2> QED
    BY <2>1 DEF Attended
<1>3. ASSUME NEW a \in Address, Suppress(w, a)
      PROVE  Attended'
  <2>1. row'[a] = "suppressed" /\ \A b \in Address : b # a => row'[b] = row[b]
    BY <1>3 DEF Suppress, TypeOK
  <2> QED
    BY <1>3, <2>1, KeptAttended DEF Suppress
<1>4. ASSUME NEW a \in Address, StartRow(w, a)
      PROVE  Attended'
  <2>1. /\ current[w] = {} /\ current'[w] = {a} /\ faults' = faults
        /\ \A v \in Worker : v # w => current'[v] = current[v]
        /\ \A b \in Address : b # a => row'[b] = row[b]
    BY <1>4 DEF StartRow, TypeOK
  <2> QED
    BY <2>1 DEF Attended
<1>5. ASSUME NEW a \in Address, NEW got \in {"accepted", "refused", "ambiguous"},
             Transmit(w, a, got)
      PROVE  Attended'
  BY <1>5, KeptAttended DEF Transmit
<1>6. ASSUME NEW a \in Address, RecordRow(w, a)
      PROVE  Attended'
  <2>1. /\ row'[a] \in {"sent", "failed"} /\ \A b \in Address : b # a => row'[b] = row[b]
        /\ current[w] = {a} /\ \A v \in Worker : v # w => current'[v] = current[v]
        /\ faults' = faults
    BY <1>6 DEF RecordRow, TypeOK
  <2> QED
    BY <2>1, KeptAttended
<1>7. CASE ConnectionFails(w)
  <2>1. \A a \in Address : row'[a] # "sending"
    BY <1>7 DEF ConnectionFails, SetRows, Rows, TypeOK
  <2> QED
    BY <2>1 DEF Attended
<1>8. CASE Finish(w)
  <2>1. /\ current[w] = {} /\ \A v \in Worker : v # w => current'[v] = current[v]
        /\ UNCHANGED <<row, faults>>
    BY <1>8 DEF Finish, Leave, Respect, Respects, TypeOK
  <2> QED
    BY <2>1, KeptAttended
<1>9. CASE Crash(w)
  BY <1>9 DEF Crash, Attended
<1> QED
  BY <1>1, <1>2, <1>3, <1>4, <1>5, <1>6, <1>7, <1>8, <1>9 DEF WorkerStep

LEMMA NextAttended == TypeOK /\ Respect /\ Attended /\ [Next]_vars => Attended'
<1> SUFFICES ASSUME TypeOK, Respect, Attended, [Next]_vars
             PROVE  Attended'
  OBVIOUS
<1> USE DEF campaignVars, brokerVars, workerVars, historyVars
<1>1. ASSUME NEW w \in Worker, WorkerStep(w) \/ Crash(w)
      PROVE  Attended'
  BY <1>1, WorkerAttended
<1>2. ASSUME NEW A \in SUBSET Address, NEW s \in {"scheduled", "queued"}, Create(A, s)
      PROVE  Attended'
  BY <1>2, KeptAttended DEF Create, SetRows
<1>3. ASSUME UNCHANGED <<row, current>>, "crash" \in faults => "crash" \in faults'
      PROVE  Attended'
  BY <1>3, KeptAttended
<1>4. CASE UNCHANGED vars
  BY <1>3, <1>4 DEF vars
<1>5. ASSUME NEW r \in Request, CheckRetry(r) \/ CommitRetry(r)
      PROVE  Attended'
  BY <1>3, <1>5 DEF CheckRetry, CommitRetry
<1>6. ASSUME NEW a \in Address, Unsubscribe(a) \/ OptIn(a)
      PROVE  Attended'
  BY <1>3, <1>6 DEF Unsubscribe, OptIn
<1>7. ASSUME NEW d \in Dispatcher, ScanDue(d) \/ DispatchDue(d)
      PROVE  Attended'
  BY <1>3, <1>7 DEF ScanDue, DispatchDue
<1>8. CASE Publish \/ LosePublish
  BY <1>3, <1>8 DEF Publish, LosePublish
<1> QED
  BY <1>1, <1>2, <1>4, <1>5, <1>6, <1>7, <1>8 DEF Next

(* An interruption that is handled (a refused message, a failed connection, *)
(* attachment or save) leaves no row in "sending", whatever retries         *)
(* overlap: the stuck rows of EmailCampaignCrash.cfg need a worker's death. *)
THEOREM AbandonedNeedsCrashCorrect == Spec => []AbandonedNeedsCrash
<1>1. Init => Attended
  BY DEF Init, Attended
<1>2. TypeOK /\ Respect /\ [Next]_vars => Respect'
  BY NextRespect
<1>3. TypeOK /\ Respect /\ Attended /\ [Next]_vars => Attended'
  BY NextAttended
<1>4. Respect /\ Attended => AbandonedNeedsCrash
  <2> SUFFICES ASSUME Respect, Attended, NEW a \in Address, row[a] = "sending",
                      \A w \in Worker : ~Active(w), "crash" \notin faults
               PROVE  FALSE
    BY DEF AbandonedNeedsCrash, Rows
  <2>1. PICK w \in Worker : current[w] = {a}
    BY DEF Attended
  <2> QED
    BY <2>1 DEF Respect, Respects, Active
<1> QED
  BY <1>1, <1>2, <1>3, <1>4, InitRespect, TypeCorrect, PTL DEF Spec

==============================================================================
