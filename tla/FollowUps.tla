------------------------------ MODULE FollowUps ------------------------------
(***************************************************************************)
(* The follow-up tasks of one lead and the alerts about them: the locked   *)
(* services that complete, reschedule and cancel a task, the automated     *)
(* rules that Celery workers turn into tasks, the hourly overdue sweep,    *)
(* the API's generic update and the inbox's "remind me" action             *)
(* (followups/services.py, followups/views.py, web/views.py).              *)
(*                                                                         *)
(* A service that locks its task is one action.  The sweep, a rule's       *)
(* get_or_create, a reminder's update_or_create and an update by PATCH     *)
(* read first and write later, and are split where others can act.         *)
(***************************************************************************)
EXTENDS Naturals, FiniteSets

CONSTANTS
  Task,         \* task identifiers (bound: the tasks the lead may ever have)
  Member,       \* the users a task may be assigned to
  Rule,         \* rule keys of the automated rules
  Thread,       \* rule keys of email-reply reminders, one for each thread
  Visit,        \* rule keys of site-visit reminders, one for each visit
  Sweeper,      \* overlapping runs of flag_overdue_tasks
  Scheduler,    \* workers that run schedule_follow_up
  Editor,       \* overlapping PATCH requests
  Reminder,     \* overlapping "remind" requests
  MaxTime       \* bound: the clock stops here

Key == Rule \cup Thread \cup Visit

ASSUME KeyAssumption == "manual" \notin Key /\ "idle" \notin Key
ASSUME KeysApart == Rule \cap Thread = {} /\ (Rule \cup Thread) \cap Visit = {}
ASSUME MaxTimeAssumption == MaxTime \in Nat
ASSUME FiniteAssumption ==
  IsFiniteSet(Task) /\ IsFiniteSet(Rule) /\ IsFiniteSet(Scheduler) /\ IsFiniteSet(Reminder)

VARIABLES
  now,          \* the clock
  lead,         \* TRUE until the lead is deleted
  task,         \* the rows of followups_followuptask
  alert,        \* followups_notification: its row for a task and a recipient
  sweep,        \* the tasks a sweep has still to visit
  asked,        \* the schedule_follow_up message of a rule: "no", "sent" or "lost"
  job,          \* the rule a scheduler found no pending task for
  remind,       \* the thread a reminder request found no task for
  held,         \* the task an editor has loaded: {} or {<<id, row>>}
  successors,   \* history: tasks created by completing a task (2: or more)
  stray         \* history: tasks moved to or from another lead, or closed while
                \* a reminder request was about to make a task of their key

ruleVars == <<asked, job>>
editVars == <<remind, held>>
vars == <<now, lead, task, alert, sweep, ruleVars, editVars, successors, stray>>

Time == 0..MaxTime
OpenStatus == {"pending", "overdue"}
ClosedStatus == {"done", "cancelled"}
TaskRow == [status : OpenStatus \cup ClosedStatus, owner : Member, due : Time,
            key : Key \cup {"manual"}, here : BOOLEAN]
Blank == [status |-> "none"]

\* A PATCH may move a task to another lead: the row is no longer here.
NewTask(u, d, k) ==
  [status |-> "pending", owner |-> u, due |-> d, key |-> k, here |-> TRUE]

Open(t) == task[t].status \in OpenStatus
\* The lead's tasks of a rule key.
AllWith(k) == {t \in Task : task[t] # Blank /\ task[t].key = k /\ task[t].here}
OpenWith(k) == {t \in AllWith(k) : Open(t)}
Lapsed(t) == task[t].status = "pending" /\ task[t].due < now

\* The identifier a new row gets: which one it is makes no difference.
Fresh == CHOOSE t \in Task : task[t] = Blank

\* The constraint unique_open_automated_followup_per_rule lets row r in as t.
Admits(t, r) ==
  r.here /\ r.status \in OpenStatus /\ r.key # "manual" => OpenWith(r.key) \subseteq {t}

\* _resolve_open_notifications
Resolved(A) == [u \in Member |-> IF A[u] = "unread" THEN "read" ELSE A[u]]

\* A reminder request found no task of key k, and will make one.
Wanted(k) == \E r \in Reminder : remind[r] = k

\* Bound: a task is made only while whoever will make one has a place for it,
\* and while the lead exists.
Promised ==
  Cardinality({k \in Rule : asked[k] = "sent"}) + Cardinality({s \in Scheduler : job[s] # "idle"})
    + Cardinality({r \in Reminder : remind[r] # "idle"})
Room == lead /\ Cardinality({t \in Task : task[t] = Blank}) > Promised

------------------------------------------------------------------------------
Init ==
  /\ now = 0
  /\ lead = TRUE
  /\ task = [t \in Task |-> Blank]
  /\ alert = [t \in Task |-> [u \in Member |-> "none"]]
  /\ sweep = [s \in Sweeper |-> {}]
  /\ asked = [k \in Rule |-> "no"]
  /\ job = [s \in Scheduler |-> "idle"]
  /\ remind = [r \in Reminder |-> "idle"]
  /\ held = [e \in Editor |-> {}]
  /\ successors = [t \in Task |-> 0]
  /\ stray = {}

Tick ==
  /\ now < MaxTime
  /\ now' = now + 1
  /\ UNCHANGED <<lead, task, alert, sweep, ruleVars, editVars, successors, stray>>

------------------------------------------------------------------------------
(* Requests that lock the task, or make one.                               *)

\* The API takes any due time; the web form's is in the future.
Create(u, d) ==
  /\ Room
  /\ task' = [task EXCEPT ![Fresh] = NewTask(u, d, "manual")]
  /\ UNCHANGED <<now, lead, alert, sweep, ruleVars, editVars, successors, stray>>

\* What complete_task makes of a task: one of the same lead and assignee.
Successor(r, d) == [NewTask(r.owner, d, "manual") EXCEPT !.here = r.here]

\* A task that is closed while a reminder request wants one of its key.
Closing(t) == stray' = IF Wanted(task[t].key) THEN stray \cup {t} ELSE stray

\* Mutant of Complete: the status read before the lock is trusted.
CompleteUnchecked(t, d) ==
  /\ task[t] # Blank /\ Room
  /\ task' = [task EXCEPT ![t].status = "done",
                          ![Fresh] = Successor(task[t], d)]
  /\ alert' = [alert EXCEPT ![t] = Resolved(@)]
  /\ successors' = [successors EXCEPT ![t] = IF @ = 2 THEN 2 ELSE @ + 1]
  /\ Closing(t)
  /\ UNCHANGED <<now, lead, sweep, ruleVars, editVars>>

\* complete_task: the task is done, its alerts are read, its successor is made.
\* A due time was in the future when the form was validated, before the lock.
Complete(t, d) ==
  /\ Open(t) /\ Room
  /\ d >= now
  /\ task' = [task EXCEPT ![t].status = "done",
                          ![Fresh] = Successor(task[t], d)]
  /\ alert' = [alert EXCEPT ![t] = Resolved(@)]
  /\ successors' = [successors EXCEPT ![t] = IF @ = 2 THEN 2 ELSE @ + 1]
  /\ Closing(t)
  /\ UNCHANGED <<now, lead, sweep, ruleVars, editVars>>

\* reschedule_task
Reschedule(t, d) ==
  /\ Open(t)
  /\ d >= now
  /\ task' = [task EXCEPT ![t].status = "pending", ![t].due = d]
  /\ alert' = [alert EXCEPT ![t] = Resolved(@)]
  /\ UNCHANGED <<now, lead, sweep, ruleVars, editVars, successors, stray>>

\* Mutant of Cancel: the alert is left open.
CancelSilently(t) ==
  /\ Open(t)
  /\ task' = [task EXCEPT ![t].status = "cancelled"]
  /\ Closing(t)
  /\ UNCHANGED <<now, lead, alert, sweep, ruleVars, editVars, successors>>

\* cancel_task
Cancel(t) ==
  /\ Open(t)
  /\ task' = [task EXCEPT ![t].status = "cancelled"]
  /\ alert' = [alert EXCEPT ![t] = Resolved(@)]
  /\ Closing(t)
  /\ UNCHANGED <<now, lead, sweep, ruleVars, editVars, successors>>

\* A recipient marks the alert as read.
Read(t, u) ==
  /\ alert[t][u] = "unread"
  /\ alert' = [alert EXCEPT ![t][u] = "read"]
  /\ UNCHANGED <<now, lead, task, sweep, ruleVars, editVars, successors, stray>>

\* Tasks that are in the table, but with another lead.
Away == {t \in Task : task[t] # Blank /\ ~task[t].here}

\* Deleting the lead deletes its tasks and their alerts.
DeleteLead ==
  /\ lead
  /\ lead' = FALSE
  /\ task' = [t \in Task |-> IF t \in Away THEN task[t] ELSE Blank]
  /\ alert' = [t \in Task |-> IF t \in Away THEN alert[t] ELSE [u \in Member |-> "none"]]
  /\ successors' = [t \in Task |-> IF t \in Away THEN successors[t] ELSE 0]
  /\ UNCHANGED <<now, sweep, ruleVars, editVars, stray>>

------------------------------------------------------------------------------
(* Automated rules.                                                        *)

\* A transition or a "needs time" commits and its on_commit hook publishes.
AskRule(k) ==
  /\ Room
  /\ asked[k] # "sent"
  /\ asked' = [asked EXCEPT ![k] = "sent"]
  /\ UNCHANGED <<now, lead, task, alert, sweep, job, editVars, successors, stray>>

\* The broker refuses the message, or the worker dies with it.
LoseRule(k) ==
  /\ asked[k] = "sent"
  /\ asked' = [asked EXCEPT ![k] = "lost"]
  /\ UNCHANGED <<now, lead, task, alert, sweep, job, editVars, successors, stray>>

\* Mutant of LookUp: a closed task of the rule counts as found.
LookUpAnyStatus(s, k) ==
  /\ asked[k] = "sent" /\ job[s] = "idle"
  /\ asked' = [asked EXCEPT ![k] = "no"]
  /\ job' = IF lead /\ AllWith(k) = {} THEN [job EXCEPT ![s] = k] ELSE job
  /\ UNCHANGED <<now, lead, task, alert, sweep, editVars, successors, stray>>

\* schedule_rule: the "get" of get_or_create asks for a pending task.
LookUp(s, k) ==
  /\ asked[k] = "sent" /\ job[s] = "idle"
  /\ asked' = [asked EXCEPT ![k] = "no"]
  /\ job' = IF lead /\ \A t \in OpenWith(k) : task[t].status # "pending"
            THEN [job EXCEPT ![s] = k] ELSE job
  /\ UNCHANGED <<now, lead, task, alert, sweep, editVars, successors, stray>>

\* Mutant of Insert: no unique constraint on the table.
InsertUnchecked(s, u, d) ==
  /\ job[s] # "idle" /\ lead
  /\ task' = [task EXCEPT ![Fresh] = NewTask(u, d, job[s])]
  /\ job' = [job EXCEPT ![s] = "idle"]
  /\ UNCHANGED <<now, lead, alert, sweep, asked, editVars, successors, stray>>

\* ... and its "create" is admitted by the constraint.
Insert(s, u, d) ==
  /\ job[s] # "idle" /\ lead
  /\ d > now \/ d = MaxTime
  /\ Admits(Fresh, NewTask(u, d, job[s]))
  /\ task' = [task EXCEPT ![Fresh] = NewTask(u, d, job[s])]
  /\ job' = [job EXCEPT ![s] = "idle"]
  /\ UNCHANGED <<now, lead, alert, sweep, asked, editVars, successors, stray>>

\* IntegrityError: the open task is read instead, or is closed by now (or
\* gone with its lead) and the worker's job fails.  No row changes.
Conflict(s) ==
  /\ job[s] # "idle"
  /\ ~lead \/ OpenWith(job[s]) # {}
  /\ job' = [job EXCEPT ![s] = "idle"]
  /\ UNCHANGED <<now, lead, task, alert, sweep, asked, editVars, successors, stray>>

------------------------------------------------------------------------------
(* flag_overdue_tasks.                                                     *)

\* The sweep lists the pending tasks that are past due ...
StartSweep(s) ==
  /\ sweep[s] = {}
  /\ {t \in Task : Lapsed(t)} # {}
  /\ sweep' = [sweep EXCEPT ![s] = {t \in Task : Lapsed(t)}]
  /\ UNCHANGED <<now, lead, task, alert, ruleVars, editVars, successors, stray>>

\* Notification.objects.get_or_create(task, recipient)
Notify(t, u) == alert' = IF alert[t][u] = "none" THEN [alert EXCEPT ![t][u] = "unread"] ELSE alert

\* Mutant of Flag: the task is not read again under its lock.
FlagListed(s, t) ==
  /\ t \in sweep[s]
  /\ task[t] # Blank
  /\ sweep' = [sweep EXCEPT ![s] = @ \ {t}]
  /\ task' = [task EXCEPT ![t].status = "overdue"]
  /\ Notify(t, task[t].owner)
  /\ UNCHANGED <<now, lead, ruleVars, editVars, successors, stray>>

\* Mutant of Flag: a task that was alerted about before is passed over.
FlagOnce(s, t) ==
  /\ t \in sweep[s]
  /\ sweep' = [sweep EXCEPT ![s] = @ \ {t}]
  /\ IF Lapsed(t) /\ alert[t][task[t].owner] = "none"
     THEN task' = [task EXCEPT ![t].status = "overdue"] /\ Notify(t, task[t].owner)
     ELSE UNCHANGED <<task, alert>>
  /\ UNCHANGED <<now, lead, ruleVars, editVars, successors, stray>>

\* ... and visits each under its lock: still pending and past due, it becomes
\* overdue and its assignee is alerted.  A task that is gone ends the sweep.
Flag(s, t) ==
  /\ t \in sweep[s]
  /\ \/ /\ Lapsed(t)
        /\ task' = [task EXCEPT ![t].status = "overdue"]
        /\ Notify(t, task[t].owner)
        /\ sweep' = [sweep EXCEPT ![s] = @ \ {t}]
     \/ /\ task[t] # Blank /\ ~Lapsed(t)
        /\ sweep' = [sweep EXCEPT ![s] = @ \ {t}]
        /\ UNCHANGED <<task, alert>>
     \/ /\ task[t] = Blank
        /\ sweep' = [sweep EXCEPT ![s] = {}]
        /\ UNCHANGED <<task, alert>>
  /\ UNCHANGED <<now, lead, ruleVars, editVars, successors, stray>>

\* The worker dies in the middle of the sweep.
CrashSweep(s) ==
  /\ sweep[s] # {}
  /\ sweep' = [sweep EXCEPT ![s] = {}]
  /\ UNCHANGED <<now, lead, task, alert, ruleVars, editVars, successors, stray>>

------------------------------------------------------------------------------
(* Requests that do not lock the task they change.                         *)

\* PATCH: get_object reads the whole row ...
Load(e, t) ==
  /\ held[e] = {}
  /\ task[t] # Blank
  /\ held' = [held EXCEPT ![e] = {<<t, task[t]>>}]
  /\ UNCHANGED <<now, lead, task, alert, sweep, ruleVars, remind, successors, stray>>

\* A task of another lead is read by a PATCH that may bring it here.
LoadElsewhere(e, u, d, k) ==
  LET row == [NewTask(u, d, k) EXCEPT !.here = FALSE]
  IN /\ held[e] = {}
     /\ Room
     /\ task' = [task EXCEPT ![Fresh] = row]
     /\ held' = [held EXCEPT ![e] = {<<Fresh, row>>}]
     /\ UNCHANGED <<now, lead, alert, sweep, ruleVars, remind, successors, stray>>

\* Row r replaces that of task t.
Write(t, r) ==
  /\ task' = [task EXCEPT ![t] = r]
  /\ stray' = IF /\ lead
                 /\ \/ r.here # task[t].here
                    \/ r.status \in ClosedStatus /\ Wanted(r.key)
              THEN stray \cup {t} ELSE stray

\* Mutant of Save: no unique constraint on the table.
SaveUnchecked(e, u, d, h) ==
  /\ held[e] # {}
  /\ \E x \in held[e] :
       IF lead \/ ~h THEN Write(x[1], [x[2] EXCEPT !.owner = u, !.due = d, !.here = h])
       ELSE UNCHANGED <<task, stray>>
  /\ held' = [held EXCEPT ![e] = {}]
  /\ UNCHANGED <<now, lead, alert, sweep, ruleVars, remind, successors>>

\* ... and serializer.save() writes every column of it back, status included,
\* with the assignee, the due time and the lead the request names.  A row that
\* went with this lead is inserted again for another one.  The constraint, here
\* or at the other lead, or this lead being gone may refuse.
Save(e, u, d, h) ==
  /\ held[e] # {}
  /\ \E x \in held[e] :
       LET row == [x[2] EXCEPT !.owner = u, !.due = d, !.here = h] IN
       \/ Admits(x[1], row) /\ (lead \/ ~h) /\ Write(x[1], row)
       \/ (~h \/ ~lead \/ ~Admits(x[1], row)) /\ UNCHANGED <<task, stray>>
  /\ held' = [held EXCEPT ![e] = {}]
  /\ UNCHANGED <<now, lead, alert, sweep, ruleVars, remind, successors>>

\* update_or_create's update: the one task of the thread, whatever its status.
Reopen(k, u, d) ==
  \E t \in AllWith(k) : AllWith(k) = {t} /\ task' = [task EXCEPT ![t] = NewTask(u, d, k)]

\* Mutant of LookForReminder: only open reminders are looked for.
LookForOpenReminder(r, k, u, d) ==
  /\ lead /\ remind[r] = "idle"
  /\ d >= now
  /\ \/ OpenWith(k) # {} /\ Reopen(k, u, d) /\ UNCHANGED remind
     \/ OpenWith(k) = {} /\ Room /\ remind' = [remind EXCEPT ![r] = k] /\ UNCHANGED task
  /\ UNCHANGED <<now, lead, alert, sweep, ruleVars, held, successors, stray>>

\* EmailThreadActionView, "remind": update_or_create by the thread's rule key
\* updates what it finds under a lock ...
LookForReminder(r, k, u, d) ==
  /\ lead /\ remind[r] = "idle"
  /\ d >= now
  /\ \/ Reopen(k, u, d) /\ UNCHANGED remind
     \/ AllWith(k) = {} /\ Room /\ remind' = [remind EXCEPT ![r] = k] /\ UNCHANGED task
  /\ UNCHANGED <<now, lead, alert, sweep, ruleVars, held, successors, stray>>

\* ... or creates it; refused by the constraint, it reads and updates instead.
\* It raises when there are two to update, or when the lead is gone.
AddReminder(r, u, d) ==
  /\ remind[r] # "idle"
  /\ d >= now
  /\ \/ /\ lead /\ Admits(Fresh, NewTask(u, d, remind[r]))
        /\ task' = [task EXCEPT ![Fresh] = NewTask(u, d, remind[r])]
     \/ lead /\ OpenWith(remind[r]) # {} /\ Reopen(remind[r], u, d)
     \/ /\ lead => OpenWith(remind[r]) # {} /\ Cardinality(AllWith(remind[r])) > 1
        /\ UNCHANGED task
  /\ remind' = [remind EXCEPT ![r] = "idle"]
  /\ UNCHANGED <<now, lead, alert, sweep, ruleVars, held, successors, stray>>

------------------------------------------------------------------------------
SchedulerStep(s) ==
  \/ \E k \in Rule : LookUp(s, k)
  \/ \E u \in Member, d \in Time : Insert(s, u, d)
  \/ Conflict(s)

SweepStep(s) == StartSweep(s) \/ \E t \in Task : Flag(s, t)

UserStep ==
  \/ \E u \in Member, d \in Time : Create(u, d)
  \/ \E t \in Task, d \in Time : Complete(t, d)
  \/ \E t \in Task, d \in Time : Reschedule(t, d)
  \/ \E t \in Task : Cancel(t)
  \/ \E t \in Task, u \in Member : Read(t, u)

EditStep ==
  \/ \E e \in Editor, t \in Task : Load(e, t)
  \/ \E e \in Editor, u \in Member, d \in Time, k \in Rule \cup Thread \cup {"manual"} :
       LoadElsewhere(e, u, d, k)
  \/ \E e \in Editor, u \in Member, d \in Time, h \in BOOLEAN : Save(e, u, d, h)
  \/ \E r \in Reminder, k \in Thread, u \in Member, d \in Time : LookForReminder(r, k, u, d)
  \/ \E r \in Reminder, u \in Member, d \in Time : AddReminder(r, u, d)

\* Everything but the deletion of the lead, which takes more than its tasks.
TaskNext ==
  \/ Tick
  \/ UserStep
  \/ EditStep
  \/ \E k \in Rule : AskRule(k) \/ LoseRule(k)
  \/ \E s \in Scheduler : SchedulerStep(s)
  \/ \E s \in Sweeper : SweepStep(s) \/ CrashSweep(s)

Next == TaskNext \/ DeleteLead

\* Beat starts the sweep every hour, a worker goes on with what it took, and
\* at some time workers stop dying in the middle of sweeps.
Fairness ==
  /\ \A s \in Sweeper : WF_vars(SweepStep(s)) /\ <>[][SweepStep(s)]_(sweep[s])
  /\ \A s \in Scheduler : WF_vars(SchedulerStep(s))

Spec == Init /\ [][Next]_vars /\ Fairness

------------------------------------------------------------------------------
(* Types: every task in the table keeps a status, an assignee and a due     *)
(* time, and a freed row never comes back to life through a late request.   *)
TypeOK ==
  /\ now \in Time
  /\ lead \in BOOLEAN
  /\ task \in [Task -> TaskRow \cup {Blank}]
  /\ alert \in [Task -> [Member -> {"none", "unread", "read"}]]
  /\ sweep \in [Sweeper -> SUBSET Task]
  /\ asked \in [Rule -> {"no", "sent", "lost"}]
  /\ job \in [Scheduler -> Rule \cup {"idle"}]
  /\ remind \in [Reminder -> Thread \cup {"idle"}]
  /\ held \in [Editor -> SUBSET (Task \X TaskRow)]
  /\ successors \in [Task -> 0..2]
  /\ stray \in SUBSET Task

(* Repeated and concurrent requests for a rule never leave two open tasks   *)
(* of it: schedule_rule, the reminders and the generic update all go        *)
(* through unique_open_automated_followup_per_rule.                         *)
OneOpenPerRule == \A k \in Key : Cardinality(OpenWith(k)) <= 1

(* Whoever has an unread alert has an overdue task to look at: completing,  *)
(* rescheduling and cancelling a task resolve its alerts, whatever the      *)
(* sweep does meanwhile.                                                    *)
AlertsMatchTasks ==
  \A t \in Task, u \in Member :
    alert[t][u] = "unread" => task[t].status = "overdue" /\ task[t].owner = u

(* "A completed/cancelled task is terminal": no sweep, retry or second      *)
(* request gives it another status until its lead is deleted.               *)
ClosedIsTerminal ==
  [][\A t \in Task :
       task[t].status \in ClosedStatus /\ lead' => task'[t].status = task[t].status]_vars

(* A task completed by two requests, or completed while the sweep flags it, *)
(* has one successor, and a task that is not done has none.                 *)
CompletionHasOneSuccessor ==
  \A t \in Task : successors[t] = IF task[t].status = "done" THEN 1 ELSE 0

(* A task that is pending past its due time is flagged, moved or closed at  *)
(* some time, though sweeps may die half way, any number of times.          *)
LapsedIsFlagged == \A t \in Task : Lapsed(t) ~> ~Lapsed(t)

(* A rule that was asked for has an open task at some time after, unless    *)
(* the message is lost or the lead deleted.                                 *)
RuleIsAnswered == \A k \in Rule :
  asked[k] = "sent" ~> (OpenWith(k) # {} \/ asked[k] = "lost" \/ ~lead)

(* A thread has one reminder task that later reminders move, whatever       *)
(* requests to remind overlap: update_or_create never finds two.  Tasks a    *)
(* PATCH moved to or from another lead are not counted, nor one that was     *)
(* closed while another request to remind was between its two steps.         *)
OneReminderPerThread == \A k \in Thread : Cardinality(AllWith(k) \ stray) <= 1

(* The same of every task: a PATCH that moves a reminder to another lead and *)
(* back breaks it, and no later request to remind succeeds.                  *)
OneTaskPerThread == \A k \in Thread : Cardinality(AllWith(k)) <= 1

(* Overdue follow-ups alert the assigned person: when the sweep flags a     *)
(* task, its assignee has an unread alert about it.                         *)
OverdueAlerts ==
  [][\A t \in Task :
       task[t].status = "pending" /\ task'[t].status = "overdue"
         => alert'[t][task[t].owner] = "unread"]_vars

==============================================================================
