----------------------------- MODULE SiteVisits -----------------------------
(***************************************************************************)
(* Site visits of the lead of FollowUps, and the reminder task each may    *)
(* have (leads/services.py).  A visit's rule key is the visit itself here. *)
(*                                                                         *)
(* Every operation on a visit locks the visit and its lead, and the open   *)
(* reminder tasks it syncs, so each is one action; the actions of          *)
(* FollowUps on the reminder, the sweep among them, happen in between.     *)
(***************************************************************************)
EXTENDS FollowUps

VARIABLES
  visit,        \* the rows of leads_sitevisit
  stage,        \* Lead.stage, as far as visits tell stages apart
  moved         \* history: reminders rescheduled as tasks since the last sync

visitVars == <<visit, stage, moved>>
allVars == <<vars, visitVars>>

Stage == {"early", "site_visit", "closed"}
VisitRow == [status : {"scheduled", "completed", "cancelled"}, at : Time,
             owner : Member, reminds : BOOLEAN]

\* SITE_VISIT_REMINDER_OFFSET: an hour before the visit, one unit of the clock.
Due(r) == r.at - 1
ShouldRemind(r) == r.status = "scheduled" /\ r.reminds

\* The tasks of a set have their status set to "cancelled", or an alert read.
CancelAll(T) == [t \in Task |-> IF t \in T THEN [task[t] EXCEPT !.status = "cancelled"] ELSE task[t]]
ResolveAll(T) == [t \in Task |-> IF t \in T THEN Resolved(alert[t]) ELSE alert[t]]

------------------------------------------------------------------------------
VisitInit ==
  /\ Init
  /\ visit = [v \in Visit |-> Blank]
  /\ stage = "early"
  /\ moved = {}

\* transition_lead, as far as visits tell: they are left as they are.
Move(s) ==
  /\ lead
  /\ stage' = s
  /\ UNCHANGED <<vars, visit, moved>>

\* The three outcomes of _sync_site_visit_reminder for a visit whose row is r.
DropReminder(v, r) ==
  /\ ~ShouldRemind(r)
  /\ task' = CancelAll(OpenWith(v))
  /\ alert' = ResolveAll(OpenWith(v))

MoveReminder(v, r) ==
  /\ ShouldRemind(r) /\ Due(r) > now
  /\ OpenWith(v) # {}
  /\ task' = [t \in Task |-> IF t \in OpenWith(v) THEN NewTask(r.owner, Due(r), v) ELSE task[t]]
  /\ alert' = ResolveAll({t \in OpenWith(v) : task[t].status # "pending"})

AddVisitReminder(v, r) ==
  /\ ShouldRemind(r) /\ Due(r) > now
  /\ OpenWith(v) = {} /\ Room
  /\ task' = [task EXCEPT ![Fresh] = NewTask(r.owner, Due(r), v)]
  /\ UNCHANGED alert

\* Mutant of Sync: a new time leaves the open reminder where it was.
SyncInPlace(v, r) ==
  \/ DropReminder(v, r)
  \/ ShouldRemind(r) /\ Due(r) > now /\ OpenWith(v) # {} /\ UNCHANGED <<task, alert>>
  \/ AddVisitReminder(v, r)

\* Mutant of Sync: a reminder moved from overdue keeps its alert unread.
SyncUnresolved(v, r) ==
  \/ DropReminder(v, r)
  \/ /\ ShouldRemind(r) /\ Due(r) > now
     /\ OpenWith(v) # {}
     /\ task' = [t \in Task |-> IF t \in OpenWith(v) THEN NewTask(r.owner, Due(r), v) ELSE task[t]]
     /\ UNCHANGED alert
  \/ AddVisitReminder(v, r)

\* Mutant of Sync: only a reminder that exists is synced.
SyncExisting(v, r) ==
  \/ DropReminder(v, r)
  \/ MoveReminder(v, r)
  \/ ShouldRemind(r) /\ OpenWith(v) = {} /\ UNCHANGED <<task, alert>>

\* _sync_site_visit_reminder: the reminder is cancelled, moved to the visit's
\* new time and assignee, or created.  It raises, and the request is rolled
\* back, when the reminder would already be due.
Sync(v, r) == DropReminder(v, r) \/ MoveReminder(v, r) \/ AddVisitReminder(v, r)

\* The visit's row and its reminder change in one transaction.
Put(v, r) ==
  /\ visit' = [visit EXCEPT ![v] = r]
  /\ Sync(v, r)
  /\ moved' = moved \ AllWith(v)
  /\ UNCHANGED <<now, lead, sweep, ruleVars, editVars, successors, stray, stage>>

\* schedule_site_visit
Schedule(v, at, u, reminds) ==
  /\ lead /\ stage = "site_visit"
  /\ visit[v] = Blank
  /\ at > now
  /\ Put(v, [status |-> "scheduled", at |-> at, owner |-> u, reminds |-> reminds])

\* reschedule_site_visit
MoveVisit(v, at, u, reminds) ==
  /\ visit[v].status = "scheduled" /\ stage # "closed"
  /\ at > now
  /\ Put(v, [status |-> "scheduled", at |-> at, owner |-> u, reminds |-> reminds])

\* Mutant of EndVisit: the reminder is not synced.
EndVisitOnly(v, status) ==
  /\ visit[v].status = "scheduled"
  /\ visit' = [visit EXCEPT ![v].status = status]
  /\ UNCHANGED <<vars, stage, moved>>

\* complete_site_visit and cancel_site_visit
EndVisit(v, status) ==
  /\ visit[v].status = "scheduled"
  /\ Put(v, [visit[v] EXCEPT !.status = status])

\* An action of FollowUps, noting which reminders were rescheduled as tasks.
TaskStep ==
  /\ TaskNext
  /\ moved' = moved \cup {t \in Task : task[t] # Blank /\ task'[t].due # task[t].due}
  /\ UNCHANGED <<visit, stage>>

\* Deleting the lead deletes its visits too.
DeleteAll ==
  /\ DeleteLead
  /\ visit' = [v \in Visit |-> Blank]
  /\ moved' = {}
  /\ UNCHANGED stage

VisitNext ==
  \/ TaskStep
  \/ DeleteAll
  \/ \E s \in Stage : Move(s)
  \/ \E v \in Visit, at \in Time, u \in Member, reminds \in BOOLEAN :
       Schedule(v, at, u, reminds) \/ MoveVisit(v, at, u, reminds)
  \/ \E v \in Visit, status \in {"completed", "cancelled"} : EndVisit(v, status)

VisitSpec == VisitInit /\ [][VisitNext]_allVars

------------------------------------------------------------------------------
(* Nobody is reminded of a visit that is over or wants no reminder: an open *)
(* reminder task belongs to a scheduled visit that asks for it, whatever    *)
(* the sweep and direct changes of the task do.                             *)
OpenReminderHasVisit ==
  \A v \in Visit : OpenWith(v) # {} => visit[v].status = "scheduled" /\ visit[v].reminds

(* An open reminder is due an hour before its visit and is assigned to the  *)
(* visit's assignee, unless somebody rescheduled the task itself.           *)
ReminderIsAligned ==
  \A v \in Visit : \A t \in OpenWith(v) \ moved :
    task[t].due = Due(visit[v]) /\ task[t].owner = visit[v].owner

(* A scheduled visit that asks for a reminder has one, open or closed by    *)
(* somebody: no order of rescheduling, switching the reminder off and on    *)
(* and closing tasks loses it, or leaves two open.                          *)
VisitHasReminder ==
  \A v \in Visit : visit[v] # Blank /\ ShouldRemind(visit[v]) =>
    /\ AllWith(v) # {}
    /\ Cardinality(OpenWith(v)) <= 1

==============================================================================
