--------------------------- MODULE FollowUpsProofs ---------------------------
(***************************************************************************)
(* Theorems about FollowUps and, with visits and their reminders, about    *)
(* SiteVisits, for any numbers of tasks, members, rules, threads, visits   *)
(* and of overlapping sweeps, workers and requests.                        *)
(*                                                                         *)
(* IInv: rows are well formed and no rule, thread or visit has two open    *)
(* tasks, whatever overlaps, requests that lock nothing included.  Sound:  *)
(* new rows take the place of no other, and late requests write rows that  *)
(* are still there.  On these rest the theorems about alerts, successors   *)
(* and closed tasks, which hold of the requests that lock their task       *)
(* (NoUnlocked), and those about the reminders of threads and, without the *)
(* PATCH (NoEditor), of visits.                                            *)
(***************************************************************************)
EXTENDS SiteVisits, FiniteSetTheorems, TLAPS

------------------------------------------------------------------------------
\* A set in which any two members are the same.
LEMMA AtMostOne ==
  ASSUME NEW S, \A x, y \in S : x = y
  PROVE  Cardinality(S) <= 1
<1>1. CASE S = {}
  BY <1>1, FS_EmptySet
<1>2. ASSUME NEW x \in S PROVE Cardinality(S) <= 1
  <2>1. S = {x}
    BY <1>2
  <2>2. Cardinality({x}) = 1
    BY FS_Singleton
  <2> QED
    BY <2>1, <2>2
<1> QED
  BY <1>1, <1>2

------------------------------------------------------------------------------
(* The constraint unique_open_automated_followup_per_rule.                 *)

\* A row that occupies the one place of key k among the open tasks.
Occupies(r, k) == r # Blank /\ r.here /\ r.status \in OpenStatus /\ r.key = k

\* The table admits no second open task of a key.
Unique ==
  \A k \in Key : \A t, u \in Task : Occupies(task[t], k) /\ Occupies(task[u], k) => t = u

IInv == TypeOK /\ Unique

LEMMA OpenWithIs ==
  ASSUME TypeOK, NEW k \in Key
  PROVE  OpenWith(k) = {t \in Task : Occupies(task[t], k)}
BY DEF OpenWith, AllWith, Occupies, Open

\* A step after which no row occupies what it did not occupy before.
LEMMA NoNewOccupant ==
  ASSUME Unique,
         \A t \in Task, k \in Key : Occupies(task'[t], k) => Occupies(task[t], k)
  PROVE  Unique'
<1> SUFFICES ASSUME NEW k \in Key, NEW t \in Task, NEW u \in Task,
                    Occupies(task'[t], k), Occupies(task'[u], k)
             PROVE  t = u
  BY DEF Unique, Occupies
<1> QED
  BY DEF Unique

\* A step that puts a row the constraint admits.
LEMMA AdmittedKeeps ==
  ASSUME IInv, NEW x, NEW r \in TaskRow, Admits(x, r), task' = [task EXCEPT ![x] = r]
  PROVE  task' \in [Task -> TaskRow \cup {Blank}] /\ Unique'
<1> USE DEF IInv
<1>1. task' \in [Task -> TaskRow \cup {Blank}]
  BY DEF TypeOK
<1>2. Unique'
  <2> SUFFICES ASSUME NEW k \in Key, NEW t \in Task, NEW u \in Task,
                      Occupies(task'[t], k), Occupies(task'[u], k)
               PROVE  t = u
    BY DEF Unique, Occupies
  <2>1. \A v \in Task : task'[v] = IF v = x THEN r ELSE task[v]
    BY DEF TypeOK
  <2>2. CASE t # x /\ u # x
    BY <2>1, <2>2 DEF Unique
  <2>3. ASSUME Occupies(r, k) PROVE \A v \in Task : Occupies(task[v], k) => v = x
    <3>1. OpenWith(k) \subseteq {x}
      BY <2>3, KeyAssumption DEF Admits, Occupies
    <3> QED
      BY <3>1, OpenWithIs
  <2> QED
    BY <2>1, <2>2, <2>3
<1> QED
  BY <1>1, <1>2

LEMMA NewTaskType ==
  ASSUME NEW u \in Member, NEW d \in Time, NEW k \in Key \cup {"manual"}
  PROVE  /\ NewTask(u, d, k) \in TaskRow /\ NewTask(u, d, k).key = k
         /\ NewTask(u, d, k).status = "pending" /\ NewTask(u, d, k).here
BY DEF NewTask, TaskRow, OpenStatus

\* A row that is put at another lead, or here.
LEMMA PlacedRow ==
  ASSUME NEW r \in TaskRow, NEW h \in BOOLEAN
  PROVE  /\ [r EXCEPT !.here = h] \in TaskRow /\ [r EXCEPT !.here = h].here = h
         /\ [r EXCEPT !.here = h].key = r.key /\ [r EXCEPT !.here = h].status = r.status
BY DEF TaskRow

\* A task of another lead.
Elsewhere(u, d, k) == [NewTask(u, d, k) EXCEPT !.here = FALSE]

LEMMA ElsewhereType ==
  ASSUME NEW u \in Member, NEW d \in Time, NEW k \in Rule \cup Thread \cup {"manual"}
  PROVE  /\ Elsewhere(u, d, k) \in TaskRow /\ ~Elsewhere(u, d, k).here
         /\ Elsewhere(u, d, k).key = k
<1> DEFINE new == NewTask(u, d, k)
<1>1. new \in TaskRow /\ new.key = k
  BY NewTaskType DEF Key
<1> HIDE DEF new
<1>2. /\ [new EXCEPT !.here = FALSE] \in TaskRow /\ ~[new EXCEPT !.here = FALSE].here
      /\ [new EXCEPT !.here = FALSE].key = k
  BY <1>1, PlacedRow
<1> QED
  BY <1>2 DEF Elsewhere, new

LEMMA SuccessorType ==
  ASSUME NEW r \in TaskRow, NEW d \in Time
  PROVE  /\ Successor(r, d) \in TaskRow /\ Successor(r, d).key = "manual"
         /\ Successor(r, d).status = "pending"
<1> DEFINE new == NewTask(r.owner, d, "manual")
<1>1. new \in TaskRow /\ new.key = "manual" /\ new.status = "pending" /\ r.here \in BOOLEAN
  BY NewTaskType DEF TaskRow
<1> HIDE DEF new
<1>2. [new EXCEPT !.here = r.here] \in TaskRow /\ [new EXCEPT !.here = r.here].key = "manual"
      /\ [new EXCEPT !.here = r.here].status = "pending"
  BY <1>1, PlacedRow
<1> QED
  BY <1>2 DEF Successor, new

\* update_or_create's update finds the only row of its key, so it may be open.
LEMMA ReopenKeeps ==
  ASSUME IInv, NEW k \in Key, NEW u \in Member, NEW d \in Time, Reopen(k, u, d)
  PROVE  task' \in [Task -> TaskRow \cup {Blank}] /\ Unique'
<1>1. PICK t \in Task : AllWith(k) = {t} /\ task' = [task EXCEPT ![t] = NewTask(u, d, k)]
  BY DEF Reopen, AllWith
<1>2. OpenWith(k) \subseteq {t}
  BY <1>1 DEF OpenWith
<1>3. Admits(t, NewTask(u, d, k))
  BY <1>2, NewTaskType DEF Admits
<1> QED
  BY <1>1, <1>3, NewTaskType, AdmittedKeeps

\* The types of the variables other than the table of tasks.
OthersOK ==
  /\ now \in Time
  /\ lead \in BOOLEAN
  /\ alert \in [Task -> [Member -> {"none", "unread", "read"}]]
  /\ sweep \in [Sweeper -> SUBSET Task]
  /\ asked \in [Rule -> {"no", "sent", "lost"}]
  /\ job \in [Scheduler -> Rule \cup {"idle"}]
  /\ remind \in [Reminder -> Thread \cup {"idle"}]
  /\ held \in [Editor -> SUBSET (Task \X TaskRow)]
  /\ successors \in [Task -> 0..2]
  /\ stray \in SUBSET Task

Table == task \in [Task -> TaskRow \cup {Blank}] /\ Unique

LEMMA IInvIs == IInv <=> OthersOK /\ Table
BY DEF IInv, TypeOK, OthersOK, Table

LEMMA InitIInv == Init => IInv
<1> SUFFICES ASSUME Init PROVE IInv
  OBVIOUS
<1>1. OthersOK
  BY MaxTimeAssumption DEF Init, OthersOK, Time
<1>2. task \in [Task -> TaskRow \cup {Blank}]
  BY DEF Init
<1>3. Unique
  BY DEF Init, Unique, Occupies
<1> QED
  BY <1>1, <1>2, <1>3, IInvIs DEF Table

------------------------------------------------------------------------------
(* A new row is put where there is none: the bound on the table's size     *)
(* keeps a place for every row that was promised.                          *)

Blanks == {t \in Task : task[t] = Blank}
Sent == {k \in Rule : asked[k] = "sent"}
Busy == {s \in Scheduler : job[s] # "idle"}
Asking == {r \in Reminder : remind[r] # "idle"}

Places == lead => Cardinality(Blanks) >= Promised

Counted ==
  /\ IsFiniteSet(Blanks) /\ IsFiniteSet(Sent) /\ IsFiniteSet(Busy) /\ IsFiniteSet(Asking)
  /\ Cardinality(Blanks) \in Nat /\ Cardinality(Sent) \in Nat
  /\ Cardinality(Busy) \in Nat /\ Cardinality(Asking) \in Nat
  /\ Promised = Cardinality(Sent) + Cardinality(Busy) + Cardinality(Asking)

LEMMA CountedNow == Counted
<1>1. IsFiniteSet(Blanks) /\ Cardinality(Blanks) \in Nat
  BY FiniteAssumption, FS_Subset, FS_CardinalityType DEF Blanks
<1>2. IsFiniteSet(Sent) /\ Cardinality(Sent) \in Nat
  BY FiniteAssumption, FS_Subset, FS_CardinalityType DEF Sent
<1>3. IsFiniteSet(Busy) /\ Cardinality(Busy) \in Nat
  BY FiniteAssumption, FS_Subset, FS_CardinalityType DEF Busy
<1>4. IsFiniteSet(Asking) /\ Cardinality(Asking) \in Nat
  BY FiniteAssumption, FS_Subset, FS_CardinalityType DEF Asking
<1> QED
  BY <1>1, <1>2, <1>3, <1>4 DEF Counted, Promised, Sent, Busy, Asking

LEMMA CountedNext == Counted'
BY CountedNow, PTL

\* A place that is there is found.
LEMMA FreshIsBlank ==
  ASSUME Room \/ (lead /\ Places /\ Promised > 0)
  PROVE  Fresh \in Blanks
<1>1. Cardinality(Blanks) > 0
  BY CountedNow DEF Counted, Places, Room, Blanks
<1>2. Blanks # {}
  BY <1>1, FS_EmptySet
<1> QED
  BY <1>2 DEF Blanks, Fresh

\* A request or a worker that makes a row has the promise of a place.
LEMMA SomePromised ==
  ASSUME \/ \E s \in Scheduler : job[s] # "idle"
         \/ \E r \in Reminder : remind[r] # "idle"
  PROVE  Promised > 0
<1>1. Busy # {} \/ Asking # {}
  BY DEF Busy, Asking
<1>2. Cardinality(Busy) > 0 \/ Cardinality(Asking) > 0
  BY <1>1, CountedNow, FS_EmptySet DEF Counted
<1> QED
  BY <1>2, CountedNow DEF Counted

\* No row comes or goes.
SameRows == \A t \in Task : task'[t] = Blank <=> task[t] = Blank

\* The places after a step that keeps the rows there are, and adds one or none.
LEMMA BlanksAfter ==
  /\ SameRows => Cardinality(Blanks') = Cardinality(Blanks)
  /\ Fresh \in Blanks /\ (\A t \in Task : task'[t] = Blank <=> task[t] = Blank /\ t # Fresh)
       => Cardinality(Blanks') = Cardinality(Blanks) - 1
<1>1. SameRows => Blanks' = Blanks
  BY DEF SameRows, Blanks
<1>2. ASSUME Fresh \in Blanks, \A t \in Task : task'[t] = Blank <=> task[t] = Blank /\ t # Fresh
      PROVE  Blanks' = Blanks \ {Fresh}
  BY <1>2 DEF Blanks
<1>3. ASSUME Fresh \in Blanks PROVE Cardinality(Blanks \ {Fresh}) = Cardinality(Blanks) - 1
  BY <1>3, CountedNow, FS_RemoveElement DEF Counted
<1> QED
  BY <1>1, <1>2, <1>3

LEMMA SamePromises == UNCHANGED <<asked, job, remind>> => Promised' = Promised
BY DEF Promised

LEMMA PlacesKept ==
  ASSUME Places, lead' => lead,
         \/ /\ SameRows
            /\ Promised' <= Promised \/ (Room /\ Promised' <= Promised + 1)
         \/ /\ Cardinality(Blanks') = Cardinality(Blanks) - 1
            /\ Promised' <= Promised - 1 \/ (Room /\ Promised' <= Promised)
  PROVE  Places'
BY CountedNow, CountedNext, BlanksAfter DEF Counted, Places, Room, Blanks

------------------------------------------------------------------------------
(* Every step keeps it: first the variables beside the table.              *)

LEMMA ResolvedType ==
  ASSUME NEW A \in [Member -> {"none", "unread", "read"}]
  PROVE  Resolved(A) \in [Member -> {"none", "unread", "read"}]
BY DEF Resolved

LEMMA NotifyType ==
  ASSUME OthersOK, NEW t \in Task, NEW u, Notify(t, u)
  PROVE  alert' \in [Task -> [Member -> {"none", "unread", "read"}]]
BY DEF OthersOK, Notify

LEMMA UserStepOthers == OthersOK /\ Table /\ UserStep => OthersOK'
<1> SUFFICES ASSUME OthersOK, Table, UserStep PROVE OthersOK'
  OBVIOUS
<1>1. ASSUME NEW u \in Member, NEW d \in Time, Create(u, d) PROVE OthersOK'
  BY <1>1 DEF OthersOK, Create, ruleVars, editVars
<1>2. ASSUME NEW t \in Task, NEW d \in Time, Complete(t, d) PROVE OthersOK'
  <2>1. alert' \in [Task -> [Member -> {"none", "unread", "read"}]]
    BY <1>2, ResolvedType DEF OthersOK, Complete
  <2>2. successors' \in [Task -> 0..2]
    BY <1>2 DEF OthersOK, Complete
  <2>3. stray' \in SUBSET Task
    BY <1>2 DEF OthersOK, Complete, Closing
  <2> QED
    BY <1>2, <2>1, <2>2, <2>3 DEF OthersOK, Complete, ruleVars, editVars
<1>3. ASSUME NEW t \in Task, NEW d \in Time, Reschedule(t, d) PROVE OthersOK'
  <2>1. alert' \in [Task -> [Member -> {"none", "unread", "read"}]]
    BY <1>3, ResolvedType DEF OthersOK, Reschedule
  <2> QED
    BY <1>3, <2>1 DEF OthersOK, Reschedule, ruleVars, editVars
<1>4. ASSUME NEW t \in Task, Cancel(t) PROVE OthersOK'
  <2>1. alert' \in [Task -> [Member -> {"none", "unread", "read"}]]
    BY <1>4, ResolvedType DEF OthersOK, Cancel
  <2>2. stray' \in SUBSET Task
    BY <1>4 DEF OthersOK, Cancel, Closing
  <2> QED
    BY <1>4, <2>1, <2>2 DEF OthersOK, Cancel, ruleVars, editVars
<1>5. ASSUME NEW t \in Task, NEW u \in Member, Read(t, u) PROVE OthersOK'
  BY <1>5 DEF OthersOK, Read, ruleVars, editVars
<1> QED
  BY <1>1, <1>2, <1>3, <1>4, <1>5 DEF UserStep

LEMMA EditStepOthers == OthersOK /\ Table /\ EditStep => OthersOK'
<1> SUFFICES ASSUME OthersOK, Table, EditStep PROVE OthersOK'
  OBVIOUS
<1>1. ASSUME NEW e \in Editor, NEW t \in Task, Load(e, t) PROVE OthersOK'
  <2>1. task[t] \in TaskRow
    BY <1>1 DEF Load, Table
  <2> QED
    BY <1>1, <2>1 DEF OthersOK, Load, ruleVars
<1>2. ASSUME NEW e \in Editor, NEW u \in Member, NEW d \in Time, NEW h \in BOOLEAN,
             Save(e, u, d, h)
      PROVE  OthersOK'
  <2>1. stray' \in SUBSET Task
    BY <1>2 DEF OthersOK, Save, Write
  <2>2. held' \in [Editor -> SUBSET (Task \X TaskRow)]
    BY <1>2 DEF OthersOK, Save
  <2> QED
    BY <1>2, <2>1, <2>2 DEF OthersOK, Save, ruleVars
<1>3. ASSUME NEW r \in Reminder, NEW k \in Thread, NEW u \in Member, NEW d \in Time,
             LookForReminder(r, k, u, d)
      PROVE  OthersOK'
  BY <1>3 DEF OthersOK, LookForReminder, ruleVars
<1>4. ASSUME NEW r \in Reminder, NEW u \in Member, NEW d \in Time, AddReminder(r, u, d)
      PROVE  OthersOK'
  BY <1>4 DEF OthersOK, AddReminder, ruleVars
<1>5. ASSUME NEW e \in Editor, NEW u \in Member, NEW d \in Time,
             NEW k \in Rule \cup Thread \cup {"manual"}, LoadElsewhere(e, u, d, k)
      PROVE  OthersOK'
  <2>1. Fresh \in Task
    BY <1>5, FreshIsBlank DEF LoadElsewhere, Blanks
  <2>2. Elsewhere(u, d, k) \in TaskRow /\ held' = [held EXCEPT ![e] = {<<Fresh, Elsewhere(u, d, k)>>}]
    BY <1>5, ElsewhereType DEF LoadElsewhere, Elsewhere
  <2> QED
    BY <1>5, <2>1, <2>2 DEF OthersOK, LoadElsewhere, ruleVars
<1> QED
  BY <1>1, <1>2, <1>3, <1>4, <1>5 DEF EditStep

LEMMA WorkStepOthers ==
  ASSUME OthersOK, Table,
         \/ \E k \in Rule : AskRule(k) \/ LoseRule(k)
         \/ \E s \in Scheduler : SchedulerStep(s)
         \/ \E s \in Sweeper : SweepStep(s) \/ CrashSweep(s)
  PROVE  OthersOK'
<1>1. ASSUME NEW k \in Rule, AskRule(k) \/ LoseRule(k) PROVE OthersOK'
  BY <1>1 DEF OthersOK, AskRule, LoseRule, editVars
<1>2. ASSUME NEW s \in Scheduler, NEW k \in Rule, LookUp(s, k) PROVE OthersOK'
  BY <1>2 DEF OthersOK, LookUp, editVars
<1>3. ASSUME NEW s \in Scheduler, NEW u \in Member, NEW d \in Time, Insert(s, u, d) PROVE OthersOK'
  BY <1>3 DEF OthersOK, Insert, editVars
<1>4. ASSUME NEW s \in Scheduler, Conflict(s) PROVE OthersOK'
  BY <1>4 DEF OthersOK, Conflict, editVars
<1>5. ASSUME NEW s \in Sweeper, StartSweep(s) \/ CrashSweep(s) PROVE OthersOK'
  BY <1>5 DEF OthersOK, StartSweep, CrashSweep, ruleVars, editVars
<1>6. ASSUME NEW s \in Sweeper, NEW t \in Task, Flag(s, t) PROVE OthersOK'
  <2>1. alert' \in [Task -> [Member -> {"none", "unread", "read"}]]
    BY <1>6, NotifyType DEF OthersOK, Flag
  <2>2. sweep' \in [Sweeper -> SUBSET Task]
    BY <1>6 DEF OthersOK, Flag
  <2> QED
    BY <1>6, <2>1, <2>2 DEF OthersOK, Flag, ruleVars, editVars
<1> QED
  BY <1>1, <1>2, <1>3, <1>4, <1>5, <1>6 DEF SchedulerStep, SweepStep

------------------------------------------------------------------------------
(* Then the table.                                                         *)

\* A row that is given another status.
LEMMA StatusRow ==
  ASSUME NEW r \in TaskRow, NEW s \in OpenStatus \cup ClosedStatus
  PROVE  /\ [r EXCEPT !.status = s] \in TaskRow
         /\ [r EXCEPT !.status = s].status = s
         /\ [r EXCEPT !.status = s].key = r.key /\ [r EXCEPT !.status = s].here = r.here
BY DEF TaskRow

\* A row that is given another due time.
LEMMA DueRow ==
  ASSUME NEW r \in TaskRow, NEW d \in Time
  PROVE  /\ [r EXCEPT !.due = d] \in TaskRow
         /\ [r EXCEPT !.due = d].status = r.status
         /\ [r EXCEPT !.due = d].key = r.key /\ [r EXCEPT !.due = d].here = r.here
BY DEF TaskRow

\* A row that is given another owner, due time and lead.
Edited(r, u, d, h) == [r EXCEPT !.owner = u, !.due = d, !.here = h]

LEMMA EditedRow ==
  ASSUME NEW r \in TaskRow, NEW u \in Member, NEW d \in Time, NEW h \in BOOLEAN
  PROVE  /\ Edited(r, u, d, h) \in TaskRow
         /\ Edited(r, u, d, h).key = r.key /\ Edited(r, u, d, h).here = h
         /\ Edited(r, u, d, h).status = r.status
<1> DEFINE q == [r EXCEPT !.owner = u]
           s == [q EXCEPT !.due = d]
<1>1. q \in TaskRow /\ q.key = r.key /\ q.status = r.status
  BY DEF TaskRow
<1> HIDE DEF q
<1>2. s \in TaskRow /\ s.key = r.key /\ s.status = r.status
  BY <1>1, DueRow
<1> HIDE DEF s
<1>3. /\ [s EXCEPT !.here = h] \in TaskRow /\ [s EXCEPT !.here = h].here = h
      /\ [s EXCEPT !.here = h].key = r.key /\ [s EXCEPT !.here = h].status = r.status
  BY <1>2, PlacedRow
<1> QED
  BY <1>3 DEF Edited, q, s

\* What a PATCH writes.
LEMMA SaveWrites ==
  ASSUME OthersOK, NEW e \in Editor, NEW u \in Member, NEW d \in Time, NEW h \in BOOLEAN,
         Save(e, u, d, h)
  PROVE  \E x \in held[e] :
           /\ x[1] \in Task /\ x[2] \in TaskRow
           /\ \/ UNCHANGED <<task, stray>>
              \/ /\ Admits(x[1], Edited(x[2], u, d, h)) /\ (lead \/ ~h)
                 /\ Write(x[1], Edited(x[2], u, d, h))
<1>1. PICK x \in held[e] :
        \/ Admits(x[1], Edited(x[2], u, d, h)) /\ (lead \/ ~h) /\ Write(x[1], Edited(x[2], u, d, h))
        \/ UNCHANGED <<task, stray>>
  BY DEF Save, Edited
<1>2. x[1] \in Task /\ x[2] \in TaskRow
  BY DEF OthersOK
<1> QED
  BY <1>1, <1>2

\* Rows that change without occupying more than they did.
LEMMA ChangeKeeps ==
  ASSUME Table, NEW t \in Task, NEW r \in TaskRow, r.key = task[t].key, r.here = task[t].here,
         r.status \in OpenStatus => Open(t) /\ task[t] # Blank,
         task' = [task EXCEPT ![t] = r]
  PROVE  Table'
<1>1. task' \in [Task -> TaskRow \cup {Blank}]
  BY DEF Table
<1>2. \A v \in Task, k \in Key : Occupies(task'[v], k) => Occupies(task[v], k)
  BY DEF Table, Occupies, Open
<1> QED
  BY <1>1, <1>2, NoNewOccupant DEF Table

\* A manual task is put anywhere.
LEMMA ManualKeeps ==
  ASSUME Table, NEW x, NEW u \in Member, NEW d \in Time,
         task' = [task EXCEPT ![x] = NewTask(u, d, "manual")]
  PROVE  Table'
<1>1. NewTask(u, d, "manual") \in TaskRow /\ NewTask(u, d, "manual").key = "manual"
  BY NewTaskType
<1>2. task' \in [Task -> TaskRow \cup {Blank}]
  BY <1>1 DEF Table
<1>3. \A v \in Task, k \in Key : Occupies(task'[v], k) => Occupies(task[v], k)
  BY <1>1, KeyAssumption DEF Table, Occupies
<1> QED
  BY <1>2, <1>3, NoNewOccupant DEF Table

LEMMA OpenRow ==
  ASSUME Table, NEW t \in Task, Open(t)
  PROVE  task[t] # Blank /\ task[t] \in TaskRow
BY DEF Table, Open, Blank, OpenStatus

LEMMA UserStepTable == IInv /\ UserStep => Table'
<1> SUFFICES ASSUME IInv, UserStep PROVE Table'
  OBVIOUS
<1>0. OthersOK /\ Table
  BY IInvIs
<1>1. ASSUME NEW u \in Member, NEW d \in Time, Create(u, d) PROVE Table'
  BY <1>0, <1>1, ManualKeeps DEF Create
<1>2. ASSUME NEW t \in Task, NEW d \in Time, Complete(t, d) PROVE Table'
  <2> DEFINE done == [task[t] EXCEPT !.status = "done"]
             new == Successor(task[t], d)
  <2>1. task[t] # Blank /\ task[t] \in TaskRow
    BY <1>0, <1>2, OpenRow DEF Complete
  <2>2. done \in TaskRow /\ done.status = "done"
    BY <2>1, StatusRow DEF ClosedStatus
  <2>3. new \in TaskRow /\ new.key = "manual"
    BY <2>1, SuccessorType
  <2>4. task' = [[task EXCEPT ![t] = done] EXCEPT ![Fresh] = new]
    BY <1>2 DEF Complete
  <2> HIDE DEF done, new
  <2>5. task' \in [Task -> TaskRow \cup {Blank}]
    BY <1>0, <2>2, <2>3, <2>4 DEF Table
  <2>6. \A v \in Task : task'[v] = task[v] \/ task'[v] = done \/ task'[v] = new
    BY <1>0, <2>4 DEF Table
  <2>7. \A v \in Task, k \in Key : Occupies(task'[v], k) => Occupies(task[v], k)
    BY <2>2, <2>3, <2>6, KeyAssumption DEF Occupies, OpenStatus
  <2> QED
    BY <1>0, <2>5, <2>7, NoNewOccupant DEF Table
<1>3. ASSUME NEW t \in Task, NEW d \in Time, Reschedule(t, d) PROVE Table'
  <2> DEFINE pending == [task[t] EXCEPT !.status = "pending"]
             later == [pending EXCEPT !.due = d]
  <2>1. task[t] # Blank /\ task[t] \in TaskRow
    BY <1>0, <1>3, OpenRow DEF Reschedule
  <2>2. pending \in TaskRow /\ pending.key = task[t].key /\ pending.here = task[t].here
    BY <2>1, StatusRow DEF OpenStatus
  <2>3. task' = [task EXCEPT ![t] = later]
    BY <1>0, <1>3 DEF Reschedule, Table
  <2> HIDE DEF pending
  <2>4. later \in TaskRow /\ later.key = task[t].key /\ later.here = task[t].here
    BY <2>2, DueRow
  <2> HIDE DEF later
  <2> QED
    BY <1>0, <1>3, <2>1, <2>3, <2>4, ChangeKeeps DEF Reschedule
<1>4. ASSUME NEW t \in Task, Cancel(t) PROVE Table'
  <2> DEFINE new == [task[t] EXCEPT !.status = "cancelled"]
  <2>1. task[t] # Blank /\ task[t] \in TaskRow
    BY <1>0, <1>4, OpenRow DEF Cancel
  <2>2. new \in TaskRow /\ new.status = "cancelled" /\ new.key = task[t].key
        /\ new.here = task[t].here
    BY <2>1, StatusRow DEF ClosedStatus
  <2>3. task' = [task EXCEPT ![t] = new]
    BY <1>4 DEF Cancel
  <2> HIDE DEF new
  <2> QED
    BY <1>0, <1>4, <2>1, <2>2, <2>3, ChangeKeeps DEF Cancel
<1>5. ASSUME NEW t \in Task, NEW u \in Member, Read(t, u) PROVE Table'
  BY <1>0, <1>5 DEF Read, Table, Unique, Occupies
<1> QED
  BY <1>1, <1>2, <1>3, <1>4, <1>5 DEF UserStep

LEMMA SameTable == Table /\ UNCHANGED task => Table'
BY DEF Table, Unique, Occupies

LEMMA EditStepTable == IInv /\ EditStep => Table'
<1> SUFFICES ASSUME IInv, EditStep PROVE Table'
  OBVIOUS
<1>0. OthersOK /\ Table
  BY IInvIs
<1>1. ASSUME NEW e \in Editor, NEW t \in Task, Load(e, t) PROVE Table'
  BY <1>0, <1>1, SameTable DEF Load
<1>2. ASSUME NEW e \in Editor, NEW u \in Member, NEW d \in Time, NEW h \in BOOLEAN,
             Save(e, u, d, h)
      PROVE  Table'
  <2>1. PICK x \in held[e] :
          /\ x[1] \in Task /\ x[2] \in TaskRow
          /\ \/ UNCHANGED <<task, stray>>
             \/ /\ Admits(x[1], Edited(x[2], u, d, h)) /\ (lead \/ ~h)
                /\ Write(x[1], Edited(x[2], u, d, h))
    BY <1>0, <1>2, SaveWrites
  <2> DEFINE r == Edited(x[2], u, d, h)
  <2>2. r \in TaskRow
    BY <2>1, EditedRow
  <2>3. task' = task \/ (Admits(x[1], r) /\ task' = [task EXCEPT ![x[1]] = r])
    BY <2>1 DEF Write
  <2> HIDE DEF r
  <2> QED
    BY <1>0, <2>2, <2>3, SameTable, AdmittedKeeps DEF Table
<1>3. ASSUME NEW r \in Reminder, NEW k \in Thread, NEW u \in Member, NEW d \in Time,
             LookForReminder(r, k, u, d)
      PROVE  Table'
  BY <1>0, <1>3, SameTable, ReopenKeeps DEF LookForReminder, Table, Key
<1>4. ASSUME NEW r \in Reminder, NEW u \in Member, NEW d \in Time, AddReminder(r, u, d)
      PROVE  Table'
  <2>1. remind[r] \in Key
    BY <1>0, <1>4 DEF AddReminder, OthersOK, Key
  <2>2. NewTask(u, d, remind[r]) \in TaskRow
    BY <2>1, NewTaskType
  <2> QED
    BY <1>0, <1>4, <2>1, <2>2, SameTable, AdmittedKeeps, ReopenKeeps DEF AddReminder, Table
<1>5. ASSUME NEW e \in Editor, NEW u \in Member, NEW d \in Time,
             NEW k \in Rule \cup Thread \cup {"manual"}, LoadElsewhere(e, u, d, k)
      PROVE  Table'
  <2>1. Elsewhere(u, d, k) \in TaskRow /\ ~Elsewhere(u, d, k).here
    BY ElsewhereType
  <2>2. task' = [task EXCEPT ![Fresh] = Elsewhere(u, d, k)]
    BY <1>5 DEF LoadElsewhere, Elsewhere
  <2> QED
    BY <2>1, <2>2, AdmittedKeeps DEF Admits, Table
<1> QED
  BY <1>1, <1>2, <1>3, <1>4, <1>5 DEF EditStep

LEMMA WorkStepTable ==
  ASSUME IInv,
         \/ \E k \in Rule : AskRule(k) \/ LoseRule(k)
         \/ \E s \in Scheduler : SchedulerStep(s)
         \/ \E s \in Sweeper : SweepStep(s) \/ CrashSweep(s)
  PROVE  Table'
<1>0. OthersOK /\ Table
  BY IInvIs
<1>1. ASSUME NEW k \in Rule, AskRule(k) \/ LoseRule(k) PROVE Table'
  BY <1>0, <1>1, SameTable DEF AskRule, LoseRule
<1>2. ASSUME NEW s \in Scheduler, NEW k \in Rule, LookUp(s, k) PROVE Table'
  BY <1>0, <1>2, SameTable DEF LookUp
<1>3. ASSUME NEW s \in Scheduler, NEW u \in Member, NEW d \in Time, Insert(s, u, d) PROVE Table'
  <2>1. NewTask(u, d, job[s]) \in TaskRow
    <3>1. job[s] \in Key
      BY <1>0, <1>3 DEF Insert, OthersOK, Key
    <3> QED
      BY <3>1, NewTaskType
  <2> QED
    BY <1>3, <2>1, AdmittedKeeps DEF Insert, Table
<1>4. ASSUME NEW s \in Scheduler, Conflict(s) PROVE Table'
  BY <1>0, <1>4, SameTable DEF Conflict
<1>5. ASSUME NEW s \in Sweeper, StartSweep(s) \/ CrashSweep(s) PROVE Table'
  BY <1>0, <1>5, SameTable DEF StartSweep, CrashSweep
<1>6. ASSUME NEW s \in Sweeper, NEW t \in Task, Flag(s, t) PROVE Table'
  <2>1. CASE task' = task
    BY <1>0, <2>1, SameTable
  <2>2. CASE Lapsed(t) /\ task' = [task EXCEPT ![t].status = "overdue"]
    <3> DEFINE new == [task[t] EXCEPT !.status = "overdue"]
    <3>1. Open(t)
      BY <2>2 DEF Lapsed, Open, OpenStatus
    <3>2. task[t] # Blank /\ task[t] \in TaskRow
      BY <1>0, <3>1, OpenRow
    <3>3. new \in TaskRow /\ new.key = task[t].key /\ new.here = task[t].here
      BY <3>2, StatusRow DEF OpenStatus
    <3>4. task' = [task EXCEPT ![t] = new]
      BY <2>2
    <3> HIDE DEF new
    <3> QED
      BY <1>0, <3>1, <3>2, <3>3, <3>4, ChangeKeeps
  <2> QED
    BY <1>6, <2>1, <2>2 DEF Flag
<1> QED
  BY <1>1, <1>2, <1>3, <1>4, <1>5, <1>6 DEF SchedulerStep, SweepStep

LEMMA NextIInv == IInv /\ [Next]_vars => IInv'
<1> SUFFICES ASSUME IInv, [Next]_vars PROVE IInv'
  OBVIOUS
<1>0. OthersOK /\ Table
  BY IInvIs
<1>1. CASE Tick
  <2>1. OthersOK'
    BY <1>0, <1>1, MaxTimeAssumption DEF Tick, OthersOK, ruleVars, editVars, Time
  <2>2. Table'
    BY <1>0, <1>1, SameTable DEF Tick
  <2> QED
    BY <2>1, <2>2, IInvIs DEF IInv, TypeOK, OthersOK, Table
<1>2. CASE UserStep
  BY <1>0, <1>2, UserStepOthers, UserStepTable DEF IInv, TypeOK, OthersOK, Table
<1>3. CASE EditStep
  BY <1>0, <1>3, EditStepOthers, EditStepTable DEF IInv, TypeOK, OthersOK, Table
<1>4. CASE \/ \E k \in Rule : AskRule(k) \/ LoseRule(k)
           \/ \E s \in Scheduler : SchedulerStep(s)
           \/ \E s \in Sweeper : SweepStep(s) \/ CrashSweep(s)
  BY <1>0, <1>4, WorkStepOthers, WorkStepTable DEF IInv, TypeOK, OthersOK, Table
<1>5. CASE DeleteLead
  <2>1. OthersOK'
    <3>1. alert' \in [Task -> [Member -> {"none", "unread", "read"}]]
      BY <1>0, <1>5 DEF DeleteLead, OthersOK
    <3>2. successors' \in [Task -> 0..2]
      BY <1>0, <1>5 DEF DeleteLead, OthersOK
    <3>3. UNCHANGED <<now, sweep, asked, job, remind, held, stray>> /\ lead' \in BOOLEAN
      BY <1>5 DEF DeleteLead, ruleVars, editVars
    <3> QED
      BY <1>0, <3>1, <3>2, <3>3 DEF OthersOK
  <2>2. task' \in [Task -> TaskRow \cup {Blank}]
    BY <1>0, <1>5 DEF DeleteLead, Table
  <2>3. \A v \in Task, k \in Key : ~Occupies(task'[v], k)
    BY <1>5 DEF DeleteLead, Occupies, Away
  <2>4. Table'
    BY <1>0, <2>2, <2>3, NoNewOccupant DEF Table
  <2> QED
    BY <2>1, <2>4 DEF IInv, TypeOK, OthersOK, Table
<1>6. CASE UNCHANGED vars
  BY <1>0, <1>6, SameTable DEF vars, ruleVars, editVars, IInv, TypeOK, OthersOK, Table
<1> QED
  BY <1>1, <1>2, <1>3, <1>4, <1>5, <1>6 DEF Next, TaskNext

------------------------------------------------------------------------------
\* Every state satisfies the inductive invariant: types and the unique constraint.
THEOREM Invariance == Spec => []IInv
BY InitIInv, NextIInv, PTL DEF Spec

\* Tasks, alerts and requests stay well formed, for any numbers of them.
THEOREM TypeCorrect == Spec => []TypeOK
<1>1. IInv => TypeOK
  BY DEF IInv
<1> QED
  BY <1>1, Invariance, PTL

\* Of a rule, a thread or a visit there are never two open tasks, however many
\* workers, sweeps and requests overlap, the unlocked PATCH and the inbox's
\* update_or_create included.
THEOREM OneOpenPerRuleCorrect == Spec => []OneOpenPerRule
<1>1. IInv => OneOpenPerRule
  <2> SUFFICES ASSUME IInv, NEW k \in Key PROVE Cardinality(OpenWith(k)) <= 1
    BY DEF OneOpenPerRule
  <2>1. \A t, u \in OpenWith(k) : t = u
    BY OpenWithIs DEF IInv, Unique
  <2> QED
    BY <2>1, AtMostOne
<1> QED
  BY <1>1, Invariance, PTL

------------------------------------------------------------------------------
(* What a step that locks the task it changes does to a row.               *)

\* A manual task or one of a rule is put on a blank row ...
Added(t) ==
  /\ t = Fresh /\ task[t] = Blank
  /\ task'[t] \in TaskRow /\ task'[t].status = "pending" /\ task'[t].key \in Rule \cup {"manual"}

\* ... and an open task is moved or closed.
Changed(t) ==
  /\ Open(t) /\ task[t] # Blank
  /\ task'[t] \in TaskRow /\ task'[t].key = task[t].key /\ task'[t].here = task[t].here
  /\ task'[t].owner = task[t].owner

LockedChange(t) == task'[t] = task[t] \/ Added(t) \/ Changed(t)
Locked == \A t \in Task : LockedChange(t)

\* No row goes, and every row keeps its key; without a PATCH, its lead too.
KeyKept == \A t \in Task : task[t] # Blank => task'[t] # Blank /\ task'[t].key = task[t].key
Kept == KeyKept /\ \A t \in Task : task[t] # Blank => task'[t].here = task[t].here

LEMMA RowIsNotBlank == \A r \in TaskRow : r # Blank
BY DEF TaskRow, Blank, OpenStatus, ClosedStatus

\* A row that is changed in place.
LEMMA ChangeInPlace ==
  ASSUME Table, NEW t \in Task, Open(t), NEW r \in TaskRow,
         r.key = task[t].key, r.here = task[t].here, r.owner = task[t].owner,
         task' = [task EXCEPT ![t] = r]
  PROVE  Locked /\ SameRows
<1>1. task[t] # Blank
  BY OpenRow
<1>2. \A v \in Task : task'[v] = IF v = t THEN r ELSE task[v]
  BY DEF Table
<1>3. Locked
  BY <1>1, <1>2 DEF Locked, LockedChange, Changed
<1>4. SameRows
  BY <1>1, <1>2, RowIsNotBlank DEF SameRows
<1> QED
  BY <1>3, <1>4

\* A row that is added.
LEMMA AddRow ==
  ASSUME Table, Fresh \in Blanks, NEW r \in TaskRow, task' = [task EXCEPT ![Fresh] = r]
  PROVE  /\ Cardinality(Blanks') = Cardinality(Blanks) - 1
         /\ r.status = "pending" /\ r.key \in Rule \cup {"manual"} => Locked
         /\ Kept
<1>1. \A v \in Task : task'[v] = IF v = Fresh THEN r ELSE task[v]
  BY DEF Table
<1>2. \A v \in Task : task'[v] = Blank <=> task[v] = Blank /\ v # Fresh
  BY <1>1, RowIsNotBlank
<1>3. ASSUME r.status = "pending", r.key \in Rule \cup {"manual"} PROVE Locked
  BY <1>1, <1>3 DEF Locked, LockedChange, Added, Blanks
<1>4. Kept
  BY <1>1 DEF Kept, KeyKept, Blanks
<1> QED
  BY <1>2, <1>3, <1>4, BlanksAfter

\* A step that leaves the table alone.
LEMMA NoRow == UNCHANGED task => Locked /\ SameRows
<1> SUFFICES ASSUME UNCHANGED task PROVE Locked /\ SameRows
  OBVIOUS
<1>1. Locked
  BY DEF Locked, LockedChange
<1>2. SameRows
  BY DEF SameRows
<1> QED
  BY <1>1, <1>2

\* The other fields of a row that is given another status or due time.
LEMMA OwnerStays ==
  ASSUME NEW r \in TaskRow, NEW s \in OpenStatus \cup ClosedStatus, NEW d \in Time
  PROVE  [r EXCEPT !.status = s].owner = r.owner /\ [r EXCEPT !.due = d].owner = r.owner
BY DEF TaskRow

LEMMA LeadStays == TaskNext => lead' = lead
BY DEF TaskNext, Tick, UserStep, Create, Complete, Reschedule, Cancel, Read, AskRule, LoseRule,
       SchedulerStep, LookUp, Insert, Conflict, SweepStep, StartSweep, Flag, CrashSweep,
       EditStep, Load, LoadElsewhere, Save, LookForReminder, AddReminder

LEMMA UserStepRows ==
  ASSUME OthersOK, Table, Places, UserStep
  PROVE  Locked /\ Places'
<1>l. lead' = lead
  BY LeadStays DEF TaskNext
<1>1. ASSUME NEW u \in Member, NEW d \in Time, Create(u, d) PROVE Locked /\ Places'
  <2>1. Fresh \in Blanks /\ Room
    BY <1>1, FreshIsBlank DEF Create
  <2> DEFINE r == NewTask(u, d, "manual")
  <2>2. r \in TaskRow /\ r.status = "pending" /\ r.key = "manual"
    BY NewTaskType DEF NewTask
  <2>3. task' = [task EXCEPT ![Fresh] = r]
    BY <1>1 DEF Create
  <2> HIDE DEF r
  <2>4. Locked /\ Cardinality(Blanks') = Cardinality(Blanks) - 1
    BY <2>1, <2>2, <2>3, AddRow
  <2>5. Promised' = Promised
    BY <1>1, SamePromises DEF Create, ruleVars, editVars
  <2> QED
    BY <2>1, <2>4, <2>5, <1>l, PlacesKept, CountedNow DEF Counted
<1>2. ASSUME NEW t \in Task, NEW d \in Time, Complete(t, d) PROVE Locked /\ Places'
  <2> DEFINE done == [task[t] EXCEPT !.status = "done"]
             new == Successor(task[t], d)
  <2>1. Fresh \in Blanks /\ Room
    BY <1>2, FreshIsBlank DEF Complete
  <2>2. Open(t) /\ task[t] # Blank /\ task[t] \in TaskRow
    BY <1>2, OpenRow DEF Complete
  <2>3. /\ done \in TaskRow /\ done.key = task[t].key /\ done.owner = task[t].owner
        /\ done.here = task[t].here
    BY <2>2, StatusRow, OwnerStays DEF ClosedStatus
  <2>4. new \in TaskRow /\ new.status = "pending" /\ new.key = "manual"
    BY <2>2, SuccessorType
  <2>5. task' = [[task EXCEPT ![t] = done] EXCEPT ![Fresh] = new]
    BY <1>2 DEF Complete
  <2> HIDE DEF done, new
  <2>6. Fresh # t /\ Fresh \in Task /\ task[Fresh] = Blank
    BY <2>1, <2>2 DEF Blanks
  <2>7. \A v \in Task : task'[v] = IF v = Fresh THEN new ELSE IF v = t THEN done ELSE task[v]
    BY <2>5, <2>6 DEF Table
  <2>8. Locked
    BY <2>2, <2>3, <2>4, <2>6, <2>7 DEF Locked, LockedChange, Added, Changed
  <2>9. \A v \in Task : task'[v] = Blank <=> task[v] = Blank /\ v # Fresh
    BY <2>2, <2>3, <2>4, <2>7, RowIsNotBlank
  <2>10. Cardinality(Blanks') = Cardinality(Blanks) - 1
    BY <2>1, <2>9, BlanksAfter
  <2>11. Promised' = Promised
    BY <1>2, SamePromises DEF Complete, ruleVars, editVars
  <2> QED
    BY <2>1, <2>8, <2>10, <2>11, <1>l, PlacesKept, CountedNow DEF Counted
<1>3. ASSUME NEW t \in Task, NEW d \in Time, Reschedule(t, d) PROVE Locked /\ Places'
  <2> DEFINE pending == [task[t] EXCEPT !.status = "pending"]
             later == [pending EXCEPT !.due = d]
  <2>1. Open(t) /\ task[t] # Blank /\ task[t] \in TaskRow
    BY <1>3, OpenRow DEF Reschedule
  <2>2. /\ pending \in TaskRow /\ pending.key = task[t].key /\ pending.owner = task[t].owner
        /\ pending.here = task[t].here
    BY <2>1, StatusRow, OwnerStays DEF OpenStatus
  <2>3. task' = [task EXCEPT ![t] = later]
    BY <1>3 DEF Reschedule, Table
  <2> HIDE DEF pending
  <2>4. /\ later \in TaskRow /\ later.key = task[t].key /\ later.owner = task[t].owner
        /\ later.here = task[t].here
    BY <2>2, DueRow, OwnerStays DEF OpenStatus
  <2> HIDE DEF later
  <2>5. Locked /\ SameRows
    BY <2>1, <2>3, <2>4, ChangeInPlace
  <2>6. Promised' = Promised
    BY <1>3, SamePromises DEF Reschedule, ruleVars, editVars
  <2> QED
    BY <2>5, <2>6, <1>l, PlacesKept, CountedNow DEF Counted
<1>4. ASSUME NEW t \in Task, Cancel(t) PROVE Locked /\ Places'
  <2> DEFINE new == [task[t] EXCEPT !.status = "cancelled"]
  <2>1. Open(t) /\ task[t] # Blank /\ task[t] \in TaskRow
    BY <1>4, OpenRow DEF Cancel
  <2>2. /\ new \in TaskRow /\ new.key = task[t].key /\ new.owner = task[t].owner
        /\ new.here = task[t].here
    BY <2>1, StatusRow, OwnerStays DEF ClosedStatus
  <2>3. task' = [task EXCEPT ![t] = new]
    BY <1>4 DEF Cancel
  <2> HIDE DEF new
  <2>4. Locked /\ SameRows
    BY <2>1, <2>2, <2>3, ChangeInPlace
  <2>5. Promised' = Promised
    BY <1>4, SamePromises DEF Cancel, ruleVars, editVars
  <2> QED
    BY <2>4, <2>5, <1>l, PlacesKept, CountedNow DEF Counted
<1>5. ASSUME NEW t \in Task, NEW u \in Member, Read(t, u) PROVE Locked /\ Places'
  <2>1. Locked /\ SameRows
    BY <1>5, NoRow DEF Read
  <2>2. Promised' = Promised
    BY <1>5, SamePromises DEF Read, ruleVars, editVars
  <2> QED
    BY <2>1, <2>2, <1>l, PlacesKept, CountedNow DEF Counted
<1> QED
  BY <1>1, <1>2, <1>3, <1>4, <1>5 DEF UserStep

LEMMA OneMoreOrLess ==
  ASSUME NEW S, IsFiniteSet(S), NEW x
  PROVE  Cardinality(S \cup {x}) <= Cardinality(S) + 1 /\ Cardinality(S \ {x}) <= Cardinality(S)
<1>1. Cardinality(S) \in Nat
  BY FS_CardinalityType
<1>2. Cardinality(S \cup {x}) = Cardinality(S) \/ Cardinality(S \cup {x}) = Cardinality(S) + 1
  BY FS_AddElement
<1>3. Cardinality(S \ {x}) = Cardinality(S) \/ Cardinality(S \ {x}) = Cardinality(S) - 1
  BY FS_RemoveElement
<1> QED
  BY <1>1, <1>2, <1>3

LEMMA AskRulePlaces ==
  ASSUME OthersOK, Places, NEW k \in Rule, AskRule(k) \/ LoseRule(k)
  PROVE  Locked /\ Places'
<1>l. lead' = lead
  BY LeadStays DEF TaskNext
<1>0. Locked /\ SameRows
  BY NoRow DEF AskRule, LoseRule
<1>1. Busy' = Busy /\ Asking' = Asking
  BY DEF AskRule, LoseRule, editVars, Busy, Asking
<1>2. CASE AskRule(k)
  <2>1. Sent' = Sent \cup {k}
    BY <1>2 DEF OthersOK, AskRule, Sent
  <2>2. Cardinality(Sent') <= Cardinality(Sent) + 1
    BY <2>1, CountedNow, OneMoreOrLess DEF Counted
  <2>3. Room
    BY <1>2 DEF AskRule
  <2> QED
    BY <1>0, <1>1, <2>2, <2>3, <1>l, PlacesKept, CountedNow, CountedNext DEF Counted
<1>3. CASE LoseRule(k)
  <2>1. Sent' = Sent \ {k}
    BY <1>3 DEF OthersOK, LoseRule, Sent
  <2>2. Cardinality(Sent') <= Cardinality(Sent)
    BY <2>1, CountedNow, OneMoreOrLess DEF Counted
  <2> QED
    BY <1>0, <1>1, <2>2, <1>l, PlacesKept, CountedNow, CountedNext DEF Counted
<1> QED
  BY <1>2, <1>3

LEMMA SchedulerPlaces ==
  ASSUME OthersOK, Table, Places, NEW s \in Scheduler, SchedulerStep(s)
  PROVE  Locked /\ Places'
<1>l. lead' = lead
  BY LeadStays DEF TaskNext
<1>1. ASSUME NEW k \in Rule, LookUp(s, k) PROVE Locked /\ Places'
  <2>1. Locked /\ SameRows
    BY <1>1, NoRow DEF LookUp
  <2>2. Sent' = Sent \ {k} /\ k \in Sent
    BY <1>1 DEF OthersOK, LookUp, Sent
  <2>3. Cardinality(Sent') = Cardinality(Sent) - 1
    BY <2>2, CountedNow, FS_RemoveElement DEF Counted
  <2>4. Busy' = Busy \cup {s} \/ Busy' = Busy
    BY <1>1, KeyAssumption DEF OthersOK, LookUp, Busy, Key
  <2>5. Cardinality(Busy') <= Cardinality(Busy) + 1
    BY <2>4, CountedNow, OneMoreOrLess DEF Counted
  <2>6. Asking' = Asking
    BY <1>1 DEF LookUp, editVars, Asking
  <2> QED
    BY <2>1, <2>3, <2>5, <2>6, <1>l, PlacesKept, CountedNow, CountedNext DEF Counted
<1>2. ASSUME job[s] # "idle", job' = [job EXCEPT ![s] = "idle"], UNCHANGED <<asked, remind>>
      PROVE  Promised' = Promised - 1
  <2>1. Busy' = Busy \ {s} /\ s \in Busy
    BY <1>2 DEF OthersOK, Busy
  <2>2. Cardinality(Busy') = Cardinality(Busy) - 1
    BY <2>1, CountedNow, FS_RemoveElement DEF Counted
  <2>3. Sent' = Sent /\ Asking' = Asking
    BY <1>2 DEF Sent, Asking
  <2> QED
    BY <2>2, <2>3, CountedNow, CountedNext DEF Counted
<1>3. ASSUME NEW u \in Member, NEW d \in Time, Insert(s, u, d) PROVE Locked /\ Places'
  <2> DEFINE r == NewTask(u, d, job[s])
  <2>1. Fresh \in Blanks
    BY <1>3, SomePromised, FreshIsBlank DEF Insert
  <2>2. job[s] \in Rule
    BY <1>3 DEF Insert, OthersOK
  <2>3. r \in TaskRow /\ r.status = "pending" /\ r.key \in Rule \cup {"manual"}
    BY <2>2, NewTaskType DEF NewTask, Key
  <2>4. task' = [task EXCEPT ![Fresh] = r]
    BY <1>3 DEF Insert
  <2> HIDE DEF r
  <2>5. Locked /\ Cardinality(Blanks') = Cardinality(Blanks) - 1
    BY <2>1, <2>3, <2>4, AddRow
  <2>6. Promised' = Promised - 1
    BY <1>2, <1>3 DEF Insert, editVars
  <2> QED
    BY <2>5, <2>6, <1>l, PlacesKept, CountedNow DEF Counted
<1>4. ASSUME Conflict(s) PROVE Locked /\ Places'
  <2>1. Locked /\ SameRows
    BY <1>4, NoRow DEF Conflict
  <2>2. Promised' = Promised - 1
    BY <1>2, <1>4 DEF Conflict, editVars
  <2> QED
    BY <2>1, <2>2, <1>l, PlacesKept, CountedNow DEF Counted
<1> QED
  BY <1>1, <1>3, <1>4 DEF SchedulerStep

LEMMA SweepPlaces ==
  ASSUME OthersOK, Table, Places, NEW s \in Sweeper, SweepStep(s) \/ CrashSweep(s)
  PROVE  Locked /\ Places'
<1>l. lead' = lead
  BY LeadStays DEF TaskNext
<1>1. Promised' = Promised
  BY SamePromises DEF SweepStep, StartSweep, Flag, CrashSweep, ruleVars, editVars
<1>2. Locked /\ SameRows
  <2>1. CASE UNCHANGED task
    BY <2>1, NoRow
  <2>2. ASSUME NEW t \in Task, Lapsed(t), task' = [task EXCEPT ![t].status = "overdue"]
        PROVE  Locked /\ SameRows
    <3> DEFINE new == [task[t] EXCEPT !.status = "overdue"]
    <3>1. Open(t)
      BY <2>2 DEF Lapsed, Open, OpenStatus
    <3>2. task[t] # Blank /\ task[t] \in TaskRow
      BY <3>1, OpenRow
    <3>3. /\ new \in TaskRow /\ new.key = task[t].key /\ new.owner = task[t].owner
          /\ new.here = task[t].here
      BY <3>2, StatusRow, OwnerStays DEF OpenStatus
    <3>4. task' = [task EXCEPT ![t] = new]
      BY <2>2
    <3> HIDE DEF new
    <3> QED
      BY <3>1, <3>3, <3>4, ChangeInPlace
  <2> QED
    BY <2>1, <2>2 DEF SweepStep, StartSweep, Flag, CrashSweep
<1> QED
  BY <1>1, <1>2, <1>l, PlacesKept, CountedNow DEF Counted

------------------------------------------------------------------------------
(* What any step but the lead's deletion does to a row: it stays, and its  *)
(* key with it.                                                            *)

\* Nobody uses the generic update.
NoEditor == Editor = {}

\* What an editor has loaded is a row that is still there, with the key it had.
HeldIsReal ==
  \A e \in Editor : \A x \in held[e] : lead => task[x[1]] # Blank /\ task[x[1]].key = x[2].key

LEMMA LockedKeeps == Locked => Kept
BY RowIsNotBlank DEF Locked, LockedChange, Added, Changed, Kept, KeyKept

\* A row that is replaced by one with its key.
LEMMA ReplaceRow ==
  ASSUME Table, NEW t \in Task, task[t] # Blank, NEW r \in TaskRow, r.key = task[t].key,
         task' = [task EXCEPT ![t] = r]
  PROVE  KeyKept /\ SameRows /\ (r.here = task[t].here => Kept)
<1>1. \A v \in Task : task'[v] = IF v = t THEN r ELSE task[v]
  BY DEF Table
<1>2. KeyKept
  BY <1>1, RowIsNotBlank DEF KeyKept
<1>3. SameRows
  BY <1>1, RowIsNotBlank DEF SameRows
<1>4. r.here = task[t].here => Kept
  BY <1>1, <1>2 DEF Kept
<1> QED
  BY <1>2, <1>3, <1>4

LEMMA ReopenRow ==
  ASSUME Table, NEW k \in Thread, NEW u \in Member, NEW d \in Time, Reopen(k, u, d)
  PROVE  Kept /\ SameRows
<1>1. PICK t \in AllWith(k) : task' = [task EXCEPT ![t] = NewTask(u, d, k)]
  BY DEF Reopen
<1>2. t \in Task /\ task[t] # Blank /\ task[t].key = k /\ task[t].here = TRUE
  BY DEF AllWith, Table, TaskRow
<1>3. /\ NewTask(u, d, k) \in TaskRow /\ NewTask(u, d, k).key = k
      /\ NewTask(u, d, k).here = TRUE
  BY NewTaskType DEF Key, TaskRow
<1> QED
  BY <1>1, <1>2, <1>3, ReplaceRow

LEMMA EditStepRows ==
  ASSUME OthersOK, Table, Places, HeldIsReal, EditStep
  PROVE  Places' /\ (lead => KeyKept) /\ (NoEditor => Kept)
<1>l. lead' = lead
  BY LeadStays DEF TaskNext
<1>n. UNCHANGED task => Kept /\ KeyKept /\ SameRows
  BY NoRow, LockedKeeps DEF Kept
<1>1. ASSUME NEW e \in Editor, NEW t \in Task, Load(e, t)
      PROVE  Places' /\ (lead => KeyKept) /\ (NoEditor => Kept)
  <2>1. Promised' = Promised /\ UNCHANGED task
    BY <1>1, SamePromises DEF Load, ruleVars
  <2> QED
    BY <1>l, <1>n, <2>1, PlacesKept, CountedNow DEF Counted
<1>2. ASSUME NEW e \in Editor, NEW u \in Member, NEW d \in Time, NEW h \in BOOLEAN,
             Save(e, u, d, h)
      PROVE  Places' /\ (lead => KeyKept) /\ (NoEditor => Kept)
  <2>1. PICK x \in held[e] :
          /\ x[1] \in Task /\ x[2] \in TaskRow
          /\ \/ UNCHANGED <<task, stray>>
             \/ /\ Admits(x[1], Edited(x[2], u, d, h)) /\ (lead \/ ~h)
                /\ Write(x[1], Edited(x[2], u, d, h))
    BY <1>2, SaveWrites
  <2> DEFINE r == Edited(x[2], u, d, h)
  <2>2. r \in TaskRow /\ r.key = x[2].key
    BY <2>1, EditedRow
  <2>3. UNCHANGED task \/ task' = [task EXCEPT ![x[1]] = r]
    BY <2>1 DEF Write
  <2> HIDE DEF r
  <2>4. ASSUME lead PROVE KeyKept /\ SameRows
    <3>1. task[x[1]] # Blank /\ task[x[1]].key = x[2].key
      BY <2>4 DEF HeldIsReal
    <3> QED
      BY <1>n, <2>1, <2>2, <2>3, <3>1, ReplaceRow
  <2>5. Promised' = Promised
    BY <1>2, SamePromises DEF Save, ruleVars
  <2>6. Places'
    <3>1. CASE lead
      BY <1>l, <2>4, <2>5, <3>1, PlacesKept, CountedNow DEF Counted
    <3> QED
      BY <1>l, <3>1 DEF Places
  <2> QED
    BY <2>4, <2>6 DEF NoEditor
<1>3. ASSUME NEW r \in Reminder, NEW k \in Thread, NEW u \in Member, NEW d \in Time,
             LookForReminder(r, k, u, d)
      PROVE  Places' /\ Kept
  <2>1. CASE Reopen(k, u, d) /\ UNCHANGED remind
    <3>1. Kept /\ SameRows
      BY <2>1, ReopenRow
    <3>2. Promised' = Promised
      BY <1>3, <2>1, SamePromises DEF LookForReminder, ruleVars
    <3> QED
      BY <1>l, <3>1, <3>2, PlacesKept, CountedNow DEF Counted
  <2>2. CASE Room /\ remind' = [remind EXCEPT ![r] = k] /\ UNCHANGED task
    <3>1. Asking' = Asking \cup {r}
      BY <1>3, <2>2, KeyAssumption DEF OthersOK, Asking, Key
    <3>2. Cardinality(Asking') <= Cardinality(Asking) + 1
      BY <3>1, CountedNow, OneMoreOrLess DEF Counted
    <3>3. Sent' = Sent /\ Busy' = Busy
      BY <1>3 DEF LookForReminder, ruleVars, Sent, Busy
    <3> QED
      BY <1>l, <1>n, <2>2, <3>2, <3>3, PlacesKept, CountedNow, CountedNext DEF Counted
  <2> QED
    BY <1>3, <2>1, <2>2 DEF LookForReminder
<1>4. ASSUME NEW r \in Reminder, NEW u \in Member, NEW d \in Time, AddReminder(r, u, d)
      PROVE  Places' /\ Kept
  <2>1. remind[r] \in Thread /\ r \in Asking
    BY <1>4 DEF AddReminder, OthersOK, Asking
  <2>2. Promised' = Promised - 1
    <3>1. Asking' = Asking \ {r}
      BY <1>4 DEF AddReminder, OthersOK, Asking
    <3>2. Cardinality(Asking') = Cardinality(Asking) - 1
      BY <2>1, <3>1, CountedNow, FS_RemoveElement DEF Counted
    <3>3. Sent' = Sent /\ Busy' = Busy
      BY <1>4 DEF AddReminder, ruleVars, Sent, Busy
    <3> QED
      BY <3>2, <3>3, CountedNow, CountedNext DEF Counted
  <2>3. CASE lead /\ task' = [task EXCEPT ![Fresh] = NewTask(u, d, remind[r])]
    <3> DEFINE row == NewTask(u, d, remind[r])
    <3>1. row \in TaskRow
      BY <2>1, NewTaskType DEF Key
    <3>2. task' = [task EXCEPT ![Fresh] = row]
      BY <2>3
    <3> HIDE DEF row
    <3>3. Fresh \in Blanks
      BY <1>4, <2>3, SomePromised, FreshIsBlank DEF AddReminder
    <3>4. Cardinality(Blanks') = Cardinality(Blanks) - 1 /\ Kept
      BY <3>1, <3>2, <3>3, AddRow
    <3> QED
      BY <1>l, <2>2, <3>4, PlacesKept, CountedNow DEF Counted
  <2>4. CASE Reopen(remind[r], u, d)
    <3>1. Kept /\ SameRows
      BY <2>1, <2>4, ReopenRow
    <3> QED
      BY <1>l, <2>2, <3>1, PlacesKept, CountedNow DEF Counted
  <2>5. CASE UNCHANGED task
    BY <1>l, <1>n, <2>2, <2>5, PlacesKept, CountedNow DEF Counted
  <2> QED
    BY <1>4, <2>3, <2>4, <2>5 DEF AddReminder
<1>5. ASSUME NEW e \in Editor, NEW u \in Member, NEW d \in Time,
             NEW k \in Rule \cup Thread \cup {"manual"}, LoadElsewhere(e, u, d, k)
      PROVE  Places' /\ (lead => KeyKept) /\ (NoEditor => Kept)
  <2>1. Fresh \in Blanks /\ Room
    BY <1>5, FreshIsBlank DEF LoadElsewhere
  <2>2. Elsewhere(u, d, k) \in TaskRow
    BY ElsewhereType
  <2>3. task' = [task EXCEPT ![Fresh] = Elsewhere(u, d, k)]
    BY <1>5 DEF LoadElsewhere, Elsewhere
  <2>4. Cardinality(Blanks') = Cardinality(Blanks) - 1 /\ Kept
    BY <2>1, <2>2, <2>3, AddRow
  <2>5. Promised' = Promised
    BY <1>5, SamePromises DEF LoadElsewhere, ruleVars
  <2> QED
    BY <1>l, <2>1, <2>4, <2>5, PlacesKept, CountedNow DEF Counted, Kept
<1> QED
  BY <1>1, <1>2, <1>3, <1>4, <1>5 DEF EditStep, Kept

\* A step of the lead's tasks other than an edit is a step that locks.
LEMMA TaskStepRows ==
  ASSUME OthersOK, Table, Places, TaskNext, ~EditStep
  PROVE  Locked /\ Places'
<1>1. CASE Tick
  <2>1. Locked /\ SameRows /\ lead' = lead
    BY <1>1, NoRow DEF Tick
  <2>2. Promised' = Promised
    BY <1>1, SamePromises DEF Tick, ruleVars, editVars
  <2> QED
    BY <2>1, <2>2, PlacesKept, CountedNow DEF Counted
<1> QED
  BY <1>1, UserStepRows, AskRulePlaces, SchedulerPlaces, SweepPlaces DEF TaskNext

------------------------------------------------------------------------------
(* The strengthened invariant.                                             *)

Sound == IInv /\ Places /\ HeldIsReal

LEMMA InitSound == Init => Sound
<1> SUFFICES ASSUME Init PROVE Sound
  OBVIOUS
<1>1. Sent = {} /\ Busy = {} /\ Asking = {}
  BY DEF Init, Sent, Busy, Asking
<1>2. Cardinality(Sent) = 0 /\ Cardinality(Busy) = 0 /\ Cardinality(Asking) = 0
  BY <1>1, FS_EmptySet
<1>3. Places
  BY <1>2, CountedNow DEF Counted, Places
<1>4. HeldIsReal
  BY DEF Init, HeldIsReal
<1> QED
  BY <1>3, <1>4, InitIInv DEF Sound

\* What editors hold stays real while rows stay.
LEMMA HeldStays ==
  ASSUME OthersOK, HeldIsReal, lead => KeyKept, lead' => lead,
         \A e \in Editor : \A x \in held'[e] :
           x \in held[e] \/ (task'[x[1]] # Blank /\ task'[x[1]].key = x[2].key)
  PROVE  HeldIsReal'
<1> SUFFICES ASSUME NEW e \in Editor, NEW x \in held'[e], lead', x \in held[e]
             PROVE  task'[x[1]] # Blank /\ task'[x[1]].key = x[2].key
  BY DEF HeldIsReal
<1>1. x[1] \in Task
  BY DEF OthersOK
<1> QED
  BY <1>1 DEF HeldIsReal, KeyKept

LEMMA TaskNextSound ==
  ASSUME Sound, TaskNext
  PROVE  Sound' /\ (lead => KeyKept) /\ (NoEditor => Kept) /\ (~EditStep => Locked)
<1>0. OthersOK /\ Table /\ Places /\ HeldIsReal
  BY IInvIs DEF Sound
<1>1. IInv'
  BY NextIInv DEF Sound, Next
<1>2. Places' /\ (lead => KeyKept) /\ (NoEditor => Kept) /\ (~EditStep => Locked)
  BY <1>0, EditStepRows, TaskStepRows, LockedKeeps DEF Kept
<1>3. HeldIsReal'
  <2>1. ASSUME ~EditStep PROVE UNCHANGED <<lead, held>>
    BY <2>1 DEF TaskNext, Tick, UserStep, Create, Complete, Reschedule, Cancel, Read, AskRule, LoseRule,
                SchedulerStep, LookUp, Insert, Conflict, SweepStep, StartSweep, Flag, CrashSweep, editVars
  <2>2. CASE ~EditStep
    BY <1>0, <1>2, <2>1, <2>2, HeldStays
  <2>3. ASSUME NEW e \in Editor, NEW t \in Task, Load(e, t) PROVE HeldIsReal'
    <3>1. UNCHANGED <<lead, task>> /\ task[t] # Blank /\ held' = [held EXCEPT ![e] = {<<t, task[t]>>}]
      BY <2>3 DEF Load
    <3>2. \A f \in Editor : \A x \in held'[f] :
            x \in held[f] \/ (task'[x[1]] # Blank /\ task'[x[1]].key = x[2].key)
      BY <1>0, <3>1 DEF OthersOK
    <3> QED
      BY <1>0, <1>2, <3>1, <3>2, HeldStays
  <2>4. ASSUME NEW e \in Editor, NEW u \in Member, NEW d \in Time, NEW h \in BOOLEAN,
               Save(e, u, d, h)
        PROVE  HeldIsReal'
    <3>1. UNCHANGED lead /\ held' = [held EXCEPT ![e] = {}]
      BY <2>4 DEF Save
    <3>2. \A f \in Editor : \A x \in held'[f] : x \in held[f]
      BY <1>0, <3>1 DEF OthersOK
    <3> QED
      BY <1>0, <1>2, <3>1, <3>2, HeldStays
  <2>5. ASSUME NEW r \in Reminder, NEW u \in Member, NEW d \in Time,
               (\E k \in Thread : LookForReminder(r, k, u, d)) \/ AddReminder(r, u, d)
        PROVE  HeldIsReal'
    <3>1. UNCHANGED <<lead, held>>
      BY <2>5 DEF LookForReminder, AddReminder
    <3> QED
      BY <1>0, <1>2, <3>1, HeldStays
  <2>6. ASSUME NEW e \in Editor, NEW u \in Member, NEW d \in Time,
               NEW k \in Rule \cup Thread \cup {"manual"}, LoadElsewhere(e, u, d, k)
        PROVE  HeldIsReal'
    <3> DEFINE row == Elsewhere(u, d, k)
    <3>1. /\ UNCHANGED lead /\ held' = [held EXCEPT ![e] = {<<Fresh, row>>}]
          /\ task' = [task EXCEPT ![Fresh] = row]
      BY <2>6 DEF LoadElsewhere, Elsewhere
    <3>2. Fresh \in Task /\ row \in TaskRow
      BY <2>6, FreshIsBlank, ElsewhereType DEF LoadElsewhere, Blanks
    <3> HIDE DEF row
    <3>3. task'[Fresh] # Blank /\ task'[Fresh].key = row.key
      BY <1>0, <3>1, <3>2, RowIsNotBlank DEF Table
    <3>4. \A f \in Editor : \A x \in held'[f] : x \in held[f] \/ x = <<Fresh, row>>
      BY <1>0, <3>1 DEF OthersOK
    <3>5. \A f \in Editor : \A x \in held'[f] :
            x \in held[f] \/ (task'[x[1]] # Blank /\ task'[x[1]].key = x[2].key)
      BY <3>3, <3>4
    <3> QED
      BY <1>0, <1>2, <3>1, <3>5, HeldStays
  <2> QED
    BY <2>2, <2>3, <2>4, <2>5, <2>6 DEF EditStep
<1> QED
  BY <1>1, <1>2, <1>3 DEF Sound

LEMMA DeleteLeadSound ==
  ASSUME Sound, DeleteLead
  PROVE  Sound'
<1>1. IInv'
  BY NextIInv DEF Sound, Next
<1>2. Places' /\ HeldIsReal'
  BY DEF DeleteLead, Places, HeldIsReal
<1> QED
  BY <1>1, <1>2 DEF Sound

LEMMA SameSound == Sound /\ UNCHANGED vars => Sound'
<1> SUFFICES ASSUME Sound, UNCHANGED vars PROVE Sound'
  OBVIOUS
<1>1. IInv'
  BY NextIInv DEF Sound
<1>2. UNCHANGED <<task, lead, asked, job, remind, held>>
  BY DEF vars, ruleVars, editVars
<1>3. Blanks' = Blanks /\ Promised' = Promised
  BY <1>2, SamePromises DEF Blanks
<1>4. Places'
  BY <1>2, <1>3 DEF Places, Sound
<1>5. HeldIsReal'
  BY <1>2 DEF HeldIsReal, Sound
<1> QED
  BY <1>1, <1>4, <1>5 DEF Sound

\* The bound on the table never makes a new task take the row of another.
THEOREM SoundCorrect == Spec => []Sound
<1>1. Sound /\ [Next]_vars => Sound'
  BY TaskNextSound, DeleteLeadSound, SameSound DEF Next
<1> QED
  BY <1>1, InitSound, PTL DEF Spec

------------------------------------------------------------------------------
(* One reminder task for each thread.                                      *)

\* The tasks of a thread that requests to remind have to themselves.
Own(k) == AllWith(k) \ stray

\* A thread has no two of them, and none that is closed while a request is about
\* to make one.
ThreadRows ==
  /\ \A k \in Thread : \A t, u \in Own(k) : t = u
  /\ \A k \in Thread : Wanted(k) => \A t \in Own(k) : Open(t)

LEMMA ThreadRowsStay ==
  ASSUME ThreadRows, stray \subseteq stray',
         \A k \in Thread : \A t \in Own(k)' : t \in AllWith(k) /\ (Open(t) /\ Wanted(k) => Open(t)'),
         \A k \in Thread : Wanted(k)' => Wanted(k) \/ AllWith(k) = {}
  PROVE  ThreadRows'
<1>1. \A k \in Thread : \A t \in Own(k)' : t \in Own(k)
  BY DEF Own
<1>2. ASSUME NEW k \in Thread, NEW t \in Own(k)', NEW u \in Own(k)' PROVE t = u
  BY <1>1, <1>2 DEF ThreadRows
<1>3. ASSUME NEW k \in Thread, Wanted(k)', NEW t \in Own(k)' PROVE Open(t)'
  BY <1>1, <1>3 DEF ThreadRows
<1> QED
  BY <1>2, <1>3 DEF ThreadRows

\* Without an edit, a task that is closed while a request wants one of its key is stray.
LEMMA ClosedIsStray ==
  ASSUME OthersOK, Table, Places, TaskNext, ~EditStep
  PROVE  /\ stray \subseteq stray' /\ UNCHANGED remind
         /\ \A t \in Task : Open(t) /\ Wanted(task[t].key) /\ t \notin stray' => Open(t)'
<1>1. ASSUME NEW u \in Member, NEW d \in Time, Create(u, d)
      PROVE  /\ stray \subseteq stray' /\ UNCHANGED remind
             /\ \A t \in Task : Open(t) => Open(t)'
  BY <1>1 DEF Create, editVars, Table, Open, NewTask, OpenStatus
<1>2. ASSUME NEW x \in Task, NEW d \in Time, Complete(x, d)
      PROVE  /\ stray \subseteq stray' /\ UNCHANGED remind
             /\ \A t \in Task : Open(t) /\ Wanted(task[t].key) /\ t \notin stray' => Open(t)'
  <2>1. \A t \in Task : t # x /\ t # Fresh => task'[t] = task[t]
    BY <1>2 DEF Complete, Table
  <2>2. ~Open(Fresh)
    BY <1>2, FreshIsBlank DEF Complete, Blanks, Blank, Open, OpenStatus
  <2>3. Wanted(task[x].key) => x \in stray'
    BY <1>2 DEF Complete, Closing
  <2>4. stray \subseteq stray' /\ UNCHANGED remind
    BY <1>2 DEF Complete, Closing, editVars
  <2> QED
    BY <2>1, <2>2, <2>3, <2>4 DEF Open
<1>3. ASSUME NEW x \in Task, NEW d \in Time, Reschedule(x, d)
      PROVE  /\ stray \subseteq stray' /\ UNCHANGED remind
             /\ \A t \in Task : Open(t) => Open(t)'
  <2> DEFINE pending == [task[x] EXCEPT !.status = "pending"]
             later == [pending EXCEPT !.due = d]
  <2>1. task[x] \in TaskRow
    BY <1>3, OpenRow DEF Reschedule
  <2>2. pending \in TaskRow /\ pending.status = "pending"
    BY <2>1, StatusRow DEF OpenStatus
  <2>3. task' = [task EXCEPT ![x] = later]
    BY <1>3 DEF Reschedule, Table
  <2> HIDE DEF pending
  <2>4. later.status = "pending"
    BY <2>2, DueRow
  <2> HIDE DEF later
  <2>5. \A t \in Task : Open(t) => Open(t)'
    BY <2>3, <2>4 DEF Open, Table, OpenStatus
  <2> QED
    BY <1>3, <2>5 DEF Reschedule, editVars
<1>4. ASSUME NEW x \in Task, Cancel(x)
      PROVE  /\ stray \subseteq stray' /\ UNCHANGED remind
             /\ \A t \in Task : Open(t) /\ Wanted(task[t].key) /\ t \notin stray' => Open(t)'
  <2>1. \A t \in Task : t # x => task'[t] = task[t]
    BY <1>4 DEF Cancel, Table
  <2>2. Wanted(task[x].key) => x \in stray'
    BY <1>4 DEF Cancel, Closing
  <2>3. stray \subseteq stray' /\ UNCHANGED remind
    BY <1>4 DEF Cancel, Closing, editVars
  <2> QED
    BY <2>1, <2>2, <2>3 DEF Open
<1>5. ASSUME NEW x \in Task, NEW u \in Member, Read(x, u)
      PROVE  UNCHANGED <<stray, remind, task>>
  BY <1>5 DEF Read, editVars
<1>6. ASSUME NEW s \in Scheduler, SchedulerStep(s)
      PROVE  UNCHANGED <<stray, remind>> /\ \A t \in Task : Open(t) => Open(t)'
  <2>1. ASSUME NEW u \in Member, NEW d \in Time, Insert(s, u, d)
        PROVE  UNCHANGED <<stray, remind>> /\ \A t \in Task : Open(t) => Open(t)'
    <3>1. task' = [task EXCEPT ![Fresh] = NewTask(u, d, job[s])] /\ UNCHANGED <<stray, remind>>
      BY <2>1 DEF Insert, editVars
    <3>2. NewTask(u, d, job[s]).status = "pending"
      BY DEF NewTask
    <3> HIDE DEF NewTask
    <3> QED
      BY <3>1, <3>2 DEF Table, Open, OpenStatus
  <2> QED
    BY <1>6, <2>1 DEF SchedulerStep, LookUp, Conflict, editVars, Open
<1>7. ASSUME NEW s \in Sweeper, SweepStep(s) \/ CrashSweep(s)
      PROVE  UNCHANGED <<stray, remind>> /\ \A t \in Task : Open(t) => Open(t)'
  <2>1. UNCHANGED task \/ \E x \in Task : Lapsed(x) /\ task' = [task EXCEPT ![x].status = "overdue"]
    BY <1>7 DEF SweepStep, StartSweep, Flag, CrashSweep
  <2>2. ASSUME NEW x \in Task, Lapsed(x), task' = [task EXCEPT ![x].status = "overdue"]
        PROVE  \A t \in Task : Open(t) => Open(t)'
    <3>1. task[x] \in TaskRow
      BY <2>2, OpenRow DEF Lapsed, Open, OpenStatus
    <3> QED
      BY <2>2, <3>1 DEF Table, TaskRow, Open, OpenStatus
  <2>3. UNCHANGED task => \A t \in Task : Open(t) => Open(t)'
    BY DEF Open
  <2>4. UNCHANGED <<stray, remind>>
    BY <1>7 DEF SweepStep, StartSweep, Flag, CrashSweep, editVars
  <2> QED
    BY <2>1, <2>2, <2>3, <2>4
<1>8. CASE Tick \/ \E k \in Rule : AskRule(k) \/ LoseRule(k)
  BY <1>8 DEF Tick, AskRule, LoseRule, editVars, Open
<1> QED
  BY <1>1, <1>2, <1>3, <1>4, <1>5, <1>6, <1>7, <1>8 DEF TaskNext, UserStep, Open

\* An edit: the generic update, or a request to remind.
LEMMA SaveThreads ==
  ASSUME Sound, ThreadRows, NEW e \in Editor, NEW u \in Member, NEW d \in Time, NEW h \in BOOLEAN,
         Save(e, u, d, h)
  PROVE  ThreadRows'
<1>0. OthersOK /\ Table /\ HeldIsReal
  BY IInvIs DEF Sound
<1>1. PICK x \in held[e] :
        /\ x[1] \in Task /\ x[2] \in TaskRow
        /\ \/ UNCHANGED <<task, stray>>
           \/ /\ Admits(x[1], Edited(x[2], u, d, h)) /\ (lead \/ ~h)
              /\ Write(x[1], Edited(x[2], u, d, h))
  BY <1>0, SaveWrites
<1> DEFINE r == Edited(x[2], u, d, h)
           w == x[1]
<1>2. r \in TaskRow /\ r.key = x[2].key /\ r.here = h
  BY <1>1, EditedRow
<1>3. UNCHANGED remind
  BY DEF Save
<1>4. \A k : Wanted(k)' <=> Wanted(k)
  BY <1>3 DEF Wanted
<1>5. \/ UNCHANGED <<task, stray>>
      \/ (lead \/ ~h) /\ Write(w, r)
  BY <1>1
<1>6. w \in Task /\ (lead => task[w] # Blank /\ task[w].key = r.key)
  BY <1>0, <1>1, <1>2 DEF HeldIsReal
<1> HIDE DEF r, w
<1>7. stray \subseteq stray'
  BY <1>5 DEF Write
<1>8. ASSUME NEW k \in Thread, NEW t \in Own(k)'
      PROVE  t \in AllWith(k) /\ (Open(t) /\ Wanted(k) => Open(t)')
  <2>1. t \in Task /\ task'[t] # Blank /\ task'[t].key = k /\ task'[t].here /\ t \notin stray'
    BY <1>8 DEF Own, AllWith
  <2>2. CASE task'[t] = task[t]
    BY <2>1, <2>2 DEF AllWith, Open
  <2>3. CASE task'[t] # task[t]
    <3>1. Write(w, r) /\ (lead \/ ~h) /\ t = w /\ task'[t] = r
      BY <1>0, <1>5, <1>6, <2>1, <2>3 DEF Write, Table
    <3>2. lead /\ r.here /\ r.key = k
      BY <1>2, <2>1, <3>1
    <3>3. r.here = task[t].here /\ (r.status \in ClosedStatus => ~Wanted(r.key))
      BY <2>1, <3>1, <3>2 DEF Write
    <3>4. r.status \in OpenStatus \cup ClosedStatus
      BY <1>2 DEF TaskRow
    <3> QED
      BY <1>6, <2>1, <3>1, <3>2, <3>3, <3>4 DEF AllWith, Open
  <2> QED
    BY <2>2, <2>3
<1> QED
  BY <1>4, <1>7, <1>8, ThreadRowsStay

LEMMA ReopenThreads ==
  ASSUME Table, ThreadRows, NEW k \in Thread, NEW u, NEW d, Reopen(k, u, d), UNCHANGED stray,
         \A q \in Reminder : remind'[q] = remind[q] \/ remind'[q] = "idle"
  PROVE  ThreadRows'
<1>1. PICK t \in AllWith(k) : task' = [task EXCEPT ![t] = NewTask(u, d, k)]
  BY DEF Reopen
<1>2. /\ NewTask(u, d, k).status = "pending" /\ NewTask(u, d, k).key = k
  BY DEF NewTask
<1>3. \A v \in Task : task'[v] = IF v = t THEN NewTask(u, d, k) ELSE task[v]
  BY <1>1 DEF Table, AllWith
<1>4. ASSUME NEW j \in Thread, NEW v \in Own(j)'
      PROVE  v \in AllWith(j) /\ (Open(v) /\ Wanted(j) => Open(v)')
  <2>1. v \in Task /\ task'[v] # Blank /\ task'[v].key = j /\ task'[v].here
    BY <1>4 DEF Own, AllWith
  <2>2. CASE v = t
    BY <1>1, <1>2, <1>3, <2>1, <2>2 DEF Open, OpenStatus
  <2>3. CASE v # t
    BY <1>3, <2>1, <2>3 DEF AllWith, Open
  <2> QED
    BY <2>2, <2>3
<1>5. \A j \in Thread : Wanted(j)' => Wanted(j)
  BY KeyAssumption DEF Wanted, Key
<1> QED
  BY <1>4, <1>5, ThreadRowsStay

LEMMA SameThreads ==
  ASSUME ThreadRows, UNCHANGED <<task, stray>>,
         \A k \in Thread : Wanted(k)' => Wanted(k) \/ AllWith(k) = {}
  PROVE  ThreadRows'
<1>1. \A k \in Thread : \A t \in Own(k)' : t \in AllWith(k) /\ (Open(t) /\ Wanted(k) => Open(t)')
  BY DEF Own, AllWith, Open
<1> QED
  BY <1>1, ThreadRowsStay

LEMMA AddReminderThreads ==
  ASSUME Sound, ThreadRows, NEW r \in Reminder, NEW u \in Member, NEW d \in Time,
         AddReminder(r, u, d)
  PROVE  ThreadRows'
<1>0. OthersOK /\ Table /\ Places
  BY IInvIs DEF Sound
<1>1. remind[r] \in Thread /\ UNCHANGED stray
  BY <1>0 DEF AddReminder, OthersOK
<1>2. \A q \in Reminder : remind'[q] = remind[q] \/ remind'[q] = "idle"
  BY <1>0 DEF AddReminder, OthersOK
<1>3. \A k \in Thread : Wanted(k)' => Wanted(k)
  BY <1>2, KeyAssumption DEF Wanted, Key
<1>4. CASE Reopen(remind[r], u, d)
  BY <1>0, <1>1, <1>2, <1>4, ReopenThreads
<1>5. CASE UNCHANGED task
  BY <1>1, <1>3, <1>5, SameThreads
<1>6. ASSUME lead, Admits(Fresh, NewTask(u, d, remind[r])),
             task' = [task EXCEPT ![Fresh] = NewTask(u, d, remind[r])]
      PROVE  ThreadRows'
  <2> DEFINE k == remind[r]
             new == NewTask(u, d, k)
  <2>1. new \in TaskRow /\ new.key = k /\ new.status = "pending" /\ new.here
    BY <1>1, NewTaskType DEF Key
  <2>2. Fresh \in Blanks
    BY <1>0, <1>6, SomePromised, FreshIsBlank DEF AddReminder
  <2>3. OpenWith(k) = {}
    <3>1. OpenWith(k) \subseteq {Fresh}
      BY <1>1, <1>6, <2>1, KeyAssumption DEF Admits, OpenStatus, Key
    <3> QED
      BY <2>2, <3>1 DEF Blanks, OpenWith, AllWith
  <2>4. Wanted(k)
    BY DEF Wanted
  <2>5. Own(k) = {}
    BY <1>1, <2>3, <2>4 DEF ThreadRows, Own, OpenWith
  <2>6. task' = [task EXCEPT ![Fresh] = new]
    BY <1>6
  <2> HIDE DEF new, k
  <2>7. \A t \in Task : task'[t] = IF t = Fresh THEN new ELSE task[t]
    BY <1>0, <2>6 DEF Table
  <2>8. ASSUME NEW j \in Thread, NEW t \in Own(j)'
        PROVE  (t \in Own(j) /\ task'[t] = task[t]) \/ (t = Fresh /\ j = k /\ Open(t)')
    <3>1. t \in Task /\ task'[t] # Blank /\ task'[t].key = j /\ task'[t].here /\ t \notin stray
      BY <1>1, <2>8 DEF Own, AllWith
    <3>2. CASE t = Fresh
      BY <2>1, <2>7, <3>1, <3>2 DEF Open, OpenStatus
    <3>3. CASE t # Fresh
      BY <2>7, <3>1, <3>3 DEF Own, AllWith
    <3> QED
      BY <3>2, <3>3
  <2>9. ASSUME NEW j \in Thread, NEW t \in Own(j)', NEW v \in Own(j)' PROVE t = v
    BY <2>5, <2>8, <2>9 DEF ThreadRows
  <2>10. ASSUME NEW j \in Thread, Wanted(j)', NEW t \in Own(j)' PROVE Open(t)'
    BY <1>3, <2>8, <2>10 DEF ThreadRows, Open
  <2> QED
    BY <2>9, <2>10 DEF ThreadRows
<1> QED
  BY <1>4, <1>5, <1>6 DEF AddReminder

LEMMA EditStepThreads ==
  ASSUME Sound, ThreadRows, EditStep
  PROVE  ThreadRows'
<1>0. OthersOK /\ Table /\ Places
  BY IInvIs DEF Sound
<1>1. ASSUME NEW e \in Editor, NEW t \in Task, Load(e, t) PROVE ThreadRows'
  <2>1. \A k \in Thread : Wanted(k)' => Wanted(k)
    BY <1>1 DEF Load, Wanted
  <2> QED
    BY <1>1, <2>1, SameThreads DEF Load
<1>2. ASSUME NEW e \in Editor, NEW u \in Member, NEW d \in Time,
             NEW k \in Rule \cup Thread \cup {"manual"}, LoadElsewhere(e, u, d, k)
      PROVE  ThreadRows'
  <2>1. Fresh \in Blanks
    BY <1>2, FreshIsBlank DEF LoadElsewhere
  <2>2. ~Elsewhere(u, d, k).here
    BY ElsewhereType
  <2>3. task' = [task EXCEPT ![Fresh] = Elsewhere(u, d, k)] /\ UNCHANGED <<stray, remind>>
    BY <1>2 DEF LoadElsewhere, Elsewhere
  <2> HIDE DEF Elsewhere
  <2>4. \A j \in Thread : \A t \in Own(j)' : t \in AllWith(j) /\ task'[t] = task[t]
    BY <1>0, <2>2, <2>3 DEF Own, AllWith, Table
  <2>5. \A j \in Thread : Wanted(j)' => Wanted(j)
    BY <2>3 DEF Wanted
  <2> QED
    BY <2>3, <2>4, <2>5, ThreadRowsStay DEF Open
<1>3. ASSUME NEW r \in Reminder, NEW k \in Thread, NEW u \in Member, NEW d \in Time,
             LookForReminder(r, k, u, d)
      PROVE  ThreadRows'
  <2>1. CASE Reopen(k, u, d) /\ UNCHANGED remind
    BY <1>0, <1>3, <2>1, ReopenThreads DEF LookForReminder
  <2>2. CASE AllWith(k) = {} /\ remind' = [remind EXCEPT ![r] = k] /\ UNCHANGED task
    <3>1. \A j \in Thread : Wanted(j)' => Wanted(j) \/ AllWith(j) = {}
      BY <1>0, <2>2 DEF Wanted, OthersOK
    <3> QED
      BY <1>3, <2>2, <3>1, SameThreads DEF LookForReminder
  <2> QED
    BY <1>3, <2>1, <2>2 DEF LookForReminder
<1> QED
  BY <1>1, <1>2, <1>3, SaveThreads, AddReminderThreads DEF EditStep

LEMMA TaskNextThreads ==
  ASSUME Sound, ThreadRows, TaskNext
  PROVE  ThreadRows'
<1>0. OthersOK /\ Table /\ Places
  BY IInvIs DEF Sound
<1>1. CASE ~EditStep
  <2>1. Locked
    BY <1>1, TaskNextSound
  <2>2. /\ stray \subseteq stray' /\ UNCHANGED remind
        /\ \A t \in Task : Open(t) /\ Wanted(task[t].key) /\ t \notin stray' => Open(t)'
    BY <1>0, <1>1, ClosedIsStray
  <2>3. ASSUME NEW k \in Thread, NEW t \in Own(k)'
        PROVE  t \in AllWith(k) /\ (Open(t) /\ Wanted(k) => Open(t)')
    <3>1. t \in Task /\ task'[t] # Blank /\ task'[t].key = k /\ task'[t].here /\ t \notin stray'
      BY <2>3 DEF Own, AllWith
    <3>2. ~Added(t)
      BY <3>1, KeyAssumption, KeysApart DEF Added, Key
    <3>3. t \in AllWith(k)
      BY <2>1, <3>1, <3>2 DEF Locked, LockedChange, Changed, AllWith
    <3> QED
      BY <2>2, <3>1, <3>3 DEF AllWith
  <2>4. \A k \in Thread : Wanted(k)' => Wanted(k)
    BY <2>2 DEF Wanted
  <2> QED
    BY <2>2, <2>3, <2>4, ThreadRowsStay
<1> QED
  BY <1>1, EditStepThreads

\* Of the tasks of a thread that no PATCH moved to or from another lead, and that were
\* not closed under a request to remind, there is one: update_or_create finds the task
\* it moves, closed or open, however requests, sweeps, workers and edits overlap.
THEOREM OneReminderPerThreadCorrect == Spec => []OneReminderPerThread
<1>1. Init => ThreadRows
  BY DEF Init, ThreadRows, Own, AllWith
<1>2. Sound /\ ThreadRows /\ [Next]_vars => ThreadRows'
  <2> SUFFICES ASSUME Sound, ThreadRows, [Next]_vars PROVE ThreadRows'
    OBVIOUS
  <2>1. CASE DeleteLead
    <3>1. \A k : AllWith(k)' = {}
      BY <2>1 DEF DeleteLead, AllWith, Away
    <3> QED
      BY <3>1 DEF ThreadRows, Own
  <2>2. CASE UNCHANGED vars
    <3>1. UNCHANGED <<task, stray, remind>>
      BY <2>2 DEF vars, editVars
    <3>2. \A k : Wanted(k)' => Wanted(k)
      BY <3>1 DEF Wanted
    <3> QED
      BY <3>1, <3>2, SameThreads
  <2> QED
    BY <2>1, <2>2, TaskNextThreads DEF Next
<1>3. ThreadRows => OneReminderPerThread
  <2> SUFFICES ASSUME ThreadRows, NEW k \in Thread PROVE Cardinality(Own(k)) <= 1
    BY DEF OneReminderPerThread, Own
  <2> QED
    BY AtMostOne DEF ThreadRows
<1> QED
  BY <1>1, <1>2, <1>3, SoundCorrect, PTL DEF Spec

------------------------------------------------------------------------------
(* Alerts and successors, as long as nobody changes a task without locking *)
(* it.                                                                     *)

NoUnlocked == Editor = {} /\ Reminder = {}

LEMMA NoEdit == NoUnlocked => ~EditStep
BY DEF NoUnlocked, EditStep


\* An alert that is unread after the step was unread before and its row is as it
\* was; or no alert about the row is unread.
AlertsFollow(t) ==
  \/ /\ task'[t] = task[t] \/ task[t] = Blank
     /\ \A u \in Member : alert'[t][u] = "unread" => alert[t][u] = "unread"
  \/ \A u \in Member : alert'[t][u] # "unread"

LEMMA AlertsAfter ==
  ASSUME AlertsMatchTasks, \A t \in Task : AlertsFollow(t)
  PROVE  AlertsMatchTasks'
<1> SUFFICES ASSUME NEW t \in Task, NEW u \in Member, alert'[t][u] = "unread"
             PROVE  task'[t].status = "overdue" /\ task'[t].owner = u
  BY DEF AlertsMatchTasks
<1>1. AlertsFollow(t) /\ alert[t][u] = "unread"
  BY DEF AlertsFollow
<1>2. task[t].status = "overdue" /\ task[t].owner = u
  BY <1>1 DEF AlertsMatchTasks
<1>3. task[t] # Blank
  BY <1>2 DEF Blank
<1> QED
  BY <1>1, <1>2, <1>3 DEF AlertsFollow

\* Completing, moving and cancelling a task resolve its alerts.
LEMMA ResolvedFollows ==
  ASSUME OthersOK, NEW t \in Task, alert' = [alert EXCEPT ![t] = Resolved(@)],
         \A v \in Task : v = t \/ task'[v] = task[v] \/ task[v] = Blank
  PROVE  \A v \in Task : AlertsFollow(v)
<1>1. alert' = [alert EXCEPT ![t] = Resolved(alert[t])]
  OBVIOUS
<1>2. \A v \in Task : alert'[v] = IF v = t THEN Resolved(alert[t]) ELSE alert[v]
  BY <1>1 DEF OthersOK
<1>3. \A u \in Member : Resolved(alert[t])[u] # "unread"
  BY DEF Resolved
<1> QED
  BY <1>2, <1>3 DEF AlertsFollow

LEMMA UserStepAlerts ==
  ASSUME OthersOK, Table, Places, AlertsMatchTasks, UserStep
  PROVE  AlertsMatchTasks'
<1>1. ASSUME NEW u \in Member, NEW d \in Time, Create(u, d) PROVE AlertsMatchTasks'
  <2>1. Fresh \in Blanks
    BY <1>1, FreshIsBlank DEF Create
  <2>2. \A t \in Task : task'[t] = task[t] \/ task[t] = Blank
    BY <1>1, <2>1 DEF Create, Blanks, Table
  <2> QED
    BY <1>1, <2>2, AlertsAfter DEF AlertsFollow, Create
<1>2. ASSUME NEW t \in Task, NEW d \in Time, Complete(t, d) PROVE AlertsMatchTasks'
  <2> DEFINE done == [task[t] EXCEPT !.status = "done"]
             new == Successor(task[t], d)
  <2>1. Fresh \in Blanks
    BY <1>2, FreshIsBlank DEF Complete
  <2>2. task' = [[task EXCEPT ![t] = done] EXCEPT ![Fresh] = new]
    BY <1>2 DEF Complete
  <2> HIDE DEF done, new
  <2>3. \A v \in Task : v = t \/ task'[v] = task[v] \/ task[v] = Blank
    BY <2>1, <2>2 DEF Blanks, Table
  <2> QED
    BY <1>2, <2>3, ResolvedFollows, AlertsAfter DEF Complete
<1>3. ASSUME NEW t \in Task, NEW d \in Time, Reschedule(t, d) PROVE AlertsMatchTasks'
  <2>1. \A v \in Task : v = t \/ task'[v] = task[v]
    BY <1>3 DEF Reschedule, Table
  <2> QED
    BY <1>3, <2>1, ResolvedFollows, AlertsAfter DEF Reschedule
<1>4. ASSUME NEW t \in Task, Cancel(t) PROVE AlertsMatchTasks'
  <2>1. \A v \in Task : v = t \/ task'[v] = task[v]
    BY <1>4 DEF Cancel, Table
  <2> QED
    BY <1>4, <2>1, ResolvedFollows, AlertsAfter DEF Cancel
<1>5. ASSUME NEW t \in Task, NEW u \in Member, Read(t, u) PROVE AlertsMatchTasks'
  <2>1. \A v \in Task, w \in Member : alert'[v][w] = "unread" => alert[v][w] = "unread"
    BY <1>5 DEF Read, OthersOK
  <2> QED
    BY <1>5, <2>1, AlertsAfter DEF AlertsFollow, Read
<1> QED
  BY <1>1, <1>2, <1>3, <1>4, <1>5 DEF UserStep

\* The sweep alerts the assignee of a task that it makes overdue, and of no other.
LEMMA FlagAlerts ==
  ASSUME OthersOK, Table, AlertsMatchTasks, NEW s \in Sweeper, NEW t \in Task, Flag(s, t)
  PROVE  AlertsMatchTasks'
<1>1. CASE UNCHANGED <<task, alert>>
  BY <1>1, AlertsAfter DEF AlertsFollow
<1>2. CASE Lapsed(t) /\ task' = [task EXCEPT ![t].status = "overdue"] /\ Notify(t, task[t].owner)
  <2> DEFINE owner == task[t].owner
  <2>1. task[t] \in TaskRow
    <3>1. Open(t)
      BY <1>2 DEF Lapsed, Open, OpenStatus
    <3> QED
      BY <3>1, OpenRow
  <2>2. task'[t].status = "overdue" /\ task'[t].owner = owner
    BY <1>2, <2>1 DEF Table, TaskRow
  <2>3. \A v \in Task : v # t => task'[v] = task[v]
    BY <1>2 DEF Table
  <2>4. \A u \in Member : alert[t][u] # "unread"
    BY <1>2 DEF AlertsMatchTasks, Lapsed
  <2>5. \A v \in Task, u \in Member : alert'[v][u] = "unread" => alert[v][u] = "unread" \/ (v = t /\ u = owner)
    BY <1>2 DEF Notify, OthersOK
  <2> HIDE DEF owner
  <2> SUFFICES ASSUME NEW v \in Task, NEW u \in Member, alert'[v][u] = "unread"
               PROVE  task'[v].status = "overdue" /\ task'[v].owner = u
    BY DEF AlertsMatchTasks
  <2>6. CASE v = t
    BY <2>2, <2>4, <2>5, <2>6
  <2>7. CASE v # t
    BY <2>3, <2>5, <2>7 DEF AlertsMatchTasks
  <2> QED
    BY <2>6, <2>7
<1> QED
  BY <1>1, <1>2 DEF Flag

LEMMA TaskNextAlerts ==
  ASSUME NoUnlocked, Sound, AlertsMatchTasks, TaskNext
  PROVE  AlertsMatchTasks'
<1>0. OthersOK /\ Table /\ Places
  BY IInvIs DEF Sound
<1>1. CASE UserStep
  BY <1>0, <1>1, UserStepAlerts
<1>2. ASSUME UNCHANGED <<task, alert>> PROVE AlertsMatchTasks'
  BY <1>2, AlertsAfter DEF AlertsFollow
<1>3. ASSUME NEW s \in Scheduler, NEW u \in Member, NEW d \in Time, Insert(s, u, d)
      PROVE  AlertsMatchTasks'
  <2>1. Fresh \in Blanks
    BY <1>0, <1>3, SomePromised, FreshIsBlank DEF Insert
  <2>2. \A t \in Task : task'[t] = task[t] \/ task[t] = Blank
    BY <1>0, <1>3, <2>1 DEF Insert, Blanks, Table
  <2> QED
    BY <1>3, <2>2, AlertsAfter DEF AlertsFollow, Insert
<1>4. ASSUME NEW s \in Scheduler, SchedulerStep(s) PROVE AlertsMatchTasks'
  BY <1>2, <1>3, <1>4 DEF SchedulerStep, LookUp, Conflict
<1>5. ASSUME NEW s \in Sweeper, SweepStep(s) \/ CrashSweep(s) PROVE AlertsMatchTasks'
  BY <1>0, <1>2, <1>5, FlagAlerts DEF SweepStep, StartSweep, CrashSweep
<1>6. CASE Tick \/ \E k \in Rule : AskRule(k) \/ LoseRule(k)
  BY <1>2, <1>6 DEF Tick, AskRule, LoseRule
<1> QED
  BY <1>1, <1>4, <1>5, <1>6, NoEdit DEF TaskNext

\* A task that was moved to another lead keeps its row and its alerts.
LEMMA DeleteLeadAlerts == AlertsMatchTasks /\ DeleteLead => AlertsMatchTasks'
BY DEF DeleteLead, AlertsMatchTasks

\* Whoever has an unread alert has the overdue task it is about, however sweeps,
\* workers and locked requests interleave; the unlocked PATCH and the inbox's
\* reminder, which resolve no alert, are left out.
THEOREM AlertsMatchTasksCorrect == NoUnlocked /\ Spec => []AlertsMatchTasks
<1> SUFFICES ASSUME NoUnlocked PROVE Spec => []AlertsMatchTasks
  OBVIOUS
<1>1. Init => AlertsMatchTasks
  BY DEF Init, AlertsMatchTasks
<1>2. Sound /\ AlertsMatchTasks /\ [Next]_vars => AlertsMatchTasks'
  <2>1. AlertsMatchTasks /\ UNCHANGED vars => AlertsMatchTasks'
    BY DEF vars, AlertsMatchTasks
  <2> QED
    BY <2>1, TaskNextAlerts, DeleteLeadAlerts DEF Next
<1> QED
  BY <1>1, <1>2, SoundCorrect, PTL DEF Spec

\* The successors that are counted for a row after a step that completes no task.
LEMMA SuccessorsAfter ==
  ASSUME CompletionHasOneSuccessor, UNCHANGED successors,
         \A t \in Task : task'[t] = task[t] \/ (task[t].status # "done" /\ task'[t].status # "done")
  PROVE  CompletionHasOneSuccessor'
<1> SUFFICES ASSUME NEW t \in Task
             PROVE  successors'[t] = IF task'[t].status = "done" THEN 1 ELSE 0
  BY DEF CompletionHasOneSuccessor
<1> QED
  BY DEF CompletionHasOneSuccessor

\* Only Complete makes a row done, and it does so once.
LEMMA TaskNextSuccessors ==
  ASSUME NoUnlocked, Sound, CompletionHasOneSuccessor, TaskNext
  PROVE  CompletionHasOneSuccessor'
<1>0. OthersOK /\ Table /\ Places /\ Locked
  BY IInvIs, TaskNextSound, NoEdit DEF Sound
<1>1. ASSUME NEW t \in Task, task'[t] # task[t] PROVE task[t].status # "done"
  BY <1>0, <1>1 DEF Locked, LockedChange, Added, Changed, Open, OpenStatus, Blank
<1>2. ASSUME NEW t \in Task, NEW d \in Time, Complete(t, d) PROVE CompletionHasOneSuccessor'
  <2> DEFINE done == [task[t] EXCEPT !.status = "done"]
             new == Successor(task[t], d)
  <2>1. Fresh \in Blanks
    BY <1>0, <1>2, FreshIsBlank DEF Complete
  <2>2. Open(t) /\ task[t] # Blank /\ task[t] \in TaskRow
    BY <1>0, <1>2, OpenRow DEF Complete
  <2>3. done.status = "done" /\ new.status = "pending"
    BY <1>2, <2>2, StatusRow, SuccessorType DEF ClosedStatus
  <2>4. task' = [[task EXCEPT ![t] = done] EXCEPT ![Fresh] = new]
    BY <1>2 DEF Complete
  <2> HIDE DEF done, new
  <2>5. Fresh # t
    BY <2>1, <2>2 DEF Blanks
  <2>6. \A v \in Task : task'[v] = IF v = Fresh THEN new ELSE IF v = t THEN done ELSE task[v]
    BY <1>0, <2>4, <2>5 DEF Table
  <2>7. task[Fresh].status # "done" /\ task[t].status # "done"
    BY <2>1, <2>2 DEF Blanks, Blank, Open, OpenStatus
  <2>8. successors[t] = 0
    BY <2>7 DEF CompletionHasOneSuccessor
  <2>9. \A v \in Task : successors'[v] = IF v = t THEN 1 ELSE successors[v]
    BY <1>0, <1>2, <2>8 DEF Complete, OthersOK
  <2> SUFFICES ASSUME NEW v \in Task
               PROVE  successors'[v] = IF task'[v].status = "done" THEN 1 ELSE 0
    BY DEF CompletionHasOneSuccessor
  <2>10. CASE v = t
    BY <2>3, <2>5, <2>6, <2>9, <2>10
  <2>11. CASE v = Fresh
    BY <2>3, <2>5, <2>6, <2>7, <2>9, <2>11 DEF CompletionHasOneSuccessor
  <2>12. CASE v # t /\ v # Fresh
    BY <2>6, <2>9, <2>12 DEF CompletionHasOneSuccessor
  <2> QED
    BY <2>10, <2>11, <2>12
<1>3. ASSUME \A t \in Task : task'[t] = task[t] \/ task'[t].status # "done", UNCHANGED successors
      PROVE  CompletionHasOneSuccessor'
  BY <1>1, <1>3, SuccessorsAfter
<1>4. ASSUME NEW t \in Task, NEW d \in Time, Reschedule(t, d) PROVE CompletionHasOneSuccessor'
  <2> DEFINE pending == [task[t] EXCEPT !.status = "pending"]
             later == [pending EXCEPT !.due = d]
  <2>1. task[t] \in TaskRow
    BY <1>0, <1>4, OpenRow DEF Reschedule
  <2>2. pending \in TaskRow /\ pending.status = "pending"
    BY <2>1, StatusRow DEF OpenStatus
  <2>3. task' = [task EXCEPT ![t] = later]
    BY <1>0, <1>4 DEF Reschedule, Table
  <2> HIDE DEF pending
  <2>4. later.status = "pending"
    BY <2>2, DueRow
  <2> HIDE DEF later
  <2>5. \A v \in Task : task'[v] = IF v = t THEN later ELSE task[v]
    BY <1>0, <2>3 DEF Table
  <2> QED
    BY <1>3, <1>4, <2>4, <2>5 DEF Reschedule
<1>5. ASSUME NEW t \in Task, Cancel(t) PROVE CompletionHasOneSuccessor'
  <2>1. \A v \in Task : task'[v] = task[v] \/ task'[v].status = "cancelled"
    BY <1>0, <1>5, OpenRow DEF Cancel, Table, TaskRow
  <2> QED
    BY <1>3, <1>5, <2>1 DEF Cancel
<1>6. ASSUME NEW u \in Member, NEW d \in Time, Create(u, d) PROVE CompletionHasOneSuccessor'
  <2>1. \A v \in Task : task'[v] = task[v] \/ task'[v].status = "pending"
    BY <1>0, <1>6 DEF Create, Table, NewTask
  <2> QED
    BY <1>3, <1>6, <2>1 DEF Create
<1>7. CASE UserStep
  BY <1>2, <1>3, <1>4, <1>5, <1>6, <1>7 DEF UserStep, Read
<1>8. ASSUME NEW s \in Scheduler, SchedulerStep(s) PROVE CompletionHasOneSuccessor'
  <2>1. ASSUME NEW u \in Member, NEW d \in Time, Insert(s, u, d) PROVE CompletionHasOneSuccessor'
    <3>1. \A v \in Task : task'[v] = task[v] \/ task'[v].status = "pending"
      BY <1>0, <2>1 DEF Insert, Table, NewTask
    <3> QED
      BY <1>3, <2>1, <3>1 DEF Insert
  <2> QED
    BY <1>3, <1>8, <2>1 DEF SchedulerStep, LookUp, Conflict
<1>9. ASSUME NEW s \in Sweeper, SweepStep(s) \/ CrashSweep(s) PROVE CompletionHasOneSuccessor'
  <2>1. ASSUME NEW t \in Task, Lapsed(t), task' = [task EXCEPT ![t].status = "overdue"]
        PROVE  \A v \in Task : task'[v] = task[v] \/ task'[v].status = "overdue"
    <3>1. task[t] \in TaskRow
      BY <1>0, <2>1, OpenRow DEF Lapsed, Open, OpenStatus
    <3> QED
      BY <1>0, <2>1, <3>1 DEF Table, TaskRow
  <2>2. UNCHANGED successors
    BY <1>9 DEF SweepStep, StartSweep, Flag, CrashSweep
  <2>3. UNCHANGED task \/ \E t \in Task : Lapsed(t) /\ task' = [task EXCEPT ![t].status = "overdue"]
    BY <1>9 DEF SweepStep, StartSweep, Flag, CrashSweep
  <2> QED
    BY <1>3, <2>1, <2>2, <2>3
<1>10. CASE Tick \/ \E k \in Rule : AskRule(k) \/ LoseRule(k)
  BY <1>3, <1>10 DEF Tick, AskRule, LoseRule
<1> QED
  BY <1>7, <1>8, <1>9, <1>10, NoEdit DEF TaskNext

\* However requests, workers and sweeps overlap, a task that is done has the one
\* successor its completion made: complete_task looks at the status under its lock.
THEOREM CompletionHasOneSuccessorCorrect == NoUnlocked /\ Spec => []CompletionHasOneSuccessor
<1> SUFFICES ASSUME NoUnlocked PROVE Spec => []CompletionHasOneSuccessor
  OBVIOUS
<1>1. Init => CompletionHasOneSuccessor
  BY DEF Init, CompletionHasOneSuccessor, Blank
<1>2. Sound /\ CompletionHasOneSuccessor /\ [Next]_vars => CompletionHasOneSuccessor'
  <2>1. CompletionHasOneSuccessor /\ DeleteLead => CompletionHasOneSuccessor'
    BY DEF DeleteLead, CompletionHasOneSuccessor, Blank
  <2>2. CompletionHasOneSuccessor /\ UNCHANGED vars => CompletionHasOneSuccessor'
    BY DEF vars, CompletionHasOneSuccessor
  <2> QED
    BY <2>1, <2>2, TaskNextSuccessors DEF Next
<1> QED
  BY <1>1, <1>2, SoundCorrect, PTL DEF Spec

\* A closed task stays closed until its lead is deleted, whatever a sweep that
\* listed it, a worker or a second request does.
THEOREM ClosedIsTerminalCorrect == NoUnlocked /\ Spec => ClosedIsTerminal
<1> SUFFICES ASSUME NoUnlocked PROVE Spec => ClosedIsTerminal
  OBVIOUS
<1>1. Sound /\ [Next]_vars =>
        [\A t \in Task : task[t].status \in ClosedStatus /\ lead' => task'[t].status = task[t].status]_vars
  <2> SUFFICES ASSUME Sound, Next, NEW t \in Task, task[t].status \in ClosedStatus, lead'
               PROVE  task'[t].status = task[t].status
    OBVIOUS
  <2>1. ~DeleteLead
    BY DEF DeleteLead
  <2>2. LockedChange(t)
    BY <2>1, TaskNextSound, NoEdit DEF Next, Locked
  <2> QED
    BY <2>2 DEF LockedChange, Added, Changed, Open, OpenStatus, ClosedStatus, Blank
<1> QED
  BY <1>1, SoundCorrect, PTL DEF Spec, ClosedIsTerminal

------------------------------------------------------------------------------
(* Site visits: what syncing the reminder of a visit does to the tasks.    *)

VisitTypes ==
  /\ visit \in [Visit -> VisitRow \cup {Blank}]
  /\ stage \in Stage
  /\ moved \subseteq Task

\* Rows that change are the visit's; its open reminders are as the visit asks.
Synced(v, r) ==
  /\ Table' /\ alert' \in [Task -> [Member -> {"none", "unread", "read"}]]
  /\ Kept /\ (SameRows \/ (Room /\ Cardinality(Blanks') = Cardinality(Blanks) - 1))
  /\ \A t \in Task : task'[t] = task[t] \/ (task'[t] # Blank /\ task'[t].key = v)
  /\ ~ShouldRemind(r) => OpenWith(v)' = {}
  /\ ShouldRemind(r) =>
       /\ AllWith(v)' # {}
       /\ \A t \in OpenWith(v)' : task'[t].due = Due(r) /\ task'[t].owner = r.owner
  /\ AlertsMatchTasks => AlertsMatchTasks'

LEMMA ResolveAllType ==
  ASSUME OthersOK, NEW T
  PROVE  ResolveAll(T) \in [Task -> [Member -> {"none", "unread", "read"}]]
BY ResolvedType DEF OthersOK, ResolveAll

LEMMA OpenWithRows ==
  ASSUME Table, NEW k
  PROVE  OpenWith(k) = {t \in Task : /\ task[t] \in TaskRow /\ task[t] # Blank /\ Open(t)
                                     /\ task[t].key = k /\ task[t].here = TRUE}
BY DEF OpenWith, AllWith, Table, TaskRow

LEMMA DropSyncs ==
  ASSUME OthersOK, Table, NEW v \in Visit, NEW r, DropReminder(v, r)
  PROVE  Synced(v, r)
<1> DEFINE T == OpenWith(v)
           gone(t) == [task[t] EXCEPT !.status = "cancelled"]
<1>1. ~ShouldRemind(r) /\ task' = CancelAll(T) /\ alert' = ResolveAll(T)
  BY DEF DropReminder
<1>2. \A t \in T : /\ t \in Task /\ task[t] \in TaskRow /\ task[t] # Blank /\ task[t].key = v
                   /\ task[t].here = TRUE
  BY OpenWithRows
<1>3. ASSUME NEW t \in T
      PROVE  /\ gone(t) \in TaskRow /\ gone(t).status = "cancelled" /\ gone(t).key = v
             /\ gone(t).here = TRUE
  <2>1. task[t] \in TaskRow /\ task[t].key = v /\ task[t].here = TRUE
    BY <1>2
  <2> QED
    BY <2>1, StatusRow DEF ClosedStatus
<1>4. \A t \in Task : task'[t] = IF t \in T THEN gone(t) ELSE task[t]
  BY <1>1 DEF CancelAll
<1>5. \A t \in Task : t \in T <=> Open(t) /\ task[t] # Blank /\ task[t].here /\ task[t].key = v
  BY DEF OpenWith, AllWith
<1>6. \A t \in Task : alert'[t] = IF t \in T THEN Resolved(alert[t]) ELSE alert[t]
  BY <1>1 DEF ResolveAll
<1>7. T \subseteq Task
  BY <1>2
<1> HIDE DEF T, gone
<1>8. task' \in [Task -> TaskRow \cup {Blank}]
  <2>1. task' = [t \in Task |-> task'[t]]
    BY <1>1 DEF CancelAll
  <2> QED
    BY <2>1, <1>3, <1>4 DEF Table
<1>9. \A t \in Task, k \in Key : Occupies(task'[t], k) => Occupies(task[t], k)
  BY <1>3, <1>4 DEF Occupies, OpenStatus
<1>10. Table'
  BY <1>8, <1>9, NoNewOccupant DEF Table
<1>11. Kept /\ SameRows /\ \A t \in Task : task'[t] = task[t] \/ (task'[t] # Blank /\ task'[t].key = v)
  BY <1>2, <1>3, <1>4, RowIsNotBlank DEF Kept, KeyKept, SameRows
<1>12. OpenWith(v)' = {}
  <2> SUFFICES ASSUME NEW t \in Task, Open(t)', task'[t] # Blank, task'[t].here, task'[t].key = v
               PROVE  FALSE
    BY DEF OpenWith, AllWith
  <2>1. t \notin T
    BY <1>3, <1>4 DEF Open, OpenStatus
  <2> QED
    BY <1>4, <1>5, <2>1 DEF Open
<1>13. AlertsMatchTasks => AlertsMatchTasks'
  <2>1. \A A, u : u \in Member => Resolved(A)[u] # "unread"
    BY DEF Resolved
  <2>2. \A t \in Task : AlertsFollow(t)
    BY <1>4, <1>6, <2>1 DEF AlertsFollow
  <2> QED
    BY <2>2, AlertsAfter
<1>14. alert' \in [Task -> [Member -> {"none", "unread", "read"}]]
  BY <1>1, ResolveAllType
<1> QED
  BY <1>1, <1>10, <1>11, <1>12, <1>13, <1>14 DEF Synced

\* A reminder that is not due yet has a time on the clock.
LEMMA ReminderRow ==
  ASSUME OthersOK, NEW v \in Visit, NEW r \in VisitRow, Due(r) > now
  PROVE  /\ NewTask(r.owner, Due(r), v) \in TaskRow
         /\ NewTask(r.owner, Due(r), v).key = v
         /\ NewTask(r.owner, Due(r), v).status = "pending"
         /\ NewTask(r.owner, Due(r), v).due = Due(r)
         /\ NewTask(r.owner, Due(r), v).owner = r.owner
         /\ NewTask(r.owner, Due(r), v).here = TRUE
<1>1. Due(r) \in Time /\ r.owner \in Member
  BY MaxTimeAssumption DEF OthersOK, Time, VisitRow, Due
<1> QED
  BY <1>1 DEF NewTask, TaskRow, OpenStatus, Key

LEMMA MoveSyncs ==
  ASSUME OthersOK, Table, NEW v \in Visit, NEW r \in VisitRow, MoveReminder(v, r)
  PROVE  Synced(v, r)
<1> DEFINE T == OpenWith(v)
           new == NewTask(r.owner, Due(r), v)
           late == {t \in T : task[t].status # "pending"}
<1>1. /\ ShouldRemind(r) /\ Due(r) > now /\ T # {}
      /\ task' = [t \in Task |-> IF t \in T THEN new ELSE task[t]]
      /\ alert' = ResolveAll(late)
  BY DEF MoveReminder
<1>2. \A t \in T : /\ t \in Task /\ task[t] \in TaskRow /\ task[t] # Blank /\ Open(t)
                   /\ task[t].key = v /\ task[t].here = TRUE
  BY OpenWithRows
<1>3. /\ new \in TaskRow /\ new.key = v /\ new.due = Due(r) /\ new.owner = r.owner
      /\ new.here = TRUE
  BY <1>1, ReminderRow
<1>4. \A t \in Task : t \in T <=> Open(t) /\ task[t] # Blank /\ task[t].here /\ task[t].key = v
  BY DEF OpenWith, AllWith
<1>5. \A t \in Task : alert'[t] = IF t \in late THEN Resolved(alert[t]) ELSE alert[t]
  BY <1>1 DEF ResolveAll
<1>6. \A t \in T : t \notin late => task[t].status = "pending"
  OBVIOUS
<1>7. alert' \in [Task -> [Member -> {"none", "unread", "read"}]]
  BY <1>1, ResolveAllType
<1> HIDE DEF T, new, late
<1>8. \A t \in Task : task'[t] = IF t \in T THEN new ELSE task[t]
  BY <1>1
<1>9. task' \in [Task -> TaskRow \cup {Blank}]
  BY <1>1, <1>3 DEF Table
<1>10. \A t \in Task, k \in Key : Occupies(task'[t], k) => Occupies(task[t], k)
  BY <1>2, <1>3, <1>8 DEF Occupies, Open
<1>11. Table'
  BY <1>9, <1>10, NoNewOccupant DEF Table
<1>12. Kept /\ SameRows /\ \A t \in Task : task'[t] = task[t] \/ (task'[t] # Blank /\ task'[t].key = v)
  BY <1>2, <1>3, <1>8, RowIsNotBlank DEF Kept, KeyKept, SameRows
<1>13. AllWith(v)' # {}
  <2>1. PICK t \in T : TRUE
    BY <1>1
  <2>2. t \in AllWith(v)'
    BY <1>2, <1>3, <1>8, <2>1, RowIsNotBlank DEF AllWith
  <2> QED
    BY <2>2
<1>14. \A t \in OpenWith(v)' : task'[t].due = Due(r) /\ task'[t].owner = r.owner
  <2> SUFFICES ASSUME NEW t \in Task, Open(t)', task'[t] # Blank, task'[t].here, task'[t].key = v
               PROVE  task'[t].due = Due(r) /\ task'[t].owner = r.owner
    BY DEF OpenWith, AllWith
  <2>1. t \in T
    BY <1>4, <1>8 DEF Open
  <2> QED
    BY <1>3, <1>8, <2>1
<1>15. AlertsMatchTasks => AlertsMatchTasks'
  <2> SUFFICES ASSUME AlertsMatchTasks PROVE AlertsMatchTasks'
    OBVIOUS
  <2>1. \A A, u : u \in Member => Resolved(A)[u] # "unread"
    BY DEF Resolved
  <2>2. \A t \in T, u \in Member : t \notin late => alert[t][u] # "unread"
    BY <1>2, <1>6 DEF AlertsMatchTasks
  <2>3. \A t \in Task : AlertsFollow(t)
    BY <1>5, <1>8, <2>1, <2>2 DEF AlertsFollow
  <2> QED
    BY <2>3, AlertsAfter
<1> QED
  BY <1>1, <1>7, <1>11, <1>12, <1>13, <1>14, <1>15 DEF Synced

LEMMA AddSyncs ==
  ASSUME Sound, NEW v \in Visit, NEW r \in VisitRow, AddVisitReminder(v, r)
  PROVE  Synced(v, r)
<1> DEFINE new == NewTask(r.owner, Due(r), v)
<1>0. OthersOK /\ Table
  BY IInvIs DEF Sound
<1>1. /\ ShouldRemind(r) /\ Due(r) > now /\ OpenWith(v) = {} /\ Room
      /\ task' = [task EXCEPT ![Fresh] = new] /\ UNCHANGED alert
  BY DEF AddVisitReminder
<1>2. /\ new \in TaskRow /\ new.key = v /\ new.due = Due(r) /\ new.owner = r.owner
      /\ new.here = TRUE
  BY <1>0, <1>1, ReminderRow
<1>3. Fresh \in Blanks
  BY <1>1, FreshIsBlank
<1> HIDE DEF new
<1>4. Cardinality(Blanks') = Cardinality(Blanks) - 1
  BY <1>0, <1>1, <1>2, <1>3, AddRow
<1>5. Table'
  BY <1>1, <1>2, AdmittedKeeps DEF Admits, Table, Sound
<1>6. \A t \in Task : task'[t] = IF t = Fresh THEN new ELSE task[t]
  BY <1>0, <1>1 DEF Table
<1>7. Kept /\ \A t \in Task : task'[t] = task[t] \/ (task'[t] # Blank /\ task'[t].key = v)
  BY <1>2, <1>3, <1>6, RowIsNotBlank DEF Kept, KeyKept, Blanks
<1>8. Fresh \in AllWith(v)'
  BY <1>2, <1>3, <1>6, RowIsNotBlank DEF AllWith, Blanks
<1>9. \A t \in OpenWith(v)' : task'[t].due = Due(r) /\ task'[t].owner = r.owner
  BY <1>1, <1>2, <1>6 DEF OpenWith, AllWith, Open
<1>10. AlertsMatchTasks => AlertsMatchTasks'
  BY <1>1, <1>3, <1>6, AlertsAfter DEF AlertsFollow, Blanks
<1> QED
  BY <1>0, <1>1, <1>4, <1>5, <1>7, <1>8, <1>9, <1>10 DEF Synced, OthersOK

------------------------------------------------------------------------------
(* Every operation on a visit.                                             *)

\* A visit's row and its reminder change together.
LEMMA PutSound ==
  ASSUME Sound, VisitTypes, NEW v \in Visit, NEW r \in VisitRow, Put(v, r)
  PROVE  Sound' /\ VisitTypes' /\ Synced(v, r)
<1>0. OthersOK /\ Table /\ Places /\ HeldIsReal
  BY IInvIs DEF Sound
<1>1. Synced(v, r)
  BY <1>0, DropSyncs, MoveSyncs, AddSyncs DEF Put, Sync
<1>2. VisitTypes'
  BY DEF Put, VisitTypes
<1>3. OthersOK'
  BY <1>0, <1>1 DEF Put, OthersOK, Synced, ruleVars, editVars
<1>4. IInv'
  BY <1>1, <1>3 DEF Synced, IInv, TypeOK, OthersOK, Table
<1>5. Places'
  <2>1. Promised' = Promised /\ lead' = lead
    BY SamePromises DEF Put, ruleVars, editVars
  <2> QED
    BY <1>0, <1>1, <2>1, PlacesKept, CountedNow DEF Synced, Counted
<1>6. HeldIsReal'
  <2>1. UNCHANGED <<lead, held>>
    BY DEF Put, editVars
  <2> QED
    BY <1>0, <1>1, <2>1, HeldStays DEF Synced, Kept
<1> QED
  BY <1>1, <1>2, <1>4, <1>5, <1>6 DEF Sound

\* The requests that change a visit put a row for it.
LEMMA VisitRequestPuts ==
  ASSUME VisitTypes, NEW v \in Visit,
         \/ \E at \in Time, u \in Member, reminds \in BOOLEAN :
              Schedule(v, at, u, reminds) \/ MoveVisit(v, at, u, reminds)
         \/ \E status \in {"completed", "cancelled"} : EndVisit(v, status)
  PROVE  \E r \in VisitRow : Put(v, r)
<1>1. ASSUME NEW at \in Time, NEW u \in Member, NEW reminds \in BOOLEAN,
             Schedule(v, at, u, reminds) \/ MoveVisit(v, at, u, reminds)
      PROVE  \E r \in VisitRow : Put(v, r)
  <2> DEFINE r == [status |-> "scheduled", at |-> at, owner |-> u, reminds |-> reminds]
  <2>1. Put(v, r)
    BY <1>1 DEF Schedule, MoveVisit
  <2>2. r \in VisitRow
    BY DEF VisitRow
  <2> QED
    BY <2>1, <2>2
<1>2. ASSUME NEW status \in {"completed", "cancelled"}, EndVisit(v, status)
      PROVE  \E r \in VisitRow : Put(v, r)
  <2> DEFINE r == [visit[v] EXCEPT !.status = status]
  <2>1. Put(v, r) /\ visit[v].status = "scheduled"
    BY <1>2 DEF EndVisit
  <2>2. visit[v] \in VisitRow
    BY <2>1 DEF VisitTypes, Blank
  <2>3. r \in VisitRow
    BY <2>2 DEF VisitRow
  <2> QED
    BY <2>1, <2>3
<1> QED
  BY <1>1, <1>2

\* What a step does to visits and tasks: an action of FollowUps, the deletion of
\* the lead, a row put for one visit, or neither.
VisitStep ==
  \/ TaskStep
  \/ DeleteAll
  \/ UNCHANGED <<vars, visit, moved>> /\ stage' \in Stage
  \/ \E v \in Visit, r \in VisitRow : Put(v, r)

LEMMA VisitNextIs == VisitTypes /\ [VisitNext]_allVars => VisitStep
<1> SUFFICES ASSUME VisitTypes, [VisitNext]_allVars PROVE VisitStep
  OBVIOUS
<1>1. ASSUME NEW s \in Stage, Move(s) PROVE VisitStep
  BY <1>1 DEF Move, VisitStep
<1>2. CASE UNCHANGED allVars
  BY <1>2 DEF allVars, visitVars, VisitStep, VisitTypes
<1> QED
  BY <1>1, <1>2, VisitRequestPuts DEF VisitNext, VisitStep

LEMMA VisitStepSound ==
  ASSUME Sound, VisitTypes, VisitStep
  PROVE  Sound' /\ VisitTypes'
<1>1. CASE TaskStep
  BY <1>1, TaskNextSound DEF TaskStep, VisitTypes
<1>2. CASE DeleteAll
  BY <1>2, DeleteLeadSound DEF DeleteAll, VisitTypes
<1>3. CASE UNCHANGED <<vars, visit, moved>> /\ stage' \in Stage
  BY <1>3, SameSound DEF VisitTypes
<1> QED
  BY <1>1, <1>2, <1>3, PutSound DEF VisitStep

\* Visits, their reminders and the lead's stage stay well formed, and the table has
\* its places, whatever is done to visits and tasks.
THEOREM VisitSound == VisitSpec => [](Sound /\ VisitTypes)
<1>1. VisitInit => Sound /\ VisitTypes
  BY InitSound DEF VisitInit, VisitTypes, Stage
<1>2. Sound /\ VisitTypes /\ [VisitNext]_allVars => (Sound /\ VisitTypes)'
  BY VisitNextIs, VisitStepSound
<1> QED
  BY <1>1, <1>2, PTL DEF VisitSpec

\* The tasks of the other visits are left alone.
LEMMA OtherVisits ==
  ASSUME NEW v \in Visit, NEW r, Synced(v, r), NEW w \in Visit, w # v
  PROVE  /\ OpenWith(w)' = OpenWith(w) /\ AllWith(w)' = AllWith(w)
         /\ \A t \in OpenWith(w) : task'[t] = task[t]
<1>1. \A t \in Task : task'[t].key = w /\ task'[t] # Blank => task'[t] = task[t]
  BY DEF Synced
<1>2. \A t \in Task : task[t].key = w /\ task[t] # Blank => task'[t] = task[t]
  BY DEF Synced, Kept, KeyKept
<1>3. \A t \in Task : Open(t) => task[t] # Blank
  BY DEF Open, Blank, OpenStatus
<1>4. \A t \in Task : Open(t)' => task'[t] # Blank
  BY DEF Open, Blank, OpenStatus
<1>5. AllWith(w)' = AllWith(w)
  BY <1>1, <1>2 DEF AllWith
<1>6. OpenWith(w)' = OpenWith(w)
  BY <1>1, <1>2, <1>3, <1>4 DEF OpenWith, AllWith, Open
<1>7. \A t \in OpenWith(w) : task'[t] = task[t]
  BY <1>2, <1>3 DEF OpenWith, AllWith
<1> QED
  BY <1>5, <1>6, <1>7

\* A reminder is there for whoever wants one.
HasReminder == \A v \in Visit : visit[v] # Blank /\ ShouldRemind(visit[v]) => AllWith(v) # {}

LEMMA VisitStepReminder ==
  ASSUME NoEditor, Sound, VisitTypes, HasReminder, VisitStep
  PROVE  HasReminder'
<1> SUFFICES ASSUME NEW v \in Visit, visit'[v] # Blank, ShouldRemind(visit[v])'
             PROVE  AllWith(v)' # {}
  BY DEF HasReminder
<1>1. ASSUME Kept, visit'[v] = visit[v] PROVE AllWith(v)' # {}
  <2>1. ShouldRemind(visit[v]) /\ visit[v] # Blank
    BY <1>1 DEF ShouldRemind
  <2>2. AllWith(v) # {}
    BY <2>1 DEF HasReminder
  <2> QED
    BY <1>1, <2>2 DEF AllWith, Kept, KeyKept
<1>2. CASE TaskStep
  BY <1>1, <1>2, TaskNextSound DEF TaskStep
<1>3. CASE DeleteAll
  BY <1>3 DEF DeleteAll
<1>4. CASE UNCHANGED <<vars, visit, moved>>
  BY <1>1, <1>4, NoRow, LockedKeeps DEF vars
<1>5. ASSUME NEW w \in Visit, NEW r \in VisitRow, Put(w, r) PROVE AllWith(v)' # {}
  <2>1. Synced(w, r) /\ visit' = [visit EXCEPT ![w] = r]
    BY <1>5, PutSound DEF Put
  <2>2. CASE v = w
    <3>1. ShouldRemind(r)
      BY <2>1, <2>2 DEF ShouldRemind, VisitTypes
    <3> QED
      BY <2>1, <2>2, <3>1 DEF Synced
  <2>3. CASE v # w
    BY <1>1, <2>1, <2>3 DEF Synced, VisitTypes
  <2> QED
    BY <2>2, <2>3
<1> QED
  BY <1>2, <1>3, <1>4, <1>5 DEF VisitStep

\* No order of scheduling, moving, switching reminders, closing tasks and sweeps
\* loses the reminder of a visit, or leaves two open; a PATCH, which may move the
\* reminder to another lead, is left out.
THEOREM VisitHasReminderCorrect == NoEditor /\ VisitSpec => []VisitHasReminder
<1> SUFFICES ASSUME NoEditor PROVE VisitSpec => []VisitHasReminder
  OBVIOUS
<1>1. VisitInit => HasReminder
  BY DEF VisitInit, HasReminder
<1>2. Sound /\ VisitTypes /\ HasReminder /\ [VisitNext]_allVars => HasReminder'
  BY VisitNextIs, VisitStepReminder
<1>3. Sound /\ HasReminder => VisitHasReminder
  <2> SUFFICES ASSUME Sound, NEW v \in Visit PROVE Cardinality(OpenWith(v)) <= 1
    BY DEF VisitHasReminder, HasReminder
  <2>1. v \in Key /\ IInv
    BY DEF Key, Sound
  <2>2. \A t, u \in OpenWith(v) : t = u
    BY <2>1, OpenWithIs DEF IInv, Unique
  <2> QED
    BY <2>2, AtMostOne
<1> QED
  BY <1>1, <1>2, <1>3, VisitSound, PTL DEF VisitSpec

\* The inbox's reminder writes rows of its thread only.
LEMMA ReminderWrites ==
  ASSUME NoEditor, Sound, EditStep, NEW t \in Task
  PROVE  task'[t] = task[t] \/ task'[t].key \in Thread
<1>1. OthersOK /\ Table
  BY IInvIs DEF Sound
<1>2. ASSUME NEW x \in Task, NEW u \in Member, NEW d \in Time, NEW k \in Thread,
             task' = [task EXCEPT ![x] = NewTask(u, d, k)]
      PROVE  task'[t] = task[t] \/ task'[t].key \in Thread
  <2>1. NewTask(u, d, k).key = k
    BY DEF NewTask
  <2> HIDE DEF NewTask
  <2> QED
    BY <1>1, <1>2, <2>1 DEF Table
<1>3. ASSUME NEW k \in Thread, NEW u \in Member, NEW d \in Time, Reopen(k, u, d)
      PROVE  task'[t] = task[t] \/ task'[t].key \in Thread
  <2>1. PICK x \in AllWith(k) : task' = [task EXCEPT ![x] = NewTask(u, d, k)]
    BY <1>3 DEF Reopen
  <2>2. x \in Task
    BY DEF AllWith
  <2> QED
    BY <1>2, <2>1, <2>2
<1>4. ASSUME NEW r \in Reminder, NEW k \in Thread, NEW u \in Member, NEW d \in Time,
             LookForReminder(r, k, u, d)
      PROVE  task'[t] = task[t] \/ task'[t].key \in Thread
  BY <1>3, <1>4 DEF LookForReminder
<1>5. ASSUME NEW r \in Reminder, NEW u \in Member, NEW d \in Time, AddReminder(r, u, d)
      PROVE  task'[t] = task[t] \/ task'[t].key \in Thread
  <2>1. remind[r] \in Thread
    BY <1>1, <1>5 DEF AddReminder, OthersOK
  <2>2. lead => Fresh \in Task
    BY <1>5, SomePromised, FreshIsBlank DEF AddReminder, Sound, Blanks
  <2> QED
    BY <1>2, <1>3, <1>5, <2>1, <2>2 DEF AddReminder
<1> QED
  BY <1>4, <1>5 DEF EditStep, NoEditor

\* Beside the generic update, a step of the tasks opens no reminder of a visit,
\* and moves one only by its due time.
LEMMA TaskStepReminders ==
  ASSUME NoEditor, Sound, TaskStep, NEW v \in Visit
  PROVE  /\ OpenWith(v)' \subseteq OpenWith(v)
         /\ \A t \in OpenWith(v)' \ moved' :
              t \notin moved /\ task'[t].due = task[t].due /\ task'[t].owner = task[t].owner
<1>1. (Locked \/ EditStep) /\ Kept
  BY TaskNextSound DEF TaskStep
<1>2. v \notin Rule \cup Thread \cup {"manual"}
  BY KeyAssumption, KeysApart DEF Key
<1>3. ASSUME NEW t \in Task, Open(t)', task'[t].key = v, task'[t] # Blank, task'[t].here
      PROVE  /\ Open(t) /\ task[t].key = v /\ task[t] # Blank /\ task[t].here
             /\ task'[t].owner = task[t].owner
  <2>1. LockedChange(t)
    BY <1>1, <1>2, <1>3, ReminderWrites DEF Locked, LockedChange
  <2>2. ~Added(t)
    BY <1>2, <1>3 DEF Added
  <2>3. task'[t] = task[t] => Open(t) /\ task[t] # Blank
    BY <1>3 DEF Open, Blank, OpenStatus
  <2> QED
    BY <1>3, <2>1, <2>2, <2>3 DEF LockedChange, Changed
<1>4. \A t \in OpenWith(v)' : /\ t \in Task /\ Open(t)' /\ task'[t].key = v
                               /\ task'[t] # Blank /\ task'[t].here
  BY DEF OpenWith, AllWith
<1>5. OpenWith(v)' \subseteq OpenWith(v)
  BY <1>3, <1>4 DEF OpenWith, AllWith
<1>6. moved' = moved \cup {t \in Task : task[t] # Blank /\ task'[t].due # task[t].due}
  BY DEF TaskStep
<1> QED
  BY <1>3, <1>4, <1>5, <1>6

LEMMA VisitStepAligned ==
  ASSUME NoEditor, Sound, VisitTypes, VisitStep, OpenReminderHasVisit, ReminderIsAligned
  PROVE  OpenReminderHasVisit' /\ ReminderIsAligned'
<1> SUFFICES ASSUME NEW v \in Visit, NEW t \in OpenWith(v)'
             PROVE  /\ visit'[v].status = "scheduled" /\ visit'[v].reminds
                    /\ t \notin moved' => task'[t].due = Due(visit[v])' /\ task'[t].owner = visit'[v].owner
  BY DEF OpenReminderHasVisit, ReminderIsAligned
<1>1. ASSUME t \in OpenWith(v), visit'[v] = visit[v],
             t \notin moved' => t \notin moved /\ task'[t].due = task[t].due /\ task'[t].owner = task[t].owner
      PROVE  /\ visit'[v].status = "scheduled" /\ visit'[v].reminds
             /\ t \notin moved' => task'[t].due = Due(visit[v])' /\ task'[t].owner = visit'[v].owner
  <2>1. visit[v].status = "scheduled" /\ visit[v].reminds
    BY <1>1 DEF OpenReminderHasVisit
  <2>2. t \notin moved => task[t].due = Due(visit[v]) /\ task[t].owner = visit[v].owner
    BY <1>1 DEF ReminderIsAligned
  <2> QED
    BY <1>1, <2>1, <2>2 DEF Due
<1>2. CASE TaskStep
  <2>1. UNCHANGED visit
    BY <1>2 DEF TaskStep
  <2> QED
    BY <1>1, <1>2, <2>1, TaskStepReminders
<1>3. CASE DeleteAll
  <2>1. AllWith(v)' = {}
    BY <1>3 DEF DeleteAll, DeleteLead, AllWith, Away
  <2> QED
    BY <2>1 DEF OpenWith
<1>4. CASE UNCHANGED <<vars, visit, moved>>
  <2>1. OpenWith(v)' = OpenWith(v) /\ UNCHANGED task
    BY <1>4 DEF vars, OpenWith, AllWith, Open
  <2> QED
    BY <1>1, <1>4, <2>1
<1>5. ASSUME NEW w \in Visit, NEW r \in VisitRow, Put(w, r)
      PROVE  /\ visit'[v].status = "scheduled" /\ visit'[v].reminds
             /\ t \notin moved' => task'[t].due = Due(visit[v])' /\ task'[t].owner = visit'[v].owner
  <2>1. Synced(w, r) /\ visit' = [visit EXCEPT ![w] = r] /\ moved' = moved \ AllWith(w)
    BY <1>5, PutSound DEF Put
  <2>2. CASE v = w
    <3>1. ShouldRemind(r)
      BY <2>1, <2>2 DEF Synced
    <3>2. visit'[v] = r
      BY <2>1, <2>2 DEF VisitTypes
    <3> QED
      BY <2>1, <2>2, <3>1, <3>2 DEF Synced, ShouldRemind, Due
  <2>3. CASE v # w
    <3>1. t \in OpenWith(v) /\ task'[t] = task[t]
      BY <2>1, <2>3, OtherVisits
    <3>2. t \notin AllWith(w)
      BY <2>3, <3>1 DEF OpenWith, AllWith
    <3>3. visit'[v] = visit[v]
      BY <2>1, <2>3 DEF VisitTypes
    <3> QED
      BY <1>1, <2>1, <3>1, <3>2, <3>3
  <2> QED
    BY <2>2, <2>3
<1> QED
  BY <1>2, <1>3, <1>4, <1>5 DEF VisitStep

LEMMA VisitsAligned == NoEditor /\ VisitSpec => [](OpenReminderHasVisit /\ ReminderIsAligned)
<1> SUFFICES ASSUME NoEditor PROVE VisitSpec => [](OpenReminderHasVisit /\ ReminderIsAligned)
  OBVIOUS
<1>1. VisitInit => OpenReminderHasVisit /\ ReminderIsAligned
  <2>1. VisitInit => \A v \in Visit : OpenWith(v) = {}
    BY DEF VisitInit, Init, OpenWith, AllWith
  <2> QED
    BY <2>1 DEF OpenReminderHasVisit, ReminderIsAligned
<1>2. Sound /\ VisitTypes /\ OpenReminderHasVisit /\ ReminderIsAligned /\ [VisitNext]_allVars
        => (OpenReminderHasVisit /\ ReminderIsAligned)'
  BY VisitNextIs, VisitStepAligned
<1> QED
  BY <1>1, <1>2, VisitSound, PTL DEF VisitSpec

\* Whatever sweeps, locked requests and the inbox do to the tasks between the
\* operations on visits, nobody is reminded of a visit that is over or wants no reminder.
THEOREM OpenReminderHasVisitCorrect == NoEditor /\ VisitSpec => []OpenReminderHasVisit
BY VisitsAligned, PTL

\* An open reminder nobody moved is due an hour before its visit, for its assignee.
THEOREM ReminderIsAlignedCorrect == NoEditor /\ VisitSpec => []ReminderIsAligned
BY VisitsAligned, PTL

\* Moving, dropping and adding reminders leaves no unread alert without its
\* overdue task either.
THEOREM VisitAlertsCorrect == NoUnlocked /\ VisitSpec => []AlertsMatchTasks
<1> SUFFICES ASSUME NoUnlocked PROVE VisitSpec => []AlertsMatchTasks
  OBVIOUS
<1>1. VisitInit => AlertsMatchTasks
  BY DEF VisitInit, Init, AlertsMatchTasks
<1>2. Sound /\ VisitTypes /\ AlertsMatchTasks /\ [VisitNext]_allVars => AlertsMatchTasks'
  <2> SUFFICES ASSUME Sound, VisitTypes, AlertsMatchTasks, VisitStep PROVE AlertsMatchTasks'
    BY VisitNextIs
  <2>1. CASE UNCHANGED <<vars, visit, moved>>
    BY <2>1 DEF vars, AlertsMatchTasks
  <2>2. CASE TaskStep
    BY <2>2, TaskNextAlerts DEF TaskStep
  <2>3. CASE DeleteAll
    BY <2>3, DeleteLeadAlerts DEF DeleteAll
  <2> QED
    BY <2>1, <2>2, <2>3, PutSound DEF VisitStep, Synced
<1> QED
  BY <1>1, <1>2, VisitSound, PTL DEF VisitSpec
==============================================================================
