---------------------------- MODULE LeadPipeline ----------------------------
(***************************************************************************)
(* The leads of one tenant, their stages, owners and timelines: capture,   *)
(* import, details, assignment, transitions, needs-time, activities, bulk  *)
(* actions and deletion (leads/services.py, leads/views.py, web/views.py). *)
(*                                                                         *)
(* A request that reads a lead before it writes is two steps, Load and the *)
(* action that ends it; one that reads under the row's lock is one step.   *)
(* All leads are of one customer, and every member stays active            *)
(* (Memberships is about those who do not).  Of a row, the columns no      *)
(* handler decides by are left out.                                        *)
(***************************************************************************)
EXTENDS Naturals, Sequences, FiniteSets

CONSTANTS
  Lead,         \* lead ids
  Manager,      \* members who see every lead: owners and managers
  Agent,        \* salespeople
  Request,      \* requests that can be under way together
  Reason,       \* reasons to lose a lead
  None,         \* no row, no reason, no request
  MaxEntries    \* bound: entries of a timeline

ASSUME PipelineAssumption ==
  /\ Manager \cap Agent = {}
  /\ None \notin Reason
  /\ MaxEntries \in Nat

VARIABLES
  row,       \* the Lead table
  timeline,  \* Activity, by lead, oldest first
  queued,    \* schedule_follow_up jobs given to the broker, by lead and rule
  req,       \* the requests under way
  born,      \* history: the leads ever captured
  chosen,    \* history: the owner a lead's creator or a manager chose last
  undone     \* history: leads whose row a save replaced by a stale one

vars == <<row, timeline, queued, req, born, chosen, undone>>

Member == Manager \cup Agent
\* The stages that a rule or a closing date tells apart; the others are like
\* new_inquiry.
Stage == {"new_inquiry", "quotation_sent", "won", "lost"}
Closed == {"won", "lost"}
Rule == {"quote_followup", "warranty_checkin", "delayed_followup"}
\* What a member makes by hand: an ordinary entry, or one of kind stage_change or
\* system.  A stage_change made by hand is told from transition_lead's by its
\* metadata: it names no stages.
Manual == {"note", "handmade"}
Kind == {"captured", "stage_change", "lost_reason", "needs_time"} \cup Manual

Row == [stage : Stage, reason : Reason \cup {None}, closed : BOOLEAN, owner : Member]
Entry == [kind : Kind, by : Member, from : Stage, to : Stage]
Open == [by : Member, lead : Lead, row : Row, new : BOOLEAN]

\* rule_for_stage
rule_for_stage(s) == CASE s = "quotation_sent" -> {"quote_followup"}
                       [] s = "won" -> {"warranty_checkin"}
                       [] OTHER -> {}

Init ==
  /\ row = [l \in Lead |-> None]
  /\ timeline = [l \in Lead |-> <<>>]
  /\ queued = [l \in Lead |-> [k \in Rule |-> 0]]
  /\ req = [q \in Request |-> None]
  /\ born = {}
  /\ chosen = [l \in Lead |-> None]
  /\ undone = {}

Existing == {l \in Lead : row[l] # None}

\* visible_leads, and the querysets of the API.
Visible(u, l) == l \in Existing /\ (u \in Manager \/ row[l].owner = u)

\* The bound on a timeline that is about to grow by n entries.
Fits(l, n) == Len(timeline[l]) + n <= MaxEntries

Finish(q) == req' = [req EXCEPT ![q] = None]

------------------------------------------------------------------------------
(* Capture.                                                                *)

\* related_leads_for_customer finds nothing.
IsNew == Existing = {}

\* A lead is about to be inserted; its id is a fresh one.
Propose(q, u, new) ==
  /\ req[q] = None
  /\ new.closed = (new.stage \in Closed)
  /\ \E l \in Lead \ born :
       req' = [req EXCEPT ![q] = [by |-> u, lead |-> l, row |-> new, new |-> TRUE]]
  /\ UNCHANGED <<row, timeline, queued, born, chosen, undone>>

\* LeadQuickAddForm.clean, LeadSerializer.validate: no lead has the customer's
\* phone or email, or the caller confirms.  A salesperson owns what they add.
Check(q, u, new, confirmed) ==
  /\ IsNew \/ confirmed
  /\ new.stage = "new_inquiry" /\ new.reason = None
  /\ u \in Agent => new.owner = u
  /\ Propose(q, u, new)

\* LeadImportView, for one row of the file: it names any stage, and a duplicate
\* is skipped.
Import(q, u, new) ==
  /\ u \in Manager
  /\ IsNew
  /\ new.stage = "lost" => new.reason # None
  /\ Propose(q, u, new)

\* The transaction that saves the lead and record_lead_capture.
Insert(q) ==
  LET l == req[q].lead
      new == req[q].row
  IN /\ req[q] # None
     /\ req[q].new
     /\ l \notin born
     /\ row' = [row EXCEPT ![l] = new]
     /\ timeline' = [timeline EXCEPT ![l] =
          <<[kind |-> "captured", by |-> req[q].by, from |-> new.stage, to |-> new.stage]>>]
     /\ born' = born \cup {l}
     /\ chosen' = [chosen EXCEPT ![l] = new.owner]
     /\ Finish(q)
     /\ UNCHANGED <<queued, undone>>

------------------------------------------------------------------------------
(* Requests that read a lead without a lock.                               *)

\* get_visible_lead, get_object.
Load(q, u, l) ==
  /\ req[q] = None
  /\ Visible(u, l)
  /\ req' = [req EXCEPT ![q] = [by |-> u, lead |-> l, row |-> row[l], new |-> FALSE]]
  /\ UNCHANGED <<row, timeline, queued, born, chosen, undone>>

Loaded(q) == req[q] # None /\ ~req[q].new

\* The request ends with an error or a refusal: an invalid form, a lead that is
\* gone, a salesperson whose lead is another's by now.
Drop(q) ==
  /\ req[q] # None
  /\ Finish(q)
  /\ UNCHANGED <<row, timeline, queued, born, chosen, undone>>

\* LeadUpdateView, LeadViewSet.perform_update: every column of the row read
\* before is saved.  Only a manager names an owner.  A row that is gone is
\* inserted again.
Save(q, o) ==
  LET l == req[q].lead
      read == req[q].row
  IN /\ Loaded(q)
     /\ req[q].by \in Agent => o = read.owner
     /\ row' = [row EXCEPT ![l] = [read EXCEPT !.owner = o]]
     /\ undone' = IF row[l] = read THEN undone ELSE undone \cup {l}
     /\ chosen' = IF o = read.owner THEN chosen ELSE [chosen EXCEPT ![l] = o]
     /\ Finish(q)
     /\ UNCHANGED <<timeline, queued, born>>

\* Mutant of Assign: the whole row is saved.
AssignWholeRow(q, o) ==
  LET l == req[q].lead
  IN /\ Loaded(q)
     /\ req[q].by \in Manager
     /\ row[l] # None
     /\ row' = [row EXCEPT ![l] = [req[q].row EXCEPT !.owner = o]]
     /\ chosen' = [chosen EXCEPT ![l] = o]
     /\ Finish(q)
     /\ UNCHANGED <<timeline, queued, born, undone>>

\* LeadViewSet.assign: one column of the row.
Assign(q, o) ==
  LET l == req[q].lead
  IN /\ Loaded(q)
     /\ req[q].by \in Manager
     /\ row[l] # None
     /\ row' = [row EXCEPT ![l].owner = o]
     /\ chosen' = [chosen EXCEPT ![l] = o]
     /\ Finish(q)
     /\ UNCHANGED <<timeline, queued, born, undone>>

\* LeadViewSet.destroy: the timeline goes with the lead, and the jobs that were
\* queued for it find none.
Delete(q) ==
  LET l == req[q].lead
  IN /\ Loaded(q)
     /\ req[q].by \in Manager
     /\ row' = [row EXCEPT ![l] = None]
     /\ timeline' = [timeline EXCEPT ![l] = <<>>]
     /\ queued' = [queued EXCEPT ![l] = [k \in Rule |-> 0]]
     /\ Finish(q)
     /\ UNCHANGED <<born, chosen, undone>>

Note(l, kind, u) ==
  timeline' = [timeline EXCEPT ![l] =
    Append(@, [kind |-> kind, by |-> u, from |-> row[l].stage, to |-> row[l].stage])]

\* record_manual_activity, from LeadActivityCreateView and ActivityViewSet.  Of
\* these two only the API refuses the kinds stage_change and system; ActivityForm
\* offers them to every member who sees the lead.
Activity(q, kind) ==
  /\ Loaded(q)
  /\ row[req[q].lead] # None
  /\ Fits(req[q].lead, 1)
  /\ Note(req[q].lead, kind, req[q].by)
  /\ Finish(q)
  /\ UNCHANGED <<row, queued, born, chosen, undone>>

------------------------------------------------------------------------------
(* Transitions and delays, under the lock of the lead's row.               *)

\* The on_commit hooks that queue the rules of the leads in L: one that fails
\* stops those behind it, and the changes stay.
Schedule(L, k) ==
  \E done \in SUBSET L :
    queued' = [l \in Lead |-> [queued[l] EXCEPT ![k] = IF l \in done THEN @ + 1 ELSE @]]

Why(s, why) == IF s = "lost" THEN why ELSE None

\* Mutant of Moved: a lead that is opened again keeps its closing date.
MovedStaysClosed(old, s, why) ==
  IF old.stage # s \/ (s = "lost" /\ old.reason # Why(s, why))
  THEN [stage |-> s, reason |-> Why(s, why), closed |-> old.closed \/ s \in Closed,
        owner |-> old.owner]
  ELSE old

\* transition_lead: the row after it.
Moved(old, s, why) ==
  IF old.stage # s \/ (s = "lost" /\ old.reason # Why(s, why))
  THEN [stage |-> s, reason |-> Why(s, why), closed |-> s \in Closed, owner |-> old.owner]
  ELSE old

\* transition_lead: what it adds to the timeline.
Events(old, s, why, u, noted) ==
  LET moved == old.stage # s
      changed == ~moved /\ s = "lost" /\ old.reason # why
      Event(kind, from) == <<[kind |-> kind, by |-> u, from |-> from, to |-> s]>>
  IN (IF moved THEN Event("stage_change", old.stage) ELSE <<>>)
     \o (IF changed THEN Event("lost_reason", s) ELSE <<>>)
     \o (IF noted THEN Event("note", s) ELSE <<>>)

\* Mutant of Turned: a transition that changes nothing queues the rule again.
TurnedAgain(L, s) == L

\* The leads of L whose transition queues a rule.
Turned(L, s) == {l \in L : row[l].stage # s}

Transition(L, s, why, u, noted) ==
  /\ s = "lost" => why # None
  /\ \A l \in L : Fits(l, Len(Events(row[l], s, why, u, noted)))
  /\ row' = [l \in Lead |-> IF l \in L THEN Moved(row[l], s, why) ELSE row[l]]
  /\ timeline' = [l \in Lead |->
       IF l \in L THEN timeline[l] \o Events(row[l], s, why, u, noted) ELSE timeline[l]]
  /\ IF rule_for_stage(s) = {}
     THEN queued' = queued
     ELSE \E k \in rule_for_stage(s) : Schedule(Turned(L, s), k)
  /\ UNCHANGED <<born, chosen, undone>>

\* Mutant of WebMove: a salesperson's lead is not checked again.
WebMoveUnchecked(q, s, why, noted) ==
  LET l == req[q].lead
  IN /\ Loaded(q)
     /\ row[l] # None
     /\ Transition({l}, s, why, req[q].by, noted)
     /\ Finish(q)

\* Mutant of WebMove: the lead read before the lock is the one that is saved.
WebMoveStale(q, s, why, noted) ==
  LET l == req[q].lead
      read == req[q].row
  IN /\ Loaded(q)
     /\ Visible(req[q].by, l)
     /\ s = "lost" => why # None
     /\ Fits(l, Len(Events(read, s, why, req[q].by, noted)))
     /\ row' = [row EXCEPT ![l] = Moved(read, s, why)]
     /\ timeline' = [timeline EXCEPT ![l] = @ \o Events(read, s, why, req[q].by, noted)]
     /\ Finish(q)
     /\ UNCHANGED <<queued, born, chosen, undone>>

\* LeadStageUpdateView: visible before, locked and checked again now.
WebMove(q, s, why, noted) ==
  LET l == req[q].lead
  IN /\ Loaded(q)
     /\ Visible(req[q].by, l)
     /\ Transition({l}, s, why, req[q].by, noted)
     /\ Finish(q)

\* LeadViewSet.transition: a salesperson's leads only, at the lock.
ApiMove(u, l, s, why) ==
  /\ Visible(u, l)
  /\ Transition({l}, s, why, u, FALSE)
  /\ UNCHANGED req

\* LeadBulkActionView, 'stage'.
BulkMove(u, L, s, why) ==
  /\ u \in Manager
  /\ Transition(L \cap Existing, s, why, u, FALSE)
  /\ UNCHANGED req

\* LeadBulkActionView, 'assign'.
BulkAssign(u, L, o) ==
  /\ u \in Manager
  /\ row' = [l \in Lead |-> IF l \in L \cap Existing THEN [row[l] EXCEPT !.owner = o] ELSE row[l]]
  /\ chosen' = [l \in Lead |-> IF l \in L \cap Existing THEN o ELSE chosen[l]]
  /\ UNCHANGED <<timeline, queued, req, born, undone>>

\* record_needs_time on a lead that is open.
Delay(l, u) ==
  /\ row[l] # None
  /\ row[l].stage \notin Closed
  /\ Fits(l, 1)
  /\ Note(l, "needs_time", u)
  /\ Schedule({l}, "delayed_followup")
  /\ UNCHANGED <<row, born, chosen, undone>>

\* LeadNeedsTimeView: visible before, and not checked again.
WebDelay(q) ==
  /\ Loaded(q)
  /\ Delay(req[q].lead, req[q].by)
  /\ Finish(q)

\* LeadViewSet.needs_time.
ApiDelay(u, l) ==
  /\ Visible(u, l)
  /\ Delay(l, u)
  /\ UNCHANGED req

------------------------------------------------------------------------------
Next ==
  \/ \E q \in Request :
       \/ \E u \in Member, new \in Row :
            (\E confirmed \in BOOLEAN : Check(q, u, new, confirmed)) \/ Import(q, u, new)
       \/ Insert(q)
       \/ \E u \in Member, l \in Lead : Load(q, u, l)
       \/ Drop(q)
       \/ \E o \in Member : Save(q, o) \/ Assign(q, o)
       \/ Delete(q)
       \/ \E kind \in Manual : Activity(q, kind)
       \/ \E s \in Stage, why \in Reason \cup {None}, noted \in BOOLEAN : WebMove(q, s, why, noted)
       \/ WebDelay(q)
  \/ \E u \in Member, l \in Lead :
       \/ \E s \in Stage, why \in Reason \cup {None} : ApiMove(u, l, s, why)
       \/ ApiDelay(u, l)
  \/ \E u \in Manager, L \in (SUBSET Lead) \ {{}} :
       \/ \E s \in Stage, why \in Reason \cup {None} : BulkMove(u, L, s, why)
       \/ \E o \in Member : BulkAssign(u, L, o)

Spec == Init /\ [][Next]_vars

------------------------------------------------------------------------------
TypeOK ==
  /\ row \in [Lead -> Row \cup {None}]
  /\ timeline \in [Lead -> Seq(Entry)]
  /\ queued \in [Lead -> [Rule -> Nat]]
  /\ req \in [Request -> Open \cup {None}]
  /\ born \in SUBSET Lead
  /\ chosen \in [Lead -> Member \cup {None}]
  /\ undone \in SUBSET Lead

\* A lead has a closing date exactly when it is won or lost, and a reason when
\* it is lost, after any mixture of transitions, imports and whole-row saves
\* (services.py transition_lead, Lead.clean).
RowIsConsistent ==
  \A l \in Existing :
    /\ row[l].closed <=> row[l].stage \in Closed
    /\ row[l].stage = "lost" => row[l].reason # None

\* Each entry of a timeline begins at the stage the entry before it ended at,
\* and the last one ends at the stage the lead is in: no stage changes without
\* its entry, and no entry that names its stages tells of a change that was not
\* made.  Only a save of a row read before somebody else's change breaks it
\* (web/views.py LeadUpdateView, leads/views.py perform_update).  An entry made
\* by hand names no stages and stands at the stage it finds; SystemEntriesAreMade
\* is about those.
TimelineExplainsStage ==
  \A l \in Existing \ undone :
    LET t == timeline[l]
    IN /\ t # <<>>
       /\ \A i \in 2..Len(t) : t[i].from = t[i - 1].to
       /\ t[Len(t)].to = row[l].stage

\* A lead's owner is the one its creator or a manager chose last, unless a
\* whole-row save was stale ('Salespeople cannot reassign leads.').
AssignmentStays == \A l \in Existing \ undone : row[l].owner = chosen[l]

\* The same of every lead: stale saves break it.  A salesperson whose details
\* were read before a manager gave the lead to a colleague takes it back.
OnlyManagersReassign == \A l \in Existing : row[l].owner = chosen[l]

\* 'System timeline events cannot be created manually.' (leads/serializers.py,
\* leads/tests.py test_activity_api_rejects_system_events)
SystemEntriesAreMade ==
  \A l \in Lead : \A i \in DOMAIN timeline[l] :
    timeline[l][i].kind # "handmade"

\* "reopening a Won/Lost lead is owner/manager-only" (plan.md): whoever sees the
\* lead may do it, by a drag or by the API.
ReopeningIsForManagers ==
  \A l \in Lead : \A i \in DOMAIN timeline[l] :
    LET e == timeline[l][i]
    IN e.from \in Closed /\ e.to \notin Closed => e.by \in Manager

\* A salesperson moves a lead only while it is theirs: a lead that a manager
\* gave to somebody else while the request was on its way is not moved by
\* transition_lead, and no change of its stage is recorded.
MovesAreOwn ==
  [][\A l \in Lead : \A i \in (Len(timeline[l]) + 1)..Len(timeline'[l]) :
       timeline'[l][i].kind = "stage_change" /\ timeline'[l][i].by \in Agent
         => row[l].owner = timeline'[l][i].by]_vars

\* The entries of a timeline that queue a rule.
Causes(l, k) ==
  {i \in DOMAIN timeline[l] :
     \/ timeline[l][i].kind = "needs_time" /\ k = "delayed_followup"
     \/ timeline[l][i].kind = "stage_change" /\ k \in rule_for_stage(timeline[l][i].to)}

\* Every automated follow-up that was queued has a change of its own on the
\* timeline: no repeated request and no whole-row save queues one.
JobsHaveCauses ==
  \A l \in Existing \ undone, k \in Rule : queued[l][k] <= Cardinality(Causes(l, k))
==============================================================================
