----------------------------- MODULE Memberships -----------------------------
(***************************************************************************)
(* The memberships of one workspace: owners' requests that edit,           *)
(* deactivate or remove a member (core/membership_services.py and its      *)
(* callers) and the legacy bridge that creates a missing membership from   *)
(* User.business (core/tenancy.py), as it runs when a member logs in or a  *)
(* team is listed.                                                         *)
(*                                                                         *)
(* A request locks the workspace's membership rows one by one in the order *)
(* of their keys, decides on the rows it locked and writes.  Under READ    *)
(* COMMITTED the rows to lock are those the query saw when it began; a row *)
(* it waited for is read again, and skipped when it is gone.               *)
(***************************************************************************)
EXTENDS Naturals, FiniteSets

CONSTANTS
  User,         \* people, as the primary keys of their membership rows
  Guest,        \* those whose account belongs to another workspace
  Request       \* overlapping requests of the workspace's owners

ASSUME UserAssumption == User \subseteq Nat /\ IsFiniteSet(User) /\ User # {}
ASSUME GuestAssumption == Guest \subseteq User

VARIABLES
  member,       \* the membership row of a user, or Absent
  account,      \* User.is_active
  linked,       \* the users whose User.business is this workspace
  legacy,       \* User.role, which only the bridge reads
  pc,           \* where each request is
  change,       \* what it asks
  toLock,       \* the rows it has still to lock
  holds         \* the rows it has locked

requestVars == <<pc, change, toLock, holds>>
vars == <<member, account, linked, legacy, requestVars>>

\* "staff" is a manager or a salesperson: nothing here tells them apart.
Role == {"owner", "staff"}
Row == [role : Role, active : BOOLEAN]
Absent == [role |-> "none", active |-> FALSE]

\* What a request asks of its target's row ("same": a field it leaves alone;
\* "gone": delete the row) and how it saves the user's is_active.
Change == [target : User,
           role : Role \cup {"same"},
           status : {"same", "active", "inactive", "gone"},
           account : {"kept", "enabled", "disabled"}]
NoChange == [target |-> CHOOSE u \in User : TRUE,
             role |-> "same", status |-> "same", account |-> "kept"]

Rows == {u \in User : member[u] # Absent}
ActiveOwner(row) == row.role = "owner" /\ row.active
Owners(U) == {u \in U : ActiveOwner(member[u]) /\ account[u]}

\* The target's row afterwards.
After(c) ==
  IF c.status = "gone" THEN Absent
  ELSE [role |-> IF c.role = "same" THEN member[c.target].role ELSE c.role,
        active |-> IF c.status = "same" THEN member[c.target].active
                                        ELSE c.status = "active"]

\* _ensure_not_last_active_owner, over the rows in U
TakesLastOwner(c, U) ==
  /\ ActiveOwner(member[c.target]) /\ ~ActiveOwner(After(c))
  /\ Cardinality(Owners(U)) <= 1

------------------------------------------------------------------------------
\* A workspace with an owner, as the membership backfill leaves it: the roles
\* are the legacy ones, and inactive the accounts that a deactivation of the
\* old single-workspace kind disabled.
Init ==
  /\ member \in [User -> Row \cup {Absent}]
  /\ account \in [User -> BOOLEAN]
  /\ \A u \in Rows : member[u].active = account[u]
  /\ linked = Rows \ Guest
  /\ legacy = [u \in User |-> IF u \in Rows THEN member[u].role ELSE "staff"]
  /\ Owners(User) # {}
  /\ pc = [r \in Request |-> "idle"]
  /\ change = [r \in Request |-> NoChange]
  /\ toLock = [r \in Request |-> {}]
  /\ holds = [r \in Request |-> {}]

------------------------------------------------------------------------------
(* Requests.                                                               *)

\* The web's edit form sends role and status; the API's PATCH any of them, of
\* an account that is enabled.  Both are refused at once where they see that
\* they take the last owner, and save the user's row as they read it, enabled
\* where the membership is activated.
Edits(c) ==
  /\ c.status # "gone"
  /\ "same" \in {c.role, c.status} => account[c.target]
  /\ c.account = IF account[c.target] \/ c.status = "active" THEN "enabled" ELSE "disabled"
  /\ ~TakesLastOwner(c, User)

\* The web's delete deactivates, the API's removes; not the actor's own row.
Deletes(actor, c) ==
  /\ c.target # actor
  /\ c.role = "same" /\ c.account = "kept"
  /\ c.status \in {"inactive", "gone"}
  /\ c.status = "gone" => account[c.target]

\* An active owner's request passes its permission check and its validation,
\* and begins to lock the memberships there are.
Begin(r, actor, c) ==
  /\ pc[r] = "idle"
  /\ actor \in Owners(User) /\ c.target \in Rows
  /\ Edits(c) \/ Deletes(actor, c)
  /\ change' = [change EXCEPT ![r] = c]
  /\ toLock' = [toLock EXCEPT ![r] = Rows]
  /\ pc' = [pc EXCEPT ![r] = "lock"]
  /\ UNCHANGED <<member, account, linked, legacy, holds>>

\* Mutant of Take: the rows are read without FOR UPDATE.
TakeUnlocked(r, u) ==
  /\ toLock' = [toLock EXCEPT ![r] = @ \ {u}]
  /\ holds' = [holds EXCEPT ![r] = IF u \in Rows THEN @ \cup {u} ELSE @]
  /\ UNCHANGED <<member, account, linked, legacy, pc, change>>

\* The row at u, which no request holds, is locked, or it is gone.
Take(r, u) ==
  /\ \A q \in Request : u \notin holds[q]
  /\ toLock' = [toLock EXCEPT ![r] = @ \ {u}]
  /\ holds' = [holds EXCEPT ![r] = IF u \in Rows THEN @ \cup {u} ELSE @]
  /\ UNCHANGED <<member, account, linked, legacy, pc, change>>

\* Mutant of Lock: the target first, then the rest.
LockTargetFirst(r) ==
  /\ pc[r] = "lock"
  /\ \E u \in toLock[r] :
       /\ change[r].target \in toLock[r] => u = change[r].target
       /\ change[r].target \notin toLock[r] => \A v \in toLock[r] : u <= v
       /\ Take(r, u)

\* select_for_update(...).order_by('pk')
Lock(r) ==
  /\ pc[r] = "lock"
  /\ \E u \in toLock[r] : (\A v \in toLock[r] : u <= v) /\ Take(r, u)

\* The request ends and its locks are released.
Release(r) ==
  /\ pc' = [pc EXCEPT ![r] = "idle"]
  /\ change' = [change EXCEPT ![r] = NoChange]
  /\ holds' = [holds EXCEPT ![r] = {}]
  /\ UNCHANGED toLock

\* The target is gone, or LastActiveOwnerError: the transaction is rolled back.
Refuse(r) ==
  /\ pc[r] = "lock" /\ toLock[r] = {}
  /\ change[r].target \notin holds[r] \/ TakesLastOwner(change[r], holds[r])
  /\ Release(r)
  /\ UNCHANGED <<member, account, linked, legacy>>

\* The change leaves an active owner among the locked rows ...
Allow(r) ==
  /\ pc[r] = "lock" /\ toLock[r] = {}
  /\ change[r].target \in holds[r] /\ ~TakesLastOwner(change[r], holds[r])
  /\ pc' = [pc EXCEPT ![r] = "write"]
  /\ UNCHANGED <<member, account, linked, legacy, change, toLock, holds>>

\* User.is_active as the request saves it.
Saved(c) == IF c.account = "kept" THEN account[c.target] ELSE c.account = "enabled"

\* ... and is written, with the user's row.
Write(r) ==
  /\ pc[r] = "write"
  /\ LET c == change[r] IN
     /\ member' = [member EXCEPT ![c.target] = After(c)]
     /\ account' = [account EXCEPT ![c.target] = Saved(c)]
  /\ Release(r)
  /\ UNCHANGED <<linked, legacy>>

------------------------------------------------------------------------------
(* The rest of the world.                                                  *)

\* An owner adds a teammate: a new account, linked to the workspace, and its
\* membership in one transaction.
Add(u, role) ==
  /\ member[u] = Absent /\ u \notin linked \cup Guest
  /\ Owners(User) # {}
  /\ member' = [member EXCEPT ![u] = [role |-> role, active |-> TRUE]]
  /\ account' = [account EXCEPT ![u] = TRUE]
  /\ linked' = linked \cup {u}
  /\ legacy' = [legacy EXCEPT ![u] = role]
  /\ UNCHANGED <<requestVars>>

\* Mutant of Bridge: an inactive membership is taken for a missing one.
BridgeInactive(u) ==
  /\ u \in linked /\ ~member[u].active
  /\ member' = [member EXCEPT ![u] = [role |-> legacy[u], active |-> account[u]]]
  /\ UNCHANGED <<account, linked, legacy, requestVars>>

\* ensure_legacy_membership: get_or_create from User.business and User.role,
\* called whenever a user authenticates and wherever a team is listed.
Bridge(u) ==
  /\ u \in linked /\ member[u] = Absent
  /\ member' = [member EXCEPT ![u] = [role |-> legacy[u], active |-> account[u]]]
  /\ UNCHANGED <<account, linked, legacy, requestVars>>

------------------------------------------------------------------------------
Decide(r) == Refuse(r) \/ Allow(r) \/ Write(r)

Next ==
  \/ \E r \in Request, actor \in User, c \in Change : Begin(r, actor, c)
  \/ \E r \in Request : Lock(r) \/ Decide(r)
  \/ \E u \in User, role \in Role : Add(u, role)
  \/ \E u \in User : Bridge(u)

\* A request goes on; a row lock is handed to those that wait for it in turn.
Fairness ==
  \A r \in Request : SF_vars(Lock(r)) /\ WF_vars(Decide(r))

Spec == Init /\ [][Next]_vars /\ Fairness

------------------------------------------------------------------------------
(* Every row, request and lock stays well formed; a field that a request    *)
(* leaves out is never written into a row.                                  *)
TypeOK ==
  /\ member \in [User -> Row \cup {Absent}]
  /\ account \in [User -> BOOLEAN]
  /\ linked \subseteq User
  /\ legacy \in [User -> Role]
  /\ pc \in [Request -> {"idle", "lock", "write"}]
  /\ change \in [Request -> Change]
  /\ toLock \in [Request -> SUBSET User]
  /\ holds \in [Request -> SUBSET User]

(* The workspace has an active owner: requests that run at once cannot      *)
(* demote, deactivate or remove the last one between them.                  *)
OwnerIsKept == Owners(User) # {}

(* Two owners who change each other at once do not wait for each other for  *)
(* ever: every request ends.                                                *)
RequestsEnd == \A r \in Request : pc[r] # "idle" ~> pc[r] = "idle"

(* Who was deactivated stays out until a request of an owner lets them in:  *)
(* the bridge, which runs at every login, leaves inactive memberships be.   *)
BridgeRespectsDeactivation ==
  [][\A u \in User : member[u] # Absent /\ ~member[u].active /\ member'[u].active
       => \E r \in Request : pc[r] = "write" /\ change[r].target = u]_vars

(* Who was removed from the workspace does not get into it again with that  *)
(* account: a linked user without a membership is one who was removed.      *)
RemovedStaysOut ==
  [][\A u \in User : u \in linked /\ member[u] = Absent => ~member'[u].active]_vars

==============================================================================
