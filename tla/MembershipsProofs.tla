-------------------------- MODULE MembershipsProofs --------------------------
(***************************************************************************)
(* A workspace keeps an active owner, for any finite set of people and any *)
(* number of overlapping requests.                                         *)
(***************************************************************************)
EXTENDS Memberships, FiniteSetTheorems, TLAPS

------------------------------------------------------------------------------
(* Types.                                                                  *)

LEMMA AfterType ==
  ASSUME TypeOK, NEW c \in Change, c.target \in Rows
  PROVE  After(c) \in Row \cup {Absent}
<1>1. member[c.target] \in Row
  BY DEF TypeOK, Change, Rows
<1>2. CASE c.status = "gone"
  BY <1>2 DEF After
<1>3. CASE c.status # "gone"
  <2> DEFINE role == IF c.role = "same" THEN member[c.target].role ELSE c.role
             active == IF c.status = "same" THEN member[c.target].active
                                            ELSE c.status = "active"
  <2>1. role \in Role
    BY <1>1 DEF Row, Change, Role
  <2>2. active \in BOOLEAN
    BY <1>1 DEF Row
  <2>3. After(c) = [role |-> role, active |-> active]
    BY <1>3 DEF After
  <2> HIDE DEF role, active
  <2> QED
    BY <2>1, <2>2, <2>3 DEF Row
<1> QED
  BY <1>2, <1>3

LEMMA NoChangeType == NoChange \in Change
<1>1. (CHOOSE u \in User : TRUE) \in User
  BY UserAssumption
<1> QED
  BY <1>1 DEF NoChange, Change

------------------------------------------------------------------------------
(* The inductive invariant.                                                *)

\* No membership row is locked twice, and a locked row does not go away.
Locked ==
  /\ \A q, r \in Request : q # r => holds[q] \cap holds[r] = {}
  /\ \A r \in Request : holds[r] \subseteq Rows

\* A decision stands until it is written, on the rows it was taken from.
Decided ==
  \A r \in Request : pc[r] = "write" =>
    change[r].target \in holds[r] /\ ~TakesLastOwner(change[r], holds[r])

\* Only a request that deactivates a membership may save a disabled account.
SavesAccount ==
  \A r \in Request : change[r].account = "disabled" => change[r].status = "inactive"

IInv == TypeOK /\ Locked /\ Decided /\ SavesAccount /\ OwnerIsKept

LEMMA InitIInv == Init => IInv
<1> SUFFICES ASSUME Init PROVE IInv
  OBVIOUS
<1>1. TypeOK
  <2>1. legacy \in [User -> Role]
    <3>1. \A u \in Rows : member[u].role \in Role
      BY DEF Init, Rows, Row, Absent
    <3> QED
      BY <3>1 DEF Init, Role
  <2>2. change \in [Request -> Change]
    BY NoChangeType DEF Init
  <2> QED
    BY <2>1, <2>2 DEF Init, TypeOK, Rows
<1>2. Locked
  BY DEF Init, Locked
<1>3. Decided /\ SavesAccount
  BY DEF Init, Decided, SavesAccount, NoChange
<1>4. OwnerIsKept
  BY DEF Init, OwnerIsKept
<1> QED
  BY <1>1, <1>2, <1>3, <1>4 DEF IInv

------------------------------------------------------------------------------
(* Counting owners.                                                        *)

\* A set of people with more than one active owner has one besides any given.
LEMMA AnotherOwner ==
  ASSUME NEW U \in SUBSET User, NEW t \in User, ~(Cardinality(Owners(U)) <= 1)
  PROVE  \E o \in Owners(U) : o # t
<1> SUFFICES ASSUME Owners(U) \subseteq {t} PROVE FALSE
  OBVIOUS
<1>1. IsFiniteSet({t}) /\ Cardinality({t}) = 1
  BY FS_Singleton
<1>2. Cardinality(Owners(U)) <= 1
  BY <1>1, FS_Subset
<1> QED
  BY <1>2

\* A decision depends on the rows it was taken from and on nothing else.
LEMMA DecisionStands ==
  ASSUME NEW c \in Change, NEW U \in SUBSET User, c.target \in U,
         \A u \in U : member'[u] = member[u] /\ account'[u] = account[u],
         ~TakesLastOwner(c, U)
  PROVE  ~TakesLastOwner(c, U)'
<1>1. Owners(U)' = Owners(U)
  BY DEF Owners
<1>2. After(c)' = After(c) /\ member'[c.target] = member[c.target]
  BY DEF After
<1> QED
  BY <1>1, <1>2 DEF TakesLastOwner

\* A request that has decided still has, after a step that leaves alone the
\* request and the rows it holds.
LEMMA OthersDecided ==
  ASSUME TypeOK, Decided, NEW r \in Request, pc'[r] = "write", pc'[r] = pc[r],
         change'[r] = change[r], holds'[r] = holds[r],
         \A u \in holds[r] : member'[u] = member[u] /\ account'[u] = account[u]
  PROVE  change'[r].target \in holds'[r] /\ ~TakesLastOwner(change[r], holds[r])'
<1>1. PICK c \in Change : c = change[r]
  BY DEF TypeOK
<1>2. PICK U \in SUBSET User : U = holds[r]
  BY DEF TypeOK
<1>3. c.target \in U /\ ~TakesLastOwner(c, U)
  BY <1>1, <1>2 DEF Decided
<1>4. ~TakesLastOwner(c, U)'
  BY <1>2, <1>3, DecisionStands
<1>5. TakesLastOwner(change[r], holds[r])' <=> TakesLastOwner(c, U)'
  BY <1>1, <1>2 DEF TakesLastOwner, Owners, After
<1> QED
  BY <1>1, <1>2, <1>3, <1>4, <1>5

------------------------------------------------------------------------------
(* The steps of a request.                                                 *)

LEMMA BeginIInv ==
  ASSUME IInv, NEW r \in Request, NEW actor \in User, NEW c \in Change, Begin(r, actor, c)
  PROVE  IInv'
<1>1. /\ change' = [change EXCEPT ![r] = c]
      /\ pc' = [pc EXCEPT ![r] = "lock"]
      /\ toLock' = [toLock EXCEPT ![r] = Rows]
      /\ UNCHANGED <<member, account, linked, legacy, holds>>
  BY DEF Begin
<1>2. TypeOK'
  BY <1>1 DEF IInv, TypeOK, Rows
<1>3. Locked'
  BY <1>1 DEF IInv, Locked, Rows
<1>4. Decided'
  <2> SUFFICES ASSUME NEW q \in Request, pc'[q] = "write"
               PROVE  change'[q].target \in holds'[q] /\ ~TakesLastOwner(change[q], holds[q])'
    BY DEF Decided
  <2>1. q # r /\ pc'[q] = pc[q] /\ change'[q] = change[q]
    BY <1>1 DEF IInv, TypeOK
  <2> QED
    BY <1>1, <2>1, OthersDecided DEF IInv
<1>5. SavesAccount'
  <2>1. c.account = "disabled" => c.status = "inactive"
    BY DEF Begin, Edits, Deletes, Change
  <2> QED
    BY <1>1, <2>1 DEF IInv, SavesAccount, TypeOK
<1>6. OwnerIsKept'
  BY <1>1 DEF IInv, OwnerIsKept, Owners
<1> QED
  BY <1>2, <1>3, <1>4, <1>5, <1>6 DEF IInv

LEMMA LockIInv ==
  ASSUME IInv, NEW r \in Request, Lock(r)
  PROVE  IInv'
<1>1. PICK u \in toLock[r] : Take(r, u)
  BY DEF Lock
<1>2. /\ \A q \in Request : u \notin holds[q]
      /\ toLock' = [toLock EXCEPT ![r] = toLock[r] \ {u}]
      /\ holds' = [holds EXCEPT ![r] = IF u \in Rows THEN holds[r] \cup {u} ELSE holds[r]]
      /\ UNCHANGED <<member, account, linked, legacy, pc, change>>
  BY <1>1 DEF Take
<1>3. u \in User
  BY DEF IInv, TypeOK
<1>4. TypeOK'
  <2>1. /\ toLock' \in [Request -> SUBSET User]
        /\ holds' \in [Request -> SUBSET User]
    BY <1>2, <1>3 DEF IInv, TypeOK
  <2> QED
    BY <1>2, <2>1 DEF IInv, TypeOK
<1>5. Locked'
  BY <1>2, <1>3 DEF IInv, Locked, TypeOK, Rows
<1>6. Decided'
  <2> SUFFICES ASSUME NEW q \in Request, pc'[q] = "write"
               PROVE  change'[q].target \in holds'[q] /\ ~TakesLastOwner(change[q], holds[q])'
    BY DEF Decided
  <2>1. q # r
    BY <1>2 DEF Lock
  <2>2. holds'[q] = holds[q]
    BY <1>2, <2>1 DEF IInv, TypeOK
  <2> QED
    BY <1>2, <2>2, OthersDecided DEF IInv
<1>7. SavesAccount' /\ OwnerIsKept'
  BY <1>2 DEF IInv, SavesAccount, OwnerIsKept, Owners
<1> QED
  BY <1>4, <1>5, <1>6, <1>7 DEF IInv

LEMMA RefuseIInv ==
  ASSUME IInv, NEW r \in Request, Refuse(r)
  PROVE  IInv'
<1>1. /\ pc' = [pc EXCEPT ![r] = "idle"]
      /\ change' = [change EXCEPT ![r] = NoChange]
      /\ holds' = [holds EXCEPT ![r] = {}]
      /\ UNCHANGED <<member, account, linked, legacy, toLock>>
  BY DEF Refuse, Release
<1>2. TypeOK'
  BY <1>1, NoChangeType DEF IInv, TypeOK
<1>3. Locked'
  BY <1>1 DEF IInv, Locked, TypeOK, Rows
<1>4. Decided'
  <2> SUFFICES ASSUME NEW q \in Request, pc'[q] = "write"
               PROVE  change'[q].target \in holds'[q] /\ ~TakesLastOwner(change[q], holds[q])'
    BY DEF Decided
  <2>1. pc'[q] = pc[q] /\ change'[q] = change[q] /\ holds'[q] = holds[q]
    BY <1>1 DEF IInv, TypeOK
  <2> QED
    BY <1>1, <2>1, OthersDecided DEF IInv
<1>5. SavesAccount'
  BY <1>1 DEF IInv, SavesAccount, TypeOK, NoChange
<1>6. OwnerIsKept'
  BY <1>1 DEF IInv, OwnerIsKept, Owners
<1> QED
  BY <1>2, <1>3, <1>4, <1>5, <1>6 DEF IInv

LEMMA AllowIInv ==
  ASSUME IInv, NEW r \in Request, Allow(r)
  PROVE  IInv'
<1>1. /\ pc' = [pc EXCEPT ![r] = "write"]
      /\ UNCHANGED <<member, account, linked, legacy, change, toLock, holds>>
  BY DEF Allow
<1>2. TypeOK' /\ Locked' /\ SavesAccount' /\ OwnerIsKept'
  BY <1>1 DEF IInv, TypeOK, Locked, Rows, SavesAccount, OwnerIsKept, Owners
<1>3. Decided'
  <2> SUFFICES ASSUME NEW q \in Request, pc'[q] = "write"
               PROVE  change'[q].target \in holds'[q] /\ ~TakesLastOwner(change[q], holds[q])'
    BY DEF Decided
  <2>1. CASE q = r
    BY <1>1, <2>1 DEF Allow, TakesLastOwner, Owners, After
  <2>2. CASE q # r
    <3>1. pc'[q] = pc[q]
      BY <1>1, <2>2 DEF IInv, TypeOK
    <3> QED
      BY <1>1, <3>1, OthersDecided DEF IInv
  <2> QED
    BY <2>1, <2>2
<1> QED
  BY <1>2, <1>3 DEF IInv

\* What a request writes, seen from its target and from the other rows.
LEMMA WriteEffect ==
  ASSUME IInv, NEW r \in Request, Write(r)
  PROVE  LET c == change[r] IN
         /\ c \in Change /\ c.target \in holds[r] /\ c.target \in Rows
         /\ ~TakesLastOwner(c, holds[r])
         /\ member'[c.target] = After(c) /\ account'[c.target] = Saved(c)
         /\ \A u \in User \ {c.target} : member'[u] = member[u] /\ account'[u] = account[u]
<1> DEFINE c == change[r]
<1>1. c \in Change /\ c.target \in User
  BY DEF IInv, TypeOK, Change
<1>2. c.target \in holds[r] /\ ~TakesLastOwner(c, holds[r])
  BY DEF IInv, Decided, Write
<1>3. c.target \in Rows
  BY <1>2 DEF IInv, Locked
<1>4. /\ member' = [member EXCEPT ![c.target] = After(c)]
      /\ account' = [account EXCEPT ![c.target] = Saved(c)]
  BY DEF Write
<1>5. \A u \in User \ {c.target} : member'[u] = member[u] /\ account'[u] = account[u]
  BY <1>4 DEF IInv, TypeOK
<1>6. member'[c.target] = After(c) /\ account'[c.target] = Saved(c)
  BY <1>1, <1>4 DEF IInv, TypeOK
<1> QED
  BY <1>1, <1>2, <1>3, <1>5, <1>6

\* The heart of the matter: what is written leaves an active owner.
LEMMA WriteKeepsOwner ==
  ASSUME IInv, NEW r \in Request, Write(r)
  PROVE  OwnerIsKept'
<1>1. PICK c \in Change : c = change[r]
  BY DEF IInv, TypeOK
<1>2. /\ c.target \in User /\ c.target \in holds[r] /\ holds[r] \subseteq User
      /\ ~TakesLastOwner(c, holds[r])
      /\ member'[c.target] = After(c) /\ account'[c.target] = Saved(c)
  BY <1>1, WriteEffect DEF Change, IInv, TypeOK
<1>3. ASSUME NEW o \in Owners(User), o # c.target
      PROVE  OwnerIsKept'
  <2>1. o \in User /\ member'[o] = member[o] /\ account'[o] = account[o]
    BY <1>1, <1>3, WriteEffect DEF Owners
  <2> QED
    BY <2>1 DEF OwnerIsKept, Owners
<1>4. PICK o \in Owners(User) : TRUE
  BY DEF IInv, OwnerIsKept
<1>5. CASE ~ActiveOwner(member[c.target])
  BY <1>3, <1>4, <1>5 DEF Owners
<1>6. CASE ActiveOwner(After(c))
  <2>1. CASE o = c.target
    <3>1. c.status # "inactive"
      BY <1>6 DEF ActiveOwner, After
    <3>2. c.account # "disabled"
      BY <1>1, <3>1 DEF IInv, SavesAccount
    <3>3. account[c.target]
      BY <2>1 DEF Owners
    <3>4. Saved(c) = TRUE
      BY <3>2, <3>3 DEF Saved, Change, IInv, TypeOK
    <3> QED
      BY <1>2, <1>6, <3>4 DEF OwnerIsKept, Owners
  <2> QED
    BY <1>3, <1>4, <2>1
<1>7. CASE ActiveOwner(member[c.target]) /\ ~ActiveOwner(After(c))
  <2>1. ~(Cardinality(Owners(holds[r])) <= 1)
    BY <1>2, <1>7 DEF TakesLastOwner
  <2>2. PICK p \in Owners(holds[r]) : p # c.target
    BY <1>2, <2>1, AnotherOwner
  <2>3. p \in Owners(User)
    BY <1>2, <2>2 DEF Owners
  <2> QED
    BY <1>3, <2>2, <2>3
<1> QED
  BY <1>5, <1>6, <1>7

LEMMA WriteIInv ==
  ASSUME IInv, NEW r \in Request, Write(r)
  PROVE  IInv'
<1> DEFINE c == change[r]
<1>1. /\ pc' = [pc EXCEPT ![r] = "idle"]
      /\ change' = [change EXCEPT ![r] = NoChange]
      /\ holds' = [holds EXCEPT ![r] = {}]
      /\ member' = [member EXCEPT ![c.target] = After(c)]
      /\ account' = [account EXCEPT ![c.target] = Saved(c)]
      /\ UNCHANGED <<toLock, linked, legacy>>
  BY DEF Write, Release
<1>2. /\ c \in Change /\ c.target \in holds[r] /\ c.target \in Rows
      /\ \A u \in User \ {c.target} : member'[u] = member[u] /\ account'[u] = account[u]
  BY WriteEffect
<1>3. TypeOK'
  <2>1. After(c) \in Row \cup {Absent}
    BY <1>2, AfterType DEF IInv
  <2>2. Saved(c) \in BOOLEAN
    BY <1>2 DEF Saved, IInv, TypeOK, Change
  <2>3. member' \in [User -> Row \cup {Absent}] /\ account' \in [User -> BOOLEAN]
    BY <1>1, <2>1, <2>2 DEF IInv, TypeOK
  <2> QED
    BY <1>1, <2>3, NoChangeType DEF IInv, TypeOK
<1>4. ASSUME NEW q \in Request, q # r
      PROVE  \A u \in holds[q] : member'[u] = member[u] /\ account'[u] = account[u]
  <2>1. c.target \notin holds[q] /\ holds[q] \subseteq User
    BY <1>2, <1>4 DEF IInv, Locked, TypeOK
  <2> QED
    BY <1>2, <2>1
<1>5. Locked'
  <2>1. \A q, p \in Request : q # p => holds'[q] \cap holds'[p] = {}
    BY <1>1 DEF IInv, Locked, TypeOK
  <2>2. ASSUME NEW q \in Request PROVE holds'[q] \subseteq Rows'
    <3>1. CASE q = r
      BY <1>1, <3>1 DEF IInv, TypeOK
    <3>2. CASE q # r
      BY <1>1, <1>4, <3>2 DEF IInv, TypeOK, Locked, Rows
    <3> QED
      BY <3>1, <3>2
  <2> QED
    BY <2>1, <2>2 DEF Locked
<1>6. Decided'
  <2> SUFFICES ASSUME NEW q \in Request, pc'[q] = "write"
               PROVE  change'[q].target \in holds'[q] /\ ~TakesLastOwner(change[q], holds[q])'
    BY DEF Decided
  <2>1. q # r /\ pc'[q] = pc[q] /\ change'[q] = change[q] /\ holds'[q] = holds[q]
    BY <1>1 DEF IInv, TypeOK
  <2> QED
    BY <1>4, <2>1, OthersDecided DEF IInv
<1>7. SavesAccount'
  BY <1>1 DEF IInv, SavesAccount, TypeOK, NoChange
<1> QED
  BY <1>3, <1>5, <1>6, <1>7, WriteKeepsOwner DEF IInv

------------------------------------------------------------------------------
(* The rest of the world, which only makes rows.                           *)

\* A step that gives a row to one user without one, and leaves the others and
\* the requests alone.
LEMMA NewRowIInv ==
  ASSUME IInv, TypeOK', NEW u \in User, member[u] = Absent,
         \A v \in User \ {u} : member'[v] = member[v] /\ account'[v] = account[v],
         member'[u] # Absent, UNCHANGED requestVars
  PROVE  IInv'
<1>1. UNCHANGED <<pc, change, toLock, holds>>
  BY DEF requestVars
<1>2. ASSUME NEW q \in Request
      PROVE  /\ u \notin holds[q]
             /\ \A v \in holds[q] : member'[v] = member[v] /\ account'[v] = account[v]
  <2>1. u \notin holds[q] /\ holds[q] \subseteq User
    BY DEF IInv, Locked, Rows, TypeOK
  <2> QED
    BY <2>1
<1>3. Locked'
  BY <1>1, <1>2 DEF IInv, Locked, Rows
<1>4. Decided'
  <2> SUFFICES ASSUME NEW q \in Request, pc'[q] = "write"
               PROVE  change'[q].target \in holds'[q] /\ ~TakesLastOwner(change[q], holds[q])'
    BY DEF Decided
  <2> QED
    BY <1>1, <1>2, OthersDecided DEF IInv
<1>5. SavesAccount'
  BY <1>1 DEF IInv, SavesAccount
<1>6. OwnerIsKept'
  <2>1. PICK o \in Owners(User) : TRUE
    BY DEF IInv, OwnerIsKept
  <2>2. o \in User \ {u}
    BY <2>1 DEF Owners, ActiveOwner, Absent
  <2> QED
    BY <2>1, <2>2 DEF OwnerIsKept, Owners
<1> QED
  BY <1>3, <1>4, <1>5, <1>6 DEF IInv

LEMMA AddIInv ==
  ASSUME IInv, NEW u \in User, NEW role \in Role, Add(u, role)
  PROVE  IInv'
<1> DEFINE row == [role |-> role, active |-> TRUE]
<1>1. row \in Row /\ row # Absent
  BY DEF Row, Absent, Role
<1>2. /\ member[u] = Absent
      /\ member' = [member EXCEPT ![u] = row]
      /\ account' = [account EXCEPT ![u] = TRUE]
      /\ linked' = linked \cup {u}
      /\ legacy' = [legacy EXCEPT ![u] = role]
      /\ UNCHANGED requestVars
  BY DEF Add
<1> HIDE DEF row
<1>3. TypeOK'
  BY <1>1, <1>2 DEF IInv, TypeOK, requestVars
<1>4. /\ member'[u] # Absent
      /\ \A v \in User \ {u} : member'[v] = member[v] /\ account'[v] = account[v]
  BY <1>1, <1>2 DEF IInv, TypeOK
<1> QED
  BY <1>2, <1>3, <1>4, NewRowIInv

LEMMA BridgeIInv ==
  ASSUME IInv, NEW u \in User, Bridge(u)
  PROVE  IInv'
<1> DEFINE row == [role |-> legacy[u], active |-> account[u]]
<1>1. row \in Row /\ row # Absent
  BY DEF IInv, TypeOK, Row, Absent, Role
<1>2. /\ member[u] = Absent
      /\ member' = [member EXCEPT ![u] = row]
      /\ UNCHANGED <<account, linked, legacy, requestVars>>
  BY DEF Bridge
<1> HIDE DEF row
<1>3. TypeOK'
  BY <1>1, <1>2 DEF IInv, TypeOK, requestVars
<1>4. /\ member'[u] # Absent
      /\ \A v \in User \ {u} : member'[v] = member[v] /\ account'[v] = account[v]
  BY <1>1, <1>2 DEF IInv, TypeOK
<1> QED
  BY <1>2, <1>3, <1>4, NewRowIInv

------------------------------------------------------------------------------
(* The theorems.                                                           *)

LEMMA NextIInv == IInv /\ [Next]_vars => IInv'
<1> SUFFICES ASSUME IInv, [Next]_vars PROVE IInv'
  OBVIOUS
<1>1. ASSUME NEW r \in Request, NEW actor \in User, NEW c \in Change, Begin(r, actor, c)
      PROVE  IInv'
  BY <1>1, BeginIInv
<1>2. ASSUME NEW r \in Request, Lock(r) \/ Decide(r)
      PROVE  IInv'
  BY <1>2, LockIInv, RefuseIInv, AllowIInv, WriteIInv DEF Decide
<1>3. ASSUME NEW u \in User, NEW role \in Role, Add(u, role)
      PROVE  IInv'
  BY <1>3, AddIInv
<1>4. ASSUME NEW u \in User, Bridge(u)
      PROVE  IInv'
  BY <1>4, BridgeIInv
<1>5. CASE UNCHANGED vars
  <2>1. UNCHANGED <<member, account, linked, legacy, pc, change, toLock, holds>>
    BY <1>5 DEF vars, requestVars
  <2>2. TypeOK' /\ Locked' /\ SavesAccount' /\ OwnerIsKept'
    BY <2>1 DEF IInv, TypeOK, Locked, Rows, SavesAccount, OwnerIsKept, Owners
  <2>3. Decided'
    BY <2>1, OthersDecided DEF IInv, Decided
  <2> QED
    BY <2>2, <2>3 DEF IInv
<1> QED
  BY <1>1, <1>2, <1>3, <1>4, <1>5 DEF Next

(* The strengthened invariant: locks are exclusive, locked rows stay, and a *)
(* decision taken under locks is still right when it is written.            *)
THEOREM Invariance == Spec => []IInv
<1>1. Init => IInv
  BY InitIInv
<1>2. IInv /\ [Next]_vars => IInv'
  BY NextIInv
<1> QED
  BY <1>1, <1>2, PTL DEF Spec

(* Every row, request and lock stays well formed, for any finite set of     *)
(* people and any set of overlapping requests.                              *)
THEOREM TypeCorrect == Spec => []TypeOK
<1>1. IInv => TypeOK
  BY DEF IInv
<1> QED
  BY <1>1, Invariance, PTL

(* Owner-level changes that run at once never leave a workspace without an  *)
(* active owner, however many people and requests there are.                *)
THEOREM OwnerIsKeptCorrect == Spec => []OwnerIsKept
<1>1. IInv => OwnerIsKept
  BY DEF IInv
<1> QED
  BY <1>1, Invariance, PTL

(* No two requests hold the same membership row, and a row that a request   *)
(* holds is not deleted under it.                                           *)
THEOREM LocksExclude == Spec => []Locked
<1>1. IInv => Locked
  BY DEF IInv
<1> QED
  BY <1>1, Invariance, PTL

(* Only a request of an owner lets a deactivated member in again: neither   *)
(* the bridge nor any other step of any run does.                           *)
THEOREM BridgeRespectsDeactivationCorrect == Spec => BridgeRespectsDeactivation
<1> DEFINE A == \A u \in User :
                  member[u] # Absent /\ ~member[u].active /\ member'[u].active
                  => \E r \in Request : pc[r] = "write" /\ change[r].target = u
<1>1. TypeOK /\ [Next]_vars => [A]_vars
  <2> SUFFICES ASSUME TypeOK, Next, NEW u \in User, member[u] # Absent,
                      ~member[u].active, member'[u].active
               PROVE  \E r \in Request : pc[r] = "write" /\ change[r].target = u
    OBVIOUS
  <2>1. member' # member
    OBVIOUS
  <2>2. ASSUME NEW r \in Request, NEW actor \in User, NEW c \in Change, Begin(r, actor, c)
        PROVE  FALSE
    BY <2>1, <2>2 DEF Begin
  <2>3. ASSUME NEW r \in Request, Lock(r) \/ Refuse(r) \/ Allow(r)
        PROVE  FALSE
    BY <2>1, <2>3 DEF Lock, Take, Refuse, Allow
  <2>4. ASSUME NEW r \in Request, Write(r)
        PROVE  pc[r] = "write" /\ change[r].target = u
    <3>1. CASE change[r].target # u
      BY <2>4, <3>1 DEF Write, TypeOK
    <3> QED
      BY <2>4, <3>1 DEF Write
  <2>5. ASSUME NEW v \in User, NEW role \in Role, Add(v, role)
        PROVE  FALSE
    BY <2>5 DEF Add, TypeOK
  <2>6. ASSUME NEW v \in User, Bridge(v)
        PROVE  FALSE
    BY <2>6 DEF Bridge, TypeOK
  <2> QED
    BY <2>2, <2>3, <2>4, <2>5, <2>6 DEF Next, Decide
<1> QED
  BY <1>1, TypeCorrect, PTL DEF Spec, BridgeRespectsDeactivation

------------------------------------------------------------------------------
(* Nobody waits for ever.                                                  *)

\* A set of keys has a first one in any strict order.
LEMMA FirstKey ==
  ASSUME NEW T \in SUBSET User, T # {}, NEW R,
         \A u \in User : <<u, u>> \notin R,
         \A u, v, w \in User : <<u, v>> \in R /\ <<v, w>> \in R => <<u, w>> \in R
  PROVE  \E u \in T : \A v \in T : <<v, u>> \notin R
<1> DEFINE Before(u) == {v \in T : <<v, u>> \in R}
           All == {Before(u) : u \in T}
<1>1. ASSUME NEW u \in T PROVE Before(u) \in FiniteSubsetsOf(User)
  <2>1. Before(u) \subseteq User
    OBVIOUS
  <2>2. IsFiniteSet(Before(u))
    <3> HIDE DEF Before
    <3> QED
      BY <2>1, UserAssumption, FS_Subset
  <2> QED
    BY <2>1, <2>2 DEF FiniteSubsetsOf
<1>2. All # {} /\ All \subseteq FiniteSubsetsOf(User)
  <2> HIDE DEF Before
  <2> QED
    BY <1>1
<1>3. PICK B \in All : \A C \in All : ~(<<C, B>> \in StrictSubsetOrdering(User))
  <2> HIDE DEF All
  <2> QED
    BY <1>2, FS_StrictSubsetOrderingWellFounded, WFMin
<1>4. PICK u \in T : B = Before(u)
  BY <1>3
<1>5. ASSUME NEW v \in T, <<v, u>> \in R PROVE FALSE
  <2>1. v \in Before(u) /\ v \notin Before(v)
    BY <1>5
  <2>2. Before(v) \subseteq Before(u)
    BY <1>5
  <2>3. Before(v) \in SUBSET User /\ Before(u) \in SUBSET User
    OBVIOUS
  <2>4. <<Before(v), Before(u)>> \in StrictSubsetOrdering(User)
    <3> HIDE DEF Before
    <3> QED
      BY <2>1, <2>2, <2>3 DEF StrictSubsetOrdering
  <2>5. Before(v) \in All
    OBVIOUS
  <2> HIDE DEF All, Before
  <2> QED
    BY <1>3, <1>4, <2>4, <2>5
<1> QED
  BY <1>5

LEMMA LeastKey ==
  ASSUME NEW T \in SUBSET User, T # {}
  PROVE  \E u \in T : \A v \in T : u <= v
<1> DEFINE R == {p \in User \X User : p[1] < p[2]}
<1>1. /\ \A u \in User : <<u, u>> \notin R
      /\ \A u, v, w \in User : <<u, v>> \in R /\ <<v, w>> \in R => <<u, w>> \in R
  BY UserAssumption
<1>2. PICK u \in T : \A v \in T : <<v, u>> \notin R
  <2> HIDE DEF R
  <2> QED
    BY <1>1, FirstKey
<1>3. ASSUME NEW v \in T PROVE ~(v < u)
  <2>1. ~(v < u) \/ <<v, u>> \in R
    OBVIOUS
  <2> QED
    BY <1>2, <2>1
<1>4. u \in Nat /\ T \subseteq Nat
  BY UserAssumption
<1> QED
  BY <1>3, <1>4

LEMMA GreatestKey ==
  ASSUME NEW T \in SUBSET User, T # {}
  PROVE  \E u \in T : \A v \in T : v <= u
<1> DEFINE R == {p \in User \X User : p[2] < p[1]}
<1>1. /\ \A u \in User : <<u, u>> \notin R
      /\ \A u, v, w \in User : <<u, v>> \in R /\ <<v, w>> \in R => <<u, w>> \in R
  BY UserAssumption
<1>2. PICK u \in T : \A v \in T : <<v, u>> \notin R
  <2> HIDE DEF R
  <2> QED
    BY <1>1, FirstKey
<1>3. ASSUME NEW v \in T PROVE ~(u < v)
  <2>1. ~(u < v) \/ <<v, u>> \in R
    OBVIOUS
  <2> QED
    BY <1>2, <2>1
<1>4. u \in Nat /\ T \subseteq Nat
  BY UserAssumption
<1> QED
  BY <1>3, <1>4

\* Only a request that is locking has rows to lock, all of them above those it
\* holds, and one that has ended holds none.
LockOrder ==
  \A r \in Request :
    /\ pc[r] # "lock" => toLock[r] = {}
    /\ pc[r] = "idle" => holds[r] = {}
    /\ \A u \in holds[r], v \in toLock[r] : u < v

\* A request that has not ended and that no other keeps waiting.
GoesOn(r) ==
  \/ pc[r] = "write"
  \/ pc[r] = "lock" /\ toLock[r] = {}
  \/ /\ pc[r] = "lock"
     /\ \E u \in toLock[r] : /\ \A v \in toLock[r] : u <= v
                             /\ \A q \in Request : u \notin holds[q]

NoCircularWait == (\E r \in Request : pc[r] # "idle") => \E r \in Request : GoesOn(r)

LEMMA NextLockOrder ==
  ASSUME TypeOK, LockOrder, [Next]_vars
  PROVE  LockOrder'
<1>1. ASSUME NEW r \in Request, NEW actor \in User, NEW c \in Change, Begin(r, actor, c)
      PROVE  LockOrder'
  BY <1>1 DEF Begin, LockOrder, TypeOK
<1>2. ASSUME NEW r \in Request, Lock(r)
      PROVE  LockOrder'
  <2>1. PICK u \in toLock[r] : (\A v \in toLock[r] : u <= v) /\ Take(r, u)
    BY <1>2 DEF Lock
  <2>2. toLock[r] \subseteq User /\ holds[r] \subseteq User
    BY DEF TypeOK
  <2>3. \A v \in toLock[r] : v \in Nat /\ u \in Nat
    BY <2>2, UserAssumption
  <2>4. /\ toLock' = [toLock EXCEPT ![r] = toLock[r] \ {u}]
        /\ holds' = [holds EXCEPT ![r] = IF u \in Rows THEN holds[r] \cup {u} ELSE holds[r]]
        /\ pc' = pc
    BY <2>1 DEF Take
  <2>5. holds'[r] \subseteq holds[r] \cup {u} /\ toLock'[r] = toLock[r] \ {u}
    BY <2>4 DEF TypeOK
  <2>6. \A x \in holds'[r], v \in toLock'[r] : x < v
    BY <2>1, <2>3, <2>5 DEF LockOrder
  <2>7. pc[r] = "lock"
    BY <1>2 DEF Lock
  <2> QED
    BY <2>4, <2>6, <2>7 DEF LockOrder, TypeOK
<1>3. ASSUME NEW r \in Request, Refuse(r) \/ Write(r)
      PROVE  LockOrder'
  <2>1. /\ pc' = [pc EXCEPT ![r] = "idle"] /\ holds' = [holds EXCEPT ![r] = {}]
        /\ toLock' = toLock
    BY <1>3 DEF Refuse, Write, Release
  <2>2. toLock[r] = {}
    BY <1>3 DEF Refuse, Write, LockOrder
  <2> QED
    BY <2>1, <2>2 DEF LockOrder, TypeOK
<1>4. ASSUME NEW r \in Request, Allow(r)
      PROVE  LockOrder'
  BY <1>4 DEF Allow, LockOrder, TypeOK
<1>5. ASSUME NEW u \in User, (\E role \in Role : Add(u, role)) \/ Bridge(u)
      PROVE  LockOrder'
  BY <1>5 DEF Add, Bridge, requestVars, LockOrder
<1>6. CASE UNCHANGED vars
  BY <1>6 DEF vars, requestVars, LockOrder
<1> QED
  BY <1>1, <1>2, <1>3, <1>4, <1>5, <1>6 DEF Next, Decide

\* The request that waits for the greatest row waited for, waits for one that
\* does not wait.
LEMMA SomeoneGoesOn == TypeOK /\ LockOrder => NoCircularWait
<1> SUFFICES ASSUME TypeOK, LockOrder, NEW r \in Request, pc[r] # "idle",
                    \A q \in Request : ~GoesOn(q)
             PROVE  FALSE
  BY DEF NoCircularWait
<1> DEFINE Waits(q, u) == /\ pc[q] = "lock" /\ u \in toLock[q]
                          /\ \A v \in toLock[q] : u <= v
           Awaited == {u \in User : \E q \in Request : Waits(q, u)}
<1>1. ASSUME NEW q \in Request, pc[q] # "idle"
      PROVE  \E u \in User : Waits(q, u)
  <2>1. pc[q] = "lock" /\ toLock[q] # {} /\ toLock[q] \in SUBSET User
    BY <1>1 DEF GoesOn, TypeOK
  <2> QED
    BY <2>1, LeastKey
<1>2. Awaited # {} /\ Awaited \in SUBSET User
  BY <1>1
<1>3. PICK u \in Awaited : \A v \in Awaited : v <= u
  <2> HIDE DEF Awaited
  <2> QED
    BY <1>2, GreatestKey
<1>4. PICK q \in Request : Waits(q, u)
  BY <1>3
<1>5. PICK p \in Request : u \in holds[p]
  BY <1>4 DEF GoesOn
<1>6. pc[p] # "idle"
  BY <1>5 DEF LockOrder
<1>7. PICK v \in User : Waits(p, v)
  BY <1>1, <1>6
<1>8. u < v
  BY <1>5, <1>7 DEF LockOrder
<1>9. v \in Awaited /\ u \in Nat /\ v \in Nat
  BY <1>2, <1>7, UserAssumption
<1>10. v <= u
  BY <1>3, <1>9
<1> QED
  BY <1>8, <1>9, <1>10

(* Locks are taken in the order of the keys, so that requests never wait    *)
(* for each other in a circle: whenever one has not ended, one of them has  *)
(* its next row free, or all it wants.                                      *)
THEOREM NoCircularWaitCorrect == Spec => []NoCircularWait
<1>1. Init => LockOrder
  BY DEF Init, LockOrder
<1>2. TypeOK /\ LockOrder /\ [Next]_vars => LockOrder'
  BY NextLockOrder
<1>3. TypeOK /\ LockOrder => NoCircularWait
  BY SomeoneGoesOn
<1> QED
  BY <1>1, <1>2, <1>3, TypeCorrect, PTL DEF Spec

------------------------------------------------------------------------------
(* How the removed come back.                                              *)

\* A linked user without a row gets an active one, if at all, from the bridge.
OnlyBridgeReadmits ==
  [][\A u \in User : u \in linked /\ member[u] = Absent /\ member'[u].active
       => Bridge(u)]_vars

(* An owner's request never readmits someone who was removed, not even one  *)
(* that read the row before, and neither does a new teammate's creation:    *)
(* what MembershipsRemoved.cfg shows is the bridge's doing alone.           *)
THEOREM OnlyBridgeReadmitsCorrect == Spec => OnlyBridgeReadmits
<1> DEFINE A == \A u \in User : u \in linked /\ member[u] = Absent /\ member'[u].active
                  => Bridge(u)
<1>1. IInv /\ [Next]_vars => [A]_vars
  <2> SUFFICES ASSUME IInv, Next, NEW u \in User, u \in linked, member[u] = Absent,
                      member'[u].active
               PROVE  Bridge(u)
    OBVIOUS
  <2>1. member'[u] # member[u]
    BY DEF Absent
  <2>2. ASSUME NEW r \in Request, NEW actor \in User, NEW c \in Change, Begin(r, actor, c)
        PROVE  FALSE
    BY <2>1, <2>2 DEF Begin
  <2>3. ASSUME NEW r \in Request, Lock(r) \/ Refuse(r) \/ Allow(r)
        PROVE  FALSE
    BY <2>1, <2>3 DEF Lock, Take, Refuse, Allow
  <2>4. ASSUME NEW r \in Request, Write(r)
        PROVE  FALSE
    <3>1. change[r].target # u
      BY <2>4, WriteEffect DEF Rows
    <3> QED
      BY <2>1, <2>4, <3>1, WriteEffect
  <2>5. ASSUME NEW v \in User, NEW role \in Role, Add(v, role)
        PROVE  FALSE
    BY <2>1, <2>5 DEF Add, IInv, TypeOK
  <2>6. ASSUME NEW v \in User, Bridge(v)
        PROVE  v = u
    BY <2>1, <2>6 DEF Bridge, IInv, TypeOK
  <2> QED
    BY <2>2, <2>3, <2>4, <2>5, <2>6 DEF Next, Decide
<1> QED
  BY <1>1, Invariance, PTL DEF Spec, OnlyBridgeReadmits

==============================================================================
