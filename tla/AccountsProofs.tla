---------------------------- MODULE AccountsProofs ----------------------------
(***************************************************************************)
(* Codes bound the guesses and work once, and a change of the password     *)
(* ends the tokens from before it, for any numbers of overlapping          *)
(* requests, attempts and tokens.                                          *)
(***************************************************************************)
EXTENDS Accounts, TLAPS

------------------------------------------------------------------------------
(* The inductive invariant.                                                *)

\* The lock of a row: at most one request holds it, the row stays, and it stays
\* as the request read it but for its age.
Locked ==
  /\ \A p, q \in Guess :
       guess[p] # None /\ guess[q] # None /\ guess[p].table = guess[q].table => p = q
  /\ \A q \in Guess : guess[q] # None =>
       /\ guess[q].table \in Rows
       /\ slip[guess[q].table].tries = guess[q].tries
       /\ guess[q].good => guess[q].tries < MaxAttempts

\* A row counts the wrong guesses at its code, which has not worked yet.
Counted ==
  /\ \A t \in Rows : missed[t] = slip[t].tries /\ used[t] = 0
  /\ GuessesAreBounded /\ CodeWorksOnce

IInv == TypeOK /\ Locked /\ Counted /\ ChangeSignsOut

LEMMA NewRowType == NewRow \in SlipRow /\ NewRow.tries = 0 /\ NewRow # None
BY LimitAssumption DEF NewRow, SlipRow, None, Oldest

LEMMA RowType ==
  ASSUME TypeOK, NEW t \in Rows
  PROVE  t \in Table /\ slip[t] \in SlipRow
BY DEF TypeOK, Rows

LEMMA InitIInv == Init => IInv
<1> SUFFICES ASSUME Init PROVE IInv
  OBVIOUS
<1>1. TypeOK
  BY DEF Init, TypeOK
<1>2. Locked
  BY DEF Init, Locked
<1>3. Counted
  BY LimitAssumption DEF Init, Counted, Rows, GuessesAreBounded, CodeWorksOnce
<1>4. ChangeSignsOut
  BY DEF Init, ChangeSignsOut
<1> QED
  BY <1>1, <1>2, <1>3, <1>4 DEF IInv

------------------------------------------------------------------------------
(* Steps that neither read nor write a code.                               *)

\* What the invariant says of codes.
Codes ==
  /\ slip \in [Table -> SlipRow \cup {None}]
  /\ taken \in BOOLEAN
  /\ guess \in [Guess -> GuessRow \cup {None}]
  /\ missed \in [Table -> Nat] /\ used \in [Table -> Nat]
  /\ Locked /\ Counted

\* What it says of passwords and tokens.
Access ==
  /\ password \in Password \cup {NoPassword}
  /\ client \in [Client -> ClientRow \cup {None}]
  /\ live \subseteq Token /\ fresh \subseteq Token /\ spared \subseteq Token
  /\ change \in {"no", "saved"}
  /\ editor \in [Editor -> Password \cup {NoPassword}]
  /\ ChangeSignsOut

LEMMA IInvIs == IInv <=> Codes /\ Access
BY DEF IInv, TypeOK, Codes, Access

LEMMA SameCodes == Codes /\ UNCHANGED codeVars => Codes'
BY DEF Codes, codeVars, Locked, Counted, Rows, GuessesAreBounded, CodeWorksOnce

LEMMA SameAccess == Access /\ UNCHANGED <<password, tokenVars, change, editor>> => Access'
BY DEF Access, tokenVars, ChangeSignsOut

LEMMA ClientStep ==
  ASSUME Access,
         \/ \E q \in Client : SignIn(q) \/ \E k \in Token : Present(q, k) \/ Record(q, k)
  PROVE  Access'
<1>1. ASSUME NEW q \in Client, SignIn(q) PROVE Access'
  <2>1. client' \in [Client -> ClientRow \cup {None}]
    BY <1>1 DEF SignIn, Access, ClientRow
  <2> QED
    BY <1>1, <2>1 DEF SignIn, Access, ChangeSignsOut
<1>2. ASSUME NEW q \in Client, NEW k \in Token, Present(q, k) PROVE Access'
  <2>1. client' \in [Client -> ClientRow \cup {None}]
    BY <1>2 DEF Present, Access, ClientRow
  <2> QED
    BY <1>2, <2>1 DEF Present, Access, ChangeSignsOut
<1>3. ASSUME NEW q \in Client, NEW k \in Token, Record(q, k) PROVE Access'
  <2>1. client' \in [Client -> ClientRow \cup {None}]
    BY <1>3 DEF Record, Access
  <2>2. live' \subseteq Token /\ fresh' \subseteq Token /\ spared' \subseteq Token
    BY <1>3 DEF Record, Access
  <2>3. ChangeSignsOut'
    BY <1>3 DEF Record, Access, ChangeSignsOut
  <2> QED
    BY <1>3, <2>1, <2>2, <2>3 DEF Record, Access
<1> QED
  BY <1>1, <1>2, <1>3

LEMMA OutdateType ==
  ASSUME Access, Outdate
  PROVE  client' \in [Client -> ClientRow \cup {None}] /\ fresh' = {}
<1>1. \A q \in Client : client[q] # None => [client[q] EXCEPT !.fresh = FALSE] \in ClientRow
  BY DEF Access, ClientRow
<1> QED
  BY <1>1 DEF Outdate

LEMMA PasswordStep ==
  ASSUME Access,
         SavePassword \/ Revoke \/ DieChanging \/ \E e \in Editor : Load(e) \/ Save(e)
  PROVE  Access'
<1>1. CASE SavePassword
  BY <1>1, OutdateType DEF SavePassword, Access, ChangeSignsOut
<1>2. CASE Revoke \/ DieChanging
  BY <1>2 DEF Revoke, DieChanging, Access, ChangeSignsOut
<1>3. ASSUME NEW e \in Editor, Load(e) \/ Save(e) PROVE Access'
  BY <1>3 DEF Load, Save, Access, ChangeSignsOut, tokenVars
<1> QED
  BY <1>1, <1>2, <1>3

------------------------------------------------------------------------------
(* Steps on codes.                                                         *)

LEMMA TickCodes == Codes /\ Tick => Codes'
<1> SUFFICES ASSUME Codes, Tick PROVE Codes'
  OBVIOUS
<1>1. \A t \in Table : slip[t] # None =>
        slip'[t] \in SlipRow /\ slip'[t] # None /\ slip'[t].tries = slip[t].tries
  BY LimitAssumption DEF Tick, Codes, Rows, SlipRow, None, Oldest
<1>2. \A t \in Table : slip[t] = None => slip'[t] = None
  BY DEF Tick, Rows
<1>3. slip' \in [Table -> SlipRow \cup {None}]
  BY <1>1, <1>2 DEF Tick
<1>4. Rows' = Rows
  BY <1>1, <1>2 DEF Rows
<1>5. Locked'
  BY <1>1, <1>4 DEF Tick, Codes, Locked, Rows
<1>6. Counted'
  BY <1>1, <1>4 DEF Tick, Codes, Counted, Rows, GuessesAreBounded, CodeWorksOnce
<1> QED
  BY <1>3, <1>5, <1>6 DEF Tick, Codes

LEMMA IssueCodes ==
  ASSUME Codes, NEW t \in Table, Issue(t)
  PROVE  Codes'
<1>1. slip' \in [Table -> SlipRow \cup {None}] /\ Rows' = Rows \cup {t}
  BY NewRowType DEF Issue, Codes, Rows
<1>2. missed' \in [Table -> Nat] /\ used' \in [Table -> Nat]
  BY DEF Issue, Codes
<1>3. \A q \in Guess : guess[q] # None => guess[q].table # t
  BY DEF Issue, Free
<1>4. \A u \in Table : u # t => slip'[u] = slip[u] /\ missed'[u] = missed[u] /\ used'[u] = used[u]
  BY DEF Issue, Codes
<1>5. slip'[t] = NewRow /\ missed'[t] = 0 /\ used'[t] = 0
  BY DEF Issue, Codes
<1>6. Locked'
  BY <1>1, <1>3, <1>4 DEF Issue, Codes, Locked, Rows
<1>7. Counted'
  BY <1>1, <1>4, <1>5, NewRowType, LimitAssumption
  DEF Codes, Counted, Rows, GuessesAreBounded, CodeWorksOnce
<1> QED
  BY <1>1, <1>2, <1>6, <1>7 DEF Issue, Codes

LEMMA LookUpCodes ==
  ASSUME Codes, NEW q \in Guess, NEW t \in Table, NEW right \in BOOLEAN, LookUp(q, t, right)
  PROVE  Codes'
<1> DEFINE new == [kind |-> "guess", table |-> t, right |-> right,
                   good |-> Good(slip[t]), tries |-> slip[t].tries]
<1>1. t \in Rows /\ slip[t] \in SlipRow
  BY DEF LookUp, Codes, Rows
<1>2. new \in GuessRow /\ new.table = t /\ new.tries = slip[t].tries
  BY <1>1 DEF GuessRow, SlipRow, Good
<1>3. new.good => new.tries < MaxAttempts
  BY DEF Good
<1>4. guess' = [guess EXCEPT ![q] = new]
  BY DEF LookUp
<1> HIDE DEF new
<1>5. \A p \in Guess : guess[p] # None => guess[p].table # t
  BY DEF LookUp, Free
<1>6. Locked'
  BY <1>1, <1>2, <1>3, <1>4, <1>5 DEF LookUp, Codes, Locked, Rows
<1>7. Counted'
  BY DEF LookUp, Codes, Counted, Rows, GuessesAreBounded, CodeWorksOnce
<1> QED
  BY <1>2, <1>4, <1>6, <1>7 DEF LookUp, Codes

LEMMA MissCodes ==
  ASSUME Codes, NEW q \in Guess, Miss(q)
  PROVE  Codes'
<1> DEFINE t == guess[q].table
           new == [slip[t] EXCEPT !.tries = guess[q].tries + 1]
<1>1. guess[q] \in GuessRow /\ t \in Rows /\ t \in Table /\ slip[t] \in SlipRow
  BY DEF Miss, Codes, Locked, Rows
<1>2. guess[q].tries = slip[t].tries /\ guess[q].tries < MaxAttempts
  BY DEF Miss, Codes, Locked
<1>3. new \in SlipRow /\ new # None /\ new.tries = slip[t].tries + 1
  BY <1>1, <1>2, LimitAssumption DEF SlipRow, None
<1>4. slip' = [slip EXCEPT ![t] = new] /\ missed' = [missed EXCEPT ![t] = @ + 1]
  BY DEF Miss
<1>5. guess' = [guess EXCEPT ![q] = None] /\ used' = used /\ taken' = taken
  BY DEF Miss
<1>6. \A p \in Guess : p # q /\ guess[p] # None => guess[p].table # t
  BY DEF Miss, Codes, Locked
<1> HIDE DEF t, new
<1>7. slip' \in [Table -> SlipRow \cup {None}] /\ Rows' = Rows
  BY <1>1, <1>3, <1>4 DEF Codes, Rows
<1>8. missed[t] = slip[t].tries
  BY <1>1 DEF Codes, Counted
<1>9. missed' \in [Table -> Nat] /\ guess' \in [Guess -> GuessRow \cup {None}]
  BY <1>1, <1>4, <1>5 DEF Codes
<1>10. Locked'
  BY <1>1, <1>4, <1>5, <1>6, <1>7 DEF Codes, Locked, Rows
<1>11. Counted'
  <2>1. new.tries <= MaxAttempts
    BY <1>3, LimitAssumption DEF SlipRow
  <2> QED
    BY <1>1, <1>3, <1>4, <1>5, <1>7, <1>8, <2>1
    DEF Codes, Counted, Rows, GuessesAreBounded, CodeWorksOnce
<1> QED
  BY <1>5, <1>7, <1>9, <1>10, <1>11 DEF Codes

LEMMA SpendCodes ==
  ASSUME Codes, NEW q \in Guess, NEW t \in Table, Spend(q, t), UNCHANGED <<taken, missed>>
  PROVE  Codes'
<1>1. t \in Rows
  BY DEF Spend, Codes, Locked
<1>2. slip' \in [Table -> SlipRow \cup {None}] /\ Rows' = Rows \ {t}
  BY DEF Spend, Codes, Rows
<1>3. \A p \in Guess : p # q /\ guess[p] # None => guess[p].table # t
  BY DEF Spend, Codes, Locked
<1>4. Locked'
  BY <1>2, <1>3 DEF Spend, Codes, Locked, Rows
<1>5. used[t] = 0
  BY <1>1 DEF Codes, Counted
<1>6. used' \in [Table -> Nat] /\ guess' \in [Guess -> GuessRow \cup {None}]
  BY DEF Spend, Codes
<1>7. Counted'
  BY <1>2, <1>5 DEF Spend, Codes, Counted, Rows, GuessesAreBounded, CodeWorksOnce
<1> QED
  BY <1>2, <1>4, <1>6, <1>7 DEF Codes

LEMMA GiveUpCodes ==
  ASSUME Codes, NEW q \in Guess, GiveUp(q)
  PROVE  Codes'
BY DEF GiveUp, Codes, Locked, Counted, Rows, GuessesAreBounded, CodeWorksOnce

------------------------------------------------------------------------------
LEMMA NextIInv == IInv /\ [Next]_vars => IInv'
<1> SUFFICES ASSUME Codes, Access, [Next]_vars PROVE Codes' /\ Access'
  BY DEF IInv, TypeOK, Codes, Access
<1>1. CASE Tick
  BY <1>1, TickCodes, SameAccess DEF Tick
<1>2. ASSUME NEW t \in Table, Issue(t) PROVE Codes' /\ Access'
  BY <1>2, IssueCodes, SameAccess DEF Issue
<1>3. CASE SignUp \/ Resend \/ AskReset
  BY <1>2, <1>3 DEF SignUp, Resend, AskReset, Table
<1>4. CASE TakeName
  <2>1. Codes'
    BY <1>4 DEF TakeName, Codes, Locked, Counted, Rows, GuessesAreBounded, CodeWorksOnce
  <2> QED
    BY <1>4, <2>1, SameAccess DEF TakeName
<1>5. ASSUME NEW q \in Guess, NEW right \in BOOLEAN, Verify(q, right) \/ Confirm(q, right)
      PROVE  Codes' /\ Access'
  <2>1. PICK t \in Table : LookUp(q, t, right)
    BY <1>5 DEF Verify, Confirm, Table
  <2> QED
    BY <2>1, LookUpCodes, SameAccess DEF LookUp
<1>6. ASSUME NEW q \in Guess, Miss(q) PROVE Codes' /\ Access'
  BY <1>6, MissCodes, SameAccess DEF Miss
<1>7. ASSUME NEW q \in Guess, Activate(q) PROVE Codes' /\ Access'
  <2>1. Codes'
    BY <1>7, SpendCodes DEF Activate, Table
  <2> QED
    BY <1>7, <2>1 DEF Activate, Access, ChangeSignsOut, tokenVars
<1>8. ASSUME NEW q \in Guess, Reset(q) PROVE Codes' /\ Access'
  <2>1. Codes'
    BY <1>8, SpendCodes DEF Reset, Table
  <2> QED
    BY <1>8, <2>1, OutdateType DEF Reset, Access, ChangeSignsOut
<1>9. ASSUME NEW q \in Guess, GiveUp(q) PROVE Codes' /\ Access'
  BY <1>9, GiveUpCodes, SameAccess DEF GiveUp
<1>10. CASE \E q \in Client : SignIn(q) \/ \E k \in Token : Present(q, k) \/ Record(q, k)
  <2>1. UNCHANGED codeVars
    BY <1>10 DEF SignIn, Present, Record
  <2> QED
    BY <1>10, <2>1, ClientStep, SameCodes
<1>11. CASE SavePassword \/ Revoke \/ DieChanging \/ \E e \in Editor : Load(e) \/ Save(e)
  <2>1. UNCHANGED codeVars
    BY <1>11 DEF SavePassword, Revoke, DieChanging, Load, Save
  <2> QED
    BY <1>11, <2>1, PasswordStep, SameCodes
<1>12. CASE UNCHANGED vars
  BY <1>12, SameCodes, SameAccess DEF vars
<1> QED
  BY <1>1, <1>3, <1>4, <1>5, <1>6, <1>7, <1>8, <1>9, <1>10, <1>11, <1>12 DEF Next

\* Every state satisfies the inductive invariant: a locked row stays as its request
\* read it, and a row counts the wrong guesses at a code that has not worked yet.
THEOREM Invariance == Spec => []IInv
BY InitIInv, NextIInv, PTL DEF Spec

\* Rows, requests and tokens stay well formed, for any numbers of them.
THEOREM TypeCorrect == Spec => []TypeOK
<1>1. IInv => TypeOK
  BY DEF IInv
<1> QED
  BY <1>1, Invariance, PTL

\* A code takes MAX_VERIFICATION_ATTEMPTS or MAX_PASSWORD_RESET_ATTEMPTS wrong
\* guesses, however many requests present one at once.
THEOREM GuessesAreBoundedCorrect == Spec => []GuessesAreBounded
<1>1. IInv => GuessesAreBounded
  BY DEF IInv, Counted
<1> QED
  BY <1>1, Invariance, PTL

\* activate_pending_registration and reset_password let a code work once.
THEOREM CodeWorksOnceCorrect == Spec => []CodeWorksOnce
<1>1. IInv => CodeWorksOnce
  BY DEF IInv, Counted
<1> QED
  BY <1>1, Invariance, PTL

\* After a reset or a change of the password the tokens from before it are out,
\* but for those that an overlapping request or a change cut short left.
THEOREM ChangeSignsOutCorrect == Spec => []ChangeSignsOut
<1>1. IInv => ChangeSignsOut
  BY DEF IInv
<1> QED
  BY <1>1, Invariance, PTL
==============================================================================
