------------------------------ MODULE Accounts ------------------------------
(***************************************************************************)
(* One e-mail address on its way from a registration to an account with    *)
(* refresh tokens: codes that complete a registration                      *)
(* (core/email_verification.py, core/signup.py) and codes that reset a     *)
(* password (core/password_reset.py), the forms and endpoints that ask for *)
(* them and take them, sign-ins, changes of the password, and requests     *)
(* that save a whole row of core_user.                                     *)
(*                                                                         *)
(* Every code lives in a row that requests lock before they read it, so a  *)
(* guess is two steps: the lock with what it read, and what it writes.     *)
(* Mail goes out inside the transaction that stores the code; a send that  *)
(* fails, before or after the mail went out, leaves the row as it was.     *)
(***************************************************************************)
EXTENDS Naturals

CONSTANTS
  Password,
  Guess,        \* requests that present a code
  Client,       \* requests that sign in or refresh a token
  Token,        \* refresh tokens (bound: how many live at once)
  Editor,       \* requests that save a whole user row
  NoPassword,
  MaxAttempts,  \* MAX_VERIFICATION_ATTEMPTS, MAX_PASSWORD_RESET_ATTEMPTS
  Cooldown,     \* the pause before another code
  Lifetime      \* how long a code may be used

ASSUME NoneAssumption == NoPassword \notin Password
ASSUME LimitAssumption == MaxAttempts \in Nat /\ Cooldown \in Nat /\ Lifetime \in Nat \ {0}

VARIABLES
  slip,         \* the rows with a code: PendingRegistration, PasswordResetRequest
  taken,        \* another account has the username or the email of the registration
  password,     \* the password of the account, NoPassword before it exists
  guess,        \* what each request that presents a code has read
  missed,       \* history: wrong guesses against the code of each row
  used,         \* history: how often the last code of each row has worked
  client,       \* what each sign-in or refresh has checked
  live,         \* outstanding refresh tokens that are not blacklisted
  fresh,        \* history: tokens whose password has not been changed since
  spared,       \* history: tokens recorded by a request that a change of the
                \* password overtook, or left by a change that died
  change,       \* the change of the password by its owner
  editor        \* the password each Editor loaded with the row

codeVars == <<slip, taken, guess, missed, used>>
tokenVars == <<client, live, fresh, spared>>
vars == <<codeVars, password, tokenVars, change, editor>>

Table == {"registration", "reset"}
None == [kind |-> "none"]
\* A row with a code that was sent just now; which code makes no difference.
NewRow == [kind |-> "row", tries |-> 0, age |-> 0]

Rows == {t \in Table : slip[t] # None}
\* A row is free unless a request that presents a code holds its lock.  A reset
\* locks the row of the user as well.
Free(t) == ~\E q \in Guess : guess[q] # None /\ guess[q].table = t
UserFree == Free("reset")

\* _verification_expired and _reset_code_expired, the limit of attempts
Good(r) == r.age < Lifetime /\ r.tries < MaxAttempts
\* At this age nothing changes any more.
Oldest == IF Cooldown < Lifetime THEN Lifetime ELSE Cooldown

------------------------------------------------------------------------------
Init ==
  /\ slip = [t \in Table |-> None]
  /\ taken = FALSE
  /\ password = NoPassword
  /\ guess = [q \in Guess |-> None]
  /\ missed = [t \in Table |-> 0]
  /\ used = [t \in Table |-> 0]
  /\ client = [q \in Client |-> None]
  /\ live = {} /\ fresh = {} /\ spared = {}
  /\ change = "no"
  /\ editor = [e \in Editor |-> NoPassword]

\* Time passes.
Tick ==
  /\ \E t \in Rows : slip[t].age < Oldest
  /\ slip' = [t \in Table |->
       IF t \in Rows /\ slip[t].age < Oldest
       THEN [slip[t] EXCEPT !.age = @ + 1] ELSE slip[t]]
  /\ UNCHANGED <<taken, guess, missed, used, password, tokenVars, change, editor>>

------------------------------------------------------------------------------
(* Codes are sent.                                                         *)

\* Mutant of Issue: the attempts are not reset.
IssueKeepsTries(t) ==
  /\ Free(t)
  /\ slip' = [slip EXCEPT ![t] = [NewRow EXCEPT !.tries = IF t \in Rows THEN slip[t].tries ELSE 0]]
  /\ missed' = [missed EXCEPT ![t] = 0]
  /\ used' = [used EXCEPT ![t] = 0]
  /\ UNCHANGED <<taken, guess, password, tokenVars, change, editor>>

\* A new code, no attempts, sent now.
Issue(t) ==
  /\ Free(t)
  /\ slip' = [slip EXCEPT ![t] = NewRow]
  /\ missed' = [missed EXCEPT ![t] = 0]
  /\ used' = [used EXCEPT ![t] = 0]
  /\ UNCHANGED <<taken, guess, password, tokenVars, change, editor>>

\* SignupView with SignupForm or SignupSerializer: the pending row and its first
\* code in one transaction, if the address has neither.
SignUp ==
  /\ slip["registration"] = None /\ password = NoPassword
  /\ Issue("registration")

\* Mutant of Resend: the attempts are reset, and a send that fails leaves the code.
ResendHalf ==
  /\ slip["registration"] # None /\ slip["registration"].age >= Cooldown
  /\ Free("registration")
  /\ slip' = [slip EXCEPT !["registration"].tries = 0]
  /\ UNCHANGED <<taken, guess, missed, used, password, tokenVars, change, editor>>

\* send_email_verification, asked for again
Resend ==
  /\ slip["registration"] # None /\ slip["registration"].age >= Cooldown
  /\ Issue("registration")

\* send_password_reset_code
AskReset ==
  /\ password # NoPassword
  /\ slip["reset"] # None => slip["reset"].age >= Cooldown
  /\ Issue("reset")

\* Another account takes the username or the email: its form looked before the
\* registration was there, and each of the two tables is unique only for itself.
TakeName ==
  /\ slip["registration"] # None
  /\ taken' = TRUE
  /\ UNCHANGED <<slip, guess, missed, used, password, tokenVars, change, editor>>

------------------------------------------------------------------------------
(* Codes are presented: activate_pending_registration and reset_password.  *)

\* Mutant of LookUp: the row is read without a lock.
LookUpUnlocked(q, t, right) ==
  /\ guess[q] = None
  /\ slip[t] # None
  /\ guess' = [guess EXCEPT ![q] = [kind |-> "guess", table |-> t, right |-> right,
                                    good |-> Good(slip[t]), tries |-> slip[t].tries]]
  /\ UNCHANGED <<slip, taken, missed, used, password, tokenVars, change, editor>>

\* The row is locked and read; the code that a person typed is right or wrong.
LookUp(q, t, right) ==
  /\ guess[q] = None
  /\ slip[t] # None /\ Free(t)
  /\ guess' = [guess EXCEPT ![q] = [kind |-> "guess", table |-> t, right |-> right,
                                    good |-> Good(slip[t]), tries |-> slip[t].tries]]
  /\ UNCHANGED <<slip, taken, missed, used, password, tokenVars, change, editor>>

\* EmailVerificationView, VerifyEmailCodeView
Verify(q, right) == LookUp(q, "registration", right)

\* PasswordResetConfirmView, on the web and in the API
Confirm(q, right) == LookUp(q, "reset", right)

\* A wrong code counts.
Miss(q) ==
  /\ guess[q] # None /\ guess[q].good /\ ~guess[q].right
  /\ LET t == guess[q].table IN
     /\ slip' = [slip EXCEPT ![t].tries = guess[q].tries + 1]
     /\ missed' = [missed EXCEPT ![t] = @ + 1]
  /\ guess' = [guess EXCEPT ![q] = None]
  /\ UNCHANGED <<taken, used, password, tokenVars, change, editor>>

\* The right code, while it is good: its row is deleted.
Spend(q, t) ==
  /\ guess[q] # None /\ guess[q].table = t /\ guess[q].good /\ guess[q].right
  /\ slip' = [slip EXCEPT ![t] = None]
  /\ used' = [used EXCEPT ![t] = @ + 1]
  /\ guess' = [guess EXCEPT ![q] = None]

\* No account has the username or the email: the business, its owner and the
\* membership are created.
Activate(q) ==
  /\ ~taken
  /\ Spend(q, "registration")
  /\ \E p \in Password : password' = p
  /\ UNCHANGED <<taken, missed, tokenVars, change, editor>>

\* What was checked under the old password is out of date.
Outdate ==
  /\ fresh' = {}
  /\ client' = [q \in Client |-> IF client[q] = None THEN None ELSE [client[q] EXCEPT !.fresh = FALSE]]

\* Mutant of Reset: the tokens are left alone.
ResetKeepsTokens(q) ==
  /\ Spend(q, "reset")
  /\ \E p \in Password : password' = p
  /\ Outdate
  /\ UNCHANGED <<taken, missed, live, spared, change, editor>>

\* The password is set and revoke_refresh_tokens_for_user runs, in one transaction.
Reset(q) ==
  /\ Spend(q, "reset")
  /\ \E p \in Password : password' = p
  /\ Outdate
  /\ live' = {}
  /\ UNCHANGED <<taken, missed, spared, change, editor>>

\* The code is expired or used up or the name or email taken, or the transaction fails: a
\* deadlock with send_password_reset_code, which locks the user's row first, ends
\* one of the two.
GiveUp(q) ==
  /\ guess[q] # None
  /\ guess' = [guess EXCEPT ![q] = None]
  /\ UNCHANGED <<slip, taken, missed, used, password, tokenVars, change, editor>>

------------------------------------------------------------------------------
(* Sign-ins, refreshes and the password.                                   *)

\* The password, or the code that completed a registration, has been checked.
SignIn(q) ==
  /\ password # NoPassword /\ client[q] = None
  /\ client' = [client EXCEPT ![q] = [kind |-> "client", fresh |-> TRUE, old |-> {}]]
  /\ UNCHANGED <<codeVars, password, live, fresh, spared, change, editor>>

\* A refresh token has been checked.
Present(q, k) ==
  /\ k \in live /\ client[q] = None
  /\ client' = [client EXCEPT ![q] = [kind |-> "client", fresh |-> k \in fresh, old |-> {k}]]
  /\ UNCHANGED <<codeVars, password, live, fresh, spared, change, editor>>

\* The new token is recorded, and the one it replaces is blacklisted.  The
\* record refers to the user's row and waits for its lock.
Record(q, k) ==
  /\ client[q] # None /\ UserFree
  /\ k \notin live
  /\ live' = (live \ client[q].old) \cup {k}
  /\ fresh' = IF client[q].fresh THEN fresh \cup {k} ELSE fresh \ {k}
  /\ spared' = IF client[q].fresh THEN spared \ {k} ELSE spared \cup {k}
  /\ client' = [client EXCEPT ![q] = None]
  /\ UNCHANGED <<codeVars, password, change, editor>>

\* ProfilePasswordChangeView checks the current password and saves the new one ...
SavePassword ==
  /\ password # NoPassword /\ change = "no" /\ UserFree
  /\ \E p \in Password : password' = p
  /\ change' = "saved"
  /\ Outdate
  /\ UNCHANGED <<codeVars, live, spared, editor>>

\* ... and then, in transactions of their own, blacklists the tokens ...
Revoke ==
  /\ change = "saved"
  /\ live' = {}
  /\ change' = "no"
  /\ UNCHANGED <<codeVars, password, client, fresh, spared, editor>>

\* ... unless its worker dies first.
DieChanging ==
  /\ change = "saved"
  /\ spared' = spared \cup live
  /\ change' = "no"
  /\ UNCHANGED <<codeVars, password, client, live, fresh, editor>>

\* ProfileForm, TeamUserForm and TeamUserSerializer save every column of a user
\* that the request loaded.
Load(e) ==
  /\ password # NoPassword /\ editor[e] = NoPassword
  /\ editor' = [editor EXCEPT ![e] = password]
  /\ UNCHANGED <<codeVars, password, tokenVars, change>>

Save(e) ==
  /\ editor[e] # NoPassword /\ UserFree
  /\ password' = editor[e]
  /\ editor' = [editor EXCEPT ![e] = NoPassword]
  /\ UNCHANGED <<codeVars, tokenVars, change>>

Next ==
  \/ Tick \/ SignUp \/ Resend \/ AskReset \/ TakeName
  \/ \E q \in Guess : \/ \E right \in BOOLEAN : Verify(q, right) \/ Confirm(q, right)
                      \/ Miss(q) \/ Activate(q) \/ Reset(q) \/ GiveUp(q)
  \/ \E q \in Client : SignIn(q) \/ \E k \in Token : Present(q, k) \/ Record(q, k)
  \/ SavePassword \/ Revoke \/ DieChanging
  \/ \E e \in Editor : Load(e) \/ Save(e)

\* The person types a code that is still good.
Right(t) == slip[t] # None /\ Good(slip[t]) /\ \E q \in Guess : LookUp(q, t, TRUE)

\* A request that holds a lock ends.  The person asks for codes and types them,
\* again and again.
Fairness ==
  /\ WF_vars(Tick)
  /\ \A q \in Guess : WF_vars(Miss(q) \/ Activate(q) \/ Reset(q) \/ GiveUp(q))
  /\ SF_vars(Resend) /\ SF_vars(AskReset)
  /\ \A t \in Table : SF_vars(Right(t))
  /\ SF_vars(\E q \in Guess : Activate(q)) /\ SF_vars(\E q \in Guess : Reset(q))

Spec == Init /\ [][Next]_vars /\ Fairness

------------------------------------------------------------------------------
(* Properties.                                                             *)

SlipRow == [kind : {"row"}, tries : 0..MaxAttempts, age : 0..Oldest]
GuessRow == [kind : {"guess"}, table : Table, right : BOOLEAN, good : BOOLEAN,
             tries : 0..MaxAttempts]
ClientRow == [kind : {"client"}, fresh : BOOLEAN, old : SUBSET Token]

\* Rows, requests and tokens are well formed.
TypeOK ==
  /\ slip \in [Table -> SlipRow \cup {None}]
  /\ taken \in BOOLEAN
  /\ password \in Password \cup {NoPassword}
  /\ guess \in [Guess -> GuessRow \cup {None}]
  /\ missed \in [Table -> Nat] /\ used \in [Table -> Nat]
  /\ client \in [Client -> ClientRow \cup {None}]
  /\ live \subseteq Token /\ fresh \subseteq Token /\ spared \subseteq Token
  /\ change \in {"no", "saved"}
  /\ editor \in [Editor -> Password \cup {NoPassword}]

\* Nobody guesses more than MaxAttempts times wrong at one code, whatever is
\* resent, overlaps or fails meanwhile.
GuessesAreBounded == \A t \in Table : missed[t] <= MaxAttempts

\* A code completes one registration or one reset ("exactly once").
CodeWorksOnce == \A t \in Table : used[t] <= 1

\* A refresh token from before a reset or a change of the password is no longer
\* accepted, except a token that an overlapping request recorded later, and those
\* a change that died half way left.
ChangeSignsOut == change = "no" => live \ fresh \subseteq spared

\* No lock-out, expiry or failure is a dead end: a person who goes on asking for
\* codes and typing them gets through, unless the username is gone.
CodesGetThrough ==
  \A t \in Table : slip[t] # None ~> (slip[t] = None \/ (t = "registration" /\ taken))

\* "This is a global account field. The account owner must change it themselves."
\* (core/serializers.py): the password changes with a code or through its owner.
OwnerSetsPassword == [][password' # password => used' # used \/ change' # change]_vars
==============================================================================
