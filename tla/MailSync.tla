------------------------------- MODULE MailSync -------------------------------
(***************************************************************************)
(* One connected mailbox and the Celery tasks that synchronise it          *)
(* (core/tasks.py, core/mail_services.py, web/views.py): connections and   *)
(* disconnections, the five-minute beat, provider notifications, tasks     *)
(* that list the provider's messages from a little before the last sync    *)
(* and store them one by one, failures with their retries, workers that    *)
(* die and tasks that get lost.                                            *)
(*                                                                         *)
(* A message is stored by ingest_message, one transaction that does        *)
(* nothing for a message already stored; module Inbox looks inside it.     *)
(*                                                                         *)
(* Graph serves the messages from the very start of the window: Day = 1.   *)
(* Gmail and IMAP are given the day on which it starts, a UTC date, which  *)
(* they read in their own timezone: Day is its length and Zone how much    *)
(* later than UTC it begins there, less than 0 to the east.                *)
(***************************************************************************)
EXTENDS Integers

CONSTANTS
  Mail,         \* the messages the provider may receive for the mailbox
  Sync,         \* sync_mailbox tasks (bound: how many exist at once)
  Overlap,      \* how far a sync reaches back before the last one: five minutes
  Backfill,     \* how far the first one may be asked to reach back: backfill_days
  Day, Zone,    \* what the provider makes of the start of the window
  Patience,     \* bound: the longest a sync may take; the code sets none
  MaxTime       \* bound: the clock stops here

ASSUME OverlapAssumption == Overlap \in Nat
ASSUME BackfillAssumption == Backfill \subseteq Nat /\ \A d \in Backfill : d >= Overlap
ASSUME ProviderAssumption == Day \in Nat \ {0} /\ Zone \in Int
ASSUME PatienceAssumption == Patience \in 0..Overlap
ASSUME BoundsAssumption == MaxTime \in Nat

VARIABLES
  now,          \* the clock
  status,       \* MailboxConnection.status, "none" before the row exists
  secrets,      \* the secrets its row holds
  synced,       \* its last_sync_at
  reach,        \* its backfill_days
  floor,        \* history: where the mail served to the first sync that ended begins
  arrived,      \* when the provider received each message
  kind,         \* what becomes of it when a sync comes to it
  stored,       \* the messages that have a row in core_emailmessage
  passed,       \* history: the messages that a sync passed over as hidden
  step,         \* where each task is
  held,         \* the secrets it loaded with the connection
  since,        \* the start of its window
  began,        \* when it listed the messages
  todo          \* the listed messages it has still to look at

boxVars == <<status, secrets, synced, reach, floor>>
mailVars == <<arrived, kind, stored, passed>>
taskVars == <<held, since, began, todo>>
jobVars == <<step, taskVars>>
vars == <<now, boxVars, mailVars, jobVars>>

Never == -1
Time == 0..MaxTime
\* "access" is an access token or an IMAP password, "refresh" a refresh token.
Secret == {"access", "refresh"}
Status == {"none", "active", "error", "disconnected"}
\* hidden_domains and hidden_labels of the connection name a "listed" message at
\* some times and not at others; the parser or ingest_message raises on a "broken"
\* one.
Kind == {"plain", "listed", "broken"}

Back(t, d) == IF t < d THEN 0 ELSE t - d

\* since of sync_mailbox, when the connection is loaded now.
Window == IF synced = Never THEN Back(now, reach) ELSE Back(synced, Overlap)

\* The first moment the provider serves for a window that starts at t: the
\* filters of _graph_messages, _gmail_messages and _imap_messages.
ServedFrom(t) == (t \div Day) * Day + Zone

Delivered(m) == arrived[m] # Never

------------------------------------------------------------------------------
Init ==
  /\ now = 0
  /\ status = "none" /\ secrets = {} /\ synced = Never
  /\ reach \in Backfill /\ floor = 0
  /\ arrived = [m \in Mail |-> Never]
  /\ kind = [m \in Mail |-> "plain"]
  /\ stored = {} /\ passed = {}
  /\ step = [k \in Sync |-> "free"]
  /\ held = [k \in Sync |-> {}]
  /\ since = [k \in Sync |-> 0]
  /\ began = [k \in Sync |-> 0]
  /\ todo = [k \in Sync |-> {}]

Tick ==
  /\ now < MaxTime
  /\ \A k \in Sync : step[k] = "listing" => now < began[k] + Patience
  /\ now' = now + 1
  /\ UNCHANGED <<boxVars, mailVars, jobVars>>

\* The provider receives a message.
Arrive(m) ==
  /\ ~Delivered(m)
  /\ arrived' = [arrived EXCEPT ![m] = now]
  /\ \E q \in Kind : kind' = [kind EXCEPT ![m] = q]
  /\ UNCHANGED <<now, boxVars, stored, passed, jobVars>>

\* An access token runs out.
Expire ==
  /\ "access" \in secrets
  /\ secrets' = secrets \ {"access"}
  /\ UNCHANGED <<now, status, synced, reach, floor, mailVars, jobVars>>

------------------------------------------------------------------------------
(* Requests and the beat.                                                  *)

\* sync_mailbox.delay: a task is in the broker.
Publish(k) == step[k] = "free" /\ step' = [step EXCEPT ![k] = "queued"]

\* update_or_create keeps last_sync_at, and the secrets it is not given.
\* Publishing the first sync fails after the row is committed when the broker is
\* away.
Connect(S) ==
  /\ status' = "active"
  /\ secrets' = S \cup secrets
  /\ \/ \E k \in Sync : Publish(k)
     \/ UNCHANGED step
  /\ UNCHANGED <<now, synced, floor, mailVars, taskVars>>

\* MailboxOAuthCallbackView: a provider may send no refresh token.
ConnectOAuth ==
  /\ \E S \in SUBSET Secret : "access" \in S /\ Connect(S)
  /\ UNCHANGED reach

\* MailboxImapConnectView: the password, and how far the first sync reaches back.
ConnectImap ==
  /\ Connect({"access"})
  /\ reach' \in Backfill

\* MailboxDisconnectView
Disconnect ==
  /\ status # "none"
  /\ status' = "disconnected"
  /\ secrets' = {}
  /\ UNCHANGED <<now, synced, reach, floor, mailVars, jobVars>>

\* Mutant of SyncAll: only mailboxes without a first sync are asked for.
SyncNew(k) ==
  /\ status = "active" /\ synced = Never /\ Publish(k)
  /\ UNCHANGED <<now, boxVars, mailVars, taskVars>>

\* sync_all_mailboxes, every five minutes
SyncAll(k) ==
  /\ status = "active" /\ Publish(k)
  /\ UNCHANGED <<now, boxVars, mailVars, taskVars>>

\* A provider's notification: MailboxWebhookView
Notify(k) ==
  /\ status = "active" /\ Publish(k)
  /\ UNCHANGED <<now, boxVars, mailVars, taskVars>>

------------------------------------------------------------------------------
(* The task.                                                               *)

\* What the task holds of the connection and of its list is forgotten.
Forget(k) ==
  /\ held' = [held EXCEPT ![k] = {}]
  /\ since' = [since EXCEPT ![k] = 0]
  /\ began' = [began EXCEPT ![k] = 0]
  /\ todo' = [todo EXCEPT ![k] = {}]

\* The task is over and its slot is free.
Over(k) ==
  /\ step' = [step EXCEPT ![k] = "free"]
  /\ Forget(k)

\* The broker loses the task, or a worker dies with it: it was acknowledged.
Lose(k) ==
  /\ step[k] # "free"
  /\ Over(k)
  /\ UNCHANGED <<now, boxVars, mailVars>>

\* The task loads the connection, whatever its status.
Load(k) ==
  /\ step[k] = "queued"
  /\ step' = [step EXCEPT ![k] = "loaded"]
  /\ held' = [held EXCEPT ![k] = secrets]
  /\ since' = [since EXCEPT ![k] = Window]
  /\ UNCHANGED <<now, boxVars, mailVars, began, todo>>

\* Mutant of List: the window starts at the last sync.
ListSinceLast(k) ==
  /\ step[k] = "loaded"
  /\ held[k] # {}
  /\ secrets' = IF "access" \in held[k] THEN secrets ELSE secrets \cup {"access"}
  /\ todo' = [todo EXCEPT ![k] = {m \in Mail : Delivered(m) /\ arrived[m] > synced}]
  /\ step' = [step EXCEPT ![k] = "listing"]
  /\ began' = [began EXCEPT ![k] = now]
  /\ held' = [held EXCEPT ![k] = {}]
  /\ UNCHANGED <<now, status, synced, reach, floor, mailVars, since>>

\* _access_token, which saves a refreshed token over the row as it is now, and
\* _gmail_messages, _graph_messages or _imap_messages.
List(k) ==
  /\ step[k] = "loaded"
  /\ held[k] # {}
  /\ secrets' = IF "access" \in held[k] THEN secrets ELSE secrets \cup {"access"}
  /\ todo' = [todo EXCEPT ![k] = {m \in Mail : Delivered(m) /\ arrived[m] >= ServedFrom(since[k])}]
  /\ step' = [step EXCEPT ![k] = "listing"]
  /\ began' = [began EXCEPT ![k] = now]
  /\ held' = [held EXCEPT ![k] = {}]
  /\ UNCHANGED <<now, status, synced, reach, floor, mailVars, since>>

\* The next message is hidden from the CRM and passed over.
Pass(k, m) ==
  /\ step[k] = "listing" /\ m \in todo[k] /\ kind[m] = "listed"
  /\ passed' = passed \cup {m}
  /\ todo' = [todo EXCEPT ![k] = @ \ {m}]
  /\ UNCHANGED <<now, boxVars, arrived, kind, stored, step, held, since, began>>

\* ingest_message
Ingest(k, m) ==
  /\ step[k] = "listing" /\ m \in todo[k] /\ kind[m] # "broken"
  /\ stored' = stored \cup {m}
  /\ todo' = [todo EXCEPT ![k] = @ \ {m}]
  /\ UNCHANGED <<now, boxVars, arrived, kind, passed, step, held, since, began>>

\* The next message raises.  Any error but a MailProviderError ends the task: it
\* is neither retried nor recorded.
Choke(k, m) ==
  /\ step[k] = "listing" /\ m \in todo[k] /\ kind[m] = "broken"
  /\ Over(k)
  /\ UNCHANGED <<now, boxVars, mailVars>>

\* The mailbox is recorded as synchronised, whatever its status became.
Finish(k) ==
  /\ step[k] = "listing" /\ todo[k] = {}
  /\ status' = "active"
  /\ synced' = now
  /\ floor' = IF synced = Never THEN ServedFrom(since[k]) ELSE floor
  /\ Over(k)
  /\ UNCHANGED <<now, secrets, reach, mailVars>>

\* self.retry
Retry(k) ==
  /\ step' = [step EXCEPT ![k] = "queued"]
  /\ Forget(k)

\* A MailProviderError: the mailbox is in error, and the task is retried or, when
\* no retry is left, given up.  The model keeps no count of retries: both may
\* happen at any failure.
Report(k) ==
  /\ status' = "error"
  /\ Retry(k) \/ Over(k)
  /\ UNCHANGED <<now, secrets, synced, reach, floor, mailVars>>

\* Mutant of Refuse: a connection without a secret is passed over.
RefuseQuietly(k) ==
  /\ step[k] = "loaded" /\ held[k] = {}
  /\ Over(k)
  /\ UNCHANGED <<now, boxVars, mailVars>>

\* The connection has no secret to present.
Refuse(k) == step[k] = "loaded" /\ held[k] = {} /\ Report(k)

\* The provider or the network fails, before the list or in the middle of it.
Fail(k) ==
  /\ step[k] = "listing" \/ (step[k] = "loaded" /\ held[k] # {})
  /\ Report(k)

Next ==
  \/ Tick
  \/ \E m \in Mail : Arrive(m)
  \/ Expire
  \/ ConnectOAuth \/ ConnectImap
  \/ Disconnect
  \/ \E k \in Sync : SyncAll(k) \/ Notify(k) \/ Lose(k) \/ Load(k) \/ List(k)
                       \/ Finish(k) \/ Refuse(k) \/ Fail(k)
  \/ \E k \in Sync, m \in Mail : Pass(k, m) \/ Ingest(k, m) \/ Choke(k, m)

\* The beat goes on, a worker takes up a queued task, and not every task is lost
\* on the way to its next step.
Fairness ==
  /\ WF_vars(\E k \in Sync : SyncAll(k))
  /\ SF_vars(\E k \in Sync : Load(k))
  /\ SF_vars(\E k \in Sync : List(k))
  /\ SF_vars(\E k \in Sync : Refuse(k))
  /\ WF_vars(\E k \in Sync : Finish(k))
  /\ \A m \in Mail : SF_vars(\E k \in Sync : Pass(k, m) \/ Ingest(k, m) \/ Choke(k, m))

Spec == Init /\ [][Next]_vars /\ Fairness

------------------------------------------------------------------------------
(* Properties.                                                             *)

\* Every row and task is well formed, and a task that lists nothing holds nothing.
TypeOK ==
  /\ now \in Time
  /\ status \in Status /\ secrets \subseteq Secret /\ synced \in Time \cup {Never}
  /\ reach \in Backfill /\ floor \in Int
  /\ arrived \in [Mail -> Time \cup {Never}]
  /\ kind \in [Mail -> Kind]
  /\ stored \cup passed \subseteq {m \in Mail : Delivered(m)}
  /\ step \in [Sync -> {"free", "queued", "loaded", "listing"}]
  /\ held \in [Sync -> SUBSET Secret]
  /\ since \in [Sync -> Time]
  /\ began \in [Sync -> Time]
  /\ todo \in [Sync -> SUBSET Mail]

\* A message that the provider has received, and that has neither a row nor was
\* passed over.
Missing(m) == Delivered(m) /\ m \notin stored \cup passed

\* However syncs overlap, fail and die, a message that misses and was not too old
\* for the first sync is served to the next one (sync_mailbox's five minutes
\* before last_sync_at).
NothingSkipped ==
  synced # Never =>
    \A m \in Mail : Missing(m) /\ arrived[m] >= floor => arrived[m] >= ServedFrom(Window)

\* A message that is too old for the first sync.
Old(m) == arrived[m] < IF synced = Never THEN ServedFrom(Window) ELSE floor

\* A message has arrived that ends every sync whose window it is in.
Choked == \E m \in Mail : Delivered(m) /\ kind[m] = "broken"

\* A message gets its row or is passed over, unless it is too old for the first
\* sync, or a message raises and ends every sync, or the mailbox leaves ACTIVE,
\* which only a failed sync or a person does; from ERROR the beat never asks
\* again.
MailArrives ==
  \A m \in Mail :
    Delivered(m) ~> (~Missing(m) \/ Old(m) \/ Choked \/ status # "active")

\* A mailbox that a late sync made ACTIVE again after its disconnection does not
\* stay so: without a secret the next sync puts it in error.
EmptyMailboxFails == (status = "active" /\ secrets = {}) ~> (status # "active" \/ secrets # {})
==============================================================================
