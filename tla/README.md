# Cuein: a TLA+ verification project

Cuein is a multi-tenant CRM for small businesses: a Django application with a
web interface and a REST API, PostgreSQL, Redis as a cache, and Celery workers
with Celery Beat for what happens in the background. This directory holds TLA+
models of the parts of it where several actors change the same rows, the TLC
configurations that check them, and proofs of the properties that matter most.
Every definition is translated from the code; `PROJECT.json` maps each to the
lines it stands for.

## 1. Inventory

| Component | State | Operations | Code |
|---|---|---|---|
| Email campaigns | campaign row, one row per recipient, opt-out flag of leads, Celery messages | create, schedule, dispatch, deliver, retry, unsubscribe | `core/tasks.py`, `core/email_campaigns.py`, `web/views.py` |
| Follow-up tasks and alerts | task rows, alert rows, rule messages | create, complete, reschedule, cancel, update, automated rules, overdue sweep, inbox reminder, read an alert | `followups/`, `web/views.py` |
| Site visits | visit rows, their reminder tasks | schedule, reschedule, complete, cancel | `leads/services.py`, `leads/views.py`, `web/views.py` |
| Lead-list cache | a version per tenant, cached responses | list, invalidate, expire | `leads/cache.py`, `leads/views.py` |
| Memberships | membership rows, `User.is_active`, the legacy `User.business`/`User.role` | add, edit, deactivate, remove, bridge | `core/membership_services.py`, `core/tenancy.py`, `core/serializers.py`, `web/forms.py` |
| Lead pipeline | lead rows, timeline | capture, import, transition, assign, edit, needs time, note, bulk, delete | `leads/`, `web/views.py` |
| Codes, passwords and tokens | pending registrations, reset requests, refresh tokens | sign up, resend, activate, reset, sign in, refresh, change the password, edit a user | `core/email_verification.py`, `core/password_reset.py`, `core/signup.py`, `core/authentication.py`, `core/token_views.py` |
| Mailboxes | connection row, stored messages, sync tasks | connect, disconnect, sync, notify, retry | `core/mail_services.py`, `core/tasks.py`, `web/views.py` |
| Shared inbox | threads, messages, unmatched messages, reply tasks | store, thread, reply, bounce, convert, ignore, track | `core/mail_services.py`, `core/tasks.py`, `web/views.py` |
| Sign-in throttling | failure counters in the cache | back off, captcha | `core/security.py` |
| The rest | none of its own | forms, dashboards, reports, export, products, settings, administration, templates | see `PROJECT.json` |

How they interact:

* A request runs in autocommit; what must be atomic is in `transaction.atomic`,
  what must be exclusive takes `select_for_update`. Celery messages and cache
  invalidations are sent by `transaction.on_commit`, after the change is
  visible and without any record of it in the database.
* Stage transitions and "needs time" ask for a rule (`schedule_follow_up`).
  Site visits and the inbox create follow-up tasks with rule keys of their own.
  The hourly sweep treats all of them alike. A task row is therefore written by
  five callers that do not know of each other; what they share is the partial
  unique constraint and the row lock.
* Every change of leads, products, tasks or visits invalidates the tenant's
  cached lead lists.
* Every authentication and every team list goes through the bridge that creates
  missing memberships, so reads of the team write to it.
* A reply is stored twice over: by its own task and by the sync that lists the
  provider's copy of it. What they share is the unique provider identifier.

What is hard here, and is listed line by line under `hazards`: checks made
before the lock they rely on; rows loaded whole and saved whole; work that is
announced after the commit and may be lost; a worker that dies between a
provider's answer and its record; a sweep that lists first and locks later;
`get_or_create` and `update_or_create` against a partial constraint; a read and
a write of a cache key as two commands; lookups at PostgreSQL's default
isolation that are out of date when their transaction commits; a task that
writes a status at its end whatever it became meanwhile.

Correctness, for each component:

* *Campaigns.* One delivery at a time; no duplicate without a fault; nobody who
  opted out before a delivery is mailed by it; a campaign reported as sent has
  settled every address; every campaign settles.
* *Follow-ups.* One open task per rule; alerts and overdue tasks agree; a closed
  task stays closed; a completed task has one successor; lapsed tasks are
  flagged and rules answered.
* *Visits.* The reminder exists when wanted, follows its visit and goes with it.
* *Cache.* A list whose request could read the version shows every change
  invalidated before it was asked for, and in the end every list every change.
* *Memberships.* A workspace keeps an active owner; requests do not wait for
  each other for ever; who is out stays out.
* *Pipeline.* Stage, closing date and reason agree; the timeline tells how a
  lead came to its stage; an assignment stays; a rule is asked for once for each
  change; a salesperson moves only what is theirs.
* *Codes and tokens.* Wrong guesses are bounded; a code works once; nobody is
  locked out for good; a change of the password signs everybody out.
* *Mailboxes and inbox.* No message is skipped that is neither hidden nor older
  than the first sync reaches; mail arrives while the mailbox
  is active; a mailbox without secrets does not stay active; what was sent is on
  record; a reply is repeated only after a lost answer; counts heal; a bounce is
  no answer; a reply comes to an end.
* *Throttling* (not modelled): every failure counts.

## 2. Modules

| Module | Models | Proofs |
|---|---|---|
| `CampaignLedger` | what a campaign promises: each address is open until it is settled once, the campaign completes when none is open | |
| `EmailCampaign` | one campaign from creation to its verdict; implements `CampaignLedger` | `EmailCampaignProofs` |
| `FollowUps` | the tasks and alerts of one lead | `FollowUpsProofs` |
| `SiteVisits` | visits of the same lead, composed with `FollowUps`; `MCSiteVisits` adds a symmetry for TLC | `FollowUpsProofs` |
| `LeadCache` | the cached lists of one tenant | `LeadCacheProofs` |
| `Memberships` | the memberships of one workspace | `MembershipsProofs` |
| `LeadPipeline` | the leads of one tenant, their owners, stages and timelines | `LeadPipelineProofs` |
| `Accounts` | one address, its codes, its password and its refresh tokens | `AccountsProofs` |
| `MailSync` | one mailbox and the tasks that synchronise it | `MailSyncProofs` |
| `Inbox` | the threads of one mailbox, and replies; `MCInbox` gives TLC its mails | `InboxProofs` |

Each module keeps the names of the code. Granularity follows the database: a
statement in autocommit is an action, and so is a transaction that holds a lock
on the rows it decides on; everything between two of them is a place where any
other action may happen. Operators whose comment begins with "Mutant of" are
plausible bugs of the definition after them; no specification uses them, they
show that a property would notice.

### EmailCampaign

`status` and `row` are the two status columns; `recipients` the snapshot taken
at creation; `leads[a]` the set of opt-out flags of the leads that have address
`a`. Messages are two counters: `unpublished` counts deliveries committed and
not yet handed to the broker, `queue` those at the broker. A worker's `pc` walks
through `send_email_campaign`: `Claim` is its locked transaction, then `Recover`
(`_ensure_recipient_records` and the reset of interrupted rows), `Load`,
`ReadAudience`, one `Suppress` per address, `Connect`, and per row `StartRow`,
`Transmit`, `RecordRow`; `ConnectionFails` is the outer `except`; `Count` and
`Finish` are the counts and the unconditional update at the end. The retry view
and the dispatcher are split into the read and the write of their code.
`delivered`, `withheld` and `faults` are history variables. Simplified: `Recover`
is one action though its code has two statements, which no other process can tell
apart while `SoleSender` holds; the four count queries are one action for the
same reason; addresses are handled in any order, which includes the code's. The
reading of attachments can fail before the first row, which is `ConnectionFails`
with no current row.

### FollowUps and SiteVisits

`task` holds the rows by identifier, `alert` the notification of a task and a
member. The services that lock their task (`Complete`, `Reschedule`, `Cancel`)
are one action each. `LookUp`, `Insert` and `Conflict` are `schedule_rule`;
`StartSweep`, `Flag` and `CrashSweep` the overdue sweep; `Load`, or
`LoadElsewhere` for a task of another lead, and `Save` the generic update, which
writes the whole row back with the assignee, the due time and the lead that the
PATCH names (`here`: a task belongs to this lead or to some other one). The
constraint may refuse it at either lead. `LookForReminder` and `AddReminder` the inbox's
`update_or_create`. A new row gets the identifier `Fresh`, an unused one: which
makes no difference. `Admits` is the partial unique constraint. `SiteVisits` adds
`visit` and `stage`; each operation on a visit is one transaction and locks the
visit, its lead and its open reminders, so it is one action, `Put`, with the
three outcomes of `_sync_site_visit_reminder`. `moved` is a history variable:
the reminders somebody rescheduled as tasks, which the code does not realign.
`stray` is another: the tasks a PATCH moved to or from another lead, or that were
closed while a reminder request stood between its two steps.
A task moved to another lead is followed until it comes back; what is done to it
there is done by the same actions, but for the deletion of that other lead and
for tasks of its own, of which only the one an editor brings is in the table.
The timeline, descriptions and `last_activity_at` are left out.

### LeadCache

The table is the number of changes committed to it, a response the number it
shows; cached entries are by version, which is what makes keys differ for one
scope and filter. `ReadVersion` and `WriteVersion` are the two cache commands of
the invalidation; `BuildKey`, `AddVersion` and `ReadAdded` the three of
`lead_cache_version`, and `Hit` or `Miss`, `Query` and `Store` those of a list
request. Redis may fail at each and be back for the next: `SkipInvalidation`,
`Miss`, `StoreNothing`, and `FallBack`, which takes the version for 1 and goes
on to read or fill that version's entry. `blind` (history) marks the requests
whose key came about so.

### Memberships

A request of an owner carries what it asks (`Change`), passes the early check of
the form or serializer where its code has one, locks the membership rows one at
a time in the order of their keys (`Lock`), decides on what it locked (`Refuse`,
`Allow`) and writes. A row that was deleted while the request waited for it is
skipped, as under READ COMMITTED. Managers and salespeople are one role, "staff",
since nothing here tells them apart. `Guest` are people whose account belongs to
another workspace, so the bridge of this one does not concern them. The lock on
the user's own row that an edit takes first is left out: it only keeps two edits
of one user apart.

### LeadPipeline

`row` is the lead's row with the columns that handlers decide by, `timeline` its
activities, `queued` the rules asked of the broker. A request that reads a lead
before it writes is two steps: `Load` and the action that ends it, `Save` for
the details form and the API's update, `Assign`, `Delete`, `Activity`
(of a kind that may be logged, or `handmade`, one of the kinds stage_change and
system, which the web's form offers and the API refuses), `WebMove`, `WebDelay`, or `Drop` when it is refused. `WebMove` locks the row and
checks visibility again, as the code does; `WebDelay` and `Activity` do not.
What the API and the bulk form do under the lock alone is one step each
(`ApiMove`, `ApiDelay`, `BulkMove`, `BulkAssign`). `Check` or `Import` and
`Insert` are the two halves of a capture: the search for the customer's leads
and the transaction that makes one. `Moved`, `Events` and `Turned` are
`transition_lead`: the row after it, what it adds to the timeline and whether it
queues a rule; `Schedule` queues for any subset of the leads, because the hooks
run after the commit and the first that fails stops the rest. `born`, `chosen`
and `undone` are history variables; `undone` holds the leads whose row a stale
save has replaced. Simplified: four stages, since the others behave as
`new_inquiry`; every lead is of one customer, so that any two are duplicates;
members stay active; a bulk action locks its leads in one step. In the code it
locks them in the order of the query, and PostgreSQL aborts one of two that
wait for each other.

### Accounts

`slip` holds the pending registration and the reset request of one address with
its attempts and age. A guess is `LookUp`, which takes the row's lock and reads,
and what it writes: `Miss`, `Activate`, `Reset` or `GiveUp`, the failure or the
deadlock that rolls it back. `Issue` is the new code of `SignUp`, `Resend` and
`AskReset`; the mail goes out inside the transaction, so a failed send is a
step that changes nothing (the mail may arrive all the same; its code is not
valid). A sign-in and a refresh are the check (`SignIn`, `Present`) and the
record of the new token (`Record`). A change of the password is `SavePassword`
and `Revoke`, transactions of their own, with `DieChanging` in between. `Load`
and `Save` are the forms and serializers that save every column of a user.
`missed`, `used`, `fresh` and `spared` are history variables. `TakeName` is a
second account that takes the username or the email: the tables are unique each
for itself. A user who is deactivated, whose reset is refused like a wrong code,
is left out.

### MailSync

`status`, `secrets` and `synced` are the columns of the connection. A task walks
through `Load` (whatever the status), `List` (with the token it may have
refreshed saved over the row), for each message `Ingest` or, when the
connection's domains and labels hide it, `Pass`, and `Finish`, which
writes ACTIVE and the time of its end; or `Refuse` and `Fail` with `Report`,
which puts the mailbox in ERROR and retries or gives up, or `Lose`; or `Choke`,
when a message raises something else than a `MailProviderError`: the task ends,
nothing is recorded and nothing retried. `kind` says which of these a message
may meet; a "listed" one may be hidden or stored, since the two lists may change
between two syncs. `ConnectOAuth` and `ConnectImap` are the `update_or_create`
of the callbacks, which keeps `last_sync_at` and what it is not given.
`Window` is where a sync's window starts: five minutes before the end of the
last one, or `backfill_days` (`reach`) ago for the first. `ServedFrom` is what
the provider makes of it: Graph takes the moment itself (`Day` = 1); Gmail and
IMAP get its UTC date, and serve that day as their own timezone has it, so from
`Zone` later than the UTC day begins, or earlier when `Zone` is negative.
`floor` (history) is what the first sync that ended was served from, `passed`
(history) the messages hidden at some sync. `Ingest` is a step that does nothing
for a stored message; `Inbox` looks inside it.

### Inbox

`ingest` is the transaction of a sync or of a reply's task: `Found` the lookups
of `ingest_message`, `Write` its inserts, updates and recount, `Commit` the
commit, or `Conflict` when the unique identifier was taken meanwhile, which
neither task catches, or `Die`. `MayWrite` says what PostgreSQL makes it wait
for. `Counted` computes the count as the code does, from the rows that are
committed and its own. A reply task goes from `Ask` through `Accept`,
`AcceptUnheard` (the provider took it and the answer was lost) or `Refuse` to
`ReplyFinds` and `Settle`. `Receive`, `Ignore`, `Convert`, `View` and
`MarkDelivered` are the customer's and the colleagues' steps. Simplified: an
address has leads or has none; a provider's threads, and what Gmail stores as
INBOUND of its own copies, are covered by the sync that may find a copy first;
`Topic` is the normalised subject.

## 3. Runs

| Run | Result | What it shows |
|---|---|---|
| `email_campaign` | passes | 2 addresses, 2 workers, 2 dispatchers, 1 retry request |
| `email_campaign_crash` | `InterruptedRowsAreRetryable` violated | a crashed delivery leaves a campaign that nothing retries |
| `follow_ups` | passes | 3 tasks, a sweep that dies now and then, a scheduler worker, locked requests; safety and liveness |
| `follow_ups_edits` | passes | 2 tasks, 1 sweep, 2 scheduler workers, the unlocked update, which may move tasks between leads, and 2 overlapping inbox reminders; safety |
| `site_visits` | passes | 1 visit, 2 tasks, 2 members, the sweep |
| `lead_cache` | passes | 1 writer, 2 readers, 2 changes, a Redis that fails at any call |
| `memberships` | passes | 2 people, 2 overlapping requests |
| `memberships_removed` | `RemovedStaysOut` violated | the bridge restores a removed member |
| `lead_pipeline` | passes | 1 lead, a manager, 2 salespeople, 1 unlocked request beside all locked ones, entries made by hand |
| `accounts` | passes | 2 overlapping guesses, resends, a sign-in or refresh, a change of the password, a whole-row save; safety and liveness |
| `mail_sync` | passes | 1 message, hidden, unreadable or neither, 2 overlapping syncs with failures, retries and losses, disconnections; safety and liveness |
| `inbox` | passes | 1 mail, 1 bounce, 1 reply that may become 2 copies, 1 sync; safety and liveness |

The violated properties state what a document or a docstring of the repository
says; `findings` quotes each. Eleven more configurations, not among the runs, show
what the passing ones leave out. TLC finds the property violated in each:

| Configuration | Property | What happens |
|---|---|---|
| `EmailCampaignRetryRace.cfg` | `RetrySkipsSent` | two overlapping retries mail a recipient twice, though `src/web/views.py:1748` says "Failed recipients were queued for another attempt." |
| `FollowUpsAlerts.cfg` | `OverdueAlerts` | a second lapse finds the alert of the first, which was read: nobody is told (`src/README.md:57` promises an alert for overdue follow-ups) |
| `FollowUpsStale.cfg` | `ClosedIsTerminal` | an update that loaded the task earlier reopens it, though `src/plan.md:145` says "A completed/cancelled task is terminal." |
| `FollowUpsMoved.cfg` | `OneTaskPerThread` | a PATCH moves a thread's reminder to another lead, a second reminder is made, a PATCH brings the first one back: `update_or_create` (`src/web/views.py:1493`) finds two, and every later reminder of that thread fails |
| `LeadCacheRace.cfg` | `InvalidatedChangesShow` | two invalidations write one version, and the second change stays hidden ("Invalidate every lead-list cache entry", `src/leads/cache.py:46`) |
| `LeadCacheFallback.cfg` | `AllInvalidatedChangesShow` | Redis fails while a reader asks for the version and is back when it asks for the entry: it gets what version 1 left behind, up to a minute after a later change was invalidated ("falling back cleanly without Redis", `src/leads/cache.py:33`) |
| `LeadPipelineHandmade.cfg` | `SystemEntriesAreMade` | the web's activity form adds a stage change that was never made ("System timeline events cannot be created manually.", `src/leads/serializers.py:173`, which only the API enforces) |
| `LeadPipelineReopen.cfg` | `ReopeningIsForManagers` | a salesperson reopens a won lead of theirs, without a note ("reopening a Won/Lost lead is owner/manager-only and must include a note", `src/plan.md:126`) |
| `MailSyncWest.cfg` | `NothingSkipped` | a message that arrived in the first hours of a UTC day, while a sync was running, is not served to the next one by a provider whose day begins later than in UTC ("then sync a mailbox incrementally", `src/core/tasks.py:312`) |
| `LeadPipelineStale.cfg` | `OnlyManagersReassign` | a salesperson's details form, read before a manager gave the lead to a colleague, takes it back ("Salespeople cannot reassign leads.", `src/leads/views.py:285`) |
| `AccountsEdit.cfg` | `OwnerSetsPassword` | an edit of a user read before the password was changed saves the old one again ("The account owner must change it themselves.", `src/core/serializers.py:116`) |

Bounds and why they are enough:

* *Campaigns.* Two addresses are what mixed outcomes need (one sent, one failed
  or suppressed), two workers what an overlap needs, two dispatchers what a race
  for one campaign needs. `MaxMessages` keeps a retry from being posted while
  another delivery is asked for, in this instance; runs of retries one after the
  other are unbounded. `delivered` counts to "two or more".
* *Follow-ups.* Three tasks are a task, its successor and what a second
  completion would add; two are enough for the races for one rule and one
  thread, which `follow_ups_edits` runs with two scheduler workers, two reminder
  requests and an editor. One sweep is enough there: sweeps add no task and
  change no key.
  `Room` keeps a place for every rule and reminder already promised one: the
  table has no such limit. Two units of time are enough for due, lapsed,
  rescheduled and lapsed again; `MaxTime` stops the clock, and a rule's task is
  due at the last instant at the latest. `successors` counts to "two or more".
* *Visits.* The visit's hour of notice is one unit of a clock of three. The
  members are symmetric (the tasks are not, `Fresh` chooses among them), and
  only safety is checked.
* *Cache.* A second change is what makes an entry of the first one stale, a
  third what makes two overlapping invalidations harmful after an earlier one.
  Versions need no bound of their own: they follow changes (`TypeCorrect`).
* *Memberships.* Two owners who change each other are the whole problem; locks
  are ordered over any two rows. A third person multiplies the states by more
  than a hundred and is covered by the proofs.
* *Pipeline.* One lead is enough for what is said of each lead by itself, and
  one unlocked request against any number of locked ones; that a second lead or
  request changes nothing is covered by the proofs. Three entries of a timeline
  are a capture, a move and what a stale move would add (`MaxEntries`). Deadlock
  checking is on: something can always be done.
* *Accounts.* Two guesses overlap on one row or work on one each; two attempts
  tell the last one from the others; `Lifetime` is longer than `Cooldown`, as in
  the settings, so that a code can be replaced while it is good. One password:
  `fresh` tells whether it was changed, whatever to. Two tokens let one replace
  the other.
* *Mail sync.* `Overlap` and `Patience` of one unit of a clock of two. `Patience`
  is no number of the code: a sync that takes more than five minutes may skip a
  message that arrived while it ran, so the runs and the proof assume that none
  does. Retries are not counted: a failed task may be retried or given up at any
  time, which includes the three retries of the code. One message stands for
  each of many, since nothing relates two but `Choke`, which `MailArrives`
  excepts; the proof has any number. `Backfill` is one number of days, the least
  the assumption allows, so that a message may be too old for the first sync;
  `Day` = 1 and `Zone` = 0 are a provider that serves the window exactly. The
  proof is for any of them with `Zone` <= 0; `MailSyncWest.cfg` shows the other
  case.
* *Inbox.* Two threads, one of the customer's mail and one of the bounce, or two
  of one subject when transactions overlap; two copies, as the task is tried
  twice (`MaxTries`). A bounce reports the first copy.

Deadlock checking is off in every run but `lead_pipeline`: a campaign that is
done, a clock that has stopped or a mailbox with nothing to do is a proper end.
That nobody waits for ever is stated as `CampaignSettles`, `RuleIsAnswered`,
`RequestsEnd`, `CodesGetThrough`, `MailArrives` and `RepliesEnd` instead.

Fairness, and where the code gives it:

* Beat runs the dispatcher every minute and the sweep every hour
  (`CELERY_BEAT_SCHEDULE`), so scanning and sweeping are weakly fair; a worker
  that has a message goes on with it unless it crashes, so its steps are too.
  Users, opt-outs, crashes and losses are never fair. Sweeps may die any number
  of times but not for ever (`<>[][SweepStep(s)]_(sweep[s])` in `FollowUps`):
  workers that never survive a sweep would keep the code from its promise.
* `AnswersCatchUp` assumes that Redis expires entries (`LEAD_API_CACHE_TTL`) and
  that a request in progress goes on to its answer. A new list request is not
  assumed.
* `RequestsEnd` assumes strong fairness of taking a lock, as PostgreSQL queues
  waiters, and weak fairness of a request that has its locks.
* `CodesGetThrough` is about a person who does not give up: they ask for a code
  whenever they may and type the right one, again and again (strong fairness of
  asking, typing and of the steps that take a right code). What it shows is that
  no state of the code keeps them out: no lock-out, expiry, failed send or other
  person's guesses. Time passes, and a request that holds a lock ends.
* `MailArrives` and `EmptyMailboxFails` assume that the five-minute beat
  (`sync_all_mailboxes`) goes on and that not every task is lost on the way to
  its next step (strong fairness, because failures and losses interrupt them).
  Neither reconnection nor a notification is assumed. A message on a list is
  met at some time (`Pass`, `Ingest` or `Choke`), unless the syncs that list it
  end earlier each time. `MailArrives` excepts mail too old for the first sync,
  a mailbox that is not ACTIVE, and the time after a message arrived that raises
  (`Choked`), for it ends every sync that lists it.
* `RepliesEnd` assumes that a queued reply is taken up and goes on, and that a
  waiting insert gets its turn.

## 4. Proofs

Every safety invariant and every action property that a passing run checks is a
theorem, proved by TLAPS for all values of the constants, with no assumptions
but those named in the modules and the hypotheses named here. Each proof module
defines an inductive invariant, proves that the initial states satisfy it and
that every action keeps it, and takes the theorems from it.

Some hypotheses restrict the constants, because the code breaks the
property without them, and the configurations in section 3 show how: `NoOverlap`
(retry requests of a campaign do not overlap), `OneWriter` (invalidations of a
tenant's lists do not overlap) and `NoUnlocked` (nobody uses the generic update
of a task, which saves a row read before, nor the inbox's reminder, which
reopens closed tasks), or only `NoEditor`, the first half of that. `NothingSkippedCorrect` assumes `Zone <= 0`, that the
provider's day begins no later than the UTC day, and `PatienceAssumption`, that
no sync takes longer than the window reaches back. All of them leave every other
actor in any number. The assumptions on constants are what the code gives: finite tables,
since the models count their free rows, and `KeysApart`, that the keys of rules,
threads and visits differ (`RULES`, `email_reply:<id>`, and a key for each visit).

* `EmailCampaignProofs`. `TypeCorrect` has no condition. `SoleSenderCorrect` and
  `ImplementsLedgerCorrect` assume `NoOverlap`, that `Request` has at most one
  element: retries may follow each other without end, but do not overlap;
  `EmailCampaignRetryRace.cfg` shows what happens when they do. `SoleSender` is
  not inductive: it says nothing of a campaign that nobody delivers, to which a
  claim, a dispatch or a retry adds a delivery. `Flow` does: the messages asked
  for and those at the broker are at most one together, the campaign is queued
  and no retry has passed its check while there is one, the campaign is being
  sent and there is none while a worker is active, and whoever has passed the
  retry's check still finds a retryable status. The refinement adds `Progress`:
  only addresses of the audience have rows, a worker past `Recover` leaves none
  of them without one (`Knows`), its lists agree with the rows' status, and a
  verdict of "sent" was computed from rows that only this worker writes.
  `OptOutHonouredCorrect` has no condition: `Respect` says that nobody withheld
  is opted in, that a worker's audience holds nobody withheld, and that it mails
  from its audience only, which is a matter of that worker alone.
  `DuplicateNeedsFaultCorrect` needs `NoOverlap` again. Its invariant `Tally`: as
  long as no worker died and no answer was lost, an address that got its message
  got one and its row says sent, or the worker at that row holds the answer and
  is about to save it. Who starts a row knows from `Progress` that it is not
  sent, and from `Flow` that nobody else holds an answer for it. From `Progress`
  alone follows `RetrySkipsSentCorrect`. `AbandonedNeedsCrashCorrect`, with no
  condition, is the other half of the run `email_campaign_crash`: every row in
  "sending" has a worker at it (`Attended`) until one crashes, so no failure that
  the code handles leaves a row behind.
* `MembershipsProofs`. The inductive invariant is the types; `Locked`,
  that no row is locked twice and a locked row does not go away; `Decided`, that
  a request about to write still holds its target and its decision still stands
  on the rows it holds; `SavesAccount`, that only a deactivating request saves a
  disabled account; and `OwnerIsKept`. The argument: a request that takes an
  active owner out has seen another one among the rows it holds, nobody else can
  write those rows, so that owner is still there when it writes. From it follow
  `OwnerIsKeptCorrect`, `LocksExclude` and `BridgeRespectsDeactivationCorrect`.
  `OnlyBridgeReadmitsCorrect` is the other half of `memberships_removed`: a
  request writes to a row it holds, which is in the table, so what brings a
  removed member back is the bridge and nothing else. `NoCircularWaitCorrect` is
  the safety half of `RequestsEnd`: every row that a request has still to lock
  is above all it holds (`LockOrder`); of the requests that wait, the one that
  waits for the greatest row waits for one that cannot be waiting. That finite
  sets of keys have least and greatest elements (`FirstKey`) comes from the
  well-foundedness of finite subsets.
* `FollowUpsProofs`. `IInv` is the types and `Unique`: no two rows occupy one key
  among the open tasks. Most steps add no occupant (`NoNewOccupant`), the others
  pass the constraint (`Admits`), a stale save that reopens a task included. From
  it `OneOpenPerRuleCorrect`. What is said of successors, alerts and reminders
  needs more, `Sound`: there is a free row for every task that a rule, a worker
  or a reminder may still add (`Places`), so that a new task never takes the row
  of another, and what an editor has loaded is still there with its key,
  or went with the lead (`HeldIsReal`). On it rest, one conjunct each: `OneReminderPerThreadCorrect`
  (`ThreadRows`: a thread has no two tasks outside `stray`, and while a request
  is about to make one, such a task is open, so that the constraint refuses the
  second), `AlertsMatchTasksCorrect` (`AlertsFollow`:
  a step other than the sweep's either leaves a row and its unread alerts, or
  leaves no unread alert of it; the sweep's makes the row overdue with the alert
  of its owner), `CompletionHasOneSuccessorCorrect` and `ClosedIsTerminalCorrect`.
  The same module proves `SiteVisits`, since its steps are those of `FollowUps`
  and operations on visits. `Synced` is what all outcomes of
  `_sync_site_visit_reminder` have in common: rows of other keys are as they
  were, the visit's open reminders are as it asks, and there is one when it wants
  one. From it `VisitHasReminderCorrect`, `OpenReminderHasVisitCorrect` and
  `ReminderIsAlignedCorrect`, all under `NoEditor`: a PATCH may move a visit's
  reminder to another lead, while the inbox's reminder writes rows of its thread
  only (`ReminderWrites`);
  and `VisitAlertsCorrect` under `NoUnlocked`.
* `LeadCacheProofs`. `TypeCorrect` has no condition: the writers that are not
  through are counted, and neither the version nor what any of them has read of
  it exceeds the changes by more than leaves room for all of them (`Counted`);
  versions may repeat when invalidations overlap, but they do not run ahead. The
  rest is for writers that do not overlap (`OneWriter`). Entries of
  versions to come are empty, but for version 1, to which requests fall back
  before there is any; those of the current version show all that was
  invalidated (`EntriesOK`). What a request that read the version may find or
  store under its key shows what it has to, the same for all such readers of a
  key; under version 1 that is nothing, since the first invalidation moves the
  version on, so what the others store there does no harm to it (`ReadersOK`);
  a change that is not invalidated yet leaves room for the next version
  (`VersionOK`). From it `InvalidatedChangesShowCorrect`.
* `LeadPipelineProofs`. `LeadOK` says of a lead that was captured and not undone
  that its timeline is a chain that ends at its stage, its owner is the one
  chosen, and each rule has at most as many jobs as the timeline has causes; and
  of every lead in the table that its row is consistent and was captured. It is
  inductive with `RequestOK`: the row a request carries is consistent, because it
  was once in the table or has passed its form. The lemmas on sequences show that
  a chain followed by what leads on from its end is a chain (`ExplainsConcat`),
  that causes are never lost and a new one counts (`CausesGrow`), and that
  `transition_lead` adds a chain that begins with the change (`EventsLead`).
  Steps under a lock are instances of one lemma (`LockedStep`). The action
  property `MovesAreOwnCorrect` looks at each entry that a step adds.
* `AccountsProofs`. `Locked`: at most one request holds a row, the row stays as
  the request read it but for its age. `Counted`: a row counts the wrong guesses
  at its code, which has not worked yet. With `ChangeSignsOut` they are inductive:
  a guess writes one more than it read, below the limit, and nobody else wrote
  meanwhile.
* `MailSyncProofs`. `TypeCorrect` comes from `Base`, the types and `Past`, that
  nothing recorded is in the future. `NothingSkipped` is not inductive, since a
  sync that ends moves the window. A message is `Due` when it misses and was not
  too old for the first sync. `Covered` says that a due message arrived within
  every open task's window and the next one, and that what misses on the list of
  a task, though it was served from, arrived after the list was made; `Prompt`
  that no listing is older than `Patience` and that a window reaches back by
  `Overlap` at least. What arrived since the list was made is then inside the
  window that reaches `Overlap` back from the end, and a provider whose day
  begins no later serves all of a window (`ServedBounds`).

* `InboxProofs`. `IInv` has six parts. `Shape` is the types of rows, threads,
  transactions and tasks. `Filed`: what is stored came from the provider and has
  its thread. `Holds`: what a transaction found or wrote is still so, whoever
  commits before it; in particular its message has no row, what it marked as
  bounced is not what it marked as answered, and its count is exact if it met no
  other at its thread. `Apart`: no two transactions have written one message, and
  no two think themselves alone at one thread. `Tracks`: a reply task stores the
  copy that the provider answered for and ends well only when that copy has a
  row, its own or a sync's. `Single`: unless an answer was lost, a task that
  still tries has delivered nothing, and there is one copy at most. Steps that
  commit nothing keep the rows and with them most of this (`SameRows`,
  `HoldsKept`, `TracksKept`). `Commit` touches all of it but `Single`: its
  message gets a row, so that no other transaction's message can be the same, and
  the counts of others at that thread, who are then not alone, need not be exact
  any more. From them `TypeCorrect`, `SentIsOnRecordCorrect`,
  `DuplicateReplyNeedsFaultCorrect` and the action properties
  `CountHealsCorrect` and `BounceIsNoAnswerCorrect`, none with a condition. The
  last says that a stored reply is not turned into an answered one; a reply that
  commits between a bounce's update and its commit stays "sent".

Only model-checked is liveness, which the prover cannot reach (it does not reason
about ENABLED and fairness): `CampaignSettles`, `LapsedIsFlagged`,
`RuleIsAnswered`, `AnswersCatchUp`, `RequestsEnd`, `MailArrives`,
`EmptyMailboxFails`, `RepliesEnd` and `CodesGetThrough`. The two violated
properties are no theorems, of course; `AbandonedNeedsCrashCorrect` and
`OnlyBridgeReadmitsCorrect` say what it takes to violate them. The type
invariants are theorems (`TypeCorrect`, and `VisitSound` for `SiteVisits`); runs repeat those that a plausible bug would break.

## 5. Not modelled, and why

* The failure counter of sign-ins (`core/security.py`): two failures at once may
  count as one. It is planned.
* An administrator who disables or deletes accounts and rows directly
  (`core/admin.py`): operator tooling without any of the services' checks.
* Which leads a campaign's filters, an inbox search or the daily stale-lead
  escalation select: queries; the models take any selection.
* HTTP, IMAP, SMTP and MIME, encryption of credentials, captcha, templates,
  styles, browser script, parsing of imported files, reports and dashboards: I/O
  and read-only code. Products, settings, templates and internal notes are edits
  of single rows.
* PostgreSQL deadlocks between a visit's locks (visit, lead, task) and a task's
  (task, lead), between two bulk actions, and between a reset (code, user) and a
  new code (user, code): the server aborts one transaction whole, so no state
  the models have is affected; the request fails and is repeated by its user.

What the models have and no property forbids, because the code does it and
nothing promises otherwise:

* A sync that ends after a disconnection makes the mailbox ACTIVE again, and a
  task queued before it puts it in ERROR; a worker may save a refreshed token
  after a disconnection. `EmptyMailboxFails` bounds the first. The beat leaves a
  mailbox in ERROR alone; `MailArrives` says so.
* Converting an unmatched message twice makes two leads; a message looked up
  before a conversion may save its thread without the lead; two transactions
  that overlap may make two threads of one subject or count a message too few,
  until the next one (`CountHeals`); an open that was loaded earlier may turn
  REPLIED or BOUNCED into DELIVERED.
* Overlapping captures or imports make duplicates of one customer, which a
  person may also confirm. A stale save undoes a transition or an assignment,
  or inserts a deleted lead again: `undone` marks those leads and no others. The
  columns the model leaves out meet the same fate, an opt-out
  (`web/views.py:1782`) among them. A lead can be assigned to a member who is
  deactivated meanwhile. "Needs time" and notes are not checked again after they
  were loaded. Entries made by hand may be of the kinds that the code writes for
  changes of its own, without the stages that those name: `TimelineExplainsStage`
  is about the stages, `LeadPipelineHandmade.cfg` about the kinds.
* A PATCH may move a task between leads, a thread's or a visit's reminder among
  them. The thread may then have two tasks and the visit none: the properties
  about both except those tasks or leave the PATCH out.
* Mail that a connection's domains or labels hide has no row and is not looked
  for again once the window has passed it, even when the lists change. Mail from
  before the first sync's window is never looked for. A message that cannot be
  parsed or stored ends every sync that lists it, and the mailbox stays ACTIVE.
* A refresh that a reset overtakes leaves a token that works; `ChangeSignsOut`
  excepts it. A registration whose username or email another account took
  meanwhile cannot be completed; `CodesGetThrough` excepts it.

## 6. Plan

Done, in this order, the parts that act on their own first: `EmailCampaign` with
`CampaignLedger` and proofs; `FollowUps` and `SiteVisits`; `LeadCache`;
`Memberships` with proofs; `MailSync`, `Inbox`, `Accounts` and `LeadPipeline`;
the proofs of every safety property of theirs.

Next:

1. `AuthThrottle`: the failure counter and its backoff, in the place of a run.
2. An abstract specification of a workspace in which each owner's request is one
   step, and `Memberships` shown to implement it.
3. Which single fault `ChangeSignsOut` and `TimelineExplainsStage` except, as
   theorems like `AbandonedNeedsCrashCorrect`: what exactly is lost by an
   unlocked save.
4. The weakest condition on unlocked edits under which alerts still agree: it
   takes at least a row that is still as it was loaded, and the same owner.
