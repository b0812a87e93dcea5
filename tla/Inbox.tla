-------------------------------- MODULE Inbox --------------------------------
(***************************************************************************)
(* The shared inbox of one connected mailbox (ingest_message and           *)
(* send_thread_reply of core/mail_services.py, the reply task of           *)
(* core/tasks.py, and the thread, unmatched-message and tracking views of  *)
(* web/views.py).                                                          *)
(*                                                                         *)
(* ingest_message is one transaction, but at PostgreSQL's default          *)
(* isolation what it looked up may be out of date when it commits: it is   *)
(* three steps, the lookups, the inserts with the recount, and the commit. *)
(* A sync runs it for every message the provider lists, which in Gmail     *)
(* includes the copies of replies; a reply task runs it for the copy that  *)
(* the provider just took.                                                 *)
(***************************************************************************)
EXTENDS Naturals, FiniteSets

CONSTANTS
  Mail,         \* messages the mailbox may receive
  Copy,         \* what replies become at the provider (bound: how many)
  Sender,       \* the address a mail comes from
  Topic,        \* the normalized subject of a mail
  Bounces,      \* the copies a mail reports as undeliverable: {} but for a bounce
  Thread,       \* identifiers of core_emailthread rows (bound)
  SyncRun,      \* syncs that store messages
  Reply,        \* reply tasks
  MaxTries,     \* deliveries a reply task may try: one and max_retries
  MaxLeads      \* bound: leads made of one address

Message == Mail \cup Copy
Address == {Sender[m] : m \in Mail}
Ingester == SyncRun \cup Reply

ASSUME BoundsAssumption == MaxTries \in Nat \ {0} /\ MaxLeads \in Nat
ASSUME IngesterAssumption == SyncRun \cap Reply = {} /\ Mail \cap Copy = {}
ASSUME BouncesAssumption == \A m \in Mail : Bounces[m] \subseteq Copy
ASSUME FiniteAssumption == IsFiniteSet(Mail) /\ IsFiniteSet(Copy)

VARIABLES
  there,        \* the messages the provider has
  row,          \* core_emailmessage by provider_message_id
  thread,       \* core_emailthread
  unmatched,    \* EmailUnmatched by message: "none", "open", or "closed" for
                \* one that was ignored or converted
  leads,        \* how many leads have an address
  ingest,       \* the transaction of each ingester
  reply,        \* each reply task
  made,         \* the reply a copy was made for, and the mail it answers
  viewed,       \* copies whose tracking pixel found them SENT
  unclear       \* history: replies the provider took and answered with an error

storeVars == <<row, thread, unmatched>>
replyVars == <<reply, made, unclear>>
vars == <<there, storeVars, leads, ingest, replyVars, viewed>>

None == [kind |-> "none"]
Idle == [pc |-> "idle"]

Row(t, dir, parent) == [kind |-> "row", thread |-> t, dir |-> dir, status |-> "sent", parent |-> parent]
ThreadRow(topic, lead) == [kind |-> "thread", topic |-> topic, lead |-> lead, count |-> 0]

Stored == {m \in Message : row[m] # None}
Threads == {t \in Thread : thread[t] # None}
RowsOf(t) == {m \in Stored : row[m].thread = t}
Outbound(t) == {m \in RowsOf(t) : row[m].dir = "outbound"}

\* The headers of a message: what it answers, its subject, and with whom it is.
BouncesOf(m) == IF m \in Mail THEN Bounces[m] ELSE {}
ParentsOf(m) == IF m \in Mail THEN Bounces[m] ELSE {made[m].answers}
TopicOf(m) == IF m \in Mail THEN Topic[m] ELSE made[m].topic
PartnerOf(m) == IF m \in Mail THEN Sender[m] ELSE made[m].partner

\* _matching_lead
HasLead(m) == leads[PartnerOf(m)] > 0

\* _thread_for_payload: the thread of a message it refers to or that refers to
\* the same one, or else one of its subject.  Which of several is not settled.
Referred(m) == {row[r].thread : r \in {r \in Stored : r \in ParentsOf(m) \/ row[r].parent \cap ParentsOf(m) # {}}}
SameTopic(m) == {t \in Threads : thread[t].topic = TopicOf(m)}
ThreadsFor(m) == IF Referred(m) # {} THEN Referred(m) ELSE SameTopic(m)

Written(i) == ingest[i].pc = "written"
\* A thread that no row and no transaction uses; which one makes no difference.
Unused == {t \in Thread \ Threads : \A i \in Ingester : Written(i) => ingest[i].thread # t}
Fresh == CHOOSE t \in Unused : TRUE

------------------------------------------------------------------------------
Init ==
  /\ there = {}
  /\ row = [m \in Message |-> None]
  /\ thread = [t \in Thread |-> None]
  /\ unmatched = [m \in Message |-> "none"]
  /\ leads = [a \in Address |-> 0]
  /\ ingest = [i \in Ingester |-> Idle]
  /\ reply = [r \in Reply |-> [pc |-> "none"]]
  /\ made = [c \in Copy |-> None]
  /\ viewed = {}
  /\ unclear = {}

\* A customer writes, or a provider reports a copy as undeliverable.
Receive(m) ==
  /\ m \notin there
  /\ Bounces[m] \subseteq there
  /\ there' = there \cup {m}
  /\ UNCHANGED <<storeVars, leads, ingest, replyVars, viewed>>

------------------------------------------------------------------------------
(* ingest_message.                                                         *)

\* The message is new, and its thread and lead are looked up.
Found(i, m, dir) ==
  /\ ingest[i] = Idle
  /\ row[m] = None
  /\ \/ \E t \in ThreadsFor(m) :
          ingest' = [ingest EXCEPT ![i] =
            [pc |-> "found", msg |-> m, dir |-> dir, new |-> FALSE, thread |-> t,
             match |-> HasLead(m), lead |-> thread[t].lead \/ HasLead(m)]]
     \/ /\ ThreadsFor(m) = {}
        /\ ingest' = [ingest EXCEPT ![i] =
            [pc |-> "found", msg |-> m, dir |-> dir, new |-> TRUE, thread |-> "new",
             match |-> HasLead(m), lead |-> HasLead(m)]]

\* A sync comes to a message of its list.
SyncFinds(i, m) ==
  /\ i \in SyncRun /\ m \in there
  /\ Found(i, m, "inbound")
  /\ UNCHANGED <<there, storeVars, leads, replyVars, viewed>>

\* Mutant of Bounced: only what was seen as delivered can bounce.
BouncedDelivered(m, dir) ==
  IF dir = "inbound" THEN {c \in BouncesOf(m) \cap Stored : row[c].status = "delivered"} ELSE {}

\* The rows an inbound message changes: a bounce first marks what it bounces,
\* and then what is still sent or delivered counts as replied.
Bounced(m, dir) == IF dir = "inbound" THEN BouncesOf(m) \cap Stored ELSE {}
Answered(m, dir, t) ==
  IF dir = "inbound"
  THEN {c \in Outbound(t) : row[c].status \in {"sent", "delivered"}} \ Bounced(m, dir)
  ELSE {}

\* What an ingester knows once it has written; another at the thread is noted.
Counted(i, t, n) ==
  LET x == ingest[i] IN
  [j \in Ingester |->
     IF j = i
     THEN [pc |-> "written", msg |-> x.msg, dir |-> x.dir, new |-> x.new, thread |-> t,
           match |-> x.match, lead |-> x.lead, count |-> n,
           bounced |-> Bounced(x.msg, x.dir), answered |-> Answered(x.msg, x.dir, t),
           alone |-> \A k \in Ingester : ~(Written(k) /\ ingest[k].thread = t)]
     ELSE IF Written(j) /\ ingest[j].thread = t
          THEN [ingest[j] EXCEPT !.alone = FALSE] ELSE ingest[j]]

\* The insert waits for a transaction that wrote the same message, and the
\* updates wait for one that changed the same rows.
MayWrite(i, t) ==
  LET x == ingest[i]
      touched == Bounced(x.msg, x.dir) \cup Answered(x.msg, x.dir, t)
  IN
  /\ x.pc = "found"
  /\ row[x.msg] = None
  /\ IF x.new THEN Unused # {} /\ t = Fresh ELSE t = x.thread
  /\ \A j \in Ingester : Written(j) =>
        ingest[j].msg # x.msg /\ (ingest[j].bounced \cup ingest[j].answered) \cap touched = {}

\* Mutant of Write: the messages are counted before the insert.
WriteAfterCount(i) ==
  /\ \E t \in Thread : MayWrite(i, t) /\ ingest' = Counted(i, t, Cardinality(RowsOf(t)))
  /\ UNCHANGED <<there, storeVars, leads, replyVars, viewed>>

\* Mutant of Write: the count that was loaded with the thread is incremented.
WriteIncrement(i) ==
  /\ \E t \in Thread : MayWrite(i, t) /\ ingest' = Counted(i, t, IF thread[t] = None THEN 1 ELSE thread[t].count + 1)
  /\ UNCHANGED <<there, storeVars, leads, replyVars, viewed>>

\* The row is inserted, earlier rows are updated, the thread's rows are counted.
Write(i) ==
  /\ \E t \in Thread : MayWrite(i, t) /\ ingest' = Counted(i, t, Cardinality(RowsOf(t)) + 1)
  /\ UNCHANGED <<there, storeVars, leads, replyVars, viewed>>

\* Mutant of Conflict: a message that another transaction is writing counts as stored.
ConflictEarly(i) ==
  /\ ingest[i].pc = "found"
  /\ row[ingest[i].msg] # None \/ \E j \in Ingester : Written(j) /\ ingest[j].msg = ingest[i].msg
  /\ ingest' = [ingest EXCEPT ![i] = Idle]
  /\ reply' = IF i \in Reply THEN [reply EXCEPT ![i].pc = "failed"] ELSE reply
  /\ UNCHANGED <<there, storeVars, leads, made, unclear, viewed>>

\* Another transaction stored the message first: an IntegrityError, which
\* neither task catches.
Conflict(i) ==
  /\ ingest[i].pc = "found"
  /\ row[ingest[i].msg] # None
  /\ ingest' = [ingest EXCEPT ![i] = Idle]
  /\ reply' = IF i \in Reply THEN [reply EXCEPT ![i].pc = "failed"] ELSE reply
  /\ UNCHANGED <<there, storeVars, leads, made, unclear, viewed>>

\* The thread's named columns are saved, and the transaction commits.
Commit(i) ==
  LET x == ingest[i]
      old == IF x.new THEN ThreadRow(TopicOf(x.msg), x.lead) ELSE thread[x.thread]
  IN
  /\ Written(i)
  /\ row' = [m \in Message |->
       IF m = x.msg THEN Row(x.thread, x.dir, ParentsOf(m))
       ELSE IF m \in x.bounced THEN [row[m] EXCEPT !.status = "bounced"]
       ELSE IF m \in x.answered THEN [row[m] EXCEPT !.status = "replied"]
       ELSE row[m]]
  /\ thread' = [thread EXCEPT ![x.thread] = [old EXCEPT !.lead = x.lead, !.count = x.count]]
  /\ unmatched' = IF x.match \/ x.dir = "outbound" THEN unmatched
                  ELSE [unmatched EXCEPT ![x.msg] = "open"]
  /\ ingest' = [ingest EXCEPT ![i] = Idle]
  /\ reply' = IF i \in Reply THEN [reply EXCEPT ![i].pc = "filed"] ELSE reply
  /\ UNCHANGED <<there, leads, made, unclear, viewed>>

\* Mutant of Die: the task is delivered again.
DieAndRepeat(i) ==
  /\ \/ i \in SyncRun /\ ingest[i] # Idle
     \/ i \in Reply /\ reply[i].pc \in {"asked", "taken", "filed"}
  /\ ingest' = [ingest EXCEPT ![i] = Idle]
  /\ reply' = IF i \in Reply THEN [reply EXCEPT ![i].pc = "asked"] ELSE reply
  /\ UNCHANGED <<there, storeVars, leads, made, unclear, viewed>>

\* A worker dies and its transaction is rolled back; the task was acknowledged.
\* An error of the database or of a file ends a task the same way.
Die(i) ==
  /\ \/ i \in SyncRun /\ ingest[i] # Idle
     \/ i \in Reply /\ reply[i].pc \in {"asked", "taken", "filed"}
  /\ ingest' = [ingest EXCEPT ![i] = Idle]
  /\ reply' = IF i \in Reply THEN [reply EXCEPT ![i].pc = "lost"] ELSE reply
  /\ UNCHANGED <<there, storeVars, leads, made, unclear, viewed>>

------------------------------------------------------------------------------
(* Replies: EmailThreadActionView and send_mail_thread_reply.              *)

\* The task is in the broker.  That the thread now waits for the customer, and
\* who is in charge of it, are columns of their own that nothing here reads.
Ask(r, t) ==
  /\ reply[r].pc = "none"
  /\ t \in Threads
  /\ reply' = [reply EXCEPT ![r] = [pc |-> "asked", thread |-> t, tries |-> 1, copy |-> "none"]]
  /\ UNCHANGED <<there, storeVars, leads, ingest, made, unclear, viewed>>

\* The provider takes the message: copy c answers message m of the thread.
Take(r, c, m) ==
  /\ reply[r].pc = "asked"
  /\ \E d \in Copy : made[d] = None
  /\ c = CHOOSE d \in Copy : made[d] = None
  /\ m \in RowsOf(reply[r].thread) /\ row[m].dir = "inbound"
  /\ there' = there \cup {c}
  /\ made' = [made EXCEPT ![c] =
       [kind |-> "copy", reply |-> r, answers |-> m,
        topic |-> thread[reply[r].thread].topic, partner |-> PartnerOf(m)]]

Accept(r, c, m) ==
  /\ Take(r, c, m)
  /\ reply' = [reply EXCEPT ![r].pc = "taken", ![r].copy = c]
  /\ UNCHANGED <<storeVars, leads, ingest, unclear, viewed>>

\* Mutant of Again: the retries have no limit.
AgainForEver(r) == reply' = [reply EXCEPT ![r].pc = "asked"]

\* self.retry, or the end of the retries.
Again(r) ==
  reply' = IF reply[r].tries < MaxTries THEN [reply EXCEPT ![r].tries = @ + 1]
           ELSE [reply EXCEPT ![r].pc = "given up"]

\* The provider takes the message, and the connection fails before its answer.
AcceptUnheard(r, c, m) ==
  /\ Take(r, c, m)
  /\ Again(r)
  /\ unclear' = unclear \cup {r}
  /\ UNCHANGED <<storeVars, leads, ingest, viewed>>

\* The provider refuses the message, the mailbox is not ACTIVE, or the thread
\* has no recipient: a MailProviderError.
Refuse(r) ==
  /\ reply[r].pc = "asked"
  /\ Again(r)
  /\ UNCHANGED <<there, storeVars, leads, ingest, made, unclear, viewed>>

\* The task stores the copy it was answered for ...
ReplyFinds(r) ==
  /\ reply[r].pc = "taken"
  /\ Found(r, reply[r].copy, "outbound")
  /\ UNCHANGED <<there, storeVars, leads, replyVars, viewed>>

\* ... or finds that a sync stored it.
ReplyFindsStored(r) ==
  /\ reply[r].pc = "taken" /\ ingest[r] = Idle
  /\ row[reply[r].copy] # None
  /\ reply' = [reply EXCEPT ![r].pc = "filed"]
  /\ UNCHANGED <<there, storeVars, leads, ingest, made, unclear, viewed>>

\* The task's last save, of the thread's status, is done.
Settle(r) ==
  /\ reply[r].pc = "filed"
  /\ reply' = [reply EXCEPT ![r].pc = "done"]
  /\ UNCHANGED <<there, storeVars, leads, ingest, made, unclear, viewed>>

------------------------------------------------------------------------------
(* Requests of colleagues, and the customer's mail program.                *)

\* EmailUnmatchedActionView: the status is not looked at.
Ignore(m) ==
  /\ unmatched[m] # "none"
  /\ unmatched' = [unmatched EXCEPT ![m] = "closed"]
  /\ UNCHANGED <<there, row, thread, leads, ingest, replyVars, viewed>>

Convert(m) ==
  /\ unmatched[m] # "none"
  /\ leads[PartnerOf(m)] < MaxLeads
  /\ leads' = [leads EXCEPT ![PartnerOf(m)] = @ + 1]
  /\ thread' = [thread EXCEPT ![row[m].thread].lead = TRUE]
  /\ unmatched' = [unmatched EXCEPT ![m] = "closed"]
  /\ UNCHANGED <<there, row, ingest, replyVars, viewed>>

\* MailOpenTrackingView loads a message that is SENT ...
View(c) ==
  /\ row[c] # None /\ row[c].status = "sent"
  /\ viewed' = viewed \cup {c}
  /\ UNCHANGED <<there, storeVars, leads, ingest, replyVars>>

\* ... and saves it as DELIVERED, after any transaction that changed the row.
MarkDelivered(c) ==
  /\ c \in viewed
  /\ \A i \in Ingester : Written(i) => c \notin ingest[i].bounced \cup ingest[i].answered
  /\ row' = [row EXCEPT ![c].status = "delivered"]
  /\ viewed' = viewed \ {c}
  /\ UNCHANGED <<there, thread, unmatched, leads, ingest, replyVars>>

Next ==
  \/ \E m \in Mail : Receive(m)
  \/ \E i \in SyncRun, m \in Message : SyncFinds(i, m)
  \/ \E i \in Ingester : Write(i) \/ Conflict(i) \/ Commit(i) \/ Die(i)
  \/ \E r \in Reply : \/ \E t \in Thread : Ask(r, t)
                      \/ \E c \in Copy, m \in Message : Accept(r, c, m) \/ AcceptUnheard(r, c, m)
                      \/ Refuse(r) \/ ReplyFinds(r) \/ ReplyFindsStored(r) \/ Settle(r)
  \/ \E m \in Message : Ignore(m) \/ Convert(m)
  \/ \E c \in Copy : View(c) \/ MarkDelivered(c)

\* A task that has begun goes on, and a queued reply is taken up.  A waiting
\* insert gets its turn between transactions that die with the same message.
Fairness ==
  /\ \A i \in Ingester : SF_vars(Write(i)) /\ WF_vars(Conflict(i)) /\ WF_vars(Commit(i))
  /\ \A r \in Reply :
       /\ WF_vars(Refuse(r) \/ \E c \in Copy, m \in Message : Accept(r, c, m) \/ AcceptUnheard(r, c, m))
       /\ WF_vars(ReplyFinds(r) \/ ReplyFindsStored(r)) /\ WF_vars(Settle(r))

Spec == Init /\ [][Next]_vars /\ Fairness

------------------------------------------------------------------------------
(* Properties.                                                             *)

Ended == {"filed", "done", "failed"}

\* Rows, threads and tasks are well formed; no row is without its thread.
TypeOK ==
  /\ there \subseteq Message
  /\ \A m \in Stored : row[m].thread \in Threads /\ row[m].dir \in {"inbound", "outbound"}
                        /\ row[m].status \in {"sent", "delivered", "replied", "bounced"}
  /\ \A t \in Threads : thread[t].lead \in BOOLEAN /\ thread[t].count \in 1..Cardinality(Message)
  /\ unmatched \in [Message -> {"none", "open", "closed"}]
  /\ leads \in [Address -> 0..MaxLeads]
  /\ \A m \in Message : unmatched[m] # "none" => m \in Stored

\* A reply whose delivery the provider confirmed has its row once the task is
\* over, even when a sync came first, unless a worker died.
SentIsOnRecord == \A r \in Reply : reply[r].pc \in Ended => row[reply[r].copy] # None

\* A reply is delivered twice only if the provider's answer was lost.
DuplicateReplyNeedsFault ==
  \A r \in Reply : Cardinality({c \in Copy : made[c] # None /\ made[c].reply = r}) > 1 => r \in unclear

\* A message stored while no other transaction is at its thread leaves an exact
\* count, whatever earlier overlaps had made of it.
CountHeals ==
  [][\A i \in Ingester :
       Written(i) /\ ingest[i].alone /\ row'[ingest[i].msg] # None
         => thread'[ingest[i].thread].count =
              Cardinality({m \in Message : row'[m] # None /\ row'[m].thread = ingest[i].thread})]_vars

\* The report that a reply bounced does not pass for the customer's answer to it:
\* it turns no stored reply into an answered one.
BounceIsNoAnswer ==
  [][\A b \in Mail : \A c \in Bounces[b] \cap Stored :
       row[b] = None /\ row'[b] # None => (row'[c].status = "replied" => row[c].status = "replied")]_vars

\* A reply that was asked for comes to an end.
RepliesEnd == \A r \in Reply : (reply[r].pc = "asked") ~> (reply[r].pc \in Ended \cup {"lost", "given up"})
==============================================================================
