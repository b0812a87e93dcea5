---------------------------- MODULE InboxProofs ----------------------------
(***************************************************************************)
(* Proofs about Inbox, for any mails, copies, threads, syncs and replies.  *)
(***************************************************************************)
EXTENDS Inbox, FiniteSetTheorems, TLAPS

------------------------------------------------------------------------------
(* The inductive invariant.                                                *)

Topics == {Topic[m] : m \in Mail}
Direction == {"inbound", "outbound"}

\* The records that the variables hold, besides None and Idle.
RowRecord == [kind : {"row"}, thread : Thread, dir : Direction,
              status : {"sent", "delivered", "replied", "bounced"}, parent : SUBSET Message]
ThreadRecord == [kind : {"thread"}, topic : Topics, lead : BOOLEAN, count : 1..Cardinality(Message)]
CopyRecord == [kind : {"copy"}, reply : Reply, answers : Message, topic : Topics, partner : Address]
FoundRecord == [pc : {"found"}, msg : Message, dir : Direction, new : BOOLEAN,
                thread : Thread \cup {"new"}, match : BOOLEAN, lead : BOOLEAN]
WrittenRecord == [pc : {"written"}, msg : Message, dir : Direction, new : BOOLEAN, thread : Thread,
                  match : BOOLEAN, lead : BOOLEAN, count : 1..Cardinality(Message),
                  bounced : SUBSET Message, answered : SUBSET Message, alone : BOOLEAN]
TaskRecord == [pc : {"asked", "taken", "filed", "done", "failed", "lost", "given up"},
               thread : Thread, tries : Nat, copy : Copy \cup {"none"}]

Shape ==
  /\ there \subseteq Message
  /\ row \in [Message -> {None} \cup RowRecord]
  /\ thread \in [Thread -> {None} \cup ThreadRecord]
  /\ unmatched \in [Message -> {"none", "open", "closed"}]
  /\ leads \in [Address -> 0..MaxLeads]
  /\ ingest \in [Ingester -> {Idle} \cup FoundRecord \cup WrittenRecord]
  /\ reply \in [Reply -> {[pc |-> "none"]} \cup TaskRecord]
  /\ made \in [Copy -> {None} \cup CopyRecord]
  /\ viewed \subseteq Copy
  /\ unclear \subseteq Reply

\* What is stored came from the provider, and has its thread.
Filed ==
  /\ Stored \subseteq there
  /\ \A c \in Copy \cap there : made[c] # None
  /\ \A m \in Stored : row[m].thread \in Threads
  /\ \A m \in Message : unmatched[m] # "none" => m \in Stored
  /\ viewed \subseteq Stored

\* What a transaction found or wrote still holds, whoever commits before it.
Holds(i) ==
  /\ ingest[i] # Idle => ingest[i].msg \in there /\ (ingest[i].new \/ ingest[i].thread \in Threads)
  /\ Written(i) => /\ row[ingest[i].msg] = None
                   /\ ingest[i].bounced \cup ingest[i].answered \subseteq Stored
                   /\ ingest[i].answered \cap BouncesOf(ingest[i].msg) = {}
                   /\ ingest[i].alone => ingest[i].count = Cardinality(RowsOf(ingest[i].thread)) + 1

\* No two transactions have written the same message, or think themselves alone
\* at the same thread.
Apart(i, j) ==
  Written(i) /\ Written(j) /\ i # j =>
    /\ ingest[i].msg # ingest[j].msg
    /\ ingest[i].alone => ingest[i].thread # ingest[j].thread

\* A reply task stores the copy it was answered for, and ends when it is stored.
Tracks(r) ==
  /\ ingest[r] # Idle => reply[r].pc = "taken" /\ ingest[r].msg = reply[r].copy
  /\ reply[r].pc \in {"taken"} \cup Ended => reply[r].copy \in Copy \cap there
  /\ reply[r].pc \in Ended => row[reply[r].copy] # None

CopiesOf(r) == {c \in Copy : made[c] # None /\ made[c].reply = r}

\* Unless an answer was lost, a task that still tries has delivered nothing.
Single(r) ==
  r \notin unclear => /\ reply[r].pc \in {"none", "asked"} => CopiesOf(r) = {}
                      /\ \A c, d \in CopiesOf(r) : c = d

IInv ==
  /\ Shape
  /\ Filed
  /\ \A i \in Ingester : Holds(i)
  /\ \A i, j \in Ingester : Apart(i, j)
  /\ \A r \in Reply : Tracks(r)
  /\ \A r \in Reply : Single(r)

------------------------------------------------------------------------------
(* Records.                                                                *)

LEMMA RowKinds ==
  ASSUME Shape
  PROVE  /\ \A m \in Message : m \in Stored <=> row[m] \in RowRecord
         /\ \A m \in Message : m \notin Stored <=> row[m] = None
         /\ \A t \in Thread : t \in Threads <=> thread[t] \in ThreadRecord
         /\ \A t \in Thread : t \notin Threads <=> thread[t] = None
         /\ \A c \in Copy : made[c] # None <=> made[c] \in CopyRecord
  BY DEF Shape, Stored, Threads, None, RowRecord, ThreadRecord, CopyRecord

LEMMA IngestKinds ==
  ASSUME Shape, NEW i \in Ingester
  PROVE  /\ ingest[i] = Idle <=> ingest[i].pc = "idle"
         /\ ingest[i].pc \in {"idle", "found", "written"}
         /\ ingest[i].pc = "found" => ingest[i] \in FoundRecord
         /\ Written(i) => ingest[i] \in WrittenRecord
  BY DEF Shape, Idle, FoundRecord, WrittenRecord, Written

LEMMA ReplyKinds ==
  ASSUME Shape, NEW r \in Reply
  PROVE  /\ reply[r].pc # "none" => reply[r] \in TaskRecord
         /\ reply[r].pc = "none" => reply[r] = [pc |-> "none"]
<1>1. reply[r] = [pc |-> "none"] \/ reply[r] \in TaskRecord
  BY DEF Shape
<1>2. \A x \in TaskRecord : x.pc # "none"
  BY DEF TaskRecord
<1> QED
  BY <1>1, <1>2

LEMMA NotAlone ==
  ASSUME NEW x \in WrittenRecord
  PROVE  LET y == [x EXCEPT !.alone = FALSE]
         IN  /\ y \in WrittenRecord /\ y.pc = "written" /\ ~y.alone
             /\ y.msg = x.msg /\ y.new = x.new /\ y.thread = x.thread
             /\ y.bounced = x.bounced /\ y.answered = x.answered
  BY DEF WrittenRecord

LEMMA Restatus ==
  ASSUME NEW x \in RowRecord, NEW s \in {"sent", "delivered", "replied", "bounced"}
  PROVE  LET y == [x EXCEPT !.status = s]
         IN  y \in RowRecord /\ y # None /\ y.thread = x.thread /\ y.status = s
  BY DEF RowRecord, None

LEMMA Repc ==
  ASSUME NEW x \in TaskRecord, NEW s \in {"asked", "taken", "filed", "done", "failed", "lost", "given up"}
  PROVE  LET y == [x EXCEPT !.pc = s]
         IN  y \in TaskRecord /\ y.pc = s /\ y.copy = x.copy /\ y.thread = x.thread
  BY DEF TaskRecord

LEMMA Retried ==
  ASSUME NEW x \in TaskRecord, NEW n \in Nat
  PROVE  LET y == [x EXCEPT !.tries = n]
         IN  y \in TaskRecord /\ y.pc = x.pc
  BY DEF TaskRecord

LEMMA Headers ==
  ASSUME Shape, Filed, NEW m \in there
  PROVE  /\ BouncesOf(m) \subseteq Message /\ ParentsOf(m) \subseteq Message
         /\ TopicOf(m) \in Topics /\ PartnerOf(m) \in Address
<1>1. CASE m \in Mail
  BY <1>1, BouncesAssumption DEF BouncesOf, ParentsOf, TopicOf, PartnerOf, Topics, Address, Message
<1>2. CASE m \notin Mail
  <2>1. m \in Copy /\ made[m] \in CopyRecord
    BY <1>2, RowKinds DEF Shape, Filed, Message
  <2> QED
    BY <1>2, <2>1 DEF BouncesOf, ParentsOf, TopicOf, PartnerOf, CopyRecord
<1> QED
  BY <1>1, <1>2

LEMMA FiniteMessages ==
  IsFiniteSet(Message) /\ \A S \in SUBSET Message : IsFiniteSet(S) /\ Cardinality(S) <= Cardinality(Message)
  BY FiniteAssumption, FS_Union, FS_Subset DEF Message

LEMMA RowsOfMessages == \A t : RowsOf(t) \subseteq Stored /\ Stored \subseteq Message
  BY DEF RowsOf, Stored

------------------------------------------------------------------------------
(* Initially.                                                              *)

LEMMA InitIInv == Init => IInv
<1> SUFFICES ASSUME Init
             PROVE  IInv
  OBVIOUS
<1> USE DEF Init
<1>1. Shape
  BY BoundsAssumption DEF Shape
<1>2. Stored = {} /\ \A r \in Reply : CopiesOf(r) = {}
  BY DEF Stored, CopiesOf
<1>3. Filed
  BY <1>2 DEF Filed
<1>4. \A i \in Ingester : ingest[i] = Idle /\ ~Written(i)
  BY DEF Idle, Written
<1>5. \A i \in Ingester : Holds(i)
  BY <1>4 DEF Holds
<1>6. \A i, j \in Ingester : Apart(i, j)
  BY <1>4 DEF Apart
<1>7. \A r \in Reply : Tracks(r)
  BY <1>4 DEF Tracks, Ended, Ingester
<1>8. \A r \in Reply : Single(r)
  BY <1>2 DEF Single
<1> QED
  BY <1>1, <1>3, <1>5, <1>6, <1>7, <1>8 DEF IInv

------------------------------------------------------------------------------
(* Steps that no transaction and no task takes.                            *)

\* Rows are neither made nor moved.
SameRows ==
  /\ \A m \in Message : row'[m] # None <=> row[m] # None
  /\ \A m \in Stored : row'[m].thread = row[m].thread

LEMMA SameRowsOf ==
  ASSUME SameRows
  PROVE  Stored' = Stored /\ \A t : RowsOf(t)' = RowsOf(t)
  BY DEF SameRows, Stored, RowsOf

LEMMA HoldsKept ==
  ASSUME NEW i \in Ingester, Holds(i), ingest'[i] = ingest[i], SameRows, Threads \subseteq Threads',
         there \subseteq there', ingest[i].msg \in Message
  PROVE  Holds(i)'
<1>1. Stored' = Stored /\ RowsOf(ingest[i].thread)' = RowsOf(ingest[i].thread)
  BY SameRowsOf
<1>2. (Written(i) <=> Written(i)') /\ BouncesOf(ingest[i].msg)' = BouncesOf(ingest[i].msg)
  BY DEF Written, BouncesOf
<1> QED
  BY <1>1, <1>2 DEF Holds, SameRows, BouncesOf

LEMMA HoldsIdle ==
  ASSUME NEW i, ingest'[i] = Idle
  PROVE  Holds(i)'
  BY DEF Holds, Written, Idle

LEMMA TracksKept ==
  ASSUME NEW r \in Reply, Tracks(r), reply'[r] = reply[r], there \subseteq there',
         ingest'[r] = ingest[r] \/ (ingest'[r] = Idle),
         \A m \in Message : row[m] # None => row'[m] # None
  PROVE  Tracks(r)'
  BY DEF Tracks, Ended, Message

LEMMA OtherSteps ==
  ASSUME IInv, UNCHANGED <<ingest, replyVars>>, SameRows, Threads \subseteq Threads',
         there \subseteq there', Shape', Filed'
  PROVE  IInv'
<1>1. \A i \in Ingester : Holds(i)'
  <2> SUFFICES ASSUME NEW i \in Ingester
               PROVE  Holds(i)'
    OBVIOUS
  <2>1. CASE ingest[i] = Idle
    BY <2>1 DEF Holds, Written, Idle
  <2>2. CASE ingest[i] # Idle
    <3>1. ingest[i].msg \in Message /\ Holds(i)
      BY <2>2 DEF IInv, Shape, Holds
    <3> QED
      BY <3>1, HoldsKept
  <2> QED
    BY <2>1, <2>2
<1>2. \A i, j \in Ingester : Apart(i, j)'
  BY DEF IInv, Apart, Written
<1>3. \A r \in Reply : Tracks(r)'
  <2> SUFFICES ASSUME NEW r \in Reply
               PROVE  Tracks(r)'
    OBVIOUS
  <2>1. Tracks(r) /\ reply' = reply /\ ingest' = ingest
    BY DEF IInv, replyVars
  <2>2. \A c \in Copy : c \in Message
    BY DEF Message
  <2>3. Ended' = Ended /\ Ended \subseteq {"filed", "done", "failed"}
    BY DEF Ended
  <2> QED
    BY <2>1, <2>2, <2>3 DEF Tracks, SameRows
<1>4. \A r \in Reply : Single(r)'
  BY DEF IInv, Single, CopiesOf, replyVars
<1> QED
  BY <1>1, <1>2, <1>3, <1>4 DEF IInv

LEMMA ReceiveIInv == ASSUME IInv, NEW m \in Mail, Receive(m) PROVE IInv'
<1> USE DEF Receive, storeVars, replyVars
<1>1. Shape'
  BY DEF IInv, Shape, Message
<1>2. Stored' = Stored /\ Threads' = Threads
  BY DEF Stored, Threads
<1>3. Filed'
  BY <1>2, IngesterAssumption DEF IInv, Filed
<1> QED
  BY <1>1, <1>2, <1>3, OtherSteps DEF SameRows

LEMMA ViewIInv == ASSUME IInv, NEW c \in Copy, View(c) PROVE IInv'
<1> USE DEF View, storeVars, replyVars
<1>1. Shape'
  BY DEF IInv, Shape
<1>2. Stored' = Stored /\ Threads' = Threads /\ c \in Stored
  BY DEF Stored, Threads, Message
<1>3. Filed'
  BY <1>2 DEF IInv, Filed
<1> QED
  BY <1>1, <1>2, <1>3, OtherSteps DEF SameRows

LEMMA MarkDeliveredIInv == ASSUME IInv, NEW c \in Copy, MarkDelivered(c) PROVE IInv'
<1> DEFINE new == [row[c] EXCEPT !.status = "delivered"]
<1>1. c \in Stored /\ c \in Message /\ row[c] \in RowRecord
  BY RowKinds DEF MarkDelivered, IInv, Filed, Stored
<1>2. new \in RowRecord /\ new # None /\ new.thread = row[c].thread
  BY <1>1, Restatus
<1>3. row' = [row EXCEPT ![c] = new] /\ UNCHANGED <<there, thread, unmatched, leads, ingest, replyVars>>
  BY DEF MarkDelivered
<1> HIDE DEF new
<1>4. SameRows
  BY <1>1, <1>2, <1>3 DEF SameRows, IInv, Shape, Stored
<1>5. Shape'
  BY <1>1, <1>2, <1>3 DEF IInv, Shape, MarkDelivered, replyVars
<1>6. Stored' = Stored /\ Threads' = Threads
  BY <1>3, <1>4, SameRowsOf DEF Threads
<1>7. Filed'
  BY <1>3, <1>4, <1>6 DEF IInv, Filed, SameRows, MarkDelivered, replyVars
<1> QED
  BY <1>3, <1>4, <1>5, <1>6, <1>7, OtherSteps

LEMMA IgnoreIInv == ASSUME IInv, NEW m \in Message, Ignore(m) PROVE IInv'
<1> USE DEF Ignore, replyVars
<1>1. Shape'
  BY DEF IInv, Shape
<1>2. Stored' = Stored /\ Threads' = Threads /\ m \in Stored
  BY DEF Stored, Threads, IInv, Filed
<1>3. Filed'
  BY <1>2 DEF IInv, Filed, Shape
<1> QED
  BY <1>1, <1>2, <1>3, OtherSteps DEF SameRows

LEMMA ConvertIInv == ASSUME IInv, NEW m \in Message, Convert(m) PROVE IInv'
<1> DEFINE t == row[m].thread
           new == [thread[t] EXCEPT !.lead = TRUE]
<1>1. m \in Stored /\ m \in there /\ t \in Threads /\ t \in Thread
  BY DEF Convert, IInv, Filed, Threads
<1>2. new \in ThreadRecord /\ new # None
  <2>1. thread[t] \in ThreadRecord
    BY <1>1, RowKinds DEF IInv
  <2> QED
    BY <2>1 DEF ThreadRecord, None
<1>3. /\ thread' = [thread EXCEPT ![t] = new]
      /\ leads' = [leads EXCEPT ![PartnerOf(m)] = @ + 1]
      /\ unmatched' = [unmatched EXCEPT ![m] = "closed"]
      /\ leads[PartnerOf(m)] < MaxLeads
      /\ UNCHANGED <<there, row, ingest, replyVars, viewed>>
  BY DEF Convert
<1> HIDE DEF new, t
<1>4. Stored' = Stored /\ Threads' = Threads
  BY <1>1, <1>2, <1>3 DEF Stored, Threads, IInv, Shape
<1>5. PartnerOf(m) \in Address
  BY <1>1, Headers DEF IInv
<1>6. leads' \in [Address -> 0..MaxLeads]
  BY <1>3, <1>5, BoundsAssumption DEF IInv, Shape
<1>7. Shape'
  BY <1>1, <1>2, <1>3, <1>6 DEF IInv, Shape, replyVars
<1>8. Filed'
  BY <1>1, <1>3, <1>4 DEF IInv, Filed, Shape, replyVars
<1> QED
  BY <1>3, <1>4, <1>7, <1>8, OtherSteps DEF SameRows

------------------------------------------------------------------------------
(* Steps of one transaction.                                               *)

\* The tasks and copies are unchanged, and so are the other transactions, but
\* for learning that they are not alone.
LEMMA LookupIInv ==
  ASSUME IInv, NEW i \in Ingester, NEW m \in there, NEW dir \in Direction, Found(i, m, dir),
         i \in Reply => reply[i].pc = "taken" /\ m = reply[i].copy,
         UNCHANGED <<there, storeVars, leads, replyVars, viewed>>
  PROVE  IInv'
<1> USE DEF storeVars, replyVars
<1>1. PICK x \in FoundRecord : /\ ingest' = [ingest EXCEPT ![i] = x] /\ x.msg = m
                               /\ x.new \/ x.thread \in Threads
  <2>0. m \in Message /\ (HasLead(m) \in BOOLEAN)
    BY DEF IInv, Shape, HasLead
  <2>1. CASE ThreadsFor(m) = {}
    <3> DEFINE x == [pc |-> "found", msg |-> m, dir |-> dir, new |-> TRUE, thread |-> "new",
                     match |-> HasLead(m), lead |-> HasLead(m)]
    <3>1. x \in FoundRecord
      BY <2>0 DEF FoundRecord
    <3>2. ingest' = [ingest EXCEPT ![i] = x]
      BY <2>1 DEF Found
    <3> QED
      BY <3>1, <3>2
  <2>2. ASSUME NEW t \in ThreadsFor(m),
               ingest' = [ingest EXCEPT ![i] =
                 [pc |-> "found", msg |-> m, dir |-> dir, new |-> FALSE, thread |-> t,
                  match |-> HasLead(m), lead |-> thread[t].lead \/ HasLead(m)]]
        PROVE  \E x \in FoundRecord : /\ ingest' = [ingest EXCEPT ![i] = x] /\ x.msg = m
                                      /\ x.new \/ x.thread \in Threads
    <3> DEFINE x == [pc |-> "found", msg |-> m, dir |-> dir, new |-> FALSE, thread |-> t,
                     match |-> HasLead(m), lead |-> thread[t].lead \/ HasLead(m)]
    <3>1. t \in Threads /\ t \in Thread
      BY DEF ThreadsFor, Referred, SameTopic, IInv, Filed, Threads
    <3>2. x \in FoundRecord
      BY <2>0, <3>1 DEF FoundRecord
    <3> QED
      BY <2>2, <3>1, <3>2
  <2> QED
    BY <2>1, <2>2 DEF Found
<1>2. ingest[i] = Idle /\ row[m] = None
  BY DEF Found
<1>3. Shape'
  BY <1>1 DEF IInv, Shape
<1>4. Stored' = Stored /\ Threads' = Threads /\ SameRows
  BY DEF Stored, Threads, SameRows
<1>5. Filed'
  BY <1>4 DEF IInv, Filed
<1>6. ingest'[i] = x /\ \A j \in Ingester : j # i => ingest'[j] = ingest[j]
  BY <1>1 DEF IInv, Shape
<1>7. x.pc = "found"
  BY DEF FoundRecord
<1>8. \A j \in Ingester : Holds(j)'
  <2> SUFFICES ASSUME NEW j \in Ingester
               PROVE  Holds(j)'
    OBVIOUS
  <2>1. CASE j = i
    BY <1>1, <1>4, <1>6, <1>7, <2>1 DEF Holds, Written
  <2>2. CASE j # i /\ ingest[j] = Idle
    BY <1>6, <2>2 DEF Holds, Written, Idle
  <2>3. CASE j # i /\ ingest[j] # Idle
    BY <1>4, <1>6, <2>3, HoldsKept DEF IInv, Holds, Shape
  <2> QED
    BY <2>1, <2>2, <2>3
<1>9. \A j, k \in Ingester : Apart(j, k)'
  BY <1>6, <1>7 DEF IInv, Apart, Written
<1>10. \A r \in Reply : Tracks(r)'
  <2> SUFFICES ASSUME NEW r \in Reply
               PROVE  Tracks(r)'
    OBVIOUS
  <2>1. Tracks(r) /\ r \in Ingester
    BY DEF IInv, Ingester
  <2>2. CASE r = i
    BY <1>1, <1>6, <2>1, <2>2 DEF Tracks, Ended
  <2>3. CASE r # i
    BY <1>6, <2>1, <2>3 DEF Tracks, Ended
  <2> QED
    BY <2>2, <2>3
<1>11. \A r \in Reply : Single(r)'
  BY DEF IInv, Single, CopiesOf
<1> QED
  BY <1>3, <1>5, <1>8, <1>9, <1>10, <1>11 DEF IInv

LEMMA SyncFindsIInv == ASSUME IInv, NEW i \in SyncRun, NEW m \in Message, SyncFinds(i, m) PROVE IInv'
  BY LookupIInv, IngesterAssumption DEF SyncFinds, Ingester, Direction

LEMMA ReplyFindsIInv == ASSUME IInv, NEW r \in Reply, ReplyFinds(r) PROVE IInv'
<1>1. reply[r].copy \in there
  BY DEF ReplyFinds, IInv, Tracks
<1> QED
  BY <1>1, LookupIInv DEF ReplyFinds, Ingester, Direction

\* A transaction ends without a row, and its task, if it is a reply's, with it.
LEMMA AbortIInv ==
  ASSUME IInv, NEW i \in Ingester, NEW s \in {"failed", "lost"},
         i \in Reply => reply[i].pc \in {"asked", "taken", "filed"},
         s = "failed" => ingest[i] # Idle /\ row[ingest[i].msg] # None,
         ingest' = [ingest EXCEPT ![i] = Idle],
         reply' = IF i \in Reply THEN [reply EXCEPT ![i].pc = s] ELSE reply,
         UNCHANGED <<there, storeVars, leads, made, unclear, viewed>>
  PROVE  IInv'
<1> USE DEF storeVars
<1>1. /\ ingest'[i] = Idle /\ Idle.pc = "idle"
      /\ \A j \in Ingester : j # i => ingest'[j] = ingest[j]
  BY DEF IInv, Shape, Idle
<1>2. \A r \in Reply : r # i => reply'[r] = reply[r]
  BY DEF IInv, Shape
<1>3. ASSUME i \in Reply
      PROVE  reply'[i] \in TaskRecord /\ reply'[i].pc = s /\ reply'[i].copy = reply[i].copy
  <2> DEFINE old == reply[i]
             new == [old EXCEPT !.pc = s]
  <2>0. s \in {"asked", "taken", "filed", "done", "failed", "lost", "given up"}
    OBVIOUS
  <2>1. old \in TaskRecord
    BY <1>3, ReplyKinds DEF IInv
  <2>2. reply'[i] = new
    BY <1>3 DEF IInv, Shape
  <2> HIDE DEF old
  <2>3. new \in TaskRecord /\ new.pc = s /\ new.copy = old.copy
    BY <2>0, <2>1, Repc
  <2> HIDE DEF new
  <2>4. reply'[i] \in TaskRecord /\ reply'[i].pc = s /\ reply'[i].copy = old.copy
    BY <2>2, <2>3
  <2> QED
    BY <2>4 DEF old
<1>4. reply' \in [Reply -> {[pc |-> "none"]} \cup TaskRecord]
  <2>1. reply' = [r \in Reply |-> reply'[r]]
    BY DEF IInv, Shape
  <2> QED
    BY <1>2, <1>3, <2>1 DEF IInv, Shape
<1>5. Shape'
  BY <1>4 DEF IInv, Shape
<1>6. Stored' = Stored /\ Threads' = Threads /\ SameRows
  BY DEF Stored, Threads, SameRows
<1>7. Filed'
  BY <1>6 DEF IInv, Filed
<1>8. \A j \in Ingester : Holds(j)'
  <2> SUFFICES ASSUME NEW j \in Ingester
               PROVE  Holds(j)'
    OBVIOUS
  <2>1. CASE ingest'[j] = Idle
    BY <1>1, <2>1 DEF Holds, Written
  <2>2. CASE ingest'[j] # Idle
    BY <1>1, <1>6, <2>2, HoldsKept DEF IInv, Holds, Shape
  <2> QED
    BY <2>1, <2>2
<1>9. \A j, k \in Ingester : Apart(j, k)'
  BY <1>1 DEF IInv, Apart, Written
<1>10. \A r \in Reply : Tracks(r)'
  <2> SUFFICES ASSUME NEW r \in Reply
               PROVE  Tracks(r)'
    OBVIOUS
  <2>1. Tracks(r) /\ r \in Ingester
    BY DEF IInv, Ingester
  <2>2. CASE r = i
    BY <1>1, <1>3, <2>1, <2>2 DEF Tracks, Ended
  <2>3. CASE r # i
    BY <1>1, <1>2, <2>1, <2>3 DEF Tracks, Ended
  <2> QED
    BY <2>2, <2>3
<1>11. \A r \in Reply : Single(r)'
  <2> SUFFICES ASSUME NEW r \in Reply
               PROVE  Single(r)'
    OBVIOUS
  <2>1. Single(r) /\ CopiesOf(r)' = CopiesOf(r)
    BY DEF IInv, CopiesOf
  <2> QED
    BY <1>2, <1>3, <2>1 DEF Single
<1> QED
  BY <1>5, <1>7, <1>8, <1>9, <1>10, <1>11 DEF IInv

LEMMA ConflictIInv == ASSUME IInv, NEW i \in Ingester, Conflict(i) PROVE IInv'
<1>1. ingest[i] # Idle
  BY DEF Conflict, Idle
<1>2. i \in Reply => reply[i].pc = "taken"
  BY <1>1 DEF IInv, Tracks
<1> QED
  BY <1>1, <1>2, AbortIInv DEF Conflict

LEMMA DieIInv == ASSUME IInv, NEW i \in Ingester, Die(i) PROVE IInv'
<1>1. i \in Reply => reply[i].pc \in {"asked", "taken", "filed"}
  BY IngesterAssumption DEF Die
<1> QED
  BY <1>1, AbortIInv DEF Die

\* Adding a row that the thread lacks makes the count exact.
LEMMA OneMoreRow ==
  ASSUME NEW t, NEW m \in Message \ Stored
  PROVE  /\ Cardinality(RowsOf(t)) + 1 \in 1..Cardinality(Message)
         /\ Cardinality(RowsOf(t) \cup {m}) = Cardinality(RowsOf(t)) + 1
<1>1. RowsOf(t) \subseteq Message /\ m \notin RowsOf(t) /\ RowsOf(t) \cup {m} \in SUBSET Message
  BY RowsOfMessages
<1>2. IsFiniteSet(RowsOf(t)) /\ IsFiniteSet(Message)
  BY <1>1, FiniteMessages
<1>3. Cardinality(RowsOf(t) \cup {m}) = Cardinality(RowsOf(t)) + 1
  BY <1>1, <1>2, FS_AddElement
<1>4. Cardinality(RowsOf(t) \cup {m}) <= Cardinality(Message)
  BY <1>1, FiniteMessages
<1>5. Cardinality(RowsOf(t)) \in Nat /\ Cardinality(Message) \in Nat
  BY <1>2, FS_CardinalityType
<1> QED
  BY <1>3, <1>4, <1>5

\* What the writer knows, and what the others learn.
LEMMA CountedFields ==
  ASSUME IInv, NEW i \in Ingester, NEW t \in Thread, NEW n \in 1..Cardinality(Message),
         ingest[i] \in FoundRecord, ingest' = Counted(i, t, n)
  PROVE  /\ ingest' \in [Ingester -> {Idle} \cup FoundRecord \cup WrittenRecord]
         /\ /\ ingest'[i] \in WrittenRecord /\ ingest'[i].msg = ingest[i].msg
            /\ ingest'[i].new = ingest[i].new /\ ingest'[i].thread = t /\ ingest'[i].count = n
            /\ ingest'[i].bounced = Bounced(ingest[i].msg, ingest[i].dir)
            /\ ingest'[i].answered = Answered(ingest[i].msg, ingest[i].dir, t)
            /\ ingest'[i].alone => \A k \in Ingester : Written(k) => ingest[k].thread # t
         /\ \A j \in Ingester \ {i} :
              IF Written(j) /\ ingest[j].thread = t
              THEN ingest'[j] = [ingest[j] EXCEPT !.alone = FALSE]
              ELSE ingest'[j] = ingest[j]
<1> DEFINE x == ingest[i]
           w == [pc |-> "written", msg |-> x.msg, dir |-> x.dir, new |-> x.new, thread |-> t,
                 match |-> x.match, lead |-> x.lead, count |-> n,
                 bounced |-> Bounced(x.msg, x.dir), answered |-> Answered(x.msg, x.dir, t),
                 alone |-> \A k \in Ingester : ~(Written(k) /\ ingest[k].thread = t)]
<1>1. ingest'[i] = w
  BY DEF Counted
<1>2. \A j \in Ingester \ {i} :
        IF Written(j) /\ ingest[j].thread = t
        THEN ingest'[j] = [ingest[j] EXCEPT !.alone = FALSE]
        ELSE ingest'[j] = ingest[j]
  BY DEF Counted
<1>3. w \in WrittenRecord
  <2>1. Stored \subseteq Message
    BY RowsOfMessages
  <2>2. Bounced(x.msg, x.dir) \subseteq Message
    BY <2>1 DEF Bounced
  <2>3. Answered(x.msg, x.dir, t) \subseteq Message
    BY <2>1, RowsOfMessages DEF Answered, Outbound
  <2>4. (\A k \in Ingester : ~(Written(k) /\ ingest[k].thread = t)) \in BOOLEAN
    OBVIOUS
  <2>5. /\ x.msg \in Message /\ x.dir \in Direction /\ x.new \in BOOLEAN
        /\ x.match \in BOOLEAN /\ x.lead \in BOOLEAN
    BY DEF FoundRecord
  <2> HIDE DEF x
  <2> QED
    BY <2>2, <2>3, <2>4, <2>5 DEF WrittenRecord
<1>4. ingest' = [j \in Ingester |-> ingest'[j]]
  BY DEF Counted
<1>5. \A j \in Ingester : ingest'[j] \in {Idle} \cup FoundRecord \cup WrittenRecord
  <2> SUFFICES ASSUME NEW j \in Ingester
               PROVE  ingest'[j] \in {Idle} \cup FoundRecord \cup WrittenRecord
    OBVIOUS
  <2>1. CASE j = i
    BY <1>1, <1>3, <2>1
  <2>2. CASE j # i /\ Written(j) /\ ingest[j].thread = t
    BY <1>2, <2>2, IngestKinds, NotAlone DEF IInv
  <2>3. CASE j # i /\ ~(Written(j) /\ ingest[j].thread = t)
    BY <1>2, <2>3 DEF IInv, Shape
  <2> QED
    BY <2>1, <2>2, <2>3
<1>6. w.alone => \A k \in Ingester : Written(k) => ingest[k].thread # t
  OBVIOUS
<1> QED
  BY <1>1, <1>2, <1>3, <1>4, <1>5, <1>6

LEMMA WriteIInv == ASSUME IInv, NEW i \in Ingester, Write(i) PROVE IInv'
<1> DEFINE m == ingest[i].msg
<1>1. PICK t \in Thread : /\ MayWrite(i, t)
                          /\ ingest' = Counted(i, t, Cardinality(RowsOf(t)) + 1)
  BY DEF Write
<1>2. /\ ingest[i].pc = "found" /\ row[m] = None /\ (ingest[i].new \/ t = ingest[i].thread)
      /\ \A j \in Ingester : Written(j) => ingest[j].msg # m
      /\ UNCHANGED <<there, storeVars, leads, replyVars, viewed>>
  BY <1>1 DEF MayWrite, Write
<1>3. /\ ingest[i] \in FoundRecord /\ ingest[i] # Idle /\ m \in Message \ Stored
  BY <1>2, IngestKinds DEF IInv, FoundRecord, Stored, Idle
<1>4. Cardinality(RowsOf(t)) + 1 \in 1..Cardinality(Message)
  BY <1>3, OneMoreRow
<1>5. /\ ingest' \in [Ingester -> {Idle} \cup FoundRecord \cup WrittenRecord]
      /\ /\ ingest'[i] \in WrittenRecord /\ ingest'[i].msg = m
         /\ ingest'[i].new = ingest[i].new /\ ingest'[i].thread = t
         /\ ingest'[i].count = Cardinality(RowsOf(t)) + 1
         /\ ingest'[i].bounced = Bounced(m, ingest[i].dir)
         /\ ingest'[i].answered = Answered(m, ingest[i].dir, t)
         /\ ingest'[i].alone => \A k \in Ingester : Written(k) => ingest[k].thread # t
      /\ \A j \in Ingester \ {i} :
           IF Written(j) /\ ingest[j].thread = t
           THEN ingest'[j] = [ingest[j] EXCEPT !.alone = FALSE]
           ELSE ingest'[j] = ingest[j]
  BY <1>1, <1>3, <1>4, CountedFields
<1>6. SameRows /\ Stored' = Stored /\ Threads' = Threads /\ \A s : RowsOf(s)' = RowsOf(s)
  BY <1>2 DEF SameRows, Stored, Threads, RowsOf, storeVars
\* What the others learn changes nothing else.
<1>7. \A j \in Ingester \ {i} :
        /\ ingest'[j] = Idle <=> ingest[j] = Idle
        /\ Written(j)' <=> Written(j)
        /\ ingest'[j].msg = ingest[j].msg
        /\ Written(j) => ingest'[j].thread = ingest[j].thread
        /\ Written(j) /\ ingest'[j].alone => ingest[j].alone /\ ingest[j].thread # t
  <2> SUFFICES ASSUME NEW j \in Ingester \ {i}
               PROVE  /\ ingest'[j] = Idle <=> ingest[j] = Idle
                      /\ Written(j)' <=> Written(j)
                      /\ ingest'[j].msg = ingest[j].msg
                      /\ Written(j) => ingest'[j].thread = ingest[j].thread
                      /\ Written(j) /\ ingest'[j].alone => ingest[j].alone /\ ingest[j].thread # t
    OBVIOUS
  <2>1. CASE Written(j) /\ ingest[j].thread = t
    <3> DEFINE y == [ingest[j] EXCEPT !.alone = FALSE]
    <3>1. ingest[j] \in WrittenRecord
      BY <2>1, IngestKinds DEF IInv
    <3>2. /\ y.pc = "written" /\ ~y.alone /\ y.msg = ingest[j].msg /\ y.thread = ingest[j].thread
      BY <3>1, NotAlone
    <3>3. ingest'[j] = y
      BY <1>5, <2>1
    <3> HIDE DEF y
    <3> QED
      BY <2>1, <3>2, <3>3 DEF Written, Idle
  <2>2. CASE ~(Written(j) /\ ingest[j].thread = t)
    BY <1>5, <2>2 DEF Written
  <2> QED
    BY <2>1, <2>2
<1>8. Written(i)' /\ ingest'[i] # Idle
  BY <1>5 DEF Written, WrittenRecord, Idle
<1>9. \A j \in Ingester : Holds(j)'
  <2> SUFFICES ASSUME NEW j \in Ingester
               PROVE  Holds(j)'
    OBVIOUS
  <2>1. CASE j = i
    <3>1. m \in there /\ (ingest[i].new \/ t \in Threads)
      BY <1>2, <1>3 DEF IInv, Holds
    <3>2. Bounced(m, ingest[i].dir) \cup Answered(m, ingest[i].dir, t) \subseteq Stored
      BY RowsOfMessages DEF Bounced, Answered, Outbound
    <3>3. Answered(m, ingest[i].dir, t) \cap BouncesOf(m) = {}
      BY RowsOfMessages DEF Bounced, Answered, Outbound
    <3>4. /\ there' = there /\ row' = row
      BY <1>2 DEF storeVars
    <3> HIDE DEF m
    <3>5. BouncesOf(ingest[i].msg)' = BouncesOf(m)
      BY <1>5, <2>1 DEF BouncesOf
    <3> QED
      BY <1>2, <1>5, <1>6, <1>8, <2>1, <3>1, <3>2, <3>3, <3>4, <3>5 DEF Holds
  <2>2. CASE j # i /\ ~(Written(j) /\ ingest[j].thread = t) /\ ingest[j] # Idle
    <3>1. Holds(j) /\ ingest[j].msg \in Message
      BY <2>2 DEF IInv, Holds, Shape
    <3>2. ingest'[j] = ingest[j] /\ there' = there
      BY <1>2, <1>5, <2>2
    <3> QED
      BY <1>6, <3>1, <3>2, HoldsKept
  <2>3. CASE j # i /\ ingest[j] = Idle
    BY <1>7, <2>3 DEF Holds, Written, Idle
  <2>4. CASE j # i /\ Written(j) /\ ingest[j].thread = t
    <3> DEFINE y == [ingest[j] EXCEPT !.alone = FALSE]
    <3>1. ingest[j] \in WrittenRecord /\ Holds(j)
      BY <2>4, IngestKinds DEF IInv
    <3>2. /\ y.pc = "written" /\ ~y.alone /\ y.msg = ingest[j].msg /\ y.new = ingest[j].new
          /\ y.thread = ingest[j].thread /\ y.bounced = ingest[j].bounced
          /\ y.answered = ingest[j].answered
      BY <3>1, NotAlone
    <3>3. ingest'[j] = y /\ there' = there /\ row' = row
      BY <1>2, <1>5, <2>4 DEF storeVars
    <3> HIDE DEF y
    <3>4. BouncesOf(ingest[j].msg)' = BouncesOf(ingest[j].msg)
      BY <3>2, <3>3 DEF BouncesOf
    <3>5. ingest[j] # Idle
      BY <2>4 DEF Written, Idle
    <3> QED
      BY <1>6, <2>4, <3>1, <3>2, <3>3, <3>4, <3>5 DEF Holds
  <2> QED
    BY <2>1, <2>2, <2>3, <2>4
<1>10. \A j, k \in Ingester : Apart(j, k)'
  <2> SUFFICES ASSUME NEW j \in Ingester, NEW k \in Ingester, Written(j)', Written(k)', j # k
               PROVE  /\ ingest'[j].msg # ingest'[k].msg
                      /\ ingest'[j].alone => ingest'[j].thread # ingest'[k].thread
    BY DEF Apart
  <2>1. CASE j = i
    BY <1>2, <1>5, <1>7, <2>1
  <2>2. CASE k = i
    BY <1>2, <1>5, <1>7, <2>2
  <2>3. CASE j # i /\ k # i
    BY <1>7, <2>3 DEF IInv, Apart
  <2> QED
    BY <2>1, <2>2, <2>3
<1>11. Shape'
  BY <1>2, <1>5 DEF IInv, Shape, storeVars, replyVars
<1>12. Filed'
  BY <1>2, <1>6 DEF IInv, Filed, storeVars, replyVars
<1>13. \A r \in Reply : Tracks(r)'
  <2> SUFFICES ASSUME NEW r \in Reply
               PROVE  Tracks(r)'
    OBVIOUS
  <2>1. Tracks(r) /\ r \in Ingester /\ reply' = reply /\ row' = row /\ there' = there
    BY <1>2 DEF IInv, Ingester, storeVars, replyVars
  <2>2. (ingest'[r] = Idle <=> ingest[r] = Idle) /\ ingest'[r].msg = ingest[r].msg
    BY <1>3, <1>5, <1>7, <1>8, <2>1
  <2> QED
    BY <2>1, <2>2 DEF Tracks, Ended
<1>14. \A r \in Reply : Single(r)'
  BY <1>2 DEF IInv, Single, CopiesOf, replyVars
<1> QED
  BY <1>9, <1>10, <1>11, <1>12, <1>13, <1>14 DEF IInv

Recounted(old, lead, n) == [old EXCEPT !.lead = lead, !.count = n]

LEMMA Recount ==
  ASSUME NEW old \in [kind : {"thread"}, topic : Topics, lead : BOOLEAN, count : Nat],
         NEW lead \in BOOLEAN, NEW n \in 1..Cardinality(Message)
  PROVE  /\ Recounted(old, lead, n) \in ThreadRecord /\ Recounted(old, lead, n) # None
         /\ Recounted(old, lead, n).count = n
  BY DEF ThreadRecord, None, Recounted

\* What a commit does to the store.
LEMMA CommitFields ==
  ASSUME IInv, NEW i \in Ingester, Commit(i)
  PROVE  /\ row' \in [Message -> {None} \cup RowRecord]
         /\ thread' \in [Thread -> {None} \cup ThreadRecord]
         /\ ingest[i] \in WrittenRecord
         /\ Stored' = Stored \cup {ingest[i].msg}
         /\ Threads' = Threads \cup {ingest[i].thread}
         /\ \A m \in Stored : /\ row'[m].thread = row[m].thread
                              /\ m \in ingest[i].bounced => row'[m].status = "bounced"
                              /\ m \notin ingest[i].bounced \cup ingest[i].answered => row'[m] = row[m]
         /\ row'[ingest[i].msg].thread = ingest[i].thread
         /\ thread'[ingest[i].thread].count = ingest[i].count
<1> DEFINE x == ingest[i]
           old == IF x.new THEN ThreadRow(TopicOf(x.msg), x.lead) ELSE thread[x.thread]
           new == Recounted(old, x.lead, x.count)
           mine == Row(x.thread, x.dir, ParentsOf(x.msg))
           RowFor(m) == IF m = x.msg THEN mine
                        ELSE IF m \in x.bounced THEN [row[m] EXCEPT !.status = "bounced"]
                        ELSE IF m \in x.answered THEN [row[m] EXCEPT !.status = "replied"]
                        ELSE row[m]
<1>1. Written(i) /\ row' = [m \in Message |-> RowFor(m)] /\ thread' = [thread EXCEPT ![x.thread] = new]
  BY DEF Commit, Recounted
<1>2. x \in WrittenRecord /\ x # Idle
  BY <1>1, IngestKinds DEF IInv, Written, Idle
<1>3. /\ x.msg \in Message /\ x.thread \in Thread /\ x.dir \in Direction /\ x.lead \in BOOLEAN
      /\ x.count \in 1..Cardinality(Message)
  BY <1>2 DEF WrittenRecord
<1>4. /\ x.msg \in there /\ (x.new \/ x.thread \in Threads)
      /\ row[x.msg] = None /\ x.bounced \cup x.answered \subseteq Stored
  BY <1>1, <1>2 DEF IInv, Holds
<1>5. TopicOf(x.msg) \in Topics /\ ParentsOf(x.msg) \subseteq Message
  BY <1>4, Headers DEF IInv
<1>6. new \in ThreadRecord /\ new # None /\ new.count = x.count
  <2>1. CASE x.new
    <3>1. old = ThreadRow(TopicOf(x.msg), x.lead)
      BY <2>1
    <3> HIDE DEF x
    <3>2. old \in [kind : {"thread"}, topic : Topics, lead : BOOLEAN, count : Nat]
      BY <1>3, <1>5, <3>1 DEF ThreadRow
    <3> HIDE DEF old, mine, RowFor
    <3> QED
      BY <1>3, <3>2, Recount
  <2>2. CASE ~x.new
    <3>1. old = thread[x.thread] /\ x.thread \in Threads
      BY <1>4, <2>2
    <3> HIDE DEF x
    <3>2. thread[x.thread] \in ThreadRecord
      BY <1>3, <3>1, RowKinds DEF IInv
    <3>3. old \in [kind : {"thread"}, topic : Topics, lead : BOOLEAN, count : Nat]
      BY <3>1, <3>2 DEF ThreadRecord
    <3> HIDE DEF old, mine, RowFor
    <3> QED
      BY <1>3, <3>3, Recount
  <2> QED
    BY <2>1, <2>2
<1>7. mine \in RowRecord /\ mine # None /\ mine.thread = x.thread
  <2> HIDE DEF x
  <2> QED
    BY <1>3, <1>5 DEF Row, RowRecord, None
<1>8. ASSUME NEW m \in Stored
      PROVE  /\ m # x.msg /\ RowFor(m) \in RowRecord /\ RowFor(m) # None
             /\ RowFor(m).thread = row[m].thread
             /\ m \in x.bounced => RowFor(m).status = "bounced"
             /\ m \notin x.bounced \cup x.answered => RowFor(m) = row[m]
  <2>1. m \in Message /\ row[m] \in RowRecord /\ row[m] # None
    BY <1>8, RowKinds DEF IInv, Stored
  <2>2. m # x.msg
    BY <1>4, <2>1
  <2> HIDE DEF x, mine
  <2>3. CASE m \in x.bounced
    <3> DEFINE y == [row[m] EXCEPT !.status = "bounced"]
    <3>1. y \in RowRecord /\ y # None /\ y.thread = row[m].thread /\ y.status = "bounced"
      BY <2>1, Restatus
    <3>2. RowFor(m) = y
      BY <2>2, <2>3
    <3> HIDE DEF y, RowFor
    <3> QED
      BY <2>2, <2>3, <3>1, <3>2
  <2>4. CASE m \notin x.bounced /\ m \in x.answered
    <3> DEFINE y == [row[m] EXCEPT !.status = "replied"]
    <3>1. y \in RowRecord /\ y # None /\ y.thread = row[m].thread
      BY <2>1, Restatus
    <3>2. RowFor(m) = y
      BY <2>2, <2>4
    <3> HIDE DEF y, RowFor
    <3> QED
      BY <2>2, <2>4, <3>1, <3>2
  <2>5. CASE m \notin x.bounced /\ m \notin x.answered
    BY <2>1, <2>2, <2>5
  <2> QED
    BY <2>3, <2>4, <2>5
<1>9. \A m \in Message \ Stored : m # x.msg => RowFor(m) = None
  BY <1>4, RowKinds DEF IInv
<1>10. RowFor(x.msg) = mine
  OBVIOUS
<1> HIDE DEF x, new, mine, RowFor
<1>11. Stored \subseteq Message
  BY RowsOfMessages
<1>12. row' \in [Message -> {None} \cup RowRecord]
  <2>1. \A m \in Message : RowFor(m) \in {None} \cup RowRecord
    BY <1>7, <1>8, <1>9, <1>10
  <2> QED
    BY <1>1, <2>1
<1>13. thread' \in [Thread -> {None} \cup ThreadRecord]
  BY <1>1, <1>6 DEF IInv, Shape
<1>14. Stored' = Stored \cup {x.msg}
  BY <1>1, <1>3, <1>7, <1>8, <1>9, <1>10, <1>11 DEF Stored
<1>15. Threads' = Threads \cup {x.thread} /\ thread'[x.thread].count = x.count
  BY <1>1, <1>3, <1>6 DEF Threads, IInv, Shape
<1>16. \A m \in Stored : /\ row'[m].thread = row[m].thread
                         /\ m \in x.bounced => row'[m].status = "bounced"
                         /\ m \notin x.bounced \cup x.answered => row'[m] = row[m]
  BY <1>1, <1>8, <1>11
<1>17. row'[x.msg].thread = x.thread
  BY <1>1, <1>3, <1>7, <1>10
<1> QED
  BY <1>2, <1>12, <1>13, <1>14, <1>15, <1>16, <1>17 DEF x

\* The committed row joins its thread, and the other threads keep theirs.
LEMMA CommitRows ==
  ASSUME IInv, NEW i \in Ingester, Commit(i), NEW s
  PROVE  RowsOf(s)' = IF s = ingest[i].thread THEN RowsOf(s) \cup {ingest[i].msg} ELSE RowsOf(s)
<1>1. ingest[i].msg \notin Stored
  BY RowKinds, IngestKinds DEF Commit, IInv, Holds, WrittenRecord
<1> QED
  BY <1>1, CommitFields DEF RowsOf

LEMMA CommitIInv == ASSUME IInv, NEW i \in Ingester, Commit(i) PROVE IInv'
<1> DEFINE msg == ingest[i].msg
           at == ingest[i].thread
<1>1. /\ Written(i) /\ ingest' = [ingest EXCEPT ![i] = Idle]
      /\ reply' = IF i \in Reply THEN [reply EXCEPT ![i].pc = "filed"] ELSE reply
      /\ unmatched' = unmatched \/ unmatched' = [unmatched EXCEPT ![msg] = "open"]
      /\ UNCHANGED <<there, leads, made, unclear, viewed>>
  BY DEF Commit
<1>2. /\ row' \in [Message -> {None} \cup RowRecord]
      /\ thread' \in [Thread -> {None} \cup ThreadRecord]
      /\ ingest[i] \in WrittenRecord
      /\ Stored' = Stored \cup {msg}
      /\ Threads' = Threads \cup {at}
      /\ \A m \in Stored : row'[m].thread = row[m].thread
      /\ row'[msg].thread = at
  BY CommitFields
<1>3. /\ ingest[i] # Idle /\ msg \in Message /\ msg \in there /\ Holds(i)
  BY <1>1, <1>2 DEF IInv, Holds, WrittenRecord, Idle
<1>4. /\ ingest'[i] = Idle /\ Idle.pc = "idle"
      /\ \A j \in Ingester : j # i => ingest'[j] = ingest[j]
  BY <1>1 DEF IInv, Shape, Idle
<1>5. \A r \in Reply : r # i => reply'[r] = reply[r]
  BY <1>1 DEF IInv, Shape
<1>6. ASSUME i \in Reply
      PROVE  /\ reply'[i] \in TaskRecord /\ reply'[i].pc = "filed"
             /\ reply'[i].copy = msg /\ msg \in Copy
  <2> DEFINE old == reply[i]
             new == [old EXCEPT !.pc = "filed"]
  <2>1. old.pc = "taken" /\ old.copy = msg /\ msg \in Copy
    BY <1>3, <1>6 DEF IInv, Tracks
  <2>2. old \in TaskRecord
    BY <1>6, <2>1, ReplyKinds DEF IInv
  <2>3. reply'[i] = new
    BY <1>1, <1>6 DEF IInv, Shape
  <2> HIDE DEF old, msg
  <2>4. new \in TaskRecord /\ new.pc = "filed" /\ new.copy = old.copy
    BY <2>2, Repc
  <2> HIDE DEF new
  <2> QED
    BY <2>1, <2>3, <2>4
<1> HIDE DEF msg, at
<1>7. reply' \in [Reply -> {[pc |-> "none"]} \cup TaskRecord]
  <2>1. reply' = [r \in Reply |-> reply'[r]]
    BY <1>1 DEF IInv, Shape
  <2> QED
    BY <1>5, <1>6, <2>1 DEF IInv, Shape
<1>8. Shape'
  BY <1>1, <1>2, <1>7 DEF IInv, Shape
<1>9. Filed'
  <2>1. \A m \in Message : unmatched'[m] # "none" => m \in Stored \/ m = msg
    BY <1>1, <1>3 DEF IInv, Filed, Shape
  <2> QED
    BY <1>1, <1>2, <1>3, <2>1 DEF IInv, Filed
<1>10. \A m \in Message : m \in Stored <=> row[m] # None
  BY DEF Stored
<1>11. \A m \in Message : row'[m] # None <=> row[m] # None \/ m = msg
  <2>1. \A m \in Message : m \in Stored' <=> row'[m] # None
    BY DEF Stored
  <2> QED
    BY <1>2, <1>10, <2>1
<1>12. ASSUME NEW j \in Ingester
       PROVE  Holds(j)'
  <2>1. CASE j = i
    BY <1>4, <2>1 DEF Holds, Written
  <2>2. CASE j # i
    <3>1. ingest'[j] = ingest[j] /\ Holds(j) /\ (Written(j)' <=> Written(j))
      BY <1>4, <2>2 DEF IInv, Written
    <3>2. ASSUME Written(j)
          PROVE  /\ ingest[j].msg \in Message /\ ingest[j].msg # msg
                 /\ ingest[j].alone => ingest[j].thread # at
      BY <1>1, <2>2, <3>2, IngestKinds DEF IInv, Apart, msg, at, WrittenRecord
    <3>3. \A s : s # at => RowsOf(s)' = RowsOf(s)
      BY CommitRows DEF at
    <3>4. BouncesOf(ingest[j].msg)' = BouncesOf(ingest[j].msg)
      BY <3>1 DEF BouncesOf
    <3>5. ASSUME Written(j), ingest[j].alone
          PROVE  RowsOf(ingest[j].thread)' = RowsOf(ingest[j].thread)
      <4>1. \A s : s = ingest[j].thread => RowsOf(s)' = RowsOf(s)
        BY <3>2, <3>3, <3>5
      <4> QED
        BY <3>1, <4>1 DEF RowsOf
    <3> QED
      BY <1>1, <1>2, <1>11, <3>1, <3>2, <3>4, <3>5 DEF Holds
  <2> QED
    BY <2>1, <2>2
<1>13. \A j, k \in Ingester : Apart(j, k)'
  BY <1>4 DEF IInv, Apart, Written
<1>14. ASSUME NEW r \in Reply
       PROVE  Tracks(r)'
  <2>1. Tracks(r) /\ r \in Ingester /\ Copy \subseteq Message
    BY DEF IInv, Ingester, Message
  <2>2. CASE r = i
    BY <1>1, <1>3, <1>4, <1>6, <1>11, <2>2 DEF Tracks, Ended
  <2>3. CASE r # i
    BY <1>1, <1>4, <1>5, <1>11, <2>1, <2>3 DEF Tracks, Ended
  <2> QED
    BY <2>2, <2>3
<1>15. ASSUME NEW r \in Reply
       PROVE  Single(r)'
  <2>1. Single(r) /\ CopiesOf(r)' = CopiesOf(r) /\ unclear' = unclear
    BY <1>1 DEF IInv, CopiesOf
  <2>2. reply'[r].pc = reply[r].pc \/ reply'[r].pc = "filed"
    BY <1>5, <1>6
  <2> QED
    BY <2>1, <2>2 DEF Single
<1> QED
  BY <1>8, <1>9, <1>12, <1>13, <1>14, <1>15 DEF IInv

------------------------------------------------------------------------------
(* Steps of a reply task.                                                  *)

\* A step that changes one task, makes no copy and leaves the store alone.
LEMMA TaskIInv ==
  ASSUME IInv, NEW r \in Reply, NEW x \in TaskRecord, reply' = [reply EXCEPT ![r] = x],
         UNCHANGED <<there, storeVars, leads, ingest, made, unclear, viewed>>,
         ingest[r] = Idle,
         x.pc \in {"taken"} \cup Ended => /\ reply[r].pc \in {"taken"} \cup Ended
                                          /\ x.copy = reply[r].copy,
         x.pc \in Ended => row[x.copy] # None,
         x.pc = "asked" => reply[r].pc \in {"none", "asked"}
  PROVE  IInv'
<1> USE DEF storeVars
<1>1. reply'[r] = x /\ \A s \in Reply : s # r => reply'[s] = reply[s]
  BY DEF IInv, Shape
<1>2. Shape'
  BY DEF IInv, Shape
<1>3. Stored' = Stored /\ Threads' = Threads /\ SameRows
  BY DEF Stored, Threads, SameRows
<1>4. Filed'
  BY <1>3 DEF IInv, Filed
<1>5. \A j \in Ingester : Holds(j)'
  <2> SUFFICES ASSUME NEW j \in Ingester
               PROVE  Holds(j)'
    OBVIOUS
  <2>1. CASE ingest[j] = Idle
    BY <2>1 DEF Holds, Written, Idle
  <2>2. CASE ingest[j] # Idle
    BY <1>3, <2>2, HoldsKept DEF IInv, Holds, Shape
  <2> QED
    BY <2>1, <2>2
<1>6. \A j, k \in Ingester : Apart(j, k)'
  BY DEF IInv, Apart, Written
<1>7. ASSUME NEW s \in Reply
      PROVE  Tracks(s)'
  <2>1. Tracks(s)
    BY DEF IInv
  <2>2. CASE s = r
    BY <1>1, <2>1, <2>2 DEF Tracks, Ended
  <2>3. CASE s # r
    BY <1>1, <2>1, <2>3 DEF Tracks, Ended
  <2> QED
    BY <2>2, <2>3
<1>8. ASSUME NEW s \in Reply
      PROVE  Single(s)'
  <2>1. Single(s) /\ CopiesOf(s)' = CopiesOf(s)
    BY DEF IInv, CopiesOf
  <2>2. x.pc # "none"
    BY DEF TaskRecord
  <2> QED
    BY <1>1, <2>1, <2>2 DEF Single
<1> QED
  BY <1>2, <1>4, <1>5, <1>6, <1>7, <1>8 DEF IInv

\* A task that is asked for has no transaction.
LEMMA NoTransaction ==
  ASSUME IInv, NEW r \in Reply, reply[r].pc # "taken"
  PROVE  ingest[r] = Idle
  BY DEF IInv, Tracks

LEMMA AskIInv == ASSUME IInv, NEW r \in Reply, NEW t \in Thread, Ask(r, t) PROVE IInv'
<1> DEFINE x == [pc |-> "asked", thread |-> t, tries |-> 1, copy |-> "none"]
<1>1. x \in TaskRecord
  BY DEF TaskRecord
<1>2. /\ reply' = [reply EXCEPT ![r] = x] /\ x.pc = "asked" /\ reply[r].pc = "none"
      /\ UNCHANGED <<there, storeVars, leads, ingest, made, unclear, viewed>>
  BY DEF Ask
<1>3. ingest[r] = Idle
  BY <1>2, NoTransaction
<1> HIDE DEF x
<1> QED
  BY <1>1, <1>2, <1>3, TaskIInv DEF Ended

\* A delivery that was not answered is tried again, or given up.
LEMMA AgainFields ==
  ASSUME Shape, NEW r \in Reply, reply[r].pc = "asked", Again(r)
  PROVE  \E x \in TaskRecord : reply' = [reply EXCEPT ![r] = x] /\ x.pc \in {"asked", "given up"}
<1> DEFINE old == reply[r]
           tries == old.tries + 1
           later == [old EXCEPT !.tries = tries]
           over == [old EXCEPT !.pc = "given up"]
<1>1. old \in TaskRecord /\ old.pc = "asked"
  BY ReplyKinds
<1>2. reply' = IF old.tries < MaxTries THEN [reply EXCEPT ![r] = later]
               ELSE [reply EXCEPT ![r] = over]
  BY DEF Again
<1> HIDE DEF old, later, over
<1>3. tries \in Nat
  <2>1. \A x \in TaskRecord : x.tries \in Nat
    BY DEF TaskRecord
  <2>2. old.tries \in Nat
    BY <1>1, <2>1
  <2> QED
    BY <2>2
<1> HIDE DEF tries
<1> USE DEF later, over
<1>4. later \in TaskRecord /\ later.pc = "asked"
  BY <1>1, <1>3, Retried
<1>5. over \in TaskRecord /\ over.pc = "given up"
  BY <1>1, Repc
<1> HIDE DEF later, over
<1> QED
  BY <1>2, <1>4, <1>5

LEMMA RefuseIInv == ASSUME IInv, NEW r \in Reply, Refuse(r) PROVE IInv'
<1>1. PICK x \in TaskRecord : reply' = [reply EXCEPT ![r] = x] /\ x.pc \in {"asked", "given up"}
  BY AgainFields DEF Refuse, IInv
<1>2. ingest[r] = Idle
  BY NoTransaction DEF Refuse
<1> QED
  BY <1>1, <1>2, TaskIInv DEF Refuse, Ended

LEMMA EndIInv ==
  ASSUME IInv, NEW r \in Reply, NEW s \in {"filed", "done"},
         (reply[r].pc = "taken" /\ row[reply[r].copy] # None) \/ reply[r].pc = "filed",
         ingest[r] = Idle, reply' = [reply EXCEPT ![r].pc = s],
         UNCHANGED <<there, storeVars, leads, ingest, made, unclear, viewed>>
  PROVE  IInv'
<1> DEFINE old == reply[r]
           x == [old EXCEPT !.pc = s]
<1>1. old \in TaskRecord /\ row[old.copy] # None /\ old.pc \in {"taken", "filed"}
  BY ReplyKinds DEF IInv, Tracks, Ended
<1>2. reply' = [reply EXCEPT ![r] = x]
  OBVIOUS
<1>3. s \in {"asked", "taken", "filed", "done", "failed", "lost", "given up"}
  OBVIOUS
<1>4. reply[r] = old
  OBVIOUS
<1> HIDE DEF old
<1>5. x \in TaskRecord /\ x.pc = s /\ x.copy = old.copy
  BY <1>1, <1>3, Repc
<1> HIDE DEF x
<1> QED
  BY <1>1, <1>2, <1>4, <1>5, TaskIInv DEF Ended

LEMMA ReplyFindsStoredIInv == ASSUME IInv, NEW r \in Reply, ReplyFindsStored(r) PROVE IInv'
  BY EndIInv DEF ReplyFindsStored

LEMMA SettleIInv == ASSUME IInv, NEW r \in Reply, Settle(r) PROVE IInv'
<1>1. ingest[r] = Idle
  BY NoTransaction DEF Settle
<1> QED
  BY <1>1, EndIInv DEF Settle

\* A copy is made for a task that has made none, unless an answer was lost.
LEMMA TakeIInv ==
  ASSUME IInv, NEW r \in Reply, NEW c \in Copy, NEW m \in Message, Take(r, c, m),
         NEW x \in TaskRecord, reply' = [reply EXCEPT ![r] = x],
         UNCHANGED <<storeVars, leads, ingest, viewed>>,
         \/ x.pc = "taken" /\ x.copy = c /\ unclear' = unclear
         \/ x.pc \in {"asked", "given up"} /\ unclear' = unclear \cup {r}
  PROVE  IInv'
<1> USE DEF storeVars
<1> DEFINE t == reply[r].thread
           y == [kind |-> "copy", reply |-> r, answers |-> m, topic |-> thread[t].topic,
                 partner |-> PartnerOf(m)]
<1>1. /\ reply[r].pc = "asked" /\ made[c] = None /\ m \in RowsOf(t)
      /\ there' = there \cup {c} /\ made' = [made EXCEPT ![c] = y]
  BY DEF Take
<1>2. m \in Stored /\ m \in there /\ t \in Threads /\ t \in Thread
  BY <1>1 DEF RowsOf, IInv, Filed, Threads
<1>3. y \in CopyRecord /\ y # None /\ y.reply = r
  <2>1. thread[t].topic \in Topics
    BY <1>2, RowKinds DEF IInv, ThreadRecord
  <2>2. PartnerOf(m) \in Address
    BY <1>2, Headers DEF IInv
  <2> HIDE DEF t
  <2> QED
    BY <2>1, <2>2 DEF CopyRecord, None
<1> HIDE DEF y, t
<1>4. /\ reply'[r] = x /\ \A s \in Reply : s # r => reply'[s] = reply[s]
      /\ UNCHANGED <<ingest, row>>
  BY DEF IInv, Shape
<1>5. Shape'
  BY <1>1, <1>3 DEF IInv, Shape, Message
<1>6. Stored' = Stored /\ Threads' = Threads /\ SameRows
  BY DEF Stored, Threads, SameRows
<1>7. Filed'
  <2>1. \A d \in Copy : made'[d] # None <=> d = c \/ made[d] # None
    BY <1>1, <1>3 DEF IInv, Shape
  <2> QED
    BY <1>1, <1>6, <2>1 DEF IInv, Filed
<1>8. ASSUME NEW j \in Ingester
      PROVE  Holds(j)'
  <2>1. CASE ingest[j] = Idle
    BY <1>4, <2>1, HoldsIdle
  <2>2. CASE ingest[j] # Idle
    BY <1>1, <1>6, <2>2, HoldsKept DEF IInv, Holds, Shape
  <2> QED
    BY <2>1, <2>2
<1>9. \A j, k \in Ingester : Apart(j, k)'
  BY DEF IInv, Apart, Written
<1>10. ASSUME NEW s \in Reply
       PROVE  Tracks(s)'
  <2>1. Tracks(s)
    BY DEF IInv
  <2>2. CASE s = r
    <3>1. ingest[r] = Idle
      BY <1>1, NoTransaction
    <3>2. ingest'[r] = Idle /\ reply'[r] = x /\ c \in there'
      BY <1>1, <1>4, <3>1
    <3>3. x.pc \notin Ended /\ (x.pc = "taken" => x.copy = c)
      BY DEF Ended
    <3> QED
      BY <2>2, <3>2, <3>3 DEF Tracks, Ended
  <2>3. CASE s # r
    BY <1>1, <1>4, <2>1, <2>3, TracksKept
  <2> QED
    BY <2>2, <2>3
<1>11. ASSUME NEW s \in Reply
       PROVE  Single(s)'
  <2>1. Single(s)
    BY DEF IInv
  <2>2. CopiesOf(s)' = IF s = r THEN CopiesOf(s) \cup {c} ELSE CopiesOf(s)
    BY <1>1, <1>3 DEF CopiesOf, IInv, Shape
  <2>3. CASE s = r /\ unclear' = unclear
    <3>1. x.pc = "taken" \/ r \in unclear
      BY <2>3
    <3> QED
      BY <1>1, <1>4, <2>1, <2>2, <2>3, <3>1 DEF Single
  <2>4. CASE s = r /\ unclear' # unclear
    BY <2>4 DEF Single
  <2>5. CASE s # r
    BY <1>4, <2>1, <2>2, <2>5 DEF Single
  <2> QED
    BY <2>3, <2>4, <2>5
<1> QED
  BY <1>5, <1>7, <1>8, <1>9, <1>10, <1>11 DEF IInv

LEMMA AcceptIInv ==
  ASSUME IInv, NEW r \in Reply, NEW c \in Copy, NEW m \in Message, Accept(r, c, m)
  PROVE  IInv'
<1> DEFINE old == reply[r]
           x == [old EXCEPT !.pc = "taken", !.copy = c]
<1>1. old \in TaskRecord
  BY ReplyKinds DEF IInv, Accept, Take
<1>2. reply' = [reply EXCEPT ![r] = x] /\ Take(r, c, m)
  BY DEF Accept, IInv, Shape
<1> HIDE DEF old
<1>3. x \in TaskRecord /\ x.pc = "taken" /\ x.copy = c
  BY <1>1 DEF TaskRecord
<1> HIDE DEF x
<1> QED
  BY <1>2, <1>3, TakeIInv DEF Accept

LEMMA AcceptUnheardIInv ==
  ASSUME IInv, NEW r \in Reply, NEW c \in Copy, NEW m \in Message, AcceptUnheard(r, c, m)
  PROVE  IInv'
<1>1. PICK x \in TaskRecord : reply' = [reply EXCEPT ![r] = x] /\ x.pc \in {"asked", "given up"}
  BY AgainFields DEF AcceptUnheard, Take, IInv
<1> QED
  BY <1>1, TakeIInv DEF AcceptUnheard

------------------------------------------------------------------------------
(* The theorems.                                                           *)

LEMMA NextIInv == IInv /\ [Next]_vars => IInv'
<1> SUFFICES ASSUME IInv, [Next]_vars
             PROVE  IInv'
  OBVIOUS
<1>1. CASE UNCHANGED vars
  <2>1. UNCHANGED <<there, row, thread, unmatched, leads, ingest, reply, made, viewed, unclear>>
    BY <1>1 DEF vars, storeVars, replyVars
  <2>2. Shape' /\ SameRows /\ Threads' = Threads /\ Stored' = Stored
    BY <2>1 DEF IInv, Shape, SameRows, Threads, Stored
  <2>3. Filed'
    BY <2>1, <2>2 DEF IInv, Filed
  <2> QED
    BY <2>1, <2>2, <2>3, OtherSteps DEF replyVars
<1>2. CASE \E m \in Mail : Receive(m)
  BY <1>2, ReceiveIInv
<1>3. CASE \E i \in SyncRun, m \in Message : SyncFinds(i, m)
  BY <1>3, SyncFindsIInv
<1>4. CASE \E i \in Ingester : Write(i) \/ Conflict(i) \/ Commit(i) \/ Die(i)
  BY <1>4, WriteIInv, ConflictIInv, CommitIInv, DieIInv
<1>5. ASSUME NEW r \in Reply,
             \/ \E t \in Thread : Ask(r, t)
             \/ \E c \in Copy, m \in Message : Accept(r, c, m) \/ AcceptUnheard(r, c, m)
             \/ Refuse(r) \/ ReplyFinds(r) \/ ReplyFindsStored(r) \/ Settle(r)
      PROVE  IInv'
  BY <1>5, AskIInv, AcceptIInv, AcceptUnheardIInv, RefuseIInv, ReplyFindsIInv,
     ReplyFindsStoredIInv, SettleIInv
<1>6. CASE \E m \in Message : Ignore(m) \/ Convert(m)
  BY <1>6, IgnoreIInv, ConvertIInv
<1>7. CASE \E c \in Copy : View(c) \/ MarkDelivered(c)
  BY <1>7, ViewIInv, MarkDeliveredIInv
<1> QED
  BY <1>1, <1>2, <1>3, <1>4, <1>5, <1>6, <1>7 DEF Next

LEMMA Invariance == Spec => []IInv
  BY InitIInv, NextIInv, PTL DEF Spec

LEMMA IInvTypeOK == IInv => TypeOK
<1> SUFFICES ASSUME IInv
             PROVE  TypeOK
  OBVIOUS
<1>1. \A m \in Stored : /\ row[m].thread \in Threads /\ row[m].dir \in {"inbound", "outbound"}
                        /\ row[m].status \in {"sent", "delivered", "replied", "bounced"}
  <2> SUFFICES ASSUME NEW m \in Stored
               PROVE  /\ row[m].thread \in Threads /\ row[m].dir \in {"inbound", "outbound"}
                      /\ row[m].status \in {"sent", "delivered", "replied", "bounced"}
    OBVIOUS
  <2>1. row[m] \in RowRecord
    BY RowKinds DEF IInv, Stored
  <2> QED
    BY <2>1 DEF IInv, Filed, RowRecord, Direction
<1>2. \A t \in Threads : thread[t].lead \in BOOLEAN /\ thread[t].count \in 1..Cardinality(Message)
  <2> SUFFICES ASSUME NEW t \in Threads
               PROVE  thread[t].lead \in BOOLEAN /\ thread[t].count \in 1..Cardinality(Message)
    OBVIOUS
  <2>1. thread[t] \in ThreadRecord
    BY RowKinds DEF IInv, Threads
  <2> QED
    BY <2>1 DEF ThreadRecord
<1> QED
  BY <1>1, <1>2 DEF IInv, Shape, Filed, TypeOK

(* Whatever syncs and reply tasks overlap, die or conflict, every stored    *)
(* message has its thread, every unmatched message is stored, and a thread  *)
(* never counts more messages than there are.                               *)
THEOREM TypeCorrect == Spec => []TypeOK
  BY Invariance, IInvTypeOK, PTL

(* The task of a reply whose delivery was confirmed leaves the copy's row   *)
(* behind, whether it stored the copy or a sync came first.                 *)
THEOREM SentIsOnRecordCorrect == Spec => []SentIsOnRecord
<1>1. IInv => SentIsOnRecord
  BY DEF IInv, Tracks, SentIsOnRecord
<1> QED
  BY <1>1, Invariance, PTL

LEMMA AtMostOne ==
  ASSUME NEW S, \A x, y \in S : x = y
  PROVE  ~(Cardinality(S) > 1)
<1>1. CASE S = {}
  BY <1>1, FS_EmptySet
<1>2. ASSUME NEW x \in S
      PROVE  ~(Cardinality(S) > 1)
  <2>1. S = {x}
    BY <1>2
  <2>2. Cardinality({x}) = 1
    BY FS_Singleton
  <2> QED
    BY <2>1, <2>2
<1> QED
  BY <1>1, <1>2

(* However often a reply is tried again, the customer gets it once, unless  *)
(* the provider took it and its answer was lost.                            *)
THEOREM DuplicateReplyNeedsFaultCorrect == Spec => []DuplicateReplyNeedsFault
<1>1. IInv => DuplicateReplyNeedsFault
  <2> SUFFICES ASSUME IInv, NEW r \in Reply, r \notin unclear
               PROVE  ~(Cardinality(CopiesOf(r)) > 1)
    BY DEF DuplicateReplyNeedsFault, CopiesOf
  <2>1. \A c, d \in CopiesOf(r) : c = d
    BY DEF IInv, Single
  <2> QED
    BY <2>1, AtMostOne
<1> QED
  BY <1>1, Invariance, PTL

\* A row is made by the transaction that wrote it.
LEMMA StoredByWriter ==
  ASSUME IInv, Next, NEW m \in Message, row[m] = None, row'[m] # None
  PROVE  \E i \in Ingester : Commit(i) /\ ingest[i].msg = m
<1>1. CASE row' = row
  BY <1>1
<1>2. ASSUME NEW c \in Copy, MarkDelivered(c)
      PROVE  FALSE
  <2>1. c \in Stored /\ c # m
    BY <1>2 DEF MarkDelivered, IInv, Filed, Stored
  <2>2. row'[m] = row[m]
    BY <1>2, <2>1 DEF MarkDelivered, IInv, Shape
  <2> QED
    BY <2>2
<1>3. ASSUME NEW i \in Ingester, Commit(i)
      PROVE  ingest[i].msg = m
  <2>1. m \in Stored' /\ m \notin Stored
    BY DEF Stored
  <2> QED
    BY <1>3, <2>1, CommitFields
<1> QED
  BY <1>1, <1>2, <1>3
  DEF Next, Receive, SyncFinds, Write, Conflict, Die, Ask, Accept, AcceptUnheard, Refuse,
      ReplyFinds, ReplyFindsStored, Settle, Ignore, Convert, View, storeVars

(* A transaction that met no other at its thread leaves the exact count,    *)
(* whatever increments earlier overlaps have lost.                          *)
THEOREM CountHealsCorrect == Spec => CountHeals
<1>1. ASSUME IInv, Next, NEW i \in Ingester, Written(i), ingest[i].alone, row'[ingest[i].msg] # None
      PROVE  thread'[ingest[i].thread].count =
               Cardinality({m \in Message : row'[m] # None /\ row'[m].thread = ingest[i].thread})
  <2>1. /\ row[ingest[i].msg] = None /\ ingest[i].msg \in Message /\ ingest[i].msg \notin Stored
        /\ ingest[i].count = Cardinality(RowsOf(ingest[i].thread)) + 1
    BY <1>1, IngestKinds DEF IInv, Holds, WrittenRecord, Stored
  <2>2. PICK j \in Ingester : Commit(j) /\ ingest[j].msg = ingest[i].msg
    BY <1>1, <2>1, StoredByWriter
  <2>3. j = i
    BY <1>1, <2>2 DEF IInv, Apart, Commit
  <2>4. thread'[ingest[i].thread].count = ingest[i].count
    BY <1>1, <2>2, <2>3, CommitFields
  <2>5. \A s : s = ingest[i].thread => RowsOf(s)' = RowsOf(s) \cup {ingest[i].msg}
    BY <1>1, <2>2, <2>3, CommitRows
  <2>6. Cardinality(RowsOf(ingest[i].thread) \cup {ingest[i].msg}) = Cardinality(RowsOf(ingest[i].thread)) + 1
    BY <2>1, OneMoreRow
  <2>7. \A s : RowsOf(s)' = {m \in Message : row'[m] # None /\ row'[m].thread = s}
    BY DEF RowsOf, Stored
  <2> QED
    BY <2>1, <2>4, <2>5, <2>6, <2>7
<1>2. IInv /\ [Next]_vars =>
        [\A i \in Ingester :
           Written(i) /\ ingest[i].alone /\ row'[ingest[i].msg] # None
             => thread'[ingest[i].thread].count =
                  Cardinality({m \in Message : row'[m] # None /\ row'[m].thread = ingest[i].thread})]_vars
  BY <1>1
<1> QED
  BY <1>2, Invariance, PTL DEF Spec, CountHeals

(* Storing the report that a reply bounced turns no stored reply that it     *)
(* reports into an answered one, whenever the reply's own row was committed. *)
(* (It need not mark it as bounced: a reply that commits after the report's  *)
(* update and before its commit stays as it is.)                             *)
THEOREM BounceIsNoAnswerCorrect == Spec => BounceIsNoAnswer
<1>1. ASSUME IInv, Next, NEW b \in Mail, NEW c \in Bounces[b] \cap Stored,
             row[b] = None, row'[b] # None, row'[c].status = "replied"
      PROVE  row[c].status = "replied"
  <2>1. PICK i \in Ingester : Commit(i) /\ ingest[i].msg = b
    BY <1>1, StoredByWriter DEF Message
  <2>2. ingest[i].answered \cap Bounces[b] = {}
    BY <1>1, <2>1 DEF Commit, IInv, Holds, BouncesOf
  <2>3. c \notin ingest[i].bounced
    BY <1>1, <2>1, CommitFields
  <2>4. row'[c] = row[c]
    BY <1>1, <2>1, <2>2, <2>3, CommitFields
  <2> QED
    BY <1>1, <2>4
<1>2. IInv /\ [Next]_vars =>
        [\A b \in Mail : \A c \in Bounces[b] \cap Stored :
           row[b] = None /\ row'[b] # None => (row'[c].status = "replied" => row[c].status = "replied")]_vars
  BY <1>1
<1> QED
  BY <1>2, Invariance, PTL DEF Spec, BounceIsNoAnswer

==============================================================================
