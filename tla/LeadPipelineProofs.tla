-------------------------- MODULE LeadPipelineProofs --------------------------
(***************************************************************************)
(* Rows, timelines, owners and automated follow-ups agree, for any numbers *)
(* of leads, members and overlapping requests, and for timelines of any    *)
(* length.                                                                 *)
(***************************************************************************)
EXTENDS LeadPipeline, SequenceTheorems, FiniteSetTheorems, TLAPS

------------------------------------------------------------------------------
(* Timelines.                                                              *)

\* A timeline that ends at stage s, as TimelineExplainsStage has it.
Explains(t, s) ==
  /\ t # <<>>
  /\ \A i \in 2..Len(t) : t[i].from = t[i - 1].to
  /\ t[Len(t)].to = s

\* Entries that lead from stage a to stage b.
Leads(e, a, b) ==
  /\ e = <<>> => a = b
  /\ e # <<>> => e[1].from = a /\ e[Len(e)].to = b
  /\ \A i \in 2..Len(e) : e[i].from = e[i - 1].to

\* An entry that queues rule k.
IsCause(x, k) ==
  \/ x.kind = "needs_time" /\ k = "delayed_followup"
  \/ x.kind = "stage_change" /\ k \in rule_for_stage(x.to)

CauseSet(t, k) == {i \in DOMAIN t : IsCause(t[i], k)}

LEMMA CausesIs == \A l \in Lead, k \in Rule : Causes(l, k) = CauseSet(timeline[l], k)
BY DEF Causes, CauseSet, IsCause

LEMMA ExplainsConcat ==
  ASSUME NEW t \in Seq(Entry), NEW e \in Seq(Entry), NEW a, NEW b,
         Explains(t, a), Leads(e, a, b)
  PROVE  Explains(t \o e, b)
<1>1. CASE e = <<>>
  <2>1. t \o e = t
    BY <1>1, ConcatEmptySeq
  <2> QED
    BY <1>1, <2>1 DEF Leads
<1>2. CASE e # <<>>
  <2> DEFINE c == t \o e
             m == Len(t)
             n == Len(e)
  <2>1. c \in Seq(Entry) /\ Len(c) = m + n
    BY ConcatProperties
  <2>2. m \in Nat /\ n \in Nat /\ m >= 1 /\ n >= 1
    BY <1>2, EmptySeq DEF Explains
  <2>3. \A i \in 1..m : c[i] = t[i]
    BY <2>2, ConcatProperties
  <2>4. \A j \in 1..n : c[m + j] = e[j]
    <3>1. ASSUME NEW j \in 1..n PROVE c[m + j] = e[j]
      <4>1. m + j \in 1..m + n /\ ~(m + j <= m) /\ (m + j) - m = j
        BY <2>2, <3>1
      <4> QED
        BY <4>1, ConcatProperties
    <3> QED
      BY <3>1
  <2>5. t[m].to = a /\ \A i \in 2..m : t[i].from = t[i - 1].to
    BY DEF Explains
  <2>6. e[1].from = a /\ e[n].to = b /\ \A i \in 2..n : e[i].from = e[i - 1].to
    BY <1>2 DEF Leads
  <2> HIDE DEF c, m, n
  <2>7. c # <<>>
    BY <2>1, <2>2, EmptySeq
  <2>8. c[Len(c)].to = b
    BY <2>1, <2>2, <2>4, <2>6
  <2>9. ASSUME NEW i \in 2..Len(c) PROVE c[i].from = c[i - 1].to
    <3>1. CASE i <= m
      <4>1. i \in 2..m /\ i \in 1..m /\ i - 1 \in 1..m
        BY <2>1, <2>2, <3>1
      <4> QED
        BY <2>3, <2>5, <4>1
    <3>2. CASE i = m + 1
      <4>1. c[i] = e[1] /\ i - 1 = m /\ c[m] = t[m]
        BY <2>2, <2>3, <2>4, <3>2
      <4> QED
        BY <2>5, <2>6, <4>1
    <3>3. CASE i > m + 1
      <4>1. PICK j \in 2..n : i = m + j
        BY <2>1, <2>2, <3>3
      <4>2. i - 1 = m + (j - 1) /\ j \in 1..n /\ j - 1 \in 1..n
        BY <2>2, <4>1
      <4>3. c[i] = e[j] /\ c[i - 1] = e[j - 1]
        BY <2>4, <4>1, <4>2
      <4> QED
        BY <2>6, <4>1, <4>3
    <3> QED
      BY <2>1, <2>2, <3>1, <3>2, <3>3
  <2> QED
    BY <2>7, <2>8, <2>9 DEF Explains, c
<1> QED
  BY <1>1, <1>2

\* Causes are not lost when a timeline grows, and a new one counts.
LEMMA CausesGrow ==
  ASSUME NEW t \in Seq(Entry), NEW e \in Seq(Entry), NEW k
  PROVE  /\ Cardinality(CauseSet(t, k)) \in Nat
         /\ Cardinality(CauseSet(t \o e, k)) \in Nat
         /\ Cardinality(CauseSet(t, k)) <= Cardinality(CauseSet(t \o e, k))
         /\ \A j \in 1..Len(e) : IsCause(e[j], k) =>
              Cardinality(CauseSet(t, k)) + 1 <= Cardinality(CauseSet(t \o e, k))
<1> DEFINE c == t \o e
           old == CauseSet(t, k)
           new == CauseSet(c, k)
<1>1. /\ c \in Seq(Entry) /\ Len(c) = Len(t) + Len(e)
      /\ \A i \in 1..Len(t) + Len(e) : c[i] = IF i <= Len(t) THEN t[i] ELSE e[i - Len(t)]
  BY ConcatProperties
<1>2. /\ Len(t) \in Nat /\ DOMAIN t = 1..Len(t) /\ Len(e) \in Nat /\ DOMAIN c = 1..Len(c)
  BY <1>1, LenProperties
<1> HIDE DEF c
<1>3. old \subseteq new
  BY <1>1, <1>2 DEF CauseSet
<1>4. new \subseteq 1..Len(c) /\ old \subseteq 1..Len(t)
  BY <1>2 DEF CauseSet
<1>5. IsFiniteSet(new) /\ IsFiniteSet(old)
  <2>1. IsFiniteSet(1..Len(c))
    BY <1>1, <1>2, FS_Interval
  <2>2. IsFiniteSet(new)
    BY <1>4, <2>1, FS_Subset
  <2> QED
    BY <1>3, <2>2, FS_Subset
<1>6. ASSUME NEW j \in 1..Len(e), IsCause(e[j], k)
      PROVE  Cardinality(old) + 1 <= Cardinality(new)
  <2> DEFINE x == Len(t) + j
  <2>1. x \in new /\ x \notin old
    BY <1>1, <1>2, <1>4, <1>6 DEF CauseSet
  <2> HIDE DEF x, old, new
  <2>2. Cardinality(old \cup {x}) = Cardinality(old) + 1
    BY <1>5, <2>1, FS_AddElement
  <2>3. old \cup {x} \subseteq new
    BY <1>3, <2>1
  <2>4. Cardinality(old \cup {x}) <= Cardinality(new)
    BY <1>5, <2>3, FS_Subset
  <2> QED
    BY <2>2, <2>4
<1>7. Cardinality(old) \in Nat /\ Cardinality(new) \in Nat /\ Cardinality(old) <= Cardinality(new)
  BY <1>3, <1>5, FS_Subset, FS_CardinalityType
<1> QED
  BY <1>6, <1>7 DEF c

\* One entry that stays at its stage.
LEMMA OneEntry ==
  ASSUME NEW x \in Entry
  PROVE  /\ <<x>> \in Seq(Entry) /\ Len(<<x>>) = 1 /\ <<x>>[1] = x
         /\ Leads(<<x>>, x.from, x.to)
         /\ Explains(<<x>>, x.to)
BY DEF Leads, Explains

\* Two entries of one request, the second of which stays at the first one's end.
LEMMA TwoEntries ==
  ASSUME NEW x \in Entry, NEW y \in Entry, x.to = y.from
  PROVE  /\ <<x, y>> \in Seq(Entry) /\ Len(<<x, y>>) = 2
         /\ <<x, y>>[1] = x /\ <<x, y>>[2] = y
         /\ Leads(<<x, y>>, x.from, y.to)
BY DEF Leads

LEMMA PairConcat ==
  ASSUME NEW x \in Entry, NEW y \in Entry
  PROVE  <<x>> \o <<y>> = <<x, y>>
<1> DEFINE c == <<x>> \o <<y>>
           p == <<x, y>>
<1>1. /\ <<x>> \in Seq(Entry) /\ Len(<<x>>) = 1 /\ <<x>>[1] = x
      /\ <<y>> \in Seq(Entry) /\ Len(<<y>>) = 1 /\ <<y>>[1] = y
  BY OneEntry
<1>2. p \in Seq(Entry) /\ Len(p) = 2 /\ p[1] = x /\ p[2] = y
  OBVIOUS
<1>3. c \in Seq(Entry) /\ Len(c) = 2
  BY <1>1, ConcatProperties
<1>4. c[1] = x
  BY <1>1, ConcatProperties
<1>5. c[2] = y
  <2>1. 2 \in 1..Len(<<x>>) + Len(<<y>>) /\ ~(2 <= Len(<<x>>)) /\ 2 - Len(<<x>>) = 1
    BY <1>1
  <2>2. c[2] = <<y>>[2 - Len(<<x>>)]
    BY <1>1, <2>1, ConcatProperties
  <2> QED
    BY <1>1, <2>1, <2>2
<1> HIDE DEF c, p
<1>6. c = p
  <2>1. \A i \in 1..Len(c) : c[i] = p[i]
    BY <1>2, <1>3, <1>4, <1>5
  <2> QED
    BY <1>2, <1>3, <2>1, SeqEqual
<1> QED
  BY <1>6 DEF c, p

\* transition_lead's entries lead to the new stage; a moved lead has its change.
LEMMA EventsLead ==
  ASSUME NEW old \in Row, NEW s \in Stage, NEW why, NEW u \in Member, NEW noted \in BOOLEAN,
         NEW e, e = Events(old, s, why, u, noted)
  PROVE  /\ e \in Seq(Entry)
         /\ Leads(e, old.stage, s)
         /\ \A i \in 1..Len(e) : e[i].by = u
         /\ old.stage # s => 1 \in 1..Len(e) /\ e[1].kind = "stage_change" /\ e[1].to = s
<1> DEFINE change == [kind |-> "stage_change", by |-> u, from |-> old.stage, to |-> s]
           reason == [kind |-> "lost_reason", by |-> u, from |-> s, to |-> s]
           note == [kind |-> "note", by |-> u, from |-> s, to |-> s]
           changed == old.stage = s /\ s = "lost" /\ old.reason # why
           A == IF old.stage # s THEN <<change>> ELSE <<>>
           B == IF changed THEN <<reason>> ELSE <<>>
           C == IF noted THEN <<note>> ELSE <<>>
<1>1. old.stage \in Stage
  BY DEF Row
<1>2. change \in Entry /\ reason \in Entry /\ note \in Entry
  BY <1>1 DEF Entry, Kind, Manual
<1>3. e = (A \o B) \o C
  BY DEF Events
<1>4. /\ change.kind = "stage_change" /\ change.by = u /\ change.from = old.stage /\ change.to = s
      /\ reason.by = u /\ reason.from = s /\ reason.to = s
      /\ note.by = u /\ note.from = s /\ note.to = s
  OBVIOUS
<1>5. /\ A = IF old.stage # s THEN <<change>> ELSE <<>>
      /\ B = IF changed THEN <<reason>> ELSE <<>>
      /\ C = IF noted THEN <<note>> ELSE <<>>
      /\ changed => old.stage = s
  OBVIOUS
<1> HIDE DEF change, reason, note, changed, A, B, C
<1>6. A \in Seq(Entry) /\ B \in Seq(Entry) /\ C \in Seq(Entry)
  BY <1>2, <1>5, OneEntry, EmptySeq
<1>7. /\ B = <<>> => A \o B = A
      /\ A = <<>> => A \o B = B
      /\ C = <<>> => e = A \o B
      /\ A \o B = <<>> => e = C
  <2>1. A \o B \in Seq(Entry)
    BY <1>6, ConcatProperties
  <2> QED
    BY <1>3, <1>6, <2>1, ConcatEmptySeq
<1>8. CASE old.stage # s /\ noted
  <2>1. e = <<change, note>>
    BY <1>2, <1>3, <1>5, <1>7, <1>8, PairConcat
  <2>2. old.stage # s
    BY <1>5, <1>8
  <2> QED
    BY <1>2, <1>4, <2>1, <2>2, TwoEntries
<1>9. CASE old.stage # s /\ ~noted
  <2>1. e = <<change>>
    BY <1>5, <1>7, <1>9
  <2> QED
    BY <1>2, <1>4, <1>9, <2>1, OneEntry
<1>10. CASE changed /\ noted
  <2>1. e = <<reason, note>>
    BY <1>2, <1>3, <1>5, <1>7, <1>10, PairConcat
  <2>2. old.stage = s
    BY <1>5, <1>10
  <2> QED
    BY <1>2, <1>4, <1>5, <2>1, <2>2, TwoEntries
<1>11. CASE changed /\ ~noted
  <2>1. e = <<reason>>
    BY <1>5, <1>7, <1>11
  <2> QED
    BY <1>2, <1>4, <1>5, <1>11, <2>1, OneEntry
<1>12. CASE old.stage = s /\ ~changed /\ noted
  <2>1. e = <<note>>
    BY <1>5, <1>7, <1>12
  <2>2. old.stage = s
    BY <1>5, <1>12
  <2> QED
    BY <1>2, <1>4, <2>1, <2>2, OneEntry
<1>13. CASE old.stage = s /\ ~changed /\ ~noted
  <2>1. e = <<>>
    BY <1>5, <1>7, <1>13
  <2> QED
    BY <1>13, <2>1, EmptySeq DEF Leads
<1> QED
  BY <1>8, <1>9, <1>10, <1>11, <1>12, <1>13

------------------------------------------------------------------------------
(* The inductive invariant.                                                *)

Consistent(r) == (r.closed <=> r.stage \in Closed) /\ (r.stage = "lost" => r.reason # None)

\* What holds of a lead: a lead in the table was captured and its row is
\* consistent; nothing is queued for one that was not; and as long as no stale
\* row was saved over it, its timeline, owner and queued rules agree with it.
LeadOK(l) ==
  /\ row[l] # None => l \in born /\ Consistent(row[l])
  /\ l \notin born => \A k \in Rule : queued[l][k] = 0
  /\ row[l] # None /\ l \notin undone =>
       /\ Explains(timeline[l], row[l].stage)
       /\ row[l].owner = chosen[l]
       /\ \A k \in Rule : queued[l][k] <= Cardinality(CauseSet(timeline[l], k))

\* What holds of the row that a request carries: it was read from the table, or
\* is about to be inserted.
RequestOK(q) ==
  req[q] # None =>
    /\ Consistent(req[q].row)
    /\ ~req[q].new => req[q].lead \in born /\ req[q].row # None

IInv ==
  /\ TypeOK
  /\ \A l \in Lead : LeadOK(l)
  /\ \A q \in Request : RequestOK(q)

LEMMA InitIInv == Init => IInv
<1> SUFFICES ASSUME Init PROVE IInv
  OBVIOUS
<1>1. TypeOK
  BY EmptySeq DEF Init, TypeOK
<1>2. \A l \in Lead : LeadOK(l)
  BY DEF Init, LeadOK
<1>3. \A q \in Request : RequestOK(q)
  BY DEF Init, RequestOK
<1> QED
  BY <1>1, <1>2, <1>3 DEF IInv

\* A lead that a step leaves alone.
LEMMA SameLead ==
  ASSUME NEW l \in Lead, LeadOK(l),
         row'[l] = row[l], timeline'[l] = timeline[l], queued'[l] = queued[l],
         chosen'[l] = chosen[l], l \in born' <=> l \in born, l \in undone => l \in undone'
  PROVE  LeadOK(l)'
BY DEF LeadOK

\* A lead that a transaction under its row's lock changes: its timeline grows by
\* what leads to its new stage, and rules are queued for what was added.
LEMMA LockedLead ==
  ASSUME TypeOK, NEW l \in Lead, LeadOK(l), row[l] # None,
         NEW e \in Seq(Entry), timeline'[l] = timeline[l] \o e,
         Leads(e, row[l].stage, row'[l].stage),
         Consistent(row'[l]), row'[l].owner = row[l].owner,
         chosen'[l] = chosen[l], born' = born, undone' = undone,
         \A k \in Rule : \/ queued'[l][k] = queued[l][k]
                         \/ /\ queued'[l][k] = queued[l][k] + 1
                            /\ \E j \in 1..Len(e) : IsCause(e[j], k)
  PROVE  LeadOK(l)'
<1>1. timeline[l] \in Seq(Entry) /\ queued[l] \in [Rule -> Nat]
  BY DEF TypeOK
<1>2. l \in born
  BY DEF LeadOK
<1>3. ASSUME l \notin undone
      PROVE  /\ Explains(timeline'[l], row'[l].stage)
             /\ \A k \in Rule : queued'[l][k] <= Cardinality(CauseSet(timeline'[l], k))
  <2>1. Explains(timeline'[l], row'[l].stage)
    BY <1>1, <1>3, ExplainsConcat DEF LeadOK
  <2>2. ASSUME NEW k \in Rule
        PROVE  queued'[l][k] <= Cardinality(CauseSet(timeline'[l], k))
    <3> DEFINE old == Cardinality(CauseSet(timeline[l], k))
               new == Cardinality(CauseSet(timeline'[l], k))
    <3>1. /\ old \in Nat /\ new \in Nat /\ old <= new
          /\ (\E j \in 1..Len(e) : IsCause(e[j], k)) => old + 1 <= new
      BY <1>1, CausesGrow
    <3>2. queued[l][k] \in Nat /\ queued[l][k] <= old
      BY <1>1, <1>3 DEF LeadOK
    <3> HIDE DEF old, new
    <3>3. queued'[l][k] <= new
      BY <3>1, <3>2
    <3> QED
      BY <3>3 DEF new
  <2> QED
    BY <2>1, <2>2
<1> QED
  BY <1>2, <1>3 DEF LeadOK

\* A request that a step leaves alone, or that is over.
LEMMA SameRequests ==
  ASSUME \A q \in Request : RequestOK(q),
         \A q \in Request : req'[q] = req[q] \/ req'[q] = None,
         born \subseteq born'
  PROVE  (\A q \in Request : RequestOK(q))'
BY DEF RequestOK

LEMMA FinishType ==
  ASSUME TypeOK, NEW q \in Request, Finish(q)
  PROVE  /\ req' \in [Request -> Open \cup {None}]
         /\ \A p \in Request : req'[p] = req[p] \/ req'[p] = None
BY DEF TypeOK, Finish

------------------------------------------------------------------------------
(* Steps on a row that was read before.                                    *)

\* The row and the lead that a request carries.
LEMMA LoadedType ==
  ASSUME IInv, NEW q \in Request, req[q] # None
  PROVE  /\ req[q].lead \in Lead /\ req[q].row \in Row /\ req[q].by \in Member
         /\ Consistent(req[q].row)
         /\ Loaded(q) => req[q].lead \in born /\ req[q].row # None
BY DEF IInv, TypeOK, Open, RequestOK, Loaded

LEMMA ProposeStep ==
  ASSUME IInv, NEW q \in Request, NEW u \in Member, NEW new \in Row, Propose(q, u, new),
         new.stage = "lost" => new.reason # None
  PROVE  IInv'
<1>1. PICK l \in Lead :
        req' = [req EXCEPT ![q] = [by |-> u, lead |-> l, row |-> new, new |-> TRUE]]
  BY DEF Propose
<1> DEFINE r == [by |-> u, lead |-> l, row |-> new, new |-> TRUE]
<1>2. r \in Open /\ r.row = new /\ r.new
  BY DEF Open
<1>3. req' = [req EXCEPT ![q] = r]
  BY <1>1
<1> HIDE DEF r
<1>4. TypeOK'
  BY <1>2, <1>3 DEF Propose, IInv, TypeOK
<1>5. Consistent(new)
  BY DEF Propose, Consistent
<1>6. \A p \in Request : RequestOK(p)'
  BY <1>2, <1>3, <1>5 DEF Propose, IInv, TypeOK, RequestOK
<1>7. \A l2 \in Lead : LeadOK(l2)'
  BY SameLead DEF Propose, IInv
<1> QED
  BY <1>4, <1>6, <1>7 DEF IInv

LEMMA InsertStep ==
  ASSUME IInv, NEW q \in Request, Insert(q)
  PROVE  IInv'
<1> DEFINE l == req[q].lead
           new == req[q].row
           x == [kind |-> "captured", by |-> req[q].by, from |-> new.stage, to |-> new.stage]
<1>1. /\ l \in Lead /\ new \in Row /\ req[q].by \in Member
      /\ Consistent(new) /\ l \notin born
  BY LoadedType DEF Insert
<1>2. x \in Entry /\ x.to = new.stage
  BY <1>1 DEF Entry, Row, Kind
<1>3. <<x>> \in Seq(Entry) /\ Explains(<<x>>, new.stage)
  BY <1>2, OneEntry
<1>4. /\ row' = [row EXCEPT ![l] = new] /\ timeline' = [timeline EXCEPT ![l] = <<x>>]
      /\ born' = born \cup {l} /\ chosen' = [chosen EXCEPT ![l] = new.owner]
      /\ queued' = queued /\ undone' = undone /\ Finish(q)
  BY DEF Insert
<1> HIDE DEF l, new, x
<1>5. new.owner \in Member
  BY <1>1 DEF Row
<1>6. TypeOK'
  BY <1>1, <1>3, <1>4, <1>5, FinishType DEF IInv, TypeOK
<1>7. ASSUME NEW m \in Lead PROVE LeadOK(m)'
  <2>1. CASE m # l
    BY <1>1, <1>4, <2>1, SameLead DEF IInv, TypeOK
  <2>2. CASE m = l
    <3>1. /\ row'[m] = new /\ timeline'[m] = <<x>> /\ chosen'[m] = new.owner
          /\ m \in born' /\ queued'[m] = queued[m]
      BY <1>1, <1>4, <2>2 DEF IInv, TypeOK
    <3>2. \A k \in Rule : queued[m][k] = 0
      BY <1>1, <2>2 DEF IInv, LeadOK
    <3>3. \A k \in Rule : Cardinality(CauseSet(<<x>>, k)) \in Nat
      BY <1>3, EmptySeq, CausesGrow
    <3> QED
      BY <1>1, <1>3, <3>1, <3>2, <3>3 DEF LeadOK
  <2> QED
    BY <2>1, <2>2
<1>8. (\A p \in Request : RequestOK(p))'
  BY <1>4, FinishType, SameRequests DEF IInv
<1> QED
  BY <1>6, <1>7, <1>8 DEF IInv

LEMMA LoadStep ==
  ASSUME IInv, NEW q \in Request, NEW u \in Member, NEW l \in Lead, Load(q, u, l)
  PROVE  IInv'
<1> DEFINE r == [by |-> u, lead |-> l, row |-> row[l], new |-> FALSE]
<1>1. row[l] # None /\ row[l] \in Row /\ LeadOK(l)
  BY DEF Load, Visible, Existing, IInv, TypeOK
<1>2. r \in Open /\ r.row = row[l] /\ r.lead = l
  BY <1>1 DEF Open
<1>3. req' = [req EXCEPT ![q] = r]
  BY DEF Load
<1> HIDE DEF r
<1>4. TypeOK'
  BY <1>2, <1>3 DEF Load, IInv, TypeOK
<1>5. \A p \in Request : RequestOK(p)'
  BY <1>1, <1>2, <1>3 DEF Load, IInv, TypeOK, RequestOK, LeadOK
<1>6. \A m \in Lead : LeadOK(m)'
  BY SameLead DEF Load, IInv
<1> QED
  BY <1>4, <1>5, <1>6 DEF IInv

LEMMA SaveStep ==
  ASSUME IInv, NEW q \in Request, NEW o \in Member, Save(q, o)
  PROVE  IInv'
<1> DEFINE l == req[q].lead
           read == req[q].row
           new == [read EXCEPT !.owner = o]
<1>1. /\ l \in Lead /\ read \in Row /\ Consistent(read) /\ l \in born /\ read # None
  BY LoadedType DEF Save, Loaded
<1>2. /\ new \in Row /\ new.stage = read.stage /\ new.closed = read.closed
      /\ new.reason = read.reason /\ new.owner = o
  BY <1>1 DEF Row
<1>3. /\ row' = [row EXCEPT ![l] = new]
      /\ undone' = IF row[l] = read THEN undone ELSE undone \cup {l}
      /\ chosen' = IF o = read.owner THEN chosen ELSE [chosen EXCEPT ![l] = o]
      /\ timeline' = timeline /\ queued' = queued /\ born' = born /\ Finish(q)
  BY DEF Save
<1> HIDE DEF l, read, new
<1>4. TypeOK'
  BY <1>1, <1>2, <1>3, FinishType DEF IInv, TypeOK
<1>5. ASSUME NEW m \in Lead PROVE LeadOK(m)'
  <2>1. CASE m # l
    BY <1>1, <1>3, <2>1, SameLead DEF IInv, TypeOK
  <2>2. CASE m = l
    <3>1. /\ row'[m] = new /\ timeline'[m] = timeline[m] /\ queued'[m] = queued[m]
          /\ chosen'[m] = IF o = read.owner THEN chosen[m] ELSE o
      BY <1>1, <1>3, <2>2 DEF IInv, TypeOK
    <3>2. Consistent(new)
      BY <1>1, <1>2 DEF Consistent
    <3>3. CASE row[m] = read
      BY <1>1, <1>2, <1>3, <2>2, <3>1, <3>2, <3>3 DEF IInv, LeadOK
    <3>4. CASE row[m] # read
      BY <1>1, <1>3, <2>2, <3>1, <3>2, <3>4 DEF LeadOK
    <3> QED
      BY <3>3, <3>4
  <2> QED
    BY <2>1, <2>2
<1>6. (\A p \in Request : RequestOK(p))'
  BY <1>3, FinishType, SameRequests DEF IInv
<1> QED
  BY <1>4, <1>5, <1>6 DEF IInv

\* Leads that a manager gives to somebody.
LEMMA OwnerStep ==
  ASSUME IInv, NEW L \in SUBSET Existing, NEW o \in Member,
         row' = [l \in Lead |-> IF l \in L THEN [row[l] EXCEPT !.owner = o] ELSE row[l]],
         chosen' = [l \in Lead |-> IF l \in L THEN o ELSE chosen[l]],
         UNCHANGED <<timeline, queued, born, undone>>,
         UNCHANGED req \/ \E q \in Request : Finish(q)
  PROVE  IInv'
<1>1. ASSUME NEW l \in L
      PROVE  /\ l \in Lead /\ row[l] \in Row /\ row[l] # None /\ row'[l] \in Row
             /\ row'[l].stage = row[l].stage /\ row'[l].closed = row[l].closed
             /\ row'[l].reason = row[l].reason /\ row'[l].owner = o /\ chosen'[l] = o
  <2>1. l \in Lead /\ row[l] \in Row /\ row[l] # None
    BY DEF Existing, IInv, TypeOK
  <2>2. row'[l] = [row[l] EXCEPT !.owner = o] /\ chosen'[l] = o
    BY <2>1
  <2> QED
    BY <2>1, <2>2 DEF Row
<1>2. row' \in [Lead -> Row \cup {None}]
  BY <1>1 DEF IInv, TypeOK
<1>3. req' \in [Request -> Open \cup {None}]
      /\ \A p \in Request : req'[p] = req[p] \/ req'[p] = None
  BY FinishType DEF IInv, TypeOK
<1>4. TypeOK'
  BY <1>2, <1>3 DEF IInv, TypeOK
<1>5. ASSUME NEW l \in Lead PROVE LeadOK(l)'
  <2>1. CASE l \notin L
    BY <2>1, SameLead DEF IInv
  <2>2. CASE l \in L
    <3>1. LeadOK(l) /\ row[l] # None
      BY <1>1, <2>2 DEF IInv
    <3>2. Consistent(row'[l])
      BY <1>1, <2>2, <3>1 DEF LeadOK, Consistent
    <3>3. /\ timeline'[l] = timeline[l] /\ queued'[l] = queued[l]
          /\ born' = born /\ undone' = undone
          /\ row'[l].stage = row[l].stage /\ row'[l].owner = o /\ chosen'[l] = o
      BY <1>1, <2>2
    <3> QED
      BY <3>1, <3>2, <3>3 DEF LeadOK
  <2> QED
    BY <2>1, <2>2
<1>6. (\A p \in Request : RequestOK(p))'
  BY <1>3, SameRequests DEF IInv
<1> QED
  BY <1>4, <1>5, <1>6 DEF IInv

LEMMA AssignStep ==
  ASSUME IInv, NEW q \in Request, NEW o \in Member, Assign(q, o)
  PROVE  IInv'
<1> DEFINE l == req[q].lead
<1>1. l \in Lead /\ {l} \in SUBSET Existing
  BY LoadedType DEF Assign, Loaded, Existing
<1>2. /\ row' = [row EXCEPT ![l] = [row[l] EXCEPT !.owner = o]]
      /\ chosen' = [chosen EXCEPT ![l] = o] /\ Finish(q)
      /\ UNCHANGED <<timeline, queued, born, undone>>
  BY DEF Assign
<1> HIDE DEF l
<1>3. /\ row' = [m \in Lead |-> IF m \in {l} THEN [row[m] EXCEPT !.owner = o] ELSE row[m]]
      /\ chosen' = [m \in Lead |-> IF m \in {l} THEN o ELSE chosen[m]]
  BY <1>1, <1>2 DEF IInv, TypeOK
<1> QED
  BY <1>1, <1>2, <1>3, OwnerStep

LEMMA DeleteStep ==
  ASSUME IInv, NEW q \in Request, Delete(q)
  PROVE  IInv'
<1> DEFINE l == req[q].lead
           zero == [k \in Rule |-> 0]
<1>1. l \in Lead
  BY LoadedType DEF Delete, Loaded
<1>2. /\ row' = [row EXCEPT ![l] = None] /\ timeline' = [timeline EXCEPT ![l] = <<>>]
      /\ queued' = [queued EXCEPT ![l] = zero] /\ Finish(q)
      /\ UNCHANGED <<born, chosen, undone>>
  BY DEF Delete
<1>3. zero \in [Rule -> Nat] /\ \A k \in Rule : zero[k] = 0
  OBVIOUS
<1> HIDE DEF l, zero
<1>4. TypeOK'
  BY <1>1, <1>2, <1>3, FinishType, EmptySeq DEF IInv, TypeOK
<1>5. ASSUME NEW m \in Lead PROVE LeadOK(m)'
  <2>1. CASE m # l
    BY <1>1, <1>2, <2>1, SameLead DEF IInv, TypeOK
  <2>2. CASE m = l
    BY <1>1, <1>2, <1>3, <2>2 DEF IInv, TypeOK, LeadOK
  <2> QED
    BY <2>1, <2>2
<1>6. (\A p \in Request : RequestOK(p))'
  BY <1>2, FinishType, SameRequests DEF IInv
<1> QED
  BY <1>4, <1>5, <1>6 DEF IInv

------------------------------------------------------------------------------
(* Steps under the lock of the leads in L.                                 *)

\* The timelines of the leads in L grow by the entries e.
Grows(L, e) ==
  /\ \A l \in L : e[l] \in Seq(Entry)
  /\ timeline' = [l \in Lead |-> IF l \in L THEN timeline[l] \o e[l] ELSE timeline[l]]

LEMMA LockedStep ==
  ASSUME IInv, NEW L \in SUBSET Existing, NEW e, Grows(L, e),
         row' \in [Lead -> Row \cup {None}], queued' \in [Lead -> [Rule -> Nat]],
         \A l \in Lead \ L : row'[l] = row[l] /\ queued'[l] = queued[l],
         \A l \in L :
           /\ Leads(e[l], row[l].stage, row'[l].stage)
           /\ Consistent(row'[l]) /\ row'[l].owner = row[l].owner
           /\ \A k \in Rule : \/ queued'[l][k] = queued[l][k]
                              \/ /\ queued'[l][k] = queued[l][k] + 1
                                 /\ \E j \in 1..Len(e[l]) : IsCause(e[l][j], k),
         UNCHANGED <<born, chosen, undone>>,
         UNCHANGED req \/ \E q \in Request : Finish(q)
  PROVE  IInv'
<1>1. timeline' \in [Lead -> Seq(Entry)]
  BY ConcatProperties DEF Grows, IInv, TypeOK
<1>2. req' \in [Request -> Open \cup {None}]
      /\ \A p \in Request : req'[p] = req[p] \/ req'[p] = None
  BY FinishType DEF IInv, TypeOK
<1>3. TypeOK'
  BY <1>1, <1>2 DEF IInv, TypeOK
<1>4. ASSUME NEW l \in Lead PROVE LeadOK(l)'
  <2>1. CASE l \notin L
    BY <2>1, SameLead DEF IInv, Grows
  <2>2. CASE l \in L
    <3>1. timeline'[l] = timeline[l] \o e[l] /\ e[l] \in Seq(Entry) /\ row[l] # None
      BY <2>2 DEF Grows, Existing
    <3> QED
      BY <2>2, <3>1, LockedLead DEF IInv
  <2> QED
    BY <2>1, <2>2
<1>5. (\A p \in Request : RequestOK(p))'
  BY <1>2, SameRequests DEF IInv
<1> QED
  BY <1>3, <1>4, <1>5 DEF IInv

\* An entry that stays at the stage of its lead.
Remark(l, kind, u) == [kind |-> kind, by |-> u, from |-> row[l].stage, to |-> row[l].stage]

LEMMA NoteStep ==
  ASSUME IInv, NEW l \in Existing, NEW kind \in Kind, NEW u \in Member, Note(l, kind, u),
         queued' \in [Lead -> [Rule -> Nat]],
         \A m \in Lead \ {l} : queued'[m] = queued[m],
         \A k \in Rule : \/ queued'[l][k] = queued[l][k]
                         \/ /\ queued'[l][k] = queued[l][k] + 1
                            /\ kind = "needs_time" /\ k = "delayed_followup",
         UNCHANGED <<row, born, chosen, undone>>,
         UNCHANGED req \/ \E q \in Request : Finish(q)
  PROVE  IInv'
<1> DEFINE x == Remark(l, kind, u)
           e == [m \in {l} |-> <<x>>]
<1>1. l \in Lead /\ row[l] \in Row /\ row[l] # None /\ LeadOK(l)
  BY DEF Existing, IInv, TypeOK
<1>2. x \in Entry /\ x.from = row[l].stage /\ x.to = row[l].stage /\ x.kind = kind
  BY <1>1 DEF Remark, Entry, Row
<1>3. timeline' = [timeline EXCEPT ![l] = Append(timeline[l], x)]
  BY DEF Note, Remark
<1>4. e[l] = <<x>>
  OBVIOUS
<1> HIDE DEF x, e
<1>5. /\ <<x>> \in Seq(Entry) /\ Len(<<x>>) = 1 /\ <<x>>[1] = x
      /\ Leads(<<x>>, row[l].stage, row[l].stage)
  BY <1>2, OneEntry
<1>6. Append(timeline[l], x) = timeline[l] \o <<x>>
  BY <1>1, <1>2, AppendIsConcat DEF IInv, TypeOK
<1>7. Grows({l}, e)
  BY <1>1, <1>3, <1>4, <1>5, <1>6 DEF Grows, IInv, TypeOK
<1>8. row' = row /\ row \in [Lead -> Row \cup {None}] /\ Consistent(row[l])
  BY <1>1 DEF IInv, TypeOK, LeadOK
<1>9. \A k \in Rule : \/ queued'[l][k] = queued[l][k]
                      \/ /\ queued'[l][k] = queued[l][k] + 1
                         /\ \E j \in 1..Len(e[l]) : IsCause(e[l][j], k)
  <2>1. ASSUME NEW k \in Rule, kind = "needs_time", k = "delayed_followup"
        PROVE  \E j \in 1..Len(e[l]) : IsCause(e[l][j], k)
    <3>1. 1 \in 1..Len(e[l]) /\ IsCause(e[l][1], k)
      BY <1>2, <1>4, <1>5, <2>1 DEF IsCause
    <3> QED
      BY <3>1
  <2> QED
    BY <2>1
<1>10. /\ Leads(e[l], row[l].stage, row'[l].stage)
       /\ Consistent(row'[l]) /\ row'[l].owner = row[l].owner
  BY <1>4, <1>5, <1>8
<1> DEFINE L == {l}
<1>11. /\ L \in SUBSET Existing /\ Grows(L, e)
       /\ \A m \in Lead \ L : row'[m] = row[m] /\ queued'[m] = queued[m]
       /\ UNCHANGED <<born, chosen, undone>>
  BY <1>7, <1>8
<1>12. \A m \in L :
         /\ Leads(e[m], row[m].stage, row'[m].stage)
         /\ Consistent(row'[m]) /\ row'[m].owner = row[m].owner
         /\ \A k \in Rule : \/ queued'[m][k] = queued[m][k]
                            \/ /\ queued'[m][k] = queued[m][k] + 1
                               /\ \E j \in 1..Len(e[m]) : IsCause(e[m][j], k)
  BY <1>9, <1>10
<1>13. row' \in [Lead -> Row \cup {None}]
  BY <1>8
<1> HIDE DEF L
<1> QED
  BY <1>11, <1>12, <1>13, LockedStep

\* The jobs that the on_commit hooks of the leads in L queue.
LEMMA ScheduleType ==
  ASSUME TypeOK, NEW L \in SUBSET Lead, NEW k \in Rule, Schedule(L, k)
  PROVE  /\ queued' \in [Lead -> [Rule -> Nat]]
         /\ \A l \in Lead \ L : queued'[l] = queued[l]
         /\ \A l \in Lead, j \in Rule :
              \/ queued'[l][j] = queued[l][j]
              \/ l \in L /\ j = k /\ queued'[l][j] = queued[l][j] + 1
<1>1. PICK done \in SUBSET L :
        queued' = [l \in Lead |-> [queued[l] EXCEPT ![k] = IF l \in done THEN @ + 1 ELSE @]]
  BY DEF Schedule
<1>2. queued \in [Lead -> [Rule -> Nat]]
  BY DEF TypeOK
<1>3. ASSUME NEW l \in Lead
      PROVE  /\ queued'[l] \in [Rule -> Nat]
             /\ l \notin L => queued'[l] = queued[l]
             /\ \A j \in Rule :
                  \/ queued'[l][j] = queued[l][j]
                  \/ l \in L /\ j = k /\ queued'[l][j] = queued[l][j] + 1
  <2>1. queued[l] \in [Rule -> Nat]
    BY <1>2
  <2>2. queued'[l] = [queued[l] EXCEPT ![k] = IF l \in done THEN queued[l][k] + 1 ELSE queued[l][k]]
    BY <1>1
  <2> QED
    BY <2>1, <2>2
<1>4. queued' = [l \in Lead |-> queued'[l]]
  BY <1>1
<1> QED
  BY <1>3, <1>4

\* An entry that a member makes by hand.
LEMMA ActivityStep ==
  ASSUME IInv, NEW q \in Request, NEW kind \in Manual, Activity(q, kind)
  PROVE  IInv'
<1> DEFINE l == req[q].lead
           u == req[q].by
<1>1. l \in Existing /\ u \in Member
  BY LoadedType DEF Activity, Loaded, Existing
<1>2. /\ Note(l, kind, u) /\ Finish(q) /\ UNCHANGED <<row, queued, born, chosen, undone>>
  BY DEF Activity
<1> HIDE DEF l, u
<1>3. queued' \in [Lead -> [Rule -> Nat]] /\ kind \in Kind
  BY <1>2 DEF IInv, TypeOK, Kind
<1> QED
  BY <1>1, <1>2, <1>3, NoteStep

\* A customer who needs time.
LEMMA DelayStep ==
  ASSUME IInv, NEW l \in Lead, NEW u \in Member, Delay(l, u),
         UNCHANGED req \/ \E q \in Request : Finish(q)
  PROVE  IInv'
<1>1. l \in Existing /\ "needs_time" \in Kind /\ "delayed_followup" \in Rule /\ {l} \in SUBSET Lead
  BY DEF Delay, Existing, Kind, Rule
<1>2. /\ Note(l, "needs_time", u) /\ Schedule({l}, "delayed_followup")
      /\ UNCHANGED <<row, born, chosen, undone>>
  BY DEF Delay
<1>3. /\ queued' \in [Lead -> [Rule -> Nat]]
      /\ \A m \in Lead \ {l} : queued'[m] = queued[m]
      /\ \A m \in Lead, j \in Rule :
           \/ queued'[m][j] = queued[m][j]
           \/ m \in {l} /\ j = "delayed_followup" /\ queued'[m][j] = queued[m][j] + 1
  BY <1>1, <1>2, ScheduleType DEF IInv
<1> QED
  BY <1>1, <1>2, <1>3, NoteStep

\* transition_lead leaves a consistent row with the same owner.
LEMMA MovedIs ==
  ASSUME NEW old \in Row, NEW s \in Stage, NEW why \in Reason \cup {None},
         s = "lost" => why # None, Consistent(old)
  PROVE  /\ Moved(old, s, why) \in Row /\ Consistent(Moved(old, s, why))
         /\ Moved(old, s, why).stage = s /\ Moved(old, s, why).owner = old.owner
<1> DEFINE c == s \in Closed
           r == Why(s, why)
           new == [stage |-> s, reason |-> r, closed |-> c, owner |-> old.owner]
<1>1. r \in Reason \cup {None} /\ (s = "lost" => r # None)
  BY DEF Why
<1>2. old.owner \in Member /\ c \in BOOLEAN
  BY DEF Row
<1>3. Moved(old, s, why) = new \/ (Moved(old, s, why) = old /\ old.stage = s)
  BY DEF Moved
<1>4. c <=> s \in Closed
  OBVIOUS
<1> HIDE DEF c, r
<1>5. new \in Row /\ new.owner = old.owner /\ new.stage = s
  BY <1>1, <1>2 DEF Row
<1>6. (new.closed <=> c) /\ new.stage = s /\ new.reason = r
  BY <1>2
<1> HIDE DEF new
<1>7. Consistent(new)
  BY <1>1, <1>4, <1>6 DEF Consistent
<1> QED
  BY <1>3, <1>5, <1>7

LEMMA TransitionStep ==
  ASSUME IInv, NEW L \in SUBSET Existing, NEW s \in Stage, NEW why \in Reason \cup {None},
         NEW u \in Member, NEW noted \in BOOLEAN, Transition(L, s, why, u, noted),
         UNCHANGED req \/ \E q \in Request : Finish(q)
  PROVE  IInv'
<1> DEFINE e == [l \in L |-> Events(row[l], s, why, u, noted)]
<1>1. ASSUME NEW l \in L PROVE l \in Lead /\ row[l] \in Row /\ Consistent(row[l])
  BY DEF Existing, IInv, TypeOK, LeadOK
<1>2. ASSUME NEW l \in L
      PROVE  /\ e[l] \in Seq(Entry) /\ Leads(e[l], row[l].stage, s)
             /\ row[l].stage # s => 1 \in 1..Len(e[l]) /\ e[l][1].kind = "stage_change" /\ e[l][1].to = s
  <2>1. e[l] = Events(row[l], s, why, u, noted)
    OBVIOUS
  <2> HIDE DEF e
  <2> QED
    BY <1>1, <2>1, EventsLead
<1>3. timeline' = [l \in Lead |-> IF l \in L THEN timeline[l] \o e[l] ELSE timeline[l]]
  BY DEF Transition
<1>4. /\ row' = [l \in Lead |-> IF l \in L THEN Moved(row[l], s, why) ELSE row[l]]
      /\ UNCHANGED <<born, chosen, undone>>
      /\ s = "lost" => why # None
  BY DEF Transition
<1> HIDE DEF e
<1>5. ASSUME NEW l \in L
      PROVE  /\ row'[l] \in Row /\ Consistent(row'[l])
             /\ row'[l].stage = s /\ row'[l].owner = row[l].owner
  BY <1>1, <1>4, MovedIs
<1>6. row' \in [Lead -> Row \cup {None}] /\ \A l \in Lead \ L : row'[l] = row[l]
  BY <1>4, <1>5 DEF IInv, TypeOK
<1>7. Grows(L, e)
  BY <1>2, <1>3 DEF Grows
<1>8. rule_for_stage(s) \subseteq Rule
  BY DEF rule_for_stage, Rule, Stage
<1>9. /\ queued' \in [Lead -> [Rule -> Nat]]
      /\ \A l \in Lead \ L : queued'[l] = queued[l]
      /\ \A l \in L, k \in Rule :
           \/ queued'[l][k] = queued[l][k]
           \/ /\ queued'[l][k] = queued[l][k] + 1
              /\ row[l].stage # s /\ k \in rule_for_stage(s)
  <2>1. CASE rule_for_stage(s) = {}
    <3>1. queued' = queued
      BY <2>1 DEF Transition
    <3> QED
      BY <3>1 DEF IInv, TypeOK
  <2>2. CASE rule_for_stage(s) # {}
    <3>1. PICK k \in rule_for_stage(s) : Schedule(Turned(L, s), k)
      BY <2>2 DEF Transition
    <3>2. k \in Rule /\ Turned(L, s) \in SUBSET Lead /\ Turned(L, s) \subseteq L
      BY <1>1, <1>8 DEF Turned
    <3>3. /\ queued' \in [Lead -> [Rule -> Nat]]
          /\ \A l \in Lead \ Turned(L, s) : queued'[l] = queued[l]
          /\ \A l \in Lead, j \in Rule :
               \/ queued'[l][j] = queued[l][j]
               \/ l \in Turned(L, s) /\ j = k /\ queued'[l][j] = queued[l][j] + 1
      BY <3>1, <3>2, ScheduleType DEF IInv
    <3>4. \A l \in Turned(L, s) : row[l].stage # s
      BY DEF Turned
    <3> QED
      BY <1>1, <3>1, <3>2, <3>3, <3>4
  <2> QED
    BY <2>1, <2>2
<1>10. ASSUME NEW l \in L
       PROVE  /\ Leads(e[l], row[l].stage, row'[l].stage)
              /\ Consistent(row'[l]) /\ row'[l].owner = row[l].owner
              /\ \A k \in Rule : \/ queued'[l][k] = queued[l][k]
                                 \/ /\ queued'[l][k] = queued[l][k] + 1
                                    /\ \E j \in 1..Len(e[l]) : IsCause(e[l][j], k)
  <2>1. ASSUME NEW k \in Rule, row[l].stage # s, k \in rule_for_stage(s)
        PROVE  \E j \in 1..Len(e[l]) : IsCause(e[l][j], k)
    <3>1. 1 \in 1..Len(e[l]) /\ IsCause(e[l][1], k)
      BY <1>2, <2>1 DEF IsCause
    <3> QED
      BY <3>1
  <2> QED
    BY <1>2, <1>5, <1>9, <2>1
<1>11. \A l \in Lead \ L : row'[l] = row[l] /\ queued'[l] = queued[l]
  BY <1>6, <1>9
<1> QED
  BY <1>4, <1>6, <1>7, <1>9, <1>10, <1>11, LockedStep

LEMMA BulkAssignStep ==
  ASSUME IInv, NEW u \in Manager, NEW L \in SUBSET Lead, NEW o \in Member, BulkAssign(u, L, o)
  PROVE  IInv'
<1> DEFINE M == L \cap Existing
<1>1. /\ M \in SUBSET Existing
      /\ row' = [l \in Lead |-> IF l \in M THEN [row[l] EXCEPT !.owner = o] ELSE row[l]]
      /\ chosen' = [l \in Lead |-> IF l \in M THEN o ELSE chosen[l]]
      /\ UNCHANGED <<timeline, queued, req, born, undone>>
  BY DEF BulkAssign
<1> HIDE DEF M
<1> QED
  BY <1>1, OwnerStep

------------------------------------------------------------------------------
(* The theorems.                                                           *)

LEMMA NextIInv ==
  ASSUME IInv, [Next]_vars
  PROVE  IInv'
<1>1. ASSUME NEW q \in Request, NEW u \in Member, NEW new \in Row, NEW confirmed \in BOOLEAN,
             Check(q, u, new, confirmed)
      PROVE  IInv'
  BY <1>1, ProposeStep DEF Check
<1>2. ASSUME NEW q \in Request, NEW u \in Member, NEW new \in Row, Import(q, u, new)
      PROVE  IInv'
  BY <1>2, ProposeStep DEF Import
<1>3. ASSUME NEW q \in Request, Drop(q) PROVE IInv'
  <2>1. /\ Finish(q) /\ UNCHANGED <<row, timeline, queued, born, chosen, undone>>
    BY <1>3 DEF Drop
  <2>2. TypeOK'
    BY <2>1, FinishType DEF IInv, TypeOK
  <2>3. \A l \in Lead : LeadOK(l)'
    BY <2>1, SameLead DEF IInv
  <2>4. (\A p \in Request : RequestOK(p))'
    BY <2>1, FinishType, SameRequests DEF IInv
  <2> QED
    BY <2>2, <2>3, <2>4 DEF IInv
<1>4. ASSUME NEW q \in Request, NEW s \in Stage, NEW why \in Reason \cup {None},
             NEW noted \in BOOLEAN, WebMove(q, s, why, noted)
      PROVE  IInv'
  <2>1. req[q].by \in Member /\ {req[q].lead} \in SUBSET Existing
    BY <1>4, LoadedType DEF WebMove, Visible, Loaded
  <2> QED
    BY <1>4, <2>1, TransitionStep DEF WebMove
<1>5. ASSUME NEW u \in Member, NEW l \in Lead, NEW s \in Stage, NEW why \in Reason \cup {None},
             ApiMove(u, l, s, why)
      PROVE  IInv'
  <2>1. {l} \in SUBSET Existing /\ FALSE \in BOOLEAN
    BY <1>5 DEF ApiMove, Visible
  <2> QED
    BY <1>5, <2>1, TransitionStep DEF ApiMove
<1>6. ASSUME NEW u \in Manager, NEW L \in SUBSET Lead, NEW s \in Stage,
             NEW why \in Reason \cup {None}, BulkMove(u, L, s, why)
      PROVE  IInv'
  <2>1. L \cap Existing \in SUBSET Existing /\ u \in Member /\ FALSE \in BOOLEAN
    BY DEF Member
  <2> QED
    BY <1>6, <2>1, TransitionStep DEF BulkMove
<1>7. ASSUME NEW q \in Request, WebDelay(q) PROVE IInv'
  BY <1>7, LoadedType, DelayStep DEF WebDelay, Loaded
<1>8. ASSUME NEW u \in Member, NEW l \in Lead, ApiDelay(u, l) PROVE IInv'
  BY <1>8, DelayStep DEF ApiDelay
<1>9. ASSUME UNCHANGED vars PROVE IInv'
  <2>1. UNCHANGED <<row, timeline, queued, req, born, chosen, undone>>
    BY <1>9 DEF vars
  <2>2. TypeOK'
    BY <2>1 DEF IInv, TypeOK
  <2>3. \A l \in Lead : LeadOK(l)'
    BY <2>1, SameLead DEF IInv
  <2>4. (\A p \in Request : RequestOK(p))'
    BY <2>1, SameRequests DEF IInv
  <2> QED
    BY <2>2, <2>3, <2>4 DEF IInv
<1> QED
  BY <1>1, <1>2, <1>3, <1>4, <1>5, <1>6, <1>7, <1>8, <1>9, InsertStep, LoadStep, SaveStep,
     AssignStep, DeleteStep, ActivityStep, BulkAssignStep DEF Next

\* Every state the program can reach satisfies the inductive invariant.
THEOREM Invariance == Spec => []IInv
<1>1. Init => IInv
  BY InitIInv
<1>2. IInv /\ [Next]_vars => IInv'
  BY NextIInv
<1> QED
  BY <1>1, <1>2, PTL DEF Spec

\* The tables keep their types, whoever saves what.
THEOREM TypeCorrect == Spec => []TypeOK
<1>1. IInv => TypeOK
  BY DEF IInv
<1> QED
  BY <1>1, Invariance, PTL

\* A lead has a closing date exactly when it is won or lost and a reason when it
\* is lost, after any mixture of transitions, imports and whole-row saves.
THEOREM RowIsConsistentCorrect == Spec => []RowIsConsistent
<1>1. IInv => RowIsConsistent
  BY DEF IInv, LeadOK, Consistent, RowIsConsistent, Existing
<1> QED
  BY <1>1, Invariance, PTL

\* The entries of a timeline that name their stages tell how the lead came to its
\* stage, with none missing and none too many, unless a stale row was saved over
\* it.  What a member makes by hand names no stages.
THEOREM TimelineExplainsStageCorrect == Spec => []TimelineExplainsStage
<1>1. IInv => TimelineExplainsStage
  BY DEF IInv, LeadOK, Explains, TimelineExplainsStage, Existing
<1> QED
  BY <1>1, Invariance, PTL

\* A lead stays with the member its creator or a manager chose last, unless a
\* stale row was saved over it.
THEOREM AssignmentStaysCorrect == Spec => []AssignmentStays
<1>1. IInv => AssignmentStays
  BY DEF IInv, LeadOK, AssignmentStays, Existing
<1> QED
  BY <1>1, Invariance, PTL

\* Every automated follow-up that was queued has a change of its own on the
\* timeline.
THEOREM JobsHaveCausesCorrect == Spec => []JobsHaveCauses
<1>1. IInv => JobsHaveCauses
  <2> SUFFICES ASSUME IInv, NEW l \in Existing \ undone, NEW k \in Rule
               PROVE  queued[l][k] <= Cardinality(Causes(l, k))
    BY DEF JobsHaveCauses
  <2>1. l \in Lead /\ row[l] # None /\ LeadOK(l)
    BY DEF Existing, IInv
  <2>2. Causes(l, k) = CauseSet(timeline[l], k)
    BY <2>1, CausesIs
  <2> QED
    BY <2>1, <2>2 DEF LeadOK
<1> QED
  BY <1>1, Invariance, PTL

------------------------------------------------------------------------------
(* Moves of salespeople.                                                   *)

\* The entry that a step adds to the timeline of lead l at place i is no move by
\* a salesperson whose lead it is not.
OwnMove(l, i) ==
  timeline'[l][i].kind = "stage_change" /\ timeline'[l][i].by \in Agent
    => row[l].owner = timeline'[l][i].by

Moves == \A l \in Lead : \A i \in (Len(timeline[l]) + 1)..Len(timeline'[l]) : OwnMove(l, i)

\* Nothing is added to a timeline that stays.
LEMMA SameTimeline ==
  ASSUME TypeOK, UNCHANGED timeline
  PROVE  Moves
BY DEF TypeOK, Moves

LEMMA TimelineType ==
  ASSUME TypeOK, NEW l \in Lead
  PROVE  timeline[l] \in Seq(Entry) /\ Len(timeline[l]) \in Nat
BY LenProperties DEF TypeOK

LEMMA InsertMoves ==
  ASSUME IInv, NEW q \in Request, Insert(q)
  PROVE  Moves
<1> DEFINE l == req[q].lead
           new == req[q].row
           x == [kind |-> "captured", by |-> req[q].by, from |-> new.stage, to |-> new.stage]
<1>1. timeline' = [timeline EXCEPT ![l] = <<x>>] /\ x.kind = "captured"
  BY DEF Insert
<1>2. Len(<<x>>) = 1 /\ <<x>>[1] = x
  OBVIOUS
<1> HIDE DEF l, new, x
<1>3. ASSUME NEW m \in Lead, NEW i \in (Len(timeline[m]) + 1)..Len(timeline'[m])
      PROVE  OwnMove(m, i)
  <2>1. timeline[m] \in Seq(Entry) /\ Len(timeline[m]) \in Nat
    BY TimelineType DEF IInv
  <2>2. m = l
    BY <1>1, <1>3, <2>1 DEF IInv, TypeOK
  <2>3. timeline'[m] = <<x>>
    BY <1>1, <2>2 DEF IInv, TypeOK
  <2>4. i = 1
    BY <1>2, <1>3, <2>1, <2>3
  <2> QED
    BY <1>1, <1>2, <2>3, <2>4 DEF OwnMove
<1> QED
  BY <1>3 DEF Moves

LEMMA DeleteMoves ==
  ASSUME IInv, NEW q \in Request, Delete(q)
  PROVE  Moves
<1> DEFINE l == req[q].lead
<1>1. timeline' = [timeline EXCEPT ![l] = <<>>]
  BY DEF Delete
<1> HIDE DEF l
<1>2. ASSUME NEW m \in Lead PROVE Len(timeline'[m]) <= Len(timeline[m]) /\ Len(timeline'[m]) \in Nat
  <2>1. timeline[m] \in Seq(Entry) /\ Len(timeline[m]) \in Nat
    BY TimelineType DEF IInv
  <2>2. timeline'[m] = timeline[m] \/ timeline'[m] = <<>>
    BY <1>1 DEF IInv, TypeOK
  <2>3. Len(<<>>) = 0
    OBVIOUS
  <2> QED
    BY <2>1, <2>2, <2>3
<1> QED
  BY <1>2, TimelineType DEF IInv, Moves

LEMMA NoteMoves ==
  ASSUME IInv, NEW l \in Lead, NEW kind, NEW u \in Member, Note(l, kind, u), kind # "stage_change",
         row[l] # None
  PROVE  Moves
<1> DEFINE x == Remark(l, kind, u)
<1>1. timeline' = [timeline EXCEPT ![l] = Append(timeline[l], x)] /\ x.kind = kind
  BY DEF Note, Remark
<1> HIDE DEF x
<1>2. ASSUME NEW m \in Lead, NEW i \in (Len(timeline[m]) + 1)..Len(timeline'[m])
      PROVE  OwnMove(m, i)
  <2>1. timeline[m] \in Seq(Entry) /\ Len(timeline[m]) \in Nat
    BY TimelineType DEF IInv
  <2>2. m = l
    BY <1>1, <1>2, <2>1 DEF IInv, TypeOK
  <2>3. timeline'[m] = Append(timeline[m], x)
    BY <1>1, <2>2 DEF IInv, TypeOK
  <2>4. i = Len(timeline[m]) + 1
    BY <1>2, <2>1, <2>3
  <2>5. timeline'[m][i] = x
    BY <2>1, <2>3, <2>4
  <2> QED
    BY <1>1, <2>5 DEF OwnMove
<1> QED
  BY <1>2 DEF Moves

LEMMA TransitionMoves ==
  ASSUME IInv, NEW L \in SUBSET Existing, NEW s \in Stage, NEW why, NEW u \in Member,
         NEW noted \in BOOLEAN, Transition(L, s, why, u, noted),
         u \in Agent => \A l \in L : row[l].owner = u
  PROVE  Moves
<1>1. ASSUME NEW m \in Lead, NEW i \in (Len(timeline[m]) + 1)..Len(timeline'[m])
      PROVE  OwnMove(m, i)
  <2> DEFINE e == Events(row[m], s, why, u, noted)
             n == Len(timeline[m])
  <2>1. timeline[m] \in Seq(Entry) /\ n \in Nat
    BY TimelineType DEF IInv
  <2>2. timeline'[m] = IF m \in L THEN timeline[m] \o e ELSE timeline[m]
    BY DEF Transition
  <2>3. m \in L
    <3>1. CASE m \notin L
      <4>1. timeline'[m] = timeline[m]
        BY <2>2, <3>1
      <4> QED
        BY <1>1, <2>1, <4>1
    <3> QED
      BY <3>1
  <2>4. row[m] \in Row
    BY <2>3 DEF Existing, IInv, TypeOK
  <2>5. e \in Seq(Entry) /\ \A j \in 1..Len(e) : e[j].by = u
    BY <2>4, EventsLead
  <2> HIDE DEF e
  <2>6. Len(e) \in Nat /\ Len(timeline'[m]) = n + Len(e)
    BY <2>1, <2>2, <2>3, <2>5, ConcatProperties, LenProperties
  <2>7. /\ i \in 1..n + Len(e) /\ ~(i <= n)
        /\ i - n \in 1..Len(e)
    BY <1>1, <2>1, <2>6
  <2>8. timeline'[m][i] = e[i - n]
    BY <2>1, <2>2, <2>3, <2>5, <2>7, ConcatProperties
  <2>9. timeline'[m][i].by = u
    BY <2>5, <2>7, <2>8
  <2> QED
    BY <2>3, <2>9 DEF OwnMove
<1> QED
  BY <1>1 DEF Moves

LEMMA NextMoves ==
  ASSUME IInv, Next
  PROVE  Moves
<1>1. TypeOK
  BY DEF IInv
<1>2. ASSUME NEW q \in Request, NEW u \in Member, NEW new \in Row, NEW confirmed \in BOOLEAN,
             Check(q, u, new, confirmed) \/ Import(q, u, new)
      PROVE  Moves
  BY <1>1, <1>2, SameTimeline DEF Check, Import, Propose
<1>3. ASSUME NEW q \in Request, NEW u \in Member, NEW l \in Lead, Load(q, u, l)
      PROVE  Moves
  BY <1>1, <1>3, SameTimeline DEF Load
<1>4. ASSUME NEW q \in Request, Drop(q) \/ \E o \in Member : Save(q, o) \/ Assign(q, o)
      PROVE  Moves
  BY <1>1, <1>4, SameTimeline DEF Drop, Save, Assign
<1>5. ASSUME NEW q \in Request, NEW kind \in Manual, Activity(q, kind) PROVE Moves
  BY <1>5, LoadedType, NoteMoves DEF Activity, Loaded, Manual
<1>6. ASSUME NEW q \in Request, NEW s \in Stage, NEW why \in Reason \cup {None},
             NEW noted \in BOOLEAN, WebMove(q, s, why, noted)
      PROVE  Moves
  <2> DEFINE L == {req[q].lead}
             u == req[q].by
  <2>1. /\ u \in Member /\ L \in SUBSET Existing
        /\ Transition(L, s, why, u, noted)
    BY <1>6, LoadedType DEF WebMove, Visible, Loaded
  <2>2. u \in Agent => \A l \in L : row[l].owner = u
    BY <1>6, PipelineAssumption DEF WebMove, Visible
  <2> HIDE DEF L, u
  <2> QED
    BY <2>1, <2>2, TransitionMoves
<1>7. ASSUME NEW q \in Request, WebDelay(q) PROVE Moves
  BY <1>7, LoadedType, NoteMoves DEF WebDelay, Loaded, Delay
<1>8. ASSUME NEW u \in Member, NEW l \in Lead, NEW s \in Stage, NEW why \in Reason \cup {None},
             ApiMove(u, l, s, why)
      PROVE  Moves
  <2> DEFINE L == {l}
  <2>1. FALSE \in BOOLEAN /\ L \in SUBSET Existing /\ Transition(L, s, why, u, FALSE)
    BY <1>8 DEF ApiMove, Visible
  <2>2. u \in Agent => \A m \in L : row[m].owner = u
    BY <1>8, PipelineAssumption DEF ApiMove, Visible
  <2> HIDE DEF L
  <2> QED
    BY <2>1, <2>2, TransitionMoves
<1>9. ASSUME NEW u \in Member, NEW l \in Lead, ApiDelay(u, l) PROVE Moves
  BY <1>9, NoteMoves DEF ApiDelay, Delay
<1>10. ASSUME NEW u \in Manager, NEW L \in SUBSET Lead, NEW s \in Stage,
              NEW why \in Reason \cup {None}, BulkMove(u, L, s, why)
       PROVE  Moves
  <2> DEFINE M == L \cap Existing
  <2>1. /\ FALSE \in BOOLEAN /\ M \in SUBSET Existing /\ Transition(M, s, why, u, FALSE)
        /\ u \in Member /\ u \notin Agent
    BY <1>10, PipelineAssumption DEF BulkMove, Member
  <2> HIDE DEF M
  <2> QED
    BY <2>1, TransitionMoves
<1>11. ASSUME NEW u \in Manager, NEW L \in SUBSET Lead, NEW o \in Member, BulkAssign(u, L, o)
       PROVE  Moves
  BY <1>1, <1>11, SameTimeline DEF BulkAssign
<1> QED
  BY <1>2, <1>3, <1>4, <1>5, <1>6, <1>7, <1>8, <1>9, <1>10, <1>11, InsertMoves, DeleteMoves
     DEF Next

\* A salesperson moves a lead only while it is theirs, whatever was read before:
\* transition_lead records no change of theirs on another's lead.
THEOREM MovesAreOwnCorrect == Spec => MovesAreOwn
<1>1. IInv /\ [Next]_vars =>
        [\A l \in Lead : \A i \in (Len(timeline[l]) + 1)..Len(timeline'[l]) :
           timeline'[l][i].kind = "stage_change" /\ timeline'[l][i].by \in Agent
             => row[l].owner = timeline'[l][i].by]_vars
  BY NextMoves DEF Moves, OwnMove
<1> QED
  BY <1>1, Invariance, PTL DEF Spec, MovesAreOwn
==============================================================================
