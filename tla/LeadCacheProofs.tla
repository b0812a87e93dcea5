--------------------------- MODULE LeadCacheProofs ---------------------------
(***************************************************************************)
(* A cached list shows what was invalidated before it was asked for, for   *)
(* any number of readers and changes, as long as invalidations do not      *)
(* overlap.                                                                *)
(***************************************************************************)
EXTENDS LeadCache, FiniteSetTheorems, TLAPS

\* One request at a time changes leads; LeadCacheRace.cfg has two.
OneWriter == \A v, w \in Writer : v = w

\* The version follows the changes: a change that is not invalidated yet leaves
\* room for the next version.
VersionOK ==
  /\ version <= leads + 1
  /\ \A w \in Writer :
       /\ wpc[w] # "idle" => version <= leads /\ change[w] <= leads /\ leads >= 1
       /\ wpc[w] = "read" => seen[w] <= leads /\ seen[w] >= 1 /\ version <= seen[w]
  /\ invalidated <= leads
  /\ version <= 1 => invalidated = 0

\* Entries of versions to come are empty, but for those of version 1, to which a
\* request falls back; those of the current one show all that was invalidated.
EntriesOK ==
  /\ \A v \in Version : v > version /\ v > 1 => entry[v] = {}
  /\ \A v \in Version : v = version => \A x \in entry[v] : x >= invalidated

\* A request that read the version and has its key.
Sighted(r) == rpc[r] \notin {"idle", "unversioned", "added"} /\ ~blind[r]

\* What it may find or store under its key shows what it has to, and the same is
\* due to all such readers of a key.  A version, once read, does not go missing.
ReadersOK ==
  \A r \in Reader :
    /\ Sighted(r) =>
         /\ key[r] <= version /\ due[r] <= invalidated
         /\ key[r] = version => due[r] = invalidated
         /\ key[r] = 1 => due[r] = 0
         /\ \A x \in entry[key[r]] : x >= due[r]
         /\ \A s \in Reader : Sighted(s) /\ key[s] = key[r] => due[s] = due[r]
         /\ rpc[r] \in {"queried", "answered"} => payload[r] >= due[r]
    /\ rpc[r] = "added" => version >= 1
    /\ rpc[r] # "idle" /\ blind[r] => key[r] = 1
    /\ rpc[r] \in {"idle", "unversioned", "added"} => ~blind[r]

IInv == TypeOK /\ VersionOK /\ EntriesOK /\ ReadersOK

LEMMA InitIInv == Init => IInv
<1> SUFFICES ASSUME Init PROVE IInv
  OBVIOUS
<1>1. TypeOK
  BY MaxChangesAssumption DEF Init, TypeOK, Version, Response
<1>2. VersionOK
  BY DEF Init, VersionOK
<1>3. EntriesOK /\ ReadersOK
  BY DEF Init, EntriesOK, ReadersOK, Sighted
<1> QED
  BY <1>1, <1>2, <1>3 DEF IInv

LEMMA WriterIInv ==
  ASSUME OneWriter, IInv, NEW w \in Writer, WriterStep(w)
  PROVE  IInv'
<1> USE MaxChangesAssumption
<1>1. CASE Commit(w)
  <2>1. TypeOK'
    BY <1>1 DEF Commit, readerVars, IInv, TypeOK, Version, Response
  <2>2. VersionOK'
    BY <1>1, OneWriter DEF OneWriter, Commit, IInv, TypeOK, VersionOK, Version, Response
  <2>3. EntriesOK' /\ ReadersOK'
    BY <1>1 DEF Commit, readerVars, IInv, EntriesOK, ReadersOK, Sighted
  <2> QED
    BY <2>1, <2>2, <2>3 DEF IInv
<1>2. CASE ReadVersion(w)
  <2>1. TypeOK'
    BY <1>2 DEF ReadVersion, readerVars, IInv, TypeOK, Version, Response
  <2>2. VersionOK'
    BY <1>2 DEF ReadVersion, IInv, TypeOK, VersionOK, Version, Response
  <2>3. EntriesOK' /\ ReadersOK'
    BY <1>2 DEF ReadVersion, readerVars, IInv, EntriesOK, ReadersOK, Sighted
  <2> QED
    BY <2>1, <2>2, <2>3 DEF IInv
<1>3. CASE WriteVersion(w)
  <2>1. /\ version' = seen[w] + 1 /\ wpc[w] = "read" /\ wpc' = [wpc EXCEPT ![w] = "idle"]
        /\ UNCHANGED <<leads, entry, seen, change, rpc, key, payload, blind, due>>
        /\ invalidated' = IF change[w] > invalidated THEN change[w] ELSE invalidated
    BY <1>3 DEF WriteVersion, Invalidated, readerVars
  <2>2. /\ seen[w] <= leads /\ seen[w] >= 1 /\ version <= seen[w] /\ change[w] <= leads
        /\ leads <= MaxChanges /\ leads \in Nat /\ seen[w] \in Nat /\ version \in Nat
        /\ change[w] \in Nat /\ invalidated \in Nat /\ invalidated <= leads
    BY <2>1 DEF IInv, TypeOK, VersionOK, Version, Response
  <2>3. /\ version' \in Version /\ version' > version /\ version' <= leads + 1 /\ version' > 1
        /\ invalidated' \in Response /\ invalidated' >= invalidated /\ invalidated' <= leads
    BY <2>1, <2>2 DEF Version, Response
  <2>4. TypeOK'
    BY <2>1, <2>3 DEF IInv, TypeOK
  <2>5. \A v \in Writer : wpc'[v] = "idle"
    BY <2>1, OneWriter DEF OneWriter, IInv, TypeOK
  <2>6. VersionOK'
    BY <2>1, <2>3, <2>5 DEF VersionOK
  <2>7. EntriesOK'
    BY <2>1, <2>2, <2>3 DEF IInv, EntriesOK, Version
  <2>8. ReadersOK'
    <3>1. ASSUME NEW r \in Reader, Sighted(r)
          PROVE  key[r] < version' /\ due[r] <= invalidated'
      BY <2>2, <2>3, <3>1 DEF IInv, ReadersOK, TypeOK, Version, Response
    <3>2. \A r \in Reader : key[r] \in Nat
      BY DEF IInv, TypeOK, Version
    <3>3. \A r \in Reader : Sighted(r)' <=> Sighted(r)
      BY <2>1 DEF Sighted
    <3> QED
      BY <2>1, <2>2, <2>3, <3>1, <3>2, <3>3 DEF IInv, ReadersOK
  <2> QED
    BY <2>4, <2>6, <2>7, <2>8 DEF IInv
<1>4. CASE SkipInvalidation(w)
  <2>1. TypeOK'
    BY <1>4 DEF SkipInvalidation, readerVars, IInv, TypeOK
  <2>2. VersionOK'
    BY <1>4 DEF SkipInvalidation, IInv, TypeOK, VersionOK
  <2>3. EntriesOK' /\ ReadersOK'
    BY <1>4 DEF SkipInvalidation, readerVars, IInv, EntriesOK, ReadersOK, Sighted
  <2> QED
    BY <2>1, <2>2, <2>3 DEF IInv
<1> QED
  BY <1>1, <1>2, <1>3, <1>4 DEF WriterStep

LEMMA ReaderIInv ==
  ASSUME IInv, NEW r \in Reader, ReaderStep(r)
  PROVE  IInv'
<1> USE MaxChangesAssumption
<1>0. \A s \in Reader : s # r => UNCHANGED <<rpc[s], key[s], blind[s], due[s], payload[s]>>
  BY DEF ReaderStep, BuildKey, Keyed, AddVersion, ReadAdded, FallBack, Hit, Miss, Query, Store,
         StoreNothing, Answer, IInv, TypeOK
<1>1. ASSUME NEW v \in Version, v = version, Keyed(r, v), UNCHANGED blind, ~blind[r],
             UNCHANGED <<leads, version, entry, writerVars, payload, invalidated>>
      PROVE  IInv'
  <2>1. TypeOK'
    BY <1>1 DEF Keyed, writerVars, IInv, TypeOK
  <2>2. VersionOK' /\ EntriesOK'
    BY <1>1 DEF writerVars, IInv, VersionOK, EntriesOK
  <2>3. key'[r] = v /\ due'[r] = invalidated /\ rpc'[r] = "keyed" /\ ~blind'[r]
    BY <1>1 DEF Keyed, IInv, TypeOK
  <2>4. (\A x \in entry[v] : x >= invalidated) /\ (v = 1 => invalidated = 0) /\ invalidated \in Nat
    BY <1>1 DEF IInv, TypeOK, VersionOK, EntriesOK, Response
  <2>5. ASSUME NEW s \in Reader, s # r
        PROVE  /\ UNCHANGED <<rpc[s], key[s], blind[s], due[s], payload[s]>>
               /\ Sighted(s)' <=> Sighted(s)
    BY <1>0, <2>5 DEF Sighted
  <2>6. UNCHANGED <<version, entry, invalidated>> /\ v \in Nat
    BY <1>1 DEF Version
  <2>7. ASSUME NEW s \in Reader, s # r, Sighted(s), key[s] = v PROVE due[s] = invalidated
    BY <1>1, <2>7 DEF IInv, ReadersOK
  <2>8. \A s \in Reader : rpc[s] = "added" => version >= 1
    BY DEF IInv, ReadersOK
  <2>9. ReadersOK'
    BY <1>1, <2>3, <2>4, <2>5, <2>6, <2>7, <2>8 DEF IInv, ReadersOK
  <2> QED
    BY <2>1, <2>2, <2>9 DEF IInv
<1>b. CASE BuildKey(r)
  <2>1. CASE version = 0
    <3>1. TypeOK'
      BY <1>b, <2>1 DEF BuildKey, writerVars, IInv, TypeOK
    <3>2. VersionOK' /\ EntriesOK'
      BY <1>b, <2>1 DEF BuildKey, writerVars, IInv, VersionOK, EntriesOK
    <3>3. ReadersOK'
      BY <1>0, <1>b, <2>1 DEF BuildKey, IInv, TypeOK, ReadersOK, Sighted
    <3> QED
      BY <3>1, <3>2, <3>3 DEF IInv
  <2>2. CASE version # 0
    BY <1>1, <1>b, <2>2 DEF BuildKey, IInv, TypeOK, ReadersOK, Sighted
  <2> QED
    BY <2>1, <2>2
<1>a. CASE AddVersion(r)
  <2>1. /\ version' = (IF version = 0 THEN 1 ELSE version) /\ rpc[r] = "unversioned"
        /\ rpc' = [rpc EXCEPT ![r] = "added"]
        /\ UNCHANGED <<leads, entry, wpc, seen, change, key, payload, blind, due, invalidated>>
    BY <1>a DEF AddVersion, writerVars
  <2>2. /\ version \in Nat /\ leads \in Nat /\ version' \in Version /\ version' >= 1
        /\ version # 0 => version' = version
    BY <2>1 DEF IInv, TypeOK, Version, Response
  <2>3. TypeOK'
    BY <2>1, <2>2 DEF IInv, TypeOK
  <2>4. VersionOK'
    BY <2>1, <2>2 DEF IInv, TypeOK, VersionOK, Version, Response
  <2>5. EntriesOK'
    <3>1. version = 0 => invalidated = 0 /\ \A v \in Version : \A x \in entry[v] : x >= 0
      BY DEF IInv, TypeOK, VersionOK, Version, Response
    <3> QED
      BY <2>1, <2>2, <3>1 DEF IInv, EntriesOK, Version
  <2>6. \A s \in Reader : Sighted(s)' <=> Sighted(s)
    BY <2>1 DEF Sighted, IInv, TypeOK
  <2>7. version = 0 => \A s \in Reader : ~Sighted(s)
    BY DEF IInv, TypeOK, ReadersOK, Version
  <2>8. ReadersOK'
    BY <1>0, <2>1, <2>2, <2>6, <2>7 DEF IInv, ReadersOK, TypeOK
  <2> QED
    BY <2>3, <2>4, <2>5, <2>8 DEF IInv
<1>c. CASE ReadAdded(r)
  BY <1>1, <1>c DEF ReadAdded, IInv, TypeOK, ReadersOK
<1>d. CASE FallBack(r)
  <2>1. /\ key'[r] = 1 /\ rpc'[r] = "keyed" /\ blind'[r]
        /\ UNCHANGED <<leads, version, entry, wpc, seen, change, payload, invalidated>>
    BY <1>d DEF FallBack, Keyed, writerVars, IInv, TypeOK
  <2>2. TypeOK'
    BY <1>d DEF FallBack, Keyed, writerVars, IInv, TypeOK, Version
  <2>3. VersionOK' /\ EntriesOK'
    BY <2>1 DEF IInv, VersionOK, EntriesOK
  <2>4. ReadersOK'
    BY <1>0, <2>1 DEF IInv, ReadersOK, Sighted
  <2> QED
    BY <2>2, <2>3, <2>4 DEF IInv
<1>2. CASE Hit(r)
  <2>1. TypeOK'
    BY <1>2 DEF Hit, writerVars, IInv, TypeOK
  <2>2. VersionOK' /\ EntriesOK'
    BY <1>2 DEF Hit, writerVars, IInv, VersionOK, EntriesOK
  <2>3. ReadersOK'
    BY <1>2 DEF Hit, IInv, TypeOK, ReadersOK, Sighted
  <2> QED
    BY <2>1, <2>2, <2>3 DEF IInv
<1>3. CASE Miss(r)
  <2>1. TypeOK'
    BY <1>3 DEF Miss, writerVars, IInv, TypeOK
  <2>2. VersionOK' /\ EntriesOK'
    BY <1>3 DEF Miss, writerVars, IInv, VersionOK, EntriesOK
  <2>3. ReadersOK'
    BY <1>3 DEF Miss, IInv, TypeOK, ReadersOK, Sighted
  <2> QED
    BY <2>1, <2>2, <2>3 DEF IInv
<1>4. CASE Query(r)
  <2>1. TypeOK'
    BY <1>4 DEF Query, writerVars, IInv, TypeOK
  <2>2. VersionOK' /\ EntriesOK'
    BY <1>4 DEF Query, writerVars, IInv, VersionOK, EntriesOK
  <2>3. Sighted(r) => leads >= due[r]
    BY <1>4 DEF Query, IInv, TypeOK, VersionOK, ReadersOK, Response
  <2>4. ReadersOK'
    BY <1>0, <1>4, <2>3 DEF Query, IInv, TypeOK, ReadersOK, Sighted
  <2> QED
    BY <2>1, <2>2, <2>4 DEF IInv
<1>5. CASE Store(r)
  <2>1. /\ entry' = [entry EXCEPT ![key[r]] = {payload[r]}] /\ rpc[r] = "queried"
        /\ rpc' = [rpc EXCEPT ![r] = "answered"]
        /\ UNCHANGED <<leads, version, wpc, seen, change, key, payload, blind, due, invalidated>>
    BY <1>5 DEF Store, writerVars
  <2>2. key[r] \in Version /\ payload[r] \in Response /\ version \in Nat /\ key[r] \in Nat
    BY <2>1 DEF IInv, TypeOK, Version
  <2>3. TypeOK'
    BY <2>1, <2>2 DEF IInv, TypeOK
  <2>4. VersionOK'
    BY <2>1 DEF IInv, VersionOK
  <2>5. \A v \in Version : entry'[v] = IF v = key[r] THEN {payload[r]} ELSE entry[v]
    BY <2>1 DEF IInv, TypeOK
  <2>6. \A s \in Reader : /\ key[s] \in Version /\ (Sighted(s)' <=> Sighted(s))
                          /\ (rpc'[s] # "idle" <=> rpc[s] # "idle")
                          /\ (rpc'[s] \in {"queried", "answered"} <=> rpc[s] \in {"queried", "answered"})
    BY <2>1 DEF IInv, TypeOK, Sighted
  <2>7. CASE Sighted(r)
    <3>1. /\ payload[r] >= due[r] /\ key[r] <= version /\ (key[r] = version => due[r] = invalidated)
          /\ \A s \in Reader : Sighted(s) /\ key[s] = key[r] => due[s] = due[r]
      BY <2>1, <2>7 DEF IInv, ReadersOK
    <3>2. EntriesOK'
      BY <2>1, <2>2, <2>5, <3>1 DEF IInv, EntriesOK, Version
    <3>3. ReadersOK'
      BY <1>0, <2>1, <2>2, <2>5, <2>6, <3>1 DEF IInv, ReadersOK
    <3> QED
      BY <2>3, <2>4, <3>2, <3>3 DEF IInv
  <2>8. CASE ~Sighted(r)
    <3>1. key[r] = 1 /\ payload[r] >= 0
      BY <2>1, <2>2, <2>8 DEF IInv, ReadersOK, Sighted, Response
    <3>2. EntriesOK'
      BY <2>1, <2>2, <2>5, <3>1 DEF IInv, TypeOK, EntriesOK, VersionOK, Version
    <3>3. \A s \in Reader : Sighted(s) /\ key[s] = key[r] => due[s] = 0
      BY <3>1 DEF IInv, ReadersOK
    <3>4. ReadersOK'
      BY <1>0, <2>1, <2>2, <2>5, <2>6, <3>1, <3>3 DEF IInv, ReadersOK
    <3> QED
      BY <2>3, <2>4, <3>2, <3>4 DEF IInv
  <2> QED
    BY <2>7, <2>8
<1>6. CASE StoreNothing(r)
  <2>1. TypeOK'
    BY <1>6 DEF StoreNothing, writerVars, IInv, TypeOK
  <2>2. VersionOK' /\ EntriesOK'
    BY <1>6 DEF StoreNothing, writerVars, IInv, VersionOK, EntriesOK
  <2>3. ReadersOK'
    BY <1>6 DEF StoreNothing, IInv, TypeOK, ReadersOK, Sighted
  <2> QED
    BY <2>1, <2>2, <2>3 DEF IInv
<1>7. CASE Answer(r)
  <2>1. TypeOK'
    BY <1>7 DEF Answer, writerVars, IInv, TypeOK, Version, Response
  <2>2. VersionOK' /\ EntriesOK'
    BY <1>7 DEF Answer, writerVars, IInv, VersionOK, EntriesOK
  <2>3. rpc'[r] = "idle" /\ blind'[r] = FALSE /\ UNCHANGED <<version, entry, invalidated>>
    BY <1>7 DEF Answer, IInv, TypeOK
  <2>4. ReadersOK'
    BY <1>0, <2>3 DEF IInv, ReadersOK, Sighted
  <2> QED
    BY <2>1, <2>2, <2>4 DEF IInv
<1> QED
  BY <1>a, <1>b, <1>c, <1>d, <1>2, <1>3, <1>4, <1>5, <1>6, <1>7 DEF ReaderStep

LEMMA NextIInv ==
  ASSUME OneWriter, IInv, [Next]_vars
  PROVE  IInv'
<1>1. ASSUME NEW v \in Version, Expire(v) PROVE IInv'
  <2>1. TypeOK'
    BY <1>1 DEF Expire, writerVars, readerVars, IInv, TypeOK
  <2>2. VersionOK'
    BY <1>1 DEF Expire, writerVars, IInv, VersionOK
  <2>3. \A u \in Version : entry'[u] \subseteq entry[u]
    BY <1>1 DEF Expire, IInv, TypeOK
  <2>4. EntriesOK'
    BY <1>1, <2>3 DEF Expire, IInv, EntriesOK
  <2>5. ReadersOK'
    BY <1>1, <2>3 DEF Expire, readerVars, IInv, TypeOK, ReadersOK, Sighted
  <2> QED
    BY <2>1, <2>2, <2>4, <2>5 DEF IInv
<1>2. ASSUME UNCHANGED vars PROVE IInv'
  BY <1>2 DEF vars, writerVars, readerVars, IInv, TypeOK, VersionOK, EntriesOK, ReadersOK, Sighted
<1> QED
  BY <1>1, <1>2, WriterIInv, ReaderIInv DEF Next

\* The inductive invariant: entries are read and written under the version that
\* a request saw first, and that version says what is due to it.
THEOREM Invariance ==
  ASSUME OneWriter
  PROVE  Spec => []IInv
<1>1. Init => IInv
  BY InitIInv
<1>2. IInv /\ [Next]_vars => IInv'
  BY NextIInv, OneWriter
<1> QED
  BY <1>1, <1>2, PTL DEF Spec

\* A list request that could read the version shows every change whose invalidation
\* was over by then, whatever readers store late under older keys, and whatever those
\* store that Redis failed and that took the version for 1.
THEOREM InvalidatedChangesShowCorrect ==
  ASSUME OneWriter
  PROVE  Spec => []InvalidatedChangesShow
<1>1. IInv => InvalidatedChangesShow
  BY DEF IInv, ReadersOK, Sighted, InvalidatedChangesShow
<1> QED
  BY <1>1, OneWriter, Invariance, PTL

------------------------------------------------------------------------------
(* Writers that overlap.                                                   *)

Pending == {w \in Writer : wpc[w] # "idle"}

\* Every version follows a change of its own: those whose invalidation is still
\* to come leave room for as many versions, and so does what each has read.
RoomFor(n) == n + Cardinality(Pending) <= leads + 1

Counted ==
  /\ IsFiniteSet(Pending)
  /\ RoomFor(version) /\ RoomFor(1)
  /\ \A r \in Reader : rpc[r] = "added" => version >= 1
  /\ \A w \in Writer : wpc[w] = "read" => seen[w] >= 1 /\ RoomFor(seen[w])

LEMMA CountingWriters ==
  ASSUME TypeOK, Counted, NEW w \in Writer, WriterStep(w)
  PROVE  TypeOK' /\ Counted'
<1> USE MaxChangesAssumption
<1>1. /\ Cardinality(Pending) \in Nat /\ leads \in Nat /\ version \in Nat
      /\ leads <= MaxChanges /\ version <= MaxChanges + 1
      /\ \A v \in Writer : seen[v] \in Nat /\ seen[v] <= MaxChanges + 1
  BY FS_CardinalityType DEF Counted, TypeOK, Version, Response
<1>a. \A r \in Reader : rpc'[r] = "added" => version' >= 1
  <2>1. UNCHANGED rpc /\ (version' = version \/ (wpc[w] = "read" /\ version' = seen[w] + 1))
    BY DEF WriterStep, Commit, ReadVersion, WriteVersion, SkipInvalidation, readerVars
  <2>2. version' >= version \/ version' >= 1
    BY <1>1, <2>1 DEF Counted
  <2> QED
    BY <1>1, <2>1, <2>2 DEF Counted
<1>2. CASE Commit(w)
  <2>1. /\ leads' = leads + 1 /\ leads < MaxChanges /\ wpc[w] = "idle"
        /\ wpc' = [wpc EXCEPT ![w] = "committed"]
        /\ change' = [change EXCEPT ![w] = leads']
        /\ UNCHANGED <<version, entry, seen, readerVars, invalidated>>
    BY <1>2 DEF Commit
  <2>2. Pending' = Pending \cup {w} /\ w \notin Pending
    BY <2>1 DEF TypeOK, Pending
  <2>3. IsFiniteSet(Pending') /\ Cardinality(Pending') = Cardinality(Pending) + 1
    BY <2>2, FS_AddElement DEF Counted
  <2>4. TypeOK'
    BY <1>1, <2>1 DEF TypeOK, readerVars, Response
  <2>5. \A v \in Writer : wpc'[v] = "read" => wpc[v] = "read"
    BY <2>1 DEF TypeOK
  <2> QED
    BY <1>a, <1>1, <2>1, <2>3, <2>4, <2>5 DEF Counted, RoomFor
<1>3. CASE ReadVersion(w)
  <2>1. /\ wpc[w] = "committed" /\ wpc' = [wpc EXCEPT ![w] = "read"]
        /\ seen' = [seen EXCEPT ![w] = IF version = 0 THEN 1 ELSE version]
        /\ UNCHANGED <<leads, version, entry, change, readerVars, invalidated>>
    BY <1>3 DEF ReadVersion
  <2>2. Pending' = Pending
    BY <2>1 DEF TypeOK, Pending
  <2>3. TypeOK'
    BY <1>1, <2>1 DEF TypeOK, readerVars, Version
  <2>4. /\ seen'[w] = IF version = 0 THEN 1 ELSE version
        /\ \A v \in Writer : v # w => seen'[v] = seen[v] /\ wpc'[v] = wpc[v]
    BY <2>1 DEF TypeOK
  <2> QED
    BY <1>a, <1>1, <2>1, <2>2, <2>3, <2>4 DEF Counted, RoomFor
<1>4. CASE WriteVersion(w) \/ SkipInvalidation(w)
  <2>1. /\ wpc[w] # "idle" /\ wpc' = [wpc EXCEPT ![w] = "idle"]
        /\ UNCHANGED <<leads, entry, seen, change, readerVars>>
        /\ \/ wpc[w] = "read" /\ version' = seen[w] + 1
           \/ version' = version
        /\ invalidated' \in {change[w], invalidated}
    BY <1>4 DEF WriteVersion, SkipInvalidation, Invalidated
  <2>2. Pending' = Pending \ {w} /\ w \in Pending
    BY <2>1 DEF TypeOK, Pending
  <2>3. IsFiniteSet(Pending') /\ Cardinality(Pending') = Cardinality(Pending) - 1
    BY <2>2, FS_RemoveElement DEF Counted
  <2>4. Cardinality(Pending') \in Nat
    BY <2>3, FS_CardinalityType
  <2>5. version' \in Nat /\ version' + Cardinality(Pending') <= leads + 1
    BY <1>1, <2>1, <2>3 DEF Counted, RoomFor
  <2>6. TypeOK'
    BY <1>1, <2>1, <2>4, <2>5 DEF TypeOK, readerVars, Version, Response
  <2>7. \A v \in Writer : wpc'[v] = "read" => wpc[v] = "read"
    BY <2>1 DEF TypeOK
  <2> QED
    BY <1>a, <1>1, <2>1, <2>3, <2>4, <2>5, <2>6, <2>7 DEF Counted, RoomFor
<1> QED
  BY <1>2, <1>3, <1>4 DEF WriterStep

LEMMA CountingReaders ==
  ASSUME TypeOK, Counted, NEW r \in Reader, ReaderStep(r)
  PROVE  TypeOK' /\ Counted'
<1> USE MaxChangesAssumption
<1>1. TypeOK'
  <2>0. 1 \in Version /\ 0 \in Response /\ (version # 0 => version \in Version)
    BY DEF TypeOK, Version, Response
  <2>1. CASE BuildKey(r)
    BY <2>0, <2>1 DEF BuildKey, Keyed, writerVars, TypeOK
  <2>6. CASE AddVersion(r)
    BY <2>0, <2>6 DEF AddVersion, writerVars, TypeOK
  <2>7. CASE ReadAdded(r)
    <3>1. version \in Version
      BY <2>0, <2>7 DEF ReadAdded, Counted
    <3> QED
      BY <2>7, <3>1 DEF ReadAdded, Keyed, writerVars, TypeOK
  <2>8. CASE FallBack(r)
    BY <2>0, <2>8 DEF FallBack, Keyed, writerVars, TypeOK
  <2>2. CASE Hit(r)
    BY <2>2 DEF Hit, writerVars, TypeOK
  <2>3. CASE Query(r)
    BY <2>3 DEF Query, writerVars, TypeOK
  <2>4. CASE Store(r)
    BY <2>4 DEF Store, writerVars, TypeOK
  <2>5. CASE Miss(r) \/ StoreNothing(r)
    BY <2>5 DEF Miss, StoreNothing, writerVars, TypeOK
  <2>9. CASE Answer(r)
    BY <2>0, <2>9 DEF Answer, writerVars, TypeOK
  <2> QED
    BY <2>1, <2>2, <2>3, <2>4, <2>5, <2>6, <2>7, <2>8, <2>9 DEF ReaderStep
<1>2. UNCHANGED <<wpc, seen, leads>> /\ (version' = version \/ (version = 0 /\ version' = 1))
  BY DEF ReaderStep, BuildKey, AddVersion, ReadAdded, FallBack, Hit, Miss, Query, Store, StoreNothing, Answer, writerVars
<1>3. ASSUME NEW s \in Reader, rpc'[s] = "added" PROVE version' >= 1
  <2>1. rpc[s] = "added" \/ (s = r /\ AddVersion(r))
    BY <1>3 DEF ReaderStep, BuildKey, Keyed, AddVersion, ReadAdded, FallBack, Hit, Miss, Query, Store,
                StoreNothing, Answer, TypeOK
  <2> QED
    BY <1>2, <2>1 DEF AddVersion, Counted, TypeOK, Version
<1> QED
  BY <1>1, <1>2, <1>3 DEF Counted, RoomFor, Pending

\* Keys, entries and versions are those that the changes allow for, however many
\* invalidations overlap: versions may repeat, but they do not run ahead.
THEOREM TypeCorrect == Spec => []TypeOK
<1>1. Init => TypeOK /\ Counted
  <2> SUFFICES ASSUME Init PROVE TypeOK /\ Counted
    OBVIOUS
  <2>1. TypeOK
    BY MaxChangesAssumption DEF Init, TypeOK, Version, Response
  <2>2. Pending = {}
    BY DEF Init, Pending
  <2>3. IsFiniteSet(Pending) /\ Cardinality(Pending) = 0
    BY <2>2, FS_EmptySet
  <2> QED
    BY <2>1, <2>3 DEF Init, Counted, RoomFor
<1>2. TypeOK /\ Counted /\ [Next]_vars => (TypeOK /\ Counted)'
  <2> SUFFICES ASSUME TypeOK, Counted, [Next]_vars PROVE (TypeOK /\ Counted)'
    OBVIOUS
  <2>1. ASSUME NEW v \in Version, Expire(v) PROVE (TypeOK /\ Counted)'
    BY <2>1 DEF Expire, writerVars, readerVars, TypeOK, Counted, RoomFor, Pending
  <2>2. CASE UNCHANGED vars
    BY <2>2 DEF vars, writerVars, readerVars, TypeOK, Counted, RoomFor, Pending
  <2> QED
    BY <2>1, <2>2, CountingWriters, CountingReaders DEF Next
<1> QED
  BY <1>1, <1>2, PTL DEF Spec

==============================================================================
