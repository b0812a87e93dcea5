---------------------------- MODULE MailSyncProofs ----------------------------
(***************************************************************************)
(* No message falls out of the window of the next sync before it has its   *)
(* row, for any number of messages and of overlapping, failing and dying   *)
(* tasks, as long as no sync takes longer than the window reaches back and *)
(* the day the provider is asked for begins no later there than in UTC.    *)
(***************************************************************************)
EXTENDS MailSync, TLAPS

------------------------------------------------------------------------------
(* The inductive invariants.                                               *)

\* What is recorded of the past is not in the future, and a task lists only
\* what had arrived.
Past ==
  /\ \A m \in Mail : arrived[m] <= now
  /\ synced <= now
  /\ \A k \in Sync : since[k] <= now /\ began[k] <= now
  /\ \A k \in Sync : \A m \in todo[k] : Delivered(m)

Base == TypeOK /\ Past

\* The task holds a window.
Open(k) == step[k] \in {"loaded", "listing"}

\* A message that misses and was not too old for the first sync.
Due(m) == synced # Never /\ Missing(m) /\ arrived[m] >= floor

\* A sync that has listed its messages is not older than a sync may be, and its
\* window reaches back at least as far as that.
Prompt ==
  /\ \A k \in Sync : step[k] = "listing" => now <= began[k] + Patience
  /\ \A k \in Sync : Open(k) => since[k] = 0 \/ since[k] + Overlap <= now

\* What misses on the list of a task, though it was served from, arrived after it
\* was made; and what is due is in every window, those of open tasks and the next.
Covered ==
  /\ \A k \in Sync, m \in Mail :
       step[k] = "listing" /\ Missing(m) /\ arrived[m] >= ServedFrom(since[k])
         => m \in todo[k] \/ arrived[m] >= began[k]
  /\ \A k \in Sync, m \in Mail : Open(k) /\ Due(m) => arrived[m] >= since[k]
  /\ \A m \in Mail : Due(m) => arrived[m] >= Window

IInv == Base /\ Prompt /\ Covered

\* A window begins between the start of the clock and now, and when it does not
\* begin with the clock it reaches back by the overlap at least.
LEMMA WindowBounds ==
  ASSUME Base
  PROVE  /\ Window \in Time /\ Window <= now
         /\ Window = 0 \/ Window + Overlap <= now
BY OverlapAssumption, BackfillAssumption, BoundsAssumption
DEF Base, TypeOK, Past, Window, Back, Time, Never

\* A day begins no later than any moment of it.
LEMMA DayStarts ==
  ASSUME NEW t \in Nat
  PROVE  (t \div Day) * Day \in Int /\ (t \div Day) * Day <= t
<1>1. Day \in Nat /\ Day > 0
  BY ProviderAssumption
<1> QED
  BY <1>1, Z3

LEMMA ServedBounds ==
  ASSUME NEW t \in Nat
  PROVE  /\ ServedFrom(t) \in Int
         /\ Zone <= 0 => ServedFrom(t) <= t
BY DayStarts, ProviderAssumption DEF ServedFrom

LEMMA InitBase == Init => Base
<1> SUFFICES ASSUME Init PROVE Base
  OBVIOUS
<1>1. TypeOK
  BY BoundsAssumption DEF Init, TypeOK, Time, Status, Kind, Never
<1>2. Past
  BY DEF Init, Past, Never
<1> QED
  BY <1>1, <1>2 DEF Base

LEMMA InitIInv == Init => IInv
<1> SUFFICES ASSUME Init PROVE IInv
  OBVIOUS
<1>1. Prompt /\ Covered
  BY DEF Init, Prompt, Covered, Open, Due, Missing, Delivered
<1> QED
  BY <1>1, InitBase DEF IInv

------------------------------------------------------------------------------
(* Every step keeps the types.                                             *)

\* A step that frees a task's slot or sends it back to the queue.
Slot(k) == (Over(k) \/ Retry(k)) /\ UNCHANGED <<now, mailVars>>

\* A step of a request, of the beat or of the token's clock, which publishes at
\* most one task.
Ask ==
  /\ UNCHANGED <<now, synced, floor, mailVars, taskVars>>
  /\ UNCHANGED step \/ \E k \in Sync : Publish(k)

LEMMA SlotBase ==
  ASSUME Base, NEW k \in Sync, Slot(k), status' \in Status, secrets' \subseteq Secret,
         UNCHANGED reach, synced' \in {synced, now}, floor' \in Int
  PROVE  Base'
<1> USE DEF Base, Slot
<1>1. TypeOK'
  BY BoundsAssumption DEF TypeOK, Over, Retry, Forget, mailVars, Time, Delivered
<1>2. Past'
  BY BoundsAssumption DEF Past, TypeOK, Over, Retry, Forget, mailVars, Time, Delivered
<1> QED
  BY <1>1, <1>2

LEMMA AskBase ==
  ASSUME Base, Ask, status' \in Status, secrets' \subseteq Secret, reach' \in Backfill
  PROVE  Base'
<1> USE DEF Base, Ask
<1>1. TypeOK'
  BY DEF TypeOK, Publish, mailVars, taskVars, Delivered
<1>2. Past'
  BY DEF Past, mailVars, taskVars, Delivered
<1> QED
  BY <1>1, <1>2

\* The steps of requests, of the beat and of the token's clock are such steps.
LEMMA Asked ==
  ASSUME Base,
         \/ Expire \/ ConnectOAuth \/ ConnectImap \/ Disconnect
         \/ \E k \in Sync : SyncAll(k) \/ Notify(k)
  PROVE  Ask /\ status' \in Status /\ secrets' \subseteq Secret /\ reach' \in Backfill
<1> USE DEF Base, TypeOK, Ask, Status
<1>1. CASE Expire
  BY <1>1 DEF Expire, jobVars
<1>2. CASE ConnectOAuth
  BY <1>2 DEF ConnectOAuth, Connect
<1>3. CASE ConnectImap
  BY <1>3 DEF ConnectImap, Connect, Secret
<1>4. CASE Disconnect
  BY <1>4 DEF Disconnect, jobVars
<1>5. CASE \E k \in Sync : SyncAll(k) \/ Notify(k)
  BY <1>5 DEF SyncAll, Notify, boxVars
<1> QED
  BY <1>1, <1>2, <1>3, <1>4, <1>5

\* The steps that end a task or send it back are such steps, and but for a finish
\* they leave the window of the next sync alone.
LEMMA Slotted ==
  ASSUME Base, NEW k \in Sync,
         Lose(k) \/ Refuse(k) \/ Fail(k) \/ \E m \in Mail : Choke(k, m)
  PROVE  /\ Slot(k) /\ UNCHANGED <<synced, reach, floor>>
         /\ status' \in Status /\ secrets' \subseteq Secret
<1> USE DEF Base, TypeOK, Slot, Status
<1>1. CASE Lose(k)
  BY <1>1 DEF Lose, boxVars
<1>2. CASE Refuse(k) \/ Fail(k)
  BY <1>2 DEF Refuse, Fail, Report
<1>3. CASE \E m \in Mail : Choke(k, m)
  BY <1>3 DEF Choke, boxVars
<1> QED
  BY <1>1, <1>2, <1>3

LEMMA Finished ==
  ASSUME Base, NEW k \in Sync, Finish(k)
  PROVE  /\ Slot(k) /\ UNCHANGED reach /\ synced' = now
         /\ floor' = IF synced = Never THEN ServedFrom(since[k]) ELSE floor
         /\ floor' \in Int /\ status' \in Status /\ secrets' \subseteq Secret
<1>1. since[k] \in Nat
  BY BoundsAssumption DEF Base, TypeOK, Time
<1> QED
  BY <1>1, ServedBounds DEF Base, TypeOK, Finish, Slot, Status

LEMMA NextBase == Base /\ [Next]_vars => Base'
<1> SUFFICES ASSUME Base, [Next]_vars PROVE Base'
  OBVIOUS
<1> USE DEF Base
<1>1. CASE Tick
  <2>1. TypeOK'
    BY <1>1, BoundsAssumption
    DEF Tick, TypeOK, boxVars, mailVars, jobVars, taskVars, Time, Delivered
  <2>2. Past'
    BY <1>1 DEF Tick, TypeOK, Past, boxVars, mailVars, jobVars, taskVars, Time, Delivered, Never
  <2> QED
    BY <2>1, <2>2
<1>2. ASSUME NEW m \in Mail, Arrive(m) PROVE Base'
  <2>1. TypeOK'
    BY <1>2 DEF Arrive, TypeOK, boxVars, jobVars, taskVars, Time, Delivered, Never
  <2>2. Past'
    BY <1>2 DEF Arrive, TypeOK, Past, boxVars, jobVars, taskVars, Time, Delivered, Never
  <2> QED
    BY <2>1, <2>2
<1>3. CASE Expire \/ ConnectOAuth \/ ConnectImap \/ Disconnect
            \/ \E k \in Sync : SyncAll(k) \/ Notify(k)
  BY <1>3, Asked, AskBase
<1>4. ASSUME NEW k \in Sync,
             Lose(k) \/ Refuse(k) \/ Fail(k) \/ \E m \in Mail : Choke(k, m)
      PROVE  Base'
  <2>1. floor \in Int
    BY DEF TypeOK
  <2> QED
    BY <1>4, <2>1, Slotted, SlotBase
<1>5. ASSUME NEW k \in Sync, Load(k) PROVE Base'
  <2>1. Window \in Time /\ Window <= now
    BY WindowBounds
  <2>2. TypeOK'
    BY <1>5, <2>1 DEF Load, TypeOK, boxVars, mailVars, Delivered
  <2>3. Past'
    BY <1>5, <2>1 DEF Load, TypeOK, Past, boxVars, mailVars, Delivered
  <2> QED
    BY <2>2, <2>3
<1>6. ASSUME NEW k \in Sync, List(k) PROVE Base'
  <2>1. TypeOK'
    BY <1>6, BoundsAssumption DEF List, TypeOK, Secret, mailVars, Time, Delivered
  <2>2. Past'
    BY <1>6 DEF List, TypeOK, Past, mailVars, Time, Delivered
  <2> QED
    BY <2>1, <2>2
<1>7. ASSUME NEW k \in Sync, NEW m \in Mail, Pass(k, m) \/ Ingest(k, m) PROVE Base'
  <2>1. TypeOK'
    BY <1>7 DEF Pass, Ingest, TypeOK, Past, boxVars, Delivered
  <2>2. Past'
    BY <1>7 DEF Pass, Ingest, TypeOK, Past, boxVars, Delivered
  <2> QED
    BY <2>1, <2>2
<1>8. ASSUME NEW k \in Sync, Finish(k) PROVE Base'
  BY <1>8, Finished, SlotBase
<1>9. CASE UNCHANGED vars
  <2>1. TypeOK' /\ Past'
    BY <1>9 DEF TypeOK, Past, Delivered, vars, boxVars, mailVars, jobVars, taskVars
  <2> QED
    BY <2>1
<1> QED
  BY <1>1, <1>2, <1>3, <1>4, <1>5, <1>6, <1>7, <1>8, <1>9 DEF Next

------------------------------------------------------------------------------
(* Every step keeps the windows.                                           *)

\* Steps that free a slot and leave the window of the next sync alone.
LEMMA SlotKeeps ==
  ASSUME IInv, NEW k \in Sync, Slot(k), UNCHANGED <<synced, floor>>
  PROVE  (Prompt /\ Covered)'
<1> USE DEF IInv, Base, Slot
<1>1. \A j \in Sync : \/ step'[j] \in {"free", "queued"}
                      \/ step'[j] = step[j] /\ since'[j] = since[j] /\ began'[j] = began[j]
                         /\ todo'[j] = todo[j]
  BY DEF TypeOK, Over, Retry, Forget
<1>2. Prompt'
  BY <1>1 DEF Prompt, Open
<1>3. \A m \in Mail : Due(m)' => Due(m) /\ Window' = Window
  BY DEF Due, Missing, Delivered, Window, mailVars
<1>4. Covered'
  BY <1>1, <1>3 DEF Covered, Open, Missing, Delivered, mailVars, ServedFrom
<1> QED
  BY <1>2, <1>4

LEMMA AskKeeps ==
  ASSUME IInv, Ask
  PROVE  (Prompt /\ Covered)'
<1> USE DEF IInv, Base, Ask
<1>1. \A j \in Sync : /\ since'[j] = since[j] /\ began'[j] = began[j] /\ todo'[j] = todo[j]
                      /\ step'[j] = "queued" \/ step'[j] = step[j]
  BY DEF TypeOK, Publish, taskVars
<1>2. Prompt'
  BY <1>1 DEF Prompt, Open
<1>3. \A m \in Mail : Due(m)' => Due(m) /\ Window' = Window
  BY DEF Due, Missing, Delivered, Window, mailVars
<1>4. Covered'
  BY <1>1, <1>3 DEF Covered, Open, Missing, Delivered, mailVars, ServedFrom
<1> QED
  BY <1>2, <1>4

\* A sync that ends was prompt, so what still misses arrived within the overlap.
LEMMA FinishKeeps ==
  ASSUME Zone <= 0, IInv, NEW k \in Sync, Finish(k), Base'
  PROVE  (Prompt /\ Covered)'
<1> USE DEF IInv, Base
<1>1. \A j \in Sync : \/ step'[j] = "free"
                      \/ step'[j] = step[j] /\ since'[j] = since[j] /\ began'[j] = began[j]
                         /\ todo'[j] = todo[j]
  BY DEF Finish, TypeOK, Over, Forget
<1>2. Prompt'
  BY <1>1 DEF Prompt, Open, Finish
<1>3. ASSUME NEW m \in Mail, Due(m)'
      PROVE  arrived[m] \in Nat /\ arrived[m] + Overlap >= now
  <2>1. Missing(m) /\ arrived[m] >= floor'
    BY <1>3 DEF Due, Missing, Delivered, Finish, mailVars
  <2>2. arrived[m] \in Nat /\ since[k] \in Nat
    BY <2>1, BoundsAssumption DEF Missing, Delivered, TypeOK, Time
  <2>3. ServedFrom(since[k]) \in Int /\ ServedFrom(since[k]) <= since[k]
    BY <2>2, ServedBounds
  <2>4. arrived[m] >= ServedFrom(since[k])
    <3>1. CASE synced = Never
      BY <3>1, <2>1, Finished
    <3>2. CASE synced # Never
      <4>1. floor' = floor
        BY <3>2, Finished
      <4>2. Due(m)
        BY <3>2, <4>1, <2>1 DEF Due
      <4>3. arrived[m] >= since[k]
        BY <4>2 DEF Covered, Open, Finish
      <4> QED
        BY <4>3, <2>2, <2>3
    <3> QED
      BY <3>1, <3>2
  <2>5. arrived[m] >= began[k]
    BY <2>1, <2>4 DEF Covered, Finish
  <2>6. now <= began[k] + Patience
    BY DEF Prompt, Finish
  <2> QED
    BY <2>2, <2>5, <2>6, PatienceAssumption, OverlapAssumption, BoundsAssumption DEF TypeOK, Time
<1>4. \A m \in Mail : Due(m)' => arrived[m] >= Window'
  <2>1. Window' = Back(now, Overlap)
    BY BoundsAssumption DEF Finish, Window, TypeOK, Time, Never
  <2> QED
    BY <1>3, <2>1, OverlapAssumption, BoundsAssumption DEF Back, TypeOK, Time
<1>5. \A j \in Sync, m \in Mail : Open(j)' /\ Due(m)' => arrived[m] >= since'[j]
  <2> SUFFICES ASSUME NEW j \in Sync, NEW m \in Mail, Open(j)', Due(m)'
               PROVE  arrived[m] >= since[j]
    BY <1>1 DEF Open
  <2>1. since[j] = 0 \/ since[j] + Overlap <= now
    BY <1>1 DEF Open, Prompt
  <2> QED
    BY <2>1, <1>3, OverlapAssumption, BoundsAssumption DEF TypeOK, Time
<1>6. \A j \in Sync, m \in Mail :
        step'[j] = "listing" /\ Missing(m)' /\ arrived[m] >= ServedFrom(since'[j])
          => m \in todo'[j] \/ arrived[m] >= began'[j]
  BY <1>1 DEF Covered, Missing, Delivered, Finish, mailVars
<1>7. Covered'
  BY <1>4, <1>5, <1>6 DEF Covered, Finish, mailVars, ServedFrom
<1> QED
  BY <1>2, <1>7

LEMMA NextIInv == Zone <= 0 /\ IInv /\ [Next]_vars => IInv'
<1> SUFFICES ASSUME Zone <= 0, IInv, [Next]_vars PROVE (Prompt /\ Covered)'
  BY NextBase DEF IInv
<1>0. Base'
  BY NextBase DEF IInv
<1> USE DEF IInv, Base
<1>1. CASE Tick
  <2>1. \A k \in Sync : Open(k)' <=> Open(k)
    BY <1>1 DEF Tick, Open, jobVars
  <2>2. Prompt'
    <3>1. \A k \in Sync : step'[k] = "listing" => now' <= began'[k] + Patience
      BY <1>1, PatienceAssumption, OverlapAssumption DEF Tick, TypeOK, jobVars, taskVars, Time
    <3>2. \A k \in Sync : Open(k)' => since'[k] = 0 \/ since'[k] + Overlap <= now'
      BY <1>1, <2>1, OverlapAssumption, BoundsAssumption
      DEF Tick, Prompt, TypeOK, jobVars, taskVars, Time
    <3> QED
      BY <3>1, <3>2 DEF Prompt
  <2>3. \A m \in Mail : Due(m)' => Due(m) /\ Window' = Window
    BY <1>1 DEF Tick, Due, Missing, Delivered, Window, boxVars, mailVars
  <2>4. Covered'
    BY <1>1, <2>1, <2>3
    DEF Tick, Covered, Missing, Delivered, mailVars, jobVars, taskVars, ServedFrom
  <2> QED
    BY <2>2, <2>4
<1>2. ASSUME NEW m \in Mail, Arrive(m) PROVE (Prompt /\ Covered)'
  <2>1. Prompt'
    BY <1>2 DEF Arrive, Prompt, Open, jobVars, taskVars
  <2>2. Window' = Window /\ Window <= now
    BY <1>2, WindowBounds DEF Arrive, Window, boxVars
  <2>3. Covered'
    <3>1. \A k \in Sync : since'[k] = since[k] /\ began'[k] = began[k] /\ todo'[k] = todo[k]
                          /\ step'[k] = step[k] /\ since[k] <= now /\ began[k] <= now
      BY <1>2 DEF Arrive, jobVars, taskVars, Past
    <3>2. \A n \in Mail : Due(n)' => (Due(n) /\ arrived'[n] = arrived[n]) \/ arrived'[n] = now
      BY <1>2 DEF Arrive, TypeOK, Due, Missing, Delivered, boxVars
    <3>3. \A n \in Mail : Missing(n)' => (Missing(n) /\ arrived'[n] = arrived[n]) \/ arrived'[n] = now
      BY <1>2 DEF Arrive, TypeOK, Missing, Delivered
    <3>4. \A k \in Sync, n \in Mail :
            step'[k] = "listing" /\ Missing(n)' /\ arrived'[n] >= ServedFrom(since'[k])
              => n \in todo'[k] \/ arrived'[n] >= began'[k]
      BY <3>1, <3>3 DEF Covered
    <3>5. \A k \in Sync, n \in Mail : Open(k)' /\ Due(n)' => arrived'[n] >= since'[k]
      BY <3>1, <3>2 DEF Covered, Open
    <3>6. \A n \in Mail : Due(n)' => arrived'[n] >= Window'
      BY <2>2, <3>2 DEF Covered
    <3> QED
      BY <3>4, <3>5, <3>6 DEF Covered, ServedFrom
  <2> QED
    BY <2>1, <2>3
<1>3. CASE Expire \/ ConnectOAuth \/ ConnectImap \/ Disconnect
            \/ \E k \in Sync : SyncAll(k) \/ Notify(k)
  BY <1>3, Asked, AskKeeps
<1>4. ASSUME NEW k \in Sync,
             Lose(k) \/ Refuse(k) \/ Fail(k) \/ \E m \in Mail : Choke(k, m)
      PROVE  (Prompt /\ Covered)'
  BY <1>4, Slotted, SlotKeeps
<1>5. ASSUME NEW k \in Sync, Load(k) PROVE (Prompt /\ Covered)'
  <2>1. /\ Window = 0 \/ Window + Overlap <= now
        /\ Window' = Window /\ now' = now
    BY <1>5, WindowBounds DEF Load, Window, boxVars
  <2>2. /\ step[k] = "queued" /\ step'[k] = "loaded" /\ since'[k] = Window
        /\ \A j \in Sync \ {k} : step'[j] = step[j] /\ since'[j] = since[j]
        /\ \A j \in Sync : began'[j] = began[j] /\ todo'[j] = todo[j]
    BY <1>5 DEF Load, TypeOK
  <2>3. Prompt'
    BY <2>1, <2>2 DEF Prompt, Open
  <2>4. \A m \in Mail : (Due(m)' <=> Due(m)) /\ (Missing(m)' <=> Missing(m)) /\ arrived'[m] = arrived[m]
    BY <1>5 DEF Load, Due, Missing, Delivered, boxVars, mailVars
  <2>5. Covered'
    BY <2>1, <2>2, <2>4 DEF Covered, Open, ServedFrom
  <2> QED
    BY <2>3, <2>5
<1>6. ASSUME NEW k \in Sync, List(k) PROVE (Prompt /\ Covered)'
  <2>1. /\ step[k] = "loaded" /\ step'[k] = "listing" /\ began'[k] = now
        /\ todo'[k] = {m \in Mail : Delivered(m) /\ arrived[m] >= ServedFrom(since[k])}
        /\ \A j \in Sync \ {k} : step'[j] = step[j] /\ began'[j] = began[j] /\ todo'[j] = todo[j]
        /\ since' = since /\ now' = now
    BY <1>6 DEF List, TypeOK
  <2>2. Prompt'
    BY <2>1, PatienceAssumption, OverlapAssumption, BoundsAssumption
    DEF Prompt, Open, TypeOK, Time
  <2>3. \A m \in Mail : (Due(m)' <=> Due(m)) /\ (Missing(m)' <=> Missing(m)) /\ arrived'[m] = arrived[m]
    BY <1>6 DEF List, Due, Missing, Delivered, mailVars
  <2>4. Window' = Window
    BY <1>6 DEF List, Window
  <2>5. Covered'
    BY <2>1, <2>3, <2>4 DEF Covered, Open, Missing, ServedFrom
  <2> QED
    BY <2>2, <2>5
<1>7. ASSUME NEW k \in Sync, NEW m \in Mail, Pass(k, m) \/ Ingest(k, m)
      PROVE  (Prompt /\ Covered)'
  <2>1. /\ UNCHANGED <<now, step, since, began, arrived, synced, floor, reach>>
        /\ \A j \in Sync : todo'[j] = IF j = k THEN todo[j] \ {m} ELSE todo[j]
        /\ m \in stored' \cup passed' /\ stored \cup passed \subseteq stored' \cup passed'
    BY <1>7 DEF Pass, Ingest, TypeOK, boxVars
  <2>2. Prompt'
    BY <2>1 DEF Prompt, Open
  <2>3. \A n \in Mail : Missing(n)' => Missing(n) /\ n # m
    BY <2>1 DEF Missing, Delivered
  <2>4. \A n \in Mail : Due(n)' => Due(n)
    BY <2>1, <2>3 DEF Due
  <2>5. Covered'
    BY <2>1, <2>3, <2>4 DEF Covered, Open, Window, ServedFrom
  <2> QED
    BY <2>2, <2>5
<1>8. ASSUME NEW k \in Sync, Finish(k) PROVE (Prompt /\ Covered)'
  BY <1>0, <1>8, FinishKeeps
<1>9. CASE UNCHANGED vars
  BY <1>9 DEF Prompt, Covered, Open, Due, Missing, Delivered, Window, ServedFrom,
              vars, boxVars, mailVars, jobVars, taskVars
<1> QED
  BY <1>1, <1>2, <1>3, <1>4, <1>5, <1>6, <1>7, <1>8, <1>9 DEF Next

\* The mailbox and the tasks of sync_mailbox stay well formed, for any number of
\* messages and tasks.
THEOREM TypeCorrect == Spec => []TypeOK
<1>1. Base => TypeOK
  BY DEF Base
<1> QED
  BY <1>1, InitBase, NextBase, PTL DEF Spec

\* A message that misses and was not too old for the first sync is served to the
\* next one (sync_mailbox), however tasks overlap, fail, die and are retried: if
\* the provider's day begins no later than the UTC day it is asked for.
THEOREM NothingSkippedCorrect == Zone <= 0 => (Spec => []NothingSkipped)
<1> SUFFICES ASSUME Zone <= 0 PROVE Spec => []NothingSkipped
  OBVIOUS
<1>1. IInv => NothingSkipped
  <2> SUFFICES ASSUME IInv, synced # Never, NEW m \in Mail, Missing(m), arrived[m] >= floor
               PROVE  arrived[m] >= ServedFrom(Window)
    BY DEF NothingSkipped
  <2>1. Window \in Nat
    BY WindowBounds, BoundsAssumption DEF IInv, Time
  <2>2. arrived[m] >= Window
    BY DEF IInv, Covered, Due
  <2>3. arrived[m] \in Int
    BY BoundsAssumption DEF IInv, Base, TypeOK, Missing, Delivered, Time
  <2> QED
    BY <2>1, <2>2, <2>3, ServedBounds
<1> QED
  BY <1>1, InitIInv, NextIInv, PTL DEF Spec
==============================================================================
