------------------------- MODULE LayeredStoreProofs -------------------------
(***************************************************************************)
(* Proofs about LayeredStore, for any tables, any number of background     *)
(* writes under way, and any bounds.                                       *)
(***************************************************************************)
EXTENDS LayeredStore, TLAPS

\* Nothing is under way, and nothing pending, before the first save.
LEMMA NothingType == Nothing \in [Keys -> Versions] /\ \A k \in Keys : Nothing[k] = 0
BY StoreAssumption DEF Nothing, Versions

\* What a retry sets out to write is versions.
LEMMA PendingType ==
    ASSUME TypeOK, NEW T
    PROVE  PendingIn(T) \in [Keys -> Versions]
BY StoreAssumption DEF PendingIn, TypeOK, Versions

\* A write is never taken for a free slot.
LEMMA WriteType ==
    ASSUME TypeOK, NEW s \in Slots
    PROVE  /\ writes[s] \in Write \cup {NoWrite}
           /\ s \notin Free => writes[s] \in Write
           /\ writes[s].state # "none" => s \notin Free
           /\ s \in Free => writes[s].state = "none"
BY DEF TypeOK, Free, NoWrite

\* The initial state satisfies the invariant.
LEMMA InitIInv == Init => IInv
<1> SUFFICES ASSUME Init PROVE IInv
  OBVIOUS
<1> USE NothingType
<1>1. TypeOK
  BY StoreAssumption DEF Init, TypeOK, Idle
<1>2. Free = Slots
  BY DEF Init, Free
<1>3. NewestIssued
  BY <1>2, StoreAssumption DEF Init, NewestIssued, Idle, Versions
<1> QED
  BY <1>1, <1>2, <1>3 DEF Init, IInv, CalmRows, CalmWrites, MissedIsPending, Of

-----------------------------------------------------------------------------
\* Every step keeps the type: the actions one by one.
LEMMA TypeStep == TypeOK /\ [Next]_vars => TypeOK'
<1> SUFFICES ASSUME TypeOK, [Next]_vars PROVE TypeOK'
  OBVIOUS
<1> USE StoreAssumption, NothingType DEF TypeOK
<1>1. ASSUME NEW k \in Keys, Save(k) PROVE TypeOK'
  <2>1. issued[k] + 1 \in Versions
    BY <1>1 DEF Save, Change, Versions
  <2>2. writes' \in [Slots -> Write \cup {NoWrite}]
    BY <1>1, <2>1 DEF Save, Queue, Write
  <2>3. \A s \in retry'.at : writes'[s].state \in {"queued", "sent", "applied"}
    BY <1>1 DEF Save, Queue
  <2> QED
    BY <1>1, <2>1, <2>2, <2>3 DEF Save, Change, Remembered, world, link
<1>2. ASSUME NEW k \in Keys, SaveFails(k) PROVE TypeOK'
  <2>1. issued[k] + 1 \in Versions
    BY <1>2 DEF SaveFails, Change, Versions
  <2> QED
    BY <1>2, <2>1 DEF SaveFails, Change, world, link
<1>3. ASSUME NEW s \in Slots, Send(s) PROVE TypeOK'
  <2>1. writes[s] \in Write /\ Carried(writes[s]) \in Versions
    BY <1>3, WriteType DEF Send, Carried, Write, NoWrite
  <2>2. writes' \in [Slots -> Write \cup {NoWrite}]
    BY <1>3, <2>1 DEF Send, Write
  <2>3. \A t \in retry'.at : writes'[t].state \in {"queued", "sent", "applied"}
    BY <1>3, <2>1 DEF Send, Write, rows, link, history, world
  <2> QED
    BY <1>3, <2>2, <2>3 DEF Send, rows, link, history, world
<1>4. ASSUME NEW s \in Slots, Apply(s) PROVE TypeOK'
  BY <1>4 DEF Apply, Write, NoWrite, rows, link, history, world
<1>5. ASSUME NEW s \in Slots, Acknowledge(s) PROVE TypeOK'
  BY <1>5 DEF Acknowledge, Cleared, Returned, Write, NoWrite, rows, link, history, world, Versions
<1>6. ASSUME NEW s \in Slots, Fail(s) PROVE TypeOK'
  <2>1. writes' \in [Slots -> Write \cup {NoWrite}]
    BY <1>6 DEF Fail, Write, NoWrite
  <2>2. retry' \in [left: [Keys -> Versions], at: SUBSET Slots, jobs: BOOLEAN]
    BY <1>6 DEF Fail, Returned
  <2>3. \A t \in retry'.at : t # s /\ writes'[t] = writes[t] /\ t \in retry.at
    BY <1>6 DEF Fail, Returned
  <2> QED
    BY <1>6, <2>1, <2>2, <2>3 DEF Fail, rows, link, history, world
<1>7. ASSUME NEW s \in Slots, Vanish(s) PROVE TypeOK'
  BY <1>7 DEF Vanish, Write, NoWrite, rows, link, history, world
<1>8. CASE RetryStart
  BY <1>8, PendingType DEF RetryStart, rows, link, history, world
<1>8a. CASE RetryStats
  BY <1>8a, PendingType DEF RetryStats, rows, link, history, world
<1>9. ASSUME NEW k \in Keys, RetryNext(k) PROVE TypeOK'
  <2>1. PICK s \in Free :
          /\ Queue(s, k, retry.left[k])
          /\ retry' = [retry EXCEPT !.left = [@ EXCEPT ![k] = 0], !.at = {s}]
    BY <1>9 DEF RetryNext
  <2>2. s \in Slots
    BY DEF Free
  <2>3. writes' \in [Slots -> Write \cup {NoWrite}] /\ writes'[s].state = "queued"
    BY <2>1, <2>2 DEF Queue, Write
  <2>4. [retry.left EXCEPT ![k] = 0] \in [Keys -> Versions]
    BY DEF Versions
  <2>5. retry' \in [left: [Keys -> Versions], at: SUBSET Slots, jobs: BOOLEAN] /\ retry'.at = {s}
    BY <2>1, <2>2, <2>4
  <2> QED
    BY <1>9, <2>3, <2>5 DEF RetryNext, rows, link, history, world
<1>10. CASE RetryBreaks
  BY <1>10 DEF RetryBreaks, Idle, rows, link, history, world
<1>11. CASE Outage
  <2>1. outages + 1 \in 0..MaxOutages
    BY <1>11 DEF Outage
  <2> QED
    BY <1>11, <2>1 DEF Outage, rows, link, history
<1>12. CASE Recover
  BY <1>12 DEF Recover, rows, link, history
<1>13. CASE Restart
  <2>1. writes' \in [Slots -> Write \cup {NoWrite}]
    BY <1>13 DEF Restart, Write, NoWrite
  <2>2. memory' \in [Keys -> Versions]
    BY <1>13 DEF Restart, Restored
  <2>3. restarts + 1 \in 0..MaxRestarts
    BY <1>13 DEF Restart
  <2> QED
    BY <1>13, <2>1, <2>2, <2>3 DEF Restart, Idle
<1>14. CASE UNCHANGED vars
  BY <1>14 DEF vars, rows, link, history, world
<1> QED
  BY <1>1, <1>2, <1>3, <1>4, <1>5, <1>6, <1>7, <1>8, <1>8a, <1>9, <1>10, <1>11, <1>12, <1>13, <1>14
     DEF Next, Step, Retry

-----------------------------------------------------------------------------
\* Nothing gets ahead of the versions issued.
LEMMA NewestStep == TypeOK /\ NewestIssued /\ [Next]_vars => NewestIssued'
<1> SUFFICES ASSUME TypeOK, NewestIssued, [Next]_vars PROVE NewestIssued'
  OBVIOUS
<1> USE StoreAssumption, NothingType DEF NewestIssued, Free
<1>0. /\ \A s \in Slots : writes[s] # NoWrite => writes[s] \in Write
      /\ \A s \in Slots : writes[s] = NoWrite \/ writes[s].state # "none"
      /\ \A k \in Keys : /\ memory[k] \in Nat /\ local[k] \in Nat /\ mongo[k] \in Nat
                         /\ issued[k] \in Nat /\ pending[k] \in Nat /\ retry.left[k] \in Nat
  BY DEF TypeOK, Write, NoWrite, Versions
<1>1. ASSUME NEW k \in Keys, Save(k) PROVE NewestIssued'
  <2>1. ASSUME NEW i \in Keys
        PROVE  /\ issued'[i] = IF i = k THEN issued[k] + 1 ELSE issued[i]
               /\ memory'[i] = IF i = k THEN issued[k] + 1 ELSE memory[i]
               /\ local'[i] = IF i = k THEN issued[k] + 1 ELSE local[i]
               /\ pending'[i] = IF i = k THEN issued[k] + 1 ELSE pending[i]
               /\ mongo'[i] = mongo[i] /\ retry'.left[i] = retry.left[i]
    BY <1>1, <2>1 DEF Save, Change, Remembered, TypeOK
  <2>2. ASSUME NEW s \in Slots, writes'[s] # NoWrite
        PROVE  \/ writes'[s] = writes[s]
               \/ writes'[s].key = k /\ writes'[s].version = issued[k] + 1
    BY <1>1, <2>2 DEF Save, Queue, TypeOK
  <2>3. ASSUME NEW i \in Keys
        PROVE  \A v \in {memory'[i], local'[i], mongo'[i], pending'[i], retry'.left[i]} : v <= issued'[i]
    BY <1>0, <2>1, <2>3
  <2>4. ASSUME NEW s \in Slots, writes'[s] # NoWrite
        PROVE  writes'[s].version <= issued'[writes'[s].key]
    <3>1. CASE writes'[s] = writes[s]
      <4>1. writes[s] \in Write /\ writes[s].version <= issued[writes[s].key]
        BY <1>0, <2>4, <3>1
      <4> QED
        BY <1>0, <2>1, <3>1, <4>1 DEF Write, Versions
    <3>2. CASE writes'[s].key = k /\ writes'[s].version = issued[k] + 1
      BY <1>0, <2>1, <3>2
    <3> QED
      BY <2>2, <2>4, <3>1, <3>2
  <2> QED
    BY <2>3, <2>4
<1>2. ASSUME NEW k \in Keys, SaveFails(k) PROVE NewestIssued'
  <2>1. ASSUME NEW i \in Keys
        PROVE  /\ issued'[i] = IF i = k THEN issued[k] + 1 ELSE issued[i]
               /\ memory'[i] = IF i = k THEN issued[k] + 1 ELSE memory[i]
    BY <1>2, <2>1 DEF SaveFails, Change, TypeOK
  <2>2. ASSUME NEW i \in Keys
        PROVE  \A v \in {memory'[i], local'[i], mongo'[i], pending'[i], retry'.left[i]} : v <= issued'[i]
    BY <1>0, <1>2, <2>1, <2>2 DEF SaveFails, Change
  <2>3. ASSUME NEW s \in Slots, writes'[s] # NoWrite
        PROVE  writes'[s].version <= issued'[writes'[s].key]
    <3>1. /\ writes'[s] = writes[s] /\ writes[s] \in Write
          /\ writes[s].version <= issued[writes[s].key]
      BY <1>0, <1>2, <2>3 DEF SaveFails
    <3> QED
      BY <1>0, <2>1, <3>1 DEF Write, Versions
  <2> QED
    BY <2>2, <2>3
<1>3. ASSUME NEW s \in Slots, Send(s) PROVE NewestIssued'
  <2>1. writes[s] \in Write /\ Carried(writes[s]) <= issued[writes[s].key]
    BY <1>0, <1>3, WriteType DEF Send, Carried, Write
  <2>2. ASSUME NEW t \in Slots, writes'[t] # NoWrite
        PROVE  \/ writes'[t] = writes[t]
               \/ writes'[t].key = writes[s].key /\ writes'[t].version = Carried(writes[s])
    BY <1>3, <2>1, <2>2 DEF Send, Write, TypeOK
  <2> QED
    BY <1>0, <1>3, <2>1, <2>2 DEF Send, rows
<1>4. ASSUME NEW s \in Slots, Apply(s) PROVE NewestIssued'
  <2>1. writes[s] \in Write /\ writes[s].version <= issued[writes[s].key]
    BY <1>0, <1>4, WriteType DEF Apply
  <2>2. ASSUME NEW t \in Slots, writes'[t] # NoWrite
        PROVE  /\ writes[t] # NoWrite
               /\ writes'[t].key = writes[t].key /\ writes'[t].version = writes[t].version
    BY <1>4, <2>1, <2>2 DEF Apply, Write, NoWrite, TypeOK
  <2>3. ASSUME NEW i \in Keys
        PROVE  mongo'[i] = IF i = writes[s].key THEN writes[s].version ELSE mongo[i]
    BY <1>4, <2>1, <2>3 DEF Apply, Write, TypeOK
  <2> QED
    BY <1>0, <1>4, <2>1, <2>2, <2>3 DEF Apply
<1>5. ASSUME NEW s \in Slots, Acknowledge(s) PROVE NewestIssued'
  <2>1. ASSUME NEW i \in Keys
        PROVE  pending'[i] \in {0, pending[i]} /\ retry'.left[i] = retry.left[i]
    BY <1>5, <2>1 DEF Acknowledge, Cleared, Returned, TypeOK
  <2>2. ASSUME NEW t \in Slots, writes'[t] # NoWrite PROVE writes'[t] = writes[t]
    BY <1>5, <2>2 DEF Acknowledge, TypeOK
  <2> QED
    BY <1>0, <1>5, <2>1, <2>2 DEF Acknowledge, rows
<1>6. ASSUME NEW s \in Slots, Fail(s) PROVE NewestIssued'
  <2>1. retry'.left = retry.left
    BY <1>6 DEF Fail, Returned, TypeOK
  <2>2. ASSUME NEW t \in Slots, writes'[t] # NoWrite
        PROVE  /\ writes[t] # NoWrite
               /\ writes'[t].key = writes[t].key /\ writes'[t].version = writes[t].version
    <3>1. writes[s] \in Write
      BY <1>6, WriteType DEF Fail
    <3> QED
      BY <1>6, <2>2, <3>1 DEF Fail, Write, NoWrite, TypeOK
  <2> QED
    BY <1>0, <1>6, <2>1, <2>2 DEF Fail, rows
<1>7. ASSUME NEW s \in Slots, Vanish(s) PROVE NewestIssued'
  <2>1. ASSUME NEW t \in Slots, writes'[t] # NoWrite PROVE writes'[t] = writes[t]
    BY <1>7, <2>1 DEF Vanish, TypeOK
  <2> QED
    BY <1>0, <1>7, <2>1 DEF Vanish, rows
<1>8. CASE RetryStart
  <2>1. ASSUME NEW i \in Keys PROVE retry'.left[i] \in {0, pending[i]}
    BY <1>8, <2>1 DEF RetryStart, PendingIn
  <2> QED
    BY <1>0, <1>8, <2>1 DEF RetryStart, rows
<1>8a. CASE RetryStats
  <2>1. ASSUME NEW i \in Keys PROVE retry'.left[i] \in {0, pending[i]}
    BY <1>8a, <2>1 DEF RetryStats, PendingIn
  <2> QED
    BY <1>0, <1>8a, <2>1 DEF RetryStats, rows
<1>9. ASSUME NEW k \in Keys, RetryNext(k) PROVE NewestIssued'
  <2>1. ASSUME NEW i \in Keys PROVE retry'.left[i] \in {0, retry.left[i]}
    BY <1>9, <2>1 DEF RetryNext, TypeOK
  <2>2. ASSUME NEW t \in Slots, writes'[t] # NoWrite
        PROVE  \/ writes'[t] = writes[t]
               \/ writes'[t].key = k /\ writes'[t].version = retry.left[k]
    BY <1>9, <2>2 DEF RetryNext, Queue, TypeOK
  <2> QED
    BY <1>0, <1>9, <2>1, <2>2 DEF RetryNext, rows
<1>10. CASE RetryBreaks
  <2>1. retry'.left = Nothing
    BY <1>10 DEF RetryBreaks, Idle
  <2> QED
    BY <1>0, <1>10, <2>1 DEF RetryBreaks, rows
<1>11. CASE Outage
  BY <1>11 DEF Outage, rows
<1>12. CASE Recover
  BY <1>12 DEF Recover, rows
<1>13. CASE Restart
  <2>1. retry'.left = Nothing /\ pending' = Nothing
    BY <1>13 DEF Restart, Idle
  <2>2. ASSUME NEW i \in Keys PROVE memory'[i] \in {mongo[i], local[i]}
    BY <1>13, <2>2 DEF Restart, Restored
  <2>3. ASSUME NEW t \in Slots, writes'[t] # NoWrite
        PROVE  /\ writes[t] # NoWrite
               /\ writes'[t].key = writes[t].key /\ writes'[t].version = writes[t].version
    BY <1>0, <1>13, <2>3 DEF Restart, Write, NoWrite
  <2> QED
    BY <1>0, <1>13, <2>1, <2>2, <2>3 DEF Restart
<1>14. CASE UNCHANGED vars
  BY <1>14 DEF vars, rows
<1> QED
  BY <1>1, <1>2, <1>3, <1>4, <1>5, <1>6, <1>7, <1>8, <1>8a, <1>9, <1>10, <1>11, <1>12, <1>13, <1>14
     DEF Next, Step, Retry

-----------------------------------------------------------------------------
\* The invariant of one row that crossed no write, and of its writes one by one.
CalmRow(k) ==
    /\ mongo[k] <= memory[k] /\ local[k] <= memory[k]
    /\ k \in Nodes => mongo[k] <= local[k] /\ pending[k] \in {0, local[k]} /\ retry.left[k] \in {0, local[k]}
    /\ mongo[k] < local[k] => pending[k] > 0
CalmWrite(k, w) ==
    w # NoWrite /\ w.key = k =>
        /\ k \in Nodes => w.version = local[k]
        /\ k \in Jobs /\ w.state # "queued" => w.version = memory[k]
        /\ w.state = "applied" => mongo[k] >= local[k]
Calm == \A k \in saved \ raced : CalmRow(k) /\ \A s \in Slots : CalmWrite(k, writes[s])

\* Row by row is how the parts of the invariant are proved.
LEMMA CalmParts == Calm <=> CalmRows /\ CalmWrites /\ MissedIsPending
BY DEF Calm, CalmRow, CalmWrite, CalmRows, CalmWrites, MissedIsPending, Of, Free

\* A step that leaves the calm rows alone keeps them calm.
LEMMA RowsKept ==
    ASSUME Calm, NEW k \in saved \ raced,
           memory'[k] = memory[k], local'[k] = local[k], mongo'[k] = mongo[k],
           pending'[k] = pending[k], retry'.left[k] \in {0, retry.left[k], pending[k]}
    PROVE  CalmRow(k)'
BY DEF Calm, CalmRow

\* Every step keeps the rows calm: the actions one by one.
LEMMA CalmStep == TypeOK /\ NewestIssued /\ Calm /\ [Next]_vars => Calm'
<1> SUFFICES ASSUME TypeOK, NewestIssued, Calm, [Next]_vars PROVE Calm'
  OBVIOUS
<1> USE StoreAssumption, NothingType
<1>0. /\ \A s \in Slots : writes[s] # NoWrite => writes[s] \in Write
      /\ \A s \in Slots : writes[s] = NoWrite \/ writes[s].state # "none"
      /\ \A k \in Keys : /\ memory[k] \in Nat /\ local[k] \in Nat /\ mongo[k] \in Nat
                         /\ issued[k] \in Nat /\ pending[k] \in Nat /\ retry.left[k] \in Nat
      /\ \A k \in Keys : memory[k] <= issued[k] /\ local[k] <= issued[k] /\ mongo[k] <= issued[k]
      /\ saved \subseteq Keys
  BY DEF TypeOK, Write, NoWrite, Versions, NewestIssued
<1>1. ASSUME NEW k \in Keys, Save(k) PROVE Calm'
  <2> DEFINE v == issued[k] + 1
  <2>1. ASSUME NEW i \in Keys
        PROVE  /\ memory'[i] = IF i = k THEN v ELSE memory[i]
               /\ local'[i] = IF i = k THEN v ELSE local[i]
               /\ pending'[i] = IF i = k THEN v ELSE pending[i]
               /\ mongo'[i] = mongo[i] /\ retry'.left[i] = retry.left[i]
    BY <1>1, <2>1 DEF Save, Change, Remembered, TypeOK
  <2>2. ASSUME NEW s \in Slots
        PROVE  \/ writes'[s] = writes[s]
               \/ writes'[s] = [key |-> k, version |-> v, state |-> "queued"]
    BY <1>1, <2>2 DEF Save, Queue, TypeOK
  <2>3. /\ saved' = saved \cup {k} /\ raced \subseteq raced'
        /\ k \notin raced' => ~Crossed(k)
    BY <1>1 DEF Save, Change
  <2>4. ASSUME NEW i \in saved' \ raced', i # k
        PROVE  CalmRow(i)' /\ \A s \in Slots : CalmWrite(i, writes[s])'
    <3>1. i \in saved \ raced /\ i \in Keys
      BY <1>0, <2>3, <2>4
    <3>2. CalmRow(i)'
      BY <2>1, <2>4, <3>1, RowsKept
    <3>3. ASSUME NEW s \in Slots PROVE CalmWrite(i, writes[s])'
      BY <2>1, <2>2, <2>4, <3>1, <3>3 DEF Calm, CalmWrite
    <3> QED
      BY <3>2, <3>3
  <2>5. ASSUME k \notin raced'
        PROVE  CalmRow(k)' /\ \A s \in Slots : CalmWrite(k, writes[s])'
    <3>1. /\ k \in Nodes => retry.left[k] = 0
          /\ \A s \in Slots : writes[s] # NoWrite /\ writes[s].key = k
                               => k \notin Nodes /\ writes[s].state = "queued"
      BY <1>0, <2>3, <2>5 DEF Crossed, Underway, Of, Free
    <3>2. v \in Nat /\ v > 0 /\ mongo[k] <= v
      BY <1>0
    <3>3. CalmRow(k)'
      <4>1. /\ memory'[k] = v /\ local'[k] = v /\ pending'[k] = v /\ mongo'[k] = mongo[k]
            /\ k \in Nodes => retry'.left[k] = 0
        BY <2>1, <3>1
      <4> HIDE DEF v
      <4> QED
        BY <3>2, <4>1 DEF CalmRow
    <3>4. ASSUME NEW s \in Slots PROVE CalmWrite(k, writes[s])'
      <4> HIDE DEF v
      <4> QED
        BY <2>1, <2>2, <3>1, <3>4 DEF CalmWrite
    <3> QED
      BY <3>3, <3>4
  <2> QED
    BY <2>4, <2>5 DEF Calm
<1>2. ASSUME NEW k \in Keys, SaveFails(k) PROVE Calm'
  <2> DEFINE v == issued[k] + 1
  <2>1. ASSUME NEW i \in Keys
        PROVE  /\ memory'[i] = IF i = k THEN v ELSE memory[i]
               /\ local'[i] = local[i] /\ pending'[i] = pending[i]
               /\ mongo'[i] = mongo[i] /\ retry'.left[i] = retry.left[i]
    BY <1>2, <2>1 DEF SaveFails, Change, TypeOK
  <2>2. /\ writes' = writes /\ saved' = saved /\ raced \subseteq raced'
        /\ k \notin raced' => ~Crossed(k)
    BY <1>2 DEF SaveFails, Change
  <2>3. ASSUME NEW i \in saved' \ raced', i # k
        PROVE  CalmRow(i)' /\ \A s \in Slots : CalmWrite(i, writes[s])'
    <3>1. i \in saved \ raced /\ i \in Keys
      BY <1>0, <2>2, <2>3
    <3>2. CalmRow(i)'
      BY <2>1, <2>3, <3>1, RowsKept
    <3> QED
      BY <2>1, <2>2, <2>3, <3>1, <3>2 DEF Calm, CalmWrite
  <2>4. ASSUME k \in saved' \ raced'
        PROVE  CalmRow(k)' /\ \A s \in Slots : CalmWrite(k, writes[s])'
    <3>1. \A s \in Slots : writes[s] # NoWrite /\ writes[s].key = k
                               => k \notin Nodes /\ writes[s].state = "queued"
      BY <2>2, <2>4 DEF Crossed, Underway, Of, Free
    <3>2. v \in Nat /\ mongo[k] <= v /\ local[k] <= v
      BY <1>0
    <3>3. CalmRow(k)
      BY <2>2, <2>4 DEF Calm
    <3>4. CalmRow(k)'
      <4>1. memory'[k] = v
        BY <2>1
      <4> HIDE DEF v
      <4> QED
        BY <2>1, <3>2, <3>3, <4>1 DEF CalmRow
    <3> QED
      BY <2>2, <3>1, <3>4 DEF CalmWrite
  <2> QED
    BY <2>3, <2>4 DEF Calm
<1>3. ASSUME NEW s \in Slots, Send(s) PROVE Calm'
  <2>1. writes[s] \in Write /\ writes[s] # NoWrite /\ writes[s].state = "queued"
    BY <1>3, WriteType DEF Send, Free
  <2>2. /\ writes'[s] # NoWrite => writes'[s].key = writes[s].key
        /\ writes'[s].version = Carried(writes[s]) /\ writes'[s].state = "sent"
        /\ \A t \in Slots : t # s => writes'[t] = writes[t]
    BY <1>3, <2>1 DEF Send, Write, TypeOK
  <2>3. ASSUME NEW i \in saved' \ raced' PROVE CalmRow(i)' /\ \A t \in Slots : CalmWrite(i, writes[t])'
    <3>1. i \in saved \ raced /\ CalmRow(i)'
      BY <1>3, <2>3, RowsKept DEF Send, rows, history
    <3>2. CalmWrite(i, writes[s])'
      BY <1>3, <2>1, <2>2, <3>1 DEF Calm, CalmWrite, Carried, Send, rows, Keys, Write
    <3>3. ASSUME NEW t \in Slots, t # s PROVE CalmWrite(i, writes[t])'
      <4>1. CalmWrite(i, writes[t]) /\ writes'[t] = writes[t]
        BY <2>2, <3>1, <3>3 DEF Calm
      <4>2. memory' = memory /\ local' = local /\ mongo' = mongo
        BY <1>3 DEF Send, rows
      <4> QED
        BY <4>1, <4>2 DEF CalmWrite
    <3> QED
      BY <3>1, <3>2, <3>3
  <2> QED
    BY <2>3 DEF Calm
<1>4. ASSUME NEW s \in Slots, Apply(s) PROVE Calm'
  <2>1. /\ writes[s] \in Write /\ writes[s] # NoWrite /\ writes[s].state \in {"sent", "lost"}
        /\ writes[s].key \in Keys
    BY <1>4, WriteType DEF Apply, Free, Write
  <2>2. \A t \in Slots : \/ writes'[t] = writes[t]
                         \/ writes'[t] = NoWrite
                         \/ /\ t = s /\ writes'[t].key = writes[t].key
                            /\ writes'[t].version = writes[t].version
    BY <1>4, <2>1 DEF Apply, Write, TypeOK
  <2>3. ASSUME NEW i \in saved' \ raced' PROVE CalmRow(i)' /\ \A t \in Slots : CalmWrite(i, writes[t])'
    <3>1. /\ i \in saved \ raced /\ i \in Keys
          /\ memory' = memory /\ local' = local /\ pending' = pending /\ retry' = retry
      BY <1>0, <1>4, <2>3 DEF Apply, history
    <3>2. mongo'[i] = IF i = writes[s].key THEN writes[s].version ELSE mongo[i]
      BY <1>4, <2>1, <3>1 DEF Apply, TypeOK
    <3>3. CASE i # writes[s].key
      <4>1. CalmRow(i)'
        BY <3>1, <3>2, <3>3, RowsKept
      <4> QED
        BY <2>1, <2>2, <3>1, <3>2, <3>3, <4>1 DEF Calm, CalmWrite
    <3>4. CASE i = writes[s].key
      <4>1. CalmRow(i) /\ CalmWrite(i, writes[s])
        BY <3>1 DEF Calm
      <4>2. /\ i \in Nodes => mongo'[i] = local[i]
            /\ i \in Jobs => mongo'[i] = memory[i]
        BY <2>1, <3>2, <3>4, <4>1 DEF CalmWrite
      <4>3. mongo'[i] <= memory[i] /\ mongo'[i] >= local[i]
        BY <1>0, <3>1, <4>1, <4>2 DEF CalmRow, Keys
      <4>4. mongo'[i] \in Nat /\ (i \in Nodes => mongo'[i] <= local[i])
        BY <1>0, <3>1, <4>2 DEF Keys
      <4>5. CalmRow(i)'
        BY <1>0, <3>1, <4>1, <4>3, <4>4 DEF CalmRow
      <4>6. ASSUME NEW t \in Slots PROVE CalmWrite(i, writes[t])'
        <5>1. CalmWrite(i, writes[t])
          BY <3>1 DEF Calm
        <5> QED
          BY <2>1, <2>2, <3>1, <3>4, <4>3, <5>1 DEF CalmWrite
      <4> QED
        BY <4>5, <4>6
    <3> QED
      BY <3>3, <3>4
  <2> QED
    BY <2>3 DEF Calm
<1>5. ASSUME NEW s \in Slots, Acknowledge(s) PROVE Calm'
  <2>1. writes[s] # NoWrite /\ writes[s].state = "applied" /\ writes[s].key \in Keys
    BY <1>5, WriteType DEF Acknowledge, Free, Write
  <2>2. \A t \in Slots : writes'[t] \in {writes[t], NoWrite}
    BY <1>5 DEF Acknowledge, TypeOK
  <2>3. ASSUME NEW i \in saved' \ raced' PROVE CalmRow(i)' /\ \A t \in Slots : CalmWrite(i, writes[t])'
    <3>1. /\ i \in saved \ raced /\ i \in Keys
          /\ memory' = memory /\ local' = local /\ mongo' = mongo /\ retry'.left = retry.left
      BY <1>0, <1>5, <2>3 DEF Acknowledge, Returned, rows, history, TypeOK
    <3>2. pending'[i] = IF i = writes[s].key THEN 0 ELSE pending[i]
      BY <1>5, <2>1, <3>1 DEF Acknowledge, Cleared, TypeOK
    <3>3. CalmRow(i) /\ \A t \in Slots : CalmWrite(i, writes[t])
      BY <3>1 DEF Calm
    <3>4. i = writes[s].key => ~(mongo[i] < local[i])
      BY <1>0, <2>1, <3>1, <3>3 DEF CalmWrite
    <3>5. CalmRow(i)'
      BY <3>1, <3>2, <3>3, <3>4 DEF CalmRow
    <3> QED
      BY <2>2, <3>1, <3>3, <3>5 DEF CalmWrite
  <2> QED
    BY <2>3 DEF Calm
<1>6. ASSUME NEW s \in Slots, Fail(s) PROVE Calm'
  <2>1. writes[s] \in Write
    BY <1>6, WriteType DEF Fail
  <2>2. \A t \in Slots : \/ writes'[t] \in {writes[t], NoWrite}
                         \/ /\ writes[t] # NoWrite /\ writes[t].state = "sent"
                            /\ writes'[t] = [writes[t] EXCEPT !.state = "lost"]
    BY <1>6, <2>1 DEF Fail, Write, NoWrite, TypeOK
  <2>3. ASSUME NEW i \in saved' \ raced' PROVE CalmRow(i)' /\ \A t \in Slots : CalmWrite(i, writes[t])'
    <3>1. /\ i \in saved \ raced
          /\ memory' = memory /\ local' = local /\ mongo' = mongo
          /\ pending' = pending /\ retry'.left = retry.left
      BY <1>6, <2>3 DEF Fail, Returned, rows, history, TypeOK
    <3>2. CalmRow(i)'
      BY <3>1, RowsKept
    <3>3. ASSUME NEW t \in Slots PROVE CalmWrite(i, writes[t])'
      <4>1. CalmWrite(i, writes[t])
        BY <3>1 DEF Calm
      <4> QED
        BY <1>0, <2>2, <3>1, <4>1 DEF CalmWrite, Write
    <3> QED
      BY <3>2, <3>3
  <2> QED
    BY <2>3 DEF Calm
<1>7. ASSUME NEW s \in Slots, Vanish(s) PROVE Calm'
  <2>1. \A t \in Slots : writes'[t] \in {writes[t], NoWrite}
    BY <1>7 DEF Vanish, TypeOK
  <2> QED
    BY <1>7, <2>1 DEF Vanish, rows, history, Calm, CalmRow, CalmWrite
<1>8. CASE RetryStart \/ RetryStats
  <2>1. ASSUME NEW i \in Keys PROVE retry'.left[i] \in {0, pending[i]}
    BY <1>8, <2>1 DEF RetryStart, RetryStats, PendingIn
  <2>2. ASSUME NEW i \in saved' \ raced' PROVE CalmRow(i)' /\ i \in saved \ raced
    BY <1>0, <1>8, <2>1, <2>2, RowsKept DEF RetryStart, RetryStats, rows, history
  <2> QED
    BY <1>8, <2>2 DEF RetryStart, RetryStats, rows, Calm, CalmWrite
<1>9. ASSUME NEW k \in Keys, RetryNext(k) PROVE Calm'
  <2>1. \A i \in Keys : retry'.left[i] \in {0, retry.left[i]}
    BY <1>9 DEF RetryNext, TypeOK
  <2>2. ASSUME NEW t \in Slots
        PROVE  \/ writes'[t] = writes[t]
               \/ writes'[t] = [key |-> k, version |-> retry.left[k], state |-> "queued"]
    BY <1>9, <2>2 DEF RetryNext, Queue, TypeOK
  <2>3. ASSUME NEW i \in saved' \ raced' PROVE CalmRow(i)' /\ \A t \in Slots : CalmWrite(i, writes[t])'
    <3>1. /\ i \in saved \ raced /\ i \in Keys
          /\ memory' = memory /\ local' = local /\ mongo' = mongo /\ pending' = pending
      BY <1>0, <1>9, <2>3 DEF RetryNext, rows, history
    <3>2. CalmRow(i)'
      BY <2>1, <3>1, RowsKept
    <3>3. k = i /\ i \in Nodes => retry.left[i] = local[i]
      BY <1>0, <1>9, <3>1 DEF Calm, CalmRow, RetryNext
    <3>4. ASSUME NEW t \in Slots PROVE CalmWrite(i, writes[t])'
      BY <2>2, <3>1, <3>3, <3>4 DEF Calm, CalmWrite
    <3> QED
      BY <3>2, <3>4
  <2> QED
    BY <2>3 DEF Calm
<1>10. CASE RetryBreaks
  <2>1. ASSUME NEW i \in saved' \ raced' PROVE CalmRow(i)' /\ i \in saved \ raced
    BY <1>0, <1>10, <2>1, RowsKept DEF RetryBreaks, Idle, rows, history
  <2> QED
    BY <1>10, <2>1 DEF RetryBreaks, rows, Calm, CalmWrite
<1>11. CASE Outage
  BY <1>11 DEF Outage, rows, history, Calm, CalmRow, CalmWrite
<1>12. CASE Recover
  BY <1>12 DEF Recover, rows, history, Calm, CalmRow, CalmWrite
<1>13. CASE Restart
  BY <1>13 DEF Restart, Calm
<1>14. CASE UNCHANGED vars
  BY <1>14 DEF vars, rows, history, Calm, CalmRow, CalmWrite
<1> QED
  BY <1>1, <1>2, <1>3, <1>4, <1>5, <1>6, <1>7, <1>8, <1>9, <1>10, <1>11, <1>12, <1>13, <1>14
     DEF Next, Step, Retry

-----------------------------------------------------------------------------
\* MongoDB's copy of a calm row only moves forward: what is applied is the
\* newest state the row has.
LEMMA MongoForward ==
    TypeOK /\ NewestIssued /\ Calm /\ [Next]_vars
        => [\A k \in saved \ raced : mongo'[k] >= mongo[k]]_vars
<1> SUFFICES ASSUME TypeOK, NewestIssued, Calm, [Next]_vars, NEW k \in saved \ raced
             PROVE  mongo'[k] >= mongo[k]
  OBVIOUS
<1>1. k \in Keys /\ mongo[k] \in Nat /\ local[k] \in Nat /\ memory[k] \in Nat
  BY StoreAssumption DEF TypeOK, Versions
<1>2. CASE mongo' = mongo
  BY <1>1, <1>2
<1>3. ASSUME NEW s \in Slots, Apply(s) PROVE mongo'[k] >= mongo[k]
  <2>1. /\ writes[s] \in Write /\ writes[s] # NoWrite /\ writes[s].state # "queued"
        /\ CalmRow(k) /\ CalmWrite(k, writes[s])
    BY <1>3, WriteType DEF Apply, Free, Calm
  <2>2. mongo'[k] = IF k = writes[s].key THEN writes[s].version ELSE mongo[k]
    BY <1>1, <1>3, <2>1 DEF Apply, TypeOK
  <2>3. k = writes[s].key => writes[s].version \in {memory[k], local[k]} /\ writes[s].version >= mongo[k]
    BY <1>1, <2>1 DEF CalmRow, CalmWrite, Keys
  <2> QED
    BY <1>1, <2>2, <2>3
<1>4. mongo' = mongo \/ \E s \in Slots : Apply(s)
  BY DEF Next, Step, Retry, Save, SaveFails, Change, Send, Acknowledge, Fail, Vanish, RetryStart,
         RetryStats, RetryNext, RetryBreaks, Outage, Recover, Restart, vars, rows
<1> QED
  BY <1>2, <1>3, <1>4

\* The inductive invariant: types, versions, and the calm rows.
THEOREM StoreInvariant == Spec => []IInv
<1>1. Init => IInv
  BY InitIInv
<1>2. IInv /\ [Next]_vars => IInv'
  <2> SUFFICES ASSUME IInv, [Next]_vars PROVE IInv'
    OBVIOUS
  <2>1. TypeOK' /\ NewestIssued'
    BY TypeStep, NewestStep DEF IInv
  <2>2. Calm'
    BY CalmStep, CalmParts DEF IInv
  <2>3. (CalmRows /\ CalmWrites /\ MissedIsPending)'
    BY <2>2 DEF Calm, CalmRow, CalmWrite, CalmRows, CalmWrites, MissedIsPending, Of, Free
  <2> QED
    BY <2>1, <2>3 DEF IInv
<1> QED
  BY <1>1, <1>2, PTL DEF Spec

\* The store keeps its type.
THEOREM TypeCorrect == Spec => []TypeOK
<1>1. IInv => TypeOK
  BY DEF IInv
<1> QED
  BY <1>1, StoreInvariant, PTL

\* A row saved since boot whose MongoDB copy is behind is pending a retry, unless
\* one of its saves crossed a write that carried an older state of it.
THEOREM MissedWritesArePending == Spec => []MissedIsPending
<1>1. IInv => MissedIsPending
  BY DEF IInv
<1> QED
  BY <1>1, StoreInvariant, PTL

\* Under the same proviso the MongoDB copy of a row never goes back.
THEOREM MongoKeepsNewest == Spec => MongoNeverRollsBack
<1>1. IInv /\ [Next]_vars => [\A k \in saved \ raced : mongo'[k] >= mongo[k]]_vars
  BY MongoForward, CalmParts DEF IInv
<1> QED
  BY <1>1, StoreInvariant, PTL DEF Spec, MongoNeverRollsBack
=============================================================================
