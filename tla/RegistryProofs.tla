--------------------------- MODULE RegistryProofs ---------------------------
(***************************************************************************)
(* What holds of the provider registry for any number of nodes, ids and    *)
(* restarts, and any reaping age; and of the quote desk, which asks it for *)
(* its matches, and its rate limiter, for any number of requests, clients, *)
(* prices and rates.                                                       *)
(***************************************************************************)
EXTENDS Registry, QuoteDesk, FiniteSetTheorems, WellFoundedInduction, TLAPS

\* An id is registered exactly when its record has all its fields.
LEMMA RegisteredRecord ==
    ASSUME TypeOK, NEW id \in Ids
    PROVE  id \in Registered <=> providers[id] \in Record
BY BoundsAssumption DEF TypeOK, Registered, Record, NoRecord, Tokens

\* A record stays a record when its count, its age or its statistics are replaced.
LEMMA UpdatedRecord ==
    ASSUME NEW r \in Record, NEW active \in 0..MaxActive, NEW stats \in Stats,
           NEW age \in 0..(ReapAge + 1)
    PROVE  /\ [r EXCEPT !.active = active] \in Record
           /\ [r EXCEPT !.active = active, !.stats = stats] \in Record
           /\ [r EXCEPT !.age = age] \in Record
           /\ [r EXCEPT !.age = age, !.active = active] \in Record
BY DEF Record

\* Folding an outcome into statistics gives statistics that are at least as high.
LEMMA OutcomeGrows ==
    ASSUME NEW stats \in Stats, NEW ok \in BOOLEAN, NEW earned \in {0, 1}
    PROVE  /\ Outcome(stats, ok, earned) \in Stats
           /\ AtLeast(Outcome(stats, ok, earned), stats)
<1> DEFINE c == stats.completed + 1
           e == stats.earned + earned
           f == stats.failed + 1
<1>1. /\ stats.completed \in Nat /\ stats.earned \in Nat /\ stats.failed \in Nat
      /\ c \in Nat /\ c >= stats.completed
      /\ e \in Nat /\ e >= stats.earned
      /\ f \in Nat /\ f >= stats.failed
    BY DEF Stats
<1>2. Outcome(stats, ok, earned) = IF ok THEN [stats EXCEPT !.completed = c, !.earned = e]
                                         ELSE [stats EXCEPT !.failed = f]
    BY DEF Outcome
<1> HIDE DEF c, e, f
<1> DEFINE s == [stats EXCEPT !.completed = c]
<1>3. s \in Stats /\ s.completed = c /\ s.earned = stats.earned /\ s.failed = stats.failed
    BY <1>1 DEF Stats
<1>4. [stats EXCEPT !.completed = c, !.earned = e] = [s EXCEPT !.earned = e]
    OBVIOUS
<1> HIDE DEF s
<1>5. CASE ok
  <2>1. Outcome(stats, ok, earned) = [s EXCEPT !.earned = e]
      BY <1>2, <1>4, <1>5
  <2> QED BY <1>1, <1>3, <2>1 DEF Stats, AtLeast
<1>6. CASE ~ok
    BY <1>1, <1>2, <1>6 DEF Stats, AtLeast
<1> QED BY <1>5, <1>6

\* No operation of the registry leaves the types; above all the active count,
\* which jobFinished takes down after a heartbeat may have reset it.
LEMMA TypeStep == IInv /\ [Next]_vars => TypeOK'
<1> SUFFICES ASSUME IInv, [Next]_vars PROVE TypeOK'
    OBVIOUS
<1> USE BoundsAssumption DEF index
<1>0. TypeOK /\ MintedInStep
    BY DEF IInv
<1>1. ASSUME NEW n \in Nodes, RegisterNew(n) PROVE TypeOK'
  <2>1. minted + 1 \in Ids /\ minted + 1 \in Tokens
      BY <1>0, <1>1 DEF RegisterNew, Ids, Tokens, TypeOK
  <2>2. [node |-> n, token |-> minted + 1, active |-> 0, age |-> 0,
         stats |-> restoredStats[n]] \in Record
      BY <1>0, <2>1 DEF TypeOK, Record
  <2> QED BY <1>0, <1>1, <2>1, <2>2 DEF RegisterNew, TypeOK, Ids
<1>2. ASSUME NEW n \in Nodes, RegisterAgain(n) PROVE TypeOK'
  <2>1. PICK id \in RegisteredAs(n) :
          LET token == providers[id].token IN
          /\ providers' = [providers EXCEPT ![id] =
               [node |-> n, token |-> token, active |-> 0, age |-> 0,
                stats |-> CarriedOver(id)]]
          /\ byToken' = [[byToken EXCEPT ![token] = 0] EXCEPT ![token] = id]
          /\ byNodeId' = [byNodeId EXCEPT ![n] = id]
          /\ UNCHANGED <<restoredStats, saved, minted, reaped, restarts>>
      BY <1>2 DEF RegisterAgain
  <2>2. id \in Ids /\ providers[id] \in Record
      BY <1>0, RegisteredRecord DEF RegisteredAs, Registered
  <2>3. [node |-> n, token |-> providers[id].token, active |-> 0, age |-> 0,
         stats |-> CarriedOver(id)] \in Record
      BY <2>2 DEF CarriedOver, Record
  <2>4. providers' \in [Ids -> Record \cup {NoRecord}]
      BY <1>0, <2>1, <2>2, <2>3 DEF TypeOK
  <2>5. byToken' \in [Tokens -> Ids \cup {0}] /\ byNodeId' \in [Nodes -> Ids \cup {0}]
      BY <1>0, <2>1, <2>2 DEF TypeOK
  <2> QED BY <1>0, <2>1, <2>4, <2>5 DEF TypeOK
<1>3. ASSUME NEW token \in Tokens, NEW active \in 0..MaxActive, Heartbeat(token, active)
      PROVE  TypeOK'
  <2>1. byToken[token] \in Ids /\ providers[byToken[token]] \in Record
      BY <1>0, <1>3, RegisteredRecord DEF Heartbeat, Registered
  <2>2. [providers[byToken[token]] EXCEPT !.age = 0, !.active = active] \in Record
    <3>1. 0 \in 0..(ReapAge + 1)
        OBVIOUS
    <3> QED BY <2>1, <3>1, UpdatedRecord DEF Record
  <2>3. providers' = [providers EXCEPT ![byToken[token]] =
                       [providers[byToken[token]] EXCEPT !.age = 0, !.active = active]]
      BY <1>0, <1>3, <2>1 DEF Heartbeat, TypeOK
  <2>4. providers' \in [Ids -> Record \cup {NoRecord}]
      BY <1>0, <2>1, <2>2, <2>3 DEF TypeOK
  <2> QED BY <1>0, <1>3, <2>4 DEF Heartbeat, TypeOK
<1>4. ASSUME NEW id \in Ids, JobStarted(id) PROVE TypeOK'
  <2>1. providers[id] \in Record
      BY <1>0, <1>4, RegisteredRecord DEF JobStarted
  <2>2. [providers[id] EXCEPT !.active = @ + 1] \in Record
    <3>1. providers[id].active + 1 \in 0..MaxActive
        BY <1>4, <2>1 DEF JobStarted, Record
    <3> QED BY <2>1, <3>1, UpdatedRecord DEF Record
  <2> QED BY <1>0, <1>4, <2>2 DEF JobStarted, TypeOK
<1>5. ASSUME NEW id \in Ids, NEW ok \in BOOLEAN, NEW earned \in {0, 1},
             JobFinished(id, ok, earned)
      PROVE  TypeOK'
  <2> DEFINE stats == Outcome(providers[id].stats, ok, earned)
  <2>1. providers[id] \in Record
      BY <1>0, <1>5, RegisteredRecord DEF JobFinished
  <2>2. stats \in Stats
      BY <2>1, OutcomeGrows DEF Record
  <2> HIDE DEF stats
  <2>3. [providers[id] EXCEPT !.active = OneFewer(@), !.stats = stats] \in Record
    <3>1. OneFewer(providers[id].active) \in 0..MaxActive
        BY <2>1 DEF Record, OneFewer
    <3> QED BY <2>1, <2>2, <3>1, UpdatedRecord DEF Record
  <2>4. providers' = [providers EXCEPT ![id] =
                       [providers[id] EXCEPT !.active = OneFewer(@), !.stats = stats]]
      BY <1>0, <1>5 DEF JobFinished, TypeOK, stats
  <2>5. saved' = [saved EXCEPT ![providers[id].node] = stats]
      BY <1>5 DEF JobFinished, Persisted, stats
  <2> QED BY <1>0, <1>5, <2>1, <2>2, <2>3, <2>4, <2>5 DEF JobFinished, TypeOK, Record
<1>6. CASE Tick
  <2>1. ASSUME NEW id \in Ids, id \in Registered, providers[id].age <= ReapAge
        PROVE  [providers[id] EXCEPT !.age = @ + 1] \in Record
    <3>1. providers[id] \in Record /\ providers[id].age + 1 \in 0..(ReapAge + 1)
        BY <1>0, <2>1, RegisteredRecord DEF Record
    <3> QED BY <3>1, UpdatedRecord DEF Record
  <2> QED BY <1>0, <1>6, <2>1 DEF Tick, TypeOK
<1>7. CASE Reap
  <2>1. \A id \in Silent : providers[id] \in Record
      BY <1>0, RegisteredRecord DEF Silent, Registered
  <2> QED BY <1>0, <1>7, <2>1 DEF Reap, TypeOK, Record
<1>8. CASE Restart
    BY <1>0, <1>8 DEF Restart, TypeOK
<1>9. CASE UNCHANGED vars
    BY <1>0, <1>9 DEF vars, TypeOK
<1> QED BY <1>1, <1>2, <1>3, <1>4, <1>5, <1>6, <1>7, <1>8, <1>9 DEF Next

-----------------------------------------------------------------------------
\* What one operation does to one record that is there afterwards: it was there
\* before, with the same node and token, and its statistics are its old ones
\* unless a job of its own has just finished; or register has just minted it.
Minted(id) == id = minted + 1 /\ \E n \in Nodes : RegisterNew(n)
Finished(id) == \E ok \in BOOLEAN, earned \in {0, 1} : JobFinished(id, ok, earned)
Identity(id) == /\ id \in Registered
                /\ providers'[id].node = providers[id].node
                /\ providers'[id].token = providers[id].token
Kept(id) == /\ Identity(id)
            /\ Finished(id) \/ providers'[id].stats = providers[id].stats

\* Every operation keeps a record or mints it.
LEMMA RecordStep ==
    ASSUME IInv, [Next]_vars, NEW id \in Ids, id \in Registered'
    PROVE  Kept(id) \/ Minted(id)
<1>0. TypeOK
    BY DEF IInv
<1>1. ASSUME NEW n \in Nodes, RegisterNew(n) PROVE Kept(id) \/ Minted(id)
  <2>1. CASE id = minted + 1
      BY <1>1, <2>1 DEF Minted
  <2>2. CASE id # minted + 1
    <3>1. providers'[id] = providers[id]
        BY <1>0, <1>1, <2>2 DEF RegisterNew, TypeOK
    <3> QED BY <3>1 DEF Kept, Identity, Registered
  <2> QED BY <2>1, <2>2
<1>2. ASSUME NEW n \in Nodes, RegisterAgain(n) PROVE Kept(id)
  <2>1. PICK i \in RegisteredAs(n) :
          providers' = [providers EXCEPT ![i] =
            [node |-> n, token |-> providers[i].token, active |-> 0, age |-> 0,
             stats |-> CarriedOver(i)]]
      BY <1>2 DEF RegisterAgain
  <2>2. i \in Registered /\ i \in Ids /\ providers[i].node = n
      BY <1>0 DEF RegisteredAs, Registered, IInv, IndexConsistent, TypeOK, Ids
  <2>3. CASE id = i
    <3>1. providers'[id] = [node |-> n, token |-> providers[id].token, active |-> 0,
                            age |-> 0, stats |-> providers[id].stats]
        BY <1>0, <2>1, <2>3 DEF TypeOK, CarriedOver
    <3> QED BY <2>2, <2>3, <3>1 DEF Kept, Identity
  <2>4. CASE id # i
    <3>1. providers'[id] = providers[id]
        BY <1>0, <2>1, <2>4 DEF TypeOK
    <3> QED BY <3>1 DEF Kept, Identity, Registered
  <2> QED BY <2>3, <2>4
<1>3. ASSUME NEW token \in Tokens, NEW active \in 0..MaxActive, Heartbeat(token, active)
      PROVE  Kept(id)
    BY <1>0, <1>3 DEF Heartbeat, TypeOK, Kept, Identity, Registered, Record, NoRecord
<1>4. ASSUME NEW i \in Ids, JobStarted(i) PROVE Kept(id)
    BY <1>0, <1>4 DEF JobStarted, TypeOK, Kept, Identity, Registered, Record, NoRecord
<1>5. ASSUME NEW i \in Ids, NEW ok \in BOOLEAN, NEW earned \in {0, 1},
             JobFinished(i, ok, earned)
      PROVE  Kept(id)
  <2>1. CASE i = id
    <3>1. Finished(id)
        BY <1>5, <2>1 DEF Finished
    <3> QED BY <1>0, <1>5, <2>1, <3>1 DEF JobFinished, TypeOK, Kept, Identity
  <2>2. CASE i # id
    <3>1. providers'[id] = providers[id]
        BY <1>0, <1>5, <2>2 DEF JobFinished, TypeOK
    <3> QED BY <3>1 DEF Kept, Identity, Registered
  <2> QED BY <2>1, <2>2
<1>6. CASE Tick
  <2>1. CASE providers'[id] = providers[id]
      BY <2>1 DEF Kept, Identity, Registered
  <2>2. CASE id \in Registered /\ providers'[id] = [providers[id] EXCEPT !.age = @ + 1]
    <3>1. providers[id] \in Record
        BY <1>0, <2>2, RegisteredRecord
    <3> QED BY <2>2, <3>1 DEF Kept, Identity, Record
  <2> QED BY <1>6, <2>1, <2>2 DEF Tick
<1>7. CASE Reap
  <2>1. providers'[id] = providers[id]
      BY <1>7 DEF Reap, Registered
  <2> QED BY <2>1 DEF Kept, Identity, Registered
<1>8. CASE Restart
    BY <1>8 DEF Restart, Registered
<1>9. CASE UNCHANGED vars
    BY <1>9 DEF vars, Kept, Identity, Registered
<1> QED BY <1>1, <1>2, <1>3, <1>4, <1>5, <1>6, <1>7, <1>8, <1>9 DEF Next

\* Ids and tokens stay minted in step: no operation hands out one it handed out
\* before.
LEMMA MintedInStepStep == ASSUME IInv, [Next]_vars PROVE MintedInStep'
<1>0. TypeOK /\ MintedInStep
    BY DEF IInv
<1>1. minted' \in Nat /\ minted \in Nat /\ minted' >= minted
  <2>1. minted' = minted \/ minted' = minted + 1
      BY DEF Next, vars, RegisterNew, RegisterAgain, Heartbeat, JobStarted,
             JobFinished, Tick, Reap, Restart
  <2>2. minted \in Nat
      BY <1>0, BoundsAssumption DEF TypeOK
  <2> QED BY <2>1, <2>2
<1> SUFFICES ASSUME NEW id \in Ids, id \in Registered'
             PROVE  id <= minted' /\ providers'[id].token = id
    BY DEF MintedInStep, Registered
<1>2. CASE Kept(id)
    BY <1>0, <1>1, <1>2 DEF Kept, Identity, MintedInStep, Ids
<1>3. CASE Minted(id)
    BY <1>0, <1>1, <1>3 DEF Minted, RegisterNew, TypeOK, Ids
<1> QED BY <1>2, <1>3, RecordStep

-----------------------------------------------------------------------------
\* Only a first registration, the reaper and a restart change who is registered
\* and where the indexes point; every other operation leaves both alone.
SameFleet == /\ Registered' = Registered
             /\ UNCHANGED index
             /\ \A id \in Registered : Identity(id)

\* The operations that change the fleet are those three.
LEMMA FleetStep ==
    ASSUME IInv, [Next]_vars
    PROVE  SameFleet \/ (\E n \in Nodes : RegisterNew(n)) \/ Reap \/ Restart
<1>0. TypeOK /\ MintedInStep /\ IndexConsistent
    BY DEF IInv
<1>2. ASSUME NEW n \in Nodes, RegisterAgain(n) PROVE SameFleet
  <2>1. PICK id \in RegisteredAs(n) :
          LET token == providers[id].token IN
          /\ providers' = [providers EXCEPT ![id] =
               [node |-> n, token |-> token, active |-> 0, age |-> 0,
                stats |-> CarriedOver(id)]]
          /\ byToken' = [[byToken EXCEPT ![token] = 0] EXCEPT ![token] = id]
          /\ byNodeId' = [byNodeId EXCEPT ![n] = id]
          /\ UNCHANGED <<restoredStats, saved, minted, reaped, restarts>>
      BY <1>2 DEF RegisterAgain
  <2>2. /\ id \in Registered /\ id \in Ids /\ byNodeId[n] = id /\ providers[id].node = n
        /\ providers[id].token \in Tokens /\ byToken[providers[id].token] = id
    <3>1. id \in Registered /\ id \in Ids /\ id # 0 /\ byNodeId[n] = id
        BY DEF RegisteredAs, Registered, Ids
    <3>2. providers[id].node = n /\ byToken[providers[id].token] = id
        BY <1>0, <3>1 DEF IndexConsistent
    <3>3. providers[id] \in Record
        BY <1>0, <3>1, RegisteredRecord
    <3> QED BY <3>1, <3>2, <3>3 DEF Record
  <2>3. UNCHANGED index
      BY <1>0, <2>1, <2>2 DEF index, TypeOK
  <2>4. /\ providers'[id].node = n /\ providers'[id].token = providers[id].token
        /\ providers'[id] # NoRecord
        /\ \A i \in Ids \ {id} : providers'[i] = providers[i]
      BY <1>0, <2>1, <2>2 DEF TypeOK, NoRecord
  <2>5. Registered' = Registered
      BY <2>2, <2>4 DEF Registered
  <2>6. \A i \in Registered : Identity(i)
      BY <2>2, <2>4 DEF Registered, Identity
  <2> QED BY <2>3, <2>5, <2>6 DEF SameFleet
<1>3. ASSUME NEW token \in Tokens, NEW active \in 0..MaxActive, Heartbeat(token, active)
      PROVE  SameFleet
  <2> DEFINE i == byToken[token]
  <2>2. i \in Registered /\ providers[i] \in Record
      BY <1>0, <1>3, RegisteredRecord DEF Heartbeat, Registered
  <2>3. /\ \A id \in Ids \ {i} : providers'[id] = providers[id]
        /\ providers'[i] = [providers[i] EXCEPT !.age = 0, !.active = active]
      BY <1>0, <1>3, <2>2 DEF Heartbeat, TypeOK, Registered
  <2>4. /\ providers'[i].node = providers[i].node
        /\ providers'[i].token = providers[i].token
      BY <2>2, <2>3 DEF Record
  <2>5. providers'[i] # NoRecord
    <3>1. providers'[i].token # NoRecord.token
        BY <2>2, <2>4 DEF Record, Tokens, NoRecord
    <3> QED BY <3>1
  <2> HIDE DEF i
  <2>1. Registered' = Registered /\ \A id \in Registered : Identity(id)
      BY <2>2, <2>3, <2>4, <2>5 DEF Registered, Identity
  <2> QED BY <1>3, <2>1 DEF Heartbeat, SameFleet, index
<1>4. ASSUME NEW i \in Ids, JobStarted(i) PROVE SameFleet
  <2>1. Registered' = Registered /\ \A id \in Registered : Identity(id)
      BY <1>0, <1>4, RegisteredRecord
      DEF JobStarted, TypeOK, Identity, Registered, Record, NoRecord
  <2> QED BY <1>4, <2>1 DEF JobStarted, SameFleet, index
<1>5. ASSUME NEW i \in Ids, NEW ok \in BOOLEAN, NEW earned \in {0, 1},
             JobFinished(i, ok, earned)
      PROVE  SameFleet
  <2> DEFINE stats == Outcome(providers[i].stats, ok, earned)
             active == OneFewer(providers[i].active)
  <2>2. i \in Registered /\ providers[i] \in Record
      BY <1>0, <1>5, RegisteredRecord DEF JobFinished
  <2>3. /\ \A id \in Ids \ {i} : providers'[id] = providers[id]
        /\ providers'[i] = [providers[i] EXCEPT !.active = active, !.stats = stats]
      BY <1>0, <1>5 DEF JobFinished, TypeOK
  <2> HIDE DEF stats, active
  <2>4. /\ providers'[i].node = providers[i].node
        /\ providers'[i].token = providers[i].token
      BY <2>2, <2>3 DEF Record
  <2>5. providers'[i] # NoRecord
    <3>1. providers'[i].token # NoRecord.token
        BY <2>2, <2>4 DEF Record, Tokens, NoRecord
    <3> QED BY <3>1
  <2>1. Registered' = Registered /\ \A id \in Registered : Identity(id)
      BY <2>2, <2>3, <2>4, <2>5 DEF Registered, Identity
  <2> QED BY <1>5, <2>1 DEF JobFinished, SameFleet, index
<1>6. CASE Tick
  <2>1. Registered' = Registered /\ \A id \in Registered : Identity(id)
      BY <1>0, <1>6, RegisteredRecord
      DEF Tick, TypeOK, Identity, Registered, Record, NoRecord
  <2> QED BY <1>6, <2>1 DEF Tick, SameFleet, index
<1>9. ASSUME UNCHANGED vars PROVE SameFleet
    BY <1>9 DEF vars, SameFleet, index, Registered, Identity
<1> QED BY <1>2, <1>3, <1>4, <1>5, <1>6, <1>9 DEF Next

\* Every operation keeps the record map and its two indexes consistent.
LEMMA IndexStep == ASSUME IInv, [Next]_vars PROVE IndexConsistent'
<1>0. TypeOK /\ MintedInStep /\ IndexConsistent /\ TypeOK'
    BY TypeStep DEF IInv
<1>1. ASSUME NEW n \in Nodes, RegisterNew(n) PROVE IndexConsistent'
  <2> DEFINE new == minted + 1
  <2>1. new \in Ids /\ new \in Tokens /\ new \notin Registered /\ new # 0
      BY <1>0, <1>1, BoundsAssumption
      DEF RegisterNew, Ids, Tokens, TypeOK, MintedInStep
  <2>2. /\ providers'[new].node = n /\ providers'[new].token = new
        /\ new \in Registered'
        /\ byToken'[new] = new /\ byNodeId'[n] = new
      BY <1>0, <1>1, <2>1 DEF RegisterNew, TypeOK, Registered, NoRecord
  <2>3. \A id \in Registered : /\ providers'[id] = providers[id] /\ id \in Registered'
                               /\ providers[id].token # new /\ providers[id].node # n
    <3> SUFFICES ASSUME NEW id \in Registered
                 PROVE  /\ providers'[id] = providers[id] /\ id \in Registered'
                        /\ providers[id].token # new /\ providers[id].node # n
        OBVIOUS
    <3>1. id # new /\ id \in Ids
        BY <2>1 DEF Registered
    <3>2. providers'[id] = providers[id] /\ id \in Registered'
        BY <1>0, <1>1, <3>1 DEF RegisterNew, TypeOK, Registered
    <3>3. providers[id].token # new
        BY <1>0, <3>1 DEF MintedInStep
    <3>4. providers[id].node # n
        BY <1>0, <1>1 DEF RegisterNew, RegisteredAs, IndexConsistent
    <3> QED BY <3>2, <3>3, <3>4
  <2>4. \A id \in Registered' : id = new \/ id \in Registered
      BY <1>0, <1>1, <2>1 DEF RegisterNew, TypeOK, Registered
  <2>5. /\ \A t \in Tokens : t # new => byToken'[t] = byToken[t]
        /\ \A m \in Nodes : m # n => byNodeId'[m] = byNodeId[m]
      BY <1>0, <1>1 DEF RegisterNew, TypeOK
  <2> HIDE DEF new
  <2>6. \A id \in Registered : providers[id].token \in Tokens /\ providers[id].node \in Nodes
      BY <1>0, RegisteredRecord DEF Registered, Record
  <2>7. ASSUME NEW id \in Registered'
        PROVE  byToken'[providers'[id].token] = id /\ byNodeId'[providers'[id].node] = id
      BY <1>0, <2>2, <2>3, <2>4, <2>5, <2>6 DEF IndexConsistent
  <2>8. ASSUME NEW t \in Tokens, byToken'[t] # 0
        PROVE  byToken'[t] \in Registered' /\ providers'[byToken'[t]].token = t
      BY <1>0, <2>2, <2>3, <2>5, <2>8 DEF IndexConsistent
  <2>9. ASSUME NEW m \in Nodes, byNodeId'[m] # 0
        PROVE  byNodeId'[m] \in Registered' /\ providers'[byNodeId'[m]].node = m
      BY <1>0, <2>2, <2>3, <2>5, <2>9 DEF IndexConsistent
  <2> QED BY <2>7, <2>8, <2>9 DEF IndexConsistent
<1>7. CASE Reap
  <2>1. /\ Registered' = Registered \ Silent /\ Silent \subseteq Registered
        /\ \A id \in Registered' : providers'[id] = providers[id]
      BY <1>0, <1>7 DEF Reap, Registered, Silent
  <2>2. \A id \in Registered : /\ providers[id].token \in Tokens
                               /\ providers[id].node \in Nodes /\ id # 0
      BY <1>0, RegisteredRecord DEF Registered, Record, Ids
  <2>3. ASSUME NEW id \in Registered'
        PROVE  byToken'[providers'[id].token] = id /\ byNodeId'[providers'[id].node] = id
    <3>1. id \in Registered /\ id \notin Silent /\ providers'[id] = providers[id]
        BY <2>1
    <3>2. \A i \in Silent : /\ providers[i].token # providers[id].token
                            /\ providers[i].node # providers[id].node
        BY <1>0, <2>1, <3>1 DEF IndexConsistent
    <3> QED BY <1>0, <1>7, <2>2, <3>1, <3>2 DEF Reap, IndexConsistent
  <2>4. ASSUME NEW t \in Tokens, byToken'[t] # 0
        PROVE  byToken'[t] \in Registered' /\ providers'[byToken'[t]].token = t
    <3>1. byToken'[t] = byToken[t] /\ ~\E i \in Silent : providers[i].token = t
        BY <1>7, <2>4 DEF Reap
    <3> QED BY <1>0, <2>1, <2>4, <3>1 DEF IndexConsistent
  <2>5. ASSUME NEW m \in Nodes, byNodeId'[m] # 0
        PROVE  byNodeId'[m] \in Registered' /\ providers'[byNodeId'[m]].node = m
    <3>1. byNodeId'[m] = byNodeId[m] /\ ~\E i \in Silent : providers[i].node = m
        BY <1>7, <2>5 DEF Reap
    <3> QED BY <1>0, <2>1, <2>5, <3>1 DEF IndexConsistent
  <2> QED BY <2>3, <2>4, <2>5 DEF IndexConsistent
<1>8. CASE Restart
  <2>1. Registered' = {}
      BY <1>8 DEF Restart, Registered
  <2> QED BY <1>8, <2>1 DEF Restart, IndexConsistent
<1>9. CASE SameFleet
    BY <1>0, <1>9 DEF SameFleet, IndexConsistent, Identity, index
<1> QED BY <1>1, <1>7, <1>8, <1>9, FleetStep

-----------------------------------------------------------------------------
\* A durable row changes only when a registered record of its node finishes a job.
LEMMA SavedStep ==
    ASSUME IInv, [Next]_vars, NEW n \in Nodes
    PROVE  \/ saved'[n] = saved[n]
           \/ \E i \in Registered : providers[i].node = n /\ Finished(i)
<1>0. TypeOK
    BY DEF IInv
<1>1. ASSUME NEW i \in Ids, NEW ok \in BOOLEAN, NEW earned \in {0, 1},
             JobFinished(i, ok, earned), saved'[n] # saved[n]
      PROVE  i \in Registered /\ providers[i].node = n /\ Finished(i)
  <2>1. i \in Registered /\ Finished(i)
      BY <1>1 DEF JobFinished, Finished
  <2>2. providers[i].node = n
      BY <1>0, <1>1 DEF JobFinished, Persisted, TypeOK
  <2> QED BY <2>1, <2>2
<1>2. ASSUME ~\E i \in Ids, ok \in BOOLEAN, earned \in {0, 1} : JobFinished(i, ok, earned)
      PROVE  saved' = saved
    BY <1>2 DEF Next, vars, RegisterNew, RegisterAgain, Heartbeat, JobStarted, Tick, Reap,
               Restart
<1> QED BY <1>1, <1>2

\* A node the broker does not know keeps its boot row as its durable row, until it
\* is reaped.
LEMMA BootRowStep == ASSUME IInv, [Next]_vars PROVE BootRowCurrent'
<1>0. TypeOK /\ MintedInStep /\ IndexConsistent /\ BootRowCurrent
    BY DEF IInv
<1>1. CASE Restart
    BY <1>1 DEF Restart, BootRowCurrent
<1>2. CASE ~Restart
  <2> SUFFICES ASSUME NEW n \in Nodes, n \notin reaped', RegisteredAs(n)' = {}
               PROVE  saved'[n] = restoredStats'[n]
      BY DEF BootRowCurrent, Unreaped
  <2>1. restoredStats' = restoredStats /\ reaped \subseteq reaped'
      BY <1>2 DEF Next, vars, RegisterNew, RegisterAgain, Heartbeat, JobStarted,
                  JobFinished, Tick, Reap
  <2>2. RegisteredAs(n) = {}
    <3>1. CASE SameFleet
        BY <3>1 DEF SameFleet, index, RegisteredAs
    <3>2. ASSUME NEW m \in Nodes, RegisterNew(m), NEW id \in RegisteredAs(n) PROVE FALSE
      <4>1. id \in Ids /\ id \in Registered /\ byNodeId[n] = id /\ m # n
          BY <3>2 DEF RegisteredAs, Registered, RegisterNew
      <4>2. id <= minted /\ minted \in Nat /\ id \in Nat
          BY <1>0, <4>1, BoundsAssumption DEF MintedInStep, TypeOK, Ids
      <4>3. id # minted + 1
          BY <4>2
      <4>4. providers'[id] = providers[id] /\ byNodeId'[n] = id
          BY <1>0, <3>2, <4>1, <4>3 DEF RegisterNew, TypeOK
      <4> QED BY <4>1, <4>4 DEF RegisteredAs, Registered
    <3>3. ASSUME Reap, NEW id \in RegisteredAs(n) PROVE FALSE
      <4>1. id \in Ids /\ id \in Registered /\ byNodeId[n] = id /\ id # 0
          BY DEF RegisteredAs, Registered, Ids
      <4>2. providers[id].node = n
          BY <1>0, <4>1 DEF IndexConsistent
      <4>3. id \notin Silent
          BY <3>3, <4>2 DEF Reap
      <4>4. ~\E i \in Silent : providers[i].node = n
          BY <1>0, <4>1, <4>3 DEF IndexConsistent, Silent
      <4>5. providers'[id] = providers[id] /\ byNodeId'[n] = id
          BY <1>0, <3>3, <4>1, <4>3, <4>4 DEF Reap
      <4> QED BY <4>1, <4>5 DEF RegisteredAs, Registered
    <3> QED BY <1>2, <3>1, <3>2, <3>3, FleetStep
  <2>3. saved'[n] = saved[n]
    <3>1. ASSUME NEW i \in Registered, providers[i].node = n PROVE FALSE
        BY <1>0, <2>2, <3>1 DEF IndexConsistent, RegisteredAs
    <3> QED BY <3>1, SavedStep
  <2> QED BY <1>0, <2>1, <2>2, <2>3 DEF BootRowCurrent, Unreaped
<1> QED BY <1>1, <1>2

\* The live record and the durable row of a node that was not reaped stay equal.
LEMMA RowStep == ASSUME IInv, [Next]_vars PROVE RowFollowsRecord'
<1>0. TypeOK /\ IndexConsistent /\ BootRowCurrent /\ RowFollowsRecord
    BY DEF IInv
<1> SUFFICES ASSUME NEW id \in Ids, id \in Registered', providers'[id].node \notin reaped'
             PROVE  saved'[providers'[id].node] = providers'[id].stats
    BY DEF RowFollowsRecord, Unreaped, Registered
<1>1. ~Restart
    BY DEF Restart, Registered
<1>2. reaped \subseteq reaped'
    BY <1>1 DEF Next, vars, RegisterNew, RegisterAgain, Heartbeat, JobStarted,
                JobFinished, Tick, Reap
<1>3. CASE Minted(id)
  <2>1. PICK n \in Nodes : RegisterNew(n)
      BY <1>3 DEF Minted
  <2>2. providers'[id].node = n /\ providers'[id].stats = restoredStats[n] /\ saved' = saved
      BY <1>0, <1>3, <2>1 DEF Minted, RegisterNew, TypeOK
  <2> QED BY <1>0, <1>2, <2>1, <2>2 DEF RegisterNew, BootRowCurrent, Unreaped
<1>4. CASE Kept(id) /\ Finished(id)
  <2>1. PICK ok \in BOOLEAN, earned \in {0, 1} : JobFinished(id, ok, earned)
      BY <1>4 DEF Finished
  <2>2. id \in Registered /\ providers'[id].node = providers[id].node
      BY <1>4 DEF Kept, Identity
  <2>3. providers[id] \in Record
      BY <1>0, <2>2, RegisteredRecord
  <2> DEFINE stats == Outcome(providers[id].stats, ok, earned)
  <2>4. /\ saved' = [saved EXCEPT ![providers[id].node] = stats]
        /\ providers' = [providers EXCEPT ![id] =
             [providers[id] EXCEPT !.active = OneFewer(@), !.stats = stats]]
      BY <1>0, <2>1 DEF JobFinished, Persisted, TypeOK
  <2> HIDE DEF stats
  <2>5. providers'[id].stats = stats
      BY <1>0, <2>3, <2>4 DEF TypeOK, Record
  <2>6. saved'[providers[id].node] = stats
      BY <1>0, <2>3, <2>4 DEF TypeOK, Record
  <2> QED BY <2>2, <2>5, <2>6
<1>5. CASE Kept(id) /\ ~Finished(id)
  <2>1. /\ id \in Registered /\ providers'[id].node = providers[id].node
        /\ providers'[id].stats = providers[id].stats
      BY <1>5 DEF Kept, Identity
  <2>2. providers[id].node \in Nodes
      BY <1>0, <2>1, RegisteredRecord DEF Record
  <2>3. \A i \in Registered : providers[i].node = providers[id].node => i = id
      BY <1>0, <2>1 DEF IndexConsistent
  <2>4. saved'[providers[id].node] = saved[providers[id].node]
      BY <1>5, <2>2, <2>3, SavedStep
  <2> QED BY <1>0, <1>2, <2>1, <2>2, <2>4 DEF RowFollowsRecord, Unreaped
<1> QED BY <1>3, <1>4, <1>5, RecordStep

-----------------------------------------------------------------------------
\* A broker that boots on an empty store satisfies the strengthened invariant.
LEMMA IInvInit == Init => IInv
BY BoundsAssumption
DEF Init, IInv, TypeOK, MintedInStep, IndexConsistent, BootRowCurrent, RowFollowsRecord,
    Registered, NoStats, Stats, Ids, Tokens

\* The registry's state (records, indexes, boot rows and durable rows) always fits
\* together, whatever the order of registrations, beats, jobs, reaps and restarts.
THEOREM RegistryInvariant == Spec => []IInv
<1>1. IInv /\ [Next]_vars => IInv'
    BY TypeStep, MintedInStepStep, IndexStep, BootRowStep, RowStep DEF IInv
<1> QED BY IInvInit, <1>1, PTL DEF Spec

\* Every reachable state is well typed; no active count goes below zero.
THEOREM TypeCorrect == Spec => []TypeOK
<1>1. IInv => TypeOK
    BY DEF IInv
<1> QED BY RegistryInvariant, <1>1, PTL

\* A token authenticates exactly the record that carries it, and a node id finds
\* exactly its own record, at all times.
THEOREM IndexesConsistent == Spec => []IndexConsistent
<1>1. IInv => IndexConsistent
    BY DEF IInv
<1> QED BY RegistryInvariant, <1>1, PTL

\* No statistic of a node that was not reaped is ever only in memory.
THEOREM RowsFollowRecords == Spec => []RowFollowsRecord
<1>1. IInv => RowFollowsRecord
    BY DEF IInv
<1> QED BY RegistryInvariant, <1>1, PTL

\* No step gives a node that is registered another id or token, and an id that
\* was dropped stays dropped.
THEOREM IdentitiesAreStable == Spec => IdentityIsStable
<1>1. ASSUME IInv, IInv', [Next]_vars, NEW n \in Nodes, byNodeId[n] # 0, byNodeId'[n] # 0
      PROVE  /\ byNodeId'[n] = byNodeId[n]
             /\ providers'[byNodeId'[n]].token = providers[byNodeId[n]].token
  <2>0. TypeOK /\ IndexConsistent /\ IndexConsistent'
      BY <1>1 DEF IInv
  <2>1. PICK id : id = byNodeId'[n]
      OBVIOUS
  <2>2. id \in Registered' /\ id \in Ids /\ providers'[id].node = n
      BY <1>1, <2>0, <2>1 DEF IndexConsistent, Registered
  <2>3. byNodeId[n] \in Registered /\ providers[byNodeId[n]].node = n
      BY <1>1, <2>0 DEF IndexConsistent
  <2>4. ~Minted(id)
    <3> SUFFICES ASSUME NEW m \in Nodes, id = minted + 1, RegisterNew(m) PROVE FALSE
        BY DEF Minted
    <3>1. providers'[id].node = m
        BY <2>0, <2>2 DEF RegisterNew, TypeOK
    <3>2. byNodeId[n] \in RegisteredAs(n)
        BY <2>3 DEF RegisteredAs
    <3> QED BY <2>2, <3>1, <3>2 DEF RegisterNew
  <2>5. Identity(id)
      BY <1>1, <2>2, <2>4, RecordStep DEF Kept
  <2>6. id \in Registered /\ providers[id].node = n /\ providers'[id].token = providers[id].token
      BY <2>2, <2>5 DEF Identity
  <2>7. byNodeId[n] = id
      BY <2>0, <2>6 DEF IndexConsistent
  <2> QED BY <2>1, <2>6, <2>7
<1>2. ASSUME IInv, [Next]_vars, NEW id \in Ids, id \notin Registered, id <= minted
      PROVE  id \notin Registered'
  <2>1. minted \in Nat /\ id \in Nat
      BY <1>2, BoundsAssumption DEF IInv, TypeOK, Ids
  <2>2. ~Minted(id)
      BY <1>2, <2>1 DEF Minted
  <2> QED BY <1>2, <2>2, RecordStep DEF Kept, Identity
<1>3. IInv /\ IInv' /\ [Next]_vars =>
        [/\ \A n \in Nodes : byNodeId[n] # 0 /\ byNodeId'[n] # 0 =>
              /\ byNodeId'[n] = byNodeId[n]
              /\ providers'[byNodeId'[n]].token = providers[byNodeId[n]].token
         /\ \A id \in Ids : id \notin Registered /\ id <= minted => id \notin Registered']_vars
    BY <1>1, <1>2
<1> QED BY RegistryInvariant, <1>3, PTL DEF Spec, IdentityIsStable

\* The statistics of a registered provider never fall.
THEOREM RecordsNeverRolledBack == Spec => RecordNeverRolledBack
<1>1. ASSUME IInv, [Next]_vars, NEW id \in Registered \cap Registered'
      PROVE  AtLeast(providers'[id].stats, providers[id].stats)
  <2>1. TypeOK /\ id \in Ids /\ minted \in Nat /\ MintedInStep
      BY <1>1, BoundsAssumption DEF IInv, TypeOK, Registered
  <2>2. providers[id] \in Record
      BY <1>1, <2>1, RegisteredRecord
  <2>3. Kept(id)
    <3>1. ~Minted(id)
        BY <1>1, <2>1 DEF Minted, MintedInStep, Ids
    <3> QED BY <1>1, <2>1, <3>1, RecordStep
  <2>4. CASE providers'[id].stats = providers[id].stats
      BY <2>2, <2>4 DEF AtLeast, Record, Stats
  <2>5. CASE Finished(id)
    <3>1. PICK ok \in BOOLEAN, earned \in {0, 1} : JobFinished(id, ok, earned)
        BY <2>5 DEF Finished
    <3> DEFINE stats == Outcome(providers[id].stats, ok, earned)
    <3>2. AtLeast(stats, providers[id].stats)
        BY <2>2, OutcomeGrows DEF Record
    <3>3. providers' = [providers EXCEPT ![id] =
            [providers[id] EXCEPT !.active = OneFewer(@), !.stats = stats]]
        BY <2>1, <3>1 DEF JobFinished, TypeOK
    <3> HIDE DEF stats
    <3>4. providers'[id].stats = stats
        BY <2>1, <2>2, <3>3 DEF TypeOK, Record
    <3> QED BY <3>2, <3>4
  <2> QED BY <2>3, <2>4, <2>5 DEF Kept
<1>2. IInv /\ [Next]_vars =>
        [\A id \in Registered \cap Registered' :
           AtLeast(providers'[id].stats, providers[id].stats)]_vars
    BY <1>1
<1> QED BY RegistryInvariant, <1>2, PTL DEF Spec, RecordNeverRolledBack

-----------------------------------------------------------------------------
(* The quote desk, which asks the registry for its match, for any number of *)
(* requests, providers, prices and rates.                                   *)

AnyRequest == [pc: {"new", "waiting", "quoted", "refused", "unserved"},
               client: Clients \cup {"nobody"}, at: Nat, ceiling: Nat, price: Nat, hbar: Nat]
DeskTypes ==
    /\ now \in Nat /\ offer \in [Providers -> Prices \cup {0}]
    /\ req \in [Requests -> AnyRequest] /\ failed \in Int /\ failed <= now

Flight == [pc: {"none", "asked", "answered"}, rate: Rates \cup {0}, since: Nat]

\* The Mirror Node's rate is seen now; one that is on its way was seen since it was
\* asked for, and one that is kept no longer before it came than a fetch may take.
RatesSeen ==
    /\ mirror \in Rates /\ seen \in [Rates -> Int] /\ seen[mirror] = now
    /\ flight \in Flight
    /\ flight # NoFlight =>
          /\ flight.pc # "none" /\ flight.since <= now /\ now - flight.since <= FetchTime
          /\ flight.pc = "answered" => flight.rate \in Rates /\ seen[flight.rate] >= flight.since
    /\ cached # NoRate =>
          /\ cached.rate \in Rates /\ cached.fetchedAt \in Nat /\ cached.fetchedAt <= now
          /\ seen[cached.rate] >= 0 /\ seen[cached.rate] >= cached.fetchedAt - FetchTime

\* What a quote's figure in HBAR is made from: a rate seen not long ago.
Recent(rate) == rate \in Rates /\ seen[rate] >= 0 /\ now - seen[rate] < MaxAge + FetchTime
Priced(x) == x.price \in Prices /\ x.price <= x.ceiling
Figured(x) ==
    x.at = now /\ x.hbar # 0 =>
        \E rate \in Rates :
            /\ Recent(rate)
            /\ x.hbar * rate >= x.price * TinybarsPerMicroAtACent
            /\ (x.hbar - 1) * rate < x.price * TinybarsPerMicroAtACent

\* A request that waits, or was quoted, has the price it was matched at.
QuotesMade ==
    \A r \in Requests :
        /\ req[r].pc = "waiting" => Priced(req[r])
        /\ req[r].pc = "quoted" =>
              /\ Priced(req[r]) /\ Figured(req[r]) /\ req[r].at <= now
              /\ req[r].hbar = 0 => failed >= req[r].at

DInv == DeskTypes /\ RatesSeen /\ QuotesMade

\* The order of the naturals is well founded, so that a set of them has a least element.
Lower == {p \in Nat \X Nat : p[1] < p[2]}
LEMMA LeastOfNats ==
    ASSUME NEW S \in SUBSET Nat, S # {} PROVE \E x \in S : \A y \in S : x <= y
<1>1. IsWellFoundedOn(Lower, Nat)
    BY NatLessThanWellFounded DEF OpToRel, Lower
<1>2. PICK x \in S : \A y \in S : ~ (<<y, x>> \in Lower)
    BY <1>1, WFMin
<1>3. ASSUME NEW y \in S PROVE x <= y
  <2>1. x \in Nat /\ y \in Nat
      OBVIOUS
  <2>2. y < x => <<y, x>> \in Lower
      BY <2>1 DEF Lower
  <2> QED BY <1>2, <2>1, <2>2
<1> QED BY <1>3

\* match: the price it finds is one that is asked, under the ceiling.
LEMMA MatchedIsOffered ==
    ASSUME DeskTypes, NEW ceiling \in Prices, Candidates(ceiling) # {}
    PROVE  Matched(ceiling) \in Prices /\ Matched(ceiling) <= ceiling
<1> DEFINE S == {offer[p] : p \in Candidates(ceiling)}
<1>1. \A x \in S : x \in Prices /\ x <= ceiling
    BY DEF Candidates, DeskTypes
<1>2. S \in SUBSET Nat /\ S # {}
    BY <1>1, DeskAssumption DEF DeskAssumption
<1>3. Matched(ceiling) \in S
  <2> HIDE DEF S
  <2>1. PICK x \in S : \A y \in S : x <= y
      BY <1>2, LeastOfNats
  <2>2. Min(S) \in S
      BY <2>1 DEF Min
  <2> QED BY <2>2 DEF Matched, S
<1> HIDE DEF S
<1> QED BY <1>1, <1>3

\* The division is rounded up: the figure covers the price, and no less would.
LEMMA RoundedUp ==
    ASSUME NEW p \in Nat \ {0}, NEW rate \in Nat \ {0}
    PROVE  /\ usdMicrosToTinybars(p, rate) \in Nat \ {0}
           /\ usdMicrosToTinybars(p, rate) * rate >= p * TinybarsPerMicroAtACent
           /\ (usdMicrosToTinybars(p, rate) - 1) * rate < p * TinybarsPerMicroAtACent
<1> DEFINE m == p * TinybarsPerMicroAtACent
           h == (m + rate - 1) \div rate
<1>1. m \in Nat \ {0}
    BY DEF TinybarsPerMicroAtACent
<1> HIDE DEF m
<1>2. h \in Int /\ h * rate <= m + rate - 1 /\ m + rate - 1 < h * rate + rate
    BY <1>1
<1> HIDE DEF h
<1>3. h * rate >= m
    BY <1>1, <1>2
<1>4. h > 0
  <2>1. h <= 0 => h * rate <= 0
      BY <1>2
  <2> QED BY <1>1, <1>2, <1>3, <2>1
<1>5. (h - 1) * rate = h * rate - rate
    BY <1>2
<1>6. (h - 1) * rate < m
    BY <1>1, <1>2, <1>5
<1>7. usdMicrosToTinybars(p, rate) = h
    BY DEF usdMicrosToTinybars, h, m
<1> QED BY <1>2, <1>3, <1>4, <1>6, <1>7 DEF m

\* A request that has its price gets a fair quote from a recent rate; without a rate
\* it gets one in USDC, which a failed fetch must account for.
LEMMA QuotedFairly ==
    ASSUME now \in Nat, NEW x \in AnyRequest, Priced(x),
           NEW rate, rate = 0 \/ Recent(rate), NEW q, q = Quoted(x, rate)
    PROVE  /\ q \in AnyRequest /\ q.pc = "quoted" /\ q.at = now
           /\ Priced(q) /\ Figured(q) /\ (q.hbar = 0 => rate = 0)
<1> DEFINE h == usdMicrosToTinybars(x.price, rate)
<1>1. x.price \in Nat \ {0}
    BY DeskAssumption DEF Priced, DeskAssumption
<1>2. ASSUME NEW n \in Nat, q = [x EXCEPT !.pc = "quoted", !.at = now, !.hbar = n]
      PROVE  /\ q \in AnyRequest /\ q.pc = "quoted" /\ q.at = now /\ q.hbar = n
             /\ q.price = x.price /\ q.ceiling = x.ceiling
    BY <1>2 DEF AnyRequest
<1>3. CASE rate = 0
  <2>1. q = [x EXCEPT !.pc = "quoted", !.at = now, !.hbar = 0]
      BY <1>3 DEF Quoted
  <2>2. q \in AnyRequest /\ q.pc = "quoted" /\ q.at = now /\ q.hbar = 0
        /\ q.price = x.price /\ q.ceiling = x.ceiling
      BY <1>2, <2>1
  <2> QED BY <1>3, <2>2 DEF Priced, Figured
<1>4. CASE rate # 0
  <2>1. Recent(rate) /\ rate \in Nat \ {0}
      BY <1>4, DeskAssumption DEF Recent, DeskAssumption
  <2>2. /\ h \in Nat \ {0} /\ h * rate >= x.price * TinybarsPerMicroAtACent
        /\ (h - 1) * rate < x.price * TinybarsPerMicroAtACent
      BY <1>1, <2>1, RoundedUp
  <2>3. q = [x EXCEPT !.pc = "quoted", !.at = now, !.hbar = h]
      BY <1>4 DEF Quoted
  <2> HIDE DEF h
  <2>4. q \in AnyRequest /\ q.pc = "quoted" /\ q.at = now /\ q.hbar = h
        /\ q.price = x.price /\ q.ceiling = x.ceiling
      BY <1>2, <2>2, <2>3
  <2>5. Figured(q)
      BY <2>1, <2>2, <2>4 DEF Figured, Recent
  <2> QED BY <2>2, <2>4, <2>5 DEF Priced
<1> QED BY <1>3, <1>4

\* A request's record is replaced by one that is in order, and by nothing else.
LEMMA RequestKeeps ==
    ASSUME DInv, RatesSeen', NEW r \in Requests, NEW x \in AnyRequest,
           req' = [req EXCEPT ![r] = x], UNCHANGED <<now, offer, failed, seen>>,
           x.pc = "waiting" => Priced(x),
           x.pc = "quoted" => /\ Priced(x) /\ Figured(x) /\ x.at <= now
                              /\ x.hbar = 0 => failed >= x.at
    PROVE  DInv'
<1>1. DeskTypes /\ QuotesMade
    BY DEF DInv
<1>2. req' \in [Requests -> AnyRequest] /\ req'[r] = x
      /\ \A s \in Requests \ {r} : req'[s] = req[s]
    BY <1>1 DEF DeskTypes
<1>3. DeskTypes'
    BY <1>1, <1>2 DEF DeskTypes
<1>4. \A y : Figured(y) => Figured(y)'
    BY DEF Figured, Recent
<1>5. QuotesMade'
    BY <1>1, <1>2, <1>4 DEF QuotesMade, Priced
<1> QED BY <1>3, <1>5 DEF DInv

\* A request that is refused or cannot be served gets no quote.
LEMMA RefusedKeeps ==
    ASSUME DInv, NEW r \in Requests, NEW c \in Clients,
           TooLarge(r, c) \/ Limited(r, c) \/ Unserved(r, c)
    PROVE  DInv'
<1>1. DeskTypes /\ RatesSeen
    BY DEF DInv
<1>2. UNCHANGED <<now, offer, failed, seen, mirror, cached, flight>>
    BY DEF TooLarge, Limited, Unserved, Passes, history
<1>3. PICK x : /\ req' = [req EXCEPT ![r] = x]
               /\ \/ x = [req[r] EXCEPT !.pc = "unserved", !.client = c]
                  \/ x = [req[r] EXCEPT !.pc = "refused", !.client = c, !.at = now]
    BY DEF TooLarge, Limited, Unserved
<1>4. req[r] \in AnyRequest /\ now \in Nat
    BY <1>1 DEF DeskTypes
<1>5. x \in AnyRequest /\ x.pc \in {"unserved", "refused"}
    BY <1>3, <1>4 DEF AnyRequest
<1>6. RatesSeen'
    BY <1>1, <1>2 DEF RatesSeen
<1> QED BY <1>2, <1>3, <1>5, <1>6, RequestKeeps

\* A request is quoted at once if the rate is young enough; else it waits for the fetch
\* that is under way, or for one that starts now.
LEMMA RequestStep ==
    ASSUME DInv, NEW r \in Requests, NEW c \in Clients,
           NEW ceiling \in Prices, Request(r, c, ceiling)
    PROVE  DInv'
<1>1. DeskTypes /\ RatesSeen /\ now \in Nat
    BY DEF DInv, DeskTypes
<1> DEFINE x == [pc |-> "waiting", client |-> c, at |-> now, ceiling |-> ceiling,
                 price |-> Matched(ceiling), hbar |-> 0]
<1>2. UNCHANGED <<now, offer, failed, seen, mirror, cached>>
    BY DEF Request, Passes
<1>3. \/ /\ IsFresh /\ UNCHANGED flight
         /\ req' = [req EXCEPT ![r] = Quoted(x, cached.rate)]
      \/ /\ req' = [req EXCEPT ![r] = x]
         /\ flight' = IF flight # NoFlight THEN flight
                      ELSE [NoFlight EXCEPT !.pc = "asked", !.since = now]
    BY DEF Request
<1>4. Matched(ceiling) \in Prices /\ Matched(ceiling) <= ceiling
    BY <1>1, MatchedIsOffered DEF Request
<1>5. x \in AnyRequest /\ x.pc = "waiting" /\ Priced(x)
    BY <1>1, <1>4, DeskAssumption DEF AnyRequest, Priced, DeskAssumption
<1> HIDE DEF x
<1>6. CASE /\ IsFresh /\ UNCHANGED flight
           /\ req' = [req EXCEPT ![r] = Quoted(x, cached.rate)]
  <2>1. Recent(cached.rate) /\ cached.rate # 0
    <3>1. /\ cached.rate \in Rates /\ cached.fetchedAt \in Nat /\ seen[cached.rate] \in Int
          /\ seen[cached.rate] >= 0 /\ seen[cached.rate] >= cached.fetchedAt - FetchTime
          /\ now - cached.fetchedAt < MaxAge
        BY <1>1, <1>6 DEF IsFresh, RatesSeen
    <3>2. MaxAge \in Nat /\ FetchTime \in Nat /\ Rates \subseteq Nat \ {0}
        BY DeskAssumption DEF DeskAssumption
    <3> QED BY <1>1, <3>1, <3>2 DEF Recent
  <2>2. PICK q : q = Quoted(x, cached.rate)
      OBVIOUS
  <2>3. /\ q \in AnyRequest /\ q.pc = "quoted" /\ q.at = now
        /\ Priced(q) /\ Figured(q) /\ q.hbar # 0
      BY <1>1, <1>5, <2>1, <2>2, QuotedFairly
  <2>4. RatesSeen'
      BY <1>1, <1>2, <1>6 DEF RatesSeen
  <2>5. req' = [req EXCEPT ![r] = q] /\ q.at <= now /\ q.pc # "waiting"
      BY <1>1, <1>6, <2>2, <2>3
  <2> QED BY <1>2, <2>3, <2>4, <2>5, RequestKeeps
<1>7. CASE /\ req' = [req EXCEPT ![r] = x]
           /\ flight' = IF flight # NoFlight THEN flight
                        ELSE [NoFlight EXCEPT !.pc = "asked", !.since = now]
  <2>1. \/ flight' = flight
        \/ /\ flight' = [pc |-> "asked", rate |-> 0, since |-> now]
           /\ flight' \in Flight /\ flight'.pc = "asked" /\ flight'.since = now
      BY <1>1, <1>7 DEF NoFlight, Flight
  <2>2. RatesSeen'
      BY <1>1, <1>2, <2>1, DeskAssumption DEF RatesSeen, DeskAssumption
  <2> QED BY <1>2, <1>5, <1>7, <2>2, RequestKeeps
<1> QED BY <1>3, <1>6, <1>7

\* Whoever waits for the rate is quoted with it, or without one when there is none.
LEMMA SettledFairly ==
    ASSUME DInv, NEW rate, rate = 0 \/ Recent(rate),
           req' = Settled(rate), UNCHANGED <<now, seen, offer>>,
           failed' \in Int, failed' <= now, failed <= failed', rate = 0 => failed' = now
    PROVE  DeskTypes' /\ QuotesMade'
<1>1. DeskTypes /\ QuotesMade /\ now \in Nat
    BY DEF DInv, DeskTypes
<1>2. \A y : Figured(y) => Figured(y)'
    BY DEF Figured, Recent
<1>3. ASSUME NEW r \in Requests, req[r].pc = "waiting"
      PROVE  /\ req'[r] \in AnyRequest /\ req'[r].pc = "quoted" /\ req'[r].at = now
             /\ Priced(req'[r]) /\ Figured(req'[r]) /\ (req'[r].hbar = 0 => rate = 0)
  <2>1. req'[r] = Quoted(req[r], rate)
      BY <1>3 DEF Settled
  <2>2. req[r] \in AnyRequest /\ Priced(req[r])
      BY <1>1, <1>3 DEF DeskTypes, QuotesMade
  <2> QED BY <1>1, <2>1, <2>2, QuotedFairly
<1>4. \A r \in Requests : req[r].pc # "waiting" => req'[r] = req[r]
    BY DEF Settled
<1>5. req' \in [Requests -> AnyRequest]
    BY <1>1, <1>3, <1>4 DEF Settled, DeskTypes
<1>6. DeskTypes'
    BY <1>1, <1>5 DEF DeskTypes
<1>7. ASSUME NEW r \in Requests
      PROVE  /\ req'[r].pc = "waiting" => Priced(req'[r])
             /\ req'[r].pc = "quoted" =>
                   /\ Priced(req'[r]) /\ Figured(req'[r]) /\ req'[r].at <= now
                   /\ req'[r].hbar = 0 => failed' >= req'[r].at
  <2>1. CASE req[r].pc = "waiting"
      BY <1>1, <1>3, <2>1
  <2>2. CASE req[r].pc # "waiting"
    <3>1. req'[r] = req[r] /\ req[r].at \in Nat
        BY <1>1, <1>4, <2>2 DEF DeskTypes, AnyRequest
    <3> QED BY <1>1, <2>2, <3>1 DEF QuotesMade, DeskTypes
  <2> QED BY <2>1, <2>2
<1>8. QuotesMade'
    BY <1>2, <1>7 DEF QuotesMade, Priced
<1> QED BY <1>6, <1>8

\* The fetch goes on, is answered with the rate of the moment, arrives, or fails.
LEMMA FetchStep ==
    ASSUME DInv, MirrorAnswers \/ RateArrives \/ FetchFails
    PROVE  DInv'
<1>1. DeskTypes /\ RatesSeen /\ QuotesMade /\ now \in Nat
    BY DEF DInv, DeskTypes
<1>2. flight.pc # "none" /\ flight # NoFlight
    BY DEF MirrorAnswers, RateArrives, FetchFails, NoFlight
<1>3. flight \in Flight /\ flight.since <= now /\ now - flight.since <= FetchTime /\ flight.since \in Nat
    BY <1>1, <1>2 DEF RatesSeen, Flight
<1>4. NoFlight \in Flight
    BY DEF Flight, NoFlight
<1>5. CASE MirrorAnswers
  <2>1. /\ flight' = [flight EXCEPT !.pc = "answered", !.rate = mirror]
        /\ UNCHANGED <<now, cached, req, offer, mirror, failed, seen>>
      BY <1>5 DEF MirrorAnswers, history
  <2>2. mirror \in Rates /\ seen[mirror] = now
      BY <1>1 DEF RatesSeen
  <2>3. flight' \in Flight /\ flight'.since = flight.since /\ flight'.rate = mirror
      BY <1>3, <2>1, <2>2 DEF Flight
  <2>4. RatesSeen'
      BY <1>1, <1>3, <2>1, <2>2, <2>3 DEF RatesSeen
  <2>5. DeskTypes' /\ QuotesMade'
      BY <1>1, <2>1 DEF DeskTypes, QuotesMade, Priced, Figured, Recent
  <2> QED BY <2>4, <2>5 DEF DInv
<1>6. CASE RateArrives
  <2>1. /\ flight.pc = "answered" /\ cached' = [rate |-> flight.rate, fetchedAt |-> now]
        /\ req' = Settled(flight.rate) /\ flight' = NoFlight
        /\ UNCHANGED <<now, offer, mirror, failed, seen>>
      BY <1>6 DEF RateArrives, history
  <2>2. flight.rate \in Rates /\ seen[flight.rate] >= flight.since /\ seen[flight.rate] \in Int
      BY <1>1, <1>2, <2>1 DEF RatesSeen
  <2>3. Recent(flight.rate) /\ flight.rate # 0
      BY <1>1, <1>3, <2>2, DeskAssumption DEF Recent, DeskAssumption
  <2>4. RatesSeen'
      BY <1>1, <1>3, <1>4, <2>1, <2>2, DeskAssumption DEF RatesSeen, DeskAssumption
  <2>5. DeskTypes' /\ QuotesMade'
      BY <1>1, <2>1, <2>3, SettledFairly DEF DeskTypes
  <2> QED BY <2>4, <2>5 DEF DInv
<1>7. CASE FetchFails
  <2>1. /\ req' = Settled(0) /\ failed' = now /\ flight' = NoFlight
        /\ UNCHANGED <<now, cached, offer, mirror, seen>>
      BY <1>7 DEF FetchFails
  <2>2. RatesSeen'
      BY <1>1, <1>4, <2>1 DEF RatesSeen
  <2>3. DeskTypes' /\ QuotesMade'
      BY <1>1, <2>1, SettledFairly DEF DeskTypes
  <2> QED BY <2>2, <2>3 DEF DInv
<1> QED BY <1>5, <1>6, <1>7

\* Time passes, no further than a fetch may take; prices and the rate change, and
\* windows are swept: quotes already made are as they were.
LEMMA WorldStep ==
    ASSUME DInv,
           \/ DeskTick \/ Sweep \/ UNCHANGED deskVars
           \/ \E p \in Providers, price \in Prices \cup {0} : Reprices(p, price)
           \/ \E rate \in Rates : RateRotates(rate)
    PROVE  DInv'
<1>1. DeskTypes /\ RatesSeen /\ QuotesMade /\ now \in Nat
    BY DEF DInv, DeskTypes
<1>2. MaxAge \in Nat \ {0} /\ FetchTime \in Nat
    BY DeskAssumption DEF DeskAssumption
<1>3. CASE DeskTick
  <2>1. /\ flight.pc # "none" => now - flight.since < FetchTime
        /\ now' = now + 1 /\ seen' = [seen EXCEPT ![mirror] = now + 1]
        /\ UNCHANGED <<cached, flight, req, offer, mirror, failed>>
      BY <1>3 DEF DeskTick, broker, history
  <2>2. seen' \in [Rates -> Int] /\ seen'[mirror] = now'
        /\ \A x \in Rates : seen[x] \in Int /\ seen'[x] \in Int /\ seen'[x] >= seen[x]
      BY <1>1, <2>1 DEF RatesSeen
  <2>3. RatesSeen'
    <3>1. flight # NoFlight => now' - flight.since <= FetchTime /\ flight.since <= now'
      <4>1. flight.since \in Nat
          BY <1>1 DEF RatesSeen, Flight
      <4>2. flight # NoFlight => flight.pc # "none" /\ flight.since <= now
          BY <1>1 DEF RatesSeen
      <4> QED BY <1>1, <1>2, <2>1, <4>1, <4>2
    <3>2. flight # NoFlight /\ flight.pc = "answered" =>
             flight.rate \in Rates /\ seen'[flight.rate] >= flight.since
      <4>1. flight.since \in Nat
          BY <1>1 DEF RatesSeen, Flight
      <4>2. flight # NoFlight /\ flight.pc = "answered" =>
               flight.rate \in Rates /\ seen[flight.rate] >= flight.since
          BY <1>1 DEF RatesSeen
      <4>3. flight.rate \in Rates =>
               /\ seen[flight.rate] \in Int /\ seen'[flight.rate] \in Int
               /\ seen'[flight.rate] >= seen[flight.rate]
          BY <2>2
      <4> QED BY <4>1, <4>2, <4>3
    <3>3. cached # NoRate =>
             /\ cached.rate \in Rates /\ cached.fetchedAt \in Nat /\ cached.fetchedAt <= now'
             /\ seen'[cached.rate] >= 0 /\ seen'[cached.rate] >= cached.fetchedAt - FetchTime
      <4>1. cached # NoRate =>
               /\ cached.rate \in Rates /\ cached.fetchedAt \in Nat /\ cached.fetchedAt <= now
               /\ seen[cached.rate] >= 0 /\ seen[cached.rate] >= cached.fetchedAt - FetchTime
          BY <1>1 DEF RatesSeen
      <4> QED BY <1>1, <1>2, <2>1, <2>2, <4>1
    <3> QED BY <1>1, <2>1, <2>2, <3>1, <3>2, <3>3 DEF RatesSeen
  <2>4. DeskTypes'
      BY <1>1, <2>1 DEF DeskTypes
  <2>5. \A r \in Requests : req[r].at \in Nat
      BY <1>1 DEF DeskTypes, AnyRequest
  <2>6. QuotesMade'
      BY <1>1, <2>1, <2>5 DEF QuotesMade, Priced, Figured
  <2> QED BY <2>3, <2>4, <2>6 DEF DInv
<1>4. CASE Sweep \/ UNCHANGED deskVars
  <2>1. UNCHANGED <<now, cached, flight, req, offer, mirror, failed, seen>>
      BY <1>4 DEF Sweep, deskVars, broker, history
  <2> QED BY <2>1 DEF DInv, DeskTypes, RatesSeen, QuotesMade, Priced, Figured, Recent
<1>5. ASSUME NEW p \in Providers, NEW price \in Prices \cup {0}, Reprices(p, price)
      PROVE  DInv'
  <2>1. /\ offer' = [offer EXCEPT ![p] = price]
        /\ UNCHANGED <<now, cached, flight, req, mirror, failed, seen>>
      BY <1>5 DEF Reprices, broker, history
  <2>2. DeskTypes'
      BY <1>1, <2>1 DEF DeskTypes
  <2>3. RatesSeen' /\ QuotesMade'
      BY <1>1, <2>1 DEF RatesSeen, QuotesMade, Priced, Figured, Recent
  <2> QED BY <2>2, <2>3 DEF DInv
<1>6. ASSUME NEW rate \in Rates, RateRotates(rate)
      PROVE  DInv'
  <2>1. /\ mirror' = rate /\ seen' = [seen EXCEPT ![rate] = now]
        /\ UNCHANGED <<now, cached, flight, req, offer, failed>>
      BY <1>6 DEF RateRotates, broker, history
  <2>2. seen' \in [Rates -> Int] /\ seen'[rate] = now
        /\ \A x \in Rates : seen[x] \in Int /\ seen'[x] \in Int /\ seen'[x] \in {seen[x], now}
      BY <1>1, <2>1 DEF RatesSeen
  <2>3. RatesSeen'
    <3>1. flight # NoFlight /\ flight.pc = "answered" => seen'[flight.rate] >= flight.since
        BY <1>1, <2>2 DEF RatesSeen
    <3>2. cached # NoRate =>
             seen'[cached.rate] >= 0 /\ seen'[cached.rate] >= cached.fetchedAt - FetchTime
      <4>1. cached # NoRate =>
               /\ cached.rate \in Rates /\ cached.fetchedAt \in Nat /\ cached.fetchedAt <= now
               /\ seen[cached.rate] >= 0 /\ seen[cached.rate] >= cached.fetchedAt - FetchTime
          BY <1>1 DEF RatesSeen
      <4>2. cached.rate \in Rates =>
               /\ seen[cached.rate] \in Int /\ seen'[cached.rate] \in Int
               /\ seen'[cached.rate] \in {seen[cached.rate], now}
          BY <2>2
      <4> QED BY <1>1, <1>2, <4>1, <4>2
    <3> QED BY <1>1, <2>1, <2>2, <3>1, <3>2 DEF RatesSeen
  <2>4. \A x : Recent(x) => Recent(x)'
      BY <1>1, <1>2, <2>1, <2>2 DEF Recent
  <2>5. \A y : Figured(y) => Figured(y)'
      BY <2>1, <2>4 DEF Figured
  <2>6. DeskTypes' /\ QuotesMade'
      BY <1>1, <2>1, <2>5 DEF DeskTypes, QuotesMade, Priced
  <2> QED BY <2>3, <2>6 DEF DInv
<1> QED BY <1>3, <1>4, <1>5, <1>6

\* The desk opens with nothing asked, nothing cached and the rate in sight.
LEMMA DeskStarts ==
    ASSUME DeskInit PROVE DInv
<1>1. NotMade \in AnyRequest /\ NotMade.pc = "new"
    BY DEF NotMade, AnyRequest
<1>2. DeskTypes
    BY <1>1 DEF DeskInit, DeskTypes
<1>3. RatesSeen
    BY DEF DeskInit, RatesSeen, Flight, NoFlight
<1>4. QuotesMade
    BY <1>1 DEF DeskInit, QuotesMade
<1> QED BY <1>2, <1>3, <1>4 DEF DInv

\* The invariant of the quote desk holds of every behaviour.
THEOREM DeskInvariant ==
    DeskSpec => []DInv
<1>1. DeskInit => DInv
    BY DeskStarts
<1>2. DInv /\ [DeskNext]_deskVars => DInv'
    BY RefusedKeeps, RequestStep, FetchStep, WorldStep DEF DeskNext
<1> QED BY <1>1, <1>2, PTL DEF DeskSpec

\* A quote asks no more than the client's ceiling, and its HBAR figure is what that
\* price costs, rounded up, at a rate seen not long ago: for any number of requests,
\* prices, rates and changes, any age of rates and any time a fetch may take.
THEOREM QuotesAreFair ==
    DeskSpec => []QuoteIsFair
<1>1. DInv => QuoteIsFair
    BY DEF DInv, QuotesMade, Priced, Figured, Recent, QuoteIsFair
<1> QED BY <1>1, DeskInvariant, PTL

\* A quote lacks an HBAR figure only if a fetch failed when it was made.
THEOREM HbarLacksForCause ==
    DeskSpec => []NoHbarForCause
<1>1. DInv => NoHbarForCause
    BY DEF DInv, QuotesMade, NoHbarForCause
<1> QED BY <1>1, DeskInvariant, PTL
-----------------------------------------------------------------------------
(* The rate limiter, for any number of requests and clients, any limit and    *)
(* any window.                                                              *)
\* Of a client whose window is open: how many of its requests the window has counted and
\* let through, and how many the span before it did.  No request is later than its end.
Began(c) == bucket[c].resetAt - Window
OpenWindow(c) ==
    /\ Began(c) \in 0..now
    /\ bucket[c].count <= Cardinality(Asked(c, Began(c), now))
    /\ Cardinality(Passed(c, Began(c), now)) <= bucket[c].count
    /\ Cardinality(Passed(c, Began(c), now)) <= Limit
    /\ Cardinality(Passed(c, Began(c) - Window, Began(c) - 1)) <= Limit
    /\ \A r \in Asked(c, 0, now) : came[r] <= bucket[c].resetAt
\* Of a client that has none: what a window that was swept may have let through.
NoWindow(c) ==
    /\ Cardinality(Passed(c, now - Window, now)) <= Limit
    /\ \A r \in Asked(c, 0, now) : came[r] < now
Marks ==
    /\ now \in Nat /\ bucket \in [Clients -> [count: Nat, resetAt: Int]]
    /\ came \in [Requests -> Int]
    /\ \A r \in Requests :
          /\ -1 <= came[r] /\ came[r] <= now
          /\ req[r].pc = "new" => came[r] = -1
          /\ req[r].pc = "refused" => came[r] >= 0
Windows == \A c \in Clients : IF bucket[c] = NoBucket THEN NoWindow(c) ELSE OpenWindow(c)
Spans == \A c \in Clients, t \in Nat : Cardinality(Passed(c, t, t + Window)) <= 2 * Limit
Refusals ==
    \A r \in Requests : req[r].pc = "refused" =>
        Cardinality(Asked(req[r].client, came[r] - Window, came[r])) > Limit
LInv == Marks /\ Windows /\ Spans /\ Refusals

\* Sets of requests are finite, and their sizes go as one thinks.
LEMMA RequestSizes ==
    \A S, T \in SUBSET Requests :
        /\ Cardinality(S) \in Nat
        /\ S \subseteq T => Cardinality(S) <= Cardinality(T)
        /\ Cardinality(S \cup T) <= Cardinality(S) + Cardinality(T)
        /\ \A r : r \notin S => Cardinality(S \cup {r}) = Cardinality(S) + 1
<1>1. SUFFICES ASSUME NEW S \in SUBSET Requests, NEW T \in SUBSET Requests
               PROVE  /\ Cardinality(S) \in Nat
                      /\ S \subseteq T => Cardinality(S) <= Cardinality(T)
                      /\ Cardinality(S \cup T) <= Cardinality(S) + Cardinality(T)
                      /\ \A r : r \notin S => Cardinality(S \cup {r}) = Cardinality(S) + 1
    OBVIOUS
<1>2. IsFiniteSet(S) /\ IsFiniteSet(T)
    BY DeskAssumption, FS_Subset DEF DeskAssumption
<1>3. Cardinality(S) \in Nat /\ Cardinality(T) \in Nat /\ Cardinality(S \cap T) \in Nat
    BY <1>2, FS_CardinalityType, FS_Intersection
<1>4. S \subseteq T => Cardinality(S) <= Cardinality(T)
    BY <1>2, FS_Subset
<1>5. Cardinality(S \cup T) = Cardinality(S) + Cardinality(T) - Cardinality(S \cap T)
    BY <1>2, FS_Union
<1>6. \A r : r \notin S => Cardinality(S \cup {r}) = Cardinality(S) + 1
    BY <1>2, FS_AddElement
<1>7. Cardinality(S \cup T) <= Cardinality(S) + Cardinality(T)
    BY <1>3, <1>5
<1> QED BY <1>3, <1>4, <1>6, <1>7

\* A wider span has as many requests or more.
LEMMA SpanSizes ==
    \A c : \A a, b, x, y \in Int :
        /\ Asked(c, a, b) \in SUBSET Requests /\ Passed(c, a, b) \in SUBSET Requests
        /\ Cardinality(Asked(c, a, b)) \in Nat /\ Cardinality(Passed(c, a, b)) \in Nat
        /\ Asked(c, a, b) \subseteq Asked(c, x, y) =>
              /\ Cardinality(Asked(c, a, b)) <= Cardinality(Asked(c, x, y))
              /\ Cardinality(Passed(c, a, b)) <= Cardinality(Passed(c, x, y))
<1>1. \A c : \A a, b \in Int : Asked(c, a, b) \in SUBSET Requests
    BY DEF Asked
<1>2. \A c : \A a, b \in Int : Passed(c, a, b) \in SUBSET Requests
    BY <1>1 DEF Passed
<1>3. \A c : \A a, b, x, y \in Int :
         Asked(c, a, b) \subseteq Asked(c, x, y) => Passed(c, a, b) \subseteq Passed(c, x, y)
    BY DEF Passed
<1> QED BY <1>1, <1>2, <1>3, RequestSizes

\* A step that asks nothing of the limiter changes no span.
Unasked ==
    /\ UNCHANGED came
    /\ \A r \in Requests :
          /\ came[r] >= 0 => /\ req'[r].client = req[r].client
                             /\ req'[r].pc = "refused" <=> req[r].pc = "refused"
          /\ req'[r].pc \in {"new", "refused"} => req'[r].pc = req[r].pc
LEMMA SpansKept ==
    ASSUME Marks, Unasked
    PROVE  \A c : \A a, b \in Int : Asked(c, a, b)' = Asked(c, a, b) /\ Passed(c, a, b)' = Passed(c, a, b)
<1>1. \A r \in Requests : came[r] \in Int /\ came'[r] = came[r]
    BY DEF Marks, Unasked
<1>2. ASSUME NEW c, NEW a \in Int, NEW b \in Int
      PROVE  Asked(c, a, b)' = Asked(c, a, b) /\ Passed(c, a, b)' = Passed(c, a, b)
  <2>1. Asked(c, a, b)' = Asked(c, a, b)
      BY <1>1 DEF Asked, Unasked
  <2>2. \A r \in Asked(c, a, b) : r \in Requests /\ came[r] >= 0
      BY <1>1 DEF Asked
  <2> QED BY <2>1, <2>2 DEF Passed, Unasked
<1> QED BY <1>2

\* The properties of spans stay as they are then.
LEMMA SpansStay ==
    ASSUME LInv, Unasked, now' \in {now, now + 1}, bucket' \in [Clients -> [count: Nat, resetAt: Int]]
    PROVE  Marks' /\ Spans' /\ Refusals'
<1>1. Marks /\ Spans /\ Refusals
    BY DEF LInv
<1>2. Window \in Nat
    BY DeskAssumption DEF DeskAssumption
<1>3. Marks'
    BY <1>1 DEF Marks, Unasked
<1>4. \A c : \A a, b \in Int : Asked(c, a, b)' = Asked(c, a, b) /\ Passed(c, a, b)' = Passed(c, a, b)
    BY <1>1, SpansKept
<1>5. Spans'
    BY <1>1, <1>2, <1>4 DEF Spans
<1>6. ASSUME NEW r \in Requests, req'[r].pc = "refused", NEW d, d = req'[r].client,
             NEW k \in Int, k = came'[r]
      PROVE  Cardinality(Asked(d, k - Window, k)') > Limit
  <2>1. req[r].pc = "refused" /\ came[r] = k /\ k >= 0
      BY <1>1, <1>6 DEF Marks, Unasked
  <2>2. req[r].client = d
      BY <1>6, <2>1 DEF Unasked
  <2>3. Cardinality(Asked(d, k - Window, k)) > Limit
      BY <1>1, <2>1, <2>2 DEF Refusals
  <2> QED BY <1>2, <1>4, <2>3
<1>7. Refusals'
  <2>1. \A r \in Requests : came'[r] \in Int
      BY <1>3 DEF Marks
  <2> QED BY <1>6, <2>1 DEF Refusals
<1> QED BY <1>3, <1>5, <1>7

\* Time goes on, and windows grow old, with no harm.
LEMMA WindowsStay ==
    ASSUME LInv, Unasked, now' \in {now, now + 1}, UNCHANGED bucket
    PROVE  LInv'
<1>1. Marks /\ Windows /\ now \in Nat /\ bucket' = bucket
    BY DEF LInv, Marks
<1>2. Window \in Nat
    BY DeskAssumption DEF DeskAssumption
<1>3. Marks' /\ Spans' /\ Refusals'
    BY <1>1, SpansStay DEF Marks
<1>4. \A c : \A a, b \in Int : Asked(c, a, b)' = Asked(c, a, b) /\ Passed(c, a, b)' = Passed(c, a, b)
    BY <1>1, SpansKept
<1>5. \A c : \A a \in Int : Asked(c, a, now + 1) = Asked(c, a, now) /\ Passed(c, a, now + 1) = Passed(c, a, now)
    BY <1>1 DEF Marks, Asked, Passed
<1>0. PICK m \in {now, now + 1} : m = now'
    OBVIOUS
<1>6. \A c : \A a \in Int : Asked(c, a, m)' = Asked(c, a, now) /\ Passed(c, a, m)' = Passed(c, a, now)
    BY <1>1, <1>4, <1>5
<1>7. ASSUME NEW c \in Clients, bucket[c] # NoBucket PROVE OpenWindow(c)'
  <2>1. OpenWindow(c)
      BY <1>1, <1>7 DEF Windows
  <2>2. Began(c)' = Began(c) /\ Began(c) \in Int /\ Began(c) - Window \in Int /\ Began(c) - 1 \in Int
      BY <1>1, <1>2, <2>1 DEF Began, OpenWindow
  <2>3. Asked(c, 0, m)' = Asked(c, 0, now) /\ came' = came
      BY <1>6 DEF Unasked
  <2> QED BY <1>0, <1>1, <1>4, <1>6, <2>1, <2>2, <2>3 DEF OpenWindow
<1>8. ASSUME NEW c \in Clients, bucket[c] = NoBucket PROVE NoWindow(c)'
  <2>1. NoWindow(c)
      BY <1>1, <1>8 DEF Windows
  <2>2. Asked(c, 0, m)' = Asked(c, 0, now) /\ came' = came
      BY <1>6 DEF Unasked
  <2>3. m - Window \in Int /\ now - Window \in Int /\ m - Window >= now - Window
    <3>1. CASE m = now
        BY <1>1, <1>2, <3>1
    <3>2. CASE m = now + 1
        BY <1>1, <1>2, <3>2
    <3> QED BY <3>1, <3>2
  <2>4. Asked(c, m - Window, now) \subseteq Asked(c, now - Window, now)
      BY <1>1, <2>3 DEF Asked, Marks
  <2>5. Cardinality(Passed(c, m - Window, now)) <= Cardinality(Passed(c, now - Window, now))
      BY <1>1, <2>3, <2>4, SpanSizes
  <2>6. Passed(c, m - Window, m)' = Passed(c, m - Window, now)
      BY <1>6, <2>3
  <2>7. Cardinality(Passed(c, m - Window, now)) \in Nat /\ Cardinality(Passed(c, now - Window, now)) \in Nat
      BY <1>1, <2>3, SpanSizes
  <2>8. Cardinality(Passed(c, m - Window, m)') <= Limit
      BY <2>1, <2>5, <2>6, <2>7, DeskAssumption DEF NoWindow, DeskAssumption
  <2>9. \A r \in Asked(c, 0, m)' : came'[r] < m
      BY <1>1, <2>1, <2>2 DEF NoWindow, Asked, Marks
  <2> QED BY <1>0, <2>8, <2>9 DEF NoWindow
<1>9. Windows'
    BY <1>1, <1>7, <1>8 DEF Windows, NoBucket
<1> QED BY <1>3, <1>9 DEF LInv

\* The sweeper takes windows that are over, and those let through no more than the limit.
LEMMA SweepStays ==
    ASSUME LInv, Sweep PROVE LInv'
<1>1. Marks /\ Windows /\ now \in Nat /\ bucket \in [Clients -> [count: Nat, resetAt: Int]]
    BY DEF LInv, Marks
<1>2. Window \in Nat /\ Limit \in Nat
    BY DeskAssumption DEF DeskAssumption
<1>3. /\ bucket' = [c \in Clients |-> IF Expired(bucket[c]) THEN NoBucket ELSE bucket[c]]
      /\ UNCHANGED <<now, req, came>>
    BY DEF Sweep, history
<1>4. Unasked
    BY <1>3 DEF Unasked
<1>5. bucket' \in [Clients -> [count: Nat, resetAt: Int]]
    BY <1>1, <1>3 DEF NoBucket
<1>6. Marks' /\ Spans' /\ Refusals'
    BY <1>3, <1>4, <1>5, SpansStay
<1>7. \A c : \A a, b \in Int : Asked(c, a, b)' = Asked(c, a, b) /\ Passed(c, a, b)' = Passed(c, a, b)
    BY <1>1, <1>4, SpansKept
<1>8. ASSUME NEW c \in Clients, bucket'[c] # NoBucket PROVE OpenWindow(c)'
  <2>1. bucket'[c] = bucket[c] /\ OpenWindow(c)
      BY <1>1, <1>3, <1>8 DEF Windows
  <2>2. Began(c)' = Began(c) /\ Began(c) \in Int /\ Began(c) - Window \in Int /\ Began(c) - 1 \in Int
      BY <1>1, <1>2, <2>1 DEF Began, OpenWindow
  <2> QED BY <1>1, <1>3, <1>7, <2>1, <2>2 DEF OpenWindow
<1>9. ASSUME NEW c \in Clients, bucket'[c] = NoBucket PROVE NoWindow(c)'
  <2>1. now - Window \in Int
      BY <1>1, <1>2
  <2>2. NoWindow(c)
    <3>1. CASE bucket[c] = NoBucket
        BY <1>1, <3>1 DEF Windows
    <3>2. CASE bucket[c] # NoBucket
      <4>1. OpenWindow(c) /\ bucket[c].resetAt < now /\ bucket[c].resetAt \in Int
          BY <1>1, <1>3, <1>9, <3>2 DEF Windows, Expired
      <4>2. Began(c) \in Int /\ Began(c) <= now - Window
          BY <1>1, <1>2, <4>1 DEF Began
      <4>3. Asked(c, now - Window, now) \subseteq Asked(c, Began(c), now)
          BY <1>1, <2>1, <4>2 DEF Asked, Marks
      <4>4. Cardinality(Passed(c, now - Window, now)) <= Cardinality(Passed(c, Began(c), now))
          BY <1>1, <2>1, <4>2, <4>3, SpanSizes
      <4>5. Cardinality(Passed(c, now - Window, now)) \in Nat /\ Cardinality(Passed(c, Began(c), now)) \in Nat
          BY <1>1, <2>1, <4>2, SpanSizes
      <4>6. Cardinality(Passed(c, now - Window, now)) <= Limit
          BY <1>2, <4>1, <4>4, <4>5 DEF OpenWindow
      <4>7. \A r \in Asked(c, 0, now) : came[r] < now
          BY <1>1, <4>1 DEF OpenWindow, Asked, Marks
      <4> QED BY <4>6, <4>7 DEF NoWindow
    <3> QED BY <3>1, <3>2
  <2> QED BY <1>1, <1>3, <1>7, <2>1, <2>2 DEF NoWindow
<1>10. Windows'
    BY <1>8, <1>9 DEF Windows, NoBucket
<1> QED BY <1>6, <1>10 DEF LInv

\* The window that will count a request began at s and has counted n: nothing yet, if it
\* begins now, and the span before it is what the last one let through, or part of it.
Counts(c, s, n) ==
    /\ s <= now /\ now <= s + Window
    /\ Counted(c) = [count |-> n + 1, resetAt |-> s + Window]
    /\ n <= Cardinality(Asked(c, s, now))
    /\ Cardinality(Passed(c, s, now)) <= n /\ Cardinality(Passed(c, s, now)) <= Limit
    /\ Cardinality(Passed(c, s - Window, s - 1)) <= Limit
LEMMA WindowCounts ==
    ASSUME LInv, NEW c \in Clients PROVE \E s, n \in Nat : Counts(c, s, n)
<1>1. Marks /\ now \in Nat /\ bucket[c] \in [count: Nat, resetAt: Int]
    BY DEF LInv, Marks
<1>2. IF bucket[c] = NoBucket THEN NoWindow(c) ELSE OpenWindow(c)
    BY DEF LInv, Windows
<1>3. Window \in Nat \ {0} /\ Limit \in Nat \ {0}
    BY DeskAssumption DEF DeskAssumption
<1>4. now - Window \in Int /\ now - 1 \in Int
    BY <1>1, <1>3
<1>5. CASE Expired(bucket[c])
  <2>1. Counted(c) = [count |-> 0 + 1, resetAt |-> now + Window]
      BY <1>5 DEF Counted
  <2>2. /\ \A r \in Asked(c, 0, now) : came[r] < now
        /\ Cardinality(Passed(c, now - Window, now - 1)) <= Limit
    <3>1. ASSUME NEW a \in Int, a <= now - Window, Cardinality(Passed(c, a, now)) <= Limit
          PROVE  Cardinality(Passed(c, now - Window, now - 1)) <= Limit
      <4>1. Asked(c, now - Window, now - 1) \subseteq Asked(c, a, now)
          BY <1>1, <1>3, <3>1 DEF Asked, Marks
      <4>2. /\ Cardinality(Passed(c, now - Window, now - 1)) <= Cardinality(Passed(c, a, now))
            /\ Cardinality(Passed(c, now - Window, now - 1)) \in Nat /\ Cardinality(Passed(c, a, now)) \in Nat
          BY <1>1, <1>4, <3>1, <4>1, SpanSizes
      <4> QED BY <1>3, <3>1, <4>2
    <3>2. CASE bucket[c] = NoBucket
        BY <1>2, <1>4, <3>1, <3>2 DEF NoWindow
    <3>3. CASE bucket[c] # NoBucket
      <4>1. bucket[c].resetAt < now /\ OpenWindow(c)
          BY <1>2, <1>5, <3>3 DEF Expired
      <4>2. Began(c) \in Int /\ Began(c) <= now - Window
          BY <1>1, <1>3, <4>1 DEF Began
      <4> QED BY <1>1, <3>1, <4>1, <4>2 DEF OpenWindow, Asked, Marks
    <3> QED BY <3>2, <3>3
  <2>3. Asked(c, now, now) = {}
      BY <1>1, <2>2 DEF Asked, Marks
  <2>4. Passed(c, now, now) = {} /\ Cardinality({}) = 0
      BY <2>3, FS_EmptySet DEF Passed
  <2>5. Counts(c, now, 0)
      BY <1>1, <1>3, <2>1, <2>2, <2>3, <2>4 DEF Counts
  <2> QED BY <1>1, <2>5
<1>6. CASE ~Expired(bucket[c])
  <2>1. bucket[c].resetAt \in Int /\ bucket[c].count \in Nat /\ now <= bucket[c].resetAt
      BY <1>1, <1>6 DEF Expired
  <2>2. OpenWindow(c)
      BY <1>1, <1>2, <2>1 DEF NoBucket
  <2>3. Counted(c) = [bucket[c] EXCEPT !.count = bucket[c].count + 1]
      BY <1>6 DEF Counted
  <2>4. Began(c) + Window = bucket[c].resetAt /\ Began(c) \in Nat /\ Began(c) <= now
      BY <1>1, <1>3, <2>1, <2>2 DEF Began, OpenWindow
  <2>5. Counted(c) = [count |-> bucket[c].count + 1, resetAt |-> Began(c) + Window]
      BY <1>1, <2>3, <2>4
  <2>6. Counts(c, Began(c), bucket[c].count)
      BY <2>1, <2>2, <2>4, <2>5 DEF Counts, OpenWindow
  <2> QED BY <2>1, <2>4, <2>6
<1> QED BY <1>5, <1>6

\* A request is counted in its client's window, and let through or refused.
LEMMA LimiterStep ==
    ASSUME LInv, NEW r \in Requests, NEW c \in Clients, NEW x,
           req[r].pc = "new", UNCHANGED now,
           bucket' = [bucket EXCEPT ![c] = Counted(c)], came' = [came EXCEPT ![r] = now],
           req' = [req EXCEPT ![r] = x], DOMAIN req = Requests,
           x.client = c, x.pc # "new", x.pc = "refused" <=> ~WithinLimit(Counted(c))
    PROVE  LInv'
<1>1. Marks /\ Windows /\ Spans /\ Refusals /\ now \in Nat /\ now' = now
    BY DEF LInv, Marks
<1>2. Window \in Nat \ {0} /\ Limit \in Nat \ {0}
    BY DeskAssumption DEF DeskAssumption
<1>3. PICK s \in Nat, n \in Nat : Counts(c, s, n)
    BY WindowCounts
<1>4. /\ req'[r] = x /\ came'[r] = now /\ \A q \in Requests \ {r} : req'[q] = req[q] /\ came'[q] = came[q]
      /\ came[r] = -1 /\ \A q \in Requests : came[q] \in Int /\ came'[q] \in Int
    BY <1>1 DEF Marks
<1>5. /\ bucket' \in [Clients -> [count: Nat, resetAt: Int]]
      /\ bucket'[c] = [count |-> n + 1, resetAt |-> s + Window] /\ bucket'[c] # NoBucket
      /\ \A d \in Clients \ {c} : bucket'[d] = bucket[d]
  <2>1. bucket \in [Clients -> [count: Nat, resetAt: Int]]
      BY <1>1 DEF Marks
  <2>2. Counted(c) = [count |-> n + 1, resetAt |-> s + Window]
      BY <1>3 DEF Counts
  <2>3. [count |-> n + 1, resetAt |-> s + Window] \in [count: Nat, resetAt: Int]
      BY <1>2
  <2>4. bucket'[c].count # 0
      BY <2>1, <2>2
  <2> QED BY <2>1, <2>2, <2>3, <2>4 DEF NoBucket
<1>6. Marks'
    BY <1>1, <1>4, <1>5 DEF Marks
<1>7. x.pc # "refused" <=> n + 1 <= Limit
    BY <1>3 DEF Counts, WithinLimit
<1>8. ASSUME NEW d, NEW a \in Int, NEW b \in Int
      PROVE  /\ r \notin Asked(d, a, b) /\ r \notin Passed(d, a, b)
             /\ d = c /\ a <= now /\ now <= b =>
                   /\ Asked(d, a, b)' = Asked(d, a, b) \cup {r}
                   /\ Passed(d, a, b)' = IF x.pc = "refused" THEN Passed(d, a, b)
                                         ELSE Passed(d, a, b) \cup {r}
             /\ ~(d = c /\ a <= now /\ now <= b) =>
                   Asked(d, a, b)' = Asked(d, a, b) /\ Passed(d, a, b)' = Passed(d, a, b)
  <2>1. r \notin Asked(d, a, b) /\ r \notin Passed(d, a, b)
      BY <1>4 DEF Asked, Passed
  <2>2. \A q \in Requests \ {r} : q \in Asked(d, a, b)' <=> q \in Asked(d, a, b)
      BY <1>4 DEF Asked
  <2>3. r \in Asked(d, a, b)' <=> d = c /\ a <= now /\ now <= b
      BY <1>1, <1>4 DEF Asked
  <2>4. Asked(d, a, b)' \subseteq Requests /\ Asked(d, a, b) \subseteq Requests
      BY DEF Asked
  <2>5. Asked(d, a, b)' = IF d = c /\ a <= now /\ now <= b THEN Asked(d, a, b) \cup {r} ELSE Asked(d, a, b)
      BY <2>1, <2>2, <2>3, <2>4
  <2>6. \A q \in Requests \ {r} : q \in Passed(d, a, b)' <=> q \in Passed(d, a, b)
      BY <1>4, <2>2 DEF Passed
  <2>7. r \in Passed(d, a, b)' <=> d = c /\ a <= now /\ now <= b /\ x.pc # "refused"
      BY <1>4, <2>3 DEF Passed
  <2>8. Passed(d, a, b)' \subseteq Requests /\ Passed(d, a, b) \subseteq Requests
      BY <2>4 DEF Passed
  <2>9. Passed(d, a, b)' = IF d = c /\ a <= now /\ now <= b /\ x.pc # "refused"
                           THEN Passed(d, a, b) \cup {r} ELSE Passed(d, a, b)
      BY <2>1, <2>6, <2>7, <2>8
  <2> QED BY <2>1, <2>5, <2>9
<1>9. ASSUME NEW d, NEW a \in Int, NEW b \in Int
      PROVE  /\ Cardinality(Asked(d, a, b)) \in Nat /\ Cardinality(Passed(d, a, b)) \in Nat
             /\ d = c /\ a <= now /\ now <= b =>
                   /\ Cardinality(Asked(d, a, b)') = Cardinality(Asked(d, a, b)) + 1
                   /\ Cardinality(Passed(d, a, b)') =
                         Cardinality(Passed(d, a, b)) + (IF x.pc = "refused" THEN 0 ELSE 1)
             /\ ~(d = c /\ a <= now /\ now <= b) =>
                   Asked(d, a, b)' = Asked(d, a, b) /\ Passed(d, a, b)' = Passed(d, a, b)
  <2>1. Asked(d, a, b) \in SUBSET Requests /\ Passed(d, a, b) \in SUBSET Requests
      BY SpanSizes
  <2>2. Cardinality(Asked(d, a, b) \cup {r}) = Cardinality(Asked(d, a, b)) + 1
      BY <1>8, <2>1, RequestSizes
  <2>3. Cardinality(Passed(d, a, b) \cup {r}) = Cardinality(Passed(d, a, b)) + 1
      BY <1>8, <2>1, RequestSizes
  <2>4. Cardinality(Asked(d, a, b)) \in Nat /\ Cardinality(Passed(d, a, b)) \in Nat
      BY SpanSizes
  <2>5. CASE d = c /\ a <= now /\ now <= b
    <3>1. Asked(d, a, b)' = Asked(d, a, b) \cup {r}
        BY <1>8, <2>5
    <3>2. Passed(d, a, b)' = IF x.pc = "refused" THEN Passed(d, a, b) ELSE Passed(d, a, b) \cup {r}
        BY <1>8, <2>5
    <3>3. Cardinality(Passed(d, a, b)') =
             Cardinality(Passed(d, a, b)) + (IF x.pc = "refused" THEN 0 ELSE 1)
        BY <2>3, <2>4, <3>2
    <3> QED BY <2>2, <2>4, <2>5, <3>1, <3>3
  <2>6. CASE ~(d = c /\ a <= now /\ now <= b)
      BY <1>8, <2>4, <2>6
  <2> QED BY <2>5, <2>6
<1>10. ASSUME NEW d \in Clients PROVE (IF bucket[d] = NoBucket THEN NoWindow(d) ELSE OpenWindow(d))'
  <2>1. CASE d = c
    <3>1. Began(c)' = s
        BY <1>2, <1>5 DEF Began
    <3>2. s \in 0..now /\ s - Window \in Int /\ s - 1 \in Int /\ s \in Int /\ now \in Int
        BY <1>1, <1>2, <1>3 DEF Counts
    <3>3. /\ Cardinality(Asked(c, s, now)') = Cardinality(Asked(c, s, now)) + 1
          /\ Cardinality(Asked(c, s, now)) \in Nat /\ Cardinality(Passed(c, s, now)) \in Nat
          /\ Cardinality(Passed(c, s, now)') =
                Cardinality(Passed(c, s, now)) + (IF x.pc = "refused" THEN 0 ELSE 1)
        BY <1>9, <3>2
    <3>4. Passed(c, s - Window, s - 1)' = Passed(c, s - Window, s - 1)
        BY <1>9, <3>2
    <3>5. \A q \in Asked(c, 0, now)' : came'[q] <= s + Window
      <4>1. \A q \in Requests : came'[q] <= now
          BY <1>1, <1>4 DEF Marks
      <4>2. now <= s + Window
          BY <1>3 DEF Counts
      <4> QED BY <1>1, <1>2, <1>4, <4>1, <4>2 DEF Asked
    <3>6. /\ n + 1 <= Cardinality(Asked(c, s, now)')
          /\ Cardinality(Passed(c, s, now)') <= n + 1 /\ Cardinality(Passed(c, s, now)') <= Limit
        BY <1>2, <1>3, <1>7, <3>3 DEF Counts
    <3>7. Cardinality(Passed(c, s - Window, s - 1)') <= Limit
        BY <1>3, <3>4 DEF Counts
    <3>8. OpenWindow(c)'
        BY <1>1, <1>5, <3>1, <3>2, <3>5, <3>6, <3>7 DEF OpenWindow
    <3> QED BY <1>5, <2>1, <3>8
  <2>2. CASE d # c
    <3>1. bucket'[d] = bucket[d] /\ (IF bucket[d] = NoBucket THEN NoWindow(d) ELSE OpenWindow(d))
        BY <1>1, <1>5, <2>2 DEF Windows
    <3>2. \A a, b \in Int : Asked(d, a, b)' = Asked(d, a, b) /\ Passed(d, a, b)' = Passed(d, a, b)
        BY <1>9, <2>2
    <3>3. \A q \in Asked(d, 0, now) : came'[q] = came[q]
        BY <1>4, <1>1, <1>8 DEF Asked
    <3>4. CASE bucket[d] = NoBucket
      <4>1. now - Window \in Int
          BY <1>1, <1>2
      <4> QED BY <1>1, <3>1, <3>2, <3>3, <3>4, <4>1 DEF NoWindow, NoBucket
    <3>5. CASE bucket[d] # NoBucket
      <4>1. Began(d)' = Began(d) /\ Began(d) \in Int /\ Began(d) - Window \in Int /\ Began(d) - 1 \in Int
          BY <1>1, <1>2, <3>1, <3>5 DEF Began, OpenWindow
      <4> QED BY <1>1, <3>1, <3>2, <3>3, <3>5, <4>1 DEF OpenWindow, NoBucket
    <3> QED BY <3>4, <3>5
  <2> QED BY <2>1, <2>2
<1>11. ASSUME NEW d \in Clients, NEW t \in Nat PROVE Cardinality(Passed(d, t, t + Window)') <= 2 * Limit
  <2>1. t \in Int /\ t + Window \in Int /\ s - Window \in Int /\ s - 1 \in Int /\ s \in Int /\ now \in Int
      BY <1>1, <1>2
  <2>2. Cardinality(Passed(d, t, t + Window)) <= 2 * Limit
      BY <1>1 DEF Spans
  <2>3. CASE d = c /\ t <= now /\ now <= t + Window /\ x.pc # "refused"
    <3>1. Asked(c, t, t + Window) \subseteq Asked(c, s - Window, s - 1) \cup Asked(c, s, now)
        BY <1>1, <1>2, <1>3, <2>1, <2>3 DEF Asked, Marks, Counts
    <3>2. Passed(c, t, t + Window) \subseteq Passed(c, s - Window, s - 1) \cup Passed(c, s, now)
        BY <3>1 DEF Passed
    <3>3. PICK S, T \in SUBSET Requests : S = Passed(c, s - Window, s - 1) /\ T = Passed(c, s, now)
        BY <2>1, SpanSizes
    <3>4. PICK P \in SUBSET Requests : P = Passed(c, t, t + Window)
        BY <2>1, SpanSizes
    <3>5. /\ Cardinality(P) <= Cardinality(S \cup T) /\ Cardinality(S \cup T) <= Cardinality(S) + Cardinality(T)
          /\ Cardinality(P) \in Nat /\ Cardinality(S) \in Nat /\ Cardinality(T) \in Nat
          /\ Cardinality(S \cup T) \in Nat
      <4>1. S \cup T \in SUBSET Requests /\ P \subseteq S \cup T
          BY <3>2, <3>3, <3>4
      <4> QED BY <4>1, RequestSizes
    <3>6. Cardinality(S) <= Limit /\ Cardinality(T) <= n /\ n + 1 <= Limit
        BY <1>3, <1>7, <2>3, <3>3 DEF Counts
    <3>7. Cardinality(P) + 1 <= 2 * Limit
        BY <1>2, <3>5, <3>6
    <3>8. Cardinality(Passed(c, t, t + Window)') = Cardinality(P) + 1
        BY <1>9, <2>1, <2>3, <3>4
    <3> QED BY <2>3, <3>7, <3>8
  <2>4. CASE ~(d = c /\ t <= now /\ now <= t + Window /\ x.pc # "refused")
    <3>1. Passed(d, t, t + Window)' = Passed(d, t, t + Window)
        BY <1>8, <2>1, <2>4
    <3> QED BY <2>2, <3>1
  <2> QED BY <2>3, <2>4
<1>12. ASSUME NEW q \in Requests, req'[q].pc = "refused", NEW d, d = req'[q].client,
              NEW k \in Int, k = came'[q]
       PROVE  Cardinality(Asked(d, k - Window, k)') > Limit
  <2>1. k - Window \in Int /\ now - Window \in Int /\ now \in Int /\ s \in Int
      BY <1>1, <1>2
  <2>2. CASE q = r
    <3>1. d = c /\ k = now /\ ~(n + 1 <= Limit)
        BY <1>4, <1>7, <1>12, <2>2
    <3>2. Asked(c, s, now) \subseteq Asked(c, now - Window, now)
        BY <1>1, <1>2, <1>3, <2>1 DEF Asked, Marks, Counts
    <3>3. /\ Cardinality(Asked(c, s, now)) <= Cardinality(Asked(c, now - Window, now))
          /\ Cardinality(Asked(c, s, now)) \in Nat /\ Cardinality(Asked(c, now - Window, now)) \in Nat
        BY <2>1, <3>2, SpanSizes
    <3>4. Cardinality(Asked(c, k - Window, k)') = Cardinality(Asked(c, now - Window, now)) + 1
        BY <1>1, <1>2, <1>9, <2>1, <3>1
    <3>5. n <= Cardinality(Asked(c, s, now))
        BY <1>3 DEF Counts
    <3>6. Cardinality(Asked(c, k - Window, k)') > Limit
        BY <1>2, <3>1, <3>3, <3>4, <3>5
    <3> QED BY <3>1, <3>6
  <2>3. CASE q # r
    <3>1. req[q].pc = "refused" /\ d = req[q].client /\ k = came[q]
        BY <1>4, <1>12, <2>3
    <3>2. Cardinality(Asked(d, k - Window, k)) > Limit
        BY <1>1, <3>1 DEF Refusals
    <3>3. /\ Cardinality(Asked(d, k - Window, k)) \in Nat
          /\ \/ Cardinality(Asked(d, k - Window, k)') = Cardinality(Asked(d, k - Window, k))
             \/ Cardinality(Asked(d, k - Window, k)') = Cardinality(Asked(d, k - Window, k)) + 1
        BY <1>9, <2>1
    <3> QED BY <1>2, <3>2, <3>3
  <2> QED BY <2>2, <2>3
<1>13. Windows' /\ Spans'
    BY <1>10, <1>11 DEF Windows, Spans
<1>14. Refusals'
    BY <1>4, <1>12 DEF Refusals
<1> QED BY <1>6, <1>13, <1>14 DEF LInv

\* What a step does to the limiter's marks: it counts one request, or none.
LEMMA LimitStep ==
    ASSUME DInv, LInv, [DeskNext]_deskVars PROVE LInv'
<1>1. req \in [Requests -> AnyRequest] /\ DOMAIN req = Requests /\ now \in Nat
    BY DEF DInv, DeskTypes
<1>2. ASSUME NEW r \in Requests, NEW c \in Clients, TooLarge(r, c) PROVE LInv'
  <2>1. /\ req[r].pc = "new" /\ req' = [req EXCEPT ![r].pc = "unserved", ![r].client = c]
        /\ UNCHANGED <<now, bucket, came>>
      BY <1>2 DEF TooLarge, history
  <2>2. req'[r].pc = "unserved" /\ \A q \in Requests \ {r} : req'[q] = req[q]
      BY <1>1, <2>1 DEF AnyRequest
  <2>3. ~(came[r] >= 0)
      BY <2>1 DEF LInv, Marks
  <2>4. Unasked
    <3>1. ASSUME NEW q \in Requests
          PROVE  /\ came[q] >= 0 => /\ req'[q].client = req[q].client
                                    /\ req'[q].pc = "refused" <=> req[q].pc = "refused"
                 /\ req'[q].pc \in {"new", "refused"} => req'[q].pc = req[q].pc
      <4>1. CASE q = r
          BY <2>2, <2>3, <4>1
      <4>2. CASE q # r
          BY <2>2, <4>2
      <4> QED BY <4>1, <4>2
    <3> QED BY <2>1, <3>1 DEF Unasked
  <2> QED BY <2>1, <2>4, WindowsStay
<1>3. ASSUME NEW r \in Requests, NEW c \in Clients, Limited(r, c) PROVE LInv'
  <2> DEFINE x == [req[r] EXCEPT !.pc = "refused", !.client = c, !.at = now]
  <2>1. /\ req[r].pc = "new" /\ ~WithinLimit(Counted(c)) /\ bucket' = [bucket EXCEPT ![c] = Counted(c)]
        /\ came' = [came EXCEPT ![r] = now] /\ UNCHANGED now /\ req' = [req EXCEPT ![r] = x]
      BY <1>3 DEF Limited
  <2>2. x.pc = "refused" /\ x.client = c
      BY <1>1 DEF AnyRequest
  <2> HIDE DEF x
  <2> QED BY <1>1, <2>1, <2>2, LimiterStep
<1>4. ASSUME NEW r \in Requests, NEW c \in Clients,
             Unserved(r, c) \/ \E ceiling \in Prices : Request(r, c, ceiling)
      PROVE  LInv'
  <2>1. /\ req[r].pc = "new" /\ WithinLimit(Counted(c)) /\ bucket' = [bucket EXCEPT ![c] = Counted(c)]
        /\ came' = [came EXCEPT ![r] = now] /\ UNCHANGED now
      BY <1>4 DEF Unserved, Request, Passes
  <2>2. PICK x : req' = [req EXCEPT ![r] = x] /\ x.client = c /\ x.pc \in {"unserved", "waiting", "quoted"}
    <3>1. CASE Unserved(r, c)
      <4>1. req' = [req EXCEPT ![r] = [req[r] EXCEPT !.pc = "unserved", !.client = c]]
          BY <3>1 DEF Unserved
      <4>2. /\ [req[r] EXCEPT !.pc = "unserved", !.client = c].pc = "unserved"
            /\ [req[r] EXCEPT !.pc = "unserved", !.client = c].client = c
          BY <1>1 DEF AnyRequest
      <4> QED BY <4>1, <4>2
    <3>2. ASSUME NEW ceiling \in Prices, Request(r, c, ceiling)
          PROVE  \E x : req' = [req EXCEPT ![r] = x] /\ x.client = c /\ x.pc \in {"unserved", "waiting", "quoted"}
      <4> DEFINE w == [pc |-> "waiting", client |-> c, at |-> now, ceiling |-> ceiling,
                       price |-> Matched(ceiling), hbar |-> 0]
      <4>1. req' = [req EXCEPT ![r] = w] \/ req' = [req EXCEPT ![r] = Quoted(w, cached.rate)]
          BY <3>2 DEF Request
      <4>2. w.client = c /\ w.pc = "waiting"
          OBVIOUS
      <4>3. Quoted(w, cached.rate).client = c /\ Quoted(w, cached.rate).pc = "quoted"
          BY DEF Quoted
      <4> HIDE DEF w
      <4> QED BY <4>1, <4>2, <4>3
    <3> QED BY <1>4, <3>1, <3>2
  <2> QED BY <1>1, <2>1, <2>2, LimiterStep
<1>5. CASE RateArrives \/ FetchFails
  <2>1. PICK rate : req' = Settled(rate) /\ UNCHANGED <<now, bucket, came>>
      BY <1>5 DEF RateArrives, FetchFails, history
  <2>2. ASSUME NEW r \in Requests
        PROVE  /\ req'[r].client = req[r].client
               /\ req'[r].pc = "refused" <=> req[r].pc = "refused"
               /\ req'[r].pc \in {"new", "refused"} => req'[r].pc = req[r].pc
    <3>1. req'[r] = IF req[r].pc = "waiting" THEN Quoted(req[r], rate) ELSE req[r]
        BY <2>1 DEF Settled
    <3>2. Quoted(req[r], rate).client = req[r].client /\ Quoted(req[r], rate).pc = "quoted"
        BY <1>1 DEF Quoted, AnyRequest
    <3> QED BY <3>1, <3>2
  <2>3. Unasked
      BY <2>1, <2>2 DEF Unasked
  <2> QED BY <2>1, <2>3, WindowsStay
<1>6. ASSUME now' \in {now, now + 1}, UNCHANGED <<req, came, bucket>> PROVE LInv'
    BY <1>6, WindowsStay DEF Unasked
<1>7. CASE MirrorAnswers \/ DeskTick \/ UNCHANGED deskVars
    BY <1>6, <1>7 DEF MirrorAnswers, DeskTick, deskVars, broker, history
<1>8. ASSUME \/ \E p \in Providers, price \in Prices \cup {0} : Reprices(p, price)
             \/ \E rate \in Rates : RateRotates(rate)
      PROVE  LInv'
    BY <1>6, <1>8 DEF Reprices, RateRotates, broker, history
<1> QED BY <1>2, <1>3, <1>4, <1>5, <1>7, <1>8, SweepStays DEF DeskNext

\* Nobody has asked.
LEMMA LimitStarts ==
    ASSUME DeskInit PROVE LInv
<1>1. /\ now = 0 /\ bucket = [c \in Clients |-> NoBucket] /\ came = [r \in Requests |-> -1]
      /\ \A r \in Requests : req[r].pc = "new"
    BY DEF DeskInit, NotMade
<1>2. Window \in Nat \ {0} /\ Limit \in Nat \ {0}
    BY DeskAssumption DEF DeskAssumption
<1>3. \A c : \A a, b \in Int : Asked(c, a, b) = {}
    BY <1>1 DEF Asked
<1>4. (\A c : \A a, b \in Int : Passed(c, a, b) = {}) /\ Cardinality({}) = 0
    BY <1>3, FS_EmptySet DEF Passed
<1>5. Marks
    BY <1>1 DEF Marks, NoBucket
<1>6. Windows
  <2>1. 0 - Window \in Int
      BY <1>2
  <2>2. \A c : Passed(c, 0 - Window, 0) = {} /\ Asked(c, 0, 0) = {}
      BY <1>3, <1>4, <2>1
  <2>3. Cardinality({}) <= Limit
      BY <1>2, <1>4
  <2> QED BY <1>1, <2>2, <2>3 DEF Windows, NoWindow
<1>7. Spans
  <2>1. ASSUME NEW c \in Clients, NEW t \in Nat PROVE Passed(c, t, t + Window) = {}
      BY <1>2, <1>4
  <2>2. Cardinality({}) <= 2 * Limit
      BY <1>2, <1>4
  <2> QED BY <2>1, <2>2 DEF Spans
<1>8. Refusals
    BY <1>1 DEF Refusals
<1> QED BY <1>5, <1>6, <1>7, <1>8 DEF LInv

\* The bounds on the clock and on changes keep what is made of them within bounds.
DeskBounds ==
    /\ now \in Times /\ changes \in 0..MaxChanges /\ failed \in Times \cup {-1}
    /\ cached \in [rate: Rates \cup {0}, fetchedAt: Times \cup {-1}] /\ flight.since \in Times
LEMMA BoundsStep ==
    ASSUME DInv, DeskBounds, [DeskNext]_deskVars PROVE DeskBounds'
<1>1. now \in 0..MaxTime /\ MaxTime \in Nat /\ MaxChanges \in Nat /\ changes \in 0..MaxChanges
    BY DeskAssumption DEF DeskBounds, Times, DeskAssumption
<1>2. flight \in Flight /\ (flight.pc = "answered" => flight.rate \in Rates)
    BY DEF DInv, RatesSeen, NoFlight
<1>3. CASE UNCHANGED <<now, changes, failed, cached, flight>>
    BY <1>3 DEF DeskBounds
<1>4. ASSUME NEW r \in Requests, NEW c \in Clients,
             \/ TooLarge(r, c) \/ Limited(r, c) \/ Unserved(r, c)
             \/ \E ceiling \in Prices : Request(r, c, ceiling)
      PROVE  DeskBounds'
  <2>1. /\ UNCHANGED <<now, changes, failed, cached>>
        /\ flight' \in {flight, [NoFlight EXCEPT !.pc = "asked", !.since = now]}
      BY <1>4 DEF TooLarge, Limited, Unserved, Request, Passes, history
  <2>2. flight'.since \in Times
      BY <1>1, <2>1 DEF NoFlight, DeskBounds, Times
  <2> QED BY <2>1, <2>2 DEF DeskBounds
<1>5. CASE MirrorAnswers
  <2>1. UNCHANGED <<now, changes, failed, cached>> /\ flight'.since = flight.since
      BY <1>2, <1>5 DEF MirrorAnswers, history, Flight
  <2> QED BY <2>1 DEF DeskBounds
<1>6. CASE RateArrives \/ FetchFails
  <2>1. UNCHANGED <<now, changes>> /\ flight' = NoFlight /\ failed' \in {failed, now}
        /\ cached' \in {cached, [rate |-> flight.rate, fetchedAt |-> now]}
      BY <1>6 DEF RateArrives, FetchFails, history
  <2>2. flight'.since \in Times
      BY <1>1, <2>1 DEF NoFlight, Times
  <2>3. flight.rate \in Rates \cup {0}
      BY <1>2 DEF Flight
  <2> QED BY <2>1, <2>2, <2>3 DEF DeskBounds
<1>7. CASE DeskTick
  <2>1. now' = now + 1 /\ now < MaxTime /\ UNCHANGED <<changes, failed, cached, flight>>
      BY <1>7 DEF DeskTick, broker, history
  <2>2. now' \in Times
      BY <1>1, <2>1 DEF Times
  <2> QED BY <2>1, <2>2 DEF DeskBounds
<1>8. ASSUME \/ \E p \in Providers, price \in Prices \cup {0} : Reprices(p, price)
             \/ \E rate \in Rates : RateRotates(rate)
      PROVE  DeskBounds'
  <2>1. changes' = changes + 1 /\ changes < MaxChanges /\ UNCHANGED <<now, failed, cached, flight>>
      BY <1>8 DEF Reprices, RateRotates, broker, history
  <2>2. changes' \in 0..MaxChanges
      BY <1>1, <2>1
  <2> QED BY <2>1, <2>2 DEF DeskBounds
<1>9. CASE Sweep \/ UNCHANGED deskVars
    BY <1>3, <1>9 DEF Sweep, deskVars, broker, history
<1> QED BY <1>4, <1>5, <1>6, <1>7, <1>8, <1>9 DEF DeskNext

\* The types follow from the bounds, from the quotes and from the windows, whose counts
\* are of requests.
LEMMA DeskTypesFollow ==
    ASSUME DInv, LInv, DeskBounds PROVE DeskTypeOK
<1>1. DeskTypes /\ RatesSeen /\ Marks /\ Windows
    BY DEF DInv, LInv
<1>2. now \in 0..MaxTime /\ MaxTime \in Nat /\ Window \in Nat \ {0}
    BY DeskAssumption DEF DeskBounds, Times, DeskAssumption
<1>3. ASSUME NEW c \in Clients
      PROVE  bucket[c] \in [count: 0..Cardinality(Requests), resetAt: -1..(MaxTime + Window)]
  <2>1. bucket[c] \in [count: Nat, resetAt: Int]
      BY <1>1 DEF Marks
  <2>2. Cardinality(Requests) \in Nat
      BY DeskAssumption, FS_CardinalityType DEF DeskAssumption
  <2>3. bucket[c].count \in 0..Cardinality(Requests) /\ bucket[c].resetAt \in -1..(MaxTime + Window)
    <3>1. CASE bucket[c] = NoBucket
        BY <1>2, <2>2, <3>1 DEF NoBucket
    <3>2. CASE bucket[c] # NoBucket
      <4>1. Began(c) \in 0..now /\ bucket[c].count <= Cardinality(Asked(c, Began(c), now))
          BY <1>1, <3>2 DEF Windows, OpenWindow
      <4>2. bucket[c].resetAt \in -1..(MaxTime + Window)
          BY <1>2, <2>1, <4>1 DEF Began
      <4>3. Asked(c, Began(c), now) \in SUBSET Requests /\ Requests \in SUBSET Requests
          BY DEF Asked
      <4>4. /\ Cardinality(Asked(c, Began(c), now)) <= Cardinality(Requests)
            /\ Cardinality(Asked(c, Began(c), now)) \in Nat
          BY <4>3, RequestSizes
      <4> QED BY <2>1, <2>2, <4>1, <4>2, <4>4
    <3> QED BY <3>1, <3>2
  <2> QED BY <2>1, <2>3
<1>4. bucket \in [Clients -> [count: 0..Cardinality(Requests), resetAt: -1..(MaxTime + Window)]]
    BY <1>1, <1>3 DEF Marks
<1>5. flight \in [pc: {"none", "asked", "answered"}, rate: Rates \cup {0}, since: Times]
    BY <1>1 DEF RatesSeen, Flight, DeskBounds
<1>6. offer \in [Providers -> Prices \cup {0}] /\ mirror \in Rates
      /\ \A r \in Requests : req[r].pc \in {"new", "waiting", "quoted", "refused", "unserved"}
    BY <1>1 DEF DeskTypes, RatesSeen, AnyRequest
<1> QED BY <1>4, <1>5, <1>6 DEF DeskTypeOK, DeskBounds

\* In any span as long as a window a client gets at most twice the limit through, and a
\* client that is refused has asked more often than the limit within the last window:
\* for any limit and window, any number of clients and requests, sweeps at any time.
THEOREM LimitsHold ==
    DeskSpec => []LimitHolds
<1>1. DeskInit => LInv /\ DeskBounds
  <2>1. ASSUME DeskInit PROVE DeskBounds
    <3>1. now = 0 /\ changes = 0 /\ failed = -1 /\ cached = NoRate /\ flight = NoFlight
        BY <2>1 DEF DeskInit
    <3>2. 0 \in Times /\ 0 \in 0..MaxChanges
        BY DeskAssumption DEF Times, DeskAssumption
    <3> QED BY <3>1, <3>2 DEF DeskBounds, NoRate, NoFlight
  <2> QED BY <2>1, LimitStarts
<1>2. DInv /\ LInv /\ DeskBounds /\ [DeskNext]_deskVars => (LInv /\ DeskBounds)'
    BY LimitStep, BoundsStep
<1>3. DInv /\ LInv /\ DeskBounds => LimitHolds
  <2>1. ASSUME DInv, LInv, DeskBounds PROVE LimitHolds
    <3>1. DeskTypeOK
        BY <2>1, DeskTypesFollow
    <3>2. Spans /\ Refusals /\ Times \subseteq Nat
        BY <2>1, DeskAssumption DEF LInv, Times, DeskAssumption
    <3> QED BY <3>1, <3>2 DEF LimitHolds, Spans, Refusals
  <2> QED BY <2>1
<1> QED BY <1>1, <1>2, <1>3, DeskInvariant, PTL DEF DeskSpec
=============================================================================
