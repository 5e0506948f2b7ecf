------------------------------ MODULE Registry ------------------------------
(***************************************************************************)
(* The provider registry: the records of the nodes that are heartbeating,  *)
(* the two indexes over them, and the lifetime statistics that must        *)
(* outlive both a silent spell and a broker restart.                       *)
(*                                                                         *)
(* Every method is synchronous, so it is one action.  Ids and tokens are   *)
(* random in the code and never repeat; here the n-th minted id and the    *)
(* n-th minted token are the number n.  A heartbeat's time is kept as the  *)
(* record's age in ticks of the clock.                                     *)
(***************************************************************************)
EXTENDS Naturals

CONSTANTS
    Nodes,          \* stable node ids, chosen by the operators
    ReapAge,        \* PROVIDER_REAP_MS in ticks
    MaxMinted,      \* bound: provider ids minted in one behaviour
    MaxActive,      \* bound: jobs counted against one provider
    MaxFinished,    \* bound: jobs a node's statistics count
    MaxRestarts     \* bound: broker restarts

ASSUME BoundsAssumption ==
    /\ ReapAge \in Nat
    /\ MaxMinted \in Nat /\ MaxActive \in Nat /\ MaxFinished \in Nat
    /\ MaxRestarts \in Nat

VARIABLES
    providers,      \* Registry.providers: id -> record
    byToken,        \* Registry.byToken: token -> id, 0 where there is none
    byNodeId,       \* Registry.byNodeId: node id -> id, 0 where there is none
    restoredStats,  \* Registry.restoredStats: the rows read at boot
    saved,          \* the durable statistics rows, by node id
    minted,         \* how many ids and tokens have been handed out
    reaped,         \* history: nodes reaped since the broker booted
    restarts

vars == <<providers, byToken, byNodeId, restoredStats, saved, minted, reaped, restarts>>
index == <<byToken, byNodeId>>

Ids == 1..MaxMinted
Tokens == 1..MaxMinted

Stats == [completed: Nat, failed: Nat, earned: Nat]
\* Also what a missing row reads as.
NoStats == [completed |-> 0, failed |-> 0, earned |-> 0]
Record == [node: Nodes, token: Tokens, active: 0..MaxActive,
           age: 0..(ReapAge + 1), stats: Stats]
NoRecord == [token |-> 0]

TypeOK ==
    /\ providers \in [Ids -> Record \cup {NoRecord}]
    /\ byToken \in [Tokens -> Ids \cup {0}]
    /\ byNodeId \in [Nodes -> Ids \cup {0}]
    /\ restoredStats \in [Nodes -> Stats]
    /\ saved \in [Nodes -> Stats]
    /\ minted \in 0..MaxMinted
    /\ reaped \subseteq Nodes
    /\ restarts \in 0..MaxRestarts

Registered == {id \in Ids : providers[id] # NoRecord}

\* The record register finds under a node id, if any; with two slips: finding
\* none, and finding one under a name that nodes may share.
RegisteredNever(n) == {}
RegisteredUnderName(n) == Registered
RegisteredAs(n) == {id \in Registered : byNodeId[n] = id}

\* Statistics of a known node are carried over (slip: read from boot again).
FromBoot(id) == restoredStats[providers[id].node]
CarriedOver(id) == providers[id].stats

\* jobFinished: the outcome is folded into the record's statistics ...
Outcome(stats, ok, earned) ==
    IF ok THEN [stats EXCEPT !.completed = @ + 1, !.earned = @ + earned]
          ELSE [stats EXCEPT !.failed = @ + 1]
\* ... the active count goes down, never below zero ...
OneFewer(n) == IF n = 0 THEN 0 ELSE n - 1
\* ... and the new statistics go to the node's durable row (slip: the old ones).
PersistedFirst(id, stats) == [saved EXCEPT ![providers[id].node] = providers[id].stats]
Persisted(id, stats) == [saved EXCEPT ![providers[id].node] = stats]

-----------------------------------------------------------------------------
Init ==
    /\ providers = [id \in Ids |-> NoRecord]
    /\ byToken = [t \in Tokens |-> 0]
    /\ byNodeId = [n \in Nodes |-> 0]
    /\ saved = [n \in Nodes |-> NoStats]
    /\ restoredStats = saved
    /\ minted = 0
    /\ reaped = {}
    /\ restarts = 0

\* register, for a node id the registry does not know.
RegisterNew(n) ==
    LET id == minted + 1 IN
    /\ RegisteredAs(n) = {}
    /\ minted < MaxMinted
    /\ minted' = id
    /\ providers' = [providers EXCEPT ![id] =
         [node |-> n, token |-> id, active |-> 0, age |-> 0, stats |-> restoredStats[n]]]
    /\ byToken' = [byToken EXCEPT ![id] = id]
    /\ byNodeId' = [byNodeId EXCEPT ![n] = id]
    /\ UNCHANGED <<restoredStats, saved, reaped, restarts>>

\* register, for a node it knows: a new record under the old id and token, with
\* the statistics carried over and no active job.
RegisterAgain(n) ==
    \E id \in RegisteredAs(n) :
        LET token == providers[id].token IN
        /\ providers' = [providers EXCEPT ![id] =
             [node |-> n, token |-> token, active |-> 0, age |-> 0,
              stats |-> CarriedOver(id)]]
        /\ byToken' = [[byToken EXCEPT ![token] = 0] EXCEPT ![token] = id]
        /\ byNodeId' = [byNodeId EXCEPT ![n] = id]
        /\ UNCHANGED <<restoredStats, saved, minted, reaped, restarts>>

\* byAuthToken followed by heartbeat: the count the node sent replaces ours.
Heartbeat(token, active) ==
    LET id == byToken[token] IN
    /\ id \in Registered
    /\ providers' = [providers EXCEPT ![id].age = 0, ![id].active = active]
    /\ UNCHANGED <<index, restoredStats, saved, minted, reaped, restarts>>

JobStarted(id) ==
    /\ id \in Registered
    /\ providers[id].active < MaxActive
    /\ providers' = [providers EXCEPT ![id].active = @ + 1]
    /\ UNCHANGED <<index, restoredStats, saved, minted, reaped, restarts>>

\* A provider that is gone is ignored.
JobFinished(id, ok, earned) ==
    LET stats == Outcome(providers[id].stats, ok, earned) IN
    /\ id \in Registered
    /\ providers[id].stats.completed + providers[id].stats.failed < MaxFinished
    /\ providers' = [providers EXCEPT ![id].active = OneFewer(@), ![id].stats = stats]
    /\ saved' = Persisted(id, stats)
    /\ UNCHANGED <<index, restoredStats, minted, reaped, restarts>>

\* The clock moves on by one tick for every record.
Tick ==
    /\ \E id \in Registered : providers[id].age <= ReapAge
    /\ providers' = [id \in Ids |->
         IF id \in Registered /\ providers[id].age <= ReapAge
         THEN [providers[id] EXCEPT !.age = @ + 1] ELSE providers[id]]
    /\ UNCHANGED <<index, restoredStats, saved, minted, reaped, restarts>>

\* reap: every record older than the cutoff goes, with its index entries.
Silent == {id \in Registered : providers[id].age > ReapAge}
Reap ==
    /\ Silent # {}
    /\ providers' = [id \in Ids |-> IF id \in Silent THEN NoRecord ELSE providers[id]]
    /\ byToken' = [t \in Tokens |->
         IF \E id \in Silent : providers[id].token = t THEN 0 ELSE byToken[t]]
    /\ byNodeId' = [n \in Nodes |->
         IF \E id \in Silent : providers[id].node = n THEN 0 ELSE byNodeId[n]]
    /\ reaped' = reaped \cup {providers[id].node : id \in Silent}
    /\ UNCHANGED <<restoredStats, saved, minted, restarts>>

\* The broker restarts: membership is gone, the constructor reads the rows.
Restart ==
    /\ restarts < MaxRestarts
    /\ restarts' = restarts + 1
    /\ providers' = [id \in Ids |-> NoRecord]
    /\ byToken' = [t \in Tokens |-> 0]
    /\ byNodeId' = [n \in Nodes |-> 0]
    /\ restoredStats' = saved
    /\ reaped' = {}
    /\ UNCHANGED <<saved, minted>>

Next ==
    \/ \E n \in Nodes : RegisterNew(n) \/ RegisterAgain(n)
    \/ \E token \in Tokens, active \in 0..MaxActive : Heartbeat(token, active)
    \/ \E id \in Ids : JobStarted(id)
    \/ \E id \in Ids, ok \in BOOLEAN, earned \in {0, 1} : JobFinished(id, ok, earned)
    \/ Tick
    \/ Reap
    \/ Restart

Spec == Init /\ [][Next]_vars

-----------------------------------------------------------------------------
(***************************************************************************)
(* Properties                                                              *)
(***************************************************************************)
\* The record map and its two indexes always describe the same fleet: a token
\* authenticates the record that carries it and nothing else, a node id finds
\* its one record, and no entry is left behind when a record goes (register,
\* reap, restart).
IndexConsistent ==
    /\ \A id \in Registered : /\ byToken[providers[id].token] = id
                              /\ byNodeId[providers[id].node] = id
    /\ \A t \in Tokens : byToken[t] # 0 =>
         byToken[t] \in Registered /\ providers[byToken[t]].token = t
    /\ \A n \in Nodes : byNodeId[n] # 0 =>
         byNodeId[n] \in Registered /\ providers[byNodeId[n]].node = n

\* "A provider that restarts is the same provider": a node that is known before
\* and after a step has the same id and token, whoever registers, beats or is
\* reaped, so no step gives a node a second identity; and an id that is dropped
\* never comes back, so a late caller who holds it cannot reach another's record.
IdentityIsStable ==
    [][/\ \A n \in Nodes : byNodeId[n] # 0 /\ byNodeId'[n] # 0 =>
            /\ byNodeId'[n] = byNodeId[n]
            /\ providers'[byNodeId'[n]].token = providers[byNodeId[n]].token
       /\ \A id \in Ids : id \notin Registered /\ id <= minted => id \notin Registered']_vars

\* As long as a node is not reaped, its live record and its durable row agree:
\* a restart at any moment loses no completed job, failure or earning.
Unreaped == Nodes \ reaped
RowFollowsRecord ==
    \A id \in Registered :
        providers[id].node \in Unreaped => saved[providers[id].node] = providers[id].stats

\* The inductive strengthening: ids and tokens are minted in step, and a node
\* the broker does not know will start from the row read at boot.
MintedInStep ==
    \A id \in Registered : id <= minted /\ providers[id].token = id
BootRowCurrent ==
    \A n \in Unreaped : RegisteredAs(n) = {} => saved[n] = restoredStats[n]

IInv == /\ TypeOK
        /\ MintedInStep
        /\ IndexConsistent
        /\ BootRowCurrent
        /\ RowFollowsRecord

AtLeast(new, old) ==
    /\ new.completed >= old.completed
    /\ new.failed >= old.failed
    /\ new.earned >= old.earned

\* The statistics of a registered provider never go down, re-registrations and
\* heartbeats included.
RecordNeverRolledBack ==
    [][\A id \in Registered \cap Registered' :
         AtLeast(providers'[id].stats, providers[id].stats)]_vars

\* registry.ts says of lifetime stats that "earnings must" survive and that an
\* operator "should not see it reset": the durable row of a node never goes down.
LifetimeStatsNeverFall ==
    [][\A n \in Nodes : AtLeast(saved'[n], saved[n])]_vars
=============================================================================
