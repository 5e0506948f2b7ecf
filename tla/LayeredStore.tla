---------------------------- MODULE LayeredStore ----------------------------
(***************************************************************************)
(* The durable state of the broker: a local SQLite file written in line    *)
(* with every change, and a MongoDB copy written in the background, with   *)
(* the writes it has not acknowledged kept for a retry.  At boot the       *)
(* MongoDB copy wins.                                                      *)
(*                                                                         *)
(* A row is its version: the n-th state a job, or a node's statistics, has *)
(* been in; 0 is no row.  Jobs are handed to the driver by reference, so a *)
(* write carries what the job is when it is put on the wire; statistics    *)
(* are copied.  A background write goes queued -> sent -> applied; the     *)
(* broker may give it up ("lost") while the server still applies it.       *)
(***************************************************************************)
EXTENDS Naturals, FiniteSets

CONSTANTS
    Jobs, Nodes,    \* the keys of the two tables
    Slots,          \* bound: one for each background write under way
    MaxVersions,    \* bound: states of one row
    MaxOutages,     \* bound: times MongoDB goes away
    MaxRestarts     \* bound: broker restarts

ASSUME StoreAssumption ==
    /\ Jobs \cap Nodes = {}
    /\ MaxVersions \in Nat /\ MaxOutages \in Nat /\ MaxRestarts \in Nat

VARIABLES
    memory,         \* what the broker works with
    local,          \* the SQLite rows
    mongo,          \* the MongoDB rows
    issued,         \* the newest version of each row there has ever been
    pending,        \* pendingJobs, pendingStats: key -> version, 0 if none
    writes,         \* slot -> background write
    retry,          \* retryPending: the rows of its list yet to flush, the slot it
                    \* is at, and whether that is the list of jobs
    client, connected,
    reachable,      \* is MongoDB up
    saved, raced,   \* history, since boot: keys saved, and saved across a write
    outages, restarts

rows == <<memory, local, mongo, issued>>
link == <<client, connected>>
history == <<saved, raced>>
world == <<reachable, outages, restarts>>
vars == <<rows, pending, writes, retry, link, history, world>>

Keys == Jobs \cup Nodes
Table(k) == IF k \in Jobs THEN Jobs ELSE Nodes
Versions == 0..MaxVersions
Nothing == [k \in Keys |-> 0]

Write == [key: Keys, version: Versions, state: {"queued", "sent", "applied", "lost"}]
NoWrite == [state |-> "none"]
Idle == [left |-> Nothing, at |-> {}, jobs |-> FALSE]

TypeOK ==
    /\ memory \in [Keys -> Versions] /\ local \in [Keys -> Versions]
    /\ mongo \in [Keys -> Versions] /\ issued \in [Keys -> Versions]
    /\ pending \in [Keys -> Versions]
    /\ writes \in [Slots -> Write \cup {NoWrite}]
    /\ retry \in [left: [Keys -> Versions], at: SUBSET Slots, jobs: BOOLEAN]
    /\ client \in BOOLEAN /\ connected \in BOOLEAN /\ reachable \in BOOLEAN
    /\ connected => client
    /\ \A s \in retry.at : writes[s].state \in {"queued", "sent", "applied"}
    /\ saved \subseteq Keys /\ raced \subseteq Keys
    /\ outages \in 0..MaxOutages /\ restarts \in 0..MaxRestarts

Free == {s \in Slots : writes[s] = NoWrite}
Of(k) == {s \in Slots \ Free : writes[s].key = k}
\* A write of k with an older state may yet be applied or acknowledged.  One that is
\* still queued will carry the state a job has by then, so that the saves of one tick
\* (createJob's and dispatch's) do not cross; statistics were copied.
Underway(k) == \E s \in Of(k) : k \in Nodes \/ writes[s].state # "queued"
Crossed(k) == Underway(k) \/ (k \in Nodes /\ retry.left[k] > 0)

\* What is put on the wire.
Carried(w) == IF w.key \in Jobs THEN memory[w.key] ELSE w.version

\* An acknowledged write takes the key off the pending map, whatever is there
\* (slip: not at all).
NeverCleared(k) == pending
Cleared(k) == [pending EXCEPT ![k] = 0]

\* A save is remembered until then (slips: only while disconnected, and with the
\* row as it was before the change).
Forgotten(k, v) == IF connected THEN pending ELSE [pending EXCEPT ![k] = v]
RememberedLate(k, v) == [pending EXCEPT ![k] = memory[k]]
Remembered(k, v) == [pending EXCEPT ![k] = v]

-----------------------------------------------------------------------------
Init ==
    /\ memory = Nothing /\ local = Nothing /\ mongo = Nothing /\ issued = Nothing
    /\ pending = Nothing
    /\ writes = [s \in Slots |-> NoWrite]
    /\ retry = Idle
    /\ client = TRUE /\ connected = TRUE /\ reachable = TRUE
    /\ saved = {} /\ raced = {}
    /\ outages = 0 /\ restarts = 0

Change(k) ==
    /\ issued[k] < MaxVersions
    /\ issued' = [issued EXCEPT ![k] = @ + 1]
    /\ memory' = [memory EXCEPT ![k] = issued[k] + 1]
    /\ raced' = IF Crossed(k) THEN raced \cup {k} ELSE raced
    /\ UNCHANGED mongo

Queue(s, k, v) ==
    writes' = [writes EXCEPT ![s] = [key |-> k, version |-> v, state |-> "queued"]]

\* saveJob, saveStats: the local write, then the background one.
Save(k) ==
    LET v == issued[k] + 1 IN
    /\ Change(k)
    /\ local' = [local EXCEPT ![k] = v]
    /\ saved' = saved \cup {k}
    /\ pending' = Remembered(k, v)
    /\ \/ connected /\ \E s \in Free : Queue(s, k, v)
       \/ ~connected /\ UNCHANGED writes
    /\ UNCHANGED <<retry, link, world>>

\* The local write throws; persist logs it and the broker goes on.
SaveFails(k) ==
    /\ Change(k)
    /\ UNCHANGED <<local, pending, writes, retry, link, saved, world>>

-----------------------------------------------------------------------------
(* One background write.                                                   *)

Send(s) ==
    /\ writes[s].state = "queued"
    /\ writes' = [writes EXCEPT ![s].state = "sent", ![s].version = Carried(writes[s])]
    /\ UNCHANGED <<rows, pending, retry, link, history, world>>

Apply(s) ==
    /\ writes[s].state \in {"sent", "lost"}
    /\ reachable
    /\ mongo' = [mongo EXCEPT ![writes[s].key] = writes[s].version]
    /\ writes' = IF writes[s].state = "sent" THEN [writes EXCEPT ![s].state = "applied"]
                 ELSE [writes EXCEPT ![s] = NoWrite]
    /\ UNCHANGED <<memory, local, issued, pending, retry, link, history, world>>

\* The retry loop goes on when its write returns.
Returned(s) == [retry EXCEPT !.at = @ \ {s}]

Acknowledge(s) ==
    /\ writes[s].state = "applied"
    /\ pending' = Cleared(writes[s].key)
    /\ writes' = [writes EXCEPT ![s] = NoWrite]
    /\ retry' = Returned(s)
    /\ UNCHANGED <<rows, link, history, world>>

\* The driver gives up: markDisconnected.
Fail(s) ==
    /\ writes[s].state \in {"queued", "sent", "applied"}
    /\ ~reachable
    /\ writes' = IF writes[s].state = "sent" THEN [writes EXCEPT ![s].state = "lost"]
                 ELSE [writes EXCEPT ![s] = NoWrite]
    /\ connected' = FALSE
    /\ retry' = Returned(s)
    /\ UNCHANGED <<rows, pending, client, history, world>>

\* A write that was given up is never applied.
Vanish(s) ==
    /\ writes[s].state = "lost"
    /\ writes' = [writes EXCEPT ![s] = NoWrite]
    /\ UNCHANGED <<rows, pending, retry, link, history, world>>

-----------------------------------------------------------------------------
(* retryPending, on its timer: first the pending jobs, then the statistics *)
(* pending by then.                                                        *)

PendingIn(T) == [k \in Keys |-> IF k \in T THEN pending[k] ELSE 0]

RetryStart ==
    /\ client
    /\ pending # Nothing
    /\ retry = Idle
    /\ connected' = TRUE
    /\ retry' = [left |-> PendingIn(Jobs), at |-> {}, jobs |-> TRUE]
    /\ UNCHANGED <<rows, pending, writes, client, history, world>>

RetryStats ==
    /\ retry.jobs /\ retry.left = Nothing /\ retry.at = {}
    /\ connected
    /\ retry' = [left |-> PendingIn(Nodes), at |-> {}, jobs |-> FALSE]
    /\ UNCHANGED <<rows, pending, writes, link, history, world>>

RetryNext(k) ==
    /\ retry.left[k] > 0 /\ retry.at = {}
    /\ connected
    /\ \E s \in Free :
         /\ Queue(s, k, retry.left[k])
         /\ retry' = [retry EXCEPT !.left = [@ EXCEPT ![k] = 0], !.at = {s}]
    /\ UNCHANGED <<rows, pending, link, history, world>>

RetryBreaks ==
    /\ retry # Idle /\ retry.at = {}
    /\ ~connected
    /\ retry' = Idle
    /\ UNCHANGED <<rows, pending, writes, link, history, world>>

-----------------------------------------------------------------------------
Outage ==
    /\ reachable
    /\ outages < MaxOutages
    /\ reachable' = FALSE
    /\ outages' = outages + 1
    /\ UNCHANGED <<rows, pending, writes, retry, link, history, restarts>>
Recover ==
    /\ ~reachable
    /\ reachable' = TRUE
    /\ UNCHANGED <<rows, pending, writes, retry, link, history, outages, restarts>>

\* loadJobs, loadStats: a table that MongoDB answered with any row comes from it.
FromMongo(k) == \E i \in Table(k) : mongo[i] > 0
Restored(k, answered) == IF k \in answered /\ FromMongo(k) THEN mongo[k] ELSE local[k]

\* The broker dies, what was sent is still on its way; boot and connect, which
\* may fail before there is a client, after, or between the two tables.
Restart ==
    /\ restarts < MaxRestarts
    /\ restarts' = restarts + 1
    /\ \E answered \in (IF reachable THEN {Keys} ELSE {{}, Jobs}) :
         /\ memory' = [k \in Keys |-> Restored(k, answered)]
         /\ client' \in (IF answered = {} THEN BOOLEAN ELSE {TRUE})
    /\ connected' = (reachable /\ client')
    /\ pending' = Nothing
    /\ writes' = [s \in Slots |-> IF writes[s].state \in {"sent", "lost"}
                                  THEN [writes[s] EXCEPT !.state = "lost"] ELSE NoWrite]
    /\ retry' = Idle
    /\ saved' = {} /\ raced' = {}
    /\ UNCHANGED <<local, mongo, issued, reachable, outages>>

Step(s) == Send(s) \/ Apply(s) \/ Acknowledge(s) \/ Fail(s)
Retry == RetryStart \/ RetryStats \/ RetryBreaks \/ \E k \in Keys : RetryNext(k)

Next ==
    \/ \E k \in Keys : Save(k) \/ SaveFails(k)
    \/ \E s \in Slots : Step(s) \/ Vanish(s)
    \/ Retry
    \/ Outage \/ Recover
    \/ Restart

\* The driver answers or gives up in the end, and the retry timer ticks.
Fairness == (\A s \in Slots : WF_vars(Step(s)) /\ WF_vars(Vanish(s))) /\ WF_vars(Retry)
Spec == Init /\ [][Next]_vars /\ Fairness

-----------------------------------------------------------------------------
(***************************************************************************)
(* Properties                                                              *)
(***************************************************************************)
\* "Every write that missed Mongo" is known: whatever fails, a row saved since
\* boot whose MongoDB copy is behind is pending a retry, unless a save crossed a write
\* that carried an older state of the row (then MissesAreReplayed fails).
MissedIsPending ==
    \A k \in saved \ raced : mongo[k] < local[k] => pending[k] > 0

\* Under the same proviso the MongoDB copy never goes back to an older version,
\* though writes are lost, late or retried.
MongoNeverRollsBack ==
    [][\A k \in saved \ raced : mongo'[k] >= mongo[k]]_vars

\* "Anything Mongo missed is replayed from SQLite, so the two converge": a row whose
\* MongoDB copy is behind is pending, or a write of it is still on its way.  It fails:
\* the acknowledgement of an older write takes the newer save off the pending map.
MissesAreReplayed ==
    \A k \in saved : mongo[k] < local[k] => pending[k] > 0 \/ Of(k) # {}

\* The inductive strengthening: nothing is newer than what was issued; and for a
\* row whose saves crossed no write, all that is sent carries its newest state,
\* a job's in memory and a node's on disk.
NewestIssued ==
    /\ \A k \in Keys : \A v \in {memory[k], local[k], mongo[k], pending[k], retry.left[k]} :
         v <= issued[k]
    /\ \A s \in Slots \ Free : writes[s].version <= issued[writes[s].key]
CalmRows ==
    \A k \in saved \ raced :
        /\ mongo[k] <= memory[k] /\ local[k] <= memory[k]
        /\ k \in Nodes => mongo[k] <= local[k] /\ {pending[k], retry.left[k]} \subseteq {0, local[k]}
CalmWrites ==
    \A k \in saved \ raced : \A s \in Of(k) :
        /\ k \in Nodes => writes[s].version = local[k]
        /\ k \in Jobs /\ writes[s].state # "queued" => writes[s].version = memory[k]
        /\ writes[s].state = "applied" => mongo[k] >= local[k]

IInv == TypeOK /\ NewestIssued /\ CalmRows /\ CalmWrites /\ MissedIsPending

\* Once MongoDB stays up and the broker has a client, every pending write is
\* acknowledged in the end: no failure leaves the retry loop stuck.
PendingDrains ==
    \A k \in Keys : <>[](reachable /\ client) => []<>(pending[k] = 0)

\* store-mongo.ts says "every write that missed Mongo is still on disk" and is
\* "replayed from SQLite, so the two converge": a restart never brings back an
\* older row than the disk holds.
RestartKeepsNewest ==
    [][restarts' # restarts => \A k \in Keys : memory'[k] >= local[k]]_vars
=============================================================================
