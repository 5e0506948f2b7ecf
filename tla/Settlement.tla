----------------------------- MODULE Settlement -----------------------------
(***************************************************************************)
(* The paid path of the broker: a quote is priced, a buyer signs a         *)
(* transfer for it, POST /api/jobs/:quoteId runs through the quote guard,  *)
(* the x402 payment middleware and the handler, and the onAfterSettle hook *)
(* attaches the settled transfer to a job.                                 *)
(*                                                                         *)
(* The broker is one JavaScript thread, so a step runs to its next await   *)
(* and everything between two awaits is one action.  A request therefore   *)
(* is a program counter that stops at each await of the middleware:        *)
(*                                                                         *)
(*   idle -> guarded -> verifying -> settling -> executed -> done          *)
(*                                                                         *)
(* with "refused" for an answer that settles nothing, "unsettled" for a    *)
(* job whose settlement did not come back, and "lost"/"aborted" for the    *)
(* requests a broker restart drops.  A request creates at most one job, so *)
(* a job is named by the request that created it.                          *)
(***************************************************************************)
EXTENDS Naturals, FiniteSets

CONSTANTS
    Providers,      \* registered provider ids
    Accounts,       \* Hedera accounts a provider may register
    Prices,         \* prices in the asset's smallest unit
    Quotes,         \* quote ids
    Requests,       \* paid POST requests
    Payloads,       \* transfers a buyer signs; a transfer executes once
    None,           \* "not set", and the "" a resolver falls back to
    ListLimit,      \* how many jobs onAfterSettle looks at (50 in the code)
    MaxRestarts     \* bound: broker restarts in one behaviour

ASSUME NamesAssumption ==
    /\ None \notin Providers \cup Accounts \cup Quotes \cup Payloads
    /\ Prices \subseteq Nat \ {0}
ASSUME LimitsAssumption ==
    /\ IsFiniteSet(Requests)
    /\ ListLimit \in Nat
    /\ MaxRestarts \in Nat

VARIABLES
    providers,      \* provider id -> account and price last registered
    online,         \* the providers whose heartbeats are fresh
    quotes,         \* JobStore.quotes
    jobs,           \* JobStore.jobs, by the request that created the job
    nextSequence,   \* JobStore.nextSequence
    signed,         \* payload -> what its signature commits to
    req,            \* request -> program counter and locals
    ledger,         \* payloads the network has executed
    restarts

vars == <<providers, online, quotes, jobs, nextSequence, signed, req, ledger, restarts>>
fleet == <<providers, online>>

-----------------------------------------------------------------------------
Requirement == [payTo: Accounts \cup {None}, amount: Prices \cup {0}]
NoRequirement == [payTo |-> None, amount |-> 0]

\* The fields of PaymentRecord that identify a transfer.
Payment == [tx: Payloads, payTo: Accounts, amount: Prices]
NoPayment == [tx |-> None, payTo |-> None, amount |-> 0]

NoJob == [sequence |-> 0, account |-> None, price |-> 0, sent |-> FALSE,
          payment |-> NoPayment]
Job == [sequence: Nat \ {0}, account: Accounts, price: Prices, sent: BOOLEAN,
        payment: Payment \cup {NoPayment}]

Provider == [account: Accounts, price: Prices]
NoProvider == [account |-> None, price |-> 0]

Quote == [state: {"pricing", "open", "expired"}, provider: Providers,
          account: Accounts, price: Prices, sold: BOOLEAN]
NoQuote == [state |-> "none", provider |-> None, account |-> None, price |-> 0,
            sold |-> FALSE]

NoRequest == [pc |-> "idle", quote |-> None, payload |-> None,
              requirement |-> NoRequirement]
Request == [pc: {"guarded", "verifying", "settling", "executed", "done",
                 "refused", "unsettled", "lost", "aborted"},
            quote: Quotes, payload: Payloads, requirement: Requirement]

TypeOK ==
    /\ providers \in [Providers -> Provider \cup {NoProvider}]
    /\ \A p \in online : p \in Providers /\ providers[p] \in Provider
    /\ quotes \in [Quotes -> Quote \cup {NoQuote}]
    /\ jobs \in [Requests -> Job \cup {NoJob}]
    /\ nextSequence \in Nat \ {0}
    /\ signed \in [Payloads -> Requirement]
    /\ req \in [Requests -> Request \cup {NoRequest}]
    /\ ledger \subseteq Payloads
    /\ restarts \in 0..MaxRestarts

-----------------------------------------------------------------------------
Created == {j \in Requests : jobs[j] # NoJob}

\* getQuote: an expired entry is deleted by the lookup that meets it, so no
\* caller can tell it from a missing one and the model drops it at once.
Live(q) == quotes[q].state = "open"

\* The guard in front of the payment middleware.
Payable(q) ==
    /\ Live(q)
    /\ ~quotes[q].sold
    /\ quotes[q].provider \in online

\* The payTo and price resolvers.
Resolved(q) ==
    IF Live(q) THEN [payTo |-> quotes[q].account, amount |-> quotes[q].price]
               ELSE NoRequirement

\* jobs.list({ limit }): the newest ListLimit jobs.
Listed == {j \in Created :
             Cardinality({k \in Created : jobs[k].sequence > jobs[j].sequence})
               < ListLimit}

\* The jobs onAfterSettle accepts for a transfer to account a, with three slips
\* that the runs must notice: forgetting the account, forgetting that the job
\* may be paid, and leaving out jobs whose dispatch failed.
UnpaidOfAnyone(a) == {j \in Created : jobs[j].payment = NoPayment}
PaidOrNot(a) == {j \in Created : jobs[j].account = a}
UnpaidAndSent(a) == {j \in Created :
                       jobs[j].payment = NoPayment /\ jobs[j].account = a /\ jobs[j].sent}
Unpaid(a) == {j \in Created : jobs[j].payment = NoPayment /\ jobs[j].account = a}

\* Those it looks at, and the one its find() returns first.
Candidates(a) == Listed \cap Unpaid(a)
IsNewest(j, S) == j \in S /\ \A k \in S : jobs[k].sequence <= jobs[j].sequence

-----------------------------------------------------------------------------
Init ==
    /\ providers = [p \in Providers |-> NoProvider]
    /\ online = {}
    /\ quotes = [q \in Quotes |-> NoQuote]
    /\ jobs = [r \in Requests |-> NoJob]
    /\ nextSequence = 1
    /\ signed = [k \in Payloads |-> NoRequirement]
    /\ req = [r \in Requests |-> NoRequest]
    /\ ledger = {}
    /\ restarts = 0

\* A node (re-)registers under an account and a price of its choice.
Register(p, a, m) ==
    /\ providers' = [providers EXCEPT ![p] = [account |-> a, price |-> m]]
    /\ online' = online \cup {p}
    /\ UNCHANGED <<quotes, jobs, nextSequence, signed, req, ledger, restarts>>

\* Its heartbeats stop for HEARTBEAT_OFFLINE_MS.
GoOffline(p) ==
    /\ p \in online
    /\ online' = online \ {p}
    /\ UNCHANGED <<providers, quotes, jobs, nextSequence, signed, req, ledger, restarts>>

-----------------------------------------------------------------------------
\* POST /api/quotes up to its await: the match is made, and the handler keeps
\* the record it was made on while it waits for the exchange rate.
MatchQuote(q, p) ==
    /\ quotes[q] = NoQuote
    /\ p \in online
    /\ quotes' = [quotes EXCEPT ![q] =
                    [state |-> "pricing", provider |-> p, sold |-> FALSE,
                     account |-> providers[p].account, price |-> providers[p].price]]
    /\ UNCHANGED <<fleet, jobs, nextSequence, signed, req, ledger, restarts>>

\* ... and after it: the quote freezes what the old record said.
CreateQuote(q) ==
    /\ quotes[q].state = "pricing"
    /\ quotes' = [quotes EXCEPT ![q].state = "open"]
    /\ UNCHANGED <<fleet, jobs, nextSequence, signed, req, ledger, restarts>>

\* QUOTE_TTL_SECONDS pass.
Expire(q) ==
    /\ Live(q)
    /\ quotes' = [quotes EXCEPT ![q].state = "expired"]
    /\ UNCHANGED <<fleet, jobs, nextSequence, signed, req, ledger, restarts>>

-----------------------------------------------------------------------------
\* A buyer posts without a payment, is answered 402 with the requirements, and
\* signs a transfer for exactly those.
Sign(k, q) ==
    /\ signed[k] = NoRequirement
    /\ Payable(q)
    /\ signed' = [signed EXCEPT ![k] = Resolved(q)]
    /\ UNCHANGED <<fleet, quotes, jobs, nextSequence, req, ledger, restarts>>

\* The paid POST: the quote guard answers 404 or 409, or lets it through.
\* Any signed payload may come with it, one that was already used included.
Post(r, k, q) ==
    /\ req[r] = NoRequest
    /\ signed[k] # NoRequirement
    /\ quotes[q].state \in {"open", "expired"}
    /\ req' = [req EXCEPT ![r] =
                 [pc |-> IF Payable(q) THEN "guarded" ELSE "refused",
                  quote |-> q, payload |-> k, requirement |-> NoRequirement]]
    /\ UNCHANGED <<fleet, quotes, jobs, nextSequence, signed, ledger, restarts>>

\* The middleware resolves payTo and price and asks the facilitator to verify.
Resolve(r) ==
    /\ req[r].pc = "guarded"
    /\ req' = [req EXCEPT ![r].pc = "verifying",
                          ![r].requirement = Resolved(req[r].quote)]
    /\ UNCHANGED <<fleet, quotes, jobs, nextSequence, signed, ledger, restarts>>

\* The facilitator may reject any payment, and rejects one that does not sign
\* the requirement.
VerifyFails(r) ==
    /\ req[r].pc = "verifying"
    /\ req' = [req EXCEPT ![r].pc = "refused"]
    /\ UNCHANGED <<fleet, quotes, jobs, nextSequence, signed, ledger, restarts>>

\* The payment is valid but the handler finds the quote gone: 409, no settlement.
HandleExpired(r) ==
    /\ req[r].pc = "verifying"
    /\ signed[req[r].payload] = req[r].requirement
    /\ ~Live(req[r].quote)
    /\ req' = [req EXCEPT ![r].pc = "refused"]
    /\ UNCHANGED <<fleet, quotes, jobs, nextSequence, signed, ledger, restarts>>

\* The handler: createJob and dispatch, which hands the job to a connected node
\* or fails it.  The middleware then asks the facilitator to settle.
Handle(r) ==
    LET q == req[r].quote IN
    /\ req[r].pc = "verifying"
    /\ signed[req[r].payload] = req[r].requirement
    /\ Live(q)
    /\ \E sent \in BOOLEAN :
         jobs' = [jobs EXCEPT ![r] =
                    [sequence |-> nextSequence, account |-> quotes[q].account,
                     price |-> quotes[q].price, sent |-> sent, payment |-> NoPayment]]
    /\ nextSequence' = nextSequence + 1
    /\ quotes' = [quotes EXCEPT ![q].sold = TRUE]
    /\ req' = [req EXCEPT ![r].pc = "settling"]
    /\ UNCHANGED <<fleet, signed, ledger, restarts>>

-----------------------------------------------------------------------------
\* The network executes the signed transfer; it refuses a transaction id it has
\* executed before.  The submission of a broker that has since restarted counts.
LedgerExecutes(r) ==
    /\ req[r].pc \in {"settling", "lost"}
    /\ req[r].payload \notin ledger
    /\ ledger' = ledger \cup {req[r].payload}
    /\ req' = [req EXCEPT ![r].pc =
                 IF req[r].pc = "settling" THEN "executed" ELSE "aborted"]
    /\ UNCHANGED <<fleet, quotes, jobs, nextSequence, signed, restarts>>

\* The settlement is refused, or its answer never arrives although the transfer
\* went through: the buyer gets a 402, the job stays as it is.
SettleFails(r) ==
    /\ req[r].pc \in {"settling", "executed"}
    /\ req' = [req EXCEPT ![r].pc = "unsettled"]
    /\ UNCHANGED <<fleet, quotes, jobs, nextSequence, signed, ledger, restarts>>

\* What the hook records, on the newest listed unpaid job of the payee; it
\* returns early when there is none.
Record(r) == [tx |-> req[r].payload, payTo |-> req[r].requirement.payTo,
              amount |-> req[r].requirement.amount]
Attach(r) ==
    LET C == Candidates(req[r].requirement.payTo) IN
    \/ \E j \in Requests : /\ IsNewest(j, C)
                           /\ jobs' = [jobs EXCEPT ![j].payment = Record(r)]
    \/ C = {} /\ UNCHANGED jobs

\* Slip: the hook registered twice.
OnAfterSettleRepeats(r) ==
    /\ req[r].pc = "executed"
    /\ Attach(r)
    /\ UNCHANGED <<fleet, quotes, nextSequence, signed, req, ledger, restarts>>

\* onAfterSettle, when the facilitator answers that the transfer went through.
OnAfterSettle(r) ==
    /\ req[r].pc = "executed"
    /\ Attach(r)
    /\ req' = [req EXCEPT ![r].pc = "done"]
    /\ UNCHANGED <<fleet, quotes, nextSequence, signed, ledger, restarts>>

-----------------------------------------------------------------------------
\* The broker restarts: jobs come back from the durable store, quotes and
\* providers do not, and the requests in flight are cut off.
Restart ==
    /\ restarts < MaxRestarts
    /\ restarts' = restarts + 1
    /\ online' = {}
    /\ quotes' = [q \in Quotes |->
                    IF quotes[q] = NoQuote THEN NoQuote
                    ELSE [quotes[q] EXCEPT !.state = "expired"]]
    /\ req' = [r \in Requests |->
                 [req[r] EXCEPT !.pc =
                    CASE req[r].pc \in {"guarded", "verifying", "executed"} -> "aborted"
                      [] req[r].pc = "settling" -> "lost"
                      [] OTHER -> req[r].pc]]
    /\ UNCHANGED <<providers, jobs, nextSequence, signed, ledger>>

Serve(r) ==
    \/ Resolve(r)
    \/ VerifyFails(r) \/ HandleExpired(r) \/ Handle(r)
    \/ LedgerExecutes(r) \/ SettleFails(r) \/ OnAfterSettle(r)

Next ==
    \/ \E p \in Providers, a \in Accounts, m \in Prices : Register(p, a, m)
    \/ \E p \in Providers : GoOffline(p)
    \/ \E q \in Quotes, p \in Providers : MatchQuote(q, p)
    \/ \E q \in Quotes : CreateQuote(q) \/ Expire(q)
    \/ \E k \in Payloads, q \in Quotes : Sign(k, q)
    \/ \E r \in Requests, k \in Payloads, q \in Quotes : Post(r, k, q)
    \/ \E r \in Requests : Serve(r)
    \/ Restart

Spec == Init /\ [][Next]_vars

-----------------------------------------------------------------------------
(***************************************************************************)
(* Properties                                                              *)
(***************************************************************************)
Booked == {j \in Created : jobs[j].payment # NoPayment}

\* A payment on a job is a transfer the network executed, signed for exactly
\* that payee and amount, and its payee is the account the job's quote named:
\* the hook (onAfterSettle) never credits a job of another provider, whatever
\* that provider re-registers as in between.
BookedPaymentIsReal ==
    \A j \in Booked :
        LET p == jobs[j].payment IN
        /\ p.tx \in ledger
        /\ p.payTo = jobs[j].account
        /\ signed[p.tx] = [payTo |-> p.payTo, amount |-> p.amount]

\* However requests that replay one payload and jobs that wait for a payment
\* interleave, one transfer never appears on two jobs.
BookedOnce ==
    \A j, k \in Booked : jobs[j].payment.tx = jobs[k].payment.tx => j = k

\* When onAfterSettle runs for a successful settlement there is a job it can
\* attach it to, provided no more jobs exist than it lists: its early return
\* `if (!candidate) return` never drops a payment.
SettlementFindsJob ==
    Cardinality(Requests) <= ListLimit =>
        \A r \in Requests : req[r].pc = "executed" =>
            Candidates(req[r].requirement.payTo) # {}

\* A payment that is on a job stays on it, unchanged: later settlements to the
\* same account, late answers and restarts never replace or drop it.
PaymentIsFinal ==
    [][\A j \in Booked : jobs'[j].payment = jobs[j].payment]_vars

\* The inductive strengthening of the invariants above.  A quote keeps what it
\* froze, and a request what the buyer signed ...
RequestLinked ==
    \A r \in Requests : req[r] # NoRequest =>
        LET q == quotes[req[r].quote] IN
        /\ q # NoQuote
        /\ signed[req[r].payload] # NoRequirement
        /\ req[r].pc = "verifying" =>
             req[r].requirement \in
               {NoRequirement, [payTo |-> q.account, amount |-> q.price]}

\* ... a job comes with the handler, not before it ...
JobFromHandler ==
    \A r \in Requests :
        req[r].pc \in {"idle", "guarded", "verifying"} => jobs[r] = NoJob

\* ... so what is being settled is owed to the account of the job it created ...
Settling == {r \in Requests : req[r].pc \in {"settling", "executed"}}
SettlementLinked ==
    \A r \in Settling :
        /\ jobs[r] # NoJob
        /\ req[r].requirement = [payTo |-> jobs[r].account, amount |-> jobs[r].price]
        /\ signed[req[r].payload] = req[r].requirement

\* ... and a transfer whose hook has not run is on no job, and waits for one hook.
ExecutedOnce ==
    \A r \in Requests : req[r].pc = "executed" =>
        /\ req[r].payload \in ledger
        /\ \A j \in Booked : jobs[j].payment.tx # req[r].payload
        /\ \A s \in Requests : req[s].pc = "executed" /\ req[s].payload = req[r].payload
                                 => s = r

IInv == /\ TypeOK
        /\ RequestLinked
        /\ JobFromHandler
        /\ SettlementLinked
        /\ ExecutedOnce
        /\ BookedPaymentIsReal
        /\ BookedOnce

\* Every settlement under way still has an unpaid job of its account to go to:
\* concurrent settlements may swap their jobs but never run out of them.
Owed(a) == {r \in Settling : req[r].requirement.payTo = a}
OwedCovered ==
    \A a \in Accounts : Cardinality(Owed(a)) <= Cardinality(Unpaid(a))

\* jobs.ts says of Quote.jobId "Set once the quote has been paid, so a replayed
\* payment can't buy twice": no quote has two jobs.
QuoteSoldOnce ==
    \A j, k \in Created : req[j].quote = req[k].quote => j = k

\* app.ts says of the search for "the most recent unpaid job for that provider
\* account" that, as "quote ids are single-use", it "is unambiguous": as long as
\* no quote is sold twice, a job carries only its own buyer's payment.
PaymentOfOwnJob ==
    QuoteSoldOnce => \A j \in Booked : jobs[j].payment.tx = req[j].payload

\* README.md says "Payment settles before the job runs": a job is handed to a
\* node only when its buyer's transfer has been executed.
SettledBeforeRun ==
    \A j \in Created : jobs[j].sent => req[j].payload \in ledger

\* The paid path implements the double entry of Bookkeeping: whatever requests,
\* replays, lost answers, expiries and restarts do, seen from the jobs and the
\* ledger there is nothing but signing, owing, executing and entering once.
Books == INSTANCE Bookkeeping WITH
    Jobs <- Requests, Transfers <- Payloads,
    owed <- [j \in Requests |-> jobs[j].account],
    payee <- [k \in Payloads |-> signed[k].payTo],
    executed <- ledger,
    booked <- [j \in Requests |-> jobs[j].payment.tx]
ImplementsBookkeeping == Books!Spec
=============================================================================
