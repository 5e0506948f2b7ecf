----------------------------- MODULE QuoteDesk -----------------------------
(***************************************************************************)
(* The road to a quote: body limit, rate limit, the match, the exchange    *)
(* rate the quote's HBAR figure is made from, and the quote.  A request    *)
(* that finds the rate stale waits for one fetch that all waiting requests *)
(* share; prices, and the rate itself, go on changing meanwhile.           *)
(***************************************************************************)
EXTENDS Integers, FiniteSetsExt

CONSTANTS
    Requests,       \* each is made once
    Clients,        \* what clientIp tells apart: addresses
    Providers,
    Prices, Rates,  \* micro-USD; US cents per HBAR
    Limit, Window,  \* the limiter's options
    MaxAge,         \* of a rate
    FetchTime,      \* fetchHbarRate's timeout
    MaxTime,        \* bound: the clock
    MaxChanges      \* bound: changes of a price, of the rate

ASSUME DeskAssumption ==
    /\ Prices \subseteq Nat \ {0} /\ Rates \subseteq Nat \ {0}
    /\ Limit \in Nat \ {0} /\ Window \in Nat \ {0}
    /\ MaxAge \in Nat \ {0} /\ FetchTime \in Nat /\ MaxTime \in Nat /\ MaxChanges \in Nat
    /\ IsFiniteSet(Requests)

VARIABLES
    now,
    bucket,         \* rateLimit: client -> count and reset time
    cached, flight, \* HbarRateCache: the rate kept, the fetch under way
    offer,          \* provider -> its price; 0 while it is not there
    mirror,         \* the rate of the Mirror Node
    req,            \* request -> what became of it
    \* history
    came,           \* request -> when it reached the limiter; -1: never
    seen,           \* rate -> when it was last the Mirror Node's; -1: never
    failed,         \* when a fetch last failed; -1: never
    changes

broker == <<bucket, cached, flight, req>>
history == <<came, failed>>
deskVars == <<now, broker, offer, mirror, history, seen, changes>>

Times == 0..MaxTime
NoBucket == [count |-> 0, resetAt |-> -1]
NoRate == [rate |-> 0, fetchedAt |-> -1]
NoFlight == [pc |-> "none", rate |-> 0, since |-> 0]
NotMade == [pc |-> "new", client |-> "nobody", at |-> 0, ceiling |-> 0,
            price |-> 0, hbar |-> 0]

DeskTypeOK ==
    /\ now \in Times
    /\ bucket \in [Clients -> [count: 0..Cardinality(Requests), resetAt: -1..(MaxTime + Window)]]
    /\ cached \in [rate: Rates \cup {0}, fetchedAt: Times \cup {-1}]
    /\ flight \in [pc: {"none", "asked", "answered"}, rate: Rates \cup {0}, since: Times]
    /\ offer \in [Providers -> Prices \cup {0}] /\ mirror \in Rates
    /\ \A r \in Requests : req[r].pc \in {"new", "waiting", "quoted", "refused", "unserved"}
    /\ changes \in 0..MaxChanges /\ failed \in Times \cup {-1}

DeskInit ==
    /\ now = 0 /\ bucket = [c \in Clients |-> NoBucket]
    /\ cached = NoRate /\ flight = NoFlight
    /\ offer \in [Providers -> Prices] /\ mirror \in Rates
    /\ req = [r \in Requests |-> NotMade]
    /\ came = [r \in Requests |-> -1]
    /\ seen = [x \in Rates |-> IF x = mirror THEN 0 ELSE -1]
    /\ failed = -1 /\ changes = 0

-----------------------------------------------------------------------------
(* Money.  A cent is 10 000 micro-USD, an HBAR 10^8 tinybars.                *)
TinybarsPerMicroAtACent == 10000
\* Rounded up.
usdMicrosToTinybars(micros, rate) == (micros * TinybarsPerMicroAtACent + rate - 1) \div rate

-----------------------------------------------------------------------------
(* rateLimit: a fixed window per client.                                   *)
Expired(b) == b.resetAt < now
Counted(c) == IF Expired(bucket[c]) THEN [count |-> 1, resetAt |-> now + Window]
              ELSE [bucket[c] EXCEPT !.count = @ + 1]
WithinLimit(b) == b.count <= Limit

\* The sweeper takes the windows that are over (slip: all of them).
SweepAll ==
    /\ bucket' = [c \in Clients |-> NoBucket]
    /\ UNCHANGED <<now, cached, flight, req, offer, mirror, history, seen, changes>>
Sweep ==
    /\ \E c \in Clients : bucket[c] # NoBucket /\ Expired(bucket[c])
    /\ bucket' = [c \in Clients |-> IF Expired(bucket[c]) THEN NoBucket ELSE bucket[c]]
    /\ UNCHANGED <<now, cached, flight, req, offer, mirror, history, seen, changes>>

-----------------------------------------------------------------------------
(* HbarRateCache.                                                          *)
\* A rate is served while it is young (slip: it need only be there).
IsFreshIfAny == cached # NoRate
IsFresh == cached # NoRate /\ now - cached.fetchedAt < MaxAge

\* match: the cheapest under the ceiling.
Candidates(ceiling) == {p \in Providers : offer[p] # 0 /\ offer[p] <= ceiling}
Matched(ceiling) == Min({offer[p] : p \in Candidates(ceiling)})

\* The quote of a request whose rate is known, or known not to be had.  The price is
\* the one matched before the wait.
Quoted(x, rate) ==
    [x EXCEPT !.pc = "quoted", !.at = now,
              !.hbar = IF rate = 0 THEN 0 ELSE usdMicrosToTinybars(x.price, rate)]

-----------------------------------------------------------------------------
\* bodyLimit: the limiter never hears of it.
TooLarge(r, c) ==
    /\ req[r].pc = "new"
    /\ req' = [req EXCEPT ![r].pc = "unserved", ![r].client = c]
    /\ UNCHANGED <<now, bucket, cached, flight, offer, mirror, history, seen, changes>>

Limited(r, c) ==
    /\ req[r].pc = "new" /\ ~WithinLimit(Counted(c))
    /\ bucket' = [bucket EXCEPT ![c] = Counted(c)]
    /\ req' = [req EXCEPT ![r].pc = "refused", ![r].client = c, ![r].at = now]
    /\ came' = [came EXCEPT ![r] = now]
    /\ UNCHANGED <<now, cached, flight, offer, mirror, failed, seen, changes>>

Passes(r, c) ==
    /\ req[r].pc = "new" /\ WithinLimit(Counted(c))
    /\ bucket' = [bucket EXCEPT ![c] = Counted(c)]
    /\ came' = [came EXCEPT ![r] = now]
    /\ UNCHANGED <<now, cached, offer, mirror, failed, seen, changes>>

\* A request that is not in order, or that nobody serves under its ceiling.
Unserved(r, c) ==
    /\ Passes(r, c)
    /\ req' = [req EXCEPT ![r].pc = "unserved", ![r].client = c]
    /\ UNCHANGED flight

\* POST /api/quotes: the match, then the rate from the cache or the fetch under way.
Request(r, c, ceiling) ==
    /\ Candidates(ceiling) # {}
    /\ Passes(r, c)
    /\ LET x == [pc |-> "waiting", client |-> c, at |-> now, ceiling |-> ceiling,
                 price |-> Matched(ceiling), hbar |-> 0]
       IN IF IsFresh
          THEN req' = [req EXCEPT ![r] = Quoted(x, cached.rate)] /\ UNCHANGED flight
          ELSE /\ req' = [req EXCEPT ![r] = x]
               /\ flight' = IF flight # NoFlight THEN flight
                            ELSE [NoFlight EXCEPT !.pc = "asked", !.since = now]

Settled(rate) == [r \in Requests |-> IF req[r].pc = "waiting" THEN Quoted(req[r], rate) ELSE req[r]]

\* fetchHbarRate: the Mirror Node answers; the answer arrives.
MirrorAnswers ==
    /\ flight.pc = "asked"
    /\ flight' = [flight EXCEPT !.pc = "answered", !.rate = mirror]
    /\ UNCHANGED <<now, bucket, cached, req, offer, mirror, history, seen, changes>>
RateArrives ==
    /\ flight.pc = "answered"
    /\ cached' = [rate |-> flight.rate, fetchedAt |-> now]
    /\ req' = Settled(flight.rate)
    /\ flight' = NoFlight
    /\ UNCHANGED <<now, bucket, offer, mirror, history, seen, changes>>

\* It fails, or its time is up; who waited is quoted in USDC alone (slip: and the
\* failed fetch is what the next ones are given).
FetchFailsForGood ==
    /\ flight.pc # "none"
    /\ req' = Settled(0)
    /\ failed' = IF failed = -1 THEN now ELSE failed
    /\ UNCHANGED <<now, bucket, cached, flight, offer, mirror, came, seen, changes>>
FetchFails ==
    /\ flight.pc # "none"
    /\ req' = Settled(0)
    /\ failed' = now
    /\ flight' = NoFlight
    /\ UNCHANGED <<now, bucket, cached, offer, mirror, came, seen, changes>>

-----------------------------------------------------------------------------
(* The world.                                                              *)
DeskTick ==
    /\ now < MaxTime /\ (flight.pc # "none" => now - flight.since < FetchTime)
    /\ now' = now + 1
    /\ seen' = [seen EXCEPT ![mirror] = now + 1]
    /\ UNCHANGED <<broker, offer, mirror, history, changes>>

\* A provider registers anew with a price, or is gone.
Reprices(p, price) ==
    /\ changes < MaxChanges /\ changes' = changes + 1
    /\ price # offer[p] /\ offer' = [offer EXCEPT ![p] = price]
    /\ UNCHANGED <<now, broker, mirror, history, seen>>

RateRotates(rate) ==
    /\ changes < MaxChanges /\ changes' = changes + 1
    /\ rate # mirror /\ mirror' = rate /\ seen' = [seen EXCEPT ![rate] = now]
    /\ UNCHANGED <<now, broker, offer, history>>

DeskNext ==
    \/ \E r \in Requests, c \in Clients :
         \/ TooLarge(r, c) \/ Limited(r, c) \/ Unserved(r, c)
         \/ \E ceiling \in Prices : Request(r, c, ceiling)
    \/ Sweep \/ MirrorAnswers \/ RateArrives \/ FetchFails \/ DeskTick
    \/ \E p \in Providers, price \in Prices \cup {0} : Reprices(p, price)
    \/ \E rate \in Rates : RateRotates(rate)
DeskSpec == DeskInit /\ [][DeskNext]_deskVars

-----------------------------------------------------------------------------
(***************************************************************************)
(* Properties                                                              *)
(***************************************************************************)
\* The requests of a client that reached the limiter within a span, and that passed it.
Asked(c, from, to) ==
    {r \in Requests : req[r].client = c /\ 0 <= came[r] /\ from <= came[r] /\ came[r] <= to}
Passed(c, from, to) == {r \in Asked(c, from, to) : req[r].pc # "refused"}

\* A fixed window is exact within one window only: in any span as long as a window a
\* client gets at most twice the limit through, and a client that is refused has
\* asked more often than the limit within the last window (rateLimit).
LimitHolds ==
    /\ DeskTypeOK
    /\ \A c \in Clients, t \in Times : Cardinality(Passed(c, t, t + Window)) <= 2 * Limit
    /\ \A r \in Requests : req[r].pc = "refused" =>
           Cardinality(Asked(req[r].client, came[r] - Window, came[r])) > Limit

\* A quote asks no more than the client's ceiling, even if the provider re-registers
\* with another price, or leaves, while the request waits for the rate.  Its HBAR
\* figure is what that price costs, rounded up, at a rate that the Mirror Node gave
\* no longer ago than the cache keeps one and a fetch may take, however the rate
\* rotates and whichever requests share a fetch (HbarRateCache: "refuses to serve a
\* rate old enough to misprice a job").
QuoteIsFair ==
    \A r \in Requests : req[r].pc = "quoted" =>
        /\ req[r].price \in Prices /\ req[r].price <= req[r].ceiling
        /\ req[r].at = now /\ req[r].hbar # 0 =>
              \E rate \in Rates :
                  /\ seen[rate] >= 0 /\ now - seen[rate] < MaxAge + FetchTime
                  /\ req[r].hbar * rate >= req[r].price * TinybarsPerMicroAtACent
                  /\ (req[r].hbar - 1) * rate < req[r].price * TinybarsPerMicroAtACent

\* A quote lacks an HBAR figure only if a fetch failed just then: one failure takes
\* HBAR from the requests that shared it and from nobody who asks later.
NoHbarForCause ==
    \A r \in Requests : req[r].pc = "quoted" /\ req[r].hbar = 0 => failed >= req[r].at
=============================================================================
