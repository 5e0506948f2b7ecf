-------------------------- MODULE SettlementProofs --------------------------
(***************************************************************************)
(* What holds of the paid path for any number of providers, quotes,        *)
(* requests and transfers.                                                 *)
(***************************************************************************)
EXTENDS Settlement, FiniteSetTheorems, TLAPS

\* The shapes of the state's records; every typing step below needs them.
LEMMA Shapes ==
    /\ NoRequirement \in Requirement
    /\ NoPayment \notin Payment
    /\ NoJob \notin Job
    /\ NoQuote \notin Quote
    /\ NoRequest \notin Request
BY NamesAssumption
DEF NoRequirement, Requirement, NoPayment, Payment, NoJob, Job, NoQuote, Quote,
    NoRequest, Request

\* Every reachable state of the paid path is well typed: a quote that exists
\* names a registered account and a real price, a job its account and sequence.
LEMMA TypeInit == Init => TypeOK
BY LimitsAssumption
DEF Init, TypeOK, Requirement, NoRequirement

\* The resolvers answer with a requirement, the fallback included.
LEMMA ResolvedType ==
    ASSUME TypeOK, NEW q \in Quotes PROVE Resolved(q) \in Requirement
BY DEF TypeOK, Resolved, Requirement, NoRequirement, Live, Quote, NoQuote

\* A request past "idle" and a quote that is live have all their fields.
LEMMA ActiveRequest ==
    ASSUME TypeOK, NEW r \in Requests, req[r].pc # "idle" PROVE req[r] \in Request
BY DEF TypeOK, NoRequest

\* A quote the guard accepts has all the fields a quote froze.
LEMMA LiveQuote ==
    ASSUME TypeOK, NEW q \in Quotes, Live(q) PROVE quotes[q] \in Quote
BY DEF TypeOK, Live, NoQuote

\* No step of the paid path, the hook's write of the payment included, leaves the
\* types.
LEMMA TypeStep == TypeOK /\ RequestLinked /\ SettlementLinked /\ [Next]_vars => TypeOK'
<1> SUFFICES ASSUME TypeOK, RequestLinked, SettlementLinked, [Next]_vars PROVE TypeOK'
    OBVIOUS
<1> USE DEF TypeOK, fleet
<1>1. ASSUME NEW p \in Providers, NEW a \in Accounts, NEW m \in Prices, Register(p, a, m)
      PROVE  TypeOK'
    BY <1>1 DEF Register, Provider
<1>2. ASSUME NEW p \in Providers, GoOffline(p) PROVE TypeOK'
    BY <1>2 DEF GoOffline
<1>3. ASSUME NEW q \in Quotes, NEW p \in Providers, MatchQuote(q, p) PROVE TypeOK'
    BY <1>3 DEF MatchQuote, Quote, Provider
<1>4. ASSUME NEW q \in Quotes, CreateQuote(q) PROVE TypeOK'
    BY <1>4 DEF CreateQuote, Quote, NoQuote
<1>5. ASSUME NEW q \in Quotes, Expire(q) PROVE TypeOK'
    BY <1>5 DEF Expire, Live, Quote, NoQuote
<1>6. ASSUME NEW k \in Payloads, NEW q \in Quotes, Sign(k, q) PROVE TypeOK'
    BY <1>6 DEF Sign, Resolved, Requirement, NoRequirement, Quote, NoQuote
<1>7. ASSUME NEW r \in Requests, NEW k \in Payloads, NEW q \in Quotes, Post(r, k, q)
      PROVE  TypeOK'
    BY <1>7, Shapes DEF Post, Request
<1>8. ASSUME NEW r \in Requests, Serve(r) PROVE TypeOK'
  <2>1. CASE Resolve(r)
    <3>1. req[r] \in Request
        BY <2>1 DEF Resolve, NoRequest
    <3>2. Resolved(req[r].quote) \in Requirement
        BY <3>1, ResolvedType DEF Request
    <3> QED BY <2>1, <3>1, <3>2 DEF Resolve, Request
  <2>2. CASE VerifyFails(r)
      BY <2>2 DEF VerifyFails, Request, NoRequest
  <2>3. CASE HandleExpired(r)
      BY <2>3 DEF HandleExpired, Request, NoRequest
  <2>4. CASE Handle(r)
    <3> DEFINE q == req[r].quote
    <3>1. req[r] \in Request /\ Live(q)
        BY <2>4, ActiveRequest DEF Handle
    <3>2. quotes[q] \in Quote
        BY <3>1, LiveQuote DEF Request
    <3>3. jobs' \in [Requests -> Job \cup {NoJob}]
        BY <2>4, <3>2 DEF Handle, Quote, Job
    <3>4. quotes' \in [Quotes -> Quote \cup {NoQuote}]
        BY <2>4, <3>2 DEF Handle, Quote
    <3>5. req' \in [Requests -> Request \cup {NoRequest}]
        BY <2>4, <3>1 DEF Handle, Request
    <3> QED BY <2>4, <3>3, <3>4, <3>5 DEF Handle
  <2>5. CASE LedgerExecutes(r)
      BY <2>5 DEF LedgerExecutes, Request, NoRequest
  <2>6. CASE SettleFails(r)
      BY <2>6 DEF SettleFails, Request, NoRequest
  <2>7. CASE OnAfterSettle(r)
    <3>1. req[r] \in Request
        BY <2>7, ActiveRequest DEF OnAfterSettle
    <3>2. req' \in [Requests -> Request \cup {NoRequest}]
        BY <2>7, <3>1 DEF OnAfterSettle, Request
    <3>3. jobs' \in [Requests -> Job \cup {NoJob}]
      <4>1. r \in Settling
          BY <2>7 DEF OnAfterSettle, Settling
      <4>2. jobs[r] \in Job /\ req[r].requirement = [payTo |-> jobs[r].account,
                                                   amount |-> jobs[r].price]
          BY <4>1 DEF SettlementLinked
      <4>3. Record(r) \in Payment
          BY <3>1, <4>2 DEF Record, Request, Payment, Job
      <4>4. ASSUME NEW j \in Requests, jobs[j] # NoJob
            PROVE  [jobs EXCEPT ![j].payment = Record(r)] \in [Requests -> Job \cup {NoJob}]
          BY <4>3, <4>4 DEF Job
      <4> QED BY <2>7, <4>4 DEF OnAfterSettle, Attach, IsNewest, Candidates, Listed, Created
    <3> QED BY <2>7, <3>2, <3>3 DEF OnAfterSettle
  <2> QED BY <1>8, <2>1, <2>2, <2>3, <2>4, <2>5, <2>6, <2>7 DEF Serve
<1>9. CASE Restart
  <2>2. quotes' \in [Quotes -> Quote \cup {NoQuote}]
      BY <1>9 DEF Restart, Quote
  <2>3. req' \in [Requests -> Request \cup {NoRequest}]
      BY <1>9 DEF Restart, Request, NoRequest
  <2> QED BY <1>9, <2>2, <2>3, LimitsAssumption DEF Restart
<1>10. CASE UNCHANGED vars
    BY <1>10 DEF vars
<1> QED
    BY <1>1, <1>2, <1>3, <1>4, <1>5, <1>6, <1>7, <1>8, <1>9, <1>10 DEF Next

-----------------------------------------------------------------------------
\* What no step takes back: a quote keeps the account and price it froze, a
\* signature what it commits to, a job the account and price of its quote, and
\* the network never forgets a transfer.
QuoteKept == \A q \in Quotes : quotes[q] # NoQuote =>
                 /\ quotes'[q] # NoQuote
                 /\ quotes'[q].account = quotes[q].account
                 /\ quotes'[q].price = quotes[q].price
SignatureKept == \A k \in Payloads : signed[k] # NoRequirement => signed'[k] = signed[k]
JobKept == \A j \in Requests : jobs[j] # NoJob =>
               /\ jobs'[j] # NoJob
               /\ jobs'[j].account = jobs[j].account
               /\ jobs'[j].price = jobs[j].price
Kept == QuoteKept /\ SignatureKept /\ JobKept /\ ledger \subseteq ledger'

\* A job is created by the handler and changed by the hook, and by nothing else.
LEMMA JobStep ==
    ASSUME IInv, [Next]_vars
    PROVE  \/ UNCHANGED jobs
           \/ \E r \in Requests : Handle(r)
           \/ \E r \in Requests : OnAfterSettle(r)
BY DEF Next, vars, fleet, Register, GoOffline, MatchQuote, CreateQuote, Expire, Sign, Post,
       Serve, Resolve, VerifyFails, HandleExpired, LedgerExecutes, SettleFails, Restart

\* How one request moves: it does not, it is posted, it is resolved, or it is a
\* request under way of which only the program counter changes.
LEMMA RequestStep ==
    ASSUME IInv, [Next]_vars, NEW r \in Requests
    PROVE  \/ req'[r] = req[r]
           \/ \E k \in Payloads, q \in Quotes : Post(r, k, q)
           \/ Resolve(r)
           \/ /\ req[r] \in Request
              /\ \E pc \in {"settling", "executed", "done", "refused", "unsettled", "lost",
                            "aborted"} : req'[r] = [req[r] EXCEPT !.pc = pc]
<1> USE DEF IInv
<1>1. CASE UNCHANGED req
    BY <1>1
<1>2. CASE \E s \in Requests, k \in Payloads, q \in Quotes : Post(s, k, q)
    BY <1>2 DEF Post, TypeOK
<1>3. ASSUME NEW s \in Requests, Serve(s), s # r PROVE req'[r] = req[r]
    BY <1>3 DEF Serve, Resolve, VerifyFails, HandleExpired, Handle, LedgerExecutes,
                SettleFails, OnAfterSettle, TypeOK
<1>4. ASSUME Serve(r), ~Resolve(r)
      PROVE  /\ req[r] \in Request
             /\ \E pc \in {"settling", "executed", "done", "refused", "unsettled", "lost",
                            "aborted"} : req'[r] = [req[r] EXCEPT !.pc = pc]
  <2>1. req[r] \in Request
      BY <1>4, ActiveRequest
      DEF Serve, VerifyFails, HandleExpired, Handle, LedgerExecutes, SettleFails, OnAfterSettle
  <2> QED
      BY <1>4, <2>1
      DEF Serve, VerifyFails, HandleExpired, Handle, LedgerExecutes, SettleFails,
          OnAfterSettle, TypeOK
<1>5. CASE Restart
  <2>1. CASE req[r] = NoRequest
      BY <1>5, <2>1 DEF Restart, NoRequest
  <2>2. CASE req[r] \in Request
      BY <1>5, <2>2 DEF Restart, Request
  <2> QED BY <2>1, <2>2 DEF TypeOK
<1> QED
    BY <1>1, <1>2, <1>3, <1>4, <1>5
    DEF Next, vars, fleet, Register, GoOffline, MatchQuote, CreateQuote, Expire, Sign

\* A request is being settled only from its handler on.
LEMMA SettlingStep ==
    ASSUME IInv, [Next]_vars, NEW r \in Requests, ~Handle(r),
           req'[r].pc \in {"settling", "executed"}
    PROVE  r \in Settling
<1> USE DEF IInv, TypeOK, Settling
<1>1. CASE UNCHANGED req
    BY <1>1
<1>2. CASE \E s \in Requests, k \in Payloads, q \in Quotes : Post(s, k, q)
    BY <1>2 DEF Post
<1>3. ASSUME NEW s \in Requests, Serve(s) PROVE r \in Settling
  <2>1. CASE s # r
      BY <1>3, <2>1 DEF Serve, Resolve, VerifyFails, HandleExpired, Handle, LedgerExecutes,
                        SettleFails, OnAfterSettle
  <2>2. CASE Resolve(r) \/ VerifyFails(r) \/ HandleExpired(r)
    <3>1. req[r] \in Request
        BY <2>2, ActiveRequest DEF Resolve, VerifyFails, HandleExpired
    <3> QED BY <2>2, <3>1 DEF Resolve, VerifyFails, HandleExpired, Request
  <2>3. CASE LedgerExecutes(r) \/ SettleFails(r) \/ OnAfterSettle(r)
    <3>1. req[r] \in Request
        BY <2>3, ActiveRequest DEF LedgerExecutes, SettleFails, OnAfterSettle
    <3> QED BY <2>3, <3>1 DEF LedgerExecutes, SettleFails, OnAfterSettle, Request
  <2> QED BY <1>3, <2>1, <2>2, <2>3 DEF Serve
<1>4. CASE Restart
  <2>1. req[r] # NoRequest
      BY <1>4 DEF Restart, NoRequest
  <2>2. req[r] \in Request
      BY <2>1
  <2> QED BY <1>4, <2>2 DEF Restart, Request
<1> QED
    BY <1>1, <1>2, <1>3, <1>4
    DEF Next, vars, fleet, Register, GoOffline, MatchQuote, CreateQuote, Expire, Sign

\* No step takes any of that back, a restart included.
LEMMA KeptStep == ASSUME IInv, [Next]_vars PROVE Kept
<1> USE DEF IInv
<1>1. QuoteKept
  <2>1. CASE \E q \in Quotes, p \in Providers : MatchQuote(q, p)
      BY <2>1 DEF QuoteKept, MatchQuote, TypeOK
  <2>2. CASE \E q \in Quotes : CreateQuote(q) \/ Expire(q)
      BY <2>2 DEF QuoteKept, CreateQuote, Expire, TypeOK, Quote, NoQuote
  <2>3. CASE \E r \in Requests : Handle(r)
      BY <2>3 DEF QuoteKept, Handle, TypeOK, Quote, NoQuote
  <2>4. CASE Restart
      BY <2>4 DEF QuoteKept, Restart, TypeOK, Quote, NoQuote
  <2>5. CASE UNCHANGED quotes
      BY <2>5 DEF QuoteKept
  <2> QED
      BY <2>1, <2>2, <2>3, <2>4, <2>5
      DEF Next, vars, fleet, Register, GoOffline, Sign, Post, Serve, Resolve, VerifyFails,
          HandleExpired, LedgerExecutes, SettleFails, OnAfterSettle
<1>2. SignatureKept
  <2>1. CASE \E k \in Payloads, q \in Quotes : Sign(k, q)
      BY <2>1 DEF SignatureKept, Sign, TypeOK
  <2>2. CASE UNCHANGED signed
      BY <2>2 DEF SignatureKept
  <2> QED
      BY <2>1, <2>2
      DEF Next, vars, fleet, Register, GoOffline, MatchQuote, CreateQuote, Expire, Post, Serve,
          Resolve, VerifyFails, HandleExpired, Handle, LedgerExecutes, SettleFails,
          OnAfterSettle, Restart
<1>3. JobKept
  <2>1. ASSUME NEW r \in Requests, Handle(r) PROVE JobKept
      BY <2>1 DEF JobKept, JobFromHandler, Handle, TypeOK
  <2>2. ASSUME NEW r \in Requests, OnAfterSettle(r) PROVE JobKept
      BY <2>2 DEF JobKept, OnAfterSettle, Attach, TypeOK, Job, NoJob
  <2>3. CASE UNCHANGED jobs
      BY <2>3 DEF JobKept
  <2> QED BY <2>1, <2>2, <2>3, JobStep
<1>4. ledger \subseteq ledger'
    BY DEF Next, vars, fleet, Register, GoOffline, MatchQuote, CreateQuote, Expire, Sign, Post,
           Serve, Resolve, VerifyFails, HandleExpired, Handle, LedgerExecutes, SettleFails,
           OnAfterSettle, Restart
<1> QED BY <1>1, <1>2, <1>3, <1>4 DEF Kept

-----------------------------------------------------------------------------
\* A request keeps naming a quote that was priced, and its resolved requirement
\* stays the quote's own or the fallback.
LEMMA RequestLinkedStep == ASSUME IInv, [Next]_vars PROVE RequestLinked'
<1> USE DEF IInv
<1> SUFFICES ASSUME NEW r \in Requests, req'[r] # NoRequest
             PROVE  /\ quotes'[req'[r].quote] # NoQuote
                    /\ signed'[req'[r].payload] # NoRequirement
                    /\ req'[r].pc = "verifying" =>
                         req'[r].requirement \in
                           {NoRequirement, [payTo |-> quotes'[req'[r].quote].account,
                                            amount |-> quotes'[req'[r].quote].price]}
    BY DEF RequestLinked
<1>0. Kept
    BY KeptStep
<1>1. CASE req'[r] = req[r]
  <2>1. req[r] \in Request
      BY <1>1 DEF TypeOK
  <2>2. /\ req[r].quote \in Quotes
        /\ req[r].payload \in Payloads
      BY <2>1 DEF Request
  <2> QED BY <1>0, <1>1, <2>2 DEF RequestLinked, Kept, QuoteKept, SignatureKept
<1>2. CASE \E k \in Payloads, q \in Quotes : Post(r, k, q)
    BY <1>2 DEF Post, TypeOK, NoQuote
<1>3. CASE Resolve(r)
  <2>1. req[r] \in Request
      BY <1>3, ActiveRequest DEF Resolve
  <2>2. req'[r] = [req[r] EXCEPT !.pc = "verifying", !.requirement = Resolved(req[r].quote)]
      BY <1>3 DEF Resolve, TypeOK
  <2>3. /\ req'[r].quote = req[r].quote
        /\ req'[r].payload = req[r].payload
        /\ req'[r].requirement = Resolved(req[r].quote)
      BY <2>1, <2>2 DEF Request
  <2>4. /\ quotes[req[r].quote] # NoQuote
        /\ signed[req[r].payload] # NoRequirement
      BY <2>1, Shapes DEF RequestLinked
  <2>5. quotes' = quotes /\ signed' = signed
      BY <1>3 DEF Resolve
  <2> QED BY <2>3, <2>4, <2>5 DEF Resolved
<1>4. CASE /\ req[r] \in Request
           /\ \E pc \in {"settling", "executed", "done", "refused", "unsettled", "lost", "aborted"} :
                req'[r] = [req[r] EXCEPT !.pc = pc]
  <2>1. /\ req[r].quote \in Quotes
        /\ req[r].payload \in Payloads
        /\ req'[r].quote = req[r].quote
        /\ req'[r].payload = req[r].payload
        /\ req'[r].pc # "verifying"
      BY <1>4 DEF Request
  <2> QED BY <1>0, <1>4, <2>1, Shapes DEF RequestLinked, Kept, QuoteKept, SignatureKept
<1> QED
    BY <1>1, <1>2, <1>3, <1>4, RequestStep

\* No job appears under a request before its handler has run.
LEMMA JobFromHandlerStep == ASSUME IInv, [Next]_vars PROVE JobFromHandler'
<1> USE DEF IInv
<1> SUFFICES ASSUME NEW r \in Requests, req'[r].pc \in {"idle", "guarded", "verifying"}
             PROVE  jobs'[r] = NoJob
    BY DEF JobFromHandler
<1>1. req[r].pc \in {"idle", "guarded", "verifying"}
  <2>1. CASE \E k \in Payloads, q \in Quotes : Post(r, k, q)
      BY <2>1 DEF Post, NoRequest
  <2>2. CASE Resolve(r)
      BY <2>2 DEF Resolve
  <2>3. CASE /\ req[r] \in Request
             /\ \E pc \in {"settling", "executed", "done", "refused", "unsettled", "lost",
                           "aborted"} : req'[r] = [req[r] EXCEPT !.pc = pc]
      BY <2>3 DEF Request
  <2> QED BY <2>1, <2>2, <2>3, RequestStep
<1>2. jobs[r] = NoJob
    BY <1>1 DEF JobFromHandler
<1>3. ASSUME NEW s \in Requests, Handle(s) PROVE jobs'[r] = NoJob
  <2>1. s # r
      BY <1>3 DEF Handle, TypeOK, Request, NoRequest
  <2> QED BY <1>2, <1>3, <2>1 DEF Handle, TypeOK
<1>4. ASSUME NEW s \in Requests, OnAfterSettle(s) PROVE jobs'[r] = NoJob
    BY <1>2, <1>4 DEF OnAfterSettle, Attach, IsNewest, Candidates, Listed, Created, TypeOK
<1> QED BY <1>2, <1>3, <1>4, JobStep

\* What is being settled stays what the job of the request costs, and what the
\* buyer signed.
LEMMA SettlementLinkedStep == ASSUME IInv, [Next]_vars PROVE SettlementLinked'
<1> USE DEF IInv
<1>0. Kept
    BY KeptStep
<1> SUFFICES ASSUME NEW r \in Requests, req'[r].pc \in {"settling", "executed"}
             PROVE  /\ jobs'[r] # NoJob
                    /\ req'[r].requirement = [payTo |-> jobs'[r].account,
                                              amount |-> jobs'[r].price]
                    /\ signed'[req'[r].payload] = req'[r].requirement
    BY DEF SettlementLinked, Settling
<1>1. CASE r \in Settling /\ req'[r].requirement = req[r].requirement
                          /\ req'[r].payload = req[r].payload
  <2>1. req[r].payload \in Payloads
      BY <1>1, ActiveRequest DEF Settling, Request
  <2>2. signed[req[r].payload] # NoRequirement
      BY <1>1 DEF Settling, RequestLinked, NoRequest
  <2> QED
      BY <1>0, <1>1, <2>1, <2>2 DEF SettlementLinked, Kept, JobKept, SignatureKept
<1>2. CASE Handle(r)
  <2>1. /\ req[r] \in Request
        /\ Live(req[r].quote)
      BY <1>2, ActiveRequest DEF Handle
  <2>2. quotes[req[r].quote] \in Quote
      BY <2>1, LiveQuote DEF Request
  <2>3. /\ jobs'[r].account = quotes[req[r].quote].account
        /\ jobs'[r].price = quotes[req[r].quote].price
        /\ jobs'[r].sequence = nextSequence
      BY <1>2 DEF Handle, TypeOK
  <2>4. jobs'[r] # NoJob
      BY <2>3 DEF NoJob, TypeOK
  <2>5. req'[r].requirement = req[r].requirement /\ req'[r].payload = req[r].payload
      BY <1>2, <2>1 DEF Handle, TypeOK, Request
  <2>6. signed'[req[r].payload] = req[r].requirement
      BY <1>2 DEF Handle
  <2>7. req[r].requirement = [payTo |-> quotes[req[r].quote].account,
                              amount |-> quotes[req[r].quote].price]
      BY <1>2, <2>1, <2>6, Shapes DEF Handle, RequestLinked
  <2> QED BY <2>3, <2>4, <2>5, <2>6, <2>7
<1>3. ~Handle(r) => r \in Settling /\ req'[r].requirement = req[r].requirement
                                   /\ req'[r].payload = req[r].payload
  <2> SUFFICES ASSUME ~Handle(r) PROVE r \in Settling /\ req'[r].requirement = req[r].requirement
                                                      /\ req'[r].payload = req[r].payload
      OBVIOUS
  <2>1. r \in Settling
      BY SettlingStep
  <2>2. req[r] \in Request
      BY <2>1, ActiveRequest DEF Settling
  <2>3. CASE req'[r] = req[r]
      BY <2>1, <2>3
  <2>4. CASE \E pc \in {"settling", "executed", "done", "refused", "unsettled", "lost",
                        "aborted"} : req'[r] = [req[r] EXCEPT !.pc = pc]
      BY <2>1, <2>2, <2>4 DEF Request
  <2>5. ~Resolve(r) /\ \A k \in Payloads, q \in Quotes : ~Post(r, k, q)
      BY <2>1, <2>2, Shapes DEF Settling, Post, Resolve
  <2> QED BY <2>1, <2>2, <2>3, <2>4, <2>5, RequestStep
<1> QED BY <1>1, <1>2, <1>3

-----------------------------------------------------------------------------
\* A job that carries a payment carried it before, or onAfterSettle has just
\* put it there: on an unpaid job of the transfer's payee, and on no other job.
LEMMA BookingStep ==
    ASSUME IInv, [Next]_vars, NEW j \in Booked'
    PROVE  \/ j \in Booked /\ jobs'[j].payment = jobs[j].payment
           \/ \E r \in Requests :
                /\ OnAfterSettle(r)
                /\ j \in Unpaid(req[r].requirement.payTo)
                /\ jobs' = [jobs EXCEPT ![j].payment = Record(r)]
<1> USE DEF IInv
<1>0. j \in Requests /\ jobs'[j] # NoJob /\ jobs'[j].payment # NoPayment
    BY DEF Booked, Created
<1>1. CASE jobs'[j] = jobs[j]
    BY <1>0, <1>1 DEF Booked, Created
<1>2. ASSUME NEW r \in Requests, Handle(r) PROVE jobs'[j] = jobs[j]
    BY <1>0, <1>2 DEF Handle, TypeOK
<1>3. ASSUME NEW r \in Requests, OnAfterSettle(r), jobs'[j] # jobs[j]
      PROVE  /\ j \in Unpaid(req[r].requirement.payTo)
             /\ jobs' = [jobs EXCEPT ![j].payment = Record(r)]
  <2>1. PICK i \in Requests : /\ IsNewest(i, Candidates(req[r].requirement.payTo))
                              /\ jobs' = [jobs EXCEPT ![i].payment = Record(r)]
      BY <1>3 DEF OnAfterSettle, Attach
  <2>2. i = j
      BY <1>0, <1>3, <2>1 DEF TypeOK
  <2> QED BY <2>1, <2>2 DEF IsNewest, Candidates
<1> QED BY <1>0, <1>1, <1>2, <1>3, JobStep

\* The hook keeps payments real: it books the transfer of its own request, which
\* the network has executed, on a job of the payee.
LEMMA BookedPaymentIsRealStep == ASSUME IInv, [Next]_vars PROVE BookedPaymentIsReal'
<1> USE DEF IInv
<1> SUFFICES ASSUME NEW j \in Booked'
             PROVE  /\ jobs'[j].payment.tx \in ledger'
                    /\ jobs'[j].payment.payTo = jobs'[j].account
                    /\ signed'[jobs'[j].payment.tx] = [payTo |-> jobs'[j].payment.payTo,
                                                       amount |-> jobs'[j].payment.amount]
    BY DEF BookedPaymentIsReal
<1>0. Kept
    BY KeptStep
<1>1. CASE j \in Booked /\ jobs'[j].payment = jobs[j].payment
  <2> DEFINE p == jobs[j].payment
  <2>1. /\ p.tx \in ledger
        /\ p.payTo = jobs[j].account
        /\ signed[p.tx] = [payTo |-> p.payTo, amount |-> p.amount]
      BY <1>1 DEF BookedPaymentIsReal
  <2>2. jobs[j] \in Job
      BY <1>1 DEF Booked, Created, TypeOK
  <2>3. p.tx \in Payloads /\ p.payTo \in Accounts
      BY <2>1, <2>2 DEF TypeOK, Job
  <2>4. signed[p.tx] # NoRequirement
      BY <2>1, <2>3, NamesAssumption DEF NoRequirement
  <2> QED BY <1>0, <1>1, <2>1, <2>3, <2>4 DEF Kept, SignatureKept, JobKept, Booked, Created
<1>2. CASE \E r \in Requests : /\ OnAfterSettle(r)
                               /\ j \in Unpaid(req[r].requirement.payTo)
                               /\ jobs' = [jobs EXCEPT ![j].payment = Record(r)]
  <2>1. PICK r \in Requests : /\ OnAfterSettle(r)
                              /\ j \in Unpaid(req[r].requirement.payTo)
                              /\ jobs' = [jobs EXCEPT ![j].payment = Record(r)]
      BY <1>2
  <2>2. /\ req[r].payload \in ledger
        /\ signed[req[r].payload] = req[r].requirement
        /\ req[r] \in Request
      BY <2>1, ActiveRequest
      DEF OnAfterSettle, ExecutedOnce, SettlementLinked, Settling
  <2>3. j \in Requests /\ jobs[j] \in Job /\ jobs[j].account = req[r].requirement.payTo
      BY <2>1 DEF Unpaid, Created, TypeOK
  <2>4. jobs'[j].payment = Record(r) /\ jobs'[j].account = jobs[j].account
      BY <2>1, <2>3 DEF TypeOK, Job
  <2>5. signed' = signed /\ ledger' = ledger
      BY <2>1 DEF OnAfterSettle
  <2>6. req[r].requirement = [payTo |-> req[r].requirement.payTo,
                              amount |-> req[r].requirement.amount]
      BY <2>2 DEF Request, Requirement
  <2> QED BY <2>2, <2>3, <2>4, <2>5, <2>6 DEF Record
<1> QED BY <1>1, <1>2, BookingStep

\* The hook keeps transfers on one job each: its own is on none before it runs.
LEMMA BookedOnceStep == ASSUME IInv, [Next]_vars PROVE BookedOnce'
<1> USE DEF IInv
<1> SUFFICES ASSUME NEW j \in Booked', NEW k \in Booked', j # k
             PROVE  jobs'[j].payment.tx # jobs'[k].payment.tx
    BY DEF BookedOnce
<1>1. CASE /\ j \in Booked /\ jobs'[j].payment = jobs[j].payment
           /\ k \in Booked /\ jobs'[k].payment = jobs[k].payment
    BY <1>1 DEF BookedOnce
<1>2. ASSUME NEW i \in Booked', NEW n \in Booked', i # n,
             NEW r \in Requests, OnAfterSettle(r), i \in Unpaid(req[r].requirement.payTo),
             jobs' = [jobs EXCEPT ![i].payment = Record(r)]
      PROVE  jobs'[i].payment.tx # jobs'[n].payment.tx
  <2>1. i \in Requests /\ n \in Requests /\ jobs[i] \in Job
      BY <1>2 DEF Booked, Created, Unpaid, TypeOK
  <2>2. jobs'[n] = jobs[n] /\ jobs'[i].payment = Record(r)
      BY <1>2, <2>1 DEF TypeOK, Job
  <2>3. n \in Booked
      BY <1>2, <2>2 DEF Booked, Created
  <2>4. jobs[n].payment.tx # req[r].payload
      BY <1>2, <2>3 DEF OnAfterSettle, ExecutedOnce
  <2> QED BY <2>2, <2>4 DEF Record
<1> QED BY <1>1, <1>2, BookingStep

\* A request becomes "executed" only by the network executing its payload for the
\* first time.
LEMMA ExecutedStep ==
    ASSUME IInv, [Next]_vars, NEW r \in Requests, req'[r].pc = "executed"
    PROVE  /\ req'[r].payload = req[r].payload
           /\ \/ req[r].pc = "executed" /\ ~OnAfterSettle(r)
              \/ LedgerExecutes(r)
<1> USE DEF IInv, TypeOK
<1>0. ASSUME OnAfterSettle(r) PROVE FALSE
  <2>1. req[r] \in Request
      BY <1>0, ActiveRequest DEF OnAfterSettle
  <2> QED BY <1>0, <2>1 DEF OnAfterSettle, Request
<1>1. CASE UNCHANGED req
    BY <1>1, <1>0
<1>2. CASE \E s \in Requests, k \in Payloads, q \in Quotes : Post(s, k, q)
  <2>1. PICK s \in Requests, k \in Payloads, q \in Quotes : Post(s, k, q)
      BY <1>2
  <2>2. s # r
      BY <2>1 DEF Post
  <2> QED BY <1>0, <2>1, <2>2 DEF Post
<1>3. ASSUME NEW s \in Requests, Serve(s), s # r
      PROVE  req'[r] = req[r]
    BY <1>3 DEF Serve, Resolve, VerifyFails, HandleExpired, Handle, LedgerExecutes,
                SettleFails, OnAfterSettle
<1>5. CASE Serve(r)
  <2>1. req[r] \in Request
      BY <1>5, ActiveRequest
      DEF Serve, Resolve, VerifyFails, HandleExpired, Handle, LedgerExecutes, SettleFails,
          OnAfterSettle
  <2>2. LedgerExecutes(r)
      BY <1>5, <2>1
      DEF Serve, Resolve, VerifyFails, HandleExpired, Handle, LedgerExecutes, SettleFails,
          OnAfterSettle, Request
  <2> QED BY <2>1, <2>2 DEF LedgerExecutes, Request
<1>6. CASE Restart
  <2>1. CASE req[r] = NoRequest
      BY <1>6, <2>1 DEF Restart, NoRequest
  <2>2. CASE req[r] \in Request
      BY <1>6, <2>2 DEF Restart, Request
  <2> QED BY <2>1, <2>2
<1> QED
    BY <1>1, <1>2, <1>3, <1>0, <1>5, <1>6
    DEF Next, vars, fleet, Register, GoOffline, MatchQuote, CreateQuote, Expire, Sign

\* One transfer never has two hooks waiting, and a waiting hook's transfer is on
\* no job.
LEMMA ExecutedOnceStep == ASSUME IInv, [Next]_vars PROVE ExecutedOnce'
<1> USE DEF IInv
<1> SUFFICES ASSUME NEW r \in Requests, req'[r].pc = "executed"
             PROVE  /\ req'[r].payload \in ledger'
                    /\ \A j \in Booked' : jobs'[j].payment.tx # req'[r].payload
                    /\ \A s \in Requests :
                         req'[s].pc = "executed" /\ req'[s].payload = req'[r].payload => s = r
    BY DEF ExecutedOnce
<1>0. Kept
    BY KeptStep
<1>1. CASE req[r].pc = "executed" /\ ~OnAfterSettle(r)
  <2>1. req'[r].payload = req[r].payload /\ req[r].payload \in ledger
      BY <1>1, ExecutedStep DEF ExecutedOnce
  <2>2. ASSUME NEW j \in Booked' PROVE jobs'[j].payment.tx # req[r].payload
    <3>1. CASE j \in Booked /\ jobs'[j].payment = jobs[j].payment
        BY <1>1, <3>1 DEF ExecutedOnce
    <3>2. ASSUME NEW s \in Requests, OnAfterSettle(s), j \in Unpaid(req[s].requirement.payTo),
                 jobs' = [jobs EXCEPT ![j].payment = Record(s)]
          PROVE  jobs'[j].payment.tx # req[r].payload
      <4>1. req[s].payload # req[r].payload
          BY <1>1, <3>2 DEF OnAfterSettle, ExecutedOnce
      <4>2. j \in Requests /\ jobs[j] \in Job
          BY <3>2 DEF Unpaid, Created, TypeOK
      <4>3. jobs'[j].payment = Record(s)
          BY <3>2, <4>2 DEF TypeOK, Job
      <4> QED BY <4>1, <4>3 DEF Record
    <3> QED BY <3>1, <3>2, BookingStep
  <2>3. ASSUME NEW s \in Requests, req'[s].pc = "executed", req'[s].payload = req'[r].payload
        PROVE  s = r
      BY <1>1, <2>1, <2>3, ExecutedStep DEF ExecutedOnce, LedgerExecutes
  <2> QED BY <1>0, <2>1, <2>2, <2>3 DEF Kept
<1>2. CASE LedgerExecutes(r)
  <2>1. /\ req'[r].payload = req[r].payload
        /\ req[r].payload \in ledger'
        /\ req[r].payload \notin ledger
      BY <1>2, ExecutedStep DEF LedgerExecutes
  <2>2. ASSUME NEW j \in Booked' PROVE jobs'[j].payment.tx # req[r].payload
      BY <1>2, <2>1 DEF LedgerExecutes, Booked, Created, BookedPaymentIsReal
  <2>3. ASSUME NEW s \in Requests, req'[s].pc = "executed", req'[s].payload = req'[r].payload
        PROVE  s = r
    <3>1. CASE req[s].pc = "executed"
        BY <2>1, <2>3, <3>1, ExecutedStep DEF ExecutedOnce
    <3>2. CASE LedgerExecutes(s) /\ s # r
        BY <1>2, <2>3, <3>2 DEF LedgerExecutes, TypeOK
    <3> QED BY <2>3, <3>1, <3>2, ExecutedStep
  <2> QED BY <2>1, <2>2, <2>3
<1> QED BY <1>1, <1>2, ExecutedStep

-----------------------------------------------------------------------------
\* The broker starts in the strengthened invariant.
LEMMA IInvInit == Init => IInv
<1> SUFFICES ASSUME Init PROVE IInv
    OBVIOUS
<1>1. Created = {} /\ \A r \in Requests : req[r] = NoRequest
    BY DEF Init, Created
<1>2. Booked = {}
    BY <1>1 DEF Booked
<1> QED
    BY <1>1, <1>2, TypeInit
    DEF IInv, RequestLinked, JobFromHandler, SettlementLinked, Settling, ExecutedOnce,
        BookedPaymentIsReal, BookedOnce, NoRequest, Init

\* Every step of the paid path keeps the strengthened invariant.
LEMMA IInvStep == IInv /\ [Next]_vars => IInv'
<1> SUFFICES ASSUME IInv, [Next]_vars PROVE IInv'
    OBVIOUS
<1> QED
    BY TypeStep, RequestLinkedStep, JobFromHandlerStep, SettlementLinkedStep, ExecutedOnceStep,
       BookedPaymentIsRealStep, BookedOnceStep
    DEF IInv

\* The strengthened invariant of the paid path (quotes, requests, jobs and the
\* ledger fit together) holds in every reachable state.
THEOREM PaidPathInvariant == Spec => []IInv
BY IInvInit, IInvStep, PTL DEF Spec

\* Every reachable state is well typed.
THEOREM TypeCorrect == Spec => []TypeOK
<1>1. IInv => TypeOK
    BY DEF IInv
<1> QED BY <1>1, PaidPathInvariant, PTL

\* onAfterSettle records only transfers the network executed, on a job of the
\* account they were signed for, however settlements interleave.
THEOREM PaymentsAreReal == Spec => []BookedPaymentIsReal
<1>1. IInv => BookedPaymentIsReal
    BY DEF IInv
<1> QED BY <1>1, PaidPathInvariant, PTL

\* No transfer is recorded on two jobs, even when its payload is replayed.
THEOREM NoDoubleBooking == Spec => []BookedOnce
<1>1. IInv => BookedOnce
    BY DEF IInv
<1> QED BY <1>1, PaidPathInvariant, PTL

\* A recorded payment is never replaced or dropped.
THEOREM PaymentsAreFinal == Spec => PaymentIsFinal
<1>1. ASSUME IInv, [Next]_vars, NEW j \in Booked
      PROVE  jobs'[j].payment = jobs[j].payment
  <2>1. jobs[j] # NoJob /\ j \in Requests
      BY <1>1 DEF Booked, Created
  <2>2. ASSUME NEW r \in Requests, Handle(r) PROVE jobs'[j] = jobs[j]
      BY <1>1, <2>1, <2>2 DEF IInv, JobFromHandler, Handle, TypeOK
  <2>3. ASSUME NEW r \in Requests, OnAfterSettle(r) PROVE jobs'[j] = jobs[j]
      BY <1>1, <2>1, <2>3
      DEF IInv, OnAfterSettle, Attach, IsNewest, Candidates, Unpaid, Booked, TypeOK
  <2> QED BY <1>1, <2>2, <2>3, JobStep
<1>2. IInv /\ [Next]_vars => [\A j \in Booked : jobs'[j].payment = jobs[j].payment]_vars
    BY <1>1
<1> QED BY <1>2, PaidPathInvariant, PTL DEF Spec, PaymentIsFinal

-----------------------------------------------------------------------------
\* The counting argument: settlements under way to an account never outnumber
\* its unpaid jobs, because the handler adds one of each and the hook takes one
\* of each.
LEMMA SetsAreFinite ==
    ASSUME NEW a PROVE IsFiniteSet(Owed(a)) /\ IsFiniteSet(Unpaid(a))
BY FS_Subset, LimitsAssumption DEF Owed, Settling, Unpaid, Created

\* Nothing is owed before the first settlement.
LEMMA OwedCoveredInit == Init => OwedCovered
<1> SUFFICES ASSUME Init, NEW a \in Accounts
             PROVE  Cardinality(Owed(a)) <= Cardinality(Unpaid(a))
    BY DEF OwedCovered
<1>1. Owed(a) = {} /\ Unpaid(a) = {}
    BY DEF Init, Owed, Settling, Unpaid, Created, NoRequest
<1> QED BY <1>1, FS_EmptySet

\* Which settlements are owed to an account: only the handler adds one, and the
\* hook takes its own away.
LEMMA OwedStep ==
    ASSUME IInv, [Next]_vars, NEW a \in Accounts, NEW r \in Requests, r \in Owed(a)'
    PROVE  \/ r \in Owed(a) /\ ~OnAfterSettle(r)
           \/ Handle(r) /\ quotes[req[r].quote].account = a
<1> USE DEF IInv
<1>1. req'[r].pc \in {"settling", "executed"} /\ req'[r].requirement.payTo = a
    BY DEF Owed, Settling
<1>2. ~OnAfterSettle(r)
  <2> SUFFICES ASSUME OnAfterSettle(r) PROVE FALSE
      OBVIOUS
  <2>1. req[r] \in Request
      BY ActiveRequest DEF OnAfterSettle
  <2> QED BY <1>1, <2>1 DEF OnAfterSettle, TypeOK, Request
<1>3. CASE Handle(r)
  <2>1. req[r] \in Request /\ Live(req[r].quote)
      BY <1>3, ActiveRequest DEF Handle
  <2>2. req'[r].requirement = req[r].requirement
      BY <1>3, <2>1 DEF Handle, TypeOK, Request
  <2>3. signed[req[r].payload] # NoRequirement /\ signed[req[r].payload] = req[r].requirement
      BY <1>3, <2>1, Shapes DEF Handle, RequestLinked
  <2>4. req[r].requirement = [payTo |-> quotes[req[r].quote].account,
                              amount |-> quotes[req[r].quote].price]
      BY <1>3, <2>1, <2>3, Shapes DEF Handle, RequestLinked
  <2> QED BY <1>1, <1>3, <2>2, <2>4
<1>4. CASE ~Handle(r)
  <2>1. r \in Settling
      BY <1>1, <1>4, SettlingStep
  <2>2. req[r] \in Request
      BY <2>1, ActiveRequest DEF Settling
  <2>3. ~Resolve(r) /\ \A k \in Payloads, q \in Quotes : ~Post(r, k, q)
      BY <2>1, <2>2, Shapes DEF Settling, Post, Resolve
  <2>4. req'[r].requirement = req[r].requirement
    <3>1. CASE req'[r] = req[r]
        BY <3>1
    <3>2. CASE \E pc \in {"settling", "executed", "done", "refused", "unsettled", "lost",
                          "aborted"} : req'[r] = [req[r] EXCEPT !.pc = pc]
        BY <2>2, <3>2 DEF Request
    <3> QED BY <2>3, <3>1, <3>2, RequestStep
  <2> QED BY <1>1, <1>2, <2>1, <2>4 DEF Owed
<1> QED BY <1>3, <1>4

\* No step leaves an account with more settlements under way than unpaid jobs: the
\* handler adds one of each, the hook takes one of each, the rest add no settlement.
LEMMA OwedCoveredStep ==
    ASSUME IInv, OwedCovered, [Next]_vars PROVE OwedCovered'
<1> USE DEF IInv
<1> SUFFICES ASSUME NEW a \in Accounts
             PROVE  Cardinality(Owed(a)') <= Cardinality(Unpaid(a)')
    BY DEF OwedCovered
<1>1. /\ IsFiniteSet(Owed(a)) /\ IsFiniteSet(Unpaid(a))
      /\ IsFiniteSet(Owed(a)') /\ IsFiniteSet(Unpaid(a)')
      /\ Cardinality(Owed(a)) \in Nat /\ Cardinality(Unpaid(a)) \in Nat
      /\ Cardinality(Owed(a)') \in Nat /\ Cardinality(Unpaid(a)') \in Nat
  <2>1. IsFiniteSet(Owed(a)') /\ IsFiniteSet(Unpaid(a)')
      BY FS_Subset, LimitsAssumption DEF Owed, Settling, Unpaid, Created
  <2> QED BY <2>1, SetsAreFinite, FS_CardinalityType
<1>2. Cardinality(Owed(a)) <= Cardinality(Unpaid(a))
    BY DEF OwedCovered
<1>3. CASE UNCHANGED jobs
  <2>1. Owed(a)' \subseteq Owed(a)
    <3>1. \A r \in Requests : ~Handle(r)
        BY <1>3 DEF Handle, JobFromHandler, TypeOK, NoJob
    <3> QED BY <3>1, OwedStep DEF Owed, Settling
  <2>2. Unpaid(a)' = Unpaid(a)
      BY <1>3 DEF Unpaid, Created
  <2>3. Cardinality(Owed(a)') <= Cardinality(Owed(a))
      BY <1>1, <2>1, FS_Subset
  <2> QED BY <1>1, <1>2, <2>2, <2>3
<1>4. ASSUME NEW r \in Requests, Handle(r)
      PROVE  Cardinality(Owed(a)') <= Cardinality(Unpaid(a)')
  <2> DEFINE mine == quotes[req[r].quote].account = a
  <2>1. jobs[r] = NoJob /\ jobs'[r] # NoJob
    <3>1. jobs[r] = NoJob
        BY <1>4 DEF Handle, JobFromHandler
    <3>2. jobs'[r].sequence = nextSequence
        BY <1>4 DEF Handle, TypeOK
    <3> QED BY <3>1, <3>2 DEF NoJob, TypeOK
  <2>2. /\ jobs'[r].account = quotes[req[r].quote].account
        /\ jobs'[r].payment = NoPayment
        /\ \A j \in Requests \ {r} : jobs'[j] = jobs[j]
      BY <1>4 DEF Handle, TypeOK
  <2>3. ASSUME NEW s \in Requests, s # r PROVE ~Handle(s)
      BY <1>4, <2>3, <2>1, <2>2 DEF Handle, TypeOK, Request, NoRequest
  <2>4. r \notin Unpaid(a)
      BY <2>1 DEF Unpaid, Created
  <2>5. CASE mine
    <3>1. Owed(a)' \subseteq Owed(a) \cup {r}
        BY <2>3, OwedStep DEF Owed, Settling
    <3>2. Unpaid(a)' = Unpaid(a) \cup {r}
        BY <2>1, <2>2, <2>5 DEF Unpaid, Created
    <3>3. Cardinality(Unpaid(a)') = Cardinality(Unpaid(a)) + 1
        BY <1>1, <2>4, <3>2, FS_AddElement
    <3>4. /\ IsFiniteSet(Owed(a) \cup {r})
          /\ Cardinality(Owed(a) \cup {r}) <= Cardinality(Owed(a)) + 1
      <4>1. r \notin Owed(a)
          BY <2>1 DEF SettlementLinked, Owed
      <4>2. Cardinality(Owed(a) \cup {r}) = Cardinality(Owed(a)) + 1
          BY <1>1, <4>1, FS_AddElement
      <4>3. IsFiniteSet(Owed(a) \cup {r})
          BY <1>1, FS_AddElement
      <4> QED BY <1>1, <4>2, <4>3
    <3>5. Cardinality(Owed(a)') <= Cardinality(Owed(a) \cup {r})
        BY <3>1, <3>4, FS_Subset
    <3>6. Cardinality(Owed(a) \cup {r}) \in Nat
        BY <3>4, FS_CardinalityType
    <3> QED BY <1>1, <1>2, <3>3, <3>4, <3>5, <3>6
  <2>6. CASE ~mine
    <3>1. Owed(a)' \subseteq Owed(a)
        BY <2>3, <2>6, OwedStep DEF Owed, Settling
    <3>2. Unpaid(a) = Unpaid(a)'
        BY <2>1, <2>2, <2>6 DEF Unpaid, Created
    <3>3. Cardinality(Owed(a)') <= Cardinality(Owed(a))
        BY <1>1, <3>1, FS_Subset
    <3> QED BY <1>1, <1>2, <3>2, <3>3
  <2> QED BY <2>5, <2>6
<1>5. ASSUME NEW r \in Requests, OnAfterSettle(r), ~UNCHANGED jobs
      PROVE  Cardinality(Owed(a)') <= Cardinality(Unpaid(a)')
  <2> DEFINE b == req[r].requirement.payTo
  <2>1. PICK j \in Requests : /\ j \in Unpaid(b)
                              /\ jobs' = [jobs EXCEPT ![j].payment = Record(r)]
      BY <1>5 DEF OnAfterSettle, Attach, IsNewest, Candidates
  <2>2. jobs[j] # NoJob /\ jobs[j] \in Job /\ jobs[j].account = b
      BY <2>1 DEF Unpaid, Created, TypeOK
  <2>3. /\ jobs'[j].account = b
        /\ \A i \in Requests \ {j} : jobs'[i] = jobs[i]
      BY <2>1, <2>2 DEF TypeOK, Job
  <2>4. \A s \in Requests : ~Handle(s)
    <3> SUFFICES ASSUME NEW s \in Requests, Handle(s) PROVE FALSE
        OBVIOUS
    <3>1. req[r] \in Request /\ req[s] \in Request /\ r # s
        BY <1>5, ActiveRequest DEF OnAfterSettle, Handle
    <3> QED BY <1>5, <3>1 DEF OnAfterSettle, Handle, TypeOK, Request
  <2>5. Owed(a)' \subseteq Owed(a) \ {r}
      BY <1>5, <2>4, OwedStep DEF Owed, Settling
  <2>6. CASE a = b
    <3>1. r \in Owed(a)
        BY <1>5, <2>6 DEF OnAfterSettle, Owed, Settling
    <3>2. Unpaid(a) \ {j} \subseteq Unpaid(a)'
        BY <2>3 DEF Unpaid, Created
    <3>3. /\ Cardinality(Owed(a) \ {r}) = Cardinality(Owed(a)) - 1
          /\ Cardinality(Unpaid(a) \ {j}) = Cardinality(Unpaid(a)) - 1
          /\ IsFiniteSet(Owed(a) \ {r})
        BY <1>1, <2>1, <2>6, <3>1, FS_RemoveElement
    <3>4. /\ Cardinality(Owed(a)') <= Cardinality(Owed(a) \ {r})
          /\ Cardinality(Unpaid(a) \ {j}) <= Cardinality(Unpaid(a)')
        BY <1>1, <2>5, <3>2, <3>3, FS_Subset
    <3> QED BY <1>1, <1>2, <3>3, <3>4
  <2>7. CASE a # b
    <3>1. Unpaid(a)' = Unpaid(a)
        BY <2>2, <2>3, <2>7, KeptStep DEF Unpaid, Created, Kept, JobKept
    <3>2. Cardinality(Owed(a)') <= Cardinality(Owed(a))
        BY <1>1, <2>5, FS_Subset
    <3> QED BY <1>1, <1>2, <3>1, <3>2
  <2> QED BY <2>6, <2>7
<1> QED BY <1>3, <1>4, <1>5, JobStep

\* Settlements under way never outnumber the unpaid jobs of their payee.
THEOREM SettlementsAreCovered == Spec => []OwedCovered
<1>1. IInv /\ OwedCovered /\ [Next]_vars => OwedCovered'
    BY OwedCoveredStep
<1> QED BY <1>1, OwedCoveredInit, PaidPathInvariant, PTL DEF Spec

\* With no more than ListLimit jobs, jobs.list returns all of them.
LEMMA ListedAll ==
    ASSUME TypeOK, Cardinality(Requests) <= ListLimit PROVE Listed = Created
<1> SUFFICES ASSUME NEW j \in Created
             PROVE  Cardinality({k \in Created : jobs[k].sequence > jobs[j].sequence}) < ListLimit
    BY DEF Listed
<1> DEFINE newer == {k \in Created : jobs[k].sequence > jobs[j].sequence}
<1>1. jobs[j] \in Job /\ j \in Requests
    BY DEF Created, TypeOK
<1>2. ~(jobs[j].sequence > jobs[j].sequence)
    BY <1>1 DEF Job
<1>3. newer \subseteq Requests \ {j}
    BY <1>2 DEF Created
<1>4. /\ IsFiniteSet(Requests \ {j})
      /\ Cardinality(Requests \ {j}) = Cardinality(Requests) - 1
    BY <1>1, LimitsAssumption, FS_RemoveElement
<1>5. Cardinality(newer) <= Cardinality(Requests) - 1
    BY <1>3, <1>4, FS_Subset
<1>6. Cardinality(newer) \in Nat /\ Cardinality(Requests) \in Nat
    BY <1>3, <1>4, FS_Subset, FS_CardinalityType, LimitsAssumption
<1> HIDE DEF newer
<1> QED BY <1>5, <1>6, LimitsAssumption DEF newer

\* onAfterSettle always finds a job for a transfer that went through, as long as
\* no more jobs exist than it lists.
THEOREM NoPaymentDropped == Spec => []SettlementFindsJob
<1>1. IInv /\ OwedCovered => SettlementFindsJob
  <2> SUFFICES ASSUME IInv, OwedCovered, Cardinality(Requests) <= ListLimit,
                      NEW r \in Requests, req[r].pc = "executed"
               PROVE  Candidates(req[r].requirement.payTo) # {}
      BY DEF SettlementFindsJob
  <2> DEFINE a == req[r].requirement.payTo
  <2>1. jobs[r] \in Job /\ a = jobs[r].account
    <3>1. /\ jobs[r] # NoJob
          /\ req[r].requirement = [payTo |-> jobs[r].account, amount |-> jobs[r].price]
        BY DEF IInv, SettlementLinked, Settling
    <3>2. jobs[r] \in Job
        BY <3>1 DEF IInv, TypeOK
    <3> QED BY <3>1, <3>2
  <2>2. a \in Accounts /\ r \in Owed(a)
      BY <2>1 DEF Job, Owed, Settling
  <2>3. /\ IsFiniteSet(Owed(a)) /\ IsFiniteSet(Unpaid(a))
        /\ Cardinality(Owed(a)) \in Nat /\ Cardinality(Unpaid(a)) \in Nat
      BY SetsAreFinite, FS_CardinalityType
  <2>4. Cardinality(Owed(a)) # 0
      BY <2>2, <2>3, FS_EmptySet
  <2>5. Cardinality(Owed(a)) <= Cardinality(Unpaid(a))
      BY <2>2 DEF OwedCovered
  <2>6. Unpaid(a) # {}
    <3>1. Cardinality(Unpaid(a)) # 0
        BY <2>3, <2>4, <2>5
    <3> QED BY <3>1, FS_EmptySet
  <2>7. Listed = Created
      BY ListedAll DEF IInv
  <2> QED BY <2>6, <2>7 DEF Candidates, Unpaid
<1> QED BY <1>1, PaidPathInvariant, SettlementsAreCovered, PTL

-----------------------------------------------------------------------------
(* The paid path implements Bookkeeping, for any number of providers,      *)
(* quotes, requests and transfers.                                         *)

\* A transfer is signed to an account or not at all: the wallet signs what a quote
\* that the guard accepts was frozen with.
SignedToSomeone == \A k \in Payloads : signed[k].payTo = None => signed[k] = NoRequirement

LEMMA SignedToSomeoneInit == Init => SignedToSomeone
BY DEF Init, SignedToSomeone

LEMMA SignedToSomeoneStep ==
    ASSUME IInv, SignedToSomeone, [Next]_vars PROVE SignedToSomeone'
<1>1. TypeOK
    BY DEF IInv
<1>2. ASSUME NEW k \in Payloads, NEW q \in Quotes, Sign(k, q) PROVE SignedToSomeone'
  <2>1. quotes[q] \in Quote /\ Live(q)
      BY <1>1, <1>2, LiveQuote DEF Sign, Payable
  <2>2. Resolved(q).payTo # None
      BY <2>1, NamesAssumption DEF Resolved, Quote
  <2> QED BY <1>1, <1>2, <2>2 DEF Sign, SignedToSomeone, TypeOK
<1>3. CASE signed' = signed
    BY <1>3 DEF SignedToSomeone
<1> QED
    BY <1>2, <1>3
    DEF Next, vars, fleet, Register, GoOffline, MatchQuote, CreateQuote, Expire, Post,
        Serve, Resolve, VerifyFails, HandleExpired, Handle, LedgerExecutes, SettleFails,
        OnAfterSettle, Restart

-----------------------------------------------------------------------------
\* The books as the refinement mapping sees them.
Owing == [j \in Requests |-> jobs[j].account]
Payees == [k \in Payloads |-> signed[k].payTo]
Entries == [j \in Requests |-> jobs[j].payment.tx]

\* Before anything happened the books are empty.
LEMMA BooksInit == Init => Books!Init
BY DEF Init, Books!Init, NoJob, NoPayment, NoRequirement

\* The handler of the paid route owes the new job to the account of its quote.
LEMMA HandleOwes ==
    ASSUME IInv, NEW r \in Requests, Handle(r) PROVE \E a \in Accounts : Books!Owe(r, a)
<1>1. TypeOK /\ JobFromHandler
    BY DEF IInv
<1>2. req[r] \in Request /\ Live(req[r].quote)
    BY <1>1, ActiveRequest DEF Handle
<1>3. quotes[req[r].quote] \in Quote
    BY <1>1, <1>2, LiveQuote DEF Request
<1> DEFINE payee == quotes[req[r].quote].account
<1>4. payee \in Accounts
    BY <1>3 DEF Quote
<1>5. jobs[r] = NoJob
    BY <1>1 DEF Handle, JobFromHandler
<1>6. PICK sent \in BOOLEAN :
        jobs' = [jobs EXCEPT ![r] =
                    [sequence |-> nextSequence, account |-> quotes[req[r].quote].account,
                     price |-> quotes[req[r].quote].price, sent |-> sent, payment |-> NoPayment]]
    BY DEF Handle
<1>7. /\ jobs'[r].account = payee /\ jobs'[r].payment = NoPayment
      /\ \A j \in Requests : j # r => jobs'[j] = jobs[j]
    BY <1>1, <1>6 DEF TypeOK
<1>8. Owing[r] = None /\ Owing' = [Owing EXCEPT ![r] = payee]
  <2> HIDE DEF payee
  <2>1. Owing[r] = None
      BY <1>5 DEF Owing, NoJob
  <2>2. Owing' = [j \in Requests |-> IF j = r THEN payee ELSE Owing[j]]
      BY <1>7 DEF Owing
  <2> QED BY <2>1, <2>2 DEF Owing
<1>9. Entries' = Entries
    BY <1>5, <1>7 DEF Entries, NoJob
<1>10. Payees' = Payees /\ ledger' = ledger
    BY DEF Handle, Payees
<1> HIDE DEF payee
<1>11. ASSUME NEW a \in Accounts, a = payee PROVE Books!Owe(r, a)
    BY <1>8, <1>9, <1>10, <1>11 DEF Books!Owe, Owing, Entries, Payees
<1> QED BY <1>4, <1>11

\* The network executes what somebody was signed to be paid.
LEMMA ExecutionIsExecute ==
    ASSUME IInv, SignedToSomeone, NEW r \in Requests, LedgerExecutes(r)
    PROVE  \E k \in Payloads : Books!Execute(k)
<1>1. TypeOK /\ RequestLinked
    BY DEF IInv
<1>2. req[r] \in Request
    BY <1>1, ActiveRequest DEF LedgerExecutes
<1> DEFINE k == req[r].payload
<1>3. k \in Payloads
    BY <1>2 DEF Request
<1>4. signed[k] # NoRequirement
    BY <1>1, <1>2, Shapes DEF RequestLinked
<1>5. Payees[k] # None
    BY <1>3, <1>4 DEF SignedToSomeone, Payees
<1>6. k \notin ledger /\ ledger' = ledger \cup {k} /\ jobs' = jobs /\ signed' = signed
    BY DEF LedgerExecutes
<1> HIDE DEF k
<1>7. Books!Execute(k)
    BY <1>5, <1>6 DEF Books!Execute, Payees
<1> QED BY <1>3, <1>7

\* onAfterSettle enters the transfer, which is in no book yet, at a job owed to its
\* payee, or returns early.
LEMMA AttachmentIsBook ==
    ASSUME IInv, NEW r \in Requests, OnAfterSettle(r)
    PROVE  \/ jobs' = jobs
           \/ \E j \in Requests, k \in Payloads : Books!Book(j, k)
<1>1. TypeOK /\ SettlementLinked /\ ExecutedOnce
    BY DEF IInv
<1>2. req[r] \in Request /\ r \in Settling
    BY <1>1, ActiveRequest DEF OnAfterSettle, Settling
<1> DEFINE transfer == req[r].payload
           payee == req[r].requirement.payTo
<1>3. transfer \in Payloads
    BY <1>2 DEF Request
<1>4. transfer \in ledger /\ \A i \in Booked : jobs[i].payment.tx # transfer
    BY <1>1 DEF OnAfterSettle, ExecutedOnce
<1>5. Payees[transfer] = payee
    BY <1>1, <1>2, <1>3 DEF SettlementLinked, Payees
<1>6. \A i \in Requests : jobs[i].payment = NoPayment \/ i \in Booked
    BY DEF Booked, Created, NoJob
<1>7. \A i \in Requests : Entries[i] # transfer
    BY <1>3, <1>4, <1>6, NamesAssumption DEF Entries, NoPayment
<1>8. ASSUME NEW j \in Requests, j \in Unpaid(payee),
             jobs' = [jobs EXCEPT ![j].payment = Record(r)]
      PROVE  \E k \in Payloads : Books!Book(j, k)
  <2>1. jobs[j].payment = NoPayment /\ jobs[j].account = payee /\ jobs[j] \in Job
      BY <1>1, <1>8 DEF Unpaid, Created, TypeOK
  <2>2. /\ jobs'[j] = [jobs[j] EXCEPT !.payment = Record(r)]
        /\ \A i \in Requests : i # j => jobs'[i] = jobs[i]
      BY <1>1, <1>8 DEF TypeOK
  <2>3. jobs'[j].account = jobs[j].account /\ jobs'[j].payment = Record(r)
      BY <2>1, <2>2 DEF Job
  <2>4. Record(r).tx = transfer
      BY DEF Record
  <2>5. Owing' = Owing
      BY <2>2, <2>3 DEF Owing
  <2>6. Entries[j] = None /\ Owing[j] = payee
      BY <2>1 DEF Entries, Owing, NoPayment
  <2>7. Entries' = [Entries EXCEPT ![j] = transfer]
      BY <2>2, <2>3, <2>4 DEF Entries
  <2>8. Payees' = Payees /\ ledger' = ledger
      BY DEF OnAfterSettle, Payees
  <2> HIDE DEF transfer, payee
  <2>9. ASSUME NEW k \in Payloads, k = transfer PROVE Books!Book(j, k)
      BY <1>4, <1>5, <1>7, <2>5, <2>6, <2>7, <2>8, <2>9
      DEF Books!Book, Owing, Entries, Payees
  <2> QED BY <1>3, <2>9
<1>9. \/ jobs' = jobs
      \/ \E j \in Requests : j \in Unpaid(payee) /\ jobs' = [jobs EXCEPT ![j].payment = Record(r)]
    BY DEF OnAfterSettle, Attach, IsNewest, Candidates
<1> HIDE DEF transfer, payee
<1> QED BY <1>3, <1>8, <1>9

-----------------------------------------------------------------------------
\* Every step of the paid path is a step of the books or leaves them alone.
LEMMA BooksStep ==
    ASSUME IInv, SignedToSomeone, [Next]_vars PROVE [Books!Next]_(Books!books)
<1>1. CASE jobs' = jobs /\ signed' = signed /\ ledger' = ledger
    BY <1>1 DEF Books!books
<1>2. ASSUME NEW k \in Payloads, NEW q \in Quotes, Sign(k, q) PROVE Books!Next
  <2>1. quotes[q] \in Quote /\ Live(q) /\ TypeOK
      BY <1>2, LiveQuote DEF Sign, Payable, IInv
  <2> DEFINE payee == Resolved(q).payTo
  <2>2. payee \in Accounts
      BY <2>1 DEF Resolved, Quote
  <2>3. Payees[k] = None
      BY <1>2 DEF Sign, Payees, NoRequirement
  <2>4. signed'[k] = Resolved(q) /\ \A i \in Payloads : i # k => signed'[i] = signed[i]
      BY <1>2, <2>1 DEF Sign, TypeOK
  <2>5. Payees' = [Payees EXCEPT ![k] = payee]
      BY <2>4 DEF Payees
  <2>6. jobs' = jobs /\ ledger' = ledger
      BY <1>2 DEF Sign
  <2> HIDE DEF payee
  <2>7. ASSUME NEW a \in Accounts, a = payee PROVE Books!Sign(k, a)
      BY <2>3, <2>5, <2>6, <2>7 DEF Books!Sign, Payees
  <2> QED BY <2>2, <2>7 DEF Books!Next
<1>3. ASSUME NEW r \in Requests, Handle(r) PROVE Books!Next
    BY <1>3, HandleOwes DEF Books!Next
<1>4. ASSUME NEW r \in Requests, LedgerExecutes(r) PROVE Books!Next
    BY <1>4, ExecutionIsExecute DEF Books!Next
<1>5. ASSUME NEW r \in Requests, OnAfterSettle(r)
      PROVE  Books!Next \/ (jobs' = jobs /\ signed' = signed /\ ledger' = ledger)
    BY <1>5, AttachmentIsBook DEF Books!Next, OnAfterSettle
<1>6. \/ jobs' = jobs /\ signed' = signed /\ ledger' = ledger
      \/ \E k \in Payloads, q \in Quotes : Sign(k, q)
      \/ \E r \in Requests : Handle(r) \/ LedgerExecutes(r) \/ OnAfterSettle(r)
    BY DEF Next, vars, fleet, Register, GoOffline, MatchQuote, CreateQuote, Expire, Post,
           Serve, Resolve, VerifyFails, HandleExpired, SettleFails, Restart
<1> QED BY <1>1, <1>2, <1>3, <1>4, <1>5, <1>6

\* Seen from the jobs and the ledger, the paid path does nothing but sign, owe,
\* execute, and enter each transfer once, at a job of its payee, for good.
THEOREM PaidPathKeepsBooks == Spec => ImplementsBookkeeping
<1>1. IInv /\ SignedToSomeone /\ [Next]_vars => SignedToSomeone'
    BY SignedToSomeoneStep
<1>2. Spec => []SignedToSomeone
    BY <1>1, SignedToSomeoneInit, PaidPathInvariant, PTL DEF Spec
<1>3. IInv /\ SignedToSomeone /\ [Next]_vars => [Books!Next]_(Books!books)
    BY BooksStep
<1> QED
    BY <1>2, <1>3, BooksInit, PaidPathInvariant, PTL DEF Spec, ImplementsBookkeeping, Books!Spec
=============================================================================
