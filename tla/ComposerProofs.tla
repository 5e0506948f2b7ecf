--------------------------- MODULE ComposerProofs ---------------------------
(***************************************************************************)
(* Proofs about Composer, for any inputs, any number of quote requests,    *)
(* payments and connectors, and calls of disconnect() under way.           *)
(***************************************************************************)
EXTENDS Composer, TLAPS

\* The payments that somebody still works on, and those that settled.
UnderWay(i) == pays[i].pc \in {"signing", "posted", "admitted"}
Settled(i) == pays[i].pc = "settled"

\* What is asked, and what is shown, is about the fields as they are.
AboutInput ==
    ~edited => /\ \A q \in Waiting : asked[q].input = input
               /\ shown # None => asked[shown].input = input

\* The tab does one thing at a time: it waits for one payment, or for quotes.
OneThing ==
    ~overlapped => /\ \A i \in Payments : pays[i].waiting => busy = "paying" /\ open
                   /\ \A i, k \in Payments : pays[i].waiting /\ pays[k].waiting => i = k
                   /\ \A q \in Waiting : busy = "quoting"
                   /\ \A q, r \in Waiting : q = r

\* The tab waits for every payment that is under way, and leaves the page with the
\* answer to one that settled; a call that is still being signed has no connection
\* to lose.
Awaited ==
    \A i \in Payments :
        /\ pays[i].pc = "signing" => pays[i].waiting
        /\ ~dropped => /\ UnderWay(i) => pays[i].waiting
                       /\ Settled(i) => pays[i].waiting \/ ~open

\* At most one payment of the tab has settled.
OneSettled ==
    \/ overlapped \/ dropped
    \/ \A i, k \in Payments : Settled(i) /\ Settled(k) => i = k

\* The wallet knows one connector at a time: the singleton is the only one that
\* holds a session, is shown, has its modal open or waits for its disconnect.
OneWallet ==
    /\ ~ready => /\ session = None /\ singleton = None /\ connecting = None
                 /\ live = {} /\ ~hurried
    /\ ~hurried =>
          /\ live \subseteq {singleton}
          /\ session \in {None, singleton}
          /\ connecting # None => session = None /\ connecting = singleton
          /\ \A c \in Connectors : leaving[c] > 0 => leaving[c] = 1 /\ session = c

\* A payment is of a quote.
OfQuote == \A i \in Payments : pays[i].pc # "none" => pays[i].quote \in Quotes

IInv == TypeOK /\ OfQuote /\ AboutInput /\ OneThing /\ Awaited /\ OneSettled /\ OneWallet

\* Where a payment stands.
Payment == [quote: Quotes \cup {None}, waiting: BOOLEAN, signer: Connectors \cup {Server, None},
            pc: {"none", "signing", "unsigned", "posted", "admitted", "settled", "refused"}]

-----------------------------------------------------------------------------
\* The tab opens empty, with no wallet.
LEMMA InitIInv == Init => IInv
<1> SUFFICES ASSUME Init PROVE IInv
    OBVIOUS
<1>1. TypeOK
  <2>1. NotAsked \in [input: Inputs, state: {"none", "waiting", "answered"}]
      BY InputsAssumption DEF NotAsked
  <2>2. NotPaid \in [quote: Quotes \cup {None}, waiting: BOOLEAN,
                    signer: Connectors \cup {Server, None},
                    pc: {"none", "signing", "unsigned", "posted", "admitted", "settled", "refused"}]
      BY DEF NotPaid
  <2>3. 0 \in 0..MaxDisconnects
      BY BoundAssumption
  <2> QED BY <2>1, <2>2, <2>3, InputsAssumption DEF Init, TypeOK
<1>2. OfQuote /\ OneThing /\ Awaited /\ OneSettled
    BY DEF Init, OfQuote, OneThing, Awaited, OneSettled, Waiting, NotAsked, NotPaid, UnderWay, Settled
<1>3. AboutInput /\ OneWallet
    BY NoneAssumption DEF Init, AboutInput, OneWallet, Waiting, NotAsked
<1> QED BY <1>1, <1>2, <1>3 DEF IInv

\* The composer's own handlers keep the invariant.
LEMMA ComposerStep ==
    ASSUME IInv, ComposerNext PROVE IInv'
<1>1. TypeOK /\ OfQuote /\ AboutInput /\ OneThing /\ Awaited /\ OneSettled /\ OneWallet
    BY DEF IInv
<1>2. UNCHANGED <<pays, sold, wallet, dropped>>
    BY DEF ComposerNext, Edit, Cancel, GetQuote, QuoteAnswered, history
<1>3. OneWallet' /\ OfQuote' /\ (UNCHANGED open => Awaited')
    BY <1>1, <1>2 DEF OneWallet, OfQuote, Awaited, UnderWay, Settled, wallet
<1>4. (overlapped => overlapped') => OneSettled'
    BY <1>1, <1>2 DEF OneSettled, Settled
<1>5. ASSUME NEW i \in Inputs, Edit(i) PROVE IInv'
  <2>1. TypeOK'
      BY <1>1, <1>5 DEF TypeOK, Edit, Reset, wallet
  <2>2. AboutInput' /\ OneThing'
      BY <1>1, <1>5 DEF AboutInput, OneThing, Edit, Reset, Waiting
  <2> QED BY <1>3, <1>4, <1>5, <2>1, <2>2 DEF IInv, Edit
<1>6. ASSUME Cancel PROVE IInv'
  <2>1. TypeOK'
      BY <1>1, <1>6 DEF TypeOK, Cancel, Reset, wallet, history
  <2>2. AboutInput' /\ OneThing'
      BY <1>1, <1>6 DEF AboutInput, OneThing, Cancel, Reset, Waiting, history
  <2> QED BY <1>3, <1>4, <1>6, <2>1, <2>2 DEF IInv, Cancel, history
<1>7. ASSUME NEW q \in Quotes, GetQuote(q) PROVE IInv'
  <2>1. TypeOK'
      BY <1>1, <1>7 DEF TypeOK, GetQuote, wallet
  <2>2. CASE input \in Unpriced
      BY <1>1, <1>3, <1>4, <1>7, <2>1, <2>2 DEF IInv, AboutInput, OneThing, GetQuote, Waiting
  <2>3. CASE input \notin Unpriced
    <3>1. /\ asked'[q] = [input |-> input, state |-> "waiting"]
          /\ \A r \in Quotes \ {q} : asked'[r] = asked[r]
          /\ busy' = "quoting" /\ shown' = None /\ (overlapped' <=> overlapped \/ busy # "no")
          /\ UNCHANGED <<input, edited, pays, open>>
        BY <1>1, <1>7, <2>3 DEF GetQuote, TypeOK
    <3>2. AboutInput'
        BY <1>1, <3>1 DEF AboutInput, Waiting
    <3>3. OneThing'
        BY <1>1, <3>1 DEF OneThing, Waiting
    <3> QED BY <1>3, <1>4, <2>1, <3>1, <3>2, <3>3 DEF IInv
  <2> QED BY <2>2, <2>3
<1>8. ASSUME NEW q \in Quotes, NEW ok \in BOOLEAN, QuoteAnswered(q, ok) PROVE IInv'
  <2>1. TypeOK'
      BY <1>1, <1>8 DEF TypeOK, QuoteAnswered, wallet, history
  <2>2. /\ asked'[q].state = "answered" /\ asked'[q].input = asked[q].input
        /\ \A r \in Quotes \ {q} : asked'[r] = asked[r]
        /\ busy' = "no" /\ shown' \in {q, shown} /\ q \in Waiting
        /\ UNCHANGED <<input, edited, overlapped, pays, open>>
      BY <1>1, <1>8 DEF QuoteAnswered, TypeOK, history
  <2>3. AboutInput'
    <3>1. shown \in Quotes \cup {None}
        BY <1>1 DEF TypeOK
    <3> QED BY <1>1, <2>2, <3>1, NoneAssumption DEF AboutInput, Waiting
  <2>4. OneThing'
    <3>1. Waiting' = Waiting \ {q}
        BY <2>2 DEF Waiting
    <3>2. ~overlapped => busy = "quoting" /\ Waiting' = {}
        BY <1>1, <2>2, <3>1 DEF OneThing
    <3> QED BY <1>1, <2>2, <3>2 DEF OneThing
  <2> QED BY <1>3, <1>4, <1>8, <2>1, <2>3, <2>4 DEF IInv, QuoteAnswered, history
<1> QED BY <1>5, <1>6, <1>7, <1>8 DEF ComposerNext

\* Changing one payment changes no other.
LEMMA OnlyThisPayment ==
    ASSUME TypeOK, NEW i \in Payments, NEW p \in Payment, pays' = [pays EXCEPT ![i] = p]
    PROVE  /\ pays' \in [Payments -> Payment] /\ pays'[i] = p
           /\ \A k \in Payments \ {i} : pays'[k] = pays[k]
BY DEF TypeOK, Payment

\* Payments keep the invariant, whoever signs them and however they end.
LEMMA PaymentStep ==
    ASSUME IInv, PaymentNext PROVE IInv'
<1>1. TypeOK /\ OfQuote /\ AboutInput /\ OneThing /\ Awaited /\ OneSettled /\ OneWallet
    BY DEF IInv
<1>2. PICK i \in Payments :
        \/ Pay(i) \/ Sign(i) \/ SignAsServer(i) \/ SignFails(i) \/ Arrive(i) \/ Answer(i) \/ Drop(i)
        \/ \E ok \in BOOLEAN : Settle(i, ok)
    BY DEF PaymentNext
<1>3. UNCHANGED <<input, shown, asked, wallet, edited, overlapped>>
    BY <1>2 DEF Pay, Sign, SignAsServer, SignFails, Arrive, Answer, Drop, Settle, tab, history
<1>4. AboutInput' /\ OneWallet' /\ Waiting' = Waiting
    BY <1>1, <1>3 DEF AboutInput, OneWallet, Waiting, wallet
<1>5. pays[i] \in Payment
    BY <1>1 DEF TypeOK, Payment
<1>6. ASSUME NEW p \in Payment, pays' = [pays EXCEPT ![i] = p], p.pc # "none" => p.quote \in Quotes,
             busy' \in {"no", "quoting", "paying"}, open' \in BOOLEAN, dropped' \in BOOLEAN,
             sold' = sold \/ (pays[i].pc = "admitted" /\ sold' = sold \cup {pays[i].quote})
      PROVE  TypeOK' /\ OfQuote'
  <2>1. /\ pays' \in [Payments -> Payment] /\ pays'[i] = p
        /\ \A k \in Payments \ {i} : pays'[k] = pays[k]
      BY <1>1, <1>6, OnlyThisPayment
  <2>2. sold' \subseteq Quotes
      BY <1>1, <1>6 DEF TypeOK, OfQuote
  <2> QED BY <1>1, <1>3, <1>6, <2>1, <2>2 DEF TypeOK, OfQuote, Payment, wallet
<1>7. ASSUME Pay(i) PROVE IInv'
  <2> DEFINE p == [quote |-> shown, pc |-> "signing", waiting |-> TRUE,
                   signer |-> IF session = None THEN Server ELSE session]
  <2>1. p \in Payment /\ p.waiting /\ p.pc = "signing" /\ p.quote \in Quotes
      BY <1>1, <1>7 DEF TypeOK, Payment, Pay, CanPay
  <2>2. pays' = [pays EXCEPT ![i] = p] /\ busy' = "paying" /\ busy = "no" /\ open
        /\ UNCHANGED <<open, sold, dropped>>
      BY <1>7 DEF Pay, CanPay, history
  <2> HIDE DEF p
  <2>3. pays'[i] = p /\ \A k \in Payments \ {i} : pays'[k] = pays[k]
      BY <1>1, <2>1, <2>2, OnlyThisPayment
  <2>4. TypeOK' /\ OfQuote'
    <3>1. busy' \in {"no", "quoting", "paying"} /\ open' \in BOOLEAN /\ dropped' \in BOOLEAN
        BY <1>1, <2>2 DEF TypeOK
    <3>2. sold' = sold \/ (pays[i].pc = "admitted" /\ sold' = sold \cup {pays[i].quote})
        BY <2>2
    <3>3. (p.pc # "none" => p.quote \in Quotes) /\ pays' = [pays EXCEPT ![i] = p]
        BY <2>1, <2>2
    <3> QED BY <1>6, <2>1, <3>1, <3>2, <3>3
  <2>5. OneThing'
    <3>1. ~overlapped => Waiting = {} /\ \A k \in Payments : ~pays[k].waiting
        BY <1>1, <2>2 DEF OneThing
    <3> QED BY <1>3, <1>4, <2>1, <2>2, <2>3, <3>1 DEF OneThing
  <2>6. Awaited' /\ OneSettled'
      BY <1>1, <1>3, <2>1, <2>2, <2>3 DEF Awaited, OneSettled, UnderWay, Settled
  <2> QED BY <1>4, <2>4, <2>5, <2>6 DEF IInv
\* The payment gets one step further, and the tab goes on waiting for it or not.
<1>8. ASSUME NEW pc \in {"posted", "admitted", "refused", "settled"},
             pays' = [pays EXCEPT ![i].pc = pc], UnderWay(i), UNCHANGED <<busy, open, dropped>>,
             sold' = sold \/ (pays[i].pc = "admitted" /\ sold' = sold \cup {pays[i].quote})
      PROVE  IInv'
  <2> DEFINE p == [pays[i] EXCEPT !.pc = pc]
  <2>1. p \in Payment /\ p.waiting = pays[i].waiting /\ p.pc = pc /\ p.quote = pays[i].quote
      BY <1>5, <1>8 DEF Payment
  <2>2. pays' = [pays EXCEPT ![i] = p]
      BY <1>5, <1>8
  <2> HIDE DEF p
  <2>3. pays'[i] = p /\ \A k \in Payments \ {i} : pays'[k] = pays[k]
      BY <1>1, <2>1, <2>2, OnlyThisPayment
  <2>4. TypeOK' /\ OfQuote'
      BY <1>1, <1>6, <1>8, <2>1, <2>2 DEF TypeOK, OfQuote, UnderWay
  <2>5. OneThing'
      BY <1>1, <1>3, <1>4, <1>8, <2>1, <2>3 DEF OneThing
  <2>6. Awaited'
      BY <1>1, <1>8, <2>1, <2>3 DEF Awaited, UnderWay, Settled
  <2>7. OneSettled'
    <3>1. overlapped \/ dropped \/ \A k \in Payments \ {i} : ~Settled(k)
        BY <1>1, <1>8 DEF OneThing, Awaited
    <3> QED BY <1>3, <1>8, <2>3, <3>1 DEF OneSettled, Settled
  <2> QED BY <1>4, <2>4, <2>5, <2>6, <2>7 DEF IInv
<1>9. ASSUME Sign(i) \/ SignAsServer(i) \/ Arrive(i) PROVE IInv'
  <2>1. PICK pc \in {"posted", "admitted", "refused"} : pays' = [pays EXCEPT ![i].pc = pc]
      BY <1>9 DEF Sign, SignAsServer, Arrive
  <2>2. UnderWay(i) /\ UNCHANGED <<busy, open, dropped>>
        /\ (sold' = sold \/ (pays[i].pc = "admitted" /\ sold' = sold \cup {pays[i].quote}))
      BY <1>9 DEF Sign, SignAsServer, Arrive, UnderWay, tab, history
  <2>3. pc \in {"posted", "admitted", "refused", "settled"}
      OBVIOUS
  <2> QED BY <1>8, <2>1, <2>2, <2>3
<1>10. ASSUME NEW ok \in BOOLEAN, Settle(i, ok) PROVE IInv'
  <2>1. PICK pc \in {"refused", "settled"} : pays' = [pays EXCEPT ![i].pc = pc]
      BY <1>10 DEF Settle
  <2>2. UnderWay(i) /\ pays[i].pc = "admitted" /\ sold' = sold \cup {pays[i].quote}
        /\ UNCHANGED <<busy, open, dropped>>
      BY <1>10 DEF Settle, UnderWay, tab, history
  <2> QED BY <1>8, <2>1, <2>2
\* The tab stops waiting: the button works again, or the page is left.
<1>11. ASSUME NEW pc \in {"unsigned", pays[i].pc},
              pays' = [pays EXCEPT ![i].pc = pc, ![i].waiting = FALSE],
              pays[i].waiting, pays[i].pc # "none", pays[i].pc = "signing" => pc = "unsigned",
              UNCHANGED sold,
              \/ busy' = "no" /\ UNCHANGED open
              \/ UNCHANGED busy /\ ~open',
              dropped' \in BOOLEAN, dropped => dropped',
              ~dropped' => ~UnderWay(i)' /\ (pc = "settled" => ~open')
       PROVE  IInv'
  <2> DEFINE p == [pays[i] EXCEPT !.pc = pc, !.waiting = FALSE]
  <2>1. p \in Payment /\ ~p.waiting /\ p.pc = pc /\ p.quote = pays[i].quote
      BY <1>5, <1>11 DEF Payment
  <2>2. pays' = [pays EXCEPT ![i] = p]
      BY <1>5, <1>11
  <2> HIDE DEF p
  <2>3. pays'[i] = p /\ \A k \in Payments \ {i} : pays'[k] = pays[k]
      BY <1>1, <2>1, <2>2, OnlyThisPayment
  <2>4. open' \in BOOLEAN /\ (open' => open)
      BY <1>1, <1>11 DEF TypeOK
  <2>5. TypeOK' /\ OfQuote'
    <3>1. busy' \in {"no", "quoting", "paying"}
        BY <1>1, <1>11 DEF TypeOK
    <3>2. p.pc # "none" => p.quote \in Quotes
      <4>1. pc # "none" => pays[i].pc # "none"
          BY <1>11
      <4> QED BY <1>1, <2>1, <4>1 DEF OfQuote
    <3>3. sold' = sold \/ (pays[i].pc = "admitted" /\ sold' = sold \cup {pays[i].quote})
        BY <1>11
    <3>4. dropped' \in BOOLEAN /\ open' \in BOOLEAN
        BY <1>11, <2>4
    <3> QED BY <1>6, <2>1, <2>2, <3>1, <3>2, <3>3, <3>4
  <2>6. OneThing'
    <3>1. ~overlapped => Waiting = {} /\ \A k \in Payments \ {i} : ~pays[k].waiting
        BY <1>1, <1>11 DEF OneThing
    <3> QED BY <1>3, <1>4, <2>1, <2>3, <3>1 DEF OneThing
  <2>7. Awaited'
      BY <1>1, <1>11, <2>1, <2>3, <2>4 DEF Awaited, UnderWay, Settled
  <2>8. OneSettled'
    <3>1. \A k \in Payments : Settled(k)' => Settled(k)
        BY <1>11, <2>1, <2>3 DEF Settled
    <3>2. overlapped' = overlapped
        BY <1>3
    <3> QED BY <1>1, <1>11, <3>1, <3>2 DEF OneSettled
  <2> QED BY <1>4, <2>5, <2>6, <2>7, <2>8 DEF IInv
<1>12. ASSUME SignFails(i) PROVE IInv'
  <2>1. pays' = [pays EXCEPT ![i].pc = "unsigned", ![i].waiting = FALSE] /\ pays[i].waiting
        /\ pays[i].pc # "none"
        /\ busy' = "no" /\ UNCHANGED open /\ sold' = sold /\ dropped' = dropped
      BY <1>1, <1>12 DEF SignFails, PayThrows, Awaited, history
  <2>2. dropped \in BOOLEAN
      BY <1>1 DEF TypeOK
  <2>3. ~UnderWay(i)'
      BY <1>1, <2>1 DEF UnderWay, TypeOK
  <2> QED BY <1>11, <2>1, <2>2, <2>3
<1>13. ASSUME Answer(i) \/ Drop(i) PROVE IInv'
  <2> DEFINE pc == pays[i].pc
  <2>1. pays[i].waiting /\ pc # "signing" /\ pc # "none" /\ sold' = sold
        /\ pays' = [pays EXCEPT ![i].waiting = FALSE]
      BY <1>13 DEF Answer, Drop
  <2>2. pays' = [pays EXCEPT ![i].pc = pc, ![i].waiting = FALSE]
      BY <1>1, <2>1 DEF TypeOK
  <2>3. \/ busy' = "no" /\ UNCHANGED open
        \/ UNCHANGED busy /\ ~open'
      BY <1>13 DEF Answer, Drop, PayThrows
  <2>4. dropped' \in BOOLEAN /\ (dropped => dropped')
    <3>1. dropped \in BOOLEAN
        BY <1>1 DEF TypeOK
    <3>2. dropped' = TRUE \/ dropped' = dropped
        BY <1>13 DEF Answer, Drop, history
    <3> QED BY <3>1, <3>2
  <2>5. ~dropped' => ~UnderWay(i)' /\ (pc = "settled" => ~open')
    <3>1. ~dropped' => Answer(i)
        BY <1>13 DEF Drop
    <3>2. pays'[i].pc = pc
        BY <1>1, <2>1 DEF TypeOK
    <3> QED BY <3>1, <3>2 DEF Answer, UnderWay
  <2> HIDE DEF pc
  <2> QED BY <1>11, <2>1, <2>2, <2>3, <2>4, <2>5 DEF pc
<1> QED BY <1>2, <1>7, <1>9, <1>10, <1>12, <1>13

-----------------------------------------------------------------------------
\* The wallet session keeps it: whoever connects, connects the singleton, and only
\* the disconnect of the session shown takes it away.
LEMMA WalletStep ==
    ASSUME IInv, WalletNext PROVE IInv'
<1>1. TypeOK /\ OfQuote /\ AboutInput /\ OneThing /\ Awaited /\ OneSettled /\ OneWallet
    BY DEF IInv
<1>2. UNCHANGED <<tab, pays, sold, history>>
    BY DEF WalletNext, Restore, Connect, DisconnectDone, Approve, Dismiss, Disconnect
<1>3. OfQuote' /\ AboutInput' /\ OneThing' /\ Awaited' /\ OneSettled'
    BY <1>1, <1>2 DEF OfQuote, AboutInput, OneThing, Awaited, OneSettled, Waiting, UnderWay, Settled,
       tab, history
<1>4. SUFFICES TypeOK' /\ OneWallet'
    BY <1>3 DEF IInv
<1>5. ASSUME NEW c \in Connectors, Restore(c) PROVE TypeOK' /\ OneWallet'
  <2>1. TypeOK'
      BY <1>1, <1>2, <1>5 DEF TypeOK, Restore, tab, history
  <2>2. OneWallet'
      BY <1>1, <1>5, NoneAssumption DEF OneWallet, Restore, TypeOK
  <2> QED BY <2>1, <2>2
<1>6. ASSUME NEW c \in Connectors, Connect(c) PROVE TypeOK' /\ OneWallet'
  <2>1. TypeOK'
      BY <1>1, <1>2, <1>6 DEF TypeOK, Connect, tab, history
  <2>2. OneWallet'
      BY <1>1, <1>6, NoneAssumption DEF OneWallet, Connect, CanConnect, TypeOK
  <2> QED BY <2>1, <2>2
<1>7. ASSUME Approve \/ Dismiss PROVE TypeOK' /\ OneWallet'
  <2>1. TypeOK'
      BY <1>1, <1>2, <1>7 DEF TypeOK, Approve, Dismiss, tab, history
  <2>2. OneWallet'
      BY <1>1, <1>7, NoneAssumption DEF OneWallet, Approve, Dismiss, TypeOK
  <2> QED BY <2>1, <2>2
<1>8. ASSUME Disconnect PROVE TypeOK' /\ OneWallet'
  <2>1. session \in Connectors /\ leaving[session] \in 0..MaxDisconnects
        /\ leaving[session] + 1 \in 0..MaxDisconnects
      BY <1>1, <1>8, BoundAssumption DEF TypeOK, Disconnect, CanDisconnect
  <2>2. leaving' \in [Connectors -> 0..MaxDisconnects] /\ leaving'[session] = leaving[session] + 1
        /\ \A c \in Connectors \ {session} : leaving'[c] = leaving[c]
      BY <1>1, <1>8, <2>1 DEF TypeOK, Disconnect
  <2>3. TypeOK'
      BY <1>1, <1>2, <1>8, <2>2 DEF TypeOK, Disconnect, tab, history
  <2>4. OneWallet'
    <3>1. leaving[session] \in Nat
        BY <2>1, BoundAssumption
    <3>2. UNCHANGED <<ready, session, singleton, connecting, live>>
          /\ (hurried' <=> hurried \/ leaving[session] > 0)
        BY <1>1, <1>8 DEF Disconnect, TypeOK
    <3>3. ~hurried' => ~hurried /\ leaving'[session] = 1
        BY <2>2, <3>1, <3>2
    <3>4. ~hurried' => \A c \in Connectors : leaving'[c] > 0 => leaving'[c] = 1 /\ session' = c
        BY <1>1, <2>2, <3>2, <3>3 DEF OneWallet
    <3>5. ready /\ ready'
        BY <1>1, <2>1, <3>2, NoneAssumption DEF OneWallet
    <3> QED BY <1>1, <3>2, <3>3, <3>4, <3>5 DEF OneWallet
  <2> QED BY <2>3, <2>4
<1>9. ASSUME NEW c \in Connectors, NEW ok \in BOOLEAN, DisconnectDone(c, ok)
      PROVE  TypeOK' /\ OneWallet'
  <2>1. leaving[c] - 1 \in 0..MaxDisconnects
      BY <1>1, <1>9, BoundAssumption DEF TypeOK, DisconnectDone
  <2>2. leaving' \in [Connectors -> 0..MaxDisconnects] /\ leaving'[c] = leaving[c] - 1
        /\ \A d \in Connectors \ {c} : leaving'[d] = leaving[d]
      BY <1>1, <1>9, <2>1 DEF TypeOK, DisconnectDone
  <2>3. TypeOK'
      BY <1>1, <1>2, <1>9, <2>2 DEF TypeOK, DisconnectDone, tab, history
  <2>4. OneWallet'
    <3>1. leaving[c] > 0 /\ session' = None /\ UNCHANGED <<ready, connecting, hurried>>
          /\ ((singleton' = None /\ live' = live \ {c}) \/ UNCHANGED <<singleton, live>>)
        BY <1>9 DEF DisconnectDone
    <3>2. ~hurried => session = c /\ connecting = None /\ leaving[c] = 1 /\ singleton = c
        BY <1>1, <3>1, NoneAssumption DEF OneWallet
    <3>3. ~hurried => \A d \in Connectors : ~(leaving'[d] > 0)
        BY <1>1, <2>2, <3>2 DEF OneWallet
    <3>4. ~hurried => live' \subseteq {singleton'}
        BY <1>1, <3>1, <3>2 DEF OneWallet
    <3>5. ~ready => FALSE
      <4>1. ~ready => ~hurried
          BY <1>1 DEF OneWallet
      <4> QED BY <1>1, <3>1, <3>2, <4>1, NoneAssumption DEF OneWallet
    <3> QED BY <1>1, <3>1, <3>2, <3>3, <3>4, <3>5, NoneAssumption DEF OneWallet
  <2> QED BY <2>3, <2>4
<1> QED BY <1>5, <1>6, <1>7, <1>8, <1>9 DEF WalletNext

-----------------------------------------------------------------------------
\* The invariant is inductive.
LEMMA StepIInv == IInv /\ [Next]_vars => IInv'
<1>1. CASE UNCHANGED vars
    BY <1>1 DEF vars, tab, wallet, history, IInv, TypeOK, OfQuote, AboutInput, OneThing, Awaited,
       OneSettled, OneWallet, Waiting, UnderWay, Settled
<1> QED BY <1>1, ComposerStep, PaymentStep, WalletStep DEF Next

\* Every reachable state of the tab is typed; the tab does one thing at a time, sees
\* the end of what it pays for, and knows one wallet.
THEOREM TabInvariant == Spec => []IInv
BY InitIInv, StepIInv, PTL DEF Spec

\* The quote on the page was made for what the fields hold, unless an input was edited
\* under a quote request (composer.tsx, getQuote).
THEOREM QuotesAreOfTheInput == Spec => []QuoteIsOfInput
<1>1. IInv => QuoteIsOfInput
    BY DEF IInv, AboutInput, QuoteIsOfInput
<1> QED BY <1>1, TabInvariant, PTL

\* No quote is paid twice, and a quote that can be cancelled has not been paid, but for
\* overlapped requests and dropped connections (composer.tsx, pay).
THEOREM QuotesArePaidOnce == Spec => []PaidOnce
<1>1. IInv => PaidOnce
    BY DEF IInv, OneSettled, Awaited, PaidOnce, Settled
<1> QED BY <1>1, TabInvariant, PTL

\* The account that signs is the one shown or the one just disconnected, unless the
\* buyer disconnects again under a disconnect (lib/wallet.tsx, pay).
THEOREM AccountShownSigns == Spec => SignedByAccountShown
<1>1. ASSUME IInv, [Next]_vars, NEW i \in Payments,
             pays[i].pc = "signing", pays'[i].pc = "posted", pays[i].signer # Server
      PROVE  hurried \/ session \in {None, pays[i].signer}
  <2>1. pays[i].signer \in live
    <3>1. pays \in [Payments -> Payment]
        BY <1>1 DEF IInv, TypeOK, Payment
    <3>2. pays' # pays
        BY <1>1
    <3>3. ComposerNext \/ WalletNext => UNCHANGED pays
        BY DEF ComposerNext, Edit, Cancel, GetQuote, QuoteAnswered,
           WalletNext, Restore, Connect, DisconnectDone, Approve, Dismiss, Disconnect
    <3>4. PaymentNext
        BY <1>1, <3>2, <3>3 DEF Next, vars
    <3>5. PICK k \in Payments :
            \/ Pay(k) \/ Sign(k) \/ SignAsServer(k) \/ SignFails(k) \/ Arrive(k) \/ Answer(k) \/ Drop(k)
            \/ \E ok \in BOOLEAN : Settle(k, ok)
        BY <3>4 DEF PaymentNext
    <3>6. CASE k # i
      <4>1. pays'[i] = pays[i]
          BY <3>1, <3>5, <3>6 DEF Pay, Sign, SignAsServer, SignFails, Arrive, Answer, Drop, Settle
      <4> QED BY <1>1, <4>1
    <3>7. CASE k = i
      <4>1. Sign(i) \/ Drop(i) \/ SignFails(i)
          BY <1>1, <3>5, <3>7 DEF Pay, SignAsServer, Arrive, Answer, Settle, NotPaid
      <4>2. ~Drop(i)
          BY <1>1 DEF Drop
      <4>3. SignFails(i) => pays'[i].pc = "unsigned"
          BY <3>1 DEF SignFails, Payment
      <4> QED BY <1>1, <4>1, <4>2, <4>3 DEF Sign
    <3> QED BY <3>6, <3>7
  <2> QED BY <1>1, <2>1 DEF IInv, OneWallet
<1>2. IInv /\ [Next]_vars =>
        [\A i \in Payments :
          /\ pays[i].pc = "signing" /\ pays'[i].pc = "posted"
          /\ pays[i].signer # Server
          => hurried \/ session \in {None, pays[i].signer}]_vars
    BY <1>1
<1> QED BY <1>2, TabInvariant, PTL DEF SignedByAccountShown, Spec
=============================================================================
