------------------------------ MODULE Composer ------------------------------
(***************************************************************************)
(* One browser tab of the web app: the composer that asks for a quote and  *)
(* pays it, the wallet session it may pay from, and what the broker does   *)
(* with the payments it posts.                                             *)
(*                                                                         *)
(* A React handler runs to its next await, so getQuote() and pay() are     *)
(* each an action that starts a call and actions for how it ends.  Nothing *)
(* cancels a call: its answer is applied to whatever the tab shows by then.*)
(* A payment is an object with two ends: the tab waits for it, the broker  *)
(* works on it, and a dropped connection parts the two.                    *)
(***************************************************************************)
EXTENDS Naturals, FiniteSets

CONSTANTS
    Inputs,         \* what the prompt, model and ceiling fields can hold
    Empty,          \* the input with a blank prompt
    Unpriced,       \* the inputs whose ceiling is not above zero
    Quotes,         \* quote requests, each answered by a quote of its own
    Payments,       \* clicks on Pay
    Connectors,     \* DAppConnector instances
    None,
    MaxDisconnects  \* bound: calls of disconnect() under way at once

ASSUME InputsAssumption == Empty \in Inputs /\ Unpriced \subseteq Inputs \ {Empty}
ASSUME NoneAssumption == None \notin Quotes \cup Connectors
ASSUME BoundAssumption == MaxDisconnects \in Nat

VARIABLES
    input, shown, busy, open,   \* Composer: fields, quote, busy, still mounted
    asked,          \* quote request -> its input, and whether it is under way
    pays,           \* payment -> quote, signer and how far it got
    sold,           \* the quotes the broker has sold
    session,        \* WalletProvider.session
    ready,          \* the restore attempt has settled
    connecting,     \* the connector whose modal is open
    singleton,      \* connectorPromise
    live,           \* connectors holding an approved session
    leaving,        \* connector -> calls of disconnect() waiting for it
    edited,         \* history: an input changed under a quote request
    overlapped,     \* history: a quote was requested while the tab was busy
    dropped,        \* history: the connection of a posted payment dropped
    hurried         \* history: disconnect() was called while one was waiting

tab == <<input, shown, busy, open, asked>>
wallet == <<session, ready, connecting, singleton, live, leaving, hurried>>
history == <<edited, overlapped, dropped>>
vars == <<tab, pays, sold, wallet, history>>

-----------------------------------------------------------------------------
NotAsked == [input |-> Empty, state |-> "none"]
NotPaid == [quote |-> None, signer |-> None, pc |-> "none", waiting |-> FALSE]
Server == "demo payer"      \* /api/pay signs with the deployment's account

TypeOK ==
    /\ input \in Inputs /\ shown \in Quotes \cup {None}
    /\ busy \in {"no", "quoting", "paying"}
    /\ {open, ready, edited, overlapped, dropped, hurried} \subseteq BOOLEAN
    /\ asked \in [Quotes -> [input: Inputs, state: {"none", "waiting", "answered"}]]
    /\ pays \in [Payments -> [quote: Quotes \cup {None}, waiting: BOOLEAN,
                              signer: Connectors \cup {Server, None},
                              pc: {"none", "signing", "unsigned", "posted", "admitted",
                                   "settled", "refused"}]]
    /\ sold \subseteq Quotes
    /\ {session, connecting, singleton} \subseteq Connectors \cup {None}
    /\ live \subseteq Connectors
    /\ leaving \in [Connectors -> 0..MaxDisconnects]

Init ==
    /\ input = Empty /\ shown = None /\ busy = "no" /\ open = TRUE
    /\ asked = [q \in Quotes |-> NotAsked]
    /\ pays = [i \in Payments |-> NotPaid]
    /\ sold = {}
    /\ session = None /\ ready = FALSE /\ connecting = None
    /\ singleton = None /\ live = {} /\ leaving = [c \in Connectors |-> 0]
    /\ edited = FALSE /\ overlapped = FALSE /\ dropped = FALSE /\ hurried = FALSE

-----------------------------------------------------------------------------
Waiting == {q \in Quotes : asked[q].state = "waiting"}

\* reset(): the quote goes (and the error text, which nothing reads); a call
\* under way does not.
Reset == shown' = None

\* Slip: a field that forgets to reset.
EditKeepingQuote(i) ==
    /\ open /\ i # input
    /\ input' = i
    /\ edited' = (edited \/ Waiting # {})
    /\ UNCHANGED <<shown, busy, open, asked, pays, sold, wallet, overlapped, dropped>>

\* The prompt, the model or the ceiling is edited; none of them is ever disabled.
Edit(i) ==
    /\ open /\ i # input
    /\ input' = i
    /\ Reset
    /\ edited' = (edited \/ Waiting # {})
    /\ UNCHANGED <<busy, open, asked, pays, sold, wallet, overlapped, dropped>>

\* "Cancel - nothing has been paid", enabled as long as a quote is shown.
Cancel ==
    /\ open /\ shown # None
    /\ Reset
    /\ UNCHANGED <<input, busy, open, asked, pays, sold, wallet, history>>

\* getQuote() up to its fetch. The button is disabled while the tab is busy,
\* the keyboard shortcut is not.
GetQuote(q) ==
    /\ open /\ input # Empty
    /\ asked[q] = NotAsked
    /\ shown' = None
    /\ IF input \in Unpriced
         THEN busy' = "no" /\ UNCHANGED asked
         ELSE /\ busy' = "quoting"
              /\ asked' = [asked EXCEPT ![q] = [input |-> input, state |-> "waiting"]]
    /\ overlapped' = (overlapped \/ busy # "no")
    /\ UNCHANGED <<input, open, pays, sold, wallet, edited, dropped>>

\* ... and after it, whatever the tab shows by now.
QuoteAnswered(q, ok) ==
    /\ open /\ q \in Waiting
    /\ asked' = [asked EXCEPT ![q].state = "answered"]
    /\ shown' = IF ok THEN q ELSE shown
    /\ busy' = "no"
    /\ UNCHANGED <<input, open, pays, sold, wallet, history>>

-----------------------------------------------------------------------------
\* The quote card and its Pay button; slip: a button that stays enabled.
CanPayAgain == open /\ shown # None
CanPay == open /\ shown # None /\ busy = "no"

\* pay(): from the wallet session of this very render, or through /api/pay.
Pay(i) ==
    /\ CanPay
    /\ pays[i] = NotPaid
    /\ busy' = "paying"
    /\ pays' = [pays EXCEPT ![i] =
                  [quote |-> shown, pc |-> "signing", waiting |-> TRUE,
                   signer |-> IF session = None THEN Server ELSE session]]
    /\ UNCHANGED <<input, shown, open, asked, sold, wallet, history>>

\* The catch of pay(): the error is shown and the buttons work again.
PayThrows == busy' = "no"

\* Slip: a session that signs after it was disconnected.
SignStale(i) ==
    /\ pays[i].pc = "signing"
    /\ pays' = [pays EXCEPT ![i].pc = "posted"]
    /\ UNCHANGED <<tab, sold, wallet, history>>

\* The x402 client answers the 402 with a signed transfer. A wallet signs only
\* in a session it still holds.
Sign(i) ==
    /\ pays[i].pc = "signing"
    /\ pays[i].signer \in live
    /\ pays' = [pays EXCEPT ![i].pc = "posted"]
    /\ UNCHANGED <<tab, sold, wallet, history>>

\* POST /api/pay: the route signs and pays with the deployment's own key.
SignAsServer(i) ==
    /\ pays[i].pc = "signing"
    /\ pays[i].signer = Server
    /\ pays' = [pays EXCEPT ![i].pc = "posted"]
    /\ UNCHANGED <<tab, sold, wallet, history>>

\* The buyer declines, the session is gone, or no demo payer is configured.
SignFails(i) ==
    /\ pays[i].pc = "signing"
    /\ pays' = [pays EXCEPT ![i].pc = "unsigned", ![i].waiting = FALSE]
    /\ PayThrows
    /\ UNCHANGED <<input, shown, open, asked, sold, wallet, history>>

\* The broker's quote guard, and the facilitator, which may refuse to verify the
\* payment and leaves the quote unsold.
Arrive(i) ==
    /\ pays[i].pc = "posted"
    /\ \E pc \in {"refused"} \cup (IF pays[i].quote \in sold THEN {} ELSE {"admitted"}) :
          pays' = [pays EXCEPT ![i].pc = pc]
    /\ UNCHANGED <<tab, sold, wallet, history>>

\* The broker's handler sells the quote, and the transfer settles or not.
Settle(i, ok) ==
    /\ pays[i].pc = "admitted"
    /\ sold' = sold \cup {pays[i].quote}
    /\ pays' = [pays EXCEPT ![i].pc = IF ok THEN "settled" ELSE "refused"]
    /\ UNCHANGED <<tab, wallet, history>>

\* The answer reaches the tab: router.push leaves the page, or pay() throws.
Answer(i) ==
    /\ pays[i].waiting /\ pays[i].pc \in {"settled", "refused"}
    /\ pays' = [pays EXCEPT ![i].waiting = FALSE]
    /\ IF pays[i].pc = "settled"
         THEN open' = FALSE /\ UNCHANGED busy
         ELSE PayThrows /\ UNCHANGED open
    /\ UNCHANGED <<input, shown, asked, sold, wallet, history>>

\* The connection drops while the broker works on: fetch rejects all the same.
Drop(i) ==
    /\ pays[i].waiting /\ pays[i].pc \in {"posted", "admitted", "settled", "refused"}
    /\ pays' = [pays EXCEPT ![i].waiting = FALSE]
    /\ PayThrows
    /\ dropped' = TRUE
    /\ UNCHANGED <<input, shown, open, asked, sold, wallet, edited, overlapped>>

-----------------------------------------------------------------------------
\* restoreWallet() on mount: the relay still holds a session, holds none, or
\* the connector cannot be initialised (and must not poison later attempts).
Restore(c) ==
    /\ ~ready
    /\ ready' = TRUE
    /\ \/ singleton' = c /\ live' = {c} /\ session' = c
       \/ singleton' = c /\ UNCHANGED <<live, session>>
       \/ UNCHANGED <<singleton, live, session>>
    /\ UNCHANGED <<tab, pays, sold, connecting, leaving, hurried, history>>

\* What the Connect component offers: nothing before the restore settled, the
\* account with its menu, or the button.
CanConnect == ready /\ session = None /\ connecting = None
CanDisconnect == session # None /\ leaving[session] < MaxDisconnects

\* connect(): getConnector() returns the singleton or builds it, and opens the
\* modal.
Connect(c) ==
    /\ CanConnect
    /\ IF singleton = None THEN c \notin live ELSE c = singleton
    /\ singleton' = c /\ connecting' = c
    /\ UNCHANGED <<tab, pays, sold, session, ready, live, leaving, hurried, history>>

\* The buyer approves a session in the wallet, or closes the modal.
Approve ==
    /\ connecting # None
    /\ live' = live \cup {connecting}
    /\ session' = connecting
    /\ connecting' = None
    /\ UNCHANGED <<tab, pays, sold, ready, singleton, leaving, hurried, history>>
Dismiss ==
    /\ connecting # None
    /\ connecting' = None
    /\ UNCHANGED <<tab, pays, sold, session, ready, singleton, live, leaving, hurried, history>>

\* disconnect() up to disconnectAll(): the account stays shown, and so does the
\* menu with the button.
Disconnect ==
    /\ CanDisconnect
    /\ leaving' = [leaving EXCEPT ![session] = @ + 1]
    /\ hurried' = (hurried \/ leaving[session] > 0)
    /\ UNCHANGED <<tab, pays, sold, session, ready, connecting, singleton, live, history>>

\* ... and after it. The closure drops whatever connectorPromise is by then.
DisconnectDone(c, ok) ==
    /\ leaving[c] > 0
    /\ leaving' = [leaving EXCEPT ![c] = @ - 1]
    /\ session' = None
    /\ IF ok THEN singleton' = None /\ live' = live \ {c}
             ELSE UNCHANGED <<singleton, live>>
    /\ UNCHANGED <<tab, pays, sold, ready, connecting, hurried, history>>

-----------------------------------------------------------------------------
ComposerNext ==
    \/ \E i \in Inputs : Edit(i)
    \/ Cancel
    \/ \E q \in Quotes : GetQuote(q) \/ \E ok \in BOOLEAN : QuoteAnswered(q, ok)
PaymentNext ==
    \E i \in Payments :
        \/ Pay(i) \/ Sign(i) \/ SignAsServer(i) \/ SignFails(i)
        \/ Arrive(i) \/ Answer(i) \/ Drop(i)
        \/ \E ok \in BOOLEAN : Settle(i, ok)
WalletNext ==
    \/ \E c \in Connectors :
          Restore(c) \/ Connect(c) \/ \E ok \in BOOLEAN : DisconnectDone(c, ok)
    \/ Approve \/ Dismiss \/ Disconnect

Next == ComposerNext \/ PaymentNext \/ WalletNext
Spec == Init /\ [][Next]_vars

-----------------------------------------------------------------------------
\* The quote on the page was made for what the fields hold: who runs "this"
\* prompt, under "this" ceiling. An edit while a quote request is under way
\* escapes, since its answer is shown all the same (composer.tsx:93).
QuoteIsOfInput == (shown # None /\ ~edited) => asked[shown].input = input

\* No quote is paid twice, whatever the tab and the broker do meanwhile, with
\* two exceptions the code allows: the shortcut that asks for a quote while the
\* tab is busy (its failing answer enables Pay under a payment that is still
\* under way), and a dropped connection whose payment the broker goes on with.
\* And "Cancel - nothing has been paid" is true of the quote it stands under, once
\* no payment is under way and no connection dropped.
PaidOnce ==
    /\ TypeOK
    /\ \A i, k \in Payments :
           /\ i # k /\ pays[i].pc = "settled" /\ pays[k].pc = "settled"
           /\ pays[i].quote = pays[k].quote
           => overlapped \/ dropped
    /\ (open /\ shown # None /\ ~dropped) =>
           \A i \in Payments : pays[i].quote = shown /\ pays[i].pc = "settled" => pays[i].waiting

\* The words of the button, taken at face value: the quote it stands under has
\* not been paid (composer.tsx:316).
ShownMeansUnpaid ==
    (open /\ shown # None) =>
        \A i \in Payments : pays[i].quote = shown => pays[i].pc # "settled"

\* The account that signs is the account shown, or the one just disconnected;
\* never another one the buyer switched to meanwhile.
SignedByAccountShown ==
    [][\A i \in Payments :
          /\ pays[i].pc = "signing" /\ pays'[i].pc = "posted"
          /\ pays[i].signer # Server
          => hurried \/ session \in {None, pays[i].signer}]_vars
=============================================================================
