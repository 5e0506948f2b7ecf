------------------------ MODULE ControlChannelProofs ------------------------
(***************************************************************************)
(* The hub holds exactly the open socket of a provider, for any number of  *)
(* sockets, heartbeats and troubles.                                       *)
(***************************************************************************)
EXTENDS ControlChannel, WellFoundedInduction, TLAPS

\* A non-empty set of naturals has its minimum in it: the slot that is taken for a
\* new socket or heartbeat is a free one.
Below == {p \in Nat \X Nat : p[1] < p[2]}
\* The order of the naturals is well founded.
LEMMA BelowWellFounded == IsWellFoundedOn(Below, Nat)
BY NatLessThanWellFounded DEF OpToRel, Below
\* Every non-empty set of naturals has a least element.
LEMMA MinOfNats ==
    ASSUME NEW S \in SUBSET Nat, S # {} PROVE Min(S) \in S
<1>1. PICK x \in S : \A y \in S : ~ (<<y, x>> \in Below)
    BY BelowWellFounded, WFMin
<1>2. ASSUME NEW y \in S PROVE x <= y
  <2>1. x \in Nat /\ y \in Nat
      OBVIOUS
  <2>2. y < x => <<y, x>> \in Below
      BY <2>1 DEF Below
  <2> QED BY <1>1, <2>1, <2>2
<1> QED BY <1>2 DEF Min

\* A record that is gone was paid for by a trouble, so the tokens suffice; and a
\* heartbeat that was sent carries a token.
TokensSuffice == issued <= troubles + 1 /\ (record = 0 => issued <= troubles)
BeatsCarryTokens == \A b \in Beats : beats[b].pc # "idle" => beats[b].token \in Tokens

IInv == HoldsWhatIsOpen /\ TokensSuffice /\ BeatsCarryTokens

-----------------------------------------------------------------------------
\* The bounds are naturals, and the records of the two pools are told apart by number.
LEMMA Numbers ==
    /\ MaxSockets \in Nat \ {0} /\ MaxBeats \in Nat /\ MaxTroubles \in Nat
    /\ 1 \in Sockets /\ 1 \in Tokens /\ None \notin Sockets /\ 0 \notin Tokens
    /\ Sockets \subseteq Nat /\ Beats \subseteq Nat
BY BoundsAssumption DEF Sockets, Tokens, Beats, None

\* One connection, as TypeOK describes it.
Socket == [url: Urls, broken: BOOLEAN, told: SUBSET Ends,
           node: {"none", "dialing", "open", "closing", "closed"},
           hub: {"none", "open", "closing", "closed"}]

\* A slot that holds no connection is a socket record.
LEMMA UnusedIsASocket == Unused \in Socket
BY Numbers DEF Unused, Socket, Urls

\* The channel starts with no socket, no heartbeat and every trouble still to come.
LEMMA InvInit == Init => IInv
<1> SUFFICES ASSUME Init PROVE IInv
    OBVIOUS
<1> USE Numbers DEF Init
<1>1. TypeOK
  <2>1. controlChannelUrl(1) \in Urls
      BY DEF controlChannelUrl, Urls
  <2>2. socket \in [Sockets -> Socket]
      BY <2>1, UnusedIsASocket DEF Unused, Socket
  <2>3. held \in [Tokens -> Sockets \cup {None}]
      OBVIOUS
  <2>4. beats \in [Beats -> [pc: {"idle", "sent", "registered"}, token: {0} \cup Tokens]]
      BY DEF Idle
  <2>5. ws \in Sockets /\ token \in Tokens /\ issued \in Tokens /\ record \in Tokens
      OBVIOUS
  <2>6. timers \in [Urls -> Nat] /\ troubles \in 0..MaxTroubles
      OBVIOUS
  <2> QED BY <2>2, <2>3, <2>4, <2>5, <2>6 DEF TypeOK, Socket
<1>2. \A s \in Sockets : socket[s].hub = "none"
    BY DEF Unused
<1> QED BY <1>1, <1>2 DEF IInv, HoldsWhatIsOpen, TokensSuffice, BeatsCarryTokens, Idle

-----------------------------------------------------------------------------
\* A socket that both ends have left goes back to its slot; one that is open at the
\* hub is not touched.
LEMMA LeftIsASocket ==
    ASSUME NEW x \in Socket
    PROVE  Left(x) \in Socket /\ (Left(x).hub = "open" => Left(x) = x)
BY UnusedIsASocket DEF Left, Over, Unused

\* A new socket goes into a free slot and is not open at the hub.
LEMMA ConnectsLemma ==
    ASSUME NEW url \in Urls, NEW sockets \in [Sockets -> Socket], Connects(url, sockets)
    PROVE  /\ ws' \in Sockets /\ socket' \in [Sockets -> Socket]
           /\ \A s \in Sockets : socket'[s].hub = "open" => socket'[s] = sockets[s]
<1> DEFINE free == {s \in Sockets : sockets[s] = Unused}
<1>1. Min(free) \in free
    BY MinOfNats, Numbers DEF Connects
<1>2. /\ ws' = Min(free)
      /\ socket' = [sockets EXCEPT ![Min(free)] = [Unused EXCEPT !.url = url, !.node = "dialing"]]
    BY DEF Connects
<1>3. [Unused EXCEPT !.url = url, !.node = "dialing"] \in Socket
    BY UnusedIsASocket DEF Unused, Socket
<1>4. [Unused EXCEPT !.url = url, !.node = "dialing"].hub = "none"
    BY DEF Unused
<1> HIDE DEF free
<1>5. Min(free) \in Sockets
    BY <1>1 DEF free
<1> QED BY <1>2, <1>3, <1>4, <1>5

-----------------------------------------------------------------------------
\* Two facts about a step suffice for the sockets: where the hub had one open it has
\* it still as the held one, and no socket was opened but by Attach.
LEMMA HeldStays ==
    ASSUME HoldsWhatIsOpen, held' = held, socket' \in [Sockets -> Socket],
           \A s \in Sockets : socket'[s].hub = "open" =>
               socket[s].hub = "open" /\ socket'[s].url = socket[s].url
    PROVE  \A s \in Sockets : socket'[s].hub = "open" => held'[socket'[s].url.token] = s
BY DEF HoldsWhatIsOpen

\* A step that leaves the sockets alone.
LEMMA SocketsAlone ==
    ASSUME IInv, UNCHANGED <<held, socket, ws>>, TypeOK', TokensSuffice', BeatsCarryTokens'
    PROVE  IInv'
BY DEF IInv, HoldsWhatIsOpen, TypeOK

\* What happens to the sockets (a handshake accepted or refused, an open or a close
\* noticed by either end) keeps the invariant.
LEMMA ChannelStep ==
    ASSUME IInv, NEW s \in Sockets,
           Upgrade(s) \/ Refused(s) \/ NodeOpens(s) \/ HubCloses(s) \/ NodeCloses(s)
    PROVE  IInv'
<1> USE Numbers
<1>1. TypeOK /\ TokensSuffice /\ BeatsCarryTokens
    BY DEF IInv, HoldsWhatIsOpen
<1>2. socket \in [Sockets -> Socket] /\ socket[s].url \in Urls
    BY <1>1 DEF TypeOK, Socket
<1>3. UNCHANGED <<record, issued, ws, token, stopped, beats, troubles, doubled>>
    BY DEF Upgrade, Refused, NodeOpens, HubCloses, NodeCloses, broker
<1>4. timers' \in [Urls -> Nat]
    BY <1>1, <1>2 DEF TypeOK, Upgrade, Refused, NodeOpens, HubCloses, NodeCloses, DialsAgain
<1>5. TokensSuffice' /\ BeatsCarryTokens'
    BY <1>1, <1>3 DEF TokensSuffice, BeatsCarryTokens
<1> DEFINE Held == /\ held' \in [Tokens -> Sockets \cup {None}]
                   /\ socket' \in [Sockets -> Socket]
                   /\ \A x \in Sockets : socket'[x].hub = "open" => held'[socket'[x].url.token] = x
<1>6. ASSUME Upgrade(s) PROVE Held
  <2>1. socket[s].url.token \in Tokens
      BY <1>2 DEF Urls
  <2>2. /\ held' = [held EXCEPT ![socket[s].url.token] = s]
        /\ socket' = [x \in Sockets |->
               IF x = s THEN [socket[x] EXCEPT !.hub = "open"]
               ELSE IF x = held[socket[s].url.token] /\ socket[x].hub = "open"
                      THEN [socket[x] EXCEPT !.hub = "closing"] ELSE socket[x]]
      BY <1>6 DEF Upgrade, Attach
  <2>3. held' \in [Tokens -> Sockets \cup {None}] /\ socket' \in [Sockets -> Socket]
      BY <1>1, <1>2, <2>1, <2>2 DEF TypeOK, Socket
  <2>4. ASSUME NEW x \in Sockets, socket'[x].hub = "open"
        PROVE  held'[socket'[x].url.token] = x
    <3>1. CASE x = s
        BY <1>1, <1>2, <2>1, <2>2, <3>1 DEF TypeOK, Socket
    <3>2. CASE x # s
      <4>1. socket[x] \in Socket /\ x # held[socket[s].url.token] /\ socket'[x] = socket[x]
          BY <1>2, <2>2, <2>4, <3>2 DEF Socket
      <4>2. held[socket[x].url.token] = x
          BY <2>4, <4>1 DEF IInv, HoldsWhatIsOpen
      <4> QED BY <1>1, <2>1, <2>2, <4>1, <4>2 DEF TypeOK
    <3> QED BY <3>1, <3>2
  <2> QED BY <2>3, <2>4
<1>7. ASSUME Refused(s) \/ NodeOpens(s) \/ NodeCloses(s) PROVE Held
  <2>1. held' = held
      BY <1>7 DEF Refused, NodeOpens, NodeCloses, broker
  <2>2. PICK y \in Socket : socket' = [socket EXCEPT ![s] = y]
                             /\ (y.hub = "open" => socket[s].hub = "open" /\ y.url = socket[s].url)
    <3>1. CASE Refused(s)
        BY <3>1, UnusedIsASocket DEF Refused, Unused
    <3>2. CASE NodeOpens(s)
      <4> DEFINE opened == [socket[s] EXCEPT !.node = "open"]
      <4>1. opened \in Socket /\ opened.hub = socket[s].hub /\ opened.url = socket[s].url
          BY <1>2 DEF Socket
      <4> QED BY <3>2, <4>1 DEF NodeOpens
    <3>3. CASE NodeCloses(s)
      <4> DEFINE closed == [socket[s] EXCEPT !.node = "closed"]
      <4>1. closed \in Socket
          BY <1>2 DEF Socket
      <4>2. Left(closed) \in Socket /\ (Left(closed).hub = "open" => Left(closed) = closed)
          BY <4>1, LeftIsASocket
      <4>3. socket' = [socket EXCEPT ![s] = Left(closed)]
          BY <3>3 DEF NodeCloses
      <4>4. closed.hub = socket[s].hub /\ closed.url = socket[s].url
          BY <1>2 DEF Socket
      <4> QED BY <4>2, <4>3, <4>4
    <3> QED BY <1>7, <3>1, <3>2, <3>3
  <2>3. socket' \in [Sockets -> Socket]
      BY <1>2, <2>2
  <2>4. \A x \in Sockets : socket'[x].hub = "open" =>
            socket[x].hub = "open" /\ socket'[x].url = socket[x].url
      BY <1>2, <2>2
  <2> QED BY <1>1, <2>1, <2>3, <2>4, HeldStays DEF IInv, TypeOK
<1>8. ASSUME HubCloses(s) PROVE Held
  <2> DEFINE closed == [socket[s] EXCEPT !.hub = "closed"]
  <2>1. closed \in Socket /\ closed.hub = "closed"
      BY <1>2 DEF Socket
  <2>2. Left(closed) \in Socket /\ Left(closed).hub # "open"
      BY <2>1, LeftIsASocket
  <2>3. /\ socket' = [socket EXCEPT ![s] = Left(closed)]
        /\ held' = [t \in Tokens |-> IF held[t] = s THEN None ELSE held[t]]
      BY <1>8 DEF HubCloses
  <2>4. held' \in [Tokens -> Sockets \cup {None}] /\ socket' \in [Sockets -> Socket]
      BY <1>1, <1>2, <2>2, <2>3 DEF TypeOK
  <2>5. ASSUME NEW x \in Sockets, socket'[x].hub = "open"
        PROVE  held'[socket'[x].url.token] = x
    <3>1. x # s /\ socket'[x] = socket[x] /\ socket[x] \in Socket
        BY <1>2, <2>2, <2>3, <2>5
    <3>2. held[socket[x].url.token] = x /\ socket[x].url.token \in Tokens
        BY <2>5, <3>1 DEF IInv, HoldsWhatIsOpen, Socket, Urls
    <3> QED BY <2>3, <3>1, <3>2
  <2> QED BY <2>4, <2>5
<1>9. Held
    BY <1>6, <1>7, <1>8
<1> QED BY <1>1, <1>3, <1>4, <1>5, <1>9 DEF IInv, HoldsWhatIsOpen, TypeOK, Socket

\* What the node does (its heartbeat and its answers, the reconnect timers) keeps it.
LEMMA NodeStep ==
    ASSUME IInv, Node PROVE IInv'
<1> USE Numbers
<1>1. TypeOK /\ TokensSuffice /\ BeatsCarryTokens
    BY DEF IInv, HoldsWhatIsOpen
<1>2. socket \in [Sockets -> Socket]
    BY <1>1 DEF TypeOK, Socket
<1>3. CASE Heartbeat
  <2> DEFINE idle == {b \in Beats : beats[b] = Idle}
  <2>1. Min(idle) \in idle
      BY <1>3, MinOfNats DEF Heartbeat
  <2>2. beats' = [beats EXCEPT ![Min(idle)] = [pc |-> "sent", token |-> token]]
      BY <1>3 DEF Heartbeat
  <2>3. UNCHANGED <<broker, socket, ws, token, stopped, timers, troubles, doubled>>
      BY <1>3 DEF Heartbeat
  <2>4. Min(idle) \in Beats
      BY <2>1
  <2> HIDE DEF idle
  <2>5. TypeOK' /\ TokensSuffice' /\ BeatsCarryTokens'
      BY <1>1, <2>2, <2>3, <2>4 DEF TypeOK, TokensSuffice, BeatsCarryTokens, broker
  <2> QED BY <2>3, <2>5, SocketsAlone DEF broker
<1>4. ASSUME NEW u \in Urls, TimerFires(u) PROVE IInv'
  <2>1. timers' \in [Urls -> Nat]
      BY <1>1, <1>4 DEF TimerFires, TypeOK
  <2>2. UNCHANGED <<broker, token, stopped, beats, troubles, doubled>>
      BY <1>4 DEF TimerFires
  <2>3. /\ ws' \in Sockets /\ socket' \in [Sockets -> Socket]
        /\ \A s \in Sockets : socket'[s].hub = "open" => socket'[s] = socket[s]
    <3>1. CASE stopped
        BY <1>1, <1>2, <1>4, <3>1 DEF TimerFires, TypeOK
    <3>2. CASE ~stopped
        BY <1>2, <1>4, <3>2, ConnectsLemma DEF TimerFires
    <3> QED BY <3>1, <3>2
  <2>4. TypeOK' /\ TokensSuffice' /\ BeatsCarryTokens'
      BY <1>1, <2>1, <2>2, <2>3 DEF TypeOK, Socket, TokensSuffice, BeatsCarryTokens, broker
  <2> QED BY <2>2, <2>3, <2>4, HeldStays DEF IInv, HoldsWhatIsOpen, broker
<1>5. ASSUME NEW b \in Beats, Known(b) PROVE IInv'
  <2>1. beats' = [beats EXCEPT ![b] = Idle]
        /\ UNCHANGED <<broker, socket, ws, token, stopped, timers, troubles, doubled>>
      BY <1>5 DEF Known
  <2>2. TypeOK' /\ TokensSuffice' /\ BeatsCarryTokens'
      BY <1>1, <2>1 DEF TypeOK, TokensSuffice, BeatsCarryTokens, broker, Idle
  <2> QED BY <2>1, <2>2, SocketsAlone DEF broker
<1>6. ASSUME NEW b \in Beats, Forgotten(b) PROVE IInv'
  <2>1. UNCHANGED <<held, socket, ws, token, stopped, timers, troubles, doubled>>
      BY <1>6 DEF Forgotten
  <2>2. record' \in Tokens /\ issued' \in Tokens /\ TokensSuffice'
    <3>1. CASE record # 0
        BY <1>1, <1>6, <2>1, <3>1 DEF Forgotten, TypeOK, TokensSuffice
    <3>2. CASE record = 0
      <4>1. issued \in Nat /\ troubles \in Nat /\ 1 <= issued
            /\ issued <= troubles /\ troubles <= MaxTroubles
          BY <1>1, <3>2 DEF TypeOK, TokensSuffice, Tokens
      <4>2. record' = issued + 1 /\ issued' = issued + 1
          BY <1>6, <3>2 DEF Forgotten
      <4> QED BY <2>1, <4>1, <4>2 DEF Tokens, TokensSuffice
    <3> QED BY <3>1, <3>2
  <2>3. beats' = [beats EXCEPT ![b] = [pc |-> "registered", token |-> record']]
      BY <1>6 DEF Forgotten
  <2>4. TypeOK' /\ BeatsCarryTokens'
      BY <1>1, <2>1, <2>2, <2>3 DEF TypeOK, BeatsCarryTokens
  <2> QED BY <2>1, <2>2, <2>4, SocketsAlone
<1>7. ASSUME NEW b \in Beats, Registered(b) PROVE IInv'
  <2> DEFINE closed == [socket EXCEPT ![ws].node = Closing(@)]
  <2>1. beats[b].token \in Tokens
      BY <1>1, <1>7 DEF Registered, BeatsCarryTokens
  <2>2. /\ beats' = [beats EXCEPT ![b] = Idle] /\ token' = beats[b].token
        /\ doubled' = (doubled \/ beats[b].token <= token)
        /\ UNCHANGED <<broker, stopped, timers, troubles>>
      BY <1>7 DEF Registered
  <2>3. ws \in Sockets
      BY <1>1 DEF TypeOK
  <2>4. closed \in [Sockets -> Socket]
        /\ \A s \in Sockets : closed[s].hub = socket[s].hub /\ closed[s].url = socket[s].url
      BY <1>2, <2>3 DEF Socket, Closing
  <2>5. Advertised(beats[b].token) \in Urls
      BY <2>1 DEF Advertised, Urls
  <2>6. /\ ws' \in Sockets /\ socket' \in [Sockets -> Socket]
        /\ \A s \in Sockets : socket'[s].hub = "open" => socket'[s] = closed[s]
    <3> HIDE DEF closed
    <3>1. IF stopped THEN socket' = closed /\ UNCHANGED ws
                     ELSE Connects(Advertised(beats[b].token), closed)
        BY <1>7 DEF Registered, closed
    <3>2. CASE stopped
        BY <2>3, <2>4, <3>1, <3>2
    <3>3. CASE ~stopped
        BY <2>4, <2>5, <3>1, <3>3, ConnectsLemma
    <3> QED BY <3>2, <3>3
  <2> HIDE DEF closed
  <2>7. TypeOK' /\ TokensSuffice' /\ BeatsCarryTokens'
      BY <1>1, <2>1, <2>2, <2>6
      DEF TypeOK, Socket, TokensSuffice, BeatsCarryTokens, broker, Idle
  <2>8. \A s \in Sockets : socket'[s].hub = "open" =>
            socket[s].hub = "open" /\ socket'[s].url = socket[s].url
      BY <2>4, <2>6
  <2> QED BY <2>2, <2>6, <2>7, <2>8, HeldStays DEF IInv, HoldsWhatIsOpen, broker
<1> QED BY <1>3, <1>4, <1>5, <1>6, <1>7 DEF Node

\* What goes wrong (a reap, a restart, a stop, a failed request, a break) keeps it.
LEMMA TroublesStep ==
    ASSUME IInv, Troubles PROVE IInv'
<1> USE Numbers
<1>1. TypeOK /\ TokensSuffice /\ BeatsCarryTokens
    BY DEF IInv, HoldsWhatIsOpen
<1>2. socket \in [Sockets -> Socket] /\ ws \in Sockets
    BY <1>1 DEF TypeOK, Socket
<1>3. ASSUME Trouble PROVE troubles' = troubles + 1 /\ troubles' \in 0..MaxTroubles
    BY <1>1, <1>3 DEF Trouble, TypeOK
<1>4. issued \in Nat /\ troubles \in Nat
    BY <1>1 DEF TypeOK, Tokens
<1>5. CASE Reap
  <2>1. troubles' = troubles + 1 /\ troubles' \in 0..MaxTroubles /\ record' = 0
        /\ UNCHANGED <<issued, held, socket, ws, token, stopped, timers, beats, doubled>>
      BY <1>3, <1>5 DEF Reap
  <2>2. TypeOK' /\ TokensSuffice' /\ BeatsCarryTokens'
      BY <1>1, <1>4, <2>1 DEF TypeOK, TokensSuffice, BeatsCarryTokens
  <2> QED BY <2>1, <2>2, SocketsAlone
<1>6. CASE Restart
  <2>1. troubles' = troubles + 1 /\ troubles' \in 0..MaxTroubles /\ record' = 0
        /\ UNCHANGED <<issued, ws, token, stopped, timers, beats, doubled>>
      BY <1>3, <1>6 DEF Restart
  <2>2. held' = [t \in Tokens |-> None]
      BY <1>6 DEF Restart
  <2>3. ASSUME NEW s \in Sockets
        PROVE  socket'[s] \in Socket /\ socket'[s].hub # "open"
    <3> DEFINE lost == [socket[s] EXCEPT !.hub = "closed"]
    <3>1. lost \in Socket /\ lost.hub = "closed" /\ socket[s] \in Socket
        BY <1>2 DEF Socket
    <3>2. Left(lost) \in Socket /\ Left(lost).hub # "open"
        BY <3>1, LeftIsASocket
    <3>3. socket'[s] = IF socket[s].hub \in {"open", "closing"} THEN Left(lost) ELSE socket[s]
        BY <1>6 DEF Restart
    <3> QED BY <3>1, <3>2, <3>3
  <2>4. socket' \in [Sockets -> Socket]
      BY <1>6, <2>3 DEF Restart
  <2>5. TypeOK' /\ TokensSuffice' /\ BeatsCarryTokens'
      BY <1>1, <1>4, <2>1, <2>2, <2>4
      DEF TypeOK, Socket, TokensSuffice, BeatsCarryTokens
  <2> QED BY <2>3, <2>5 DEF IInv, HoldsWhatIsOpen
<1>7. CASE Stop
  <2>1. stopped' = TRUE /\ UNCHANGED <<broker, ws, token, timers, beats, troubles, doubled>>
        /\ socket' = [socket EXCEPT ![ws].node = Closing(@)]
      BY <1>7 DEF Stop
  <2>2. socket' \in [Sockets -> Socket]
        /\ \A s \in Sockets : socket'[s].hub = socket[s].hub /\ socket'[s].url = socket[s].url
      BY <1>2, <2>1 DEF Socket, Closing
  <2>3. TypeOK' /\ TokensSuffice' /\ BeatsCarryTokens'
      BY <1>1, <2>1, <2>2 DEF TypeOK, Socket, TokensSuffice, BeatsCarryTokens, broker
  <2> QED BY <2>1, <2>2, <2>3, HeldStays DEF IInv, HoldsWhatIsOpen, broker
<1>8. ASSUME NEW b \in Beats, RequestFails(b) PROVE IInv'
  <2>1. troubles' = troubles + 1 /\ troubles' \in 0..MaxTroubles
        /\ beats' = [beats EXCEPT ![b] = Idle]
        /\ UNCHANGED <<broker, socket, ws, token, stopped, timers, doubled>>
      BY <1>3, <1>8 DEF RequestFails
  <2>2. TypeOK' /\ TokensSuffice' /\ BeatsCarryTokens'
      BY <1>1, <1>4, <2>1 DEF TypeOK, TokensSuffice, BeatsCarryTokens, broker, Idle
  <2> QED BY <2>1, <2>2, SocketsAlone DEF broker
<1>9. ASSUME NEW s \in Sockets, NEW ends \in SUBSET Ends, Break(s, ends) PROVE IInv'
  <2>1. troubles' = troubles + 1 /\ troubles' \in 0..MaxTroubles
        /\ socket' = [socket EXCEPT ![s].broken = TRUE, ![s].told = ends]
        /\ UNCHANGED <<broker, ws, token, stopped, timers, beats, doubled>>
      BY <1>3, <1>9 DEF Break
  <2>2. socket' \in [Sockets -> Socket]
        /\ \A x \in Sockets : socket'[x].hub = socket[x].hub /\ socket'[x].url = socket[x].url
      BY <1>2, <2>1 DEF Socket
  <2>3. TypeOK' /\ TokensSuffice' /\ BeatsCarryTokens'
      BY <1>1, <1>4, <2>1, <2>2 DEF TypeOK, Socket, TokensSuffice, BeatsCarryTokens, broker
  <2> QED BY <2>1, <2>2, <2>3, HeldStays DEF IInv, HoldsWhatIsOpen, broker
<1> QED BY <1>5, <1>6, <1>7, <1>8, <1>9 DEF Troubles

\* The inductive invariant of the control channel.
THEOREM ChannelInvariant == Spec => []IInv
<1>1. ASSUME IInv, [Next]_vars PROVE IInv'
  <2>1. CASE UNCHANGED vars
    <3>1. UNCHANGED <<held, socket, ws>> /\ TypeOK' /\ TokensSuffice' /\ BeatsCarryTokens'
        BY <1>1, <2>1 DEF IInv, HoldsWhatIsOpen, TypeOK, TokensSuffice, BeatsCarryTokens, vars, broker
    <3> QED BY <1>1, <3>1, SocketsAlone
  <2> QED BY <1>1, <2>1, ChannelStep, NodeStep, TroublesStep DEF Next, Channel
<1> QED BY InvInit, <1>1, PTL DEF Spec

\* For any number of sockets and heartbeats, and whatever closes, breaks, restarts or
\* is reaped in whatever order: a socket that is open at the hub is the one the hub
\* uses for its provider (hub.ts attach and its close handler).
THEOREM HubHoldsWhatIsOpen == Spec => []HoldsWhatIsOpen
BY ChannelInvariant, PTL DEF IInv
=============================================================================
