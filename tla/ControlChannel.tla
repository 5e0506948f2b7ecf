--------------------------- MODULE ControlChannel ---------------------------
(***************************************************************************)
(* The control channel between the broker's hub and one provider node:     *)
(* the sockets a node dials, the one the hub holds for the provider, the   *)
(* reconnect timers, and the heartbeats that register the node again when  *)
(* the broker has forgotten it.                                            *)
(*                                                                         *)
(* Each end of a socket learns that it is over by itself, or never: nothing *)
(* pings and no keepalive is set, so an end that has nothing to send when   *)
(* the wire breaks is told of it only if something on the way resets it.   *)
(* A timer and a heartbeat know the URL or the token they started with,    *)
(* whatever the node holds by the time they come back.                     *)
(***************************************************************************)
EXTENDS Naturals, FiniteSetsExt

CONSTANTS
    MaxSockets,         \* bound: WebSocket objects that live at once
    MaxBeats,           \* bound: heartbeats under way at once
    MaxTroubles,        \* bound: restarts, reaps, breaks and lost requests
    AdvertisedWorks     \* the broker's own idea of its address can be dialled

ASSUME BoundsAssumption == MaxSockets \in Nat \ {0} /\ MaxBeats \in Nat /\ MaxTroubles \in Nat
ASSUME AddressAssumption == AdvertisedWorks \in BOOLEAN

VARIABLES
    record,     \* Registry: the token of this node's record, 0 without one
    issued,     \* tokens handed out so far
    held,       \* Hub.sockets: provider (named by its token) -> socket
    socket,     \* both ends of every socket
    ws, token, stopped,     \* ProviderNode fields
    timers,     \* URL -> reconnect timers set for it
    beats,      \* heartbeat -> how far it got, and the token it carries
    troubles,
    doubled     \* history: an answer registered the node under no newer token than it had

broker == <<record, issued, held>>
vars == <<broker, socket, ws, token, stopped, timers, beats, troubles, doubled>>

Tokens == 1..(MaxTroubles + 1)
Sockets == 1..MaxSockets
Beats == 1..MaxBeats
None == 0
\* A URL is a token and the origin it is dialled at: the one the node reached
\* the broker on, or the one the broker advertises.
Urls == [token: Tokens, via: {"reached", "advertised"}]
Ends == {"node", "hub"}
Unused == [url |-> [token |-> 1, via |-> "reached"], node |-> "none", hub |-> "none",
           broken |-> FALSE, told |-> {}]
Idle == [pc |-> "idle", token |-> 0]

TypeOK ==
    /\ record \in {0} \cup Tokens /\ issued \in Tokens
    /\ held \in [Tokens -> Sockets \cup {None}]
    /\ socket \in [Sockets -> [url: Urls, broken: BOOLEAN, told: SUBSET Ends,
                               node: {"none", "dialing", "open", "closing", "closed"},
                               hub: {"none", "open", "closing", "closed"}]]
    /\ ws \in Sockets /\ token \in Tokens /\ {stopped, doubled} \subseteq BOOLEAN
    /\ timers \in [Urls -> Nat]
    /\ beats \in [Beats -> [pc: {"idle", "sent", "registered"},
                            token: {0} \cup Tokens]]
    /\ troubles \in 0..MaxTroubles

-----------------------------------------------------------------------------
\* controlChannelUrl: the advertised path and token at the origin that worked.
controlChannelUrl(t) == [token |-> t, via |-> "reached"]
Advertised(t) == [token |-> t, via |-> "advertised"]

\* connect(url) of a node that is not stopped: a new socket becomes this.ws.
Connects(url, sockets) ==
    LET free == {s \in Sockets : sockets[s] = Unused}
    IN /\ free # {}
       /\ ws' = Min(free)
       /\ socket' = [sockets EXCEPT ![Min(free)] = [Unused EXCEPT !.url = url, !.node = "dialing"]]

\* A socket both of whose ends are over is gone.
Over(end) == end \in {"none", "closed"}
Left(x) == IF Over(x.node) /\ Over(x.hub) THEN Unused ELSE x

\* start() after the first registration.
Init ==
    /\ record = 1 /\ issued = 1
    /\ held = [t \in Tokens |-> None]
    /\ ws = 1
    /\ socket = [s \in Sockets |-> IF s # 1 THEN Unused
                    ELSE [Unused EXCEPT !.url = controlChannelUrl(1), !.node = "dialing"]]
    /\ token = 1 /\ stopped = FALSE
    /\ timers = [u \in Urls |-> 0]
    /\ beats = [b \in Beats |-> Idle]
    /\ troubles = 0 /\ doubled = FALSE

-----------------------------------------------------------------------------
\* attach(): one socket per provider, the older one is closed and replaced.
Attach(s) ==
    LET t == socket[s].url.token
        old == held[t]
    IN /\ socket' = [x \in Sockets |->
                       IF x = s THEN [socket[x] EXCEPT !.hub = "open"]
                       ELSE IF x = old /\ socket[x].hub = "open"
                              THEN [socket[x] EXCEPT !.hub = "closing"]
                              ELSE socket[x]]
       /\ held' = [held EXCEPT ![t] = s]

\* The upgrade request comes to the hub with the token of the record ...
Reaches(url) == url.via = "reached" \/ AdvertisedWorks
Upgrade(s) ==
    /\ socket[s].node \in {"dialing", "closing"} /\ socket[s].hub = "none"
    /\ Reaches(socket[s].url) /\ ~socket[s].broken
    /\ socket[s].url.token = record
    /\ Attach(s)
    /\ UNCHANGED <<record, issued, ws, token, stopped, timers, beats, troubles, doubled>>

\* The node's close handler: it dials the same URL again, after the backoff.
DialsAgain(s) == timers' = IF stopped THEN timers ELSE [timers EXCEPT ![socket[s].url] = @ + 1]

\* ... or with another one, and is answered 401, or reaches nobody.
Refused(s) ==
    /\ socket[s].node \in {"dialing", "closing"} /\ socket[s].hub = "none"
    /\ socket[s].url.token # record \/ ~Reaches(socket[s].url)
    /\ ~socket[s].broken
    /\ socket' = [socket EXCEPT ![s] = Unused]
    /\ DialsAgain(s)
    /\ UNCHANGED <<broker, ws, token, stopped, beats, troubles, doubled>>

NodeOpens(s) ==
    /\ socket[s].node = "dialing" /\ socket[s].hub = "open" /\ ~socket[s].broken
    /\ socket' = [socket EXCEPT ![s].node = "open"]
    /\ UNCHANGED <<broker, ws, token, stopped, timers, beats, troubles, doubled>>

\* An end is told that the socket is over: its own close() was answered or given
\* up, the other end closed on a wire that holds, or the break came with a reset.
\* A dial that was never answered is given up in the end.
HubIsTold(s) ==
    \/ socket[s].hub = "closing" \/ "hub" \in socket[s].told
    \/ socket[s].node \in {"closing", "closed"} /\ ~socket[s].broken
NodeIsTold(s) ==
    \/ socket[s].node = "closing" \/ "node" \in socket[s].told
    \/ socket[s].hub \in {"closing", "closed"} /\ ~socket[s].broken
    \/ socket[s].node = "dialing" /\ socket[s].hub = "none" /\ socket[s].broken

\* Slip: a close handler that takes whatever the hub holds out of it.
HubClosesBlindly(s) ==
    /\ socket[s].hub \in {"open", "closing"}
    /\ HubIsTold(s) \/ socket[s].broken
    /\ socket' = [socket EXCEPT ![s] = Left([@ EXCEPT !.hub = "closed"])]
    /\ held' = [held EXCEPT ![socket[s].url.token] = None]
    /\ UNCHANGED <<record, issued, ws, token, stopped, timers, beats, troubles, doubled>>

\* The hub's close event: it is told, or finds a broken wire out by sending on it.
HubCloses(s) ==
    /\ socket[s].hub \in {"open", "closing"}
    /\ HubIsTold(s) \/ socket[s].broken
    /\ socket' = [socket EXCEPT ![s] = Left([@ EXCEPT !.hub = "closed"])]
    /\ held' = [t \in Tokens |-> IF held[t] = s THEN None ELSE held[t]]
    /\ UNCHANGED <<record, issued, ws, token, stopped, timers, beats, troubles, doubled>>

\* Slip: a close handler that waits for a heartbeat to dial again.
NodeClosesQuietly(s) ==
    /\ socket[s].node \in {"dialing", "open", "closing"}
    /\ NodeIsTold(s) \/ socket[s].broken
    /\ socket' = [socket EXCEPT ![s] = Left([@ EXCEPT !.node = "closed"])]
    /\ UNCHANGED <<broker, ws, token, stopped, timers, beats, troubles, doubled>>

\* The node's close event: it is told, or finds out by sending, if it has a job to
\* report on.
NodeCloses(s) ==
    /\ socket[s].node \in {"dialing", "open", "closing"}
    /\ NodeIsTold(s) \/ socket[s].broken
    /\ socket' = [socket EXCEPT ![s] = Left([@ EXCEPT !.node = "closed"])]
    /\ DialsAgain(s)
    /\ UNCHANGED <<broker, ws, token, stopped, beats, troubles, doubled>>

\* A reconnect timer; stop() clears the newest one only, and the others find
\* the node stopped.
TimerFires(u) ==
    /\ timers[u] > 0
    /\ timers' = [timers EXCEPT ![u] = @ - 1]
    /\ IF stopped THEN UNCHANGED <<socket, ws>>
                  ELSE Connects(u, socket)
    /\ UNCHANGED <<broker, token, stopped, beats, troubles, doubled>>

-----------------------------------------------------------------------------
\* The interval, and start(), send a heartbeat with the token of the moment.
Heartbeat ==
    /\ ~stopped
    /\ LET idle == {b \in Beats : beats[b] = Idle}
       IN /\ idle # {}
          /\ beats' = [beats EXCEPT ![Min(idle)] = [pc |-> "sent", token |-> token]]
    /\ UNCHANGED <<broker, socket, ws, token, stopped, timers, troubles, doubled>>

\* POST /heartbeat answers 200.
Known(b) ==
    /\ beats[b].pc = "sent" /\ beats[b].token = record
    /\ beats' = [beats EXCEPT ![b] = Idle]
    /\ UNCHANGED <<broker, socket, ws, token, stopped, timers, troubles, doubled>>

\* It answers 401 for a token the registry does not know, and the node posts to
\* /register, where the record of a known nodeId keeps its token.
Forgotten(b) ==
    /\ beats[b].pc = "sent" /\ beats[b].token # record
    /\ IF record # 0 THEN UNCHANGED <<record, issued>>
                     ELSE record' = issued + 1 /\ issued' = issued + 1
    /\ beats' = [beats EXCEPT ![b] = [pc |-> "registered", token |-> record']]
    /\ UNCHANGED <<held, socket, ws, token, stopped, timers, troubles, doubled>>

\* The socket this.ws.close() leaves behind: its close event is still to come.
Closing(end) == IF end \in {"dialing", "open"} THEN "closing" ELSE end

\* Slip: a node that registers again and leaves it to the old chain to dial.
RegisteredOnly(b) ==
    /\ beats[b].pc = "registered"
    /\ token' = beats[b].token
    /\ doubled' = (doubled \/ beats[b].token <= token)
    /\ beats' = [beats EXCEPT ![b] = Idle]
    /\ UNCHANGED <<broker, socket, ws, stopped, timers, troubles>>

\* Its answer, which waits for the announcement on the registry topic: the node
\* takes the token, closes its socket and dials the URL as the broker gave it.
Registered(b) ==
    /\ beats[b].pc = "registered"
    /\ token' = beats[b].token
    /\ doubled' = (doubled \/ beats[b].token <= token)
    /\ beats' = [beats EXCEPT ![b] = Idle]
    /\ LET closed == [socket EXCEPT ![ws].node = Closing(@)]
       IN IF stopped THEN socket' = closed /\ UNCHANGED ws
          ELSE Connects(Advertised(beats[b].token), closed)
    /\ UNCHANGED <<broker, stopped, timers, troubles>>

-----------------------------------------------------------------------------
\* Bounded, and none once two chains compete: nothing settles from there on.
Trouble == ~doubled /\ troubles < MaxTroubles /\ troubles' = troubles + 1

\* A heartbeat or registration fails on its way, there or back.
RequestFails(b) ==
    /\ Trouble
    /\ beats[b] # Idle
    /\ beats' = [beats EXCEPT ![b] = Idle]
    /\ UNCHANGED <<broker, socket, ws, token, stopped, timers, doubled>>

\* The registry forgets a node that was silent for long; the hub does not.
Reap ==
    /\ Trouble
    /\ record # 0
    /\ record' = 0
    /\ UNCHANGED <<issued, held, socket, ws, token, stopped, timers, beats, doubled>>

\* The broker restarts: registry and hub start empty.
Restart ==
    /\ Trouble
    /\ record' = 0
    /\ held' = [t \in Tokens |-> None]
    /\ socket' = [s \in Sockets |-> IF socket[s].hub \in {"open", "closing"}
                                      THEN Left([socket[s] EXCEPT !.hub = "closed"]) ELSE socket[s]]
    /\ UNCHANGED <<issued, ws, token, stopped, timers, beats, doubled>>

\* The wire of a socket breaks; each end is told, or is not.
Break(s, ends) ==
    /\ Trouble
    /\ socket[s].node \in {"dialing", "open"} /\ ~socket[s].broken
    /\ socket' = [socket EXCEPT ![s].broken = TRUE, ![s].told = ends]
    /\ UNCHANGED <<broker, ws, token, stopped, timers, beats, doubled>>

\* stop(): closes this.ws, and nothing is dialled from here on.
Stop ==
    /\ ~stopped
    /\ stopped' = TRUE
    /\ socket' = [socket EXCEPT ![ws].node = Closing(@)]
    /\ UNCHANGED <<broker, ws, token, timers, beats, troubles, doubled>>

-----------------------------------------------------------------------------
Channel == \E s \in Sockets : \/ Upgrade(s) \/ Refused(s) \/ NodeOpens(s)
                              \/ HubCloses(s) \/ NodeCloses(s)
Node == \/ Heartbeat
        \/ \E u \in Urls : TimerFires(u)
        \/ \E b \in Beats : Known(b) \/ Forgotten(b) \/ Registered(b)
Troubles == \/ Reap \/ Restart \/ Stop
            \/ \E b \in Beats : RequestFails(b)
            \/ \E s \in Sockets, ends \in SUBSET Ends : Break(s, ends)

Next == Channel \/ Node \/ Troubles
Spec == Init /\ [][Next]_vars

\* Timers fire, requests are answered, and an end that is told of a closed socket
\* sees it closed.  Nothing is assumed of restarts, breaks or a stop, nor that an
\* end notices a break it is not told of.
Fairness ==
    /\ \A s \in Sockets : WF_vars(Upgrade(s)) /\ WF_vars(NodeOpens(s)) /\ WF_vars(Refused(s))
                          /\ WF_vars(NodeIsTold(s) /\ NodeCloses(s))
                          /\ WF_vars(HubIsTold(s) /\ HubCloses(s))
    /\ \A u \in Urls : WF_vars(TimerFires(u))
    /\ WF_vars(Heartbeat)
    /\ \A b \in Beats : WF_vars(Known(b)) /\ WF_vars(Forgotten(b)) /\ WF_vars(Registered(b))
FairSpec == Spec /\ Fairness

-----------------------------------------------------------------------------
\* The hub's open sockets are exactly those it holds: a provider never has a
\* second open one that messages would be lost on, and the close event of a
\* superseded socket never takes the newer one out (hub.ts:82, 101).
HoldsWhatIsOpen ==
    TypeOK /\ \A s \in Sockets : socket[s].hub = "open" => held[socket[s].url.token] = s

\* isConnected() of the record's provider, and a channel that really works.
isConnected == record # 0 /\ held[record] # None /\ socket[held[record]].hub = "open"
Works == isConnected /\ socket[held[record]].node = "open" /\ ~socket[held[record]].broken

\* All the node has under the token of its record is sockets on broken wires, and
\* nothing has told it.
Deaf ==
    LET mine == {s \in Sockets : /\ socket[s].url.token = record
                                 /\ socket[s].node \in {"dialing", "open", "closing"}}
    IN /\ mine # {}
       /\ \A s \in mine : socket[s].broken /\ ~NodeIsTold(s)
       /\ \A u \in Urls : u.token = record => timers[u] = 0

\* Whatever restarts, reaps, breaks and lost requests do, a node that is neither
\* stopped nor deaf is on the hub again and again.
KeepsRejoining == []<>(stopped \/ Deaf \/ isConnected)

\* ... and for good once they are over, unless two heartbeats registered it at the
\* same time, or were answered in the other order: then two chains of reconnects may
\* supersede each other for ever.
SettlesDown == <>[](stopped \/ Deaf \/ doubled \/ Works)

\* node.ts says of the reconnects: "a node left running overnight should still rejoin
\* promptly when it comes back".  A node that is not stopped is on the hub again and
\* again, whatever broke its wire.
RejoinsAlways == []<>(stopped \/ isConnected)
=============================================================================
