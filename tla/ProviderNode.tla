---------------------------- MODULE ProviderNode ----------------------------
(***************************************************************************)
(* One provider's machine: `xorv start` bringing the node up, the runs of  *)
(* the jobs it is sent, the agent each of them spawns, the report it makes *)
(* and what is left behind, and the broker's count of its active jobs as   *)
(* dispatches and heartbeats cross.                                        *)
(*                                                                         *)
(* The hub is reduced to the messages it sends; it hears a report at once  *)
(* (Dispatch has the delays).  A run lives in three places that are not    *)
(* updated together: its agent, its entry in `running`, its directory; and *)
(* in the container tier what the node spawned is a client of the agent.   *)
(***************************************************************************)
EXTENDS Naturals, Sequences, FiniteSets

CONSTANTS
    Jobs,
    MaxRuns,        \* bound: runs the node ever starts
    MaxInbox,       \* bound: messages on the way to the node
    MaxFaults,      \* bound: lost sockets, full disks, dying tunnels, --fix
    Capacity        \* totalConcurrency

ASSUME NodeAssumption ==
    /\ MaxRuns \in Nat \ {0} /\ MaxInbox \in Nat \ {0}
    /\ MaxFaults \in Nat /\ Capacity \in Nat \ {0} /\ Jobs # {}

VARIABLES
    phase,          \* how far startCommand got
    local, tunnel,  \* its HTTP server, and the cloudflared child
    run,            \* every run of a job
    running,        \* ProviderNode.running: job -> run, 0 without an entry
    contained,      \* XORV_SANDBOX=container: docker runs the agents
    adrift,         \* runs whose container goes on without its client
    dirs,           \* jobs whose directory exists under sandboxDir
    connected,      \* ws is open
    inbox,          \* from the hub
    out,            \* jobs the broker has with this node
    active,         \* Registry: the provider's activeJobs
    beat,           \* a heartbeat under way: the count it carries
    faults,
    shadowed,       \* history: jobs that had two runs at a time
    swept,          \* history: doctor --fix ran meanwhile
    unledgered,     \* history: runs whose row in the ledger threw
    slipped         \* history: a slot was freed while its run went on

bringUp == <<phase, local, tunnel>>
runs == <<run, running, dirs, unledgered>>
containers == <<contained, adrift>>
broker == <<out, active, slipped>>
vars == <<bringUp, runs, containers, connected, inbox, broker, beat, faults, shadowed, swept>>

Runs == 1..MaxRuns
NoBeat == MaxRuns + 1
Unused == [pc |-> "none", job |-> CHOOSE j \in Jobs : TRUE, agent |-> "none",
           killed |-> FALSE, told |-> {}]
Phases == {"probing", "serving", "tunnel", "registering", "online", "failed", "exited", "crashed",
           "signalled"}

TypeOK ==
    /\ phase \in Phases /\ {local, connected, swept, slipped, contained} \subseteq BOOLEAN
    /\ tunnel \in {"none", "starting", "up", "gone"}
    /\ run \in [Runs -> [pc: {"none", "agent", "posting", "over"}, job: Jobs,
                         agent: {"none", "alive", "text", "failed"},
                         killed: BOOLEAN, told: SUBSET {"result", "error"}]]
    /\ running \in [Jobs -> Runs \cup {0}]
    /\ \A j \in Jobs : running[j] # 0 =>
            run[running[j]].job = j /\ run[running[j]].pc \in {"agent", "posting"}
    /\ dirs \subseteq Jobs /\ shadowed \subseteq Jobs /\ out \subseteq Jobs
    /\ inbox \in Seq([type: {"dispatch", "cancel"}, job: Jobs]) /\ Len(inbox) <= MaxInbox
    /\ active \in Nat /\ beat \in 0..NoBeat
    /\ unledgered \subseteq Runs /\ adrift \subseteq Runs /\ faults \in 0..MaxFaults

Entries == {j \in Jobs : running[j] # 0}
Live == {r \in Runs : run[r].pc \in {"agent", "posting"}}
Fewer == IF active = 0 THEN 0 ELSE active - 1
Fault == faults < MaxFaults /\ faults' = faults + 1

Init ==
    /\ phase = "probing" /\ local = FALSE /\ tunnel = "none"
    /\ run = [r \in Runs |-> Unused] /\ running = [j \in Jobs |-> 0]
    /\ dirs = {} /\ unledgered = {} /\ contained \in BOOLEAN /\ adrift = {}
    /\ connected = FALSE /\ inbox = <<>>
    /\ out = {} /\ active = 0 /\ slipped = FALSE
    /\ beat = NoBeat /\ faults = 0 /\ shadowed = {} /\ swept = FALSE

-----------------------------------------------------------------------------
(* startCommand.                                                           *)
Idle == UNCHANGED <<runs, containers, connected, inbox, broker, beat, faults, shadowed, swept>>

\* No capability answers its probe: the command ends.
Probe ==
    /\ phase = "probing"
    /\ phase' \in {"serving", "failed"}
    /\ UNCHANGED <<local, tunnel>> /\ Idle

\* The status page; a port that is taken ends the command.
Serve ==
    /\ phase = "serving"
    /\ \/ local' = TRUE /\ phase' \in {"tunnel", "registering"}
       \/ local' = FALSE /\ phase' = "failed"
    /\ UNCHANGED tunnel /\ Idle

\* startTunnel: the first of a URL, an exit and the timer settles it.
RaiseTunnel ==
    /\ phase = "tunnel" /\ tunnel = "none"
    /\ tunnel' = "starting"
    /\ UNCHANGED <<phase, local>> /\ Idle
TunnelSettles ==
    /\ phase = "tunnel" /\ tunnel = "starting"
    /\ tunnel' \in {"up", "gone"} /\ phase' = "registering"
    /\ UNCHANGED local /\ Idle

\* Registration; a failed one takes the tunnel down.
Register ==
    /\ phase = "registering"
    /\ \/ phase' = "online" /\ UNCHANGED <<local, tunnel>>
       \/ phase' = "failed" /\ local' = FALSE /\ tunnel' = IF tunnel = "up" THEN "gone" ELSE tunnel
    /\ Idle

\* cloudflared dies later and nobody notices.
TunnelDies ==
    /\ phase = "online" /\ tunnel = "up" /\ Fault
    /\ tunnel' = "gone"
    /\ UNCHANGED <<phase, local, runs, containers, connected, inbox, broker, beat, shadowed, swept>>

-----------------------------------------------------------------------------
(* The broker's side: match's guard and dispatch, cancel, the sweep.       *)
Send(type, j) == inbox' = Append(inbox, [type |-> type, job |-> j])
DispatchFull(j) ==
    /\ connected /\ Len(inbox) < MaxInbox /\ j \notin out /\ active <= Capacity
    /\ Send("dispatch", j) /\ out' = out \cup {j} /\ active' = active + 1
    /\ UNCHANGED <<bringUp, runs, containers, connected, slipped, beat, faults, shadowed, swept>>
Dispatch(j) ==
    /\ connected /\ Len(inbox) < MaxInbox /\ j \notin out /\ active < Capacity
    /\ Send("dispatch", j) /\ out' = out \cup {j} /\ active' = active + 1
    /\ UNCHANGED <<bringUp, runs, containers, connected, slipped, beat, faults, shadowed, swept>>

\* A cancel, or the sweep that says nothing to the node: the slot is free at
\* once, while the run goes on.
Withdraw(j) ==
    /\ j \in out /\ out' = out \ {j} /\ active' = Fewer /\ slipped' = TRUE
    /\ \/ connected /\ Len(inbox) < MaxInbox /\ Send("cancel", j)
       \/ UNCHANGED inbox
    /\ UNCHANGED <<bringUp, runs, containers, connected, beat, faults, shadowed, swept>>

\* The broker hears of a run's end: one slot less, for the second report of a
\* job too.
Heard(j) ==
    /\ out' = out \ {j}
    /\ active' = Fewer
    /\ slipped' = (slipped \/ j \notin out)

\* A beat takes the size of `running` along and puts it in the broker's place
\* of it, whatever was dispatched or reported meanwhile.
BeatLeaves ==
    /\ phase = "online" /\ beat = NoBeat
    /\ beat' = Cardinality(Entries)
    /\ UNCHANGED <<bringUp, runs, containers, connected, inbox, broker, faults, shadowed, swept>>
Due == Cardinality(Live) + Cardinality({i \in DOMAIN inbox : inbox[i].type = "dispatch"})
BeatArrives ==
    /\ beat # NoBeat
    /\ active' = beat /\ beat' = NoBeat
    /\ slipped' = (slipped \/ beat < Due)
    /\ UNCHANGED <<bringUp, runs, containers, connected, inbox, out, faults, shadowed, swept>>

-----------------------------------------------------------------------------
(* runJob.                                                                 *)
\* The finally block, for a run that comes to this end; the entry and the
\* directory go, whosever they are by now.  Slip: every directory goes.
FinallySweeps(r, ended) ==
    /\ run' = [run EXCEPT ![r] = ended]
    /\ running' = [running EXCEPT ![ended.job] = 0]
    /\ dirs' = {}
Finally(r, ended) ==
    /\ run' = [run EXCEPT ![r] = ended]
    /\ running' = [running EXCEPT ![ended.job] = 0]
    /\ dirs' = dirs \ {ended.job}

\* The catch block: the error is reported, over the socket or by HTTP.
Fails(r, x) ==
    /\ Finally(r, [x EXCEPT !.pc = "over", !.told = @ \cup {"error"}])
    /\ Heard(x.job)

\* The row in the ledger, which may throw: what was delivered is then reported
\* as an error as well.
Ledger(r, x) ==
    \/ /\ Finally(r, [x EXCEPT !.pc = "over"]) /\ Heard(x.job)
       /\ UNCHANGED <<unledgered, faults>>
    \/ /\ Fault /\ unledgered' = unledgered \cup {r}
       /\ Finally(r, [x EXCEPT !.pc = "over", !.told = @ \cup {"error"}])
       /\ out' = out \ {x.job} /\ slipped' = TRUE
       /\ active' = IF active < 2 THEN 0 ELSE active - 2

\* The adapter answered: over the socket at once, or by HTTP, which is awaited.
Delivers(r, x) ==
    \/ /\ connected /\ Ledger(r, [x EXCEPT !.told = {"result"}])
    \/ /\ ~connected /\ run' = [run EXCEPT ![r] = [x EXCEPT !.pc = "posting", !.told = {"result"}]]
       /\ UNCHANGED <<running, dirs, unledgered, broker, faults>>

\* runChild's kill, when a run's signal aborts; it listens until the close.
Abort(rs) == [r \in Runs |-> IF r \in rs /\ run[r].pc = "agent"
                             THEN [run[r] EXCEPT !.killed = TRUE] ELSE run[r]]

\* A message comes in.  A dispatch starts a run: entry, directory, agent.  The
\* directory that cannot be made is nobody's to catch and ends the process, its
\* socket and its server, not its agents; a
\* binary that is not there, or a capability, is an error.
Receive ==
    /\ connected /\ inbox # <<>>
    /\ LET m == Head(inbox)
           r == Cardinality({s \in Runs : run[s].pc # "none"}) + 1
           x == [Unused EXCEPT !.job = m.job]
       IN \/ /\ m.type = "cancel"
             /\ run' = IF running[m.job] = 0 THEN run ELSE Abort({running[m.job]})
             /\ UNCHANGED <<bringUp, connected, running, dirs, unledgered, broker, faults, shadowed>>
          \/ /\ m.type = "dispatch" /\ r \in Runs
             /\ run' = [run EXCEPT ![r] = [x EXCEPT !.pc = "agent", !.agent = "alive"]]
             /\ running' = [running EXCEPT ![m.job] = r]
             /\ dirs' = dirs \cup {m.job}
             /\ shadowed' = IF \E s \in Live : run[s].job = m.job THEN shadowed \cup {m.job}
                            ELSE shadowed
             /\ UNCHANGED <<bringUp, connected, unledgered, broker, faults>>
          \/ /\ m.type = "dispatch" /\ r \in Runs
             /\ Fails(r, x) \/ (run' = [run EXCEPT ![r] = [x EXCEPT !.pc = "over", !.told = {"error"}]]
                                /\ Heard(m.job) /\ UNCHANGED <<running, dirs>>)
             /\ shadowed' = IF \E s \in Live : run[s].job = m.job THEN shadowed \cup {m.job}
                            ELSE shadowed
             /\ UNCHANGED <<bringUp, connected, unledgered, faults>>
          \/ /\ m.type = "dispatch" /\ Fault
             /\ phase' = "crashed" /\ local' = FALSE /\ connected' = FALSE
             /\ UNCHANGED <<tunnel, runs, broker, shadowed>>
    /\ inbox' = IF connected' THEN Tail(inbox) ELSE <<>>
    /\ UNCHANGED <<containers, beat, swept>>

\* setTimeout(abort, timeoutMs), whatever entry the job has by then; slip: it
\* aborts the run of that entry.
TimerFiresOnEntry(r) ==
    /\ phase = "online" /\ run[r].pc = "agent" /\ ~run[r].killed
    /\ run' = Abort({running[run[r].job]})
    /\ UNCHANGED <<bringUp, containers, running, dirs, unledgered, connected, inbox, broker, beat,
                   faults, shadowed, swept>>
TimerFires(r) ==
    /\ phase = "online" /\ run[r].pc = "agent" /\ ~run[r].killed
    /\ run' = Abort({r})
    /\ UNCHANGED <<bringUp, containers, running, dirs, unledgered, connected, inbox, broker, beat,
                   faults, shadowed, swept>>

\* What an adapter makes of the end of its agent: did it say something, and did
\* it say that it failed.  An exit code other than zero is not enough to fail
\* an agent that left some text.
ClaudeCode(end) == end.text /\ ~end.error
Codex(end) == end.text
Grok(end) == end.text /\ ~end.error
OpenCode(end) == end.text
OpenAiCompatible(end) == end.text /\ ~end.error
Echo(end) == TRUE
Adapters(end) == {ClaudeCode(end), Codex(end), Grok(end), OpenCode(end), OpenAiCompatible(end), Echo(end)}

\* The process group the node spawned ends: by itself, or because it was killed.
\* In the container tier it is docker's client, and SIGKILL is not passed on: the
\* container goes on.
AgentExits(r) ==
    /\ run[r].agent = "alive"
    /\ \E end \in [text: BOOLEAN, error: BOOLEAN] : \E delivers \in Adapters(end) :
           run' = [run EXCEPT ![r].agent = IF delivers THEN "text" ELSE "failed"]
    /\ adrift' = IF contained /\ run[r].killed THEN adrift \cup {r} ELSE adrift
    /\ UNCHANGED <<bringUp, running, dirs, unledgered, contained, connected, inbox, broker, beat,
                   faults, shadowed, swept>>
ContainerExits(r) ==
    /\ r \in adrift /\ adrift' = adrift \ {r}
    /\ UNCHANGED <<bringUp, runs, contained, connected, inbox, broker, beat, faults, shadowed, swept>>

\* The close event: killed comes first, then what the agent has said (slip: the
\* other way round).
ClosesByText(r) ==
    /\ phase = "online" /\ run[r].pc = "agent" /\ run[r].agent # "alive"
    /\ \/ run[r].agent = "text" /\ Delivers(r, run[r])
       \/ run[r].agent # "text" /\ Fails(r, run[r]) /\ UNCHANGED <<unledgered, faults>>
    /\ UNCHANGED <<bringUp, containers, connected, inbox, beat, shadowed, swept>>
Closes(r) ==
    /\ phase = "online" /\ run[r].pc = "agent" /\ run[r].agent # "alive"
    /\ \/ run[r].agent = "text" /\ ~run[r].killed /\ Delivers(r, run[r])
       \/ /\ run[r].agent # "text" \/ run[r].killed
          /\ Fails(r, run[r]) /\ UNCHANGED <<unledgered, faults>>
    /\ UNCHANGED <<bringUp, containers, connected, inbox, beat, shadowed, swept>>

\* The awaited POST: answered, or given up after its timeout.
Posted(r) ==
    /\ phase = "online" /\ run[r].pc = "posting"
    /\ Ledger(r, run[r])
    /\ UNCHANGED <<bringUp, containers, connected, inbox, beat, shadowed, swept>>

-----------------------------------------------------------------------------
(* The socket, the operator.                                               *)
Connect ==
    /\ phase = "online" /\ ~connected
    /\ connected' = TRUE
    /\ UNCHANGED <<bringUp, runs, containers, inbox, broker, beat, faults, shadowed, swept>>
LoseSocket ==
    /\ connected /\ Fault
    /\ connected' = FALSE /\ inbox' = <<>>
    /\ UNCHANGED <<bringUp, runs, containers, broker, beat, shadowed, swept>>

\* SIGINT or SIGTERM, handled once the node is registered: stop(), then the rest
\* of the shutdown.  The runs with an entry are aborted.
Stop ==
    /\ phase = "online" /\ phase' = "exited" /\ local' = FALSE
    /\ tunnel' = IF tunnel = "up" THEN "gone" ELSE tunnel
    /\ connected' = FALSE /\ inbox' = <<>>
    /\ run' = Abort({running[j] : j \in Entries})
    /\ UNCHANGED <<running, dirs, unledgered, containers, broker, beat, faults, shadowed, swept>>

\* A signal that has no handler: any during the start-up, a SIGHUP or SIGKILL
\* later.  The process is gone and nothing is aborted or taken down; agents have
\* a process group of their own, cloudflared may have got the signal too.
Signalled ==
    /\ phase \in {"probing", "serving", "tunnel", "registering", "online"}
    /\ phase' = "signalled" /\ local' = FALSE /\ connected' = FALSE /\ inbox' = <<>>
    /\ tunnel' \in {tunnel, IF tunnel = "none" THEN "none" ELSE "gone"}
    /\ UNCHANGED <<runs, containers, broker, beat, faults, shadowed, swept>>

\* `xorv doctor --fix` beside the running node.
DoctorFix ==
    /\ dirs # {} /\ Fault
    /\ dirs' = {} /\ swept' = TRUE
    /\ UNCHANGED <<bringUp, run, running, unledgered, containers, connected, inbox, broker, beat, shadowed>>

-----------------------------------------------------------------------------
Start == Probe \/ Serve \/ RaiseTunnel \/ TunnelSettles \/ Register \/ TunnelDies
Hub == \/ \E j \in Jobs : Dispatch(j) \/ Withdraw(j)
       \/ BeatLeaves \/ BeatArrives
Node == \/ Receive \/ Connect \/ LoseSocket \/ Stop \/ DoctorFix
        \/ Signalled
        \/ \E r \in Runs : TimerFires(r) \/ AgentExits(r) \/ ContainerExits(r) \/ Closes(r) \/ Posted(r)
Next == Start \/ Hub \/ Node

\* A timer fires; a group that got SIGKILL ends, and its close event comes (nobody
\* outside the group holds its output open); a POST has a timeout.  That an agent
\* ends by itself is not assumed.
Killed(r) == run[r].killed /\ AgentExits(r)
Fairness == \A r \in Runs : WF_vars(TimerFires(r)) /\ WF_vars(Killed(r))
                            /\ WF_vars(Closes(r)) /\ WF_vars(Posted(r))
Spec == Init /\ [][Next]_vars
FairSpec == Spec /\ Fairness

-----------------------------------------------------------------------------
(***************************************************************************)
(* Properties                                                              *)
(***************************************************************************)
\* What runs for r: the node's kill ends a process group, not a container.
AtWork(r) == r \in adrift \/ (run[r].agent = "alive" /\ (contained \/ ~run[r].killed))
BeyondKill(r) == contained /\ run[r].killed

\* A run is cleaned up after when it is over, and not before.  An agent at work has
\* its directory, which no other job's end takes away (two things in the code do:
\* the end of another run of the same job, and `doctor --fix` beside a live node).
\* However a run ended, its agent is gone; and a command that could not start, or
\* that was stopped when it was online, leaves no agent, no server and no tunnel
\* behind.  Except: a killed agent in a container; and at the stop the runs hidden
\* by another of their job, which have no entry to abort.  Nothing is said of a
\* command that ended by a signal without a handler or by a crash.
CleanedWhenOver ==
    /\ \A r \in Runs : run[r].pc = "agent" /\ AtWork(r) =>
           run[r].job \in dirs \cup shadowed \/ swept
    /\ \A r \in Runs : run[r].pc \in {"posting", "over"} /\ AtWork(r) => BeyondKill(r)
    /\ phase \in {"failed", "exited"} =>
        /\ ~local /\ tunnel \in {"none", "gone"}
        /\ \A r \in Runs : AtWork(r) => run[r].job \in shadowed \/ BeyondKill(r)

\* "Kills the whole process *group* on abort": no killed run leaves "an orphaned
\* model call burning the operator's quota after the job is gone".  It does where
\* the group is docker's client.
KilledIsGone == \A r \in Runs : run[r].pc = "over" => ~AtWork(r)

\* A run that is over has told the broker one thing, a result or an error and
\* never an error after its result, unless its row in the ledger threw.
OneOutcome ==
    \A r \in Runs : run[r].pc = "over" =>
        \/ r \in unledgered
        \/ run[r].told = {"error"}
        \/ run[r].told = {"result"} /\ run[r].agent = "text" /\ ~run[r].killed

\* The node runs what it is sent: only the broker's count keeps it within its
\* capacity, and it does so until a beat that crossed a dispatch, an early
\* release, or the second report of a job has lowered it too far.
WithinCapacity == TypeOK /\ (phase = "online" /\ ~slipped => Due <= Capacity)

\* A run ends, even if its agent hangs: the node's own timer kills the group.
RunsEnd ==
    \A r \in Runs : run[r].pc = "agent" ~> (run[r].pc = "over" \/ phase # "online")
=============================================================================
