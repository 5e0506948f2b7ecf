------------------------------ MODULE Dispatch ------------------------------
(***************************************************************************)
(* What happens to a job once it is paid: dispatch over the control        *)
(* channel, the run on the node, its answer over the socket or over HTTP,  *)
(* the free retry on another provider, the buyer's cancel, the timeout     *)
(* sweep, and a broker restart in between.                                 *)
(*                                                                         *)
(* The handlers of the broker that act here run to their ends without an   *)
(* await, so each is one action; those of the HTTP fallback await the body *)
(* between the check of the sender and the act.  The money (Settlement)    *)
(* and the statistics (Registry) are left out, and a job's clock is one    *)
(* bit: has it passed JOB_TIMEOUT_MS.                                      *)
(*                                                                         *)
(* A link is "up", "half" (the node has lost it, the hub has not noticed   *)
(* and its sends vanish) or "down".                                        *)
(***************************************************************************)
EXTENDS Naturals, Sequences, FiniteSets

CONSTANTS
    Providers,      \* nodes; also the ids the broker knows them by
    Jobs,
    Quoted,         \* those whose quotes are paid
    Streaming,      \* those whose agents tell of their steps while they run
    None,           \* a provider id that no record has (any more)
    Capacity,       \* totalConcurrency of every node
    MaxQueue,       \* bound: messages on the way in one direction of a channel,
                    \* and HTTP answers on the way from one node
    MaxRuns,        \* bound: runs of one job that a node has going at a time
    MaxFaults       \* bound: broken links, crashed nodes, ledger rows that
                    \* throw, broker restarts

ASSUME DispatchAssumption ==
    /\ None \notin Providers
    /\ Quoted \subseteq Providers /\ Streaming \subseteq Providers
    /\ Capacity \in Nat \ {0}
    /\ MaxQueue \in Nat \ {0} /\ MaxRuns \in Nat \ {0}
    /\ MaxFaults \in Nat

VARIABLES
    jobs,           \* JobStore.jobs
    known,          \* providers with a record; their token authenticates them
    offered,        \* those with a fresh beat that offers the capability
    active,         \* how many jobs the broker counts against a provider
    link,           \* the control channel of each provider
    down, up,       \* messages on it, hub to node and node to hub
    posts,          \* HTTP fallbacks under way
    runs,           \* how often a node is running a job
    running,        \* XorvNode.running: the jobs a node has an entry for
    aborted,        \* how many of those runs have an error as their next word
    sentTo,         \* history: the provider the last dispatch of a job went to
    disturbed,      \* history: jobs that were handed out twice, whose acceptance
                    \* was on a wire that broke, or whose run told both outcomes
    faults

fleet == <<known, offered>>
node == <<runs, running, aborted>>
history == <<sentTo, disturbed>>
vars == <<jobs, fleet, active, link, down, up, posts, node, history, faults>>

-----------------------------------------------------------------------------
NoJob == [status |-> "none", provider |-> None, started |-> FALSE, overdue |-> FALSE]
Job == [status: {"assigned", "running", "completed", "failed"},
        provider: Providers \cup {None}, started: BOOLEAN, overdue: BOOLEAN]
Down == [type: {"dispatch", "cancel"}, job: Jobs]
Reports == {"event", "result", "error"}
Up == [type: {"accepted"} \cup Reports, job: Jobs]
Posts == [from: Providers \cup {None}, job: Jobs, type: Reports, checked: BOOLEAN]

TypeOK ==
    /\ jobs \in [Jobs -> Job \cup {NoJob}]
    /\ offered \subseteq known /\ known \subseteq Providers
    /\ active \in [Providers -> Nat]
    /\ link \in [Providers -> {"up", "half", "down"}]
    /\ down \in [Providers -> Seq(Down)] /\ up \in [Providers -> Seq(Up)]
    /\ \A p \in Providers : Len(down[p]) <= MaxQueue /\ Len(up[p]) <= MaxQueue
    /\ posts \subseteq Posts
    /\ runs \in [Providers -> [Jobs -> 0..MaxRuns]]
    /\ aborted \in [Providers -> [Jobs -> Nat]]
    /\ running \in [Providers -> SUBSET Jobs]
    /\ \A p \in Providers : /\ running[p] \subseteq {j \in Jobs : runs[p][j] > 0}
                            /\ \A j \in Jobs : aborted[p][j] <= runs[p][j]
    /\ sentTo \in [Jobs -> Providers \cup {None}]
    /\ disturbed \subseteq Jobs
    /\ faults \in 0..MaxFaults

Terminal(j) == jobs[j].status \in {"completed", "failed"}
InProgress(j) == jobs[j].status \in {"assigned", "running"}

-----------------------------------------------------------------------------
(* JobStore: what its methods make of a job.                               *)

\* The clock starts over when a job is first seen running, and never again.
Start(job) == IF job.started THEN [job EXCEPT !.status = "running"]
              ELSE [job EXCEPT !.status = "running", !.started = TRUE, !.overdue = FALSE]
\* addEvent: word of an assigned job says that it runs (slip: of any job).
AddEventToAny(job) == Start(job)
AddEvent(job) == IF job.status = "assigned" THEN Start(job) ELSE job
Ended(job, status) == [job EXCEPT !.status = status]

\* reassign's patch, and the event it adds; slip: the patch without the provider.
ReassignedInPlace(job, p) == AddEvent([job EXCEPT !.status = "assigned"])
Reassigned(job, p) == AddEvent([job EXCEPT !.status = "assigned", !.provider = p])

\* overdue; slips: jobs no node accepted, and jobs that are over.
OverdueRunning(j) == jobs[j].overdue /\ jobs[j].status = "running"
OverdueAny(j) == jobs[j].overdue /\ jobs[j] # NoJob
Overdue(j) == jobs[j].overdue /\ InProgress(j)

(* Registry: the count of jobFinished, which never goes below zero, and    *)
(* the candidates of match.                                                *)
Fewer(p) == IF p \in known
            THEN [active EXCEPT ![p] = IF @ = 0 THEN 0 ELSE @ - 1] ELSE active
Candidates(act) == {p \in offered : act[p] < Capacity}

(* Hub: a send succeeds on a socket that looks open.  What is sent on one  *)
(* the node has lost vanishes, and so does what exceeds the bound: it waits *)
(* for a node that never reads it.                                         *)
Open(p) == link[p] # "down"
Sent(p, type, j) ==
    [down EXCEPT ![p] = IF link[p] = "up" /\ Len(@) < MaxQueue
                        THEN Append(@, [type |-> type, job |-> j]) ELSE @]

-----------------------------------------------------------------------------
(* The shared tails of the handlers.                                       *)

\* A dispatch goes out to p and the job becomes `job`.
Give(j, job, p, act) ==
    /\ Open(p)
    /\ jobs' = [jobs EXCEPT ![j] = job]
    /\ down' = Sent(p, "dispatch", j)
    /\ active' = [act EXCEPT ![p] = @ + 1]
    /\ sentTo' = [sentTo EXCEPT ![j] = p]
    /\ disturbed' = IF sentTo[j] = None THEN disturbed ELSE disturbed \cup {j}

End(j, job, status, act) ==
    /\ jobs' = [jobs EXCEPT ![j] = Ended(job, status)]
    /\ active' = act
    /\ UNCHANGED <<down, history>>

\* reassign: match names one provider.  It is asked only if it is not the one
\* the job is with and its channel looks open; otherwise the job fails.
Retry(j, job, act) ==
    \/ \E p \in Candidates(act) \ {job.provider} : Give(j, Reassigned(job, p), p, act)
    \/ /\ \/ Candidates(act) = {}
          \/ \E p \in Candidates(act) : p = job.provider \/ ~Open(p)
       /\ End(j, job, "failed", act)

FinishJobOk(j, p) == End(j, jobs[j], "completed", Fewer(p))
FinishJobFailed(j, p) ==
    \/ jobs[j].status = "completed" /\ End(j, jobs[j], "failed", Fewer(p))
    \/ jobs[j].status # "completed" /\ Retry(j, jobs[j], Fewer(p))

\* What an answer of p does, whichever way it came.
Answer(j, p, type) ==
    \/ type = "event" /\ jobs' = [jobs EXCEPT ![j] = AddEvent(@)]
                      /\ UNCHANGED <<active, down, history>>
    \/ type = "result" /\ FinishJobOk(j, p)
    \/ type = "error" /\ FinishJobFailed(j, p)

-----------------------------------------------------------------------------
Init ==
    /\ jobs = [j \in Jobs |-> NoJob]
    /\ known = Providers /\ offered = Providers
    /\ active = [p \in Providers |-> 0]
    /\ link = [p \in Providers |-> "up"]
    /\ down = [p \in Providers |-> <<>>] /\ up = [p \in Providers |-> <<>>]
    /\ posts = {}
    /\ runs = [p \in Providers |-> [j \in Jobs |-> 0]]
    /\ running = [p \in Providers |-> {}]
    /\ aborted = runs
    /\ sentTo = [j \in Jobs |-> None]
    /\ disturbed = {}
    /\ faults = 0

\* The paid handler: createJob for a quote of p, then dispatch.
Paid(j, p) ==
    LET job == [status |-> "paid", provider |-> p, started |-> FALSE, overdue |-> FALSE] IN
    /\ jobs[j] = NoJob
    /\ \/ p \notin known /\ End(j, job, "failed", active)
       \/ p \in known /\ Give(j, [job EXCEPT !.status = "assigned"], p, active)
       \/ p \in known /\ ~Open(p) /\ Retry(j, job, active)
    /\ UNCHANGED <<fleet, link, up, posts, node, faults>>

\* POST /api/jobs/:id/cancel: tell the node, release its slot, fail the job.
Cancel(j) ==
    LET p == jobs[j].provider IN
    /\ InProgress(j)
    /\ jobs' = [jobs EXCEPT ![j] = Ended(AddEvent(@), "failed")]
    /\ down' = IF p = None THEN down ELSE Sent(p, "cancel", j)
    /\ active' = Fewer(p)
    /\ UNCHANGED <<fleet, link, up, posts, node, history, faults>>

\* JOB_TIMEOUT_MS pass since the job started (or was assigned), and the sweep
\* that follows.  It meets one job at a time.
TimePasses(j) ==
    /\ InProgress(j)
    /\ ~jobs[j].overdue
    /\ jobs' = [jobs EXCEPT ![j].overdue = TRUE]
    /\ UNCHANGED <<fleet, active, link, down, up, posts, node, history, faults>>
Sweep(j) ==
    /\ Overdue(j)
    /\ FinishJobFailed(j, jobs[j].provider)
    /\ UNCHANGED <<fleet, link, up, posts, node, faults>>

-----------------------------------------------------------------------------
\* The hub reads a message.  Whether the job is the sender's is not asked.
HubReceives(p) ==
    /\ up[p] # <<>>
    /\ LET m == Head(up[p]) IN
       \/ m.type = "accepted" /\ jobs' = [jobs EXCEPT ![m.job] = Start(@)]
                              /\ UNCHANGED <<active, down, history>>
       \/ Answer(m.job, p, m.type)
    /\ up' = [up EXCEPT ![p] = Tail(@)]
    /\ UNCHANGED <<fleet, link, posts, node, faults>>

\* The HTTP fallback: the token must be known and the job the sender's ...
PostIsChecked(post) ==
    /\ ~post.checked
    /\ posts' = IF post.from \in known /\ jobs[post.job].provider = post.from
                THEN (posts \ {post}) \cup {[post EXCEPT !.checked = TRUE]}
                ELSE posts \ {post}
    /\ UNCHANGED <<jobs, fleet, active, link, down, up, node, history, faults>>
\* ... when the request comes, and is not looked at again when its body has come.
PostActs(post) ==
    /\ post.checked
    /\ posts' = posts \ {post}
    /\ Answer(post.job, post.from, post.type)
    /\ UNCHANGED <<fleet, link, up, node, faults>>
PostIsLost(post) ==
    /\ posts' = posts \ {post}
    /\ UNCHANGED <<jobs, fleet, active, link, down, up, node, history, faults>>

-----------------------------------------------------------------------------
\* The node sends on its socket, and by HTTP when it has none.
Report(p, j, type) ==
    \/ /\ link[p] = "up"
       /\ Len(up[p]) < MaxQueue
       /\ up' = [up EXCEPT ![p] = Append(@, [type |-> type, job |-> j])]
       /\ UNCHANGED posts
    \/ /\ link[p] # "up"
       /\ Cardinality({post \in posts : post.from = p}) < MaxQueue
       /\ posts' = posts \cup {[from |-> p, job |-> j, type |-> type, checked |-> FALSE]}
       /\ UNCHANGED up

\* A dispatch starts a run, one more if the job is running here already; a
\* cancel aborts the run the entry of the job belongs to.
NodeReceives(p) ==
    /\ down[p] # <<>>
    /\ LET m == Head(down[p]) IN
       \/ /\ m.type = "dispatch"
          /\ runs[p][m.job] < MaxRuns /\ Len(up[p]) < MaxQueue
          /\ runs' = [runs EXCEPT ![p][m.job] = @ + 1]
          /\ running' = [running EXCEPT ![p] = @ \cup {m.job}]
          /\ up' = [up EXCEPT ![p] = Append(@, [type |-> "accepted", job |-> m.job])]
          /\ UNCHANGED aborted
       \/ /\ m.type = "cancel"
          /\ aborted' = IF m.job \in running[p] /\ aborted[p][m.job] < runs[p][m.job]
                        THEN [aborted EXCEPT ![p][m.job] = @ + 1] ELSE aborted
          /\ UNCHANGED <<runs, running, up>>
    /\ down' = [down EXCEPT ![p] = Tail(@)]
    /\ UNCHANGED <<jobs, fleet, active, link, posts, history, faults>>

NodeStreams(p, j) ==
    /\ p \in Streaming
    /\ runs[p][j] > 0
    /\ Report(p, j, "event")
    /\ UNCHANGED <<jobs, fleet, active, link, down, node, history, faults>>

\* The adapter answers or throws; an aborted run throws.  The entry goes, even
\* if another run of the job goes on.
NodeFinishes(p, j) ==
    /\ runs[p][j] > 0
    /\ \/ /\ runs[p][j] > aborted[p][j]
          /\ Report(p, j, "result") \/ Report(p, j, "error")
          /\ UNCHANGED aborted
       \/ /\ aborted[p][j] > 0
          /\ Report(p, j, "error")
          /\ aborted' = [aborted EXCEPT ![p][j] = @ - 1]
    /\ runs' = [runs EXCEPT ![p][j] = @ - 1]
    /\ running' = [running EXCEPT ![p] = @ \ {j}]
    /\ UNCHANGED <<jobs, fleet, active, link, down, history, faults>>

\* The result is told and then its row in the ledger throws (ensureHome), outside
\* appendEarning's own try: the run has an error yet to tell.
NodeTellsBoth(p, j) ==
    /\ faults < MaxFaults
    /\ faults' = faults + 1
    /\ runs[p][j] > aborted[p][j]
    /\ Report(p, j, "result")
    /\ aborted' = [aborted EXCEPT ![p][j] = @ + 1]
    /\ disturbed' = disturbed \cup {j}
    /\ UNCHANGED <<jobs, fleet, active, link, down, runs, running, sentTo>>

\* A beat: the node's own count replaces the broker's, and it offers the
\* capability if it has a slot and is not paused.  A node the broker does not
\* know registers again, offers everything and starts at nought.
Heartbeat(p) ==
    /\ \/ /\ p \in known
          /\ active' = [active EXCEPT ![p] = Cardinality(running[p])]
          /\ \/ Cardinality(running[p]) < Capacity /\ offered' = offered \cup {p}
             \/ offered' = offered \ {p}
       \/ /\ p \notin known
          /\ active' = [active EXCEPT ![p] = 0]
          /\ offered' = offered \cup {p}
    /\ known' = known \cup {p}
    /\ UNCHANGED <<jobs, link, down, up, posts, node, history, faults>>

-----------------------------------------------------------------------------
(* What goes wrong around them.                                            *)

\* No beat for HEARTBEAT_OFFLINE_MS; and, the channel gone too, for
\* PROVIDER_REAP_MS: the record goes and its id and token with it.  A request that
\* was let in before goes on under an id nobody has.
GoesSilent(p) ==
    /\ p \in offered
    /\ offered' = offered \ {p}
    /\ UNCHANGED <<jobs, known, active, link, down, up, posts, node, history, faults>>
Orphaned(ids) ==
    [j \in Jobs |-> IF jobs[j].provider \in ids THEN [jobs[j] EXCEPT !.provider = None]
                    ELSE jobs[j]]
Reap(p) ==
    /\ p \in known \ offered
    /\ link[p] = "down"
    /\ known' = known \ {p}
    /\ jobs' = Orphaned({p})
    /\ posts' = {post \in posts : post.from # p} \cup
                {[post EXCEPT !.from = None] : post \in {q \in posts : q.from = p /\ q.checked}}
    /\ UNCHANGED <<offered, active, link, down, up, node, history, faults>>

\* The node loses its socket, what was on the way to it included; the hub
\* notices later, and what was on the way to the hub may be lost then.
Break(p) ==
    /\ link[p] = "up"
    /\ faults < MaxFaults
    /\ faults' = faults + 1
    /\ link' = [link EXCEPT ![p] = "half"]
    /\ down' = [down EXCEPT ![p] = <<>>]
    /\ disturbed' = disturbed \cup {j \in Jobs : \E i \in DOMAIN up[p] :
                                       up[p][i] = [type |-> "accepted", job |-> j]}
    /\ UNCHANGED <<jobs, fleet, active, up, posts, node, sentTo>>
HubNotices(p) ==
    /\ link[p] = "half"
    /\ link' = [link EXCEPT ![p] = "down"]
    /\ up' = [up EXCEPT ![p] = <<>>]
    /\ UNCHANGED <<jobs, fleet, active, down, posts, node, history, faults>>
Reconnect(p) ==
    /\ p \in known
    /\ link[p] # "up"
    /\ link' = [link EXCEPT ![p] = "up"]
    /\ UNCHANGED <<jobs, fleet, active, down, up, posts, node, history, faults>>

\* A node process dies and takes its runs along.
NodeCrashes(p) ==
    /\ faults < MaxFaults
    /\ faults' = faults + 1
    /\ runs' = [runs EXCEPT ![p] = [j \in Jobs |-> 0]]
    /\ aborted' = [aborted EXCEPT ![p] = [j \in Jobs |-> 0]]
    /\ running' = [running EXCEPT ![p] = {}]
    /\ link' = [link EXCEPT ![p] = IF @ = "up" THEN "half" ELSE @]
    /\ down' = [down EXCEPT ![p] = <<>>]
    /\ UNCHANGED <<jobs, fleet, active, up, posts, history>>

\* The broker restarts on its stored jobs; the nodes keep running.
Restart ==
    /\ faults < MaxFaults
    /\ faults' = faults + 1
    /\ known' = {} /\ offered' = {}
    /\ jobs' = Orphaned(Providers)
    /\ active' = [p \in Providers |-> 0]
    /\ link' = [p \in Providers |-> "down"]
    /\ down' = [p \in Providers |-> <<>>] /\ up' = [p \in Providers |-> <<>>]
    /\ posts' = {}
    /\ UNCHANGED <<node, history>>

-----------------------------------------------------------------------------
Broker ==
    \/ \E j \in Jobs, p \in Quoted : Paid(j, p)
    \/ \E j \in Jobs : Cancel(j) \/ TimePasses(j) \/ Sweep(j)
    \/ \E p \in Providers : HubReceives(p)
    \/ \E post \in posts : PostIsChecked(post) \/ PostActs(post) \/ PostIsLost(post)
Node(p) ==
    \/ NodeReceives(p)
    \/ \E j \in Jobs : NodeStreams(p, j) \/ NodeFinishes(p, j) \/ NodeTellsBoth(p, j)
    \/ Heartbeat(p)
Trouble(p) ==
    \/ GoesSilent(p) \/ Reap(p)
    \/ Break(p) \/ HubNotices(p) \/ Reconnect(p)
    \/ NodeCrashes(p)

Next == Broker \/ (\E p \in Providers : Node(p) \/ Trouble(p)) \/ Restart

\* Nothing is assumed of nodes and networks; only time passes, and the broker's
\* interval timer sweeps.
Fairness == \A j \in Jobs : WF_vars(TimePasses(j)) /\ WF_vars(Sweep(j))
Spec == Init /\ [][Next]_vars
FairSpec == Spec /\ Fairness

-----------------------------------------------------------------------------
(***************************************************************************)
(* Properties                                                              *)
(***************************************************************************)
\* A job in progress is with the provider it was last sent to (unless that one
\* has been forgotten): neither dispatch nor reassign, whose record and send are
\* separate calls, leaves it waiting for a node that never heard of it.
InProgressWasSent ==
    TypeOK /\ \A j \in Jobs : InProgress(j) => jobs[j].provider \in {sentTo[j], None}

\* A result that was delivered stays delivered, and the work is not handed out
\* again: not by a late event, by HTTP or by the socket, not by the sweep, a cancel,
\* a beat, a reconnect or a restart.  Excepted by name (disturbed) are the jobs for
\* which the code does not keep it: those handed out twice, those whose "accepted"
\* was on a wire that broke, which may come after the result sent by HTTP, and those
\* whose run told both outcomes.
DeliveredStays ==
    [][\A j \in Jobs \ disturbed : jobs[j].status = "completed" =>
         jobs'[j].status = "completed"]_vars

\* job-view.tsx says of a job in a terminal state: "a finished job is a static
\* document".  A job that is completed stays completed.
FinishedIsStatic ==
    [][\A j \in Jobs : jobs[j].status = "completed" => jobs'[j].status = "completed"]_vars

\* types.ts says of a provider's lifetime earnings: "summed across settled jobs".  A
\* job's one payment is summed once: no second result of it is taken, to be added to
\* the earnings of whoever sent it.
ResultTaken(j) ==
    \/ \E p \in Providers : up[p] # <<>> /\ Head(up[p]) = [type |-> "result", job |-> j]
                            /\ HubReceives(p)
    \/ \E post \in posts : post.job = j /\ post.type = "result" /\ PostActs(post)
EarnedOnce == [][\A j \in Jobs : jobs[j].status = "completed" => ~ResultTaken(j)]_vars

\* Once no node runs a job and no message about it is on the way, its outcome
\* is final: the sweep, heartbeats, reconnects and restarts never touch it.
About(q, j) == {i \in DOMAIN q : q[i].job = j /\ q[i].type # "cancel"}
Quiet(j) ==
    /\ \A p \in Providers : /\ runs[p][j] = 0
                            /\ About(down[p], j) = {} /\ About(up[p], j) = {}
    /\ \A post \in posts : post.job # j
OutcomeIsFinalWhenQuiet ==
    [][\A j \in Jobs : Terminal(j) /\ Quiet(j) => jobs'[j].status = jobs[j].status]_vars

\* A job that is there is handed to another provider than it was with.
HandedOn(j) == jobs[j] # NoJob /\ jobs'[j].provider \notin {jobs[j].provider, None}

\* However nodes, links and the broker fail, no provider keeps a job for ever:
\* a job that stays in progress is handed on again and again, because the sweep
\* meets every job in progress, accepted or not, the orphans of a restart included.
NoProviderKeepsJob ==
    \A j \in Jobs : <>[]InProgress(j) => []<><<HandedOn(j)>>_vars

\* jobs.ts says of overdue: "Jobs that have outlived the ceiling and should be
\* failed", app.ts of a failed run: "One free retry elsewhere before the poster is
\* told it failed".  A job in progress is completed or failed in the end.
JobsEnd == \A j \in Jobs : InProgress(j) ~> Terminal(j)

\* app.ts says of cancel: "It stops the work and frees their slot."  A job that was
\* cancelled, and is failed by that, is not handed to anybody any more.
CancelStopsWork ==
    [][\A j \in Jobs : jobs[j].status = "failed" => ~HandedOn(j)]_vars
=============================================================================
