# TLA+ models of Xorv

Xorv is a market for AI jobs. People run *provider nodes* (`packages/cli`) that
offer a coding agent at a price; buyers (web app, CLI, MCP server) ask the
*broker* (`services/broker`) for a quote, pay the provider's Hedera account
through x402, and follow the job while a node runs it. The broker never holds
money. What it must get right is bookkeeping under concurrency: which payment
belongs to which job, which node has which job, and what survives a restart.

This directory holds TLA+ modules of that core, TLC configurations that check
them on small instances, and TLAPS proofs about them for every instance.
`PROJECT.json` maps each definition to the source lines it models, and lists the
hazards of the code with the properties aimed at them.

```
tlc -workers 2 -config MCSettlement.cfg MCSettlement      # a run
tlapm SettlementProofs.tla                                # a proof module
```

## 1. The system

| part | state it keeps | operations | talks to |
| --- | --- | --- | --- |
| **Quotes and jobs** `jobs.ts` | `quotes`, `jobs`, `sequence` | createQuote, getQuote (expires lazily), createJob, setStatus, patch, addEvent, complete, fail, overdue | store (save on every change), live streams |
| **Paid path** `app.ts` 357-567 | locals of each request across the awaits of the x402 middleware | POST /api/quotes, quote guard, resolvers, handler, `onAfterSettle` | facilitator (verify, settle), registry, jobs |
| **Registry** `registry.ts` | `providers`, `byToken`, `byNodeId`, `restoredStats` | register, heartbeat, match, jobStarted, jobFinished, reap | store (one statistics row per node id) |
| **Dispatch and completion** `app.ts` 585-613, 719-876, 896-929 | none of its own | dispatch, reassign, finishJobOk, finishJobFailed, cancel, sweep | hub, registry, jobs, receipts |
| **Hub** `hub.ts` | `sockets` | upgrade/attach, handle, send, close | nodes |
| **Node** `packages/cli/src/node.ts` | `running`, socket, `providerId`, `token`, backoff | register, heartbeat, connect, runJob, reportError, postJson, stop | broker over HTTP and the socket, adapters |
| **Stores** `store.ts`, `store-mongo.ts` | SQLite rows; `pendingJobs`, `pendingStats`, connection flag | load, save, background flush, retryPending | SQLite, MongoDB |
| **Receipts and streams** `app.ts` 616-690, 822-858, `chain.ts` | `publishedReceipts`, subscribers | publishReceiptWhenReady, the job stream | Hedera Consensus Service, watchers |
| **Guards, rates** `guards.ts`, `money.ts` | a fixed window per client; the cached rate and the fetch under way | rateLimit, bodyLimit, HbarRateCache.get | Mirror Node |
| **Node machine** `start.ts`, `adapters/`, `tunnel.ts` | local server, cloudflared child, job directories, agent processes | startCommand, runChild, makeJobDir, removeJobDir | agents, broker |
| **Operator's files and commands** `config.ts`, `init.ts`, `manage.ts`, `wallet.ts`, `doctor.ts`, `credentials.ts`, `sandbox.ts` | `config.json`, `earnings.jsonl`, the pause flag, cached sessions | init, price, wallet, earnings, doctor, test, pause, resume | the operator |
| **Clients** web app (`composer.tsx`, wallets, job page), `run.ts`, MCP server | the card and its quote, the wallet session, the job last seen | quote, sign, pay, follow | broker |

The broker is one JavaScript thread: a handler runs to its next `await` without
interruption, and anything may happen during the await. That decides the grain
of every action below. The concurrency that matters is

* between paid requests suspended in the middleware (quote guard *before* the
  await, job creation and settlement hook *after* it);
* between the broker and the nodes, over sockets that break half-open, an HTTP
  fallback that reorders, timeouts on both sides, cancels, and restarts of either;
* between what is in memory and what the durable rows say;
* between two ends of a socket, each of which learns of its end by itself, and the
  timers and heartbeats that dial the next;
* between a page whose fields, quote, wallet and payment change under one another's
  awaits; and between a job and those who watch it;
* between an operator's commands, the running node, and the machine under both.

What makes each part correct:

* *Paid path*: a payment on a job is a real transfer to that job's provider; one
  transfer is on one job; it stays there; none is dropped; a quote is sold once;
  a job carries its own buyer's payment.
* *Registry*: the three maps describe one fleet; a node keeps its identity; its
  lifetime statistics outlive silences and restarts.
* *Dispatch*: a job in progress is with the node it was sent to; a delivered result
  stays delivered; no node can keep a job for ever; an outcome, once everything
  about the job has been heard, stands; a cancelled job is not restarted.
* *Stores*: what the cloud copy missed is known and replayed, a late write does not
  undo a newer one, and a restart comes back with the newest state.
  (The code keeps much of this only in part: section 3 lists what it breaks.)
* *Receipts*: one per job, true, and in the end there. *Hub*: the open socket of a
  node is the one it uses, and a node always comes back. *Guards*: the limit holds
  over window boundaries; a quote is priced at a young rate.
* *Node*: a run ends, tells one outcome and leaves nothing; a working agent keeps
  its directory; the node is not given more than it offers.
* *Clients*: a buyer pays once, what was quoted for what was typed, from the account
  shown, and hears the truth about the job.
* *Operator*: a configuration is never torn, the key of the payout account never
  parted from it; what doctor and test say holds of the node.

## 2. The modules

### Settlement - the paid path

One action per stretch between two awaits. A request of the paid route is a
program counter

    idle -> guarded -> verifying -> settling -> executed -> done

| action | code |
| --- | --- |
| `MatchQuote`, `CreateQuote` | POST /api/quotes before and after `await rates.get()`; the record matched is kept across it |
| `Post` | the quote guard: 404/409 (`refused`) or on to the middleware (`guarded`) |
| `Resolve` | `payTo`/`price` resolvers, which re-read the quote and fall back to `""`/`"0"` |
| `VerifyFails`, `HandleExpired`, `Handle` | the facilitator's refusal; the handler's 409; `createJob` and `dispatch` |
| `LedgerExecutes`, `SettleFails`, `OnAfterSettle` | settlement on the network; its failure or lost answer; the hook that searches the newest 50 jobs for an unpaid one of the payee |
| `Register`, `GoOffline`, `Expire`, `Sign`, `Restart` | the world around: providers change account and price, go silent, quotes run out, buyers sign, the broker restarts |

Abstractions. One asset stands for the two the route accepts. A job is named by
the request that made it. `getQuote` deletes an expired quote lazily; no caller
can tell that from its being gone, so the model drops it at expiry. Dispatch is
reduced to "sent or failed": the hook must work for both. The store is
write-through: a restart keeps every job (section 6). *External assumptions*: the
facilitator may refuse anything, but accepts only a payload signed for the
requirement it is shown; the network executes a transaction id at most once, and
may still do so after the broker that submitted it has died.

### Registry - the fleet and its statistics

Each method is synchronous, hence one action: `RegisterNew`, `RegisterAgain`
(`register` for an unknown and a known node id), `Heartbeat`, `JobStarted`,
`JobFinished` (which also saves the row), `Reap`, `Restart`. Ids and tokens, random
and never repeated, are numbers handed out in order. Heartbeat times are ages in
ticks. `earnedUsdcMicros`/`earnedTinybars` are one number; the running mean of
durations is left out. `saved` is the durable statistics table.

### Dispatch - the job's life after payment

The handlers of the broker (`Paid`, `Cancel`, `Sweep`, `HubReceives`, `PostActs`)
share `Give` (send, record, count), `End` and `Retry` (`reassign` or fail) as the
code does. A node receives, streams, finishes (result, error, or the error of an
abort), beats, and re-registers when the broker has forgotten it. A link is `up`,
`half` (the node has lost it, the hub has not noticed, its sends vanish) or `down`;
answers go over the socket if it is up, else by HTTP, unordered and lossy. The HTTP
handlers await the request's body between the check that the job is the sender's
(`PostIsChecked`) and the act (`PostActs`): the job may change hands in between.
`NodeTellsBoth` is a run whose result is sent and whose row in the ledger then throws,
so that its error follows. `Streaming` are the nodes whose agents tell of their steps.

`disturbed` names the jobs for which a delivered result is not safe: those handed out
twice, those whose "accepted" was on a wire that broke, and those whose run told both
outcomes. `accepted` makes any job running, a completed one too (`app.ts` 906), and an
error of a running job hands it on, so a late `accepted` and a late error restart work
that was delivered; `DeliveredStays` is about the others, and `FinishedIsStatic` and
`EarnedOnce` show the case (section 3).

Abstractions. A job's clock is one bit, "past `JOB_TIMEOUT_MS`", cleared when the
clock starts (`startedAt` is set once, so reassignment does not clear it again).
`match`'s choice by price and score is any candidate, so every order of prices is
covered. `offered` folds liveness, the capability filter and the availability of
the last beat into one set. A provider that has been reaped or forgotten by a
restart is `None` for the jobs that name it, since its id never returns. A reap
of a provider whose socket is still open is left to ControlChannel: here `Reap`
needs the link to be down. The run timeout of the node is one of the ways
`NodeFinishes` reports an error. Statistics and money are the other modules'.

### LayeredStore - the two durable copies

A row, a job or a node's statistics, is reduced to its version: the n-th state it
has been in. `memory`, `local` (SQLite) and `mongo` hold one version per key;
`pending` is the pair of maps of unacknowledged writes.

| action | code |
| --- | --- |
| `Save` | `saveJob`, `saveStats`: the local write, the pending map, and the flush up to its `await` |
| `SaveFails` | the local write throws, `persist` logs it, memory has moved on |
| `Send`, `Apply` | the driver puts the update on the wire, the server applies it (external) |
| `Acknowledge`, `Fail` | the flush after its `await`: take the key off the pending map, whatever is there, or `markDisconnected` |
| `RetryStart`, `RetryNext`, `RetryStats`, `RetryBreaks` | `retryPending`: its two loops, one flush at a time, each over a list taken when it begins |
| `Restart` | boot: `connect`, which may fail before there is a client, after, or between the tables; `loadJobs`, `loadStats` |
| `Outage`, `Recover`, `Vanish` | MongoDB goes and comes; a write that was given up never arrives |

Two facts of the code decide what a write carries. Jobs are handed to the driver by
reference, so a job's update holds the state it is in when it is serialised, and the
saves of one tick (`createJob`'s and `dispatch`'s) carry the same state; the
statistics row is a copy. And a write the driver gave up may still be applied: it
stays "lost" until it is applied or vanishes.

`raced` marks the rows saved while a write that carries an older state was under way
(`Crossed`): the two may be applied in either order, and the acknowledgement of the older
clears the marker of the newer. `MissedIsPending` and `MongoNeverRollsBack` leave these
rows out, and nothing else. The code's words do not: `MissesAreReplayed` states, for
every row, that what MongoDB missed is pending or on its way, and TLC finds the
acknowledgement of the older write that breaks it.

Abstractions. An update fails only while MongoDB is down. A second `retryPending`
does not start while one runs (its timer ticks every 30 s). The limits on rows
restored, and pruning of old rows, are left out. `Slots` bounds the writes under way.

### Composer - a tab of the web app

The card, the wallet provider and the payments it started. `getQuote` and `pay` are
each an action that starts a call and actions for its end; nothing cancels a call,
so an answer is applied to whatever the tab shows by then.

| action | code |
| --- | --- |
| `Edit`, `Cancel`, `GetQuote`, `QuoteAnswered` | `composer.tsx`: the fields' onChange, reset, getQuote before and after its fetch (button and shortcut) |
| `Pay`, `Sign`, `SignAsServer`, `SignFails`, `PayThrows` | `pay`; `pay-with-wallet.ts`; the route `/api/pay` that signs with the deployment's account |
| `Arrive`, `Settle`, `Answer`, `Drop` | the broker's guard and the middleware's verify, either of which may refuse and leave the quote unsold; the handler; the answer; a connection that drops while the broker goes on |
| `Restore`, `Connect`, `Approve`, `Dismiss`, `Disconnect`, `DisconnectDone` | `hashpack.ts`, `wallet-provider.tsx`, `connect.tsx` |

A quote is named by the request that asked for it, a session by its connector.

### Purchase - a job seen by its buyer, and its receipt

One job. The buyer is `xorv run`, the MCP tool, or a browser that goes to the job's
page; what providers report is reduced to `FinishOk` and `FinishFailed`, late and
repeated reports included. `Emit` appends a frame to each subscriber's queue.
`Start`/`Recheck`/`Publish` are `publishReceiptWhenReady` before, in and after its
awaits: the grace loop may see the payment at any look or run out, and a publish may
fail, or reach the topic and seem to fail. `Watch`, `WatchFrame`, `AwaitReceipt`,
`GiveUpReceipt` are the CLI; `Poll`, `PollAgain`, `PollTimeout` the tool; `Load`,
`Subscribe`, `PageFrame`, `Reconnect`, `Cleanup`, `Refetch` the page's effect.

### ControlChannel - a node's sockets

A socket has two ends, each with its own state, and the URL it was dialled with: a
token and an origin. `Upgrade`, `HubCloses` are the hub's attach (which supersedes)
and close event; `NodeOpens`, `NodeCloses`, `TimerFires` the node's; `Heartbeat`,
`Known`, `Forgotten`, `Registered` a heartbeat's request, its answer, and the
re-registration that closes the socket and dials `result.wsUrl`. `Reap`, `Restart`,
`Break`, `RequestFails` and `Stop` are the trouble. Neither end sends pings or sets
keepalive, so a broken wire is noticed by an end only if something resets it (`Break`
chooses which ends are `told`) or if the end happens to send; `HubIsTold` and `NodeIsTold`
say when an end must see the close, and beyond that it may or may not. A node all of whose
sockets are on broken wires of which nothing tells it is `Deaf`: its heartbeats, which
go by HTTP, are answered, and it never dials again. `AdvertisedWorks` says whether the
address the broker advertises can be dialled. The hub shares nothing between two
providers but the map, with one entry each, so one node is enough.

### ProviderNode - one provider's machine

`startCommand` (`Probe`, `Serve`, `RaiseTunnel`, `TunnelSettles`, `Register`, `Stop`),
the runs (`Receive`, `TimerFires`, `AgentExits`, `Closes`, `Delivers`/`Fails`, `Posted`,
`Finally`) and the broker's count (`Dispatch`, `Heard`, `BeatLeaves`, `BeatArrives`). A
run lives in three places that are not updated together: the process group of its
agent, its entry in `running`, its directory. Each adapter is what it makes of an exit
(`ClaudeCode`, `Codex`, ...): which of text and error flag count as a result. `Closes`
is runChild's close handler; `Abort` kills at once, with SIGKILL, the process group of the
command. In the container tier that is docker's client, and the container goes on
(`contained`, `adrift`, `ContainerExits`). `Stop` is what the handlers of SIGINT and SIGTERM
do; they are installed after the registration, so a signal during the start-up, and a SIGHUP
at any time, ends the process with nothing taken down (`Signalled`).

### NodeConfig - config.json and the ledger

`saveConfig` is `Open` (truncate the temporary file), `Write`, `Rename`, on inodes, so
that two commands that share the temporary name do to each other what they do on a
disk. The commands that change the configuration (`initCommand`, `priceCommand`,
`walletNew`) read, may ask, and save; `Interrupt` is Ctrl-C or a crash anywhere.
An append to the ledger may fail, which `appendEarning` catches and the row is gone, or be
cut short, by a full disk or the end of the process, and leave half a line in which the
next row goes on.

### Doctor - what the operator is told

`doctor`, `test` and `wallet associate` are processes of their own that read
everything afresh: their reports are operators on the state (`doctorCommand`,
`testCommand`, with one operator per group of checks). What changes under them is
the state: installed agents, sign-ins, sessions with an expiry in keychain or file,
the cache of the running node, the payout account's association and free slots, the
services. `detectSandbox` and `wrapCommand` are tables over the machine. What a job is left
with decides whether its agent answers (`Answers`): the environment is scrubbed, so the
key that doctor takes for Grok's sign-in does not reach it; bubblewrap hides the home
directory, with agents and sign-ins in it; the default image of the container holds neither
(`AgentInSight`, `Tools`). Seatbelt denies named secrets only and takes nothing from the agents.

### QuoteDesk - up to the quote

`rateLimit` counts in a fixed window per client and a sweeper drops windows that are
over; `Request` is POST /api/quotes up to `await rates.get()`; requests that find the
rate stale share one fetch (`flight`), which `MirrorAnswers` and `RateArrives`, or
`FetchFails`, end for all of them. `Reprices` and `RateRotates` change what was read.
`came`, `seen` and `failed` are history. Amounts are exact integers; the
code's double-precision division is rounded up just the same.

### Bookkeeping - what the paid path promises

The abstract specification: a job is owed to one account, a transfer is signed to one
account, executed once, and entered at one job owed to its payee, for good. No
requests, quotes, prices, restarts. `ImplementsBookkeeping` in Settlement instantiates
it with `owed` = the account on each job, `payee` = the payee of each signed payload,
`executed` = the ledger, `booked` = the transaction id of each job's payment.

## 3. The runs

| run | instance | states | shows |
| --- | --- | --- | --- |
| `settlement` | 1 provider with 2 accounts, 2 quotes, 3 requests, 2 transfers, 1 restart | 2.1 M | `BookedPaymentIsReal`, `BookedOnce`, `SettlementFindsJob`, `PaymentIsFinal`, `ImplementsBookkeeping` |
| `registry` | 2 nodes, 3 ids, 1 restart | 175 k | `IndexConsistent`, `RowFollowsRecord`, `IdentityIsStable`, `RecordNeverRolledBack` |
| `dispatch` | 1 job, quoted for one of 2 nodes, which streams, 1 fault | 2.0 M | `InProgressWasSent`, `DeliveredStays`, `OutcomeIsFinalWhenQuiet`, `NoProviderKeepsJob` |
| `layered_store` | 1 job, 1 node, 2 versions, 2 writes at a time, 1 outage, 1 restart | 882 k | `MissedIsPending`, `MongoNeverRollsBack`, `PendingDrains` |
| `composer` | 3 inputs (one blank, one without a price), 2 quotes, 2 payments, 2 wallet sessions | 7.7 M | `QuoteIsOfInput`, `PaidOnce`, `SignedByAccountShown` |
| `purchase` | 1 job, 2 reports, 2 prices, 1 restart, each kind of buyer | 197 k | `OneReceipt`, `FailureIsReal`, `WatchingEnds`, `ReceiptFollows` |
| `control_channel` | 4 sockets and 2 heartbeats at a time, 1 trouble | 86 k | `HoldsWhatIsOpen`, `KeepsRejoining`, `SettlesDown` |
| `provider_node` | 2 jobs, 2 runs (of one job, too), capacity 1, 1 fault | 1.6 M | `CleanedWhenOver`, `OneOutcome`, `WithinCapacity`, `RunsEnd` |
| `node_config` | 2 commands at once, 2 prices, 2 accounts, 4 rows of which the reader sees 3, 1 interruption or failed append | 1.3 M | `ConfigWhole`, `SaidIsSaved`, `LedgerKept` |
| `doctor` | 12 machines, 7 accounts, 3 offers, 3 changes, 3 ticks | 3.1 M | `NothingBrokenEarns`, `TestSpeaksForNode` |
| `quote_desk` | 3 requests, 2 clients, 2 prices, 2 rates, 5 ticks, 1 change | 2.9 M | `LimitHolds`, `QuoteIsFair`, `NoHbarForCause` |

The type invariants of Settlement, Registry, LayeredStore, ControlChannel, Dispatch,
Composer, Purchase and ProviderNode are proved (section 4), and those of NodeConfig,
Doctor and QuoteDesk (`ConfigTypeOK`, ...); in all but the first three, the type invariant
is a conjunct of one of the invariants TLC checks.

Why the bounds are enough. *settlement*: every property relates at most two jobs
and two payments; two quotes and two transfers give the pairs, a third request
replays one of them, and a provider that may change account gives the payee
mismatch. Prices are only copied and compared, so one price is enough; with
`ListLimit = 3` the limit is not exceeded, which is the premise of
`SettlementFindsJob`. Both restart outcomes of a submitted transfer are covered by
one restart. *registry*: two nodes that contend for indexes, three ids so that one
of them can come back twice; `MaxFinished = 2` distinguishes a stale row from a
current one. *dispatch*: properties are about one job at a time; two nodes,
alike but for the quote and the streaming, are what a retry needs, and one broken link,
crash, restart or doubly told run at any moment. One
message or HTTP answer per node and direction (`MaxQueue`) makes a node wait
before it says more, which loses no order of two nodes' messages; a hub send that
exceeds it vanishes, as on a half-open link, which is a message the node never
gets round to reading. `MaxRuns = 1` delays a second run of one job on one node.
*layered_store*: rows do not interact but through the connection and the retry
loop, so one of each table is enough; two versions give an older and a newer state,
two slots two writes that overtake each other. *composer*: the card shows one
quote, so two quotes give an older and a newer one, two payments a repeated one; two
sessions give a switch of wallets. *purchase*: two reports are a double completion, or
an error and a late result. *control_channel*: a socket that is over at both ends is
used again, so four at a time are two superseding chains; two heartbeats are the
pair whose registrations cross. Two troubles and three that follow on each other are
checked with one heartbeat at a time (`MCControlChannel_Troubles.cfg`, 614 k states, no
run of the list; it passes). *provider_node*: two runs are two jobs, or one job twice, over a
capacity of one. The jobs are alike, so the first one dispatched may be called `j1`: the
action constraint `FirstIsJ1` drops the mirror images (a symmetry set would be unsound for
`RunsEnd`). *node_config*: two commands are a race; a third would repeat it. Four rows, of
which the reader looks at three, put a row beyond its limit; one of them may fail or be cut
short, and the next goes on in the cut line. *doctor*: three changes
are a configuration, a sign-in and something that moves under them; a session of two
ticks with a margin of one has been fresh, inside the margin and spent in three.
*quote_desk*: a limit of one in windows of two ticks over five ticks gives two and a
half windows, so a boundary with a request on each side and one between.

Symmetry is used for sets of interchangeable names only, and never with liveness
(`settlement`, whose action properties and refinement are safety, included).

`CHECK_DEADLOCK FALSE` in every configuration but Settlement's: with its bounds
spent, or every job over and no node talking, the model may stop.

*Fairness.* Dispatch assumes that time passes (`TimePasses`) and that the
broker's interval timer sweeps (`Sweep`, `setInterval(sweep, 15_000)` in
`index.ts`), and nothing of nodes, networks or heartbeats. LayeredStore
assumes that the driver answers or gives up each write in the end (it has
timeouts), and that the retry timer ticks (`index.ts` 89-94); `PendingDrains` assumes
that MongoDB stays up from some time on, and a client: a broker whose
first connection failed never retries. Purchase assumes the timers of the grace
loop, polls and deadlines, the delivery of queued frames and EventSource's
reconnection; nothing of reports, payments or buyers. ControlChannel assumes that
an end which is told of a close handles it, that reconnect timers fire and that
heartbeats are sent and answered or fail; that an end notices a break it is not told of is
not assumed. `KeepsRejoining` and `SettlesDown` except the node that is `Deaf`, and
`SettlesDown` two heartbeats that registered the node at once or were answered in
the other order (`doubled`). ProviderNode assumes the job's timer, that a
group which got SIGKILL ends and that nobody outside it holds its output open (`close` waits
for that), and timeouts of HTTP; not that an agent ever ends.

### Where the code disagrees with its words

| property | reproduce with | what TLC finds |
| --- | --- | --- |
| `PaymentOfOwnJob` | run `payment_of_own_job` | two buyers of one provider settle in the order in which their jobs were created; `onAfterSettle` takes the newest unpaid job, and so records each payment on the other's ("this is unambiguous", `app.ts:546`) |
| `QuoteSoldOnce` | `MCSettlement_QuoteSoldOnce.cfg` | two requests pass the quote guard before either reaches the handler; each gets a job ("a replayed payment can't buy twice", `jobs.ts:45`) |
| `SettledBeforeRun` | `MCSettlement_SettledBeforeRun.cfg` | the handler dispatches, the middleware settles afterwards, or fails to ("Payment settles before the job runs", `README.md:163`) |
| `LifetimeStatsNeverFall` | `MCRegistry_LifetimeStatsNeverFall.cfg` | register, finish, reap, register, finish: the row falls back to what it was at boot ("earnings must" survive, `registry.ts:49`) |
| `CancelStopsWork` | `MCDispatch_CancelStopsWork.cfg` | the aborted run answers with an error, which reassigns the cancelled job ("stops the work", `app.ts:593`) |
| `JobsEnd` | `MCDispatch_JobsEnd.cfg` | an overdue job is handed from one provider to the other at every sweep ("should be failed", `jobs.ts:224`; "One free retry", `app.ts:871`) |
| `RestartKeepsNewest` | `MCLayeredStore_RestartKeepsNewest.cfg` | a save, acknowledged; another, not; a restart: the older MongoDB row wins over the disk's ("replayed from SQLite, so the two converge", `store-mongo.ts:19`) |
| `KeepsRejoining` | `MCControlChannel_KeepsRejoining.cfg` | a re-registered node dials the address the broker advertises, works or not ("take the origin from the URL this node actually reached the broker on", `start.ts:43`) |
| `ShownMeansUnpaid` | `MCComposer_ShownMeansUnpaid.cfg` | "Cancel - nothing has been paid" (`composer.tsx:316`) under a quote whose payment has settled |

| `FinishedIsStatic` | `MCDispatch_FinishedIsStatic.cfg` | a late `accepted` makes a completed job running; its error hands it on ("a finished job is a static document", `job-view.tsx:48`) |
| `EarnedOnce` | `MCDispatch_EarnedOnce.cfg` | two nodes complete one job and both are credited ("summed across settled jobs", `types.ts:78`) |
| `MissesAreReplayed` | `MCLayeredStore_MissesAreReplayed.cfg` | an older write's acknowledgement clears the newer save, whose own write fails ("anything Mongo missed is replayed", `store-mongo.ts:19`) |
| `RejoinsAlways` | `MCControlChannel_RejoinsAlways.cfg` | the wire breaks in silence, the idle node beats on and never dials ("should still rejoin promptly", `node.ts:202`) |
| `KilledIsGone` | `MCProviderNode_KilledIsGone.cfg` | the kill ends docker's client and the container goes on ("leaves an orphaned model call", `base.ts:140`) |
| `ConfirmedAnswers` | `MCDoctor_ConfirmedAnswers.cfg` | doctor takes XAI_API_KEY for a sign-in, which the job does not get ("the failure mode of a wrong yes", `doctor.ts:246`) |

The row of `JobsEnd` says how `NoProviderKeepsJob` is to be read: the sweep does move every
job on, but, with no count of retries, not to an end.

Elsewhere the code's exceptions are part of the property, as a history variable named in
it: `edited`, `overlapped`, `dropped`, `hurried` (Composer), `revived`, `troubles`
(Purchase), `disturbed` (Dispatch), `doubled` (ControlChannel), `shadowed`, `swept`,
`unledgered`, `slipped` (ProviderNode), `met` (NodeConfig), `raced` (LayeredStore); or as a
condition on the state: `Deaf` (ControlChannel), `BeyondKill` and the phase `signalled`
(ProviderNode), `AgentInSight` and the stated expiry of a session (Doctor). Dropping one makes TLC find the
case; those that contradict a comment are among the findings of `PROJECT.json`.

## 4. The proofs

`SettlementProofs` (which holds the refinement of Bookkeeping, too), `RegistryProofs`
(and the quote desk, which asks the registry), `DispatchProofs`, `LayeredStoreProofs`,
`ControlChannelProofs`, `ComposerProofs`, `PurchaseProofs` and `ProviderNodeProofs` (and
the node's files, and its operator's `doctor`) prove, for all values of the constants that
satisfy the named assumptions of their modules, the theorems listed in `PROJECT.json`. The
assumptions are that `None` and the numbers used for "no id" are not names, prices are
positive, the sets of requests and of commands are finite and bounds are naturals.

*Settlement.* `BookedOnce` is not inductive: nothing in it says that a transfer
which is about to be recorded is not on a job already. `IInv` adds the chain the
code relies on. A request past the guard refers to a quote that exists
(`RequestLinked`), whose resolved requirement is the quote's or the empty one, the
latter matching no signature, as prices are positive; no job exists before the
handler (`JobFromHandler`); what is being settled is what the request's own job
owes (`SettlementLinked`); and a transfer that is executed but not recorded waits
for exactly one hook and is on no job (`ExecutedOnce`). `BookedPaymentIsReal`,
`BookedOnce` and `PaymentIsFinal` follow.

`SettlementFindsJob` needs counting. Concurrent hooks may take each other's jobs, so
"my job is still unpaid" is no invariant; that each account has at least as many
unpaid jobs as settlements under way (`OwedCovered`) is. Each step moves at
most one element in each of the two sets, and the proof follows their
cardinalities. With at most `ListLimit` requests, all jobs are listed, so the hook's
search is never empty.

*Bookkeeping.* `PaidPathKeepsBooks` is the refinement: every behaviour of Settlement,
seen through the mapping, is one of Bookkeeping. The initial states are empty books. A
step is taken apart by what it does to them: signing is `Sign`, the handler that
creates a job is `Owe`, the network's execution is `Execute`, a hook that attaches a
payment is `Book`, and every other action leaves the books as they are. `Book` needs what
`IInv` says of a transfer that waits for its hook (executed, on no job) and that the hook
picks an unpaid job of the payee; `Sign` needs one fact more, `SignedToSomeone`: a payload
without a payee was not signed, so that signing twice is impossible.

*Registry.* `IndexConsistent` needs that ids and tokens are minted together and
never reused (`MintedInStep`). `RowFollowsRecord` needs that a node which is not
registered and was not reaped since boot would start from its current row
(`BootRowCurrent`); the exception for reaped nodes is the finding `lifetime_stats`.

*LayeredStore.* `MissedIsPending` holds only because an acknowledged write is known to
have brought the newest state: `IInv` says that for a row whose saves crossed no
older write, whatever is queued, sent or lost carries what memory (a job) or the disk (a
node) has now (`CalmWrites`), that MongoDB is never ahead (`CalmRows`), and that no
version is newer than those issued (`NewestIssued`). An acknowledgement then finds
MongoDB no older than the disk, and `Apply` can only move it forward, which is
`MongoNeverRollsBack`. The proof goes row by row (`Calm`), action by action.

*ControlChannel.* `HoldsWhatIsOpen` contains the type invariant, and that is where the
work is: tokens are numbers handed out in order, so the proof must know that they
suffice (`TokensSuffice`). A heartbeat is told "forgotten" only when the record is gone,
and a record goes only by a trouble, of which there are finitely many; each trouble pays
for one token. `BeatsCarryTokens` says that a heartbeat under way names a token that was
issued. A new socket takes the least free slot, whose existence is the well-foundedness
of the naturals (`MinOfNats`). For the rest, two facts about each step suffice
(`HeldStays`): a socket open at the hub stays the held one unless it is superseded, and
none opens there but by `Attach`.

*Dispatch.* `InProgressWasSent` says nothing of jobs that are not in progress, and a
late report may bring any of them back: the word of a node about a job is trusted, so
the proof must know that only nodes the job was sent to can have one. `Placed`, in `IInv`, says
so: a job that was sent is with the provider it was last sent to, or with nobody,
whatever became of it since; one that was never sent is `Untouched`, in progress nowhere
and on the lips of no node. Every handler of the broker is one `Handled` step for the
job it is about, and `HandledKeeps` shows once that such a step keeps `Placed`;
the network's and the nodes' steps only pass on messages of jobs that were sent.
`OutcomeIsFinalWhenQuiet` is read off the handlers: only a report, a cancel or the sweep
changes an outcome, the first is excluded by `Quiet`, the others by their guards.

`DeliveredStays` is not about one guard: a completed job is made running again by a late
`accepted`, and handed on or failed by a late error. That neither is left when the result
is read is what `WorkIsInOnePlace` proves of every job that is not `disturbed`: it is
`Alone`. It is asked of one node, which starts it once (`Once`); nothing is said of it
before it starts, and no outcome before its run ends; the outcome is the last word on the
wire, and goes by HTTP only if no word is left on the wire; and there is one. Most steps
add nothing to what is said of a job and let some of it go, for which `FadingKeeps` shows
once that it stays alone. What is left are the first hand-out (`GiveBegins`), the start
and the end of the run (`NodeAlone`), and the reading of the result (`ResultIsTheLast`).
`Listening` is needed at the start: a run begins only on a wire that is up, so that its
`accepted` is on no broken one, which its outcome by HTTP could overtake.

*Composer.* The three properties are kept by three separate stories. What is waited for
and shown is about the fields as they are (`AboutInput`). The tab waits for one thing at a
time (`OneThing`), for every payment that is under way (`Awaited`), and leaves the page
with the answer to one that settled: so a second payment of a quote cannot start, which is
`OneSettled`. The wallet's singleton is the only connector with a session, a modal or a
disconnect under way (`OneWallet`), which is what makes the signer of `Sign` the
account shown. Each story has its exceptions (`edited`, `overlapped`, `dropped`,
`hurried`), and each is needed to keep its part inductive, not for the property alone.

*Purchase.* `OneReceipt` is about the topic, and the race it excludes is between tasks:
`PublishedOnce` says that a task which publishes holds `published` and found an empty
topic, that there is one such task, and that a receipt on the topic holds `published` for
good. What a receipt, a frame or a task says of the outcome is true of the job unless it
changed its outcome (`OutcomeTold`); `FailureIsReal` needs this of frames the stream has
queued and the buyer has not read. `Sold` says that
before the sale nobody works on the job or reads it, so that no task, frame or
receipt precedes it.

*ProviderNode.* A run's phase goes with what its agent does and has told (`Told`), with the
entry of its job (`Entered`) and with its directory (`Housed`), but for the runs another
run of the same job hid (`shadowed`). `Phased` follows the command from the probe to its
exit: nothing runs before it is online, and `stop` reaches every run that has an entry.
`WithinCapacity` needs `Counted`: what the node runs and is about to get is no more than
the broker's count, which dispatches only below the capacity. This
takes counting, as in Settlement: each step adds or removes at most one run and one
dispatch, `Sizes` and its companions follow the cardinalities, and a heartbeat's
overwriting of the count is the exception named `slipped`.

*NodeConfig*, in `ProviderNodeProofs`. `ConfigWhole` is not inductive, for a
command may be in the middle of its save: `FInv` says that the configuration is an inode
no other name has, and, as long as no two commands met (`Alone`), that the one
which runs writes to the temporary file, torn when it has opened it and what it wants when
it has written. `KeyWithAccount` says the same of every command's settings, met or not.
That a command which opens the file finds a free inode is the pigeonhole principle
(`SomeUnlinked`): there is one inode more than there are commands. `LedgerKept` counts lines:
`LedgerCounted` says that every row earned is a line that parses, an append that failed, or
one of the two that a cut append costs, the second of which the append that follows pays.

*QuoteDesk*, in `RegistryProofs`. `QuoteIsFair` bounds the age of a rate that was
fetched by one request and used by another, so `RatesSeen` says how long ago each rate on
its way (since it was asked for) and in the cache (a fetch's time before it came) was
last the Mirror Node's. The rest is the arithmetic of a division rounded up (`RoundedUp`)
and of the least price offered (`MatchedIsOffered`). `LimitHolds` speaks of any span of a
window's length, the code of one window at a time: `LInv` says what the open window of a
client has counted and let through, what the span before it let through, and, of a client
whose window was swept, that it was over. `WindowCounts` has an open window, one that is
over and none at all as one case, in which a request then counts (`LimiterStep`).

*Doctor*, in `ProviderNodeProofs`. What is told follows from the state it is told
in, so the invariant is little more than the types; the work is `SessionShared`: a session
that a process has just found alive serves the running node, whose copy is the same
one, or stale and so replaced, or states an end that has not come.

These two proof modules extend more than one model. The models share no state, and each
theorem is about one specification; so that the names stand side by side, NodeConfig,
Doctor and QuoteDesk call theirs `ConfigInit`, `DoctorNext`, `DeskSpec` and so on.

What stays with TLC. Liveness, which this prover does not reach: `NoProviderKeepsJob`,
`JobsEnd`, `PendingDrains`, `WatchingEnds`, `ReceiptFollows`, `KeepsRejoining`,
`SettlesDown`, `RunsEnd`. Every invariant and action property that holds is proved.

## 5. Plan

1. `LayeredStore` in the place of the write-through stores of Settlement and Registry,
   in a composition; a crash between `createJob` and `dispatch`.
2. LayeredStore and Purchase against one abstract specification of a job's record, as
   Bookkeeping is for its payment.

## 6. What is not modelled

* **Failed or lost saves, outside LayeredStore.** `persist` and `persistStats` swallow
  store errors; Settlement and Registry assume each save succeeds before the next
  action, and Dispatch that `createJob` and `dispatch` are saved together.
* **A dispatch for a capability its node has dropped.** The node answers with an
  error, as it may to any dispatch.
* **Wording and shape of answers, logs, metrics, headers, CORS, request ids.** Output only.
* **Announcements on the topic.** Registrations and heartbeats are published and read
  by nobody in the code; receipts are in Purchase. The SDK is external.
* **Profiles of the sandbox helpers, parsing of agents' output.** Text; Doctor has what
  each helper hides, ProviderNode what an adapter makes of an exit.
* **Floating point.** Amounts are exact integers. `usdMicrosToTinybars` divides doubles
  and rounds up, which for the amounts at hand can differ by one tinybar.
* **Read-only commands and tools** (`status`, `jobs`, `logs`, `config`, `completion`;
  quote and list tools of the MCP server), **landing page**: output.
* **Job events.** The text and the 400-event cap of a job's log; only an event's
  effect on the status is modelled.
