------------------------------ MODULE Purchase ------------------------------
(***************************************************************************)
(* One purchase as its buyer lives it, and the receipt the broker leaves.  *)
(*                                                                         *)
(* The buyer is `xorv run` (follows the job's event stream, then polls for *)
(* the receipt), the MCP tool xorv_run_job (polls), or a browser that goes *)
(* on to the job's page (Composer has how it pays).  The broker's side is  *)
(* the job, its stream with one queue of frames per subscriber, and the    *)
(* tasks that wait for the payment and publish the job's receipt on the    *)
(* Hedera topic.  What the providers do is cut down to what their reports  *)
(* make of the job (Dispatch has the rest): late and repeated reports are  *)
(* the interesting ones.                                                   *)
(***************************************************************************)
EXTENDS Naturals, Sequences, FiniteSets

CONSTANTS
    Reports,        \* results and errors the providers report, each starts a task
    Prices,         \* prices a broker may quote
    Ceiling,        \* the most the buyer would pay
    MaxRestarts     \* bound: broker restarts

ASSUME PricesAssumption == Prices \subseteq Nat \ {0} /\ Ceiling \in Nat /\ MaxRestarts \in Nat

VARIABLES
    job,        \* status, payment recorded, receipt id recorded
    tasks,      \* report -> publishReceiptWhenReady started by it
    published,  \* publishedReceipts holds the job
    topic,      \* receipts on the topic, in consensus order
    stream,     \* subscriber -> frames on their way and whether it is subscribed
    buyer,      \* kind, program counter, the job it saw last, how it ended
    page,       \* the web page: the job it shows, its source, the refetch timer
    revived,    \* history: the job left or changed a terminal status
    troubles,   \* history: publishes that failed, or reached the topic but seemed to fail
    restarts

broker == <<job, tasks, published, topic, revived, troubles, restarts>>
vars == <<broker, stream, buyer, page>>

Terminal == {"completed", "failed"}
NoView == [status |-> "none", receipt |-> FALSE]

\* publicJob: what a reader is told.
View == [status |-> job.status, receipt |-> job.receipt]

NotStarted == [pc |-> "none", ok |-> FALSE, paid |-> FALSE]
Closed == [open |-> FALSE, frames |-> <<>>]
Seen == [status: {"assigned", "running", "completed", "failed"}, receipt: BOOLEAN]
Frame == [kind: {"snapshot", "job", "done"}, view: Seen]
ReceiptMessage == [ok: BOOLEAN, paid: BOOLEAN]

TypeOK ==
    /\ job \in [status: {"none", "assigned", "running", "completed", "failed"},
                paid: BOOLEAN, receipt: BOOLEAN]
    /\ tasks \in [Reports -> [pc: {"none", "waiting", "publishing", "ended"},
                         ok: BOOLEAN, paid: BOOLEAN]]
    /\ topic \in Seq(ReceiptMessage)
    /\ stream \in [{"cli", "page"} -> [open: BOOLEAN, frames: Seq(Frame)]]
    /\ buyer \in [kind: {"cli", "mcp", "web"},
                  pc: {"quoting", "quoted", "paying", "settling", "watching", "receipt", "ended"},
                  view: Seen \cup {NoView}, code: {"none", "ok", "fail", "late"}]
    /\ page \in [view: Seen \cup {NoView}, refetch: BOOLEAN,
                 pc: {"elsewhere", "unloaded", "idle", "source"}]
    /\ published \in BOOLEAN /\ revived \in BOOLEAN
    /\ troubles \subseteq {"lost", "failed"}
    /\ restarts \in 0..MaxRestarts

Init ==
    /\ job = [status |-> "none", paid |-> FALSE, receipt |-> FALSE]
    /\ tasks = [t \in Reports |-> NotStarted]
    /\ published = FALSE /\ topic = <<>>
    /\ stream = [s \in {"cli", "page"} |-> Closed]
    /\ buyer \in [kind: {"cli", "mcp", "web"}, pc: {"quoting"},
                  view: {NoView}, code: {"none"}]
    /\ page = [view |-> NoView, pc |-> "elsewhere", refetch |-> FALSE]
    /\ revived = FALSE /\ troubles = {} /\ restarts = 0

-----------------------------------------------------------------------------
\* The handler of a subscriber: a "job" frame for each change, and the end of
\* the stream with the first terminal one.
FramesFor(v) ==
    <<[kind |-> "job", view |-> v]>> \o
    IF v.status \in Terminal THEN <<[kind |-> "done", view |-> v]>> ELSE <<>>

Leaves(j) == job.status \in Terminal /\ j.status # job.status

\* Slip: a subscriber that is told of progress and not of the end.
EmitUnlessTerminal(j) ==
    /\ job' = j
    /\ revived' = (revived \/ Leaves(j))
    /\ stream' = [s \in DOMAIN stream |->
                    IF stream[s].open /\ j.status \notin Terminal
                      THEN [stream[s] EXCEPT !.frames = @ \o
                              FramesFor([status |-> j.status, receipt |-> j.receipt])]
                      ELSE stream[s]]

\* JobStore.emit: the job is stored and every live subscriber is told.
Emit(j) ==
    /\ job' = j
    /\ revived' = (revived \/ Leaves(j))
    /\ stream' = [s \in DOMAIN stream |->
                    IF stream[s].open
                      THEN [open |-> j.status \notin Terminal,
                            frames |-> stream[s].frames \o
                              FramesFor([status |-> j.status, receipt |-> j.receipt])]
                      ELSE stream[s]]

\* GET /api/jobs/:id/stream: the snapshot, and either the end or a subscription.
Opened ==
    LET snapshot == [kind |-> "snapshot", view |-> View]
    IN IF job.status \in Terminal
         THEN [open |-> FALSE, frames |-> <<snapshot, [kind |-> "done", view |-> View]>>]
         ELSE [open |-> TRUE, frames |-> <<snapshot>>]

-----------------------------------------------------------------------------
\* The quote, or the error that ends the command. The MCP tool refuses a price
\* over its ceiling once more, the others ask for a confirmation instead.
Quote(p) ==
    /\ buyer.pc = "quoting"
    /\ buyer' = IF buyer.kind = "mcp" /\ p > Ceiling
                  THEN [buyer EXCEPT !.pc = "ended", !.code = "fail"]
                  ELSE [buyer EXCEPT !.pc = "quoted"]
    /\ UNCHANGED <<broker, stream, page>>
QuoteFails ==
    /\ buyer.pc = "quoting"
    /\ buyer' = [buyer EXCEPT !.pc = "ended", !.code = "fail"]
    /\ UNCHANGED <<broker, stream, page>>

\* "cancelled - nothing was paid": the command returns, with exit code 0.
Decline ==
    /\ buyer.pc = "quoted" /\ buyer.kind # "mcp"
    /\ buyer' = [buyer EXCEPT !.pc = "ended"]
    /\ UNCHANGED <<broker, stream, page>>

\* paidFetch: signed and posted. The broker runs the job before it settles.
Pay ==
    /\ buyer.pc = "quoted"
    /\ buyer' = [buyer EXCEPT !.pc = "paying"]
    /\ UNCHANGED <<broker, stream, page>>
Sell ==
    /\ buyer.pc = "paying"
    /\ \E s \in {"assigned", "failed"} : job' = [job EXCEPT !.status = s]
    /\ buyer' = [buyer EXCEPT !.pc = "settling"]
    /\ UNCHANGED <<tasks, published, topic, revived, troubles, restarts, stream, page>>
PayRefused ==
    /\ buyer.pc \in {"paying", "settling"}
    /\ buyer' = [buyer EXCEPT !.pc = "ended", !.code = "fail"]
    /\ UNCHANGED <<broker, stream, page>>

\* onAfterSettle, and the answer with the job id: the CLI opens the stream, the
\* tool starts to poll, the browser goes to the page.
Settle ==
    /\ buyer.pc = "settling"
    /\ Emit([job EXCEPT !.paid = TRUE])
    /\ buyer' = [buyer EXCEPT !.pc = IF buyer.kind = "web" THEN "ended" ELSE "watching"]
    /\ page' = [page EXCEPT !.pc = IF buyer.kind = "web" THEN "unloaded" ELSE @]
    /\ UNCHANGED <<tasks, published, topic, troubles, restarts>>

-----------------------------------------------------------------------------
\* A node's job.accepted or first event; it may come late.
Accepted ==
    /\ job.status \notin {"none", "running"}
    /\ Emit([job EXCEPT !.status = "running"])
    /\ UNCHANGED <<tasks, published, topic, troubles, restarts, buyer, page>>

\* publishReceiptWhenReady up to its first wait.
Start(t, ok) ==
    tasks' = [tasks EXCEPT ![t] = [pc |-> IF published THEN "ended" ELSE "waiting",
                                          ok |-> ok, paid |-> FALSE]]

\* finishJobOk, for whichever provider answers.
FinishOk(t) ==
    /\ job.status # "none" /\ tasks[t] = NotStarted
    /\ Emit([job EXCEPT !.status = "completed"])
    /\ Start(t, TRUE)
    /\ UNCHANGED <<published, topic, troubles, restarts, buyer, page>>

\* finishJobFailed: one more provider, or the end.
FinishFailed(t) ==
    /\ job.status # "none" /\ tasks[t] = NotStarted
    /\ \/ /\ job.status # "completed"
          /\ Emit([job EXCEPT !.status = "assigned"])
          /\ tasks' = [tasks EXCEPT ![t].pc = "ended"]
       \/ /\ Emit([job EXCEPT !.status = "failed"])
          /\ Start(t, FALSE)
    /\ UNCHANGED <<published, topic, troubles, restarts, buyer, page>>

\* POST /api/jobs/:id/cancel: fails the job and starts no receipt.
Cancel ==
    /\ job.status \in {"assigned", "running"}
    /\ Emit([job EXCEPT !.status = "failed"])
    /\ UNCHANGED <<tasks, published, topic, troubles, restarts, buyer, page>>

\* Slip: waiting for the payment without a bound.
RecheckPaid(t, late) ==
    /\ tasks[t].pc = "waiting"
    /\ job.paid
    /\ tasks' = [tasks EXCEPT ![t].pc = IF published THEN "ended" ELSE "publishing"]
    /\ published' = TRUE
    /\ UNCHANGED <<job, topic, revived, troubles, restarts, stream, buyer, page>>

\* Slip: the published set is not read again after the wait.
RecheckNot(t, late) ==
    /\ tasks[t].pc = "waiting"
    /\ job.paid \/ late
    /\ tasks' = [tasks EXCEPT ![t].pc = "publishing"]
    /\ published' = TRUE
    /\ UNCHANGED <<job, topic, revived, troubles, restarts, stream, buyer, page>>

\* The grace loop ends, with the payment there or with the time over (late);
\* the receipt is made of the job as it is then.
Recheck(t, late) ==
    /\ tasks[t].pc = "waiting"
    /\ job.paid \/ late
    /\ tasks' = [tasks EXCEPT ![t].pc = IF published THEN "ended" ELSE "publishing",
                              ![t].paid = job.paid]
    /\ published' = TRUE
    /\ UNCHANGED <<job, topic, revived, troubles, restarts, stream, buyer, page>>

\* The envelope on the receipts topic; submitMessageSafe turns any error into
\* null, that of a message which did reach consensus too.
Receipt(t) == [ok |-> tasks[t].ok, paid |-> tasks[t].paid]
Publish(t, reached, answered) ==
    /\ tasks[t].pc = "publishing"
    /\ answered => reached
    /\ tasks' = [tasks EXCEPT ![t].pc = "ended"]
    /\ topic' = IF reached THEN Append(topic, Receipt(t)) ELSE topic
    /\ troubles' = troubles \cup (IF answered THEN {} ELSE {IF reached THEN "lost" ELSE "failed"})
    /\ IF answered THEN Emit([job EXCEPT !.receipt = TRUE]) /\ UNCHANGED published
                   ELSE published' = FALSE /\ UNCHANGED <<job, revived, stream>>
    /\ UNCHANGED <<restarts, buyer, page>>

\* The broker restarts: jobs come back from the store; tasks, the published
\* set, subscriptions and frames do not. A stream reader throws.
Restart ==
    /\ job.status # "none" /\ restarts < MaxRestarts
    /\ restarts' = restarts + 1
    /\ tasks' = [t \in Reports |-> IF tasks[t] = NotStarted THEN NotStarted
                                   ELSE [tasks[t] EXCEPT !.pc = "ended"]]
    /\ published' = FALSE
    /\ stream' = [s \in DOMAIN stream |-> Closed]
    /\ buyer' = IF \/ buyer.pc \in {"paying", "settling"}
                   \/ buyer.pc = "watching" /\ buyer.kind = "cli"
                  THEN [buyer EXCEPT !.pc = "ended", !.code = "fail", !.view = NoView]
                  ELSE buyer
    /\ UNCHANGED <<job, topic, revived, troubles, page>>

-----------------------------------------------------------------------------
\* How both buyers report: the result, or what became of the job.
Told(v) == [buyer EXCEPT !.pc = "ended", !.view = v,
                         !.code = IF v.status = "completed" THEN "ok" ELSE "fail"]

\* watchJob opens the stream ...
Watch ==
    /\ buyer.kind = "cli" /\ buyer.pc = "watching" /\ stream["cli"] = Closed
    /\ stream' = [stream EXCEPT !["cli"] = Opened]
    /\ UNCHANGED <<broker, buyer, page>>

\* Slip: the end of the stream is taken for the answer, the job in it is not.
WatchFrameStale ==
    /\ buyer.kind = "cli" /\ buyer.pc = "watching" /\ stream["cli"].frames # <<>>
    /\ LET frame == Head(stream["cli"].frames)
       IN IF frame.kind # "done" /\ frame.view.status \notin Terminal
            THEN /\ buyer' = [buyer EXCEPT !.view = frame.view]
                 /\ stream' = [stream EXCEPT !["cli"].frames = Tail(@)]
            ELSE buyer' = Told(buyer.view) /\ stream' = [stream EXCEPT !["cli"] = Closed]
    /\ UNCHANGED <<broker, page>>

\* ... and reads it up to the first terminal frame. A completed job is then
\* polled for its receipt.
WatchFrame ==
    /\ buyer.kind = "cli" /\ buyer.pc = "watching" /\ stream["cli"].frames # <<>>
    /\ LET frame == Head(stream["cli"].frames)
       IN IF frame.kind # "done" /\ frame.view.status \notin Terminal
            THEN /\ buyer' = [buyer EXCEPT !.view = frame.view]
                 /\ stream' = [stream EXCEPT !["cli"].frames = Tail(@)]
            ELSE /\ buyer' = IF frame.view.status = "completed" /\ ~frame.view.receipt
                               THEN [buyer EXCEPT !.pc = "receipt", !.view = frame.view]
                               ELSE Told(frame.view)
                 /\ stream' = [stream EXCEPT !["cli"] = Closed]
    /\ UNCHANGED <<broker, page>>

\* awaitReceipt: polls until the receipt is there, keeps the latest job, and
\* gives up quietly.
AwaitReceipt ==
    /\ buyer.kind = "cli" /\ buyer.pc = "receipt"
    /\ buyer' = IF job.receipt THEN Told(View) ELSE [buyer EXCEPT !.view = View]
    /\ UNCHANGED <<broker, stream, page>>
GiveUpReceipt ==
    /\ buyer.kind = "cli" /\ buyer.pc = "receipt"
    /\ buyer' = Told(buyer.view)
    /\ UNCHANGED <<broker, stream, page>>

\* pollUntilDone: one look more for the receipt of a completed job, and the
\* answer is what that look saw.
Poll ==
    /\ buyer.kind = "mcp" /\ buyer.pc = "watching"
    /\ buyer' = IF job.status = "failed" \/ (job.status = "completed" /\ job.receipt)
                THEN Told(View)
                ELSE [buyer EXCEPT !.view = View,
                                   !.pc = IF job.status = "completed" THEN "receipt" ELSE @]
    /\ UNCHANGED <<broker, stream, page>>
PollAgain ==
    /\ buyer.kind = "mcp" /\ buyer.pc = "receipt"
    /\ buyer' = Told(View)
    /\ UNCHANGED <<broker, stream, page>>
PollTimeout ==
    /\ buyer.kind = "mcp" /\ buyer.pc = "watching"
    /\ buyer' = [buyer EXCEPT !.pc = "ended", !.code = "late"]
    /\ UNCHANGED <<broker, stream, page>>

-----------------------------------------------------------------------------
\* The job page is rendered on the server with the job, or without it.
Load(found) ==
    /\ page.pc = "unloaded"
    /\ page' = [page EXCEPT !.view = IF found THEN View ELSE NoView, !.pc = "idle"]
    /\ UNCHANGED <<broker, stream, buyer>>

\* The effect of JobView, run when `terminal` changed: it opens an EventSource
\* for a job that is not terminal, and its cleanup closes the old one.
Subscribe ==
    /\ page.pc = "idle" /\ page.view.status \notin Terminal
    /\ page' = [page EXCEPT !.pc = "source"]
    /\ stream' = [stream EXCEPT !["page"] = Opened]
    /\ UNCHANGED <<broker, buyer>>
Cleanup ==
    /\ page.pc = "source" /\ page.view.status \in Terminal
    /\ page' = [page EXCEPT !.pc = "idle"]
    /\ stream' = [stream EXCEPT !["page"] = Closed]
    /\ UNCHANGED <<broker, buyer>>

\* A frame is handled; "done" closes the source and sets the refetch timer.
PageFrame ==
    /\ page.pc = "source" /\ stream["page"].frames # <<>>
    /\ LET frame == Head(stream["page"].frames)
       IN /\ page' = [page EXCEPT !.view = frame.view, !.refetch = page.refetch \/ frame.kind = "done"]
          /\ stream' = [stream EXCEPT !["page"] =
                IF frame.kind = "done" THEN Closed ELSE [stream["page"] EXCEPT !.frames = Tail(@)]]
    /\ UNCHANGED <<broker, buyer>>

\* EventSource reconnects by itself after a lost stream.
Reconnect ==
    /\ page.pc = "source" /\ page.view.status \notin Terminal
    /\ stream["page"] = Closed
    /\ stream' = [stream EXCEPT !["page"] = Opened]
    /\ UNCHANGED <<broker, buyer, page>>

\* The one delayed refetch.
Refetch(ok) ==
    /\ page.refetch
    /\ page' = [page EXCEPT !.refetch = FALSE, !.view = IF ok THEN View ELSE @]
    /\ UNCHANGED <<broker, stream, buyer>>

-----------------------------------------------------------------------------
Buying == \/ \E p \in Prices : Quote(p)
          \/ QuoteFails \/ Decline \/ Pay \/ Sell \/ PayRefused \/ Settle
Broker == \/ Accepted \/ Cancel \/ Restart
          \/ \E t \in Reports : FinishOk(t) \/ FinishFailed(t)
Receipts == \E t \in Reports :
               \/ \E late \in BOOLEAN : Recheck(t, late)
               \/ \E reached, answered \in BOOLEAN : Publish(t, reached, answered)
Watching == \/ Watch \/ WatchFrame \/ AwaitReceipt \/ GiveUpReceipt
            \/ Poll \/ PollAgain \/ PollTimeout
Page == \/ \E found \in BOOLEAN : Load(found)
        \/ Subscribe \/ Cleanup \/ PageFrame \/ Reconnect
        \/ \E ok \in BOOLEAN : Refetch(ok)

Next == Buying \/ Broker \/ Receipts \/ Watching \/ Page
Spec == Init /\ [][Next]_vars

\* Timers fire, sockets deliver and React runs its effects. Nothing is assumed
\* of the providers.
Fairness ==
    /\ \A t \in Reports : WF_vars(Recheck(t, TRUE)) /\ WF_vars(Publish(t, TRUE, TRUE))
    /\ WF_vars(Watch) /\ WF_vars(WatchFrame)
    /\ WF_vars(Poll) /\ WF_vars(PollAgain) /\ WF_vars(GiveUpReceipt)
    /\ WF_vars(Subscribe) /\ WF_vars(Cleanup) /\ WF_vars(PageFrame) /\ WF_vars(Reconnect)
    /\ \A ok \in BOOLEAN : WF_vars(Refetch(ok))
FairSpec == Spec /\ Fairness

-----------------------------------------------------------------------------
\* A job has at most one receipt on the topic, though every report of its
\* providers starts a task that waits and publishes. Two ways out: a publish
\* that reached the topic but was taken for failed, and a restart, which
\* forgets what was published. And what it says is what became of the job, unless
\* the job changed its outcome: its result, and that it was paid.
OneReceipt ==
    /\ TypeOK
    /\ Len(topic) <= 1 \/ "lost" \in troubles \/ restarts > 0
    /\ \A i \in DOMAIN topic :
           /\ revived \/ topic[i].ok = (job.status = "completed")
           /\ topic[i].paid => job.paid

\* A buyer who is told that the paid job failed is told the truth: no stale
\* frame or answer turns a completed job into a failure. The exceptions are a
\* job that changed its outcome, a restart, and the tool's deadline, which
\* answers from the poll before it.
FailureIsReal ==
    [][buyer.pc \in {"watching", "receipt"} /\ buyer'.code = "fail"
         => job.status # "completed" \/ revived \/ restarts' > 0]_vars

\* A job that stays finished is not watched for ever: the command ends, and the
\* page shows the outcome.
WatchingEnds ==
    /\ (<>[](job.status \in Terminal)) => <>(buyer.pc # "watching")
    /\ (<>[](job.status \in Terminal /\ page.pc \notin {"elsewhere", "unloaded"})) => <>(page.view.status \in Terminal)

\* A report that ended the job puts a receipt on the topic, whether the payment
\* comes or not; only a failed publish or a restart prevents it.
ReceiptFollows ==
    \A t \in Reports : tasks[t].pc = "waiting" ~> (topic # <<>> \/ troubles # {} \/ restarts > 0)
=============================================================================
