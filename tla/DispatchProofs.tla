--------------------------- MODULE DispatchProofs ---------------------------
(***************************************************************************)
(* Proofs about Dispatch, for any jobs and nodes, any number of faults and *)
(* queues of any length.                                                   *)
(***************************************************************************)
EXTENDS Dispatch, SequenceTheorems, FiniteSetTheorems, TLAPS

\* What a job that was never sent to anybody is known by: it failed at once, or is
\* still to come, and no node runs it or has a word to say about it.
Untouched(j) ==
    /\ jobs[j].status \in {"none", "failed"}
    /\ \A p \in Providers :
          /\ runs[p][j] = 0
          /\ \A i \in DOMAIN down[p] : down[p][i].job # j
          /\ \A i \in DOMAIN up[p] : up[p][i].job # j
    /\ \A post \in posts : post.job # j

\* A job is with the provider it was last sent to, whatever became of it since; a
\* job that was never sent is untouched.
Placed(j) ==
    IF sentTo[j] = None THEN Untouched(j)
    ELSE jobs[j].status # "none" /\ jobs[j].provider \in {sentTo[j], None}

\* A node has finitely many entries, so that its count of them is a number.
Finite == \A p \in Providers : IsFiniteSet(running[p])

\* What is on its way to a node is on a wire that holds.
Listening == \A p \in Providers : down[p] # <<>> => link[p] = "up"

IInv == TypeOK /\ Finite /\ Listening /\ \A j \in Jobs : Placed(j)

-----------------------------------------------------------------------------
(* Queues.                                                                 *)

\* Appending to a queue keeps what is in it.
LEMMA Appended ==
    ASSUME NEW S, NEW q \in Seq(S), NEW m \in S
    PROVE  /\ Append(q, m) \in Seq(S) /\ Len(Append(q, m)) = Len(q) + 1
           /\ \A i \in DOMAIN Append(q, m) :
                 Append(q, m)[i] = m \/ (i \in DOMAIN q /\ Append(q, m)[i] = q[i])
BY AppendProperties, LenProperties

\* Taking a queue's first message keeps the rest of it.
LEMMA Taken ==
    ASSUME NEW S, NEW q \in Seq(S), q # <<>>
    PROVE  /\ Head(q) \in S /\ 1 \in DOMAIN q /\ Head(q) = q[1]
           /\ Tail(q) \in Seq(S) /\ Len(Tail(q)) <= Len(q)
           /\ \A i \in DOMAIN Tail(q) : i + 1 \in DOMAIN q /\ Tail(q)[i] = q[i + 1]
BY HeadTailProperties, LenProperties, EmptySeq

-----------------------------------------------------------------------------
(* The handlers.                                                           *)

\* A job on its way through a handler: its status may be one that is never stored.
AnyJob == [status: {"none", "paid", "assigned", "running", "completed", "failed"},
           provider: Providers \cup {None}, started: BOOLEAN, overdue: BOOLEAN]

\* What any handler of the broker does to the job it is about, and to nothing else:
\* it gives the job to a provider, or leaves it where it is, or fails a new one.
Handled(j) ==
    /\ jobs' \in [Jobs -> Job \cup {NoJob}] /\ jobs'[j] \in Job
    /\ \A k \in Jobs \ {j} : jobs'[k] = jobs[k] /\ sentTo'[k] = sentTo[k]
    /\ \A k \in Jobs \ {j} : k \in disturbed' <=> k \in disturbed
    /\ active' \in [Providers -> Nat]
    /\ down' \in [Providers -> Seq(Down)] /\ \A p \in Providers : Len(down'[p]) <= MaxQueue
    /\ \A p \in Providers : \A i \in DOMAIN down'[p] :
          down'[p][i].job = j \/ (i \in DOMAIN down[p] /\ down'[p][i] = down[p][i])
    /\ \A p \in Providers : down'[p] # <<>> => down[p] # <<>> \/ link[p] = "up"
    /\ disturbed' \subseteq Jobs /\ sentTo' \in [Jobs -> Providers \cup {None}]
    /\ \/ sentTo'[j] \in Providers /\ jobs'[j].provider = sentTo'[j]
       \/ UNCHANGED history /\ jobs[j] # NoJob /\ jobs'[j].provider = jobs[j].provider
       \/ UNCHANGED <<down, history>> /\ jobs[j] = NoJob /\ jobs'[j].status = "failed"

\* The records the handlers make of a job.
LEMMA JobRecords ==
    ASSUME NEW job \in AnyJob
    PROVE  /\ \A s \in {"completed", "failed"} :
                 Ended(job, s) \in Job /\ Ended(job, s).provider = job.provider
                 /\ Ended(job, s).status = s
           /\ \A p \in Providers : Reassigned(job, p) \in Job /\ Reassigned(job, p).provider = p
           /\ Start(job) \in Job /\ Start(job).provider = job.provider
           /\ AddEvent(job) \in AnyJob /\ AddEvent(job).provider = job.provider
           /\ job \in Job => AddEvent(job) \in Job
<1>1. \A s \in {"completed", "failed"} :
          Ended(job, s) \in Job /\ Ended(job, s).provider = job.provider /\ Ended(job, s).status = s
    BY DEF AnyJob, Job, Ended
<1>2. Start(job) \in Job /\ Start(job).provider = job.provider
    BY DEF AnyJob, Job, Start
<1>3. /\ AddEvent(job) \in AnyJob /\ AddEvent(job).provider = job.provider
      /\ job \in Job => AddEvent(job) \in Job
    BY <1>2 DEF AnyJob, Job, AddEvent
<1>4. ASSUME NEW p \in Providers
      PROVE  Reassigned(job, p) \in Job /\ Reassigned(job, p).provider = p
  <2> DEFINE given == [job EXCEPT !.status = "assigned", !.provider = p]
  <2>1. given \in Job /\ given.provider = p /\ given.status = "assigned"
      BY DEF AnyJob, Job
  <2>2. Reassigned(job, p) = Start(given)
      BY <2>1 DEF Reassigned, AddEvent
  <2>3. Start(given) \in Job /\ Start(given).provider = given.provider
      BY <2>1 DEF Job, Start
  <2> QED BY <2>1, <2>2, <2>3
<1> QED BY <1>1, <1>2, <1>3, <1>4

\* Every stored job is such a record, the one that is not there included.
LEMMA StoredJobs ==
    ASSUME TypeOK, NEW j \in Jobs
    PROVE  jobs[j] \in AnyJob /\ (jobs[j].status # "none" => jobs[j] \in Job)
           /\ (jobs[j].status = "none" => jobs[j] = NoJob)
<1>1. jobs[j] \in Job \cup {NoJob}
    BY DEF TypeOK
<1>2. Job \subseteq AnyJob /\ NoJob \in AnyJob /\ NoJob.status = "none"
    BY DEF AnyJob, Job, NoJob
<1>3. \A x \in Job : x.status # "none"
    BY DEF Job
<1> QED BY <1>1, <1>2, <1>3

\* hub.send adds at most the one message, and only within the bound.
LEMMA SentOnly ==
    ASSUME TypeOK, NEW p \in Providers, NEW j \in Jobs, NEW type \in {"dispatch", "cancel"}
    PROVE  /\ Sent(p, type, j) \in [Providers -> Seq(Down)]
           /\ \A q \in Providers : Len(Sent(p, type, j)[q]) <= MaxQueue
           /\ \A q \in Providers : \A i \in DOMAIN Sent(p, type, j)[q] :
                 \/ Sent(p, type, j)[q][i].job = j /\ Sent(p, type, j)[q][i].type = type
                 \/ i \in DOMAIN down[q] /\ Sent(p, type, j)[q][i] = down[q][i]
           /\ \A q \in Providers : Sent(p, type, j)[q] # <<>> => down[q] # <<>> \/ link[q] = "up"
<1> DEFINE m == [type |-> type, job |-> j]
<1>1. m \in Down
    BY DEF Down
<1>2. down \in [Providers -> Seq(Down)] /\ down[p] \in Seq(Down) /\ Len(down[p]) \in Nat
    BY LenProperties DEF TypeOK
<1>3. CASE link[p] = "up" /\ Len(down[p]) < MaxQueue
  <2>1. Sent(p, type, j) = [down EXCEPT ![p] = Append(down[p], m)]
      BY <1>2, <1>3 DEF Sent
  <2>2. /\ Append(down[p], m) \in Seq(Down) /\ Len(Append(down[p], m)) = Len(down[p]) + 1
        /\ \A i \in DOMAIN Append(down[p], m) :
              Append(down[p], m)[i] = m \/ (i \in DOMAIN down[p] /\ Append(down[p], m)[i] = down[p][i])
      BY <1>1, <1>2, Appended
  <2>3. m.job = j /\ m.type = type
      OBVIOUS
  <2>4. Len(down[p]) + 1 <= MaxQueue
      BY <1>2, <1>3, DispatchAssumption
  <2> HIDE DEF m
  <2>5. \A q \in Providers : Sent(p, type, j)[q] # <<>> => down[q] # <<>> \/ link[q] = "up"
      BY <1>2, <1>3, <2>1
  <2> QED BY <1>2, <2>1, <2>2, <2>3, <2>4, <2>5 DEF TypeOK
<1>4. CASE ~(link[p] = "up" /\ Len(down[p]) < MaxQueue)
  <2>1. Sent(p, type, j) = down
      BY <1>2, <1>4 DEF Sent
  <2> QED BY <2>1 DEF TypeOK
<1> QED BY <1>3, <1>4

\* A job that is changed where it is.
LEMMA PatchHandles ==
    ASSUME TypeOK, NEW j \in Jobs, jobs[j] # NoJob, NEW job \in Job, job.provider = jobs[j].provider,
           jobs' = [jobs EXCEPT ![j] = job], active' \in [Providers -> Nat], UNCHANGED history,
           UNCHANGED down \/ \E p \in Providers : down' = Sent(p, "cancel", j)
    PROVE  Handled(j)
<1>1. /\ jobs' \in [Jobs -> Job \cup {NoJob}] /\ jobs'[j] = job
      /\ \A k \in Jobs \ {j} : jobs'[k] = jobs[k]
    BY DEF TypeOK
<1>2. /\ down' \in [Providers -> Seq(Down)] /\ \A p \in Providers : Len(down'[p]) <= MaxQueue
      /\ \A p \in Providers : \A i \in DOMAIN down'[p] :
            down'[p][i].job = j \/ (i \in DOMAIN down[p] /\ down'[p][i] = down[p][i])
      /\ \A p \in Providers : down'[p] # <<>> => down[p] # <<>> \/ link[p] = "up"
  <2>1. CASE UNCHANGED down
      BY <2>1 DEF TypeOK
  <2>2. CASE \E p \in Providers : down' = Sent(p, "cancel", j)
      BY <2>2, SentOnly
  <2> QED BY <2>1, <2>2
<1> QED BY <1>1, <1>2 DEF Handled, TypeOK, history

\* dispatch, and the end of a job.
LEMMA GiveHandles ==
    ASSUME TypeOK, NEW j \in Jobs, NEW p \in Providers, NEW job \in Job, job.provider = p,
           NEW act \in [Providers -> Nat], Give(j, job, p, act)
    PROVE  Handled(j)
<1>1. /\ jobs' \in [Jobs -> Job \cup {NoJob}] /\ jobs'[j] = job
      /\ disturbed' \subseteq Jobs /\ sentTo' \in [Jobs -> Providers \cup {None}] /\ sentTo'[j] = p
      /\ \A k \in Jobs \ {j} : jobs'[k] = jobs[k] /\ sentTo'[k] = sentTo[k]
      /\ \A k \in Jobs \ {j} : k \in disturbed' <=> k \in disturbed
    BY DEF TypeOK, Give
<1>2. active' \in [Providers -> Nat]
    BY DEF Give
<1>3. down' = Sent(p, "dispatch", j)
    BY DEF Give
<1> QED BY <1>1, <1>2, <1>3, SentOnly DEF Handled

\* A job that ends where it is, or that fails before it was sent (the store's setResult,
\* and reassign without a candidate).
LEMMA EndHandles ==
    ASSUME TypeOK, NEW j \in Jobs, NEW job \in AnyJob, NEW status \in {"completed", "failed"},
           \/ jobs[j] # NoJob /\ job.provider = jobs[j].provider
           \/ jobs[j] = NoJob /\ status = "failed",
           NEW act \in [Providers -> Nat], End(j, job, status, act)
    PROVE  Handled(j)
<1>1. jobs' = [jobs EXCEPT ![j] = Ended(job, status)] /\ active' = act /\ UNCHANGED <<down, history>>
    BY DEF End
<1>2. Ended(job, status) \in Job /\ Ended(job, status).provider = job.provider
      /\ Ended(job, status).status = status
    BY JobRecords
<1> QED BY <1>1, <1>2 DEF Handled, TypeOK, history

\* reassign hands the job on or fails it.
LEMMA RetryHandles ==
    ASSUME TypeOK, NEW j \in Jobs, NEW job \in AnyJob,
           job.provider = jobs[j].provider \/ jobs[j] = NoJob,
           NEW act \in [Providers -> Nat], Retry(j, job, act)
    PROVE  Handled(j)
<1>1. ASSUME NEW p \in Providers, Give(j, Reassigned(job, p), p, act) PROVE Handled(j)
    BY <1>1, JobRecords, GiveHandles
<1>2. CASE End(j, job, "failed", act)
    BY <1>2, EndHandles
<1>3. Candidates(act) \subseteq Providers
    BY DEF Candidates, TypeOK
<1> QED BY <1>1, <1>2, <1>3 DEF Retry

\* jobFinished takes one from a count, and no count goes below zero.
LEMMA FewerType ==
    ASSUME TypeOK, NEW p
    PROVE  Fewer(p) \in [Providers -> Nat]
BY DEF TypeOK, Fewer

\* What finishJobFailed makes of a job, for the sweep and for an error alike.
LEMMA FailedHandles ==
    ASSUME TypeOK, NEW j \in Jobs, NEW p, FinishJobFailed(j, p), jobs[j].status # "none"
    PROVE  Handled(j)
<1>1. jobs[j] \in AnyJob /\ jobs[j] # NoJob /\ Fewer(p) \in [Providers -> Nat]
    BY StoredJobs, FewerType DEF NoJob
<1> QED BY <1>1, EndHandles, RetryHandles DEF FinishJobFailed

\* What an answer of a node makes of it.
LEMMA AnswerHandles ==
    ASSUME TypeOK, NEW j \in Jobs, NEW p, NEW type, Answer(j, p, type), jobs[j].status # "none"
    PROVE  Handled(j)
<1>1. jobs[j] \in Job /\ jobs[j] \in AnyJob /\ jobs[j] # NoJob /\ Fewer(p) \in [Providers -> Nat]
    BY StoredJobs, FewerType DEF NoJob
<1>2. CASE type = "event" /\ jobs' = [jobs EXCEPT ![j] = AddEvent(@)]
           /\ UNCHANGED <<active, down, history>>
  <2>1. AddEvent(jobs[j]) \in Job /\ AddEvent(jobs[j]).provider = jobs[j].provider
      BY <1>1, JobRecords
  <2> QED BY <1>1, <1>2, <2>1, PatchHandles DEF TypeOK
<1>3. CASE FinishJobOk(j, p)
    BY <1>1, <1>3, EndHandles DEF FinishJobOk
<1>4. CASE FinishJobFailed(j, p)
    BY <1>4, FailedHandles
<1> QED BY <1>2, <1>3, <1>4 DEF Answer

-----------------------------------------------------------------------------
(* The broker.                                                             *)

\* No request is about a job that none was about before.
NoNewPosts ==
    /\ posts' \subseteq Posts
    /\ \A post \in posts' : \E q \in posts : q.job = post.job

\* Requests that are checked, acted on, lost or left alone are no new ones; so are
\* those a reaped provider leaves behind.
LEMMA PostsAreNotNew ==
    ASSUME TypeOK,
           \/ UNCHANGED posts
           \/ \E post \in posts : PostIsChecked(post) \/ PostActs(post) \/ PostIsLost(post)
           \/ \E p \in Providers : Reap(p)
    PROVE  NoNewPosts
<1>1. posts \subseteq Posts
    BY DEF TypeOK
<1>2. ASSUME NEW post \in posts, PostIsChecked(post) PROVE NoNewPosts
  <2> DEFINE seen == [post EXCEPT !.checked = TRUE]
  <2>1. seen \in Posts /\ seen.job = post.job
      BY <1>1 DEF Posts
  <2>2. posts' \subseteq posts \cup {seen}
      BY <1>2 DEF PostIsChecked
  <2> HIDE DEF seen
  <2> QED BY <1>1, <2>1, <2>2 DEF NoNewPosts
<1>3. ASSUME NEW post \in posts, PostActs(post) \/ PostIsLost(post) PROVE NoNewPosts
  <2>1. posts' \subseteq posts
      BY <1>3 DEF PostActs, PostIsLost
  <2> QED BY <1>1, <2>1 DEF NoNewPosts
<1>4. ASSUME NEW p \in Providers, Reap(p) PROVE NoNewPosts
  <2>1. ASSUME NEW post \in posts' PROVE post \in Posts /\ \E q \in posts : q.job = post.job
    <3>1. CASE post \in posts
        BY <1>1, <3>1
    <3>2. CASE post \notin posts
      <4>1. PICK q \in posts : post = [q EXCEPT !.from = None]
          BY <1>4, <2>1, <3>2 DEF Reap
      <4>2. post \in Posts /\ q.job = post.job
          BY <1>1, <4>1 DEF Posts
      <4> QED BY <4>2
    <3> QED BY <3>1, <3>2
  <2> QED BY <2>1 DEF NoNewPosts
<1>5. UNCHANGED posts => NoNewPosts
    BY <1>1 DEF NoNewPosts
<1> QED BY <1>2, <1>3, <1>4, <1>5

\* Nothing is said that was not said before.
NoNewWords ==
    /\ up' \in [Providers -> Seq(Up)]
    /\ \A p \in Providers : /\ Len(up'[p]) <= MaxQueue
                            /\ \A i \in DOMAIN up'[p] : \E k \in DOMAIN up[p] : up'[p][i] = up[p][k]
    /\ NoNewPosts

\* A handler keeps the invariant, be it about a job to come or about one that was
\* sent to somebody.
LEMMA HandledKeeps ==
    ASSUME IInv, NEW j \in Jobs, Handled(j), NoNewWords, UNCHANGED <<fleet, link, node, faults>>,
           jobs[j] = NoJob \/ sentTo[j] # None
    PROVE  IInv'
<1>1. TypeOK'
    BY DEF IInv, TypeOK, Handled, NoNewWords, NoNewPosts, fleet, node
<1>2. Finite'
    BY DEF IInv, Finite, node
<1>5. Listening'
    BY DEF IInv, Listening, Handled
<1>3. ASSUME NEW k \in Jobs, k # j PROVE Placed(k)'
  <2>1. jobs'[k] = jobs[k] /\ sentTo'[k] = sentTo[k]
      BY <1>3 DEF Handled
  <2>2. ASSUME Untouched(k) PROVE Untouched(k)'
    <3>1. \A p \in Providers : \A i \in DOMAIN down'[p] : down'[p][i].job # k
        BY <1>3, <2>2 DEF Untouched, Handled
    <3>2. \A p \in Providers : \A i \in DOMAIN up'[p] : up'[p][i].job # k
        BY <2>2 DEF Untouched, NoNewWords
    <3> QED BY <2>1, <2>2, <3>1, <3>2 DEF Untouched, NoNewWords, NoNewPosts, node
  <2> QED BY <2>1, <2>2 DEF IInv, Placed
<1>4. Placed(j)'
  <2>1. jobs'[j].status # "none"
      BY DEF Handled, Job
  <2>2. CASE sentTo'[j] \in Providers /\ jobs'[j].provider = sentTo'[j]
      BY <2>1, <2>2, DispatchAssumption DEF Placed
  <2>3. CASE UNCHANGED history /\ jobs[j] # NoJob /\ jobs'[j].provider = jobs[j].provider
      BY <2>1, <2>3 DEF IInv, Placed, history
  <2>4. CASE UNCHANGED <<down, history>> /\ jobs[j] = NoJob /\ jobs'[j].status = "failed"
    <3>1. sentTo[j] = None /\ Untouched(j)
        BY <2>4 DEF IInv, Placed, NoJob
    <3>2. Untouched(j)'
        BY <2>4, <3>1 DEF Untouched, NoNewWords, NoNewPosts, node
    <3> QED BY <2>4, <3>1, <3>2 DEF Placed, history
  <2> QED BY <2>2, <2>3, <2>4 DEF Handled
<1> QED BY <1>1, <1>2, <1>3, <1>4, <1>5 DEF IInv

\* A job that is in progress, or that somebody has a word to say about, was sent.
LEMMA SpokenOf ==
    ASSUME IInv, NEW j \in Jobs,
           \/ jobs[j].status \notin {"none", "failed"}
           \/ \E post \in posts : post.job = j
           \/ \E p \in Providers : \/ \E i \in DOMAIN up[p] : up[p][i].job = j
                                   \/ \E i \in DOMAIN down[p] : down[p][i].job = j
                                   \/ runs[p][j] # 0
    PROVE  sentTo[j] # None /\ jobs[j].status # "none"
BY DEF IInv, Placed, Untouched

\* The paid handler gives the job to its provider or to another, or fails it.
LEMMA PaidHandles ==
    ASSUME TypeOK, NEW j \in Jobs, NEW p \in Quoted, Paid(j, p)
    PROVE  Handled(j) /\ jobs[j] = NoJob
<1> DEFINE job == [status |-> "paid", provider |-> p, started |-> FALSE, overdue |-> FALSE]
<1>1. p \in Providers /\ job \in AnyJob /\ jobs[j] = NoJob /\ active \in [Providers -> Nat]
    BY DispatchAssumption DEF AnyJob, Paid, TypeOK
<1>2. [job EXCEPT !.status = "assigned"] \in Job /\ [job EXCEPT !.status = "assigned"].provider = p
    BY <1>1 DEF Job
<1>3. \/ End(j, job, "failed", active)
      \/ Give(j, [job EXCEPT !.status = "assigned"], p, active)
      \/ Retry(j, job, active)
    BY DEF Paid
<1> HIDE DEF job
<1> QED BY <1>1, <1>2, <1>3, EndHandles, GiveHandles, RetryHandles

\* Every handler of the broker keeps the invariant: payment, cancel, sweep, and what
\* nodes say on either way.
LEMMA BrokerStep ==
    ASSUME IInv, Broker PROVE IInv'
<1>1. TypeOK /\ \A p \in Providers : up[p] \in Seq(Up)
    BY DEF IInv, TypeOK
<1>2. UNCHANGED <<up, posts>> => NoNewWords
    BY <1>1, PostsAreNotNew DEF NoNewWords, TypeOK
<1>4. ASSUME NEW j \in Jobs, NEW p \in Quoted, Paid(j, p) PROVE IInv'
  <2>1. Handled(j) /\ jobs[j] = NoJob
      BY <1>1, <1>4, PaidHandles
  <2> QED BY <1>2, <1>4, <2>1, HandledKeeps DEF Paid
<1>5. ASSUME NEW j \in Jobs, Cancel(j) PROVE IInv'
  <2>1. jobs[j] \in Job /\ jobs[j] # NoJob /\ sentTo[j] # None
      BY <1>1, <1>5, StoredJobs, SpokenOf DEF Cancel, InProgress, NoJob
  <2>2. AddEvent(jobs[j]) \in AnyJob /\ AddEvent(jobs[j]).provider = jobs[j].provider
      BY <1>1, StoredJobs, JobRecords
  <2>3. LET job == Ended(AddEvent(jobs[j]), "failed")
        IN job \in Job /\ job.provider = jobs[j].provider /\ jobs' = [jobs EXCEPT ![j] = job]
      BY <1>5, <2>2, JobRecords DEF Cancel
  <2>4. active' = Fewer(jobs[j].provider) /\ UNCHANGED history
        /\ \/ UNCHANGED down
           \/ jobs[j].provider \in Providers /\ down' = Sent(jobs[j].provider, "cancel", j)
      BY <1>5, <2>1 DEF Cancel, Job
  <2>5. Handled(j)
      BY <1>1, <2>1, <2>3, <2>4, FewerType, PatchHandles
  <2> QED BY <1>2, <1>5, <2>1, <2>5, HandledKeeps DEF Cancel
<1>6. ASSUME NEW j \in Jobs, TimePasses(j) PROVE IInv'
  <2>1. jobs[j] \in Job /\ jobs[j] # NoJob /\ sentTo[j] # None
      BY <1>1, <1>6, StoredJobs, SpokenOf DEF TimePasses, InProgress, NoJob
  <2>2. LET job == [jobs[j] EXCEPT !.overdue = TRUE]
        IN job \in Job /\ job.provider = jobs[j].provider /\ jobs' = [jobs EXCEPT ![j] = job]
      BY <1>1, <1>6, <2>1 DEF TimePasses, Job, TypeOK
  <2>3. Handled(j)
      BY <1>1, <1>6, <2>1, <2>2, PatchHandles DEF TypeOK, TimePasses
  <2> QED BY <1>2, <1>6, <2>1, <2>3, HandledKeeps DEF TimePasses
<1>7. ASSUME NEW j \in Jobs, Sweep(j) PROVE IInv'
  <2>1. jobs[j].status # "none" /\ sentTo[j] # None
      BY <1>7, SpokenOf DEF Sweep, Overdue, InProgress
  <2>2. Handled(j)
      BY <1>1, <1>7, <2>1, FailedHandles DEF Sweep
  <2> QED BY <1>2, <1>7, <2>1, <2>2, HandledKeeps DEF Sweep
<1>8. ASSUME NEW p \in Providers, HubReceives(p) PROVE IInv'
  <2> DEFINE m == Head(up[p])
  <2>1. up[p] # <<>> /\ up' = [up EXCEPT ![p] = Tail(@)]
      BY <1>8 DEF HubReceives
  <2>2. m \in Up /\ 1 \in DOMAIN up[p] /\ m = up[p][1] /\ Tail(up[p]) \in Seq(Up)
        /\ Len(Tail(up[p])) <= Len(up[p])
        /\ \A i \in DOMAIN Tail(up[p]) : i + 1 \in DOMAIN up[p] /\ Tail(up[p])[i] = up[p][i + 1]
      BY <1>1, <2>1, Taken
  <2>3. m.job \in Jobs /\ sentTo[m.job] # None /\ jobs[m.job].status # "none"
    <3>1. m.job \in Jobs
        BY <2>2 DEF Up
    <3> QED BY <2>2, <3>1, SpokenOf
  <2>4. NoNewWords
    <3>1. \A q \in Providers : Len(up[q]) \in Nat /\ Len(up[q]) <= MaxQueue
        BY <1>1, LenProperties DEF TypeOK
    <3>2. Len(Tail(up[p])) <= MaxQueue
        BY <1>1, <2>2, <3>1, LenProperties, DispatchAssumption
    <3>3. up' \in [Providers -> Seq(Up)] /\ up'[p] = Tail(up[p])
          /\ \A q \in Providers \ {p} : up'[q] = up[q]
        BY <1>1, <2>1, <2>2 DEF TypeOK
    <3>4. NoNewPosts
        BY <1>1, <1>8, PostsAreNotNew DEF HubReceives
    <3>5. \A q \in Providers : \A i \in DOMAIN up'[q] : \E k \in DOMAIN up[q] : up'[q][i] = up[q][k]
      <4>1. \A i \in DOMAIN Tail(up[p]) : \E k \in DOMAIN up[p] : Tail(up[p])[i] = up[p][k]
          BY <2>2
      <4> QED BY <3>3, <4>1
    <3> QED BY <3>1, <3>2, <3>3, <3>4, <3>5 DEF NoNewWords
  <2>5. CASE jobs' = [jobs EXCEPT ![m.job] = Start(@)] /\ UNCHANGED <<active, down, history>>
    <3>1. jobs[m.job] \in Job /\ jobs[m.job] \in AnyJob /\ jobs[m.job] # NoJob
        BY <1>1, <2>3, StoredJobs DEF NoJob
    <3>2. Start(jobs[m.job]) \in Job /\ Start(jobs[m.job]).provider = jobs[m.job].provider
        BY <3>1, JobRecords
    <3>3. Handled(m.job)
        BY <1>1, <2>3, <2>5, <3>1, <3>2, PatchHandles DEF TypeOK
    <3> QED BY <1>8, <2>3, <2>4, <3>3, HandledKeeps DEF HubReceives
  <2>6. CASE Answer(m.job, p, m.type)
    <3>1. Handled(m.job)
        BY <1>1, <2>3, <2>6, AnswerHandles
    <3> QED BY <1>8, <2>3, <2>4, <3>1, HandledKeeps DEF HubReceives
  <2> QED BY <1>8, <2>5, <2>6 DEF HubReceives
<1>9. ASSUME NEW post \in posts, PostIsChecked(post) \/ PostActs(post) \/ PostIsLost(post) PROVE IInv'
  <2>1. post.job \in Jobs /\ sentTo[post.job] # None /\ jobs[post.job].status # "none"
    <3>1. post.job \in Jobs
        BY <1>1 DEF TypeOK, Posts
    <3> QED BY <3>1, SpokenOf
  <2>2. NoNewWords /\ UNCHANGED <<fleet, link, node, faults>>
    <3>1. NoNewPosts
        BY <1>1, <1>9, PostsAreNotNew
    <3>2. UNCHANGED <<up, fleet, link, node, faults>>
        BY <1>9 DEF PostIsChecked, PostActs, PostIsLost
    <3> QED BY <1>1, <3>1, <3>2 DEF NoNewWords, TypeOK
  <2>3. CASE Answer(post.job, post.from, post.type)
    <3>1. Handled(post.job)
        BY <1>1, <2>1, <2>3, AnswerHandles
    <3> QED BY <2>1, <2>2, <3>1, HandledKeeps
  <2>4. CASE UNCHANGED <<jobs, active, down, history>>
    <3>1. jobs[post.job] \in Job /\ jobs[post.job] # NoJob
        BY <1>1, <2>1, StoredJobs DEF NoJob
    <3>2. Handled(post.job)
        BY <1>1, <2>1, <2>4, <3>1 DEF Handled, TypeOK, history
    <3> QED BY <2>1, <2>2, <3>2, HandledKeeps
  <2> QED BY <1>9, <2>3, <2>4 DEF PostIsChecked, PostActs, PostIsLost
<1> QED BY <1>4, <1>5, <1>6, <1>7, <1>8, <1>9 DEF Broker

-----------------------------------------------------------------------------
(* Nodes, links, and what goes wrong.                                      *)

\* A step that neither sends a job nor changes its status, and lets no node speak of
\* a job that nobody spoke of before.
LEMMA ElsewhereKeeps ==
    ASSUME IInv, TypeOK', Finite', Listening', UNCHANGED sentTo,
           \A j \in Jobs : jobs'[j].status = jobs[j].status
                           /\ jobs'[j].provider \in {jobs[j].provider, None},
           \A j \in Jobs : Untouched(j) => Untouched(j)'
    PROVE  IInv'
<1> SUFFICES ASSUME NEW j \in Jobs PROVE Placed(j)'
    BY DEF IInv
<1> QED BY DEF IInv, Placed

\* What a node says, it says of a job, and in one place.
LEMMA ReportSays ==
    ASSUME TypeOK, NEW p \in Providers, NEW j \in Jobs, NEW type \in Reports, Report(p, j, type)
    PROVE  /\ up' \in [Providers -> Seq(Up)]
           /\ \A q \in Providers : Len(up'[q]) <= MaxQueue
           /\ posts' \subseteq Posts
           /\ \A q \in Providers : \A i \in DOMAIN up'[q] :
                 up'[q][i].job = j \/ (i \in DOMAIN up[q] /\ up'[q][i] = up[q][i])
           /\ \A post \in posts' : post.job = j \/ post \in posts
<1> DEFINE m == [type |-> type, job |-> j]
<1>1. m \in Up /\ m.job = j
    BY DEF Up
<1>2. up[p] \in Seq(Up) /\ Len(up[p]) \in Nat /\ up \in [Providers -> Seq(Up)]
    BY LenProperties DEF TypeOK
<1>3. CASE up' = [up EXCEPT ![p] = Append(@, m)] /\ Len(up[p]) < MaxQueue /\ UNCHANGED posts
  <2>1. /\ Append(up[p], m) \in Seq(Up) /\ Len(Append(up[p], m)) = Len(up[p]) + 1
        /\ \A i \in DOMAIN Append(up[p], m) :
              Append(up[p], m)[i] = m \/ (i \in DOMAIN up[p] /\ Append(up[p], m)[i] = up[p][i])
      BY <1>1, <1>2, Appended
  <2>2. Len(up[p]) + 1 <= MaxQueue
      BY <1>2, <1>3, DispatchAssumption
  <2> HIDE DEF m
  <2> QED BY <1>1, <1>2, <1>3, <2>1, <2>2 DEF TypeOK
<1>4. CASE posts' = posts \cup {[from |-> p, job |-> j, type |-> type, checked |-> FALSE]} /\ UNCHANGED up
  <2>1. [from |-> p, job |-> j, type |-> type, checked |-> FALSE] \in Posts
      BY DispatchAssumption DEF Posts
  <2>2. posts' \subseteq Posts
      BY <1>4, <2>1 DEF TypeOK
  <2>3. \A post \in posts' : post.job = j \/ post \in posts
      BY <1>4
  <2> QED BY <1>2, <1>4, <2>2, <2>3 DEF TypeOK
<1> QED BY <1>3, <1>4 DEF Report

\* Whatever a node does keeps the invariant: it speaks only of jobs it was sent.
LEMMA NodeStep ==
    ASSUME IInv, NEW p \in Providers, Node(p) PROVE IInv'
<1>1. TypeOK /\ Finite /\ Listening
    BY DEF IInv
<1>2. ASSUME NodeReceives(p) PROVE IInv'
  <2> DEFINE m == Head(down[p])
  <2>1. down[p] # <<>> /\ down' = [down EXCEPT ![p] = Tail(@)]
        /\ UNCHANGED <<jobs, fleet, active, link, posts, history, faults>>
      BY <1>2 DEF NodeReceives
  <2>2. m \in Down /\ m.job \in Jobs /\ 1 \in DOMAIN down[p] /\ m = down[p][1] /\ Tail(down[p]) \in Seq(Down)
        /\ Len(Tail(down[p])) <= Len(down[p])
        /\ \A i \in DOMAIN Tail(down[p]) : i + 1 \in DOMAIN down[p] /\ Tail(down[p])[i] = down[p][i + 1]
    <3>1. down[p] \in Seq(Down)
        BY <1>1 DEF TypeOK
    <3>2. m \in Down /\ 1 \in DOMAIN down[p] /\ m = down[p][1] /\ Tail(down[p]) \in Seq(Down)
          /\ Len(Tail(down[p])) <= Len(down[p])
          /\ \A i \in DOMAIN Tail(down[p]) : i + 1 \in DOMAIN down[p] /\ Tail(down[p])[i] = down[p][i + 1]
        BY <2>1, <3>1, Taken
    <3> QED BY <3>2 DEF Down
  <2>3. down' \in [Providers -> Seq(Down)] /\ \A q \in Providers : Len(down'[q]) <= MaxQueue
    <3>1. \A q \in Providers : Len(down[q]) \in Nat /\ Len(Tail(down[p])) \in Nat
        BY <1>1, <2>2, LenProperties DEF TypeOK
    <3> QED BY <1>1, <2>1, <2>2, <3>1, DispatchAssumption DEF TypeOK
  <2>4. \A j \in Jobs : Untouched(j) => m.job # j
      BY <2>2 DEF Untouched
  <2>5. \A j \in Jobs : Untouched(j) =>
          \A q \in Providers : \A i \in DOMAIN down'[q] : down'[q][i].job # j
    <3>1. \A q \in Providers \ {p} : down'[q] = down[q]
        BY <1>1, <2>1 DEF TypeOK
    <3>2. down'[p] = Tail(down[p])
        BY <1>1, <2>1 DEF TypeOK
    <3>3. \A i \in DOMAIN Tail(down[p]) : \E k \in DOMAIN down[p] : Tail(down[p])[i] = down[p][k]
        BY <2>2
    <3>4. ASSUME NEW j \in Jobs, Untouched(j), NEW q \in Providers, NEW i \in DOMAIN down'[q]
          PROVE  down'[q][i].job # j
      <4>1. \A k \in DOMAIN down[q] : down[q][k].job # j
          BY <3>4 DEF Untouched
      <4>2. CASE q = p
          BY <3>2, <3>3, <3>4, <4>1, <4>2
      <4>3. CASE q # p
          BY <3>1, <3>4, <4>1, <4>3
      <4> QED BY <4>2, <4>3
    <3> QED BY <3>4
  <2>9. Listening'
      BY <1>1, <2>1 DEF Listening, TypeOK
  <2>6. ASSUME /\ m.type = "dispatch" /\ runs[p][m.job] < MaxRuns /\ Len(up[p]) < MaxQueue
               /\ runs' = [runs EXCEPT ![p][m.job] = @ + 1]
               /\ running' = [running EXCEPT ![p] = @ \cup {m.job}]
               /\ up' = [up EXCEPT ![p] = Append(@, [type |-> "accepted", job |-> m.job])]
               /\ UNCHANGED aborted
        PROVE  IInv'
    <3> DEFINE w == [type |-> "accepted", job |-> m.job]
    <3>1. w \in Up /\ w.job = m.job
        BY <2>2 DEF Up
    <3>2. up[p] \in Seq(Up) /\ Len(up[p]) \in Nat
        BY <1>1, LenProperties DEF TypeOK
    <3>3. /\ Append(up[p], w) \in Seq(Up) /\ Len(Append(up[p], w)) = Len(up[p]) + 1
          /\ \A i \in DOMAIN Append(up[p], w) :
                Append(up[p], w)[i] = w \/ (i \in DOMAIN up[p] /\ Append(up[p], w)[i] = up[p][i])
        BY <3>1, <3>2, Appended
    <3>4. Len(up[p]) + 1 <= MaxQueue
        BY <2>6, <3>2, DispatchAssumption
    <3>5. up'[p] = Append(up[p], w) /\ \A q \in Providers \ {p} : up'[q] = up[q]
        BY <1>1, <2>6 DEF TypeOK
    <3>6. up' \in [Providers -> Seq(Up)] /\ \A q \in Providers : Len(up'[q]) <= MaxQueue
        BY <1>1, <2>6, <3>3, <3>4, <3>5 DEF TypeOK
    <3>7. /\ runs' \in [Providers -> [Jobs -> 0..MaxRuns]] /\ running' \in [Providers -> SUBSET Jobs]
          /\ \A q \in Providers : /\ running'[q] \subseteq {j \in Jobs : runs'[q][j] > 0}
                                  /\ \A j \in Jobs : aborted'[q][j] <= runs'[q][j]
        BY <1>1, <2>2, <2>6, DispatchAssumption DEF TypeOK
    <3>8. TypeOK'
        BY <1>1, <2>1, <2>3, <2>6, <3>6, <3>7 DEF TypeOK, fleet, history
    <3>9. Finite'
      <4>1. running'[p] = running[p] \cup {m.job} /\ \A q \in Providers \ {p} : running'[q] = running[q]
          BY <1>1, <2>6 DEF TypeOK
      <4>2. IsFiniteSet(running[p] \cup {m.job})
          BY <1>1, FS_AddElement DEF Finite
      <4> QED BY <1>1, <4>1, <4>2 DEF Finite
    <3>10. ASSUME NEW j \in Jobs, Untouched(j) PROVE Untouched(j)'
      <4>1. m.job # j
          BY <2>4, <3>10
      <4>2. \A q \in Providers : \A i \in DOMAIN up'[q] : up'[q][i].job # j
          BY <3>1, <3>3, <3>5, <3>10, <4>1 DEF Untouched
      <4>3. \A q \in Providers : runs'[q][j] = 0
          BY <1>1, <2>2, <2>6, <3>10, <4>1 DEF Untouched, TypeOK
      <4> QED BY <2>1, <2>5, <3>10, <4>2, <4>3 DEF Untouched
    <3> QED BY <2>1, <2>9, <3>8, <3>9, <3>10, ElsewhereKeeps DEF history
  <2>7. ASSUME /\ aborted' = IF m.job \in running[p] /\ aborted[p][m.job] < runs[p][m.job]
                             THEN [aborted EXCEPT ![p][m.job] = @ + 1] ELSE aborted
               /\ UNCHANGED <<runs, running, up>>
        PROVE  IInv'
    <3>1. aborted' \in [Providers -> [Jobs -> Nat]]
          /\ \A q \in Providers : \A j \in Jobs : aborted'[q][j] <= runs'[q][j]
      <4>1. /\ aborted \in [Providers -> [Jobs -> Nat]] /\ runs \in [Providers -> [Jobs -> 0..MaxRuns]]
            /\ \A q \in Providers : \A j \in Jobs : aborted[q][j] <= runs[q][j]
          BY <1>1 DEF TypeOK
      <4>2. CASE aborted[p][m.job] < runs[p][m.job]
                 /\ aborted' = [aborted EXCEPT ![p][m.job] = @ + 1]
        <5> HIDE DEF m
        <5>1. aborted[p][m.job] + 1 <= runs[p][m.job] /\ aborted[p][m.job] + 1 \in Nat
            BY <2>2, <4>1, <4>2, DispatchAssumption
        <5> QED BY <2>2, <2>7, <4>1, <4>2, <5>1
      <4>3. CASE aborted' = aborted
          BY <2>7, <4>1, <4>3
      <4> QED BY <2>7, <4>2, <4>3
    <3>2. TypeOK' /\ Finite'
        BY <1>1, <2>1, <2>3, <2>7, <3>1 DEF TypeOK, Finite, fleet, history
    <3>3. \A j \in Jobs : Untouched(j) => Untouched(j)'
        BY <2>1, <2>5, <2>7 DEF Untouched
    <3> QED BY <2>1, <2>9, <3>2, <3>3, ElsewhereKeeps DEF history
  <2> QED BY <1>2, <2>6, <2>7 DEF NodeReceives
<1>3. ASSUME NEW j \in Jobs, NodeStreams(p, j) PROVE IInv'
  <2>1. Report(p, j, "event") /\ runs[p][j] > 0
        /\ UNCHANGED <<jobs, fleet, active, link, down, node, history, faults>>
      BY <1>3 DEF NodeStreams
  <2>2. TypeOK' /\ Finite' /\ Listening'
      BY <1>1, <2>1, ReportSays DEF Reports, TypeOK, Finite, Listening, fleet, node, history
  <2>3. \A k \in Jobs : Untouched(k) => k # j
      BY <2>1 DEF Untouched
  <2>4. \A k \in Jobs : Untouched(k) => Untouched(k)'
      BY <1>1, <2>1, <2>3, ReportSays DEF Reports, Untouched, node
  <2> QED BY <2>1, <2>2, <2>4, ElsewhereKeeps DEF history
<1>4. ASSUME NEW j \in Jobs, NodeFinishes(p, j) PROVE IInv'
  <2>1. runs[p][j] > 0 /\ runs' = [runs EXCEPT ![p][j] = @ - 1]
        /\ running' = [running EXCEPT ![p] = @ \ {j}]
        /\ UNCHANGED <<jobs, fleet, active, link, down, history, faults>>
      BY <1>4 DEF NodeFinishes
  <2>2. PICK type \in Reports : Report(p, j, type)
      BY <1>4 DEF NodeFinishes, Reports
  <2>3. aborted' \in [Providers -> [Jobs -> Nat]]
        /\ \A q \in Providers : \A k \in Jobs : aborted'[q][k] <= runs'[q][k]
    <3>1. runs[p][j] \in Nat /\ aborted[p][j] \in Nat
        BY <1>1, DispatchAssumption DEF TypeOK
    <3>2. CASE runs[p][j] > aborted[p][j] /\ UNCHANGED aborted
        BY <1>1, <2>1, <3>1, <3>2, DispatchAssumption DEF TypeOK
    <3>3. CASE aborted[p][j] > 0 /\ aborted' = [aborted EXCEPT ![p][j] = @ - 1]
        BY <1>1, <2>1, <3>1, <3>3, DispatchAssumption DEF TypeOK
    <3> QED BY <1>4, <3>2, <3>3 DEF NodeFinishes
  <2>4. /\ runs' \in [Providers -> [Jobs -> 0..MaxRuns]] /\ running' \in [Providers -> SUBSET Jobs]
        /\ \A q \in Providers : running'[q] \subseteq {k \in Jobs : runs'[q][k] > 0}
      BY <1>1, <2>1, DispatchAssumption DEF TypeOK
  <2>5. TypeOK'
      BY <1>1, <2>1, <2>2, <2>3, <2>4, ReportSays DEF TypeOK, fleet, history
  <2>6. Finite' /\ Listening'
    <3>1. Finite'
        BY <1>1, <2>1, FS_Subset DEF Finite, TypeOK
    <3> QED BY <1>1, <2>1, <3>1 DEF Listening
  <2>7. ASSUME NEW k \in Jobs, Untouched(k) PROVE Untouched(k)'
    <3>1. k # j
        BY <2>1, <2>7 DEF Untouched
    <3>2. \A q \in Providers : runs'[q][k] = 0
        BY <1>1, <2>1, <2>7, <3>1 DEF Untouched, TypeOK
    <3> QED BY <1>1, <2>1, <2>2, <2>7, <3>1, <3>2, ReportSays DEF Untouched
  <2> QED BY <2>1, <2>5, <2>6, <2>7, ElsewhereKeeps DEF history
<1>6. ASSUME NEW j \in Jobs, NodeTellsBoth(p, j) PROVE IInv'
  <2>1. runs[p][j] > aborted[p][j] /\ Report(p, j, "result")
        /\ aborted' = [aborted EXCEPT ![p][j] = @ + 1]
        /\ disturbed' \subseteq Jobs /\ faults' \in 0..MaxFaults
        /\ UNCHANGED <<jobs, fleet, active, link, down, runs, running, sentTo>>
      BY <1>1, <1>6, DispatchAssumption DEF NodeTellsBoth, TypeOK
  <2>2. /\ aborted' \in [Providers -> [Jobs -> Nat]]
        /\ \A q \in Providers : \A k \in Jobs : aborted'[q][k] <= runs'[q][k]
      BY <1>1, <2>1, DispatchAssumption DEF TypeOK
  <2>3. TypeOK' /\ Finite' /\ Listening'
      BY <1>1, <2>1, <2>2, ReportSays DEF Reports, TypeOK, Finite, Listening, fleet
  <2>4. \A k \in Jobs : Untouched(k) => k # j
    <3>1. runs[p][j] # 0
        BY <1>1, <2>1, DispatchAssumption DEF TypeOK
    <3> QED BY <3>1 DEF Untouched
  <2>5. \A k \in Jobs : Untouched(k) => Untouched(k)'
      BY <1>1, <2>1, <2>4, ReportSays DEF Reports, Untouched
  <2> QED BY <2>1, <2>3, <2>5, ElsewhereKeeps
<1>5. ASSUME Heartbeat(p) PROVE IInv'
  <2>1. Cardinality(running[p]) \in Nat
      BY <1>1, FS_CardinalityType DEF Finite
  <2>2. active' \in [Providers -> Nat]
    <3>1. \/ active' = [active EXCEPT ![p] = Cardinality(running[p])]
          \/ active' = [active EXCEPT ![p] = 0]
        BY <1>5 DEF Heartbeat
    <3>2. ASSUME NEW n \in Nat, active' = [active EXCEPT ![p] = n]
          PROVE  active' \in [Providers -> Nat]
        BY <1>1, <3>2 DEF TypeOK
    <3> QED BY <2>1, <3>1, <3>2
  <2>3. offered' \subseteq known' /\ known' \subseteq Providers
      BY <1>1, <1>5 DEF Heartbeat, TypeOK
  <2>4. UNCHANGED <<jobs, link, down, up, posts, node, history, faults>>
      BY <1>5 DEF Heartbeat
  <2>5. TypeOK' /\ Finite' /\ Listening' /\ \A j \in Jobs : Untouched(j) => Untouched(j)'
      BY <1>1, <2>2, <2>3, <2>4 DEF TypeOK, Finite, Listening, Untouched, node, history
  <2> QED BY <2>4, <2>5, ElsewhereKeeps DEF history
<1> QED BY <1>2, <1>3, <1>4, <1>5, <1>6 DEF Node

\* A record that goes takes its id out of the jobs, and nothing else.
LEMMA OrphanedJobs ==
    ASSUME TypeOK, NEW ids \in SUBSET Providers
    PROVE  /\ Orphaned(ids) \in [Jobs -> Job \cup {NoJob}]
           /\ \A j \in Jobs : Orphaned(ids)[j].status = jobs[j].status
                              /\ Orphaned(ids)[j].provider \in {jobs[j].provider, None}
<1> SUFFICES ASSUME NEW j \in Jobs
             PROVE  /\ Orphaned(ids)[j] \in Job \cup {NoJob} /\ Orphaned(ids)[j].status = jobs[j].status
                    /\ Orphaned(ids)[j].provider \in {jobs[j].provider, None}
    BY DEF Orphaned
<1>1. jobs[j] \in Job \cup {NoJob}
    BY DEF TypeOK
<1>2. CASE jobs[j].provider \in ids
  <2>1. jobs[j] \in Job
      BY <1>1, <1>2, DispatchAssumption DEF NoJob
  <2> QED BY <1>2, <2>1 DEF Orphaned, Job
<1>3. CASE jobs[j].provider \notin ids
    BY <1>1, <1>3 DEF Orphaned
<1> QED BY <1>2, <1>3

\* Broken links, silence, crashes and restarts keep the invariant: they only forget.
LEMMA TroubleStep ==
    ASSUME IInv, (\E p \in Providers : Trouble(p)) \/ Restart PROVE IInv'
<1> USE DispatchAssumption
<1>1. TypeOK /\ Finite /\ Listening
    BY DEF IInv
<1>2. <<>> \in Seq(Down) /\ <<>> \in Seq(Up) /\ Len(<<>>) = 0
    BY EmptySeq
<1>3. ASSUME NEW p \in Providers, GoesSilent(p) \/ HubNotices(p) \/ Reconnect(p) PROVE IInv'
  <2>1. UNCHANGED <<jobs, known, active, down, posts, node, history, faults>>
        /\ (UNCHANGED up \/ up' = [up EXCEPT ![p] = <<>>])
      BY <1>3 DEF GoesSilent, HubNotices, Reconnect, fleet
  <2>2. offered' \subseteq known /\ link' \in [Providers -> {"up", "half", "down"}]
      BY <1>1, <1>3 DEF GoesSilent, HubNotices, Reconnect, fleet, TypeOK
  <2>3. /\ up' \in [Providers -> Seq(Up)]
        /\ \A q \in Providers : up'[q] \in {up[q], <<>>} /\ Len(up'[q]) <= MaxQueue
    <3>1. CASE UNCHANGED up
        BY <1>1, <3>1 DEF TypeOK
    <3>2. CASE up' = [up EXCEPT ![p] = <<>>]
      <4>1. up'[p] = <<>> /\ \A q \in Providers \ {p} : up'[q] = up[q]
          BY <1>1, <3>2 DEF TypeOK
      <4>2. up' \in [Providers -> Seq(Up)]
          BY <1>1, <1>2, <3>2 DEF TypeOK
      <4>3. Len(<<>>) <= MaxQueue
          BY <1>2
      <4> QED BY <1>1, <4>1, <4>2, <4>3 DEF TypeOK
    <3> QED BY <2>1, <3>1, <3>2
  <2>4. TypeOK' /\ Finite'
      BY <1>1, <2>1, <2>2, <2>3 DEF TypeOK, Finite, node, history
  <2>6. Listening'
      BY <1>1, <1>3, <2>1 DEF Listening, TypeOK, GoesSilent, HubNotices, Reconnect
  <2>5. \A j \in Jobs : Untouched(j) => Untouched(j)'
      BY <1>2, <2>1, <2>3 DEF Untouched, node
  <2> QED BY <2>1, <2>4, <2>5, <2>6, ElsewhereKeeps DEF history
<1>4. ASSUME NEW p \in Providers, Reap(p) PROVE IInv'
  <2>1. jobs' = Orphaned({p}) /\ known' = known \ {p} /\ p \notin offered /\ NoNewPosts
        /\ UNCHANGED <<offered, active, link, down, up, node, history, faults>>
      BY <1>1, <1>4, PostsAreNotNew DEF Reap
  <2>2. /\ jobs' \in [Jobs -> Job \cup {NoJob}]
        /\ \A j \in Jobs : jobs'[j].status = jobs[j].status
                           /\ jobs'[j].provider \in {jobs[j].provider, None}
      BY <1>1, <2>1, OrphanedJobs
  <2>3. TypeOK' /\ Finite' /\ Listening'
      BY <1>1, <2>1, <2>2 DEF TypeOK, Finite, Listening, node, history, NoNewPosts
  <2>4. \A j \in Jobs : Untouched(j) => Untouched(j)'
      BY <2>1, <2>2 DEF Untouched, node, NoNewPosts
  <2> QED BY <2>1, <2>2, <2>3, <2>4, ElsewhereKeeps DEF history
<1>5. ASSUME NEW p \in Providers, Break(p) PROVE IInv'
  <2>1. faults' \in 0..MaxFaults /\ link' \in [Providers -> {"up", "half", "down"}]
        /\ down' = [down EXCEPT ![p] = <<>>]
        /\ disturbed' \subseteq Jobs /\ UNCHANGED <<jobs, fleet, active, up, posts, node, sentTo>>
      BY <1>1, <1>5 DEF Break, TypeOK
  <2>2. TypeOK' /\ Finite' /\ \A j \in Jobs : Untouched(j) => Untouched(j)'
      BY <1>1, <1>2, <2>1 DEF TypeOK, Finite, Untouched, fleet, node
  <2>3. Listening'
      BY <1>1, <1>5 DEF Break, Listening, TypeOK
  <2> QED BY <2>1, <2>2, <2>3, ElsewhereKeeps
<1>6. ASSUME NEW p \in Providers, NodeCrashes(p) PROVE IInv'
  <2>1. faults' \in 0..MaxFaults /\ link' \in [Providers -> {"up", "half", "down"}]
        /\ down' = [down EXCEPT ![p] = <<>>] /\ running' = [running EXCEPT ![p] = {}]
        /\ runs' = [runs EXCEPT ![p] = [j \in Jobs |-> 0]]
        /\ aborted' = [aborted EXCEPT ![p] = [j \in Jobs |-> 0]]
        /\ UNCHANGED <<jobs, fleet, active, up, posts, history>>
      BY <1>1, <1>6 DEF NodeCrashes, TypeOK
  <2>2. /\ runs' \in [Providers -> [Jobs -> 0..MaxRuns]] /\ aborted' \in [Providers -> [Jobs -> Nat]]
        /\ running' \in [Providers -> SUBSET Jobs]
        /\ \A q \in Providers : /\ running'[q] \subseteq {j \in Jobs : runs'[q][j] > 0}
                                /\ \A j \in Jobs : aborted'[q][j] <= runs'[q][j]
      BY <1>1, <2>1 DEF TypeOK
  <2>3. TypeOK'
      BY <1>1, <1>2, <2>1, <2>2 DEF TypeOK, fleet, history
  <2>4. Finite'
      BY <1>1, <2>1, FS_EmptySet DEF Finite, TypeOK
  <2>5. \A j \in Jobs : Untouched(j) => Untouched(j)'
      BY <1>1, <1>2, <2>1 DEF TypeOK, Untouched
  <2>6. Listening'
      BY <1>1, <1>6 DEF NodeCrashes, Listening, TypeOK
  <2> QED BY <2>1, <2>3, <2>4, <2>5, <2>6, ElsewhereKeeps DEF history
<1>7. ASSUME Restart PROVE IInv'
  <2>1. jobs' = Orphaned(Providers) /\ faults' \in 0..MaxFaults /\ known' = {} /\ offered' = {}
        /\ active' = [p \in Providers |-> 0] /\ link' = [p \in Providers |-> "down"]
        /\ down' = [p \in Providers |-> <<>>] /\ up' = [p \in Providers |-> <<>>] /\ posts' = {}
        /\ UNCHANGED <<node, history>>
      BY <1>1, <1>7 DEF Restart, TypeOK
  <2>2. /\ jobs' \in [Jobs -> Job \cup {NoJob}]
        /\ \A j \in Jobs : jobs'[j].status = jobs[j].status
                           /\ jobs'[j].provider \in {jobs[j].provider, None}
      BY <1>1, <2>1, OrphanedJobs
  <2>3. TypeOK' /\ Finite' /\ Listening'
      BY <1>1, <1>2, <2>1, <2>2 DEF TypeOK, Finite, Listening, node, history
  <2>4. \A j \in Jobs : Untouched(j) => Untouched(j)'
      BY <2>1, <2>2 DEF Untouched, node
  <2> QED BY <2>1, <2>2, <2>3, <2>4, ElsewhereKeeps DEF history
<1> QED BY <1>3, <1>4, <1>5, <1>6, <1>7 DEF Trouble

-----------------------------------------------------------------------------
\* Nobody is spoken of before the first job.
LEMMA InitIInv == Init => IInv
<1> SUFFICES ASSUME Init PROVE IInv
    OBVIOUS
<1>1. <<>> \in Seq(Down) /\ <<>> \in Seq(Up) /\ Len(<<>>) = 0 /\ DOMAIN <<>> = {}
    BY EmptySeq
<1>2. TypeOK
    BY <1>1, DispatchAssumption DEF Init, TypeOK
<1>3. Finite
    BY FS_EmptySet DEF Init, Finite
<1>4. Listening
    BY DEF Init, Listening
<1> QED BY <1>1, <1>2, <1>3, <1>4 DEF Init, IInv, Placed, Untouched, NoJob

\* The invariant is inductive.
LEMMA StepIInv == IInv /\ [Next]_vars => IInv'
<1> SUFFICES ASSUME IInv, [Next]_vars PROVE IInv'
    OBVIOUS
<1>1. CASE UNCHANGED vars
    BY <1>1 DEF vars, fleet, node, history, IInv, TypeOK, Finite, Listening, Placed, Untouched
<1> QED BY <1>1, BrokerStep, NodeStep, TroubleStep DEF Next

\* Every reachable state is typed, and every job is where the broker sent it.
THEOREM DispatchInvariant == Spec => []IInv
BY InitIInv, StepIInv, PTL DEF Spec

\* A job in progress is with the provider it was last sent to, or with one the broker
\* has forgotten, whatever is lost, repeated or late (dispatch, reassign, cancel).
THEOREM JobsAreWhereTheyWereSent == Spec => []InProgressWasSent
<1>1. IInv => InProgressWasSent
    BY StoredJobs DEF IInv, InProgressWasSent, Placed, Untouched, InProgress
<1> QED BY <1>1, DispatchInvariant, PTL

-----------------------------------------------------------------------------
(* Outcomes.                                                               *)

\* The hub never reads of a job that nobody was asked to do.
LEMMA HeadIsOfSent ==
    ASSUME IInv, NEW p \in Providers, up[p] # <<>>
    PROVE  /\ Head(up[p]) \in Up /\ 1 \in DOMAIN up[p] /\ Head(up[p]) = up[p][1]
           /\ Head(up[p]).job \in Jobs /\ sentTo[Head(up[p]).job] # None
           /\ jobs[Head(up[p]).job].status # "none"
<1>1. up[p] \in Seq(Up)
    BY DEF IInv, TypeOK
<1>2. Head(up[p]) \in Up /\ 1 \in DOMAIN up[p] /\ Head(up[p]) = up[p][1]
    BY <1>1, Taken
<1>3. Head(up[p]).job \in Jobs
    BY <1>2 DEF Up
<1> QED BY <1>2, <1>3, SpokenOf

\* Once nothing about a job that is over runs or is on its way, its outcome stands: no
\* sweep, heartbeat, reconnect, reap or restart changes it.
THEOREM OutcomesAreFinal == Spec => OutcomeIsFinalWhenQuiet
<1>1. ASSUME IInv, [Next]_vars, NEW j \in Jobs, Terminal(j), Quiet(j)
      PROVE  jobs'[j].status = jobs[j].status
  <2>1. TypeOK /\ jobs[j] # NoJob /\ jobs[j].status # "none" /\ ~InProgress(j)
      BY <1>1 DEF IInv, NoJob, InProgress, Terminal
  <2>2. ASSUME NEW k \in Jobs, k # j, Handled(k) PROVE jobs'[j].status = jobs[j].status
      BY <2>2 DEF Handled
  <2>3. ASSUME NEW k \in Jobs, NEW p \in Quoted, Paid(k, p) PROVE jobs'[j].status = jobs[j].status
      BY <2>1, <2>2, <2>3, PaidHandles
  <2>4. ASSUME NEW k \in Jobs, Sweep(k) PROVE jobs'[j].status = jobs[j].status
    <3>1. k # j /\ jobs[k].status # "none" /\ FinishJobFailed(k, jobs[k].provider)
        BY <2>1, <2>4 DEF Sweep, Overdue, InProgress
    <3> QED BY <2>1, <2>2, <3>1, FailedHandles
  <2>5. ASSUME NEW k \in Jobs, Cancel(k) \/ TimePasses(k) PROVE jobs'[j].status = jobs[j].status
    <3>1. k # j
        BY <2>1, <2>5 DEF Cancel, TimePasses
    <3> QED BY <2>1, <2>5, <3>1 DEF Cancel, TimePasses, TypeOK
  <2>6. ASSUME NEW p \in Providers, HubReceives(p) PROVE jobs'[j].status = jobs[j].status
    <3> DEFINE m == Head(up[p])
    <3>1. m \in Up /\ m.job \in Jobs /\ jobs[m.job].status # "none" /\ 1 \in DOMAIN up[p] /\ m = up[p][1]
        BY <1>1, <2>6, HeadIsOfSent DEF HubReceives
    <3>2. m.job # j
      <4>1. m.type # "cancel"
          BY <3>1 DEF Up, Reports
      <4>2. 1 \notin About(up[p], j)
          BY <1>1 DEF Quiet
      <4> QED BY <3>1, <4>1, <4>2 DEF About
    <3>3. CASE jobs' = [jobs EXCEPT ![m.job] = Start(@)]
        BY <2>1, <3>2, <3>3 DEF TypeOK
    <3>4. CASE Answer(m.job, p, m.type)
        BY <2>1, <2>2, <3>1, <3>2, <3>4, AnswerHandles
    <3> QED BY <2>6, <3>3, <3>4 DEF HubReceives
  <2>7. ASSUME NEW post \in posts, PostIsChecked(post) \/ PostActs(post) \/ PostIsLost(post)
        PROVE  jobs'[j].status = jobs[j].status
    <3>1. post.job \in Jobs /\ jobs[post.job].status # "none" /\ post.job # j
      <4>1. post.job \in Jobs
          BY <2>1 DEF TypeOK, Posts
      <4> QED BY <1>1, <4>1, SpokenOf DEF Quiet
    <3>2. CASE Answer(post.job, post.from, post.type)
        BY <2>1, <2>2, <3>1, <3>2, AnswerHandles
    <3> QED BY <2>7, <3>2 DEF PostIsChecked, PostActs, PostIsLost
  <2>8. ASSUME NEW ids \in SUBSET Providers, jobs' = Orphaned(ids)
        PROVE  jobs'[j].status = jobs[j].status
      BY <2>1, <2>8, OrphanedJobs
  <2>9. Broker => jobs'[j].status = jobs[j].status
      BY <2>3, <2>4, <2>5, <2>6, <2>7 DEF Broker
  <2>10. ASSUME NEW p \in Providers, Node(p) \/ Trouble(p)
         PROVE  UNCHANGED jobs \/ jobs' = Orphaned({p})
      BY <2>10 DEF Node, Trouble, NodeReceives, NodeStreams, NodeFinishes, NodeTellsBoth, Heartbeat,
             GoesSilent, Reap, Break, HubNotices, Reconnect, NodeCrashes
  <2>11. Restart => jobs' = Orphaned(Providers)
      BY DEF Restart
  <2> QED BY <1>1, <2>8, <2>9, <2>10, <2>11 DEF Next, vars
<1>2. IInv /\ [Next]_vars =>
        [\A j \in Jobs : Terminal(j) /\ Quiet(j) => jobs'[j].status = jobs[j].status]_vars
    BY <1>1
<1> QED BY <1>2, DispatchInvariant, PTL DEF OutcomeIsFinalWhenQuiet, Spec
-----------------------------------------------------------------------------
(* What was delivered.  A job that was handed out once is asked of one node,  *)
(* run once, answered once and read once: it is in one of these places, and   *)
(* an "accepted" comes before its answer.                                     *)
Outcomes == {"result", "error"}
Asked(p, j) == {i \in DOMAIN down[p] : down[p][i].type = "dispatch" /\ down[p][i].job = j}
Says(p, j) == {i \in DOMAIN up[p] : up[p][i].type # "event" /\ up[p][i].job = j}
Told(p, j) == {i \in Says(p, j) : up[p][i].type \in Outcomes}
Posted(j) == {post \in posts : post.type \in Outcomes /\ post.job = j}
Silent(p, j) == runs[p][j] = 0 /\ Asked(p, j) = {} /\ Says(p, j) = {}

Once(p, j) ==
    /\ \A i, k \in Asked(p, j) : i = k
    /\ Asked(p, j) # {} => runs[p][j] = 0 /\ Says(p, j) = {} /\ Posted(j) = {}
    /\ runs[p][j] # 0 => /\ runs[p][j] = 1 /\ Told(p, j) = {} /\ Posted(j) = {}
                         /\ link[p] # "up" => Says(p, j) = {}
    /\ \A i \in Told(p, j) : \A k \in Says(p, j) : k <= i
    /\ Told(p, j) # {} => Posted(j) = {}
    /\ Posted(j) # {} => Says(p, j) = {}
    /\ \A x, y \in Posted(j) : x = y

Alone(j) ==
    /\ \A q \in Providers : q # sentTo[j] => Silent(q, j)
    /\ \A p \in Providers : p = sentTo[j] => Once(p, j)
    /\ jobs[j].status = "completed" => Posted(j) = {} /\ \A q \in Providers : Silent(q, j)

DInv == IInv /\ \A j \in Jobs \ disturbed : Alone(j)

\* What most steps do to a job: of what is said about it, some is gone, and nothing
\* is added.  A queue may have moved up by one.
AskedFades(j) ==
    \A q \in Providers : \E d \in {0, 1} : \A i \in Asked(q, j)' : i + d \in Asked(q, j)
SaysFades(j) ==
    \A q \in Providers : \E d \in {0, 1} :
        \A i \in Says(q, j)' : i + d \in Says(q, j) /\ up'[q][i].type = up[q][i + d].type
PostsFade(j) ==
    /\ Posted(j) = {} => Posted(j)' = {}
    /\ (\A x, y \in Posted(j) : x = y) => \A x, y \in Posted(j)' : x = y
RunsFade(j) ==
    \A q \in Providers :
        /\ runs'[q][j] \in {0, runs[q][j]}
        /\ link'[q] # "up" => link[q] # "up" \/ runs'[q][j] = 0 \/ Says(q, j)' = {}
Lingers(j) ==
    /\ sentTo'[j] = sentTo[j] /\ AskedFades(j)
    /\ jobs'[j].status = "completed" => jobs[j].status = "completed"

\* A job that fades stays where it is alone.
LEMMA FadingKeeps ==
    ASSUME TypeOK, TypeOK', NEW j \in Jobs, Alone(j),
           Lingers(j), SaysFades(j), PostsFade(j), RunsFade(j)
    PROVE  Alone(j)'
<1>1. \A q \in Providers : Asked(q, j)' \subseteq Int /\ Says(q, j)' \subseteq Int
    <2>1. \A q \in Providers : down'[q] \in Seq(Down) /\ up'[q] \in Seq(Up)
        BY DEF TypeOK
    <2> QED BY <2>1, LenProperties DEF Asked, Says
<1>2. ASSUME NEW q \in Providers
      PROVE  /\ Asked(q, j)' # {} => Asked(q, j) # {}
             /\ Says(q, j)' # {} => Says(q, j) # {}
             /\ Told(q, j)' # {} => Told(q, j) # {}
             /\ (\A i, k \in Asked(q, j) : i = k) => \A i, k \in Asked(q, j)' : i = k
             /\ (\A i \in Told(q, j) : \A k \in Says(q, j) : k <= i)
                   => \A i \in Told(q, j)' : \A k \in Says(q, j)' : k <= i
  <2>1. PICK d \in {0, 1} : \A i \in Asked(q, j)' : i + d \in Asked(q, j)
      BY DEF Lingers, AskedFades
  <2>2. PICK e \in {0, 1} :
            \A i \in Says(q, j)' : i + e \in Says(q, j) /\ up'[q][i].type = up[q][i + e].type
      BY DEF SaysFades
  <2>3. \A i \in Told(q, j)' : i \in Says(q, j)' /\ i + e \in Told(q, j)
      BY <2>2 DEF Told
  <2>4. ASSUME NEW i \in Told(q, j)', NEW k \in Says(q, j)',
               \A x \in Told(q, j) : \A y \in Says(q, j) : y <= x
        PROVE  k <= i
    <3>1. k + e <= i + e /\ i \in Int /\ k \in Int
        BY <1>1, <2>2, <2>3, <2>4
    <3> QED BY <3>1
  <2>5. ASSUME NEW i \in Asked(q, j)', NEW k \in Asked(q, j)', \A x, y \in Asked(q, j) : x = y
        PROVE  i = k
    <3>1. i + d = k + d /\ i \in Int /\ k \in Int
        BY <1>1, <2>1, <2>5
    <3> QED BY <3>1
  <2> QED BY <2>1, <2>2, <2>3, <2>4, <2>5
<1>3. \A q \in Providers : Silent(q, j) => Silent(q, j)'
    BY <1>2 DEF Silent, RunsFade
<1>4. \A q \in Providers : Once(q, j) => Once(q, j)'
    BY <1>2 DEF Once, RunsFade, PostsFade
<1> QED BY <1>3, <1>4 DEF Alone, Lingers, PostsFade

\* So does one of which nothing is said any more.
LEMMA HushedIsAlone ==
    ASSUME NEW j \in Jobs, Posted(j)' = {}, \A q \in Providers : Silent(q, j)'
    PROVE  Alone(j)'
<1>1. \A q \in Providers : Once(q, j)'
    BY DEF Silent, Once, Told
<1> QED BY <1>1 DEF Alone

\* Words that are as they were, or about something else.
LEMMA AskedStay ==
    ASSUME TypeOK', NEW j \in Jobs,
           \A q \in Providers : \A i \in DOMAIN down'[q] :
              \/ i \in DOMAIN down[q] /\ down'[q][i] = down[q][i]
              \/ down'[q][i].type # "dispatch" \/ down'[q][i].job # j
    PROVE  AskedFades(j)
<1>1. ASSUME NEW q \in Providers, NEW i \in Asked(q, j)' PROVE i + 0 \in Asked(q, j)
  <2>1. i \in DOMAIN down'[q] /\ i \in Int /\ i \in Asked(q, j)
    <3>1. down'[q] \in Seq(Down)
        BY DEF TypeOK
    <3> QED BY <1>1, <3>1, LenProperties DEF Asked
  <2> QED BY <2>1
<1> QED BY <1>1 DEF AskedFades

\* What no queue took up, by socket or by HTTP, is said no more than it was.
LEMMA SaysStay ==
    ASSUME TypeOK', NEW j \in Jobs,
           \A q \in Providers : \A i \in DOMAIN up'[q] :
              \/ i \in DOMAIN up[q] /\ up'[q][i] = up[q][i]
              \/ up'[q][i].type = "event" \/ up'[q][i].job # j
    PROVE  SaysFades(j)
<1>1. ASSUME NEW q \in Providers, NEW i \in Says(q, j)'
      PROVE  i + 0 \in Says(q, j) /\ up'[q][i].type = up[q][i + 0].type
  <2>1. i \in DOMAIN up'[q] /\ i \in Int /\ i \in Says(q, j) /\ up'[q][i] = up[q][i]
    <3>1. up'[q] \in Seq(Up)
        BY DEF TypeOK
    <3> QED BY <1>1, <3>1, LenProperties DEF Says
  <2> QED BY <2>1
<1> QED BY <1>1 DEF SaysFades

\* The word that is taken off a queue is said no more; the others fade with it.
LEMMA SaysTaken ==
    ASSUME TypeOK, NEW j \in Jobs, NEW p \in Providers, up[p] # <<>>, up' = [up EXCEPT ![p] = Tail(@)]
    PROVE  /\ SaysFades(j)
           /\ \A q \in Providers : q # p => Says(q, j)' = Says(q, j)
           /\ \A i \in Says(p, j)' : i + 1 \in Says(p, j)
<1>1. up[p] \in Seq(Up) /\ up'[p] = Tail(up[p]) /\ \A q \in Providers : q # p => up'[q] = up[q]
    BY DEF TypeOK
<1>2. \A i \in DOMAIN Tail(up[p]) : i + 1 \in DOMAIN up[p] /\ Tail(up[p])[i] = up[p][i + 1]
    BY <1>1, Taken
<1>3. \A i \in Says(p, j)' : i + 1 \in Says(p, j) /\ up'[p][i].type = up[p][i + 1].type
    BY <1>1, <1>2 DEF Says
<1>4. \A q \in Providers : q # p => Says(q, j)' = Says(q, j)
    BY <1>1 DEF Says
<1>5. ASSUME NEW q \in Providers, q # p, NEW i \in Says(q, j)'
      PROVE  i + 0 \in Says(q, j) /\ up'[q][i].type = up[q][i + 0].type
  <2>1. i \in Says(q, j) /\ up'[q] = up[q]
      BY <1>1, <1>4, <1>5
  <2>2. i \in Int
    <3>1. up[q] \in Seq(Up)
        BY DEF TypeOK
    <3> QED BY <2>1, <3>1, LenProperties DEF Says
  <2>3. i + 0 = i
      BY <2>2
  <2> QED BY <2>1, <2>3
<1>6. ASSUME NEW q \in Providers
      PROVE  \E d \in {0, 1} :
                 \A i \in Says(q, j)' : i + d \in Says(q, j) /\ up'[q][i].type = up[q][i + d].type
  <2>1. CASE q = p
      BY <1>3, <2>1
  <2>2. CASE q # p
      BY <1>5, <2>2
  <2> QED BY <2>1, <2>2
<1> QED BY <1>3, <1>4, <1>6 DEF SaysFades

\* A job that nobody was asked to do is handed out for the first time.
LEMMA GiveBegins ==
    ASSUME IInv, TypeOK', NEW j \in Jobs, NEW p \in Providers, NEW job, NEW act,
           Give(j, job, p, act), job.status # "completed", j \notin disturbed',
           NoNewWords, UNCHANGED node
    PROVE  Alone(j)'
<1>1. sentTo[j] = None /\ Untouched(j)
    BY DEF Give, IInv, Placed
<1>2. Posted(j)' = {} /\ \A q \in Providers : Says(q, j)' = {} /\ runs'[q][j] = 0
  <2>1. \A q \in Providers : \A i \in DOMAIN up'[q] : up'[q][i].job # j
      BY <1>1 DEF NoNewWords, Untouched
  <2>2. \A post \in posts' : post.job # j
      BY <1>1 DEF NoNewWords, NoNewPosts, Untouched
  <2> QED BY <1>1, <2>1, <2>2 DEF Untouched, Posted, Says, node
<1>3. \A q \in Providers : Asked(q, j) = {}
    BY <1>1 DEF Untouched, Asked
<1>4. jobs'[j].status # "completed" /\ sentTo'[j] = p
    BY DEF Give, IInv, TypeOK
<1>5. \A q \in Providers : q # p => Asked(q, j)' = {}
  <2>1. \A q \in Providers : q # p => down'[q] = down[q]
      BY DEF Give, Sent, IInv, TypeOK
  <2> QED BY <1>3, <2>1 DEF Asked
<1>6. \A i, k \in Asked(p, j)' : i = k
  <2> DEFINE m == [type |-> "dispatch", job |-> j]
  <2>1. down'[p] = Append(down[p], m) \/ down'[p] = down[p]
      BY DEF Give, Sent, IInv, TypeOK
  <2>2. down[p] \in Seq(Down) /\ m \in Down
      BY DEF IInv, TypeOK, Down
  <2>3. CASE down'[p] = Append(down[p], m)
    <3>1. \A i \in DOMAIN down'[p] : i = Len(down[p]) + 1 \/ (i \in DOMAIN down[p] /\ down'[p][i] = down[p][i])
        BY <2>2, <2>3, AppendProperties, LenProperties
    <3>2. \A i \in Asked(p, j)' : i = Len(down[p]) + 1
        BY <1>3, <3>1 DEF Asked
    <3> QED BY <3>2
  <2>4. CASE down'[p] = down[p]
      BY <1>3, <2>4 DEF Asked
  <2> QED BY <2>1, <2>3, <2>4
<1>7. \A q \in Providers : q # p => Silent(q, j)'
    BY <1>2, <1>5 DEF Silent
<1>8. Once(p, j)'
    BY <1>2, <1>6 DEF Once, Told
<1> QED BY <1>4, <1>7, <1>8 DEF Alone

\* What a handler about another job leaves alone.
LEMMA OthersLinger ==
    ASSUME TypeOK', NEW j \in Jobs, NEW k \in Jobs, k # j, Handled(k)
    PROVE  Lingers(j)
<1>1. jobs'[j] = jobs[j] /\ sentTo'[j] = sentTo[j]
    BY DEF Handled
<1>2. \A q \in Providers : \A i \in DOMAIN down'[q] :
          down'[q][i].job = k \/ (i \in DOMAIN down[q] /\ down'[q][i] = down[q][i])
    BY DEF Handled
<1>3. AskedFades(j)
    BY <1>2, AskedStay
<1> QED BY <1>1, <1>3 DEF Lingers

\* A job that is handed out again is disturbed; one that is not lingers or is new.
Begins(j) == \E p \in Providers : \E job, act : Give(j, job, p, act) /\ job.status # "completed"

\* No handler leaves a job completed, but for finishJobOk.
LEMMA NotCompleted ==
    ASSUME TypeOK, NEW j \in Jobs, NEW job \in AnyJob
    PROVE  /\ \A p \in Providers : Reassigned(job, p).status = "running"
           /\ Ended(job, "failed").status = "failed" /\ Start(job).status = "running"
           /\ AddEvent(job).status = "completed" => job.status = "completed"
<1>1. Start(job).status = "running"
    BY DEF AnyJob, Start
<1>2. AddEvent(job).status = "completed" => job.status = "completed"
    BY <1>1 DEF AddEvent
<1>3. ASSUME NEW p \in Providers PROVE Reassigned(job, p).status = "running"
  <2> DEFINE given == [job EXCEPT !.status = "assigned", !.provider = p]
  <2>1. given.status = "assigned" /\ given \in AnyJob
      BY DEF AnyJob
  <2>2. Reassigned(job, p) = Start(given)
      BY <2>1 DEF Reassigned, AddEvent
  <2> HIDE DEF given
  <2>3. Start(given).status = "running"
      BY <2>1 DEF AnyJob, Start
  <2> QED BY <2>2, <2>3
<1>4. Ended(job, "failed").status = "failed"
    BY DEF AnyJob, Ended
<1> QED BY <1>1, <1>2, <1>3, <1>4

\* The end of a job, but by its result, and reassign.
LEMMA EndLingers ==
    ASSUME TypeOK, TypeOK', NEW j \in Jobs, NEW job \in AnyJob, NEW act, End(j, job, "failed", act)
    PROVE  Lingers(j)
<1>1. jobs'[j].status = "failed" /\ sentTo'[j] = sentTo[j] /\ down' = down
    BY NotCompleted DEF End, TypeOK, history
<1>2. AskedFades(j)
    BY <1>1, AskedStay
<1> QED BY <1>1, <1>2 DEF Lingers

\* reassign leaves a job that is not completed, whoever gets it.
LEMMA RetryLingers ==
    ASSUME TypeOK, TypeOK', NEW j \in Jobs, NEW job \in AnyJob, NEW act, Retry(j, job, act)
    PROVE  Lingers(j) \/ Begins(j)
<1>1. CASE End(j, job, "failed", act)
    BY <1>1, EndLingers
<1>2. ASSUME NEW p \in Candidates(act), Give(j, Reassigned(job, p), p, act) PROVE Begins(j)
  <2>1. p \in Providers /\ Reassigned(job, p).status # "completed"
      BY NotCompleted DEF Candidates, TypeOK
  <2> QED BY <1>2, <2>1 DEF Begins
<1> QED BY <1>1, <1>2 DEF Retry

\* finishJobFailed, for a job handed on or failed alike, completes nothing.
LEMMA FailedLingers ==
    ASSUME TypeOK, TypeOK', NEW j \in Jobs, NEW p, FinishJobFailed(j, p)
    PROVE  Lingers(j) \/ Begins(j)
BY StoredJobs, EndLingers, RetryLingers DEF FinishJobFailed

\* A handler of the broker, if it does not take a result.
LEMMA HandlerKeeps ==
    ASSUME IInv, TypeOK', NEW j \in Jobs, Alone(j), j \notin disturbed',
           Lingers(j) \/ Begins(j) \/ (\E k \in Jobs : k # j /\ Handled(k)),
           SaysFades(j), PostsFade(j), NoNewWords, UNCHANGED <<link, node>>
    PROVE  Alone(j)'
<1>1. CASE Begins(j)
    BY <1>1, GiveBegins DEF Begins
<1>2. CASE Lingers(j) \/ (\E k \in Jobs : k # j /\ Handled(k))
  <2>1. Lingers(j)
      BY <1>2, OthersLinger
  <2>2. RunsFade(j)
      BY DEF RunsFade, node
  <2> QED BY <2>1, <2>2, FadingKeeps DEF IInv
<1> QED BY <1>1, <1>2
\* Requests that are checked, lost, acted on or left alone, and those of a provider
\* that is reaped, are those there were.
LEMMA PostsOnlyFade ==
    ASSUME TypeOK, NEW j \in Jobs,
           \/ UNCHANGED posts
           \/ \E post \in posts : PostIsChecked(post) \/ posts' = posts \ {post}
           \/ \E p \in Providers : Reap(p)
    PROVE  PostsFade(j)
<1>1. posts \subseteq Posts
    BY DEF TypeOK
<1>2. CASE posts' \subseteq posts
    BY <1>2 DEF PostsFade, Posted
<1>3. ASSUME NEW post \in posts, posts' = (posts \ {post}) \cup {[post EXCEPT !.checked = TRUE]}
      PROVE  PostsFade(j)
  <2> DEFINE seen == [post EXCEPT !.checked = TRUE]
  <2>1. seen.job = post.job /\ seen.type = post.type
      BY <1>1 DEF Posts
  <2> HIDE DEF seen
  <2>2. \A x \in Posted(j)' : (x = seen /\ post \in Posted(j)) \/ (x \in Posted(j) /\ x # post)
      BY <1>3, <2>1 DEF Posted, seen
  <2> QED BY <2>2 DEF PostsFade
<1>4. ASSUME NEW p \in Providers, Reap(p) PROVE PostsFade(j)
  <2>1. \A x \in Posted(j)' : \E u \in Posted(j) : x = u \/ x = [u EXCEPT !.from = None]
    <3>1. ASSUME NEW u \in posts
          PROVE  LET x == [u EXCEPT !.from = None] IN x.job = u.job /\ x.type = u.type
        BY <1>1 DEF Posts
    <3>2. ASSUME NEW x \in Posted(j)', x \notin posts
          PROVE  \E u \in Posted(j) : x = [u EXCEPT !.from = None]
      <4>1. PICK u \in posts : x = [u EXCEPT !.from = None]
          BY <1>4, <3>2 DEF Reap, Posted
      <4> QED BY <3>1, <3>2, <4>1 DEF Posted
    <3> QED BY <3>2 DEF Posted
  <2>2. ASSUME NEW u \in Posted(j), \A x, y \in Posted(j) : x = y
        PROVE  \A x, y \in Posted(j)' : x = y
    <3>1. CASE u.from = p
      <4>1. u \notin posts'
        <5>1. [u EXCEPT !.from = None].from = None
            BY <1>1 DEF Posted, Posts
        <5>2. \A v \in posts : [v EXCEPT !.from = None].from = None
            BY <1>1 DEF Posts
        <5> QED BY <1>4, <3>1, <5>2, DispatchAssumption DEF Reap
      <4>2. \A x \in Posted(j)' : x = [u EXCEPT !.from = None]
          BY <2>1, <2>2, <4>1 DEF Posted
      <4> QED BY <4>2
    <3>2. CASE u.from # p
      <4>1. \A x \in Posted(j)' : x = u
        <5>1. ASSUME NEW x \in Posted(j)', x \notin posts PROVE FALSE
          <6>1. PICK v \in posts : x = [v EXCEPT !.from = None] /\ v.from = p
              BY <1>4, <5>1 DEF Reap, Posted
          <6>2. x.job = v.job /\ x.type = v.type
              BY <1>1, <6>1 DEF Posts
          <6>3. v \in Posted(j)
              BY <5>1, <6>1, <6>2 DEF Posted
          <6> QED BY <2>2, <3>2, <6>1, <6>3
        <5> QED BY <2>2, <5>1 DEF Posted
      <4> QED BY <4>1
    <3> QED BY <3>1, <3>2
  <2> QED BY <2>1, <2>2 DEF PostsFade
<1> QED BY <1>2, <1>3, <1>4 DEF PostIsChecked

\* finishJobOk takes the one result there is.
LEMMA ResultIsTheLast ==
    ASSUME IInv, NEW j \in Jobs, Alone(j), NEW p, FinishJobOk(j, p), UNCHANGED node,
           \/ /\ \E q \in Providers : /\ up[q] # <<>> /\ up' = [up EXCEPT ![q] = Tail(@)]
                                      /\ Head(up[q]) = [type |-> "result", job |-> j]
              /\ UNCHANGED posts
           \/ /\ \E post \in Posted(j) : posts' = posts \ {post}
              /\ UNCHANGED up
    PROVE  Alone(j)'
<1>1. TypeOK /\ UNCHANGED down
    BY DEF IInv, FinishJobOk, End
<1>2. \A q \in Providers : runs'[q][j] = runs[q][j] /\ Asked(q, j)' = Asked(q, j)
    BY <1>1 DEF node, Asked
<1>3. ASSUME NEW q \in Providers, up[q] # <<>>, up' = [up EXCEPT ![q] = Tail(@)],
             Head(up[q]) = [type |-> "result", job |-> j], UNCHANGED posts
      PROVE  Alone(j)'
  <2>1. up[q] \in Seq(Up) /\ 1 \in DOMAIN up[q] /\ Head(up[q]) = up[q][1]
      BY <1>1, <1>3, Taken DEF TypeOK
  <2>2. 1 \in Told(q, j)
      BY <1>3, <2>1 DEF Told, Says, Outcomes
  <2>3. q = sentTo[j] /\ Once(q, j)
      BY <2>2 DEF Alone, Silent, Told
  <2>4. runs[q][j] = 0 /\ Asked(q, j) = {} /\ Posted(j) = {} /\ \A k \in Says(q, j) : k <= 1
      BY <2>2, <2>3 DEF Once, Told
  <2>5. Says(q, j)' = {}
    <3>1. ASSUME NEW i \in Says(q, j)' PROVE FALSE
      <4>1. i + 1 \in Says(q, j)
          BY <1>1, <1>3, <3>1, SaysTaken
      <4>2. i \in Nat /\ i >= 1
        <5>1. up'[q] \in Seq(Up)
            BY <1>1, <1>3, <2>1, Taken DEF TypeOK
        <5> QED BY <3>1, <5>1, LenProperties DEF Says
      <4> QED BY <2>4, <4>1, <4>2
    <3> QED BY <3>1
  <2>6. \A r \in Providers : r # q => Silent(r, j) /\ Says(r, j)' = Says(r, j)
      BY <1>1, <1>3, <2>3, SaysTaken DEF Alone
  <2>7. \A r \in Providers : Silent(r, j)'
      BY <1>2, <2>4, <2>5, <2>6 DEF Silent
  <2>8. Posted(j)' = {}
      BY <1>3, <2>4 DEF Posted
  <2> QED BY <2>7, <2>8, HushedIsAlone
<1>4. ASSUME NEW post \in Posted(j), posts' = posts \ {post}, UNCHANGED up PROVE Alone(j)'
  <2>1. sentTo[j] \in Providers
    <3>1. sentTo[j] # None
        BY SpokenOf DEF Posted
    <3> QED BY <1>1, <3>1 DEF TypeOK
  <2>2. Once(sentTo[j], j) /\ \A q \in Providers : q # sentTo[j] => Silent(q, j)
      BY <2>1 DEF Alone
  <2>3. \A q \in Providers : Silent(q, j)
      BY <2>2 DEF Once, Silent
  <2>4. \A q \in Providers : Silent(q, j)'
      BY <1>2, <1>4, <2>3 DEF Silent, Says
  <2>5. Posted(j)' = {}
      BY <1>4, <2>2 DEF Once, Posted
  <2> QED BY <2>4, <2>5, HushedIsAlone
<1> QED BY <1>3, <1>4

\* A cancel, and a bit of a job's record that changes.
LEMMA CancelLingers ==
    ASSUME IInv, TypeOK', NEW j \in Jobs, NEW k \in Jobs, Cancel(k) \/ TimePasses(k)
    PROVE  Lingers(j)
<1>1. TypeOK /\ jobs[k] \in Job /\ jobs[k] \in AnyJob /\ UNCHANGED history
    BY StoredJobs DEF IInv, Cancel, TimePasses, InProgress
<1>2. jobs'[j].status = "completed" => jobs[j].status = "completed"
  <2>1. CASE j = k
    <3>1. CASE jobs' = [jobs EXCEPT ![j] = Ended(AddEvent(@), "failed")]
      <4>1. AddEvent(jobs[j]) \in AnyJob
          BY <1>1, <2>1, JobRecords
      <4>2. jobs'[j] = Ended(AddEvent(jobs[j]), "failed")
          BY <1>1, <3>1 DEF TypeOK
      <4> QED BY <4>1, <4>2 DEF Ended, AnyJob
    <3>2. CASE jobs' = [jobs EXCEPT ![j].overdue = TRUE]
        BY <1>1, <2>1, <3>2 DEF TypeOK, Job
    <3> QED BY <2>1, <3>1, <3>2 DEF Cancel, TimePasses
  <2>2. CASE j # k
      BY <1>1, <2>2 DEF Cancel, TimePasses, TypeOK
  <2> QED BY <2>1, <2>2
<1>3. AskedFades(j)
  <2>1. down' = down \/ (jobs[k].provider \in Providers /\ down' = Sent(jobs[k].provider, "cancel", k))
      BY <1>1 DEF Cancel, TimePasses, Job
  <2>2. CASE down' = down
      BY <2>2, AskedStay
  <2>3. CASE jobs[k].provider \in Providers /\ down' = Sent(jobs[k].provider, "cancel", k)
    <3>1. \A q \in Providers : \A i \in DOMAIN down'[q] :
              \/ i \in DOMAIN down[q] /\ down'[q][i] = down[q][i]
              \/ down'[q][i].type = "cancel"
        BY <1>1, <2>3, SentOnly
    <3>2. \A q \in Providers : \A i \in DOMAIN down'[q] :
              \/ i \in DOMAIN down[q] /\ down'[q][i] = down[q][i]
              \/ down'[q][i].type # "dispatch" \/ down'[q][i].job # j
        BY <3>1
    <3> QED BY <3>2, AskedStay
  <2> QED BY <2>1, <2>2, <2>3
<1> QED BY <1>1, <1>2, <1>3 DEF Lingers, history

\* An answer that is taken: the last word about the job, or one that ends nothing.
LEMMA AnswerLingers ==
    ASSUME IInv, TypeOK', NEW j \in Jobs, NEW k \in Jobs, NEW p, NEW type, Answer(k, p, type),
           jobs[k].status # "none"
    PROVE  \/ Lingers(j) \/ Begins(j) \/ \E l \in Jobs : l # j /\ Handled(l)
           \/ j = k /\ type = "result" /\ FinishJobOk(j, p)
<1>1. TypeOK
    BY DEF IInv
<1>2. CASE k # j
    BY <1>1, <1>2, AnswerHandles
<1>3. CASE k = j /\ type = "event" /\ jobs' = [jobs EXCEPT ![k] = AddEvent(@)]
           /\ UNCHANGED <<active, down, history>>
  <2>1. jobs'[j] = AddEvent(jobs[j]) /\ jobs[j] \in AnyJob
      BY <1>1, <1>3, StoredJobs DEF TypeOK
  <2>2. AskedFades(j)
      BY <1>3, AskedStay
  <2> QED BY <1>1, <1>3, <2>1, <2>2, NotCompleted DEF Lingers, history
<1>4. CASE k = j /\ FinishJobFailed(k, p)
    BY <1>1, <1>4, FailedLingers
<1> QED BY <1>2, <1>3, <1>4 DEF Answer
\* The broker's handlers leave an undisturbed job in one place.
LEMMA BrokerAlone ==
    ASSUME IInv, IInv', NEW j \in Jobs, Alone(j), j \notin disturbed', Broker
    PROVE  Alone(j)'
<1>1. TypeOK /\ TypeOK' /\ \A p \in Providers : up[p] \in Seq(Up)
    BY DEF IInv, TypeOK
<1>2. UNCHANGED <<up, posts>> => NoNewWords /\ SaysFades(j) /\ PostsFade(j)
    BY <1>1, PostsAreNotNew, PostsOnlyFade, SaysStay DEF NoNewWords, TypeOK
<1>3. ASSUME NEW k \in Jobs, NEW p \in Quoted, Paid(k, p) PROVE Alone(j)'
  <2> DEFINE job == [status |-> "paid", provider |-> p, started |-> FALSE, overdue |-> FALSE]
  <2>1. CASE k # j
      BY <1>1, <1>2, <1>3, <2>1, PaidHandles, HandlerKeeps DEF Paid
  <2>2. CASE k = j
    <3>1. p \in Providers /\ job \in AnyJob /\ [job EXCEPT !.status = "assigned"].status # "completed"
        BY DispatchAssumption DEF AnyJob
    <3>2. \/ End(j, job, "failed", active)
          \/ Give(j, [job EXCEPT !.status = "assigned"], p, active)
          \/ Retry(j, job, active)
        BY <1>3, <2>2 DEF Paid
    <3> HIDE DEF job
    <3>3. Lingers(j) \/ Begins(j)
      <4>1. CASE Give(j, [job EXCEPT !.status = "assigned"], p, active)
          BY <3>1, <4>1 DEF Begins
      <4> QED BY <1>1, <3>1, <3>2, <4>1, EndLingers, RetryLingers
    <3> QED BY <1>1, <1>2, <1>3, <3>3, HandlerKeeps DEF Paid
  <2> QED BY <2>1, <2>2
<1>4. ASSUME NEW k \in Jobs, Cancel(k) \/ TimePasses(k) PROVE Alone(j)'
  <2>1. Lingers(j)
      BY <1>1, <1>4, CancelLingers
  <2> QED BY <1>1, <1>2, <1>4, <2>1, HandlerKeeps DEF Cancel, TimePasses
<1>5. ASSUME NEW k \in Jobs, Sweep(k) PROVE Alone(j)'
  <2>1. FinishJobFailed(k, jobs[k].provider) /\ jobs[k].status # "none"
      BY <1>5 DEF Sweep, Overdue, InProgress
  <2>2. Lingers(j) \/ Begins(j) \/ \E l \in Jobs : l # j /\ Handled(l)
      BY <1>1, <2>1, FailedLingers, FailedHandles
  <2> QED BY <1>1, <1>2, <1>5, <2>2, HandlerKeeps DEF Sweep
<1>6. ASSUME NEW p \in Providers, HubReceives(p) PROVE Alone(j)'
  <2> DEFINE m == Head(up[p])
  <2>1. up[p] # <<>> /\ up' = [up EXCEPT ![p] = Tail(@)] /\ UNCHANGED <<link, posts, node>>
      BY <1>6 DEF HubReceives
  <2>2. m \in Up /\ m.job \in Jobs /\ jobs[m.job].status # "none"
      BY <2>1, HeadIsOfSent
  <2>3. SaysFades(j) /\ PostsFade(j) /\ NoNewWords
    <3>1. NoNewPosts
        BY <1>1, <2>1, PostsAreNotNew
    <3>2. \A q \in Providers : \A i \in DOMAIN up'[q] : \E k \in DOMAIN up[q] : up'[q][i] = up[q][k]
      <4>1. \A i \in DOMAIN Tail(up[p]) : \E k \in DOMAIN up[p] : Tail(up[p])[i] = up[p][k]
          BY <1>1, <2>1, Taken
      <4>2. up'[p] = Tail(up[p]) /\ \A q \in Providers \ {p} : up'[q] = up[q]
          BY <1>1, <2>1 DEF TypeOK
      <4> QED BY <4>1, <4>2
    <3> QED BY <1>1, <2>1, <3>1, <3>2, PostsOnlyFade, SaysTaken DEF NoNewWords, TypeOK
  <2>4. CASE m.type = "accepted" /\ jobs' = [jobs EXCEPT ![m.job] = Start(@)]
             /\ UNCHANGED <<active, down, history>>
    <3>1. jobs'[j].status = "completed" => jobs[j].status = "completed"
      <4>1. jobs[j] \in AnyJob
          BY <1>1, StoredJobs
      <4>2. jobs'[j] = IF m.job = j THEN Start(jobs[j]) ELSE jobs[j]
          BY <1>1, <2>2, <2>4 DEF TypeOK
      <4> QED BY <1>1, <4>1, <4>2, NotCompleted
    <3>2. AskedFades(j)
        BY <1>1, <2>4, AskedStay
    <3>3. Lingers(j)
        BY <2>4, <3>1, <3>2 DEF Lingers, history
    <3> QED BY <1>1, <2>1, <2>3, <3>3, HandlerKeeps
  <2>5. CASE Answer(m.job, p, m.type)
    <3>1. CASE j = m.job /\ m.type = "result" /\ FinishJobOk(j, p)
      <4>1. m = [type |-> "result", job |-> j]
          BY <2>2, <3>1 DEF Up
      <4> QED BY <2>1, <3>1, <4>1, ResultIsTheLast
    <3>2. CASE Lingers(j) \/ Begins(j) \/ \E l \in Jobs : l # j /\ Handled(l)
        BY <1>1, <2>1, <2>3, <3>2, HandlerKeeps
    <3> QED BY <1>1, <2>2, <2>5, <3>1, <3>2, AnswerLingers
  <2> QED BY <1>6, <2>4, <2>5 DEF HubReceives
<1>7. ASSUME NEW post \in posts, PostIsChecked(post) \/ PostActs(post) \/ PostIsLost(post)
      PROVE  Alone(j)'
  <2>1. SaysFades(j) /\ PostsFade(j) /\ NoNewWords /\ UNCHANGED <<up, link, node>>
    <3>1. UNCHANGED <<up, link, node>> /\ (PostIsChecked(post) \/ posts' = posts \ {post})
        BY <1>7 DEF PostIsChecked, PostActs, PostIsLost
    <3>2. SaysFades(j) /\ PostsFade(j)
        BY <1>1, <3>1, PostsOnlyFade, SaysStay
    <3>3. NoNewWords
        BY <1>1, <1>7, <3>1, PostsAreNotNew DEF NoNewWords, TypeOK
    <3> QED BY <3>1, <3>2, <3>3
  <2>2. CASE PostIsChecked(post) \/ PostIsLost(post)
    <3>1. UNCHANGED <<jobs, down, history>>
        BY <2>2 DEF PostIsChecked, PostIsLost
    <3>2. Lingers(j)
        BY <1>1, <3>1, AskedStay DEF Lingers, history
    <3> QED BY <1>1, <2>1, <3>2, HandlerKeeps
  <2>3. CASE PostActs(post)
    <3>1. Answer(post.job, post.from, post.type) /\ posts' = posts \ {post}
        BY <2>3 DEF PostActs
    <3>2. post.job \in Jobs /\ jobs[post.job].status # "none"
      <4>1. post.job \in Jobs
          BY <1>1 DEF TypeOK, Posts
      <4> QED BY <4>1, SpokenOf
    <3>3. CASE j = post.job /\ post.type = "result" /\ FinishJobOk(j, post.from)
      <4>1. post \in Posted(j)
          BY <3>3 DEF Posted, Outcomes
      <4> QED BY <2>1, <3>1, <3>3, <4>1, ResultIsTheLast
    <3>4. CASE Lingers(j) \/ Begins(j) \/ \E l \in Jobs : l # j /\ Handled(l)
        BY <1>1, <2>1, <3>4, HandlerKeeps
    <3> QED BY <1>1, <3>1, <3>2, <3>3, <3>4, AnswerLingers
  <2> QED BY <1>7, <2>2, <2>3
<1> QED BY <1>3, <1>4, <1>5, <1>6, <1>7 DEF Broker

\* A node's word about another job, or of a step of this one.
LEMMA ReportFades ==
    ASSUME TypeOK, TypeOK', NEW j \in Jobs, NEW k \in Jobs, NEW p \in Providers, NEW type \in Reports,
           Report(p, k, type), k # j \/ type = "event"
    PROVE  SaysFades(j) /\ PostsFade(j)
<1> DEFINE m == [type |-> type, job |-> k]
           post == [from |-> p, job |-> k, type |-> type, checked |-> FALSE]
<1>1. m \in Up /\ m.type = type /\ m.job = k /\ post.job = k /\ post.type = type
    BY DEF Up
<1>2. CASE up' = [up EXCEPT ![p] = Append(@, m)] /\ UNCHANGED posts
  <2>1. up[p] \in Seq(Up) /\ up'[p] = Append(up[p], m) /\ \A q \in Providers : q # p => up'[q] = up[q]
      BY <1>2 DEF TypeOK
  <2>2. \A i \in DOMAIN up'[p] : up'[p][i] = m \/ (i \in DOMAIN up[p] /\ up'[p][i] = up[p][i])
      BY <1>1, <2>1, Appended
  <2> HIDE DEF m
  <2>3. \A q \in Providers : \A i \in DOMAIN up'[q] :
            \/ i \in DOMAIN up[q] /\ up'[q][i] = up[q][i]
            \/ up'[q][i].type = "event" \/ up'[q][i].job # j
      BY <1>1, <2>1, <2>2
  <2> QED BY <1>2, <2>3, SaysStay, PostsOnlyFade
<1>3. CASE posts' = posts \cup {post} /\ UNCHANGED up
  <2>1. Posted(j)' = Posted(j)
      BY <1>1, <1>3 DEF Posted, Outcomes
  <2> QED BY <1>3, <2>1, SaysStay DEF PostsFade
<1> QED BY <1>2, <1>3 DEF Report

\* A node takes what it is asked, runs it and answers; the job is in one place.
LEMMA NodeAlone ==
    ASSUME IInv, IInv', NEW j \in Jobs, Alone(j), j \notin disturbed', NEW p \in Providers, Node(p)
    PROVE  Alone(j)'
<1>1. TypeOK /\ TypeOK' /\ Listening
    BY DEF IInv
<1>2. ASSUME UNCHANGED <<jobs, sentTo, link>>, AskedFades(j), SaysFades(j), PostsFade(j),
             \A q \in Providers : runs'[q][j] = runs[q][j]
      PROVE  Alone(j)'
    BY <1>1, <1>2, FadingKeeps DEF Lingers, RunsFade
<1>3. ASSUME NodeReceives(p) PROVE Alone(j)'
  <2> DEFINE m == Head(down[p])
             w == [type |-> "accepted", job |-> m.job]
  <2>1. down[p] # <<>> /\ down' = [down EXCEPT ![p] = Tail(@)]
        /\ UNCHANGED <<jobs, link, posts, history>>
      BY <1>3 DEF NodeReceives
  <2>2. /\ m \in Down /\ m.job \in Jobs /\ 1 \in DOMAIN down[p] /\ m = down[p][1]
        /\ down'[p] = Tail(down[p]) /\ \A q \in Providers : q # p => down'[q] = down[q]
        /\ \A i \in DOMAIN down'[p] : i + 1 \in DOMAIN down[p] /\ down'[p][i] = down[p][i + 1]
    <3>1. down[p] \in Seq(Down)
        BY <1>1 DEF TypeOK
    <3>2. down'[p] = Tail(down[p]) /\ \A q \in Providers : q # p => down'[q] = down[q]
        BY <1>1, <2>1 DEF TypeOK
    <3>3. /\ m \in Down /\ 1 \in DOMAIN down[p] /\ m = down[p][1]
          /\ \A i \in DOMAIN Tail(down[p]) : i + 1 \in DOMAIN down[p] /\ Tail(down[p])[i] = down[p][i + 1]
        BY <2>1, <3>1, Taken
    <3>4. m.job \in Jobs
        BY <3>3 DEF Down
    <3> HIDE DEF m
    <3> QED BY <3>2, <3>3, <3>4
  <2>3. /\ \A i \in Asked(p, j)' : i + 1 \in Asked(p, j)
        /\ \A q \in Providers : q # p => Asked(q, j)' = Asked(q, j)
      BY <2>2 DEF Asked
  <2>4. AskedFades(j)
    <3>1. ASSUME NEW q \in Providers, q # p, NEW i \in Asked(q, j)' PROVE i + 0 \in Asked(q, j)
      <4>1. down[q] \in Seq(Down)
          BY <1>1 DEF TypeOK
      <4>2. i \in Asked(q, j) /\ i \in Int
          BY <2>3, <3>1, <4>1, LenProperties DEF Asked
      <4> QED BY <4>2
    <3>2. ASSUME NEW q \in Providers
          PROVE  \E d \in {0, 1} : \A i \in Asked(q, j)' : i + d \in Asked(q, j)
      <4>1. CASE q = p
          BY <2>3, <4>1
      <4>2. CASE q # p
          BY <3>1, <4>2
      <4> QED BY <4>1, <4>2
    <3> QED BY <3>2 DEF AskedFades
  <2>5. PostsFade(j)
      BY <1>1, <2>1, PostsOnlyFade
  <2>6. CASE m.type = "cancel" /\ UNCHANGED <<runs, up>>
      BY <1>1, <1>2, <2>1, <2>4, <2>5, <2>6, SaysStay DEF history
  <2>7. CASE m.type = "dispatch" /\ runs' = [runs EXCEPT ![p][m.job] = @ + 1]
             /\ up' = [up EXCEPT ![p] = Append(@, w)]
    <3>1. /\ up[p] \in Seq(Up) /\ w \in Up /\ w.job = m.job /\ w.type = "accepted"
          /\ up'[p] = Append(up[p], w) /\ \A q \in Providers : q # p => up'[q] = up[q]
      <4>1. w \in Up /\ w.job = m.job /\ w.type = "accepted"
          BY <2>2 DEF Up
      <4> QED BY <1>1, <2>7, <4>1 DEF TypeOK
    <3>2. /\ Len(up[p]) \in Nat
          /\ \A i \in DOMAIN up'[p] : /\ i \in 1..(Len(up[p]) + 1)
                                      /\ \/ i = Len(up[p]) + 1 /\ up'[p][i] = w
                                         \/ i \in DOMAIN up[p] /\ up'[p][i] = up[p][i]
        BY <3>1, AppendProperties, LenProperties
    <3> HIDE DEF w
    <3>3. CASE m.job # j
      <4>1. SaysFades(j)
        <5>1. \A q \in Providers : \A i \in DOMAIN up'[q] :
                  \/ i \in DOMAIN up[q] /\ up'[q][i] = up[q][i]
                  \/ up'[q][i].type = "event" \/ up'[q][i].job # j
            BY <3>1, <3>2, <3>3
        <5> QED BY <1>1, <5>1, SaysStay
      <4>2. \A q \in Providers : runs'[q][j] = runs[q][j]
          BY <1>1, <2>7, <3>3 DEF TypeOK
      <4> QED BY <1>2, <2>1, <2>4, <2>5, <4>1, <4>2 DEF history
    <3>4. CASE m.job = j
      <4>1. 1 \in Asked(p, j)
          BY <2>2, <2>7, <3>4 DEF Asked
      <4>2. p = sentTo[j] /\ Once(p, j)
          BY <4>1 DEF Alone, Silent
      <4>3. runs[p][j] = 0 /\ Says(p, j) = {} /\ Posted(j) = {} /\ \A i \in Asked(p, j) : i = 1
          BY <4>1, <4>2 DEF Once
      <4>4. jobs[j].status # "completed"
          BY <4>1 DEF Alone, Silent
      <4>5. Asked(p, j)' = {}
        <5>1. ASSUME NEW i \in Asked(p, j)' PROVE FALSE
          <6>1. i \in Nat /\ i >= 1
            <7>1. down'[p] \in Seq(Down)
                BY <1>1 DEF TypeOK
            <7> QED BY <5>1, <7>1, LenProperties DEF Asked
          <6>2. i + 1 = 1
              BY <2>3, <4>3, <5>1
          <6> QED BY <6>1, <6>2
        <5> QED BY <5>1
      <4>6. \A i \in Says(p, j)' : i = Len(up[p]) + 1 /\ up'[p][i].type = "accepted"
          BY <3>1, <3>2, <4>3 DEF Says
      <4>7. runs'[p][j] = 1 /\ \A q \in Providers : q # p => runs'[q][j] = runs[q][j]
          BY <1>1, <2>2, <2>7, <3>4, <4>3 DEF TypeOK
      <4>8. Told(p, j)' = {}
          BY <4>6 DEF Told, Outcomes
      <4>9. Posted(j)' = {} /\ link'[p] = "up" /\ sentTo'[j] = p /\ jobs' = jobs
          BY <1>1, <2>1, <4>2, <4>3 DEF Posted, Listening, history
      <4>10. Once(p, j)'
          BY <4>5, <4>7, <4>8, <4>9 DEF Once
      <4>11. \A q \in Providers : q # p => Silent(q, j)'
          BY <2>3, <3>1, <4>2, <4>7 DEF Alone, Silent, Says
      <4> QED BY <4>4, <4>9, <4>10, <4>11 DEF Alone
    <3> QED BY <3>3, <3>4
  <2> QED BY <1>3, <2>6, <2>7 DEF NodeReceives
<1>4. ASSUME NEW k \in Jobs, NodeStreams(p, k) PROVE Alone(j)'
  <2>1. Report(p, k, "event") /\ UNCHANGED <<jobs, link, down, node, history>>
      BY <1>4 DEF NodeStreams
  <2>2. SaysFades(j) /\ PostsFade(j) /\ AskedFades(j)
      BY <1>1, <2>1, ReportFades, AskedStay DEF Reports
  <2> QED BY <1>2, <2>1, <2>2 DEF node, history
<1>5. ASSUME NEW k \in Jobs, NodeFinishes(p, k) PROVE Alone(j)'
  <2>1. /\ runs[p][k] > 0 /\ runs' = [runs EXCEPT ![p][k] = @ - 1]
        /\ UNCHANGED <<jobs, link, down, history>>
      BY <1>5 DEF NodeFinishes
  <2>2. PICK type \in Outcomes : Report(p, k, type)
      BY <1>5 DEF NodeFinishes, Outcomes
  <2>3. AskedFades(j) /\ \A q \in Providers : Asked(q, j)' = Asked(q, j)
      BY <1>1, <2>1, AskedStay DEF Asked
  <2>4. CASE k # j
    <3>1. SaysFades(j) /\ PostsFade(j)
        BY <1>1, <2>2, <2>4, ReportFades DEF Outcomes, Reports
    <3>2. \A q \in Providers : runs'[q][j] = runs[q][j]
        BY <1>1, <2>1, <2>4 DEF TypeOK
    <3> QED BY <1>2, <2>1, <2>3, <3>1, <3>2 DEF history
  <2>5. CASE k = j
    <3>1. p = sentTo[j] /\ Once(p, j) /\ jobs[j].status # "completed" /\ runs[p][j] # 0
        BY <1>1, <2>1, <2>5, DispatchAssumption DEF Alone, Silent, TypeOK
    <3>2. /\ runs[p][j] = 1 /\ Told(p, j) = {} /\ Posted(j) = {} /\ Asked(p, j) = {}
          /\ link[p] # "up" => Says(p, j) = {}
        BY <3>1 DEF Once
    <3>3. runs'[p][j] = 0 /\ \A q \in Providers : q # p => runs'[q][j] = runs[q][j]
        BY <1>1, <2>1, <2>5, <3>2 DEF TypeOK
    <3>4. CASE link[p] = "up" /\ up' = [up EXCEPT ![p] = Append(@, [type |-> type, job |-> j])]
               /\ UNCHANGED posts
      <4> DEFINE w == [type |-> type, job |-> j]
      <4>1. /\ up[p] \in Seq(Up) /\ w \in Up
            /\ up'[p] = Append(up[p], w) /\ \A q \in Providers : q # p => up'[q] = up[q]
          BY <1>1, <3>4 DEF TypeOK, Up, Outcomes, Reports
      <4>2. /\ Len(up[p]) \in Nat
            /\ \A i \in DOMAIN up'[p] : /\ i \in 1..(Len(up[p]) + 1)
                                        /\ \/ i = Len(up[p]) + 1
                                           \/ i \in DOMAIN up[p] /\ up'[p][i] = up[p][i]
          BY <4>1, AppendProperties, LenProperties
      <4>3. \A i \in Told(p, j)' : i = Len(up[p]) + 1
          BY <3>2, <4>2 DEF Told, Says
      <4>4. \A i \in Says(p, j)' : i <= Len(up[p]) + 1
          BY <4>2 DEF Says
      <4>5. Posted(j)' = {}
          BY <3>2, <3>4 DEF Posted
      <4>6. Once(p, j)'
          BY <2>3, <3>2, <3>3, <4>3, <4>4, <4>5 DEF Once
      <4>7. \A q \in Providers : q # p => Silent(q, j)'
          BY <2>3, <3>1, <3>3, <4>1 DEF Alone, Silent, Says
      <4> QED BY <2>1, <3>1, <4>6, <4>7 DEF Alone, history
    <3>5. CASE link[p] # "up" /\ UNCHANGED up
               /\ posts' = posts \cup {[from |-> p, job |-> j, type |-> type, checked |-> FALSE]}
      <4>1. Says(p, j)' = {} /\ Told(p, j)' = {} /\ \A q \in Providers : Says(q, j)' = Says(q, j)
          BY <3>2, <3>5 DEF Says, Told
      <4>2. \A x, y \in Posted(j)' : x = y
          BY <3>2, <3>5 DEF Posted
      <4>3. Once(p, j)'
          BY <2>3, <3>2, <3>3, <4>1, <4>2 DEF Once
      <4>4. \A q \in Providers : q # p => Silent(q, j)'
          BY <2>3, <3>1, <3>3, <4>1 DEF Alone, Silent
      <4> QED BY <2>1, <3>1, <4>3, <4>4 DEF Alone, history
    <3> QED BY <2>2, <2>5, <3>4, <3>5 DEF Report
  <2> QED BY <2>4, <2>5
<1>6. ASSUME NEW k \in Jobs, NodeTellsBoth(p, k) PROVE Alone(j)'
  <2>1. k # j /\ Report(p, k, "result") /\ UNCHANGED <<jobs, link, down, runs, sentTo>>
      BY <1>6 DEF NodeTellsBoth
  <2>2. SaysFades(j) /\ PostsFade(j) /\ AskedFades(j)
      BY <1>1, <2>1, ReportFades, AskedStay DEF Reports
  <2> QED BY <1>2, <2>1, <2>2
<1>7. ASSUME Heartbeat(p) PROVE Alone(j)'
  <2>1. UNCHANGED <<jobs, link, down, up, posts, node, history>>
      BY <1>7 DEF Heartbeat
  <2>2. SaysFades(j) /\ PostsFade(j) /\ AskedFades(j)
      BY <1>1, <2>1, PostsOnlyFade, SaysStay, AskedStay
  <2> QED BY <1>2, <2>1, <2>2 DEF node, history
<1> QED BY <1>3, <1>4, <1>5, <1>6, <1>7 DEF Node
\* Broken wires, crashes and restarts forget what was on the way; a wire that breaks
\* under an "accepted" disturbs the job.
LEMMA TroubleAlone ==
    ASSUME IInv, IInv', NEW j \in Jobs, Alone(j), j \notin disturbed',
           (\E p \in Providers : Trouble(p)) \/ Restart
    PROVE  Alone(j)'
<1>1. TypeOK /\ TypeOK'
    BY DEF IInv
<1>2. ASSUME sentTo'[j] = sentTo[j], jobs'[j].status = jobs[j].status, PostsFade(j), RunsFade(j),
             \A q \in Providers : down'[q] \in {down[q], <<>>} /\ up'[q] \in {up[q], <<>>}
      PROVE  Alone(j)'
  <2>1. DOMAIN <<>> = {}
      BY EmptySeq
  <2>2. \A q \in Providers : \A i \in DOMAIN down'[q] : i \in DOMAIN down[q] /\ down'[q][i] = down[q][i]
      BY <1>2, <2>1
  <2>3. \A q \in Providers : \A i \in DOMAIN up'[q] : i \in DOMAIN up[q] /\ up'[q][i] = up[q][i]
      BY <1>2, <2>1
  <2>4. AskedFades(j) /\ SaysFades(j)
      BY <1>1, <2>2, <2>3, AskedStay, SaysStay
  <2> QED BY <1>1, <1>2, <2>4, FadingKeeps DEF Lingers
<1>3. UNCHANGED posts => PostsFade(j)
    BY <1>1, PostsOnlyFade
<1>4. UNCHANGED <<runs, link>> => RunsFade(j)
    BY DEF RunsFade
<1>5. ASSUME NEW p \in Providers, GoesSilent(p) PROVE Alone(j)'
    BY <1>2, <1>3, <1>4, <1>5 DEF GoesSilent, node, history
<1>6. ASSUME NEW p \in Providers, Reap(p) PROVE Alone(j)'
  <2>1. jobs' = Orphaned({p}) /\ UNCHANGED <<link, down, up, node, history>>
      BY <1>6 DEF Reap
  <2>2. jobs'[j].status = jobs[j].status /\ PostsFade(j)
      BY <1>1, <1>6, <2>1, OrphanedJobs, PostsOnlyFade
  <2> QED BY <1>2, <1>4, <2>1, <2>2 DEF node, history
<1>7. ASSUME NEW p \in Providers, Break(p) PROVE Alone(j)'
  <2>1. /\ link' = [link EXCEPT ![p] = "half"] /\ down' = [down EXCEPT ![p] = <<>>]
        /\ UNCHANGED <<jobs, up, posts, node, sentTo>>
      BY <1>7 DEF Break
  <2>2. \A i \in DOMAIN up[p] : up[p][i] # [type |-> "accepted", job |-> j]
      BY <1>7 DEF Break
  <2>3. runs[p][j] = 0 \/ Says(p, j) = {}
    <3>1. CASE runs[p][j] # 0
      <4>1. Told(p, j) = {}
          BY <3>1 DEF Alone, Silent, Once
      <4>2. \A i \in DOMAIN up[p] : up[p][i] \in Up
        <5>1. up[p] \in Seq(Up)
            BY <1>1 DEF TypeOK
        <5> QED BY <5>1, ElementOfSeq, LenProperties
      <4>3. ASSUME NEW i \in Says(p, j) PROVE FALSE
        <5>1. up[p][i] \in Up /\ up[p][i].type = "accepted" /\ up[p][i].job = j
            BY <4>1, <4>2, <4>3 DEF Told, Says, Up, Reports, Outcomes
        <5>2. up[p][i] = [type |-> "accepted", job |-> j]
            BY <5>1 DEF Up
        <5> QED BY <2>2, <4>3, <5>2 DEF Says
      <4> QED BY <4>3
    <3> QED BY <3>1
  <2>4. RunsFade(j)
      BY <1>1, <2>1, <2>3 DEF RunsFade, Says, TypeOK, node
  <2>5. \A q \in Providers : down'[q] \in {down[q], <<>>} /\ up'[q] \in {up[q], <<>>}
      BY <1>1, <2>1 DEF TypeOK
  <2> QED BY <1>2, <1>3, <2>1, <2>4, <2>5
<1>8. ASSUME NEW p \in Providers, HubNotices(p) PROVE Alone(j)'
  <2>1. /\ link[p] # "up" /\ link' = [link EXCEPT ![p] = "down"] /\ up' = [up EXCEPT ![p] = <<>>]
        /\ UNCHANGED <<jobs, down, posts, node, history>>
      BY <1>8 DEF HubNotices
  <2>2. RunsFade(j)
      BY <1>1, <2>1 DEF RunsFade, TypeOK, node
  <2>3. \A q \in Providers : down'[q] \in {down[q], <<>>} /\ up'[q] \in {up[q], <<>>}
      BY <1>1, <2>1 DEF TypeOK
  <2> QED BY <1>2, <1>3, <2>1, <2>2, <2>3 DEF history
<1>9. ASSUME NEW p \in Providers, Reconnect(p) PROVE Alone(j)'
  <2>1. link' = [link EXCEPT ![p] = "up"] /\ UNCHANGED <<jobs, down, up, posts, node, history>>
      BY <1>9 DEF Reconnect
  <2>2. RunsFade(j)
      BY <1>1, <2>1 DEF RunsFade, TypeOK, node
  <2> QED BY <1>2, <1>3, <2>1, <2>2 DEF history
<1>10. ASSUME NEW p \in Providers, NodeCrashes(p) PROVE Alone(j)'
  <2>1. /\ runs' = [runs EXCEPT ![p] = [k \in Jobs |-> 0]]
        /\ link' = [link EXCEPT ![p] = IF @ = "up" THEN "half" ELSE @]
        /\ down' = [down EXCEPT ![p] = <<>>] /\ UNCHANGED <<jobs, up, posts, history>>
      BY <1>10 DEF NodeCrashes
  <2>2. RunsFade(j)
      BY <1>1, <2>1 DEF RunsFade, TypeOK
  <2>3. \A q \in Providers : down'[q] \in {down[q], <<>>} /\ up'[q] \in {up[q], <<>>}
      BY <1>1, <2>1 DEF TypeOK
  <2> QED BY <1>2, <1>3, <2>1, <2>2, <2>3 DEF history
<1>11. ASSUME Restart PROVE Alone(j)'
  <2>1. /\ jobs' = Orphaned(Providers) /\ posts' = {} /\ UNCHANGED <<node, history>>
        /\ down' = [q \in Providers |-> <<>>] /\ up' = [q \in Providers |-> <<>>]
      BY <1>11 DEF Restart
  <2>2. jobs'[j].status = jobs[j].status
      BY <1>1, <2>1, OrphanedJobs
  <2>3. PostsFade(j)
      BY <2>1 DEF PostsFade, Posted
  <2>4. RunsFade(j)
      BY <2>1, EmptySeq DEF RunsFade, Says, node
  <2> QED BY <1>2, <2>1, <2>2, <2>3, <2>4 DEF history
<1> QED BY <1>5, <1>6, <1>7, <1>8, <1>9, <1>10, <1>11 DEF Trouble

\* No step takes a job's name off the disturbed.
LEMMA DisturbedGrows ==
    ASSUME IInv, Next PROVE disturbed \subseteq disturbed'
<1>1. ASSUME NEW k \in Jobs, NEW job, NEW p, NEW act,
             Give(k, job, p, act) \/ Retry(k, job, act) \/ End(k, job, "completed", act)
             \/ End(k, job, "failed", act)
      PROVE  disturbed \subseteq disturbed'
    BY <1>1 DEF Give, Retry, End, history
<1>2. ASSUME NEW k \in Jobs, NEW p, NEW type, Answer(k, p, type) PROVE disturbed \subseteq disturbed'
    BY <1>1, <1>2 DEF Answer, FinishJobOk, FinishJobFailed, history
<1>3. ASSUME NEW k \in Jobs, NEW p \in Quoted, Paid(k, p) PROVE disturbed \subseteq disturbed'
    BY <1>1, <1>3 DEF Paid
<1>4. ASSUME NEW k \in Jobs, Sweep(k) PROVE disturbed \subseteq disturbed'
    BY <1>1, <1>4 DEF Sweep, FinishJobFailed
<1>5. ASSUME NEW p \in Providers, HubReceives(p) PROVE disturbed \subseteq disturbed'
    BY <1>2, <1>5, HeadIsOfSent DEF HubReceives, history
<1>6. ASSUME NEW post \in posts, PostActs(post) PROVE disturbed \subseteq disturbed'
  <2>1. post.job \in Jobs
      BY DEF IInv, TypeOK, Posts
  <2> QED BY <1>2, <1>6, <2>1 DEF PostActs
<1>7. Broker => disturbed \subseteq disturbed'
    BY <1>3, <1>4, <1>5, <1>6 DEF Broker, Cancel, TimePasses, PostIsChecked, PostIsLost, history
<1>8. ASSUME NEW p \in Providers, Node(p) \/ Trouble(p) PROVE disturbed \subseteq disturbed'
    BY <1>8 DEF Node, Trouble, NodeReceives, NodeStreams, NodeFinishes, NodeTellsBoth, Heartbeat,
           GoesSilent, Reap, Break, HubNotices, Reconnect, NodeCrashes, history
<1>9. Restart => disturbed \subseteq disturbed'
    BY DEF Restart, history
<1> QED BY <1>7, <1>8, <1>9 DEF Next

\* Where a job is, it is alone: in one place, of which a result is the last word.
THEOREM WorkIsInOnePlace == Spec => []DInv
<1>1. Init => DInv
  <2>1. ASSUME Init PROVE DInv
    <3>1. ASSUME NEW j \in Jobs PROVE Alone(j)
      <4>1. Posted(j) = {} /\ jobs[j].status # "completed"
          BY <2>1 DEF Init, Posted, NoJob
      <4>2. \A q \in Providers : Silent(q, j)
          BY <2>1, EmptySeq DEF Init, Silent, Asked, Says
      <4>3. \A q \in Providers : Once(q, j)
          BY <4>1, <4>2 DEF Silent, Once, Told
      <4> QED BY <4>1, <4>2, <4>3 DEF Alone
    <3> QED BY <2>1, <3>1, InitIInv DEF DInv
  <2> QED BY <2>1
<1>2. DInv /\ [Next]_vars => DInv'
  <2>1. ASSUME DInv, Next PROVE DInv'
    <3>1. IInv /\ IInv'
        BY <2>1, StepIInv DEF DInv
    <3>2. ASSUME NEW j \in Jobs, j \notin disturbed' PROVE Alone(j)'
      <4>1. Alone(j)
          BY <2>1, <3>1, <3>2, DisturbedGrows DEF DInv
      <4> QED BY <2>1, <3>1, <3>2, <4>1, BrokerAlone, NodeAlone, TroubleAlone DEF Next
    <3> QED BY <3>1, <3>2 DEF DInv
  <2>2. ASSUME DInv, UNCHANGED vars PROVE DInv'
    <3>1. IInv'
        BY <2>2, StepIInv DEF DInv
    <3>2. ASSUME NEW j \in Jobs, Alone(j) PROVE Alone(j)'
        BY <2>2, <3>2 DEF vars, node, history, Alone, Once, Silent, Asked, Says, Told, Posted
    <3> QED BY <2>2, <3>1, <3>2 DEF DInv, vars, history
  <2> QED BY <2>1, <2>2
<1> QED BY <1>1, <1>2, PTL DEF Spec

\* A result that was delivered stays delivered, but for the jobs named.
THEOREM ResultsStayDelivered == Spec => DeliveredStays
<1>1. ASSUME DInv, [Next]_vars, NEW j \in Jobs, j \notin disturbed, jobs[j].status = "completed"
      PROVE  jobs'[j].status = "completed"
  <2>1. IInv /\ TypeOK /\ Posted(j) = {} /\ \A q \in Providers : Says(q, j) = {}
      BY <1>1 DEF DInv, IInv, Alone, Silent
  <2>2. ASSUME NEW k \in Jobs, k # j, Handled(k) PROVE jobs'[j].status = "completed"
      BY <1>1, <2>2 DEF Handled
  <2>3. ASSUME NEW k \in Jobs, NEW p, NEW type, Answer(k, p, type), jobs[k].status # "none",
               k # j \/ type = "event"
        PROVE  jobs'[j].status = "completed"
    <3>1. CASE k # j
        BY <2>1, <2>2, <2>3, <3>1, AnswerHandles
    <3>2. CASE type = "event" /\ k = j
      <4>1. AddEvent(jobs[j]) = jobs[j]
          BY <1>1 DEF AddEvent
      <4> QED BY <1>1, <2>1, <2>3, <3>2, <4>1 DEF Answer, TypeOK
    <3> QED BY <2>3, <3>1, <3>2
  <2>4. ASSUME NEW k \in Jobs, NEW p \in Quoted, Paid(k, p) PROVE jobs'[j].status = "completed"
    <3>1. k # j
        BY <1>1, <2>4 DEF Paid, NoJob
    <3> QED BY <2>1, <2>2, <2>4, <3>1, PaidHandles
  <2>5. ASSUME NEW k \in Jobs, Sweep(k) PROVE jobs'[j].status = "completed"
    <3>1. k # j /\ jobs[k].status # "none" /\ FinishJobFailed(k, jobs[k].provider)
        BY <1>1, <2>5 DEF Sweep, Overdue, InProgress
    <3> QED BY <2>1, <2>2, <3>1, FailedHandles
  <2>6. ASSUME NEW k \in Jobs, Cancel(k) \/ TimePasses(k) PROVE jobs'[j].status = "completed"
    <3>1. k # j
        BY <1>1, <2>6 DEF Cancel, TimePasses, InProgress
    <3> QED BY <1>1, <2>1, <2>6, <3>1 DEF Cancel, TimePasses, TypeOK
  <2>7. ASSUME NEW p \in Providers, HubReceives(p) PROVE jobs'[j].status = "completed"
    <3> DEFINE m == Head(up[p])
    <3>1. m \in Up /\ m.job \in Jobs /\ jobs[m.job].status # "none" /\ 1 \in DOMAIN up[p] /\ m = up[p][1]
        BY <2>1, <2>7, HeadIsOfSent DEF HubReceives
    <3>2. m.job # j \/ m.type = "event"
        BY <2>1, <3>1 DEF Says
    <3>3. CASE m.type = "accepted" /\ jobs' = [jobs EXCEPT ![m.job] = Start(@)]
        BY <1>1, <2>1, <3>2, <3>3 DEF TypeOK
    <3>4. CASE Answer(m.job, p, m.type)
        BY <2>3, <3>1, <3>2, <3>4
    <3> QED BY <2>7, <3>3, <3>4 DEF HubReceives
  <2>8. ASSUME NEW post \in posts, PostIsChecked(post) \/ PostActs(post) \/ PostIsLost(post)
        PROVE  jobs'[j].status = "completed"
    <3>1. post \in Posts /\ post.job \in Jobs /\ jobs[post.job].status # "none"
      <4>1. post \in Posts /\ post.job \in Jobs
          BY <2>1 DEF TypeOK, Posts
      <4> QED BY <2>1, <4>1, SpokenOf
    <3>2. post.job # j \/ post.type = "event"
        BY <2>1, <3>1 DEF Posted, Posts, Reports, Outcomes
    <3>3. CASE Answer(post.job, post.from, post.type)
        BY <2>3, <3>1, <3>2, <3>3
    <3> QED BY <1>1, <2>8, <3>3 DEF PostIsChecked, PostActs, PostIsLost
  <2>9. Broker => jobs'[j].status = "completed"
      BY <2>4, <2>5, <2>6, <2>7, <2>8 DEF Broker
  <2>10. ASSUME NEW ids \in SUBSET Providers, jobs' = Orphaned(ids) PROVE jobs'[j].status = "completed"
      BY <1>1, <2>1, <2>10, OrphanedJobs
  <2>11. ASSUME NEW p \in Providers, Node(p) \/ Trouble(p)
         PROVE  UNCHANGED jobs \/ jobs' = Orphaned({p})
      BY <2>11 DEF Node, Trouble, NodeReceives, NodeStreams, NodeFinishes, NodeTellsBoth, Heartbeat,
             GoesSilent, Reap, Break, HubNotices, Reconnect, NodeCrashes
  <2>12. Restart => jobs' = Orphaned(Providers)
      BY DEF Restart
  <2> QED BY <1>1, <2>9, <2>10, <2>11, <2>12 DEF Next, vars
<1>2. DInv /\ [Next]_vars =>
        [\A j \in Jobs \ disturbed : jobs[j].status = "completed" => jobs'[j].status = "completed"]_vars
    BY <1>1
<1> QED BY <1>2, WorkIsInOnePlace, PTL DEF DeliveredStays, Spec
=============================================================================
