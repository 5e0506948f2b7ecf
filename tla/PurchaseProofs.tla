--------------------------- MODULE PurchaseProofs ---------------------------
(***************************************************************************)
(* Proofs about Purchase, for any number of reports, prices and restarts,  *)
(* and for streams and topics of any length.                               *)
(***************************************************************************)
EXTENDS Purchase, SequenceTheorems, FiniteSetTheorems, TLAPS

Readers == {"cli", "page"}
Active(t) == tasks[t].pc \in {"waiting", "publishing"}
Publishing == {t \in Reports : tasks[t].pc = "publishing"}

\* Before the broker sold the job nobody works on it, reads it or shows it.
Unsold ==
    /\ \A t \in Reports : tasks[t] = NotStarted
    /\ topic = <<>> /\ page.pc = "elsewhere" /\ ~page.refetch
    /\ \A s \in Readers : ~stream[s].open /\ stream[s].frames = <<>>
    /\ buyer.pc \notin {"settling", "watching", "receipt"}
Sold ==
    /\ job.status = "none" => Unsold
    /\ buyer.pc \in {"quoting", "quoted", "paying"} => job.status = "none"

\* The job is held for published as long as its receipt is on its way or there, so
\* that one task at most publishes it, and none a second time.
PublishedOnce ==
    \/ "lost" \in troubles \/ restarts > 0
    \/ /\ Publishing # {} => published /\ topic = <<>>
       /\ \A t, u \in Publishing : t = u
       /\ topic # <<>> => published /\ Len(topic) = 1

\* What was said of an outcome is true of the job, unless it changed its outcome:
\* what the tasks will publish and the topic holds, the frames on their way, and what
\* the command saw that waits for the receipt.
Outcome(j, ok) == j.status = IF ok THEN "completed" ELSE "failed"
Truthful(f, j) == f.view.status \in Terminal => f.view.status = j.status
OutcomeTold ==
    \/ revived
    \/ /\ \A t \in Reports : Active(t) => Outcome(job, tasks[t].ok)
       /\ \A i \in DOMAIN topic : Outcome(job, topic[i].ok)
       /\ \A s \in Readers : \A i \in DOMAIN stream[s].frames : Truthful(stream[s].frames[i], job)
       /\ buyer.pc = "receipt" /\ buyer.kind = "cli" =>
             job.status = "completed" /\ buyer.view.status = "completed"

\* What was said of the payment is true for good.
PaidTold ==
    /\ \A t \in Reports : tasks[t].paid => job.paid
    /\ \A i \in DOMAIN topic : topic[i].paid => job.paid

\* A stream ends with an outcome.
EndsWithOutcome ==
    \A s \in Readers : \A i \in DOMAIN stream[s].frames :
        stream[s].frames[i].kind = "done" => stream[s].frames[i].view.status \in Terminal

\* A command that goes on has not answered yet.
Unanswered == buyer.pc # "ended" => buyer.code = "none"

IInv == /\ TypeOK /\ Sold /\ PublishedOnce /\ OutcomeTold /\ PaidTold
        /\ EndsWithOutcome /\ Unanswered

JobType == [status: {"none", "assigned", "running", "completed", "failed"},
            paid: BOOLEAN, receipt: BOOLEAN]
Task == [pc: {"none", "waiting", "publishing", "ended"}, ok: BOOLEAN, paid: BOOLEAN]
Stream == [open: BOOLEAN, frames: Seq(Frame)]

-----------------------------------------------------------------------------
(* Frames.                                                                 *)

\* What a subscriber is sent for a change: the job as it is now, and the end only if
\* it is over.
LEMMA FramesSent ==
    ASSUME NEW v \in Seen
    PROVE  /\ FramesFor(v) \in Seq(Frame)
           /\ \A i \in DOMAIN FramesFor(v) :
                 /\ FramesFor(v)[i].view = v
                 /\ FramesFor(v)[i].kind = "done" => v.status \in Terminal
<1> DEFINE f == [kind |-> "job", view |-> v]
           d == [kind |-> "done", view |-> v]
<1>1. f \in Frame /\ d \in Frame
    BY DEF Frame
<1>2. <<f>> \in Seq(Frame) /\ <<d>> \in Seq(Frame) /\ <<>> \in Seq(Frame)
      /\ Len(<<f>>) = 1 /\ Len(<<d>>) = 1 /\ Len(<<>>) = 0 /\ <<f>>[1] = f /\ <<d>>[1] = d
    BY <1>1, EmptySeq
<1>3. f.view = v /\ d.view = v /\ f.kind = "job"
    OBVIOUS
<1> HIDE DEF f, d
<1>4. CASE v.status \in Terminal
  <2>1. FramesFor(v) = <<f>> \o <<d>>
      BY <1>4 DEF FramesFor, f, d
  <2>2. /\ FramesFor(v) \in Seq(Frame) /\ DOMAIN FramesFor(v) = 1..2
        /\ FramesFor(v)[1] = f /\ FramesFor(v)[2] = d
      BY <1>2, <2>1, ConcatProperties, LenProperties
  <2> QED BY <1>3, <1>4, <2>2
<1>5. CASE v.status \notin Terminal
  <2>1. FramesFor(v) = <<f>>
      BY <1>2, <1>5, ConcatEmptySeq DEF FramesFor, f
  <2> QED BY <1>2, <1>3, <2>1
<1> QED BY <1>4, <1>5

\* A stream that is opened starts with the job as it is, and ends at once if it is over.
LEMMA StreamOpened ==
    ASSUME TypeOK, job.status # "none"
    PROVE  /\ Opened \in Stream
           /\ \A i \in DOMAIN Opened.frames :
                 /\ Opened.frames[i].view = View
                 /\ Opened.frames[i].kind = "done" => job.status \in Terminal
<1> DEFINE f == [kind |-> "snapshot", view |-> View]
           d == [kind |-> "done", view |-> View]
<1>1. f \in Frame /\ d \in Frame
    BY DEF Frame, TypeOK, View, Seen
<1>2. f.view = View /\ d.view = View /\ f.kind = "snapshot"
    OBVIOUS
<1> HIDE DEF f, d
<1>3. CASE job.status \in Terminal
  <2>1. Opened = [open |-> FALSE, frames |-> <<f, d>>]
      BY <1>3 DEF Opened, f, d
  <2>2. <<f, d>> \in Seq(Frame) /\ DOMAIN <<f, d>> = 1..2 /\ <<f, d>>[1] = f /\ <<f, d>>[2] = d
      BY <1>1
  <2> QED BY <1>2, <1>3, <2>1, <2>2 DEF Stream
<1>4. CASE job.status \notin Terminal
  <2>1. Opened = [open |-> TRUE, frames |-> <<f>>]
      BY <1>4 DEF Opened, f
  <2>2. <<f>> \in Seq(Frame) /\ DOMAIN <<f>> = {1} /\ <<f>>[1] = f
      BY <1>1
  <2> QED BY <1>2, <2>1, <2>2 DEF Stream
<1> QED BY <1>3, <1>4

\* Reading a frame leaves the ones behind it.
LEMMA FrameRead ==
    ASSUME NEW q \in Seq(Frame), q # <<>>
    PROVE  /\ Head(q) \in Frame /\ 1 \in DOMAIN q /\ Head(q) = q[1] /\ Tail(q) \in Seq(Frame)
           /\ \A i \in DOMAIN Tail(q) : i + 1 \in DOMAIN q /\ Tail(q)[i] = q[i + 1]
BY HeadTailProperties, LenProperties, EmptySeq

\* JobStore.emit: the job is stored, and live subscribers are sent what it is now; its
\* outcome is the old one, or it is revived.
LEMMA Emitted ==
    ASSUME TypeOK, NEW j \in JobType, j.status # "none", Emit(j)
    PROVE  /\ job' = j /\ revived' \in BOOLEAN /\ (revived => revived')
           /\ ~revived' /\ job.status \in Terminal => j.status = job.status
           /\ stream' \in [Readers -> Stream]
           /\ \A s \in Readers : stream'[s].open => stream[s].open
           /\ \A s \in Readers : \A i \in DOMAIN stream'[s].frames :
                 \/ i \in DOMAIN stream[s].frames /\ stream'[s].frames[i] = stream[s].frames[i]
                 \/ /\ stream'[s].frames[i].view.status = j.status
                    /\ stream'[s].frames[i].kind = "done" => j.status \in Terminal
<1> DEFINE v == [status |-> j.status, receipt |-> j.receipt]
<1>1. v \in Seen /\ v.status = j.status
    BY DEF Seen, JobType
<1>2. /\ job' = j /\ revived' \in BOOLEAN /\ (revived => revived')
      /\ ~revived' /\ job.status \in Terminal => j.status = job.status
    BY DEF Emit, Leaves, TypeOK
<1>3. stream \in [Readers -> Stream]
    BY DEF TypeOK, Stream, Readers
<1>4. stream' = [s \in Readers |->
                   IF stream[s].open
                     THEN [open |-> j.status \notin Terminal, frames |-> stream[s].frames \o FramesFor(v)]
                     ELSE stream[s]]
    BY <1>3 DEF Emit
<1> HIDE DEF v
<1>5. ASSUME NEW s \in Readers
      PROVE  /\ stream'[s] \in Stream /\ (stream'[s].open => stream[s].open)
             /\ \A i \in DOMAIN stream'[s].frames :
                 \/ i \in DOMAIN stream[s].frames /\ stream'[s].frames[i] = stream[s].frames[i]
                 \/ /\ stream'[s].frames[i].view.status = j.status
                    /\ stream'[s].frames[i].kind = "done" => j.status \in Terminal
  <2>1. CASE ~stream[s].open
      BY <1>3, <1>4, <2>1
  <2>2. CASE stream[s].open
    <3> DEFINE q == stream[s].frames
               e == FramesFor(v)
    <3>1. q \in Seq(Frame) /\ e \in Seq(Frame)
        BY <1>1, <1>3, FramesSent DEF Stream
    <3>2. /\ q \o e \in Seq(Frame)
          /\ \A i \in DOMAIN (q \o e) :
                \/ i \in DOMAIN q /\ (q \o e)[i] = q[i]
                \/ \E k \in DOMAIN e : (q \o e)[i] = e[k]
      <4>1. Len(q) \in Nat /\ Len(e) \in Nat /\ DOMAIN q = 1..Len(q) /\ DOMAIN e = 1..Len(e)
          BY <3>1, LenProperties
      <4>2. /\ q \o e \in Seq(Frame) /\ Len(q \o e) = Len(q) + Len(e)
            /\ \A i \in 1 .. Len(q) + Len(e) : (q \o e)[i] = IF i <= Len(q) THEN q[i] ELSE e[i - Len(q)]
          BY <3>1, ConcatProperties
      <4>3. DOMAIN (q \o e) = 1 .. Len(q) + Len(e)
          BY <4>2, LenProperties
      <4>4. ASSUME NEW i \in 1 .. Len(q) + Len(e)
            PROVE  \/ i \in 1..Len(q) /\ (q \o e)[i] = q[i]
                   \/ \E k \in 1..Len(e) : (q \o e)[i] = e[k]
        <5>1. CASE i <= Len(q)
            BY <4>1, <4>2, <5>1
        <5>2. CASE ~(i <= Len(q))
          <6>1. i - Len(q) \in 1..Len(e)
              BY <4>1, <5>2
          <6>2. (q \o e)[i] = e[i - Len(q)]
              BY <4>2, <5>2
          <6> QED BY <6>1, <6>2
        <5> QED BY <5>1, <5>2
      <4> QED BY <4>1, <4>2, <4>3, <4>4
    <3>3. \A k \in DOMAIN e : e[k].view = v /\ (e[k].kind = "done" => v.status \in Terminal)
        BY <1>1, FramesSent
    <3>4. stream'[s] = [open |-> j.status \notin Terminal, frames |-> q \o e]
        BY <1>4, <2>2
    <3> HIDE DEF q, e
    <3>5. stream'[s] \in Stream /\ stream'[s].frames = q \o e
        BY <3>2, <3>4 DEF Stream
    <3>6. \A i \in DOMAIN (q \o e) :
             \/ i \in DOMAIN q /\ (q \o e)[i] = q[i]
             \/ (q \o e)[i].view.status = j.status /\ ((q \o e)[i].kind = "done" => j.status \in Terminal)
        BY <1>1, <3>2, <3>3
    <3> QED BY <2>2, <3>5, <3>6 DEF q
  <2> QED BY <2>1, <2>2
<1>6. stream' \in [Readers -> Stream]
    BY <1>4, <1>5
<1> QED BY <1>2, <1>5, <1>6

-----------------------------------------------------------------------------
(* The broker.                                                             *)

Buyers == [kind: {"cli", "mcp", "web"},
           pc: {"quoting", "quoted", "paying", "settling", "watching", "receipt", "ended"},
           view: Seen \cup {NoView}, code: {"none", "ok", "fail", "late"}]
Pages == [view: Seen \cup {NoView}, refetch: BOOLEAN, pc: {"elsewhere", "unloaded", "idle", "source"}]

\* A change of the sold job that readers are told of: what was said of the outcome
\* stays true, as long as the tasks and receipts that come with it are.
LEMMA JobTold ==
    ASSUME IInv, NEW j \in JobType, job.status # "none", j.status # "none", Emit(j),
           job.paid => j.paid,
           tasks' \in [Reports -> Task], topic' \in Seq(ReceiptMessage),
           published' \in BOOLEAN,
           troubles' \subseteq {"lost", "failed"}, UNCHANGED restarts,
           buyer' \in Buyers, page' \in Pages, Unanswered',
           buyer'.pc \notin {"quoting", "quoted", "paying"},
           buyer'.pc = "receipt" => UNCHANGED buyer,
           \A t \in Reports : Active(t)' =>
               (Active(t) /\ tasks'[t].ok = tasks[t].ok) \/ Outcome(job', tasks'[t].ok),
           \A i \in DOMAIN topic' :
               (i \in DOMAIN topic /\ topic'[i] = topic[i])
               \/ \E t \in Reports : Active(t) /\ topic'[i] = Receipt(t),
           \A t \in Reports : tasks'[t].paid => tasks[t].paid \/ job.paid
    PROVE  TypeOK' /\ Sold' /\ OutcomeTold' /\ PaidTold' /\ EndsWithOutcome' /\ Unanswered'
<1>1. TypeOK /\ Sold /\ OutcomeTold /\ PaidTold /\ EndsWithOutcome
    BY DEF IInv
<1>2. /\ job' = j /\ revived' \in BOOLEAN /\ (revived => revived')
      /\ ~revived' /\ job.status \in Terminal => j.status = job.status
      /\ stream' \in [Readers -> Stream]
      /\ \A s \in Readers : \A i \in DOMAIN stream'[s].frames :
            \/ i \in DOMAIN stream[s].frames /\ stream'[s].frames[i] = stream[s].frames[i]
            \/ /\ stream'[s].frames[i].view.status = j.status
               /\ stream'[s].frames[i].kind = "done" => j.status \in Terminal
    BY <1>1, Emitted
<1>3. TypeOK'
    BY <1>1, <1>2 DEF TypeOK, JobType, Task, Readers, Stream, Buyers, Pages
<1>4. Sold'
    BY <1>2 DEF Sold
<1>5. EndsWithOutcome'
    BY <1>1, <1>2 DEF EndsWithOutcome
<1>6. PaidTold'
  <2>1. \A t \in Reports : tasks'[t].paid => j.paid
      BY <1>1 DEF PaidTold
  <2>2. \A i \in DOMAIN topic' : topic'[i].paid => j.paid
      BY <1>1 DEF PaidTold, Receipt
  <2> QED BY <1>2, <2>1, <2>2 DEF PaidTold
<1>7. ASSUME ~revived' PROVE OutcomeTold'
  <2>1. ~revived /\ (job.status \in Terminal => job'.status = job.status)
      BY <1>2, <1>7
  <2>2. \A ok : Outcome(job, ok) => Outcome(job', ok)
      BY <2>1 DEF Outcome, Terminal
  <2>3. \A t \in Reports : Active(t)' => Outcome(job', tasks'[t].ok)
      BY <1>1, <2>1, <2>2 DEF OutcomeTold
  <2>4. \A i \in DOMAIN topic' : Outcome(job', topic'[i].ok)
    <3>1. ASSUME NEW t \in Reports, Active(t) PROVE Outcome(job', Receipt(t).ok)
        BY <1>1, <2>1, <2>2, <3>1 DEF OutcomeTold, Receipt
    <3> QED BY <1>1, <2>1, <2>2, <3>1 DEF OutcomeTold
  <2>5. \A s \in Readers : \A i \in DOMAIN stream'[s].frames : Truthful(stream'[s].frames[i], job')
      BY <1>1, <1>2, <2>1 DEF OutcomeTold, Truthful
  <2>6. buyer'.pc = "receipt" /\ buyer'.kind = "cli" =>
          job'.status = "completed" /\ buyer'.view.status = "completed"
      BY <1>1, <2>1 DEF OutcomeTold, Terminal
  <2> QED BY <2>3, <2>4, <2>5, <2>6 DEF OutcomeTold
<1> QED BY <1>3, <1>4, <1>5, <1>6, <1>7 DEF OutcomeTold

\* Settle, a node's acceptance and a cancel change the job and nothing about receipts.
LEMMA JobStep ==
    ASSUME IInv, Settle \/ Accepted \/ Cancel PROVE IInv'
<1>1. TypeOK /\ Sold /\ PublishedOnce /\ Unanswered
    BY DEF IInv
<1>2. PICK j \in JobType : /\ Emit(j) /\ j.status # "none" /\ (job.paid => j.paid)
                           /\ Accepted \/ Cancel \/ Settle
  <2>1. job \in JobType
      BY <1>1 DEF TypeOK, JobType
  <2>2. Settle => job.status # "none" /\ Emit([job EXCEPT !.paid = TRUE])
      BY <1>1 DEF Settle, Sold, Unsold
  <2>3. Accepted => Emit([job EXCEPT !.status = "running"])
      BY DEF Accepted
  <2>4. Cancel => Emit([job EXCEPT !.status = "failed"])
      BY DEF Cancel
  <2>5. [job EXCEPT !.paid = TRUE] \in JobType /\ [job EXCEPT !.paid = TRUE].status = job.status
        /\ [job EXCEPT !.paid = TRUE].paid
        /\ \A s \in {"running", "failed"} : /\ [job EXCEPT !.status = s] \in JobType
                                            /\ [job EXCEPT !.status = s].status = s
                                            /\ [job EXCEPT !.status = s].paid = job.paid
      BY <2>1 DEF JobType
  <2> QED BY <2>2, <2>3, <2>4, <2>5
<1>3. job.status # "none" /\ UNCHANGED <<tasks, published, topic, troubles, restarts>>
    BY <1>1 DEF Settle, Accepted, Cancel, Sold, Unsold
<1>4. /\ buyer \in Buyers /\ page \in Pages /\ tasks \in [Reports -> Task]
      /\ topic \in Seq(ReceiptMessage) /\ published \in BOOLEAN
      /\ troubles \subseteq {"lost", "failed"}
    BY <1>1 DEF TypeOK, Task, Buyers, Pages
<1>5. /\ buyer' \in Buyers /\ buyer'.pc \notin {"quoting", "quoted", "paying"} /\ Unanswered'
      /\ buyer'.pc = "receipt" => UNCHANGED buyer
  <2>1. CASE Settle
    <3>1. /\ buyer.pc = "settling" /\ buyer.code = "none"
          /\ buyer' = [buyer EXCEPT !.pc = IF buyer.kind = "web" THEN "ended" ELSE "watching"]
        BY <1>1, <2>1 DEF Settle, Unanswered
    <3> QED BY <1>4, <3>1 DEF Buyers, Unanswered
  <2>2. CASE Accepted \/ Cancel
      BY <1>1, <1>3, <1>4, <2>2 DEF Accepted, Cancel, Sold, Unanswered
  <2> QED BY <1>2, <2>1, <2>2
<1>6. page' \in Pages
    BY <1>2, <1>4 DEF Pages, Settle, Accepted, Cancel
<1>7. TypeOK' /\ Sold' /\ OutcomeTold' /\ PaidTold' /\ EndsWithOutcome' /\ Unanswered'
    BY <1>2, <1>3, <1>4, <1>5, <1>6, JobTold DEF Active
<1>8. PublishedOnce'
  <2>1. job' = [job' EXCEPT !.paid = job'.paid] /\ (job.paid => job'.paid)
      BY <1>2 DEF Emit, JobType
  <2> QED BY <1>1, <1>3, <2>1 DEF PublishedOnce, Publishing
<1> QED BY <1>7, <1>8 DEF IInv

\* A result or an error of a provider starts one task at most, with the outcome the job
\* has then.
LEMMA ReportStep ==
    ASSUME IInv, NEW t \in Reports, FinishOk(t) \/ FinishFailed(t) PROVE IInv'
<1>1. TypeOK /\ Sold /\ PublishedOnce /\ Unanswered
    BY DEF IInv
<1>2. /\ buyer \in Buyers /\ page \in Pages /\ tasks \in [Reports -> Task] /\ job \in JobType
      /\ topic \in Seq(ReceiptMessage) /\ published \in BOOLEAN
      /\ troubles \subseteq {"lost", "failed"}
    BY <1>1 DEF TypeOK, Task, Buyers, Pages, JobType
<1>3. job.status # "none" /\ tasks[t] = NotStarted
      /\ UNCHANGED <<published, topic, troubles, restarts, buyer, page>>
    BY DEF FinishOk, FinishFailed
<1>4. PICK status \in {"assigned", "completed", "failed"}, task \in Task :
        /\ Emit([job EXCEPT !.status = status])
        /\ tasks' = [tasks EXCEPT ![t] = task]
        /\ task.pc \in {"waiting", "ended"} /\ ~task.paid
        /\ status = "assigned" => task.pc = "ended"
        /\ task.ok <=> status = "completed"
        /\ task.ok => FinishOk(t)
  <2> DEFINE begun(ok) == [pc |-> IF published THEN "ended" ELSE "waiting",
                           ok |-> ok, paid |-> FALSE]
             given == [tasks[t] EXCEPT !.pc = "ended"]
  <2>1. \A ok \in BOOLEAN : /\ begun(ok) \in Task /\ begun(ok).pc \in {"waiting", "ended"}
                            /\ ~begun(ok).paid /\ begun(ok).ok = ok
      BY DEF Task
  <2>2. given \in Task /\ given.pc = "ended" /\ ~given.paid /\ ~given.ok
    <3>1. tasks[t] \in Task /\ ~tasks[t].paid /\ ~tasks[t].ok
      <4>1. ~NotStarted.paid /\ ~NotStarted.ok
          BY DEF NotStarted
      <4> QED BY <1>2, <1>3, <4>1
    <3> QED BY <3>1 DEF Task
  <2>3. CASE FinishOk(t)
    <3>1. /\ Emit([job EXCEPT !.status = "completed"])
          /\ tasks' = [tasks EXCEPT ![t] = begun(TRUE)]
        BY <2>3 DEF FinishOk, Start
    <3> HIDE DEF begun
    <3> QED BY <2>1, <2>3, <3>1
  <2>4. CASE FinishFailed(t)
    <3>1. \/ /\ Emit([job EXCEPT !.status = "assigned"])
             /\ tasks' = [tasks EXCEPT ![t] = given]
          \/ /\ Emit([job EXCEPT !.status = "failed"])
             /\ tasks' = [tasks EXCEPT ![t] = begun(FALSE)]
        BY <2>4 DEF FinishFailed, Start
    <3> HIDE DEF begun, given
    <3> QED BY <2>1, <2>2, <3>1
  <2> QED BY <2>3, <2>4
<1>5. PICK j \in JobType : j = [job EXCEPT !.status = status]
    BY <1>2, <1>4 DEF JobType
<1>6. j.status = status /\ j.paid = job.paid /\ job' = j /\ Emit(j)
    BY <1>2, <1>4, <1>5 DEF JobType, Emit
<1>7. /\ tasks' \in [Reports -> Task] /\ tasks'[t] = task
      /\ \A u \in Reports \ {t} : tasks'[u] = tasks[u]
    BY <1>2, <1>4
<1>9. TypeOK' /\ Sold' /\ OutcomeTold' /\ PaidTold' /\ EndsWithOutcome' /\ Unanswered'
  <2>1. \A u \in Reports : Active(u)' =>
               (Active(u) /\ tasks'[u].ok = tasks[u].ok) \/ Outcome(job', tasks'[u].ok)
      BY <1>4, <1>6, <1>7 DEF Active, Outcome
  <2>2. \A u \in Reports : tasks'[u].paid => tasks[u].paid \/ job.paid
      BY <1>4, <1>7
  <2>3. Unanswered' /\ buyer'.pc \notin {"quoting", "quoted", "paying"}
      BY <1>1, <1>3 DEF Unanswered, Sold
  <2> QED BY <1>2, <1>3, <1>6, <1>7, <2>1, <2>2, <2>3, JobTold
<1>10. PublishedOnce'
  <2>1. Publishing' = Publishing
      BY <1>3, <1>4, <1>7 DEF Publishing, NotStarted
  <2> QED BY <1>1, <1>3, <2>1 DEF PublishedOnce
<1> QED BY <1>9, <1>10 DEF IInv

\* The tasks publish a receipt, or fail to, and tell the readers of it.
LEMMA ReceiptStep ==
    ASSUME IInv, Receipts PROVE IInv'
<1>1. TypeOK /\ Sold /\ PublishedOnce /\ OutcomeTold /\ PaidTold /\ EndsWithOutcome
      /\ Unanswered
    BY DEF IInv
<1>2. /\ buyer \in Buyers /\ page \in Pages /\ tasks \in [Reports -> Task] /\ job \in JobType
      /\ topic \in Seq(ReceiptMessage) /\ published \in BOOLEAN
      /\ troubles \subseteq {"lost", "failed"}
    BY <1>1 DEF TypeOK, Task, Buyers, Pages, JobType
<1>3. ASSUME NEW t \in Reports, NEW late \in BOOLEAN, Recheck(t, late) PROVE IInv'
  <2>1. /\ tasks[t].pc = "waiting" /\ published' = TRUE
        /\ UNCHANGED <<job, topic, revived, troubles, restarts, stream, buyer, page>>
      BY <1>3 DEF Recheck
  <2>2. /\ tasks'[t] = [tasks[t] EXCEPT !.pc = IF published THEN "ended" ELSE "publishing", !.paid = job.paid]
        /\ \A u \in Reports \ {t} : tasks'[u] = tasks[u]
        /\ tasks' \in [Reports -> Task]
      BY <1>2, <1>3 DEF Recheck, Task, JobType
  <2>3. /\ tasks'[t].pc = (IF published THEN "ended" ELSE "publishing")
        /\ tasks'[t].paid = job.paid /\ tasks'[t].ok = tasks[t].ok
      BY <1>2, <2>2 DEF Task
  <2>4. TypeOK' /\ EndsWithOutcome' /\ Unanswered'
      BY <1>1, <2>1, <2>2 DEF TypeOK, EndsWithOutcome, Unanswered, Task
  <2>5. Sold'
      BY <1>1, <2>1 DEF Sold, Unsold, NotStarted
  <2>6. PublishedOnce'
    <3>1. CASE published
      <4>1. Publishing' = Publishing
          BY <2>1, <2>2, <2>3, <3>1 DEF Publishing
      <4> QED BY <1>1, <2>1, <4>1 DEF PublishedOnce
    <3>2. CASE ~published
      <4>1. Publishing' = Publishing \cup {t}
          BY <2>1, <2>2, <2>3, <3>2 DEF Publishing
      <4> QED BY <1>1, <2>1, <3>2, <4>1 DEF PublishedOnce
    <3> QED BY <3>1, <3>2
  <2>7. OutcomeTold'
    <3>1. \A u \in Reports : Active(u)' => Active(u) /\ tasks'[u].ok = tasks[u].ok
        BY <2>1, <2>2, <2>3 DEF Active
    <3> QED BY <1>1, <2>1, <3>1 DEF OutcomeTold
  <2>8. PaidTold'
      BY <1>1, <2>1, <2>2, <2>3 DEF PaidTold
  <2> QED BY <2>4, <2>5, <2>6, <2>7, <2>8 DEF IInv
<1>4. ASSUME NEW t \in Reports, NEW reached \in BOOLEAN, NEW answered \in BOOLEAN,
             Publish(t, reached, answered)
      PROVE  IInv'
  <2>1. /\ tasks[t].pc = "publishing" /\ (answered => reached)
        /\ topic' = IF reached THEN Append(topic, Receipt(t)) ELSE topic
        /\ troubles' = troubles \cup (IF answered THEN {} ELSE {IF reached THEN "lost" ELSE "failed"})
        /\ UNCHANGED <<restarts, buyer, page>>
      BY <1>4 DEF Publish
  <2>2. /\ tasks'[t] = [tasks[t] EXCEPT !.pc = "ended"] /\ tasks' \in [Reports -> Task]
        /\ \A u \in Reports \ {t} : tasks'[u] = tasks[u]
      BY <1>2, <1>4 DEF Publish, Task
  <2>3. tasks'[t].pc = "ended" /\ tasks'[t].ok = tasks[t].ok /\ tasks'[t].paid = tasks[t].paid
      BY <1>2, <2>2 DEF Task
  <2>4. Active(t) /\ job.status # "none"
      BY <1>1, <2>1 DEF Active, Sold, Unsold, NotStarted
  <2>5. /\ topic' \in Seq(ReceiptMessage)
        /\ \A i \in DOMAIN topic' :
              (i \in DOMAIN topic /\ topic'[i] = topic[i]) \/ topic'[i] = Receipt(t)
        /\ topic = <<>> => Len(topic') <= 1
        /\ reached => Len(topic') = Len(topic) + 1
        /\ Len(topic) \in Nat
    <3>1. Receipt(t) \in ReceiptMessage
        BY <1>2 DEF Receipt, ReceiptMessage, Task
    <3>2. /\ Append(topic, Receipt(t)) \in Seq(ReceiptMessage)
          /\ Len(Append(topic, Receipt(t))) = Len(topic) + 1
          /\ Len(topic) \in Nat /\ (topic = <<>> => Len(topic) = 0)
          /\ \A i \in DOMAIN Append(topic, Receipt(t)) :
                (i \in DOMAIN topic /\ Append(topic, Receipt(t))[i] = topic[i])
                \/ Append(topic, Receipt(t))[i] = Receipt(t)
        BY <1>2, <3>1, AppendProperties, LenProperties, EmptySeq
    <3> QED BY <1>2, <2>1, <3>2
  <2>6. /\ published' \in BOOLEAN /\ troubles' \subseteq {"lost", "failed"}
        /\ \/ /\ answered /\ UNCHANGED published /\ troubles' = troubles
              /\ Emit([job EXCEPT !.receipt = TRUE])
           \/ /\ ~answered /\ published' = FALSE /\ UNCHANGED <<job, revived, stream>>
      BY <1>2, <1>4, <2>1 DEF Publish
  <2>7. \A u \in Reports : Active(u)' => Active(u) /\ tasks'[u].ok = tasks[u].ok
      BY <2>2, <2>3 DEF Active
  <2>8. \A u \in Reports : tasks'[u].paid => tasks[u].paid
      BY <2>2, <2>3
  <2>9. TypeOK' /\ Sold' /\ OutcomeTold' /\ PaidTold' /\ EndsWithOutcome' /\ Unanswered'
        /\ job'.paid = job.paid
    <3>1. CASE answered
      <4>1. PICK j \in JobType : j = [job EXCEPT !.receipt = TRUE]
          BY <1>2 DEF JobType
      <4>2. Emit(j) /\ j.status = job.status /\ j.paid = job.paid /\ job' = j
          BY <1>2, <2>6, <3>1, <4>1 DEF Emit, JobType
      <4>3. Unanswered' /\ buyer'.pc \notin {"quoting", "quoted", "paying"} /\ UNCHANGED buyer
          BY <1>1, <2>1, <2>4 DEF Unanswered, Sold
      <4>4. page' \in Pages /\ buyer' \in Buyers
          BY <1>2, <2>1
      <4> QED BY <2>1, <2>2, <2>4, <2>5, <2>6, <2>7, <2>8, <4>2, <4>3, <4>4, JobTold
    <3>2. CASE ~answered
      <4>1. UNCHANGED <<job, revived, stream, restarts, buyer, page>>
          BY <2>1, <2>6, <3>2
      <4>2. TypeOK' /\ EndsWithOutcome' /\ Unanswered'
          BY <1>1, <2>2, <2>5, <2>6, <4>1 DEF TypeOK, EndsWithOutcome, Unanswered, Task
      <4>3. Sold'
          BY <1>1, <2>4, <4>1 DEF Sold
      <4>4. OutcomeTold'
          BY <1>1, <2>4, <2>5, <2>7, <4>1 DEF OutcomeTold, Receipt
      <4>5. PaidTold'
          BY <1>1, <2>5, <2>8, <4>1 DEF PaidTold, Receipt
      <4> QED BY <4>1, <4>2, <4>3, <4>4, <4>5
    <3> QED BY <3>1, <3>2
  <2>10. PublishedOnce'
    <3>1. SUFFICES ASSUME ~("lost" \in troubles' \/ restarts' > 0)
                   PROVE  PublishedOnce'
        BY DEF PublishedOnce
    <3>2. t \in Publishing /\ Publishing' = Publishing \ {t}
      <4>1. \A u \in Reports : tasks'[u].pc = "publishing" <=> u # t /\ tasks[u].pc = "publishing"
          BY <2>2, <2>3
      <4> QED BY <2>1, <4>1 DEF Publishing
    <3>3. ~("lost" \in troubles \/ restarts > 0) /\ ~(reached /\ ~answered)
        BY <2>1, <3>1
    <3>4. topic = <<>> /\ published /\ Publishing' = {}
        BY <1>1, <3>2, <3>3 DEF PublishedOnce
    <3>5. CASE answered
      <4>1. published' /\ Len(topic') = 1
          BY <2>1, <2>5, <2>6, <3>4, <3>5, EmptySeq
      <4> QED BY <3>4, <4>1 DEF PublishedOnce
    <3>6. CASE ~answered
      <4>1. topic' = <<>>
          BY <2>1, <3>3, <3>4, <3>6
      <4> QED BY <3>4, <4>1 DEF PublishedOnce
    <3> QED BY <3>5, <3>6
  <2> QED BY <2>9, <2>10 DEF IInv
<1> QED BY <1>3, <1>4 DEF Receipts

\* The broker sells the job while the payment is under way: nothing was said of it yet.
LEMMA SellStep ==
    ASSUME IInv, Sell PROVE IInv'
<1>1. TypeOK /\ Sold /\ PublishedOnce /\ PaidTold /\ EndsWithOutcome /\ Unanswered
    BY DEF IInv
<1>2. /\ buyer.pc = "paying" /\ buyer' = [buyer EXCEPT !.pc = "settling"]
      /\ \E s \in {"assigned", "failed"} : job' = [job EXCEPT !.status = s]
      /\ UNCHANGED <<tasks, published, topic, revived, troubles, restarts, stream, page>>
    BY DEF Sell
<1>3. buyer \in Buyers /\ job \in JobType
    BY <1>1 DEF TypeOK, Buyers, JobType
<1>4. /\ buyer' \in Buyers /\ buyer'.pc = "settling" /\ buyer'.code = buyer.code
      /\ job' \in JobType /\ job'.status # "none" /\ job'.paid = job.paid
    BY <1>2, <1>3 DEF Buyers, JobType
<1>5. Unsold
    BY <1>1, <1>2 DEF Sold
<1>6. TypeOK'
    BY <1>1, <1>2, <1>4 DEF TypeOK, Buyers, JobType
<1>7. Sold' /\ Unanswered'
    BY <1>1, <1>2, <1>4 DEF Sold, Unanswered
<1>8. OutcomeTold'
    BY <1>2, <1>4, <1>5 DEF OutcomeTold, Unsold, NotStarted, Active, Readers
<1>9. PublishedOnce' /\ PaidTold' /\ EndsWithOutcome'
  <2>1. Publishing' = Publishing
      BY <1>2 DEF Publishing
  <2> QED BY <1>1, <1>2, <1>4, <2>1 DEF PublishedOnce, PaidTold, EndsWithOutcome
<1> QED BY <1>6, <1>7, <1>8, <1>9 DEF IInv

\* A restart forgets tasks, streams and what was published, and ends a command that
\* reads a stream.
LEMMA RestartStep ==
    ASSUME IInv, Restart PROVE IInv'
<1>1. TypeOK /\ Sold /\ PublishedOnce /\ OutcomeTold /\ PaidTold /\ EndsWithOutcome
      /\ Unanswered
    BY DEF IInv
<1>2. /\ job.status # "none" /\ restarts < MaxRestarts /\ restarts' = restarts + 1 /\ published' = FALSE
      /\ UNCHANGED <<job, topic, revived, troubles, page>>
    BY DEF Restart
<1>3. /\ tasks' \in [Reports -> Task]
      /\ \A t \in Reports : ~Active(t)' /\ tasks'[t].ok = tasks[t].ok /\ tasks'[t].paid = tasks[t].paid
  <2>1. tasks \in [Reports -> Task]
      BY <1>1 DEF TypeOK, Task
  <2>2. tasks' = [t \in Reports |-> IF tasks[t] = NotStarted THEN NotStarted
                                    ELSE [tasks[t] EXCEPT !.pc = "ended"]]
      BY DEF Restart
  <2>3. ASSUME NEW t \in Reports
        PROVE  /\ tasks'[t] \in Task /\ ~Active(t)'
               /\ tasks'[t].ok = tasks[t].ok /\ tasks'[t].paid = tasks[t].paid
    <3>1. CASE tasks[t] = NotStarted
        BY <2>2, <3>1 DEF NotStarted, Task, Active
    <3>2. CASE tasks[t] # NotStarted
      <4>1. tasks'[t] = [tasks[t] EXCEPT !.pc = "ended"]
          BY <2>2, <3>2
      <4> QED BY <2>1, <4>1 DEF Task, Active
    <3> QED BY <3>1, <3>2
  <2> QED BY <2>2, <2>3
<1>4. stream' = [s \in Readers |-> Closed]
    BY <1>1 DEF Restart, TypeOK, Readers
<1>5. /\ buyer' \in Buyers /\ buyer'.pc \notin {"quoting", "quoted", "paying"}
      /\ buyer'.pc # "ended" => buyer' = buyer
    BY <1>1, <1>2 DEF Restart, TypeOK, Buyers, Sold
<1>6. <<>> \in Seq(Frame) /\ DOMAIN <<>> = {}
    BY EmptySeq
<1>7. TypeOK'
  <2>1. restarts' \in 0..MaxRestarts
      BY <1>1, <1>2, PricesAssumption DEF TypeOK
  <2>2. stream' \in [Readers -> Stream]
      BY <1>4, <1>6 DEF Closed, Stream
  <2> QED BY <1>1, <1>2, <1>3, <1>5, <2>1, <2>2 DEF TypeOK, Buyers, Task, Stream, Readers
<1>8. Sold' /\ Unanswered'
    BY <1>1, <1>2, <1>5 DEF Sold, Unanswered
<1>9. OutcomeTold' /\ PaidTold' /\ EndsWithOutcome'
  <2>1. \A s \in Readers : DOMAIN stream'[s].frames = {}
      BY <1>4, <1>6 DEF Closed
  <2>2. EndsWithOutcome'
      BY <2>1 DEF EndsWithOutcome
  <2>3. PaidTold'
      BY <1>1, <1>2, <1>3 DEF PaidTold
  <2>4. OutcomeTold'
      BY <1>1, <1>2, <1>3, <1>5, <2>1 DEF OutcomeTold
  <2> QED BY <2>2, <2>3, <2>4
<1>10. PublishedOnce'
  <2>1. restarts' > 0
      BY <1>1, <1>2, PricesAssumption DEF TypeOK
  <2> QED BY <2>1 DEF PublishedOnce
<1> QED BY <1>7, <1>8, <1>9, <1>10 DEF IInv

-----------------------------------------------------------------------------
(* The buyer and the page.                                                 *)

\* What a reader does leaves the broker alone; its streams only shrink or start with
\* the job as it is.
LEMMA ReaderStep ==
    ASSUME IInv, UNCHANGED broker, buyer' \in Buyers, page' \in Pages, stream' \in [Readers -> Stream],
           \A s \in Readers : stream'[s].open => job.status # "none",
           \A s \in Readers : \A i \in DOMAIN stream'[s].frames :
               LET f == stream'[s].frames[i] IN
               \/ \E k \in DOMAIN stream[s].frames : f = stream[s].frames[k]
               \/ f.view = View /\ job.status # "none" /\ (f.kind = "done" => job.status \in Terminal),
           job.status = "none" => UNCHANGED <<stream, page>>
                                  /\ buyer'.pc \notin {"settling", "watching", "receipt"},
           buyer'.pc \in {"quoting", "quoted", "paying"} => job.status = "none",
           ~revived /\ buyer'.pc = "receipt" /\ buyer'.kind = "cli" =>
               job.status = "completed" /\ buyer'.view.status = "completed",
           Unanswered'
    PROVE  IInv'
<1>1. TypeOK /\ Sold /\ PublishedOnce /\ OutcomeTold /\ PaidTold /\ EndsWithOutcome
    BY DEF IInv
<1>2. UNCHANGED <<job, tasks, published, topic, revived, troubles, restarts>>
    BY DEF broker
<1>3. TypeOK'
    BY <1>1, <1>2 DEF TypeOK, Buyers, Pages, Readers, Stream
<1>4. Sold'
    BY <1>1, <1>2 DEF Sold, Unsold
<1>5. EndsWithOutcome'
    BY <1>1, <1>2 DEF EndsWithOutcome, View
<1>6. OutcomeTold'
  <2>1. SUFFICES ASSUME ~revived PROVE OutcomeTold'
      BY <1>2 DEF OutcomeTold
  <2>2. \A s \in Readers : \A i \in DOMAIN stream'[s].frames : Truthful(stream'[s].frames[i], job)
      BY <1>1, <2>1 DEF OutcomeTold, Truthful, View
  <2>3. \A t \in Reports : Active(t)' <=> Active(t)
      BY <1>2 DEF Active
  <2> QED BY <1>1, <1>2, <2>1, <2>2, <2>3 DEF OutcomeTold
<1>7. PublishedOnce' /\ PaidTold'
  <2>1. Publishing' = Publishing
      BY <1>2 DEF Publishing
  <2> QED BY <1>1, <1>2, <2>1 DEF PublishedOnce, PaidTold
<1> QED BY <1>3, <1>4, <1>5, <1>6, <1>7 DEF IInv

\* The buyer decides, pays, is refused, watches, polls, and gives up.
LEMMA BuyerStep ==
    ASSUME IInv,
           \/ \E p \in Prices : Quote(p)
           \/ QuoteFails \/ Decline \/ Pay \/ PayRefused \/ Watching
    PROVE  IInv'
<1>1. TypeOK /\ Sold /\ OutcomeTold /\ EndsWithOutcome /\ Unanswered
    BY DEF IInv
<1>2. UNCHANGED <<broker, page>>
    BY DEF Quote, QuoteFails, Decline, Pay, PayRefused, Watching, Watch, WatchFrame, AwaitReceipt,
       GiveUpReceipt, Poll, PollAgain, PollTimeout
<1>3. /\ buyer \in Buyers /\ page \in Pages /\ stream \in [Readers -> Stream] /\ job \in JobType
      /\ job.status # "none" => View \in Seen
    BY <1>1 DEF TypeOK, Buyers, Pages, Stream, Readers, JobType, View, Seen
<1>4. \A s \in Readers : stream[s].open => job.status # "none"
    BY <1>1 DEF Sold, Unsold
\* Steps that leave the streams alone.
<1>5. ASSUME UNCHANGED stream, buyer' \in Buyers, Unanswered',
             buyer.pc \in {"quoting", "quoted", "paying"} =>
                 buyer'.pc \in {"quoting", "quoted", "paying", "ended"},
             buyer.pc \notin {"quoting", "quoted", "paying"} =>
                 buyer'.pc \in {"watching", "receipt", "ended"} /\ job.status # "none",
             ~revived /\ buyer'.pc = "receipt" /\ buyer'.kind = "cli" =>
               job.status = "completed" /\ buyer'.view.status = "completed"
      PROVE  IInv'
  <2>1. job.status = "none" => UNCHANGED <<stream, page>>
                               /\ buyer'.pc \notin {"settling", "watching", "receipt"}
      BY <1>1, <1>2, <1>5 DEF Sold, Unsold
  <2>2. buyer'.pc \in {"quoting", "quoted", "paying"} => job.status = "none"
      BY <1>1, <1>5 DEF Sold
  <2>3. \A s \in Readers : \A i \in DOMAIN stream'[s].frames :
           \E k \in DOMAIN stream[s].frames : stream'[s].frames[i] = stream[s].frames[k]
      BY <1>5
  <2> QED BY <1>2, <1>3, <1>4, <1>5, <2>1, <2>2, <2>3, ReaderStep
<1>6. ASSUME \/ \E p \in Prices : Quote(p)
             \/ QuoteFails \/ Decline \/ Pay
      PROVE  IInv'
  <2>1. UNCHANGED stream /\ buyer.pc \in {"quoting", "quoted"}
      BY <1>6 DEF Quote, QuoteFails, Decline, Pay
  <2>2. buyer' \in Buyers /\ buyer'.pc \in {"quoted", "paying", "ended"} /\ Unanswered'
      BY <1>1, <1>3, <1>6 DEF Quote, QuoteFails, Decline, Pay, Buyers, Unanswered
  <2> QED BY <1>5, <2>1, <2>2
<1>7. ASSUME PayRefused PROVE IInv'
  <2>1. UNCHANGED stream /\ buyer.pc \in {"paying", "settling"}
      BY <1>7 DEF PayRefused
  <2>2. buyer' \in Buyers /\ buyer'.pc = "ended" /\ Unanswered'
      BY <1>3, <1>7 DEF PayRefused, Buyers, Unanswered
  <2>3. buyer.pc = "settling" => job.status # "none"
      BY <1>1 DEF Sold, Unsold
  <2> QED BY <1>5, <2>1, <2>2, <2>3
<1>8. ASSUME NEW v \in Seen \cup {NoView}
      PROVE  Told(v) \in Buyers /\ Told(v).pc = "ended"
    BY <1>3 DEF Told, Buyers
<1>9. ASSUME AwaitReceipt \/ GiveUpReceipt \/ Poll \/ PollAgain \/ PollTimeout PROVE IInv'
  <2>1. UNCHANGED stream /\ buyer.pc \in {"watching", "receipt"} /\ job.status # "none"
      BY <1>1, <1>9 DEF AwaitReceipt, GiveUpReceipt, Poll, PollAgain, PollTimeout, Sold, Unsold
  <2>2. buyer' \in Buyers /\ buyer'.pc \in {"watching", "receipt", "ended"} /\ Unanswered'
        /\ (~revived /\ buyer'.pc = "receipt" /\ buyer'.kind = "cli" =>
               job.status = "completed" /\ buyer'.view.status = "completed")
    <3>1. CASE AwaitReceipt
      <4>1. CASE buyer' = Told(View)
          BY <1>3, <1>8, <2>1, <4>1 DEF Unanswered
      <4>2. CASE buyer' = [buyer EXCEPT !.view = View]
        <5>1. buyer' \in Buyers /\ buyer'.pc = buyer.pc /\ buyer'.kind = buyer.kind
              /\ buyer'.view = View /\ buyer'.code = buyer.code
            BY <1>3, <2>1, <4>2 DEF Buyers
        <5> QED BY <1>1, <2>1, <3>1, <5>1 DEF AwaitReceipt, OutcomeTold, Unanswered, View
      <4> QED BY <3>1, <4>1, <4>2 DEF AwaitReceipt
    <3>2. CASE GiveUpReceipt
      <4>1. buyer' = Told(buyer.view) /\ buyer.view \in Seen \cup {NoView}
          BY <1>3, <3>2 DEF GiveUpReceipt, Buyers
      <4> QED BY <1>8, <4>1 DEF Unanswered
    <3>3. CASE Poll \/ PollAgain
      <4>1. CASE buyer' = Told(View)
          BY <1>3, <1>8, <2>1, <4>1 DEF Unanswered
      <4>2. CASE buyer' = [buyer EXCEPT !.view = View,
                                  !.pc = IF job.status = "completed" THEN "receipt" ELSE @]
        <5>1. buyer' \in Buyers /\ buyer'.pc \in {"receipt", buyer.pc} /\ buyer'.kind = buyer.kind
              /\ buyer'.code = buyer.code
            BY <1>3, <2>1, <4>2 DEF Buyers
        <5> QED BY <1>1, <2>1, <3>3, <5>1 DEF Poll, PollAgain, Unanswered
      <4> QED BY <3>3, <4>1, <4>2 DEF Poll, PollAgain
    <3>4. CASE PollTimeout
        BY <1>3, <3>4 DEF PollTimeout, Buyers, Unanswered
    <3> QED BY <1>9, <3>1, <3>2, <3>3, <3>4
  <2> QED BY <1>5, <2>1, <2>2
<1>10. ASSUME Watch \/ WatchFrame PROVE IInv'
  <2>1. buyer.kind = "cli" /\ buyer.pc = "watching" /\ job.status # "none" /\ buyer.code = "none"
      BY <1>1, <1>10 DEF Watch, WatchFrame, Sold, Unsold, Unanswered
  <2>2. stream["cli"] \in Stream /\ "cli" \in Readers
      BY <1>3 DEF Readers
  <2>3. CASE Watch
    <3>1. UNCHANGED buyer /\ stream' = [stream EXCEPT !["cli"] = Opened]
        BY <2>3 DEF Watch
    <3>2. Opened \in Stream /\ \A i \in DOMAIN Opened.frames :
              Opened.frames[i].view = View /\ (Opened.frames[i].kind = "done" => job.status \in Terminal)
        BY <1>1, <2>1, StreamOpened
    <3>3. /\ stream' \in [Readers -> Stream] /\ stream'["cli"] = Opened
          /\ \A s \in Readers \ {"cli"} : stream'[s] = stream[s]
        BY <1>3, <2>2, <3>1, <3>2
    <3>4. Unanswered' /\ buyer' \in Buyers /\ page' \in Pages
        BY <1>1, <1>2, <1>3, <3>1 DEF Unanswered
    <3>5. \A s \in Readers : \A i \in DOMAIN stream'[s].frames :
               LET f == stream'[s].frames[i] IN
               \/ \E k \in DOMAIN stream[s].frames : f = stream[s].frames[k]
               \/ f.view = View /\ job.status # "none" /\ (f.kind = "done" => job.status \in Terminal)
        BY <2>1, <3>2, <3>3
    <3> QED BY <1>2, <2>1, <3>1, <3>3, <3>4, <3>5, ReaderStep
  <2>4. CASE WatchFrame
    <3> DEFINE q == stream["cli"].frames
               frame == Head(q)
    <3>1. q \in Seq(Frame) /\ q # <<>>
        BY <2>2, <2>4 DEF WatchFrame, Stream
    <3>2. /\ frame \in Frame /\ 1 \in DOMAIN q /\ frame = q[1] /\ Tail(q) \in Seq(Frame)
          /\ \A i \in DOMAIN Tail(q) : i + 1 \in DOMAIN q /\ Tail(q)[i] = q[i + 1]
        BY <3>1, FrameRead
    <3>3. \/ /\ buyer' = [buyer EXCEPT !.view = frame.view]
             /\ stream' = [stream EXCEPT !["cli"].frames = Tail(@)]
          \/ /\ frame.kind = "done" \/ frame.view.status \in Terminal
             /\ buyer' = IF frame.view.status = "completed" /\ ~frame.view.receipt
                           THEN [buyer EXCEPT !.pc = "receipt", !.view = frame.view]
                           ELSE Told(frame.view)
             /\ stream' = [stream EXCEPT !["cli"] = Closed]
        BY <2>4 DEF WatchFrame
    <3>4. frame.view \in Seen
        BY <3>2 DEF Frame
    <3>5. stream' \in [Readers -> Stream]
          /\ \A s \in Readers : \A i \in DOMAIN stream'[s].frames :
                \E k \in DOMAIN stream[s].frames : stream'[s].frames[i] = stream[s].frames[k]
      <4>1. CASE stream' = [stream EXCEPT !["cli"].frames = Tail(@)]
        <5>1. /\ stream'["cli"] = [stream["cli"] EXCEPT !.frames = Tail(q)]
              /\ \A s \in Readers \ {"cli"} : stream'[s] = stream[s]
              /\ DOMAIN stream' = Readers /\ stream' = [s \in Readers |-> stream'[s]]
            BY <1>3, <2>2, <4>1
        <5>2. stream'["cli"] \in Stream /\ stream'["cli"].frames = Tail(q)
            BY <2>2, <3>2, <5>1 DEF Stream
        <5>3. \A i \in DOMAIN Tail(q) : \E k \in DOMAIN q : Tail(q)[i] = q[k]
            BY <3>2
        <5>4. stream' \in [Readers -> Stream]
            BY <1>3, <5>1, <5>2
        <5>5. ASSUME NEW s \in Readers, NEW i \in DOMAIN stream'[s].frames
              PROVE  \E k \in DOMAIN stream[s].frames : stream'[s].frames[i] = stream[s].frames[k]
          <6>1. CASE s = "cli"
            <7>1. /\ i \in DOMAIN Tail(q) /\ stream'[s].frames[i] = Tail(q)[i]
                  /\ stream[s].frames = q
                BY <5>2, <5>5, <6>1
            <7> HIDE DEF q
            <7> QED BY <5>3, <7>1
          <6>2. CASE s # "cli"
            <7>1. stream'[s] = stream[s]
                BY <5>1, <6>2
            <7> QED BY <5>5, <7>1
          <6> QED BY <6>1, <6>2
        <5> QED BY <5>4, <5>5
      <4>2. CASE stream' = [stream EXCEPT !["cli"] = Closed]
        <5>1. Closed \in Stream /\ DOMAIN Closed.frames = {}
            BY EmptySeq DEF Closed, Stream
        <5>2. /\ stream' \in [Readers -> Stream] /\ stream'["cli"] = Closed
              /\ \A s \in Readers \ {"cli"} : stream'[s] = stream[s]
            BY <1>3, <2>2, <4>2, <5>1
        <5>3. ASSUME NEW s \in Readers, NEW i \in DOMAIN stream'[s].frames
              PROVE  \E k \in DOMAIN stream[s].frames : stream'[s].frames[i] = stream[s].frames[k]
          <6>1. s # "cli"
              BY <5>1, <5>2, <5>3
          <6>2. stream'[s] = stream[s]
              BY <5>2, <6>1
          <6> QED BY <5>3, <6>2
        <5> QED BY <5>2, <5>3
      <4> QED BY <3>3, <4>1, <4>2
    <3>6. buyer' \in Buyers /\ buyer'.pc \in {"watching", "receipt", "ended"} /\ Unanswered'
          /\ (~revived /\ buyer'.pc = "receipt" /\ buyer'.kind = "cli" =>
                 job.status = "completed" /\ buyer'.view.status = "completed")
      <4>1. CASE buyer' = [buyer EXCEPT !.view = frame.view]
          BY <1>3, <2>1, <3>4, <4>1 DEF Buyers, Unanswered
      <4>2. CASE buyer' = [buyer EXCEPT !.pc = "receipt", !.view = frame.view]
                 /\ frame.view.status = "completed"
        <5>1. buyer' \in Buyers /\ buyer'.pc = "receipt" /\ buyer'.view = frame.view
              /\ buyer'.code = "none"
            BY <1>3, <2>1, <3>4, <4>2 DEF Buyers
        <5>2. ~revived => job.status = "completed"
            BY <1>1, <2>2, <3>2, <4>2 DEF OutcomeTold, Truthful, Terminal
        <5> QED BY <4>2, <5>1, <5>2 DEF Unanswered
      <4>3. CASE buyer' = Told(frame.view)
          BY <1>8, <3>4, <4>3 DEF Unanswered
      <4> QED BY <3>3, <4>1, <4>2, <4>3
    <3> QED
      <4>1. page' \in Pages
          BY <1>2, <1>3
      <4> QED BY <1>2, <2>1, <3>5, <3>6, <4>1, ReaderStep
  <2> QED BY <1>10, <2>3, <2>4
<1> QED BY <1>6, <1>7, <1>9, <1>10 DEF Watching

\* The page loads, subscribes, reads, reconnects and fetches once more.
LEMMA PageStep ==
    ASSUME IInv, Page PROVE IInv'
<1>1. TypeOK /\ Sold /\ OutcomeTold /\ Unanswered
    BY DEF IInv
<1>2. UNCHANGED <<broker, buyer>>
    BY DEF Page, Load, Subscribe, Cleanup, PageFrame, Reconnect, Refetch
<1>3. /\ buyer \in Buyers /\ page \in Pages /\ stream \in [Readers -> Stream] /\ "page" \in Readers
      /\ job.status # "none" => View \in Seen
    BY <1>1 DEF TypeOK, Buyers, Pages, Stream, Readers, View, Seen
\* The stream of the page, whatever becomes of it.
<1>4. ASSUME NEW st \in Stream, stream' = [stream EXCEPT !["page"] = st] \/ UNCHANGED stream,
             page' \in Pages, job.status # "none",
             \A i \in DOMAIN st.frames :
               \/ \E k \in DOMAIN stream["page"].frames : st.frames[i] = stream["page"].frames[k]
               \/ st.frames[i].view = View /\ (st.frames[i].kind = "done" => job.status \in Terminal)
      PROVE  IInv'
  <2>1. job.status # "none"
      BY <1>4
  <2>2. /\ stream' \in [Readers -> Stream]
        /\ stream' = stream \/ stream'["page"] = st
        /\ \A s \in Readers \ {"page"} : stream'[s] = stream[s]
      BY <1>3, <1>4
  <2>3. ASSUME NEW s \in Readers, NEW i \in DOMAIN stream'[s].frames
        PROVE  LET f == stream'[s].frames[i] IN
               \/ \E k \in DOMAIN stream[s].frames : f = stream[s].frames[k]
               \/ f.view = View /\ job.status # "none" /\ (f.kind = "done" => job.status \in Terminal)
    <3>1. CASE stream'[s] = stream[s]
        BY <2>3, <3>1
    <3>2. CASE s = "page" /\ stream' # stream
      <4>1. stream'[s] = st /\ job.status # "none"
          BY <1>4, <2>1, <2>2, <3>2
      <4> QED BY <1>4, <2>3, <3>2, <4>1
    <3> QED BY <2>2, <3>1, <3>2
  <2>4. \A s \in Readers : stream'[s].open => job.status # "none"
      BY <1>1, <1>4, <2>1 DEF Sold, Unsold
  <2>5. job.status = "none" => UNCHANGED <<stream, page>>
                               /\ buyer'.pc \notin {"settling", "watching", "receipt"}
      BY <1>1, <1>2, <1>4, <2>1 DEF Sold, Unsold
  <2>6. buyer'.pc \in {"quoting", "quoted", "paying"} => job.status = "none"
      BY <1>1, <1>2 DEF Sold
  <2>7. ~revived /\ buyer'.pc = "receipt" /\ buyer'.kind = "cli" =>
           job.status = "completed" /\ buyer'.view.status = "completed"
      BY <1>1, <1>2 DEF OutcomeTold
  <2>8. Unanswered' /\ buyer' \in Buyers
      BY <1>1, <1>2, <1>3 DEF Unanswered
  <2> QED BY <1>2, <1>4, <2>2, <2>3, <2>4, <2>5, <2>6, <2>7, <2>8, ReaderStep
<1>5. ASSUME \/ \E found \in BOOLEAN : Load(found)
             \/ Cleanup \/ \E ok \in BOOLEAN : Refetch(ok)
      PROVE  IInv'
  <2>1. Closed \in Stream /\ DOMAIN Closed.frames = {}
      BY EmptySeq DEF Closed, Stream
  <2>2. stream' = [stream EXCEPT !["page"] = Closed] \/ UNCHANGED stream
      BY <1>5 DEF Load, Cleanup, Refetch
  <2>3. job.status # "none"
      BY <1>1, <1>5 DEF Load, Cleanup, Refetch, Sold, Unsold
  <2>4. page' \in Pages
    <3>1. NoView \in Seen \cup {NoView} /\ View \in Seen \cup {NoView}
        BY <1>3, <2>3
    <3> QED BY <1>3, <1>5, <3>1 DEF Load, Cleanup, Refetch, Pages
  <2> QED BY <1>4, <2>1, <2>2, <2>3, <2>4
<1>6. ASSUME Subscribe \/ Reconnect PROVE IInv'
  <2>1. page.pc \in {"idle", "source"} /\ stream' = [stream EXCEPT !["page"] = Opened]
        /\ page' \in Pages
      BY <1>3, <1>6 DEF Subscribe, Reconnect, Pages
  <2>2. job.status # "none"
      BY <1>1, <2>1 DEF Sold, Unsold
  <2>3. Opened \in Stream /\ \A i \in DOMAIN Opened.frames :
            Opened.frames[i].view = View /\ (Opened.frames[i].kind = "done" => job.status \in Terminal)
      BY <1>1, <2>2, StreamOpened
  <2> QED BY <1>4, <2>1, <2>2, <2>3
<1>7. ASSUME PageFrame PROVE IInv'
  <2> DEFINE q == stream["page"].frames
             st == IF Head(q).kind = "done" THEN Closed ELSE [stream["page"] EXCEPT !.frames = Tail(q)]
  <2>1. /\ page.pc = "source" /\ q # <<>>
        /\ page' = [page EXCEPT !.view = Head(q).view, !.refetch = page.refetch \/ Head(q).kind = "done"]
        /\ stream' = [stream EXCEPT !["page"] = st]
    <3>1. stream' = [stream EXCEPT !["page"] = st]
        BY <1>7 DEF PageFrame
    <3> HIDE DEF st
    <3> QED BY <1>7, <3>1 DEF PageFrame
  <2>2. stream["page"] \in Stream /\ q \in Seq(Frame) /\ job.status # "none"
      BY <1>1, <1>3, <2>1 DEF Stream, Sold, Unsold
  <2>3. /\ Head(q) \in Frame /\ Tail(q) \in Seq(Frame)
        /\ \A i \in DOMAIN Tail(q) : i + 1 \in DOMAIN q /\ Tail(q)[i] = q[i + 1]
      BY <2>1, <2>2, FrameRead
  <2>4. page' \in Pages
    <3>1. Head(q).view \in Seen
        BY <2>3 DEF Frame
    <3> QED BY <1>3, <2>1, <3>1 DEF Pages
  <2>5. st \in Stream /\ \A i \in DOMAIN st.frames : \E k \in DOMAIN q : st.frames[i] = q[k]
    <3>1. CASE Head(q).kind = "done"
      <4>1. Closed \in Stream /\ DOMAIN Closed.frames = {}
          BY EmptySeq DEF Closed, Stream
      <4> QED BY <3>1, <4>1
    <3>2. CASE Head(q).kind # "done"
      <4>1. st = [stream["page"] EXCEPT !.frames = Tail(q)]
          BY <3>2
      <4> HIDE DEF st
      <4>2. st \in Stream /\ st.frames = Tail(q)
          BY <2>2, <2>3, <4>1 DEF Stream
      <4> QED BY <2>3, <4>2
    <3> QED BY <3>1, <3>2
  <2> HIDE DEF st
  <2> QED BY <1>4, <2>1, <2>2, <2>4, <2>5
<1> QED BY <1>5, <1>6, <1>7 DEF Page

-----------------------------------------------------------------------------
\* Nothing is sold or said at the start.
LEMMA InitIInv == Init => IInv
<1> SUFFICES ASSUME Init PROVE IInv
    OBVIOUS
<1>1. <<>> \in Seq(Frame) /\ <<>> \in Seq(ReceiptMessage) /\ DOMAIN <<>> = {}
    BY EmptySeq
<1>2. TypeOK
  <2>1. NoView \in Seen \cup {NoView} /\ Closed \in Stream /\ 0 \in 0..MaxRestarts
      BY <1>1, PricesAssumption DEF Closed, Stream
  <2> QED BY <1>1, <2>1 DEF Init, TypeOK, NotStarted, Stream
<1>3. Sold /\ PublishedOnce /\ PaidTold /\ EndsWithOutcome /\ Unanswered /\ OutcomeTold
    BY <1>1 DEF Init, Sold, Unsold, PublishedOnce, Publishing, PaidTold, EndsWithOutcome, Unanswered,
       OutcomeTold, Active, NotStarted, Closed, Readers
<1> QED BY <1>2, <1>3 DEF IInv

\* The invariant is inductive.
LEMMA StepIInv == IInv /\ [Next]_vars => IInv'
<1> SUFFICES ASSUME IInv, [Next]_vars PROVE IInv'
    OBVIOUS
<1>1. CASE UNCHANGED vars
  <2>1. TypeOK' /\ Sold' /\ OutcomeTold' /\ PaidTold' /\ EndsWithOutcome' /\ Unanswered'
      BY <1>1 DEF vars, broker, IInv, TypeOK, Sold, Unsold, OutcomeTold, PaidTold,
         EndsWithOutcome, Unanswered, Active
  <2>2. Publishing' = Publishing
      BY <1>1 DEF vars, broker, Publishing
  <2>3. PublishedOnce'
      BY <1>1, <2>2 DEF vars, broker, IInv, PublishedOnce
  <2> QED BY <2>1, <2>3 DEF IInv
<1> QED BY <1>1, JobStep, ReportStep, ReceiptStep, SellStep, RestartStep, BuyerStep, PageStep
    DEF Next, Buying, Broker

\* Every reachable state is typed; what was said of the job's outcome and payment is
\* true, and one task at most publishes the receipt.
THEOREM PurchaseInvariant == Spec => []IInv
BY InitIInv, StepIInv, PTL DEF Spec

\* A job has one receipt at most on the topic, which tells its outcome and payment as
\* they are, however many reports its providers send (publishReceiptWhenReady); the ways
\* out are a lost answer of the topic, a restart and a changed outcome.
THEOREM JobsHaveOneReceipt == Spec => []OneReceipt
<1>1. IInv => OneReceipt
  <2> SUFFICES ASSUME IInv PROVE OneReceipt
      OBVIOUS
  <2>1. Len(topic) <= 1 \/ "lost" \in troubles \/ restarts > 0
    <3>1. topic = <<>> => Len(topic) <= 1
        BY EmptySeq
    <3>2. Len(topic) = 1 => Len(topic) <= 1
        OBVIOUS
    <3> QED BY <3>1, <3>2 DEF IInv, PublishedOnce
  <2>2. \A i \in DOMAIN topic : revived \/ topic[i].ok = (job.status = "completed")
    <3>1. \A i \in DOMAIN topic : topic[i].ok \in BOOLEAN
      <4>1. \A i \in DOMAIN topic : topic[i] \in ReceiptMessage
          BY LenProperties DEF IInv, TypeOK
      <4> QED BY <4>1 DEF ReceiptMessage
    <3> QED BY <3>1 DEF IInv, OutcomeTold, Outcome
  <2> QED BY <2>1, <2>2 DEF IInv, PaidTold, OneReceipt
<1> QED BY <1>1, PurchaseInvariant, PTL

\* A buyer who watches the job is told that it failed only if it did: no stale frame,
\* poll or receipt look turns a completed job into a failure (watchJob, pollUntilDone).
THEOREM ToldFailuresAreReal == Spec => FailureIsReal
<1>1. ASSUME IInv, [Next]_vars, buyer.pc \in {"watching", "receipt"}, buyer'.code = "fail"
      PROVE  job.status # "completed" \/ revived \/ restarts' > 0
  <2>1. TypeOK /\ Sold /\ OutcomeTold /\ EndsWithOutcome /\ buyer.code = "none"
      BY <1>1 DEF IInv, Unanswered
  <2>2. buyer' # buyer
      BY <1>1, <2>1
  <2>3. ASSUME NEW v, buyer' = Told(v) PROVE v.status # "completed"
    <3>1. buyer \in Buyers
        BY <2>1 DEF TypeOK, Buyers
    <3>2. buyer'.code = IF v.status = "completed" THEN "ok" ELSE "fail"
        BY <2>3, <3>1 DEF Told, Buyers
    <3> QED BY <1>1, <3>2
  <2>4. ASSUME NEW v, buyer' = [buyer EXCEPT !.view = v] PROVE FALSE
      BY <1>1, <2>1, <2>4 DEF TypeOK
  <2>5. CASE Restart
      BY <2>1, <2>5, PricesAssumption DEF Restart, TypeOK
  <2>6. CASE WatchFrame
    <3> DEFINE q == stream["cli"].frames
               frame == Head(q)
    <3>1. q \in Seq(Frame) /\ q # <<>>
        BY <2>1, <2>6 DEF WatchFrame, TypeOK
    <3>2. frame \in Frame /\ 1 \in DOMAIN q /\ frame = q[1]
        BY <3>1, FrameRead
    <3>3. /\ frame.kind = "done" \/ frame.view.status \in Terminal
          /\ \/ buyer' = [buyer EXCEPT !.pc = "receipt", !.view = frame.view]
             \/ buyer' = Told(frame.view)
        BY <2>4, <2>6 DEF WatchFrame
    <3>4. buyer' = Told(frame.view)
      <4>1. ASSUME buyer' = [buyer EXCEPT !.pc = "receipt", !.view = frame.view] PROVE FALSE
          BY <1>1, <2>1, <4>1 DEF TypeOK
      <4> QED BY <3>3, <4>1
    <3>5. frame.view.status \in Terminal
        BY <2>1, <3>2, <3>3 DEF EndsWithOutcome, Readers
    <3>6. revived \/ frame.view.status = job.status
        BY <2>1, <3>2, <3>5 DEF OutcomeTold, Truthful, Readers
    <3> QED BY <2>3, <3>4, <3>6
  <2>7. CASE AwaitReceipt \/ Poll \/ PollAgain
    <3>1. buyer' = Told(View) => job.status # "completed"
        BY <2>3 DEF View
    <3>2. ASSUME NEW v, buyer' = [buyer EXCEPT !.view = v, !.pc = "receipt"] PROVE FALSE
        BY <1>1, <2>1, <3>2 DEF TypeOK
    <3>3. ASSUME NEW v, buyer' = [buyer EXCEPT !.view = v, !.pc = @] PROVE FALSE
        BY <1>1, <2>1, <3>3 DEF TypeOK
    <3> QED BY <2>4, <2>7, <3>1, <3>2, <3>3 DEF AwaitReceipt, Poll, PollAgain
  <2>8. CASE GiveUpReceipt
    <3>1. buyer' = Told(buyer.view) /\ buyer.pc = "receipt" /\ buyer.kind = "cli"
        BY <2>8 DEF GiveUpReceipt
    <3> QED BY <2>1, <2>3, <3>1 DEF OutcomeTold
  <2>9. CASE PollTimeout
      BY <1>1, <2>1, <2>9 DEF PollTimeout, TypeOK
  <2>10. ~(\/ \E p \in Prices : Quote(p)
           \/ QuoteFails \/ Decline \/ Pay \/ Sell \/ PayRefused \/ Settle)
      BY <1>1 DEF Quote, QuoteFails, Decline, Pay, Sell, PayRefused, Settle
  <2>11. ~(\/ Accepted \/ Cancel \/ Receipts \/ Page \/ Watch
           \/ \E t \in Reports : FinishOk(t) \/ FinishFailed(t))
      BY <2>2 DEF Accepted, Cancel, Receipts, Recheck, Publish, Page, Load, Subscribe, Cleanup,
         PageFrame, Reconnect, Refetch, Watch, FinishOk, FinishFailed
  <2> QED BY <1>1, <2>2, <2>5, <2>6, <2>7, <2>8, <2>9, <2>10, <2>11
      DEF Next, Buying, Broker, Watching, vars
<1>2. IInv /\ [Next]_vars =>
        [buyer.pc \in {"watching", "receipt"} /\ buyer'.code = "fail"
           => job.status # "completed" \/ revived \/ restarts' > 0]_vars
    BY <1>1
<1> QED BY <1>2, PurchaseInvariant, PTL DEF FailureIsReal, Spec
=============================================================================
