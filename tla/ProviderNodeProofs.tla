------------------------- MODULE ProviderNodeProofs -------------------------
(***************************************************************************)
(* Proofs about ProviderNode, for any number of jobs, runs, messages and   *)
(* faults, and any capacity; about NodeConfig, the node's files; and about *)
(* Doctor, what its operator is told.                                      *)
(***************************************************************************)
EXTENDS ProviderNode, NodeConfig, Doctor, SequenceTheorems, FunctionTheorems,
        FiniteSetTheorems, WellFoundedInduction, TLAPS

Run == [pc: {"none", "agent", "posting", "over"}, job: Jobs,
        agent: {"none", "alive", "text", "failed"},
        killed: BOOLEAN, told: SUBSET {"result", "error"}]
Message == [type: {"dispatch", "cancel"}, job: Jobs]
Used == {r \in Runs : run[r].pc # "none"}
Waiting == {i \in DOMAIN inbox : inbox[i].type = "dispatch"}

\* A run whose process group has neither ended nor been killed.
Alive(r) == run[r].agent = "alive" /\ ~run[r].killed

\* Where a run is goes with what its agent does and with what it has told.
Told ==
    \A r \in Runs :
        /\ run[r].agent = "alive" => run[r].pc = "agent"
        /\ run[r].pc = "agent" => run[r].told = {}
        /\ run[r].pc = "posting" =>
              run[r].told = {"result"} /\ run[r].agent = "text" /\ ~run[r].killed

\* A run has the entry of its job, and an agent its directory, unless another run of
\* the job came in between.
Entered == \A r \in Live : running[run[r].job] = r \/ run[r].job \in shadowed
Housed == \A r \in Runs : run[r].pc = "agent" => run[r].job \in dirs \cup shadowed \/ swept

\* Runs are numbered as they start, so that no run takes the number of another.
Numbered == \E n \in 0..MaxRuns : Used = 1..n

\* How far the command got, and what it has up by then.
Phased ==
    /\ phase \in {"probing", "serving"} => ~local /\ tunnel = "none"
    /\ tunnel = "starting" => phase \in {"tunnel", "signalled"}
    /\ phase \notin {"online", "exited", "crashed", "signalled"} => Used = {}
    /\ connected => phase = "online"
    /\ phase \in {"failed", "exited"} => ~local /\ tunnel \in {"none", "gone"}
    /\ phase = "exited" => \A r \in Runs : Alive(r) => run[r].job \in shadowed

\* The broker counts no fewer jobs than the node has or will get, and so does a beat
\* that arrives while nothing has slipped.
Counted ==
    ~slipped => /\ Due <= active /\ active <= Capacity
                /\ beat # NoBeat => beat <= Capacity

\* TypeOK, in the part that is about the runs and that about the rest.
RunTypes ==
    /\ run \in [Runs -> Run] /\ running \in [Jobs -> Runs \cup {0}]
    /\ \A j \in Jobs : running[j] # 0 =>
            run[running[j]].job = j /\ run[running[j]].pc \in {"agent", "posting"}
    /\ dirs \subseteq Jobs /\ shadowed \subseteq Jobs /\ unledgered \subseteq Runs
RestTypes ==
    /\ phase \in Phases /\ local \in BOOLEAN /\ connected \in BOOLEAN
    /\ swept \in BOOLEAN /\ slipped \in BOOLEAN
    /\ tunnel \in {"none", "starting", "up", "gone"} /\ out \subseteq Jobs
    /\ inbox \in Seq(Message) /\ Len(inbox) <= MaxInbox
    /\ active \in Nat /\ beat \in 0..NoBeat /\ faults \in 0..MaxFaults

Types == RunTypes /\ RestTypes

\* What the life of the runs keeps, and all of it.
Kept == Told /\ Entered /\ Housed /\ Numbered /\ OneOutcome
IInv == Types /\ Kept /\ Phased /\ Counted

\* Types is the types of the runs and those of the rest.
LEMMA TypeParts ==
    (Types <=> RunTypes /\ RestTypes) /\ (Types' <=> RunTypes' /\ RestTypes')
BY DEF Types

-----------------------------------------------------------------------------
(* The sizes the broker's count is about.                                  *)

\* The runs under way, and the dispatches on their way, are finitely many.
LEMMA Sizes ==
    ASSUME Types
    PROVE  /\ IsFiniteSet(Live) /\ Live \subseteq Runs /\ Cardinality(Live) \in Nat
           /\ IsFiniteSet(Waiting) /\ Cardinality(Waiting) \in Nat
           /\ Cardinality(Live) <= MaxRuns /\ Due = Cardinality(Live) + Cardinality(Waiting)
<1>1. IsFiniteSet(Runs) /\ Cardinality(Runs) = MaxRuns
    BY NodeAssumption, FS_Interval DEF Runs
<1>2. Live \subseteq Runs
    BY DEF Live
<1>3. IsFiniteSet(Live) /\ Cardinality(Live) <= MaxRuns
    BY <1>1, <1>2, FS_Subset
<1>4. inbox \in Seq(Message)
    BY TypeParts DEF RestTypes
<1>5. DOMAIN inbox = 1..Len(inbox) /\ Len(inbox) \in Nat
    BY <1>4, LenProperties
<1>6. IsFiniteSet(DOMAIN inbox)
    BY <1>5, FS_Interval
<1>7. IsFiniteSet(Waiting)
    BY <1>6, FS_Subset DEF Waiting
<1> QED BY <1>2, <1>3, <1>7, FS_CardinalityType DEF Due, Waiting

\* Every entry is a run under way, its own.
LEMMA EntriesAreLive ==
    ASSUME Types
    PROVE  Cardinality(Entries) \in Nat /\ Cardinality(Entries) <= Cardinality(Live)
<1> DEFINE f == [j \in Entries |-> running[j]]
<1>1. RunTypes
    BY TypeParts
<1>2. \A j \in Entries : running[j] \in Live /\ run[running[j]].job = j
    BY <1>1 DEF RunTypes, Entries, Live
<1>3. f \in Injection(Entries, Live)
    BY <1>2 DEF Injection, IsInjective
<1> HIDE DEF f
<1>4. IsFiniteSet(Entries) /\ Cardinality(Entries) <= Cardinality(Live)
    BY <1>3, Sizes, FS_Injection
<1> QED BY <1>4, FS_CardinalityType

\* The next run has a number of its own.
LEMMA NextNumber ==
    ASSUME Numbered, NEW r, r = Cardinality(Used) + 1, r \in Runs
    PROVE  run[r].pc = "none" /\ Used \cup {r} = 1..r
<1>1. PICK n \in 0..MaxRuns : Used = 1..n
    BY DEF Numbered
<1>2. Cardinality(1..n) = n
    BY <1>1, NodeAssumption, FS_Interval
<1>3. r = n + 1 /\ n \in Nat
    BY <1>1, <1>2, NodeAssumption
<1>4. r \notin Used
    BY <1>1, <1>3
<1>5. run[r].pc = "none"
    BY <1>4 DEF Used
<1>6. (1..n) \cup {n + 1} = 1..(n + 1)
    BY <1>3
<1> QED BY <1>1, <1>3, <1>5, <1>6

\* A dispatch that leaves adds one to what is on its way, a cancel nothing.
LEMMA WaitingGrows ==
    ASSUME Types, NEW type \in {"dispatch", "cancel"}, NEW j \in Jobs, Send(type, j)
    PROVE  /\ inbox' \in Seq(Message) /\ Len(inbox') = Len(inbox) + 1
           /\ Cardinality(Waiting') = Cardinality(Waiting) + IF type = "dispatch" THEN 1 ELSE 0
<1> DEFINE m == [type |-> type, job |-> j]
           n == Len(inbox) + 1
<1>1. inbox \in Seq(Message) /\ m \in Message
    BY TypeParts DEF RestTypes, Message
<1>2. Len(inbox) \in Nat /\ DOMAIN inbox = 1..Len(inbox)
    BY <1>1, LenProperties
<1>3. /\ inbox' \in Seq(Message) /\ Len(inbox') = n /\ DOMAIN inbox' = 1..n
      /\ inbox'[n] = m /\ \A i \in DOMAIN inbox : inbox'[i] = inbox[i]
    BY <1>1, <1>2, AppendProperties, LenProperties DEF Send
<1>4. Waiting' = IF type = "dispatch" THEN Waiting \cup {n} ELSE Waiting
    BY <1>2, <1>3 DEF Waiting
<1>5. n \notin Waiting
    BY <1>2 DEF Waiting
<1>6. IsFiniteSet(Waiting) /\ Cardinality(Waiting) \in Nat
    BY Sizes
<1>7. Cardinality(Waiting \cup {n}) = Cardinality(Waiting) + 1
    BY <1>5, <1>6, FS_AddElement
<1> QED BY <1>3, <1>4, <1>6, <1>7

\* A dispatch that comes in was one of those.
LEMMA WaitingShrinks ==
    ASSUME Types, inbox # <<>>, inbox' = Tail(inbox)
    PROVE  /\ inbox' \in Seq(Message) /\ Len(inbox') <= MaxInbox /\ Head(inbox) \in Message
           /\ Cardinality(Waiting') =
                 Cardinality(Waiting) - IF Head(inbox).type = "dispatch" THEN 1 ELSE 0
<1> DEFINE f == [i \in Waiting' |-> i + 1]
<1>1. inbox \in Seq(Message) /\ Len(inbox) <= MaxInbox
    BY TypeParts DEF RestTypes
<1>2. /\ Head(inbox) \in Message /\ Head(inbox) = inbox[1]
      /\ Tail(inbox) \in Seq(Message) /\ Len(Tail(inbox)) = Len(inbox) - 1
      /\ \A i \in 1..Len(Tail(inbox)) : Tail(inbox)[i] = inbox[i + 1]
    BY <1>1, HeadTailProperties, EmptySeq
<1>3. /\ Len(inbox) \in Nat \ {0} /\ DOMAIN inbox = 1..Len(inbox)
      /\ DOMAIN Tail(inbox) = 1..(Len(inbox) - 1)
    BY <1>1, <1>2, LenProperties, EmptySeq
<1>4. /\ Waiting' \subseteq Nat
      /\ \A i \in Waiting' : i + 1 \in Waiting \ {1}
      /\ \A k \in Waiting \ {1} : k - 1 \in Waiting'
    BY <1>2, <1>3 DEF Waiting
<1>5. f \in Bijection(Waiting', Waiting \ {1})
  <2>1. f \in [Waiting' -> Waiting \ {1}]
      BY <1>4
  <2>2. \A i, k \in Waiting' : f[i] = f[k] => i = k
      BY <1>4
  <2>3. \A k \in Waiting \ {1} : \E i \in Waiting' : f[i] = k
    <3>1. TAKE k \in Waiting \ {1}
    <3>2. k \in Nat
        BY <1>3 DEF Waiting
    <3>3. f[k - 1] = k
        BY <1>4, <3>2
    <3> QED BY <1>4, <3>3
  <2> HIDE DEF f
  <2> QED BY <2>1, <2>2, <2>3 DEF Bijection, Injection, Surjection, IsInjective
<1>6. IsFiniteSet(Waiting) /\ Cardinality(Waiting) \in Nat
    BY Sizes
<1>7. IsFiniteSet(Waiting \ {1}) /\ Cardinality(Waiting \ {1}) =
        Cardinality(Waiting) - IF 1 \in Waiting THEN 1 ELSE 0
    BY <1>6, FS_RemoveElement
<1>8. 1 \in Waiting <=> Head(inbox).type = "dispatch"
    BY <1>2, <1>3 DEF Waiting
<1>9. Cardinality(Waiting') = Cardinality(Waiting \ {1})
  <2> HIDE DEF f
  <2>1. ExistsBijection(Waiting', Waiting \ {1})
      BY <1>5 DEF ExistsBijection
  <2>2. ExistsBijection(Waiting \ {1}, Waiting')
      BY <2>1, Fun_ExistsBijSymmetric
  <2> QED BY <1>7, <2>2, FS_Bijection
<1>10. Len(inbox') <= MaxInbox
    BY <1>1, <1>2, <1>3, NodeAssumption
<1> HIDE DEF f
<1> QED BY <1>2, <1>7, <1>8, <1>9, <1>10

-----------------------------------------------------------------------------
(* What becomes of the runs.                                               *)

\* A run that stays where it is: its agent may end or be killed, a sweep may take
\* directories away.
LEMMA RunsStay ==
    ASSUME IInv, run' \in [Runs -> Run], UNCHANGED <<running, shadowed, unledgered>>,
           \A r \in Runs : /\ run'[r].pc = run[r].pc /\ run'[r].job = run[r].job
                           /\ run'[r].told = run[r].told
                           /\ run[r].pc # "agent" => run'[r] = run[r]
                           /\ run'[r].agent = "alive" => run[r].agent = "alive",
           dirs' \subseteq Jobs, dirs' = dirs \/ swept', swept => swept'
    PROVE  RunTypes' /\ Kept' /\ Live' = Live /\ Used' = Used
<1>1. RunTypes /\ Kept
    BY TypeParts DEF IInv
<1>2. RunTypes'
    BY <1>1 DEF RunTypes
<1>3. Live' = Live /\ Used' = Used
    BY DEF Live, Used
<1>4. Told'
    BY <1>1 DEF Kept, Told
<1>5. Entered'
    BY <1>1, <1>3 DEF Kept, Entered, Live
<1>6. Housed'
    BY <1>1 DEF Kept, Housed
<1>7. Numbered'
    BY <1>1, <1>3 DEF Kept, Numbered
<1>8. OneOutcome'
    BY <1>1 DEF Kept, OneOutcome
<1> QED BY <1>2, <1>3, <1>4, <1>5, <1>6, <1>7, <1>8 DEF Kept

\* The same where no run is touched.
LEMMA RunsUntouched ==
    ASSUME IInv, UNCHANGED runs, shadowed' = shadowed, swept' = swept
    PROVE  RunTypes' /\ Kept' /\ Live' = Live /\ Used' = Used
<1>1. RunTypes
    BY TypeParts DEF IInv
<1>2. run' = run /\ UNCHANGED <<running, shadowed, unledgered, dirs>>
    BY DEF runs
<1> QED BY <1>1, <1>2, RunsStay DEF RunTypes

\* The same where runs are aborted.
LEMMA RunsAborted ==
    ASSUME IInv, NEW rs, run' = Abort(rs), UNCHANGED <<running, dirs, unledgered, shadowed, swept>>
    PROVE  /\ RunTypes' /\ Kept' /\ Live' = Live /\ Used' = Used
           /\ \A r \in Runs : /\ r \in rs /\ run[r].pc = "agent" => run'[r].killed
                              /\ r \notin rs => run'[r] = run[r]
<1>1. RunTypes
    BY TypeParts DEF IInv
<1>2. \A r \in Runs : run[r] \in Run
    BY <1>1 DEF RunTypes
<1>3. \A r \in Runs : run'[r] = IF r \in rs /\ run[r].pc = "agent"
                                  THEN [run[r] EXCEPT !.killed = TRUE] ELSE run[r]
    BY DEF Abort
<1>4. \A r \in Runs : /\ run'[r] \in Run
                      /\ run'[r].pc = run[r].pc /\ run'[r].job = run[r].job
                      /\ run'[r].told = run[r].told /\ run'[r].agent = run[r].agent
                      /\ run[r].pc # "agent" => run'[r] = run[r]
                      /\ r \in rs /\ run[r].pc = "agent" => run'[r].killed
                      /\ r \notin rs => run'[r] = run[r]
  <2> TAKE r \in Runs
  <2>1. CASE r \in rs /\ run[r].pc = "agent"
    <3>1. run'[r] = [run[r] EXCEPT !.killed = TRUE]
        BY <1>3, <2>1
    <3> QED BY <1>2, <2>1, <3>1 DEF Run
  <2>2. CASE ~(r \in rs /\ run[r].pc = "agent")
    <3>1. run'[r] = run[r]
        BY <1>3, <2>2
    <3> QED BY <1>2, <2>2, <3>1
  <2> QED BY <2>1, <2>2
<1>5. run' \in [Runs -> Run]
    BY <1>4 DEF Abort
<1>6. RunTypes' /\ Kept' /\ Live' = Live /\ Used' = Used
    BY <1>1, <1>4, <1>5, RunsStay DEF RunTypes
<1> QED BY <1>4, <1>6

\* A run that ends: it takes the entry of its job with it, which is its own or
\* that of another run by which it was shadowed.
LEMMA RunEnds ==
    ASSUME IInv, NEW r \in Live, NEW e \in Run, e.pc = "over", e.job = run[r].job,
           e.agent # "alive", Finally(r, e), UNCHANGED <<shadowed, swept>>,
           unledgered \subseteq unledgered', unledgered' \subseteq Runs,
           \/ r \in unledgered'
           \/ e.told = {"error"}
           \/ e.told = {"result"} /\ e.agent = "text" /\ ~e.killed
    PROVE  /\ RunTypes' /\ Kept' /\ Used' = Used
           /\ Cardinality(Live) > 0 /\ Cardinality(Live') = Cardinality(Live) - 1
<1>1. RunTypes /\ Kept /\ r \in Runs
    BY TypeParts DEF IInv, Live
<1>2. /\ run' \in [Runs -> Run] /\ run'[r] = e
      /\ \A s \in Runs \ {r} : run'[s] = run[s]
    BY <1>1 DEF RunTypes, Finally
<1>3. e.job \in Jobs
    BY DEF Run
<1>4. /\ running' \in [Jobs -> Runs \cup {0}] /\ running'[e.job] = 0
      /\ \A j \in Jobs \ {e.job} : running'[j] = running[j]
    BY <1>1, <1>3 DEF RunTypes, Finally
<1>5. dirs' = dirs \ {e.job}
    BY DEF Finally
<1>6. Live' = Live \ {r} /\ Used' = Used
    BY <1>1, <1>2 DEF Live, Used
<1>7. RunTypes'
  <2>1. ASSUME NEW j \in Jobs, running'[j] # 0
        PROVE  run'[running'[j]].job = j /\ run'[running'[j]].pc \in {"agent", "posting"}
    <3>1. j # e.job /\ running'[j] = running[j]
        BY <1>4, <2>1
    <3>2. running[j] # r /\ running[j] \in Runs
        BY <1>1, <2>1, <3>1 DEF RunTypes
    <3> QED BY <1>1, <1>2, <2>1, <3>1, <3>2 DEF RunTypes
  <2> QED BY <1>1, <1>2, <1>4, <1>5, <2>1 DEF RunTypes
<1>8. Told'
    BY <1>1, <1>2 DEF Kept, Told
<1>9. ASSUME NEW s \in Live, s # r, run[s].job = e.job PROVE e.job \in shadowed
  <2>1. s \in Runs /\ (running[run[s].job] = s \/ run[s].job \in shadowed)
      BY <1>1, <1>9 DEF Kept, Entered, Live
  <2>2. running[run[r].job] = r \/ run[r].job \in shadowed
      BY <1>1 DEF Kept, Entered
  <2> QED BY <1>9, <2>1, <2>2
<1>10. Entered'
  <2>1. ASSUME NEW s \in Live' PROVE running'[run'[s].job] = s \/ run'[s].job \in shadowed'
    <3>1. s \in Live /\ s # r /\ s \in Runs /\ run'[s] = run[s]
        BY <1>2, <1>6, <2>1 DEF Live
    <3>2. run[s].job \in Jobs
        BY <1>1, <3>1 DEF RunTypes, Run
    <3>3. running[run[s].job] = s \/ run[s].job \in shadowed
        BY <1>1, <3>1 DEF Kept, Entered
    <3> QED BY <1>4, <1>9, <3>1, <3>2, <3>3
  <2> QED BY <2>1 DEF Entered
<1>11. Housed'
  <2>1. ASSUME NEW s \in Runs, run'[s].pc = "agent"
        PROVE  run'[s].job \in dirs' \cup shadowed' \/ swept'
    <3>1. s # r /\ run'[s] = run[s]
        BY <1>2, <2>1
    <3>2. s \in Live
        BY <2>1, <3>1 DEF Live
    <3>3. run[s].job \in dirs \cup shadowed \/ swept
        BY <1>1, <2>1, <3>1 DEF Kept, Housed
    <3> QED BY <1>5, <1>9, <3>1, <3>2, <3>3
  <2> QED BY <2>1 DEF Housed
<1>12. Numbered'
    BY <1>1, <1>6 DEF Kept, Numbered
<1>13. OneOutcome'
    BY <1>1, <1>2 DEF Kept, OneOutcome
<1>14. Cardinality(Live) > 0 /\ Cardinality(Live') = Cardinality(Live) - 1
  <2>1. Types
      BY DEF IInv
  <2>2. IsFiniteSet(Live) /\ Cardinality(Live) \in Nat
      BY <2>1, Sizes
  <2>3. Cardinality(Live) # 0
      BY <2>2, FS_EmptySet
  <2>4. Cardinality(Live \ {r}) = Cardinality(Live) - 1
      BY <2>2, FS_RemoveElement
  <2> QED BY <1>6, <2>2, <2>3, <2>4
<1> QED BY <1>6, <1>7, <1>8, <1>10, <1>11, <1>12, <1>13, <1>14 DEF Kept

\* What a dispatch makes of the history: a job that has a run already is shadowed.
Shadows(j) == shadowed' = IF \E s \in Live : run[s].job = j THEN shadowed \cup {j} ELSE shadowed

\* A run that starts has its entry and its directory.
LEMMA RunStarts ==
    ASSUME IInv, NEW r \in Runs, r = Cardinality(Used) + 1, NEW e \in Run,
           e.pc = "agent", e.told = {}, run' = [run EXCEPT ![r] = e],
           running' = [running EXCEPT ![e.job] = r], dirs' = dirs \cup {e.job},
           Shadows(e.job), UNCHANGED <<unledgered, swept>>
    PROVE  RunTypes' /\ Kept' /\ Cardinality(Live') = Cardinality(Live) + 1
<1>1. RunTypes /\ Kept /\ e.job \in Jobs
    BY TypeParts DEF IInv, Run
<1>2. run[r].pc = "none" /\ Used \cup {r} = 1..r
    BY <1>1, NextNumber DEF Kept
<1>3. /\ run' \in [Runs -> Run] /\ run'[r] = e
      /\ \A s \in Runs \ {r} : run'[s] = run[s]
    BY <1>1 DEF RunTypes
<1>4. /\ running' \in [Jobs -> Runs \cup {0}] /\ running'[e.job] = r
      /\ \A j \in Jobs \ {e.job} : running'[j] = running[j]
    BY <1>1 DEF RunTypes
<1>5. Live' = Live \cup {r} /\ Used' = Used \cup {r} /\ r \notin Live
    BY <1>2, <1>3 DEF Live, Used
<1>6. RunTypes'
  <2>1. ASSUME NEW j \in Jobs, running'[j] # 0
        PROVE  run'[running'[j]].job = j /\ run'[running'[j]].pc \in {"agent", "posting"}
    <3>1. CASE j = e.job
        BY <1>3, <1>4, <3>1
    <3>2. CASE j # e.job
      <4>1. running'[j] = running[j] /\ running[j] \in Runs
          BY <1>1, <1>4, <2>1, <3>2 DEF RunTypes
      <4>2. running[j] # r
          BY <1>1, <1>2, <2>1, <4>1 DEF RunTypes
      <4> QED BY <1>1, <1>3, <2>1, <4>1, <4>2 DEF RunTypes
    <3> QED BY <3>1, <3>2
  <2>2. dirs' \subseteq Jobs /\ shadowed' \subseteq Jobs
      BY <1>1 DEF RunTypes, Shadows
  <2> QED BY <1>1, <1>3, <1>4, <2>1, <2>2 DEF RunTypes
<1>7. Told'
    BY <1>1, <1>3 DEF Kept, Told
<1>8. shadowed \subseteq shadowed' /\ (\A s \in Live : run[s].job = e.job => e.job \in shadowed')
    BY DEF Shadows
<1>9. Entered'
  <2>1. ASSUME NEW s \in Live' PROVE running'[run'[s].job] = s \/ run'[s].job \in shadowed'
    <3>1. CASE s = r
        BY <1>3, <1>4, <3>1
    <3>2. CASE s # r
      <4>1. s \in Live /\ s \in Runs /\ run'[s] = run[s]
          BY <1>3, <1>5, <2>1, <3>2 DEF Live
      <4>2. run[s].job \in Jobs /\ (running[run[s].job] = s \/ run[s].job \in shadowed)
          BY <1>1, <4>1 DEF RunTypes, Run, Kept, Entered
      <4> QED BY <1>4, <1>8, <4>1, <4>2
    <3> QED BY <3>1, <3>2
  <2> QED BY <2>1 DEF Entered
<1>10. Housed'
    BY <1>1, <1>3, <1>8 DEF Kept, Housed
<1>11. Numbered'
  <2>1. r \in 0..MaxRuns
      BY NodeAssumption DEF Runs
  <2> QED BY <1>2, <1>5, <2>1 DEF Numbered
<1>12. OneOutcome'
    BY <1>1, <1>3 DEF Kept, OneOutcome
<1>13. Cardinality(Live') = Cardinality(Live) + 1
  <2>1. IsFiniteSet(Live)
      BY Sizes DEF IInv
  <2> QED BY <1>5, <2>1, FS_AddElement
<1> QED BY <1>6, <1>7, <1>9, <1>10, <1>11, <1>12, <1>13 DEF Kept

\* A run that never gets to its agent ends with an error. It may take the entry
\* and the directory of another run of its job along, which it shadows then.
LEMMA RunRefused ==
    ASSUME IInv, NEW r \in Runs, r = Cardinality(Used) + 1, NEW e \in Run,
           e.pc = "over", e.agent = "none", e.told = {"error"}, run' = [run EXCEPT ![r] = e],
           \/ running' = [running EXCEPT ![e.job] = 0] /\ dirs' = dirs \ {e.job}
           \/ UNCHANGED <<running, dirs>>,
           Shadows(e.job), UNCHANGED <<unledgered, swept>>
    PROVE  RunTypes' /\ Kept' /\ Live' = Live
<1>1. RunTypes /\ Kept /\ e.job \in Jobs
    BY TypeParts DEF IInv, Run
<1>2. run[r].pc = "none" /\ Used \cup {r} = 1..r
    BY <1>1, NextNumber DEF Kept
<1>3. /\ run' \in [Runs -> Run] /\ run'[r] = e
      /\ \A s \in Runs \ {r} : run'[s] = run[s]
    BY <1>1 DEF RunTypes
<1>4. /\ running' \in [Jobs -> Runs \cup {0}] /\ running'[e.job] \in {0, running[e.job]}
      /\ \A j \in Jobs \ {e.job} : running'[j] = running[j]
      /\ dirs \ {e.job} \subseteq dirs' /\ dirs' \subseteq dirs
    BY <1>1 DEF RunTypes
<1>5. Live' = Live /\ Used' = Used \cup {r} /\ r \notin Live
    BY <1>2, <1>3 DEF Live, Used
<1>6. RunTypes'
  <2>1. ASSUME NEW j \in Jobs, running'[j] # 0
        PROVE  run'[running'[j]].job = j /\ run'[running'[j]].pc \in {"agent", "posting"}
    <3>1. running'[j] = running[j] /\ running[j] \in Runs
        BY <1>1, <1>4, <2>1 DEF RunTypes
    <3>2. running[j] # r
        BY <1>1, <1>2, <2>1, <3>1 DEF RunTypes
    <3> QED BY <1>1, <1>3, <2>1, <3>1, <3>2 DEF RunTypes
  <2>2. dirs' \subseteq Jobs /\ shadowed' \subseteq Jobs
      BY <1>1, <1>4 DEF RunTypes, Shadows
  <2> QED BY <1>1, <1>3, <1>4, <2>1, <2>2 DEF RunTypes
<1>7. Told'
    BY <1>1, <1>3 DEF Kept, Told
<1>8. shadowed \subseteq shadowed' /\ (\A s \in Live : run[s].job = e.job => e.job \in shadowed')
    BY DEF Shadows
<1>9. ASSUME NEW s \in Live
      PROVE  s \in Runs /\ run'[s] = run[s] /\ run[s].job \in Jobs
    BY <1>1, <1>3, <1>5 DEF Live, RunTypes, Run
<1>10. Entered'
  <2>1. ASSUME NEW s \in Live' PROVE running'[run'[s].job] = s \/ run'[s].job \in shadowed'
    <3>1. s \in Live
        BY <1>5, <2>1
    <3>2. running[run[s].job] = s \/ run[s].job \in shadowed
        BY <1>1, <3>1 DEF Kept, Entered
    <3> QED BY <1>4, <1>8, <1>9, <3>1, <3>2
  <2> QED BY <2>1 DEF Entered
<1>11. Housed'
  <2>1. ASSUME NEW s \in Runs, run'[s].pc = "agent"
        PROVE  run'[s].job \in dirs' \cup shadowed' \/ swept'
    <3>1. s \in Live /\ run'[s] = run[s]
        BY <1>3, <2>1 DEF Live
    <3>2. run[s].job \in dirs \cup shadowed \/ swept
        BY <1>1, <2>1, <3>1 DEF Kept, Housed
    <3> QED BY <1>4, <1>8, <3>1, <3>2
  <2> QED BY <2>1 DEF Housed
<1>12. Numbered'
  <2>1. r \in 0..MaxRuns
      BY NodeAssumption DEF Runs
  <2> QED BY <1>2, <1>5, <2>1 DEF Numbered
<1>13. OneOutcome'
    BY <1>1, <1>3 DEF Kept, OneOutcome
<1> QED BY <1>5, <1>6, <1>7, <1>10, <1>11, <1>12, <1>13 DEF Kept

-----------------------------------------------------------------------------
(* The steps.                                                              *)

\* startCommand's steps leave the runs and the broker's count alone.
LEMMA StartStep == ASSUME IInv, Start PROVE IInv'
<1>1. RunTypes /\ RestTypes /\ Phased /\ Counted
    BY TypeParts DEF IInv
<1>2. UNCHANGED <<runs, connected, inbox, broker, beat, shadowed, swept>> /\ faults' \in 0..MaxFaults
    BY <1>1, NodeAssumption
    DEF RestTypes, Start, Probe, Serve, RaiseTunnel, TunnelSettles, Register, TunnelDies, Idle, Fault
<1>3. RunTypes' /\ Kept' /\ Live' = Live /\ Used' = Used
    BY <1>2, RunsUntouched
<1>4. RestTypes'
  <2>1. phase' \in Phases /\ local' \in BOOLEAN /\ tunnel' \in {"none", "starting", "up", "gone"}
      BY <1>1 DEF RestTypes, Phases, Start, Probe, Serve, RaiseTunnel, TunnelSettles, Register, TunnelDies
  <2> QED BY <1>1, <1>2, <2>1 DEF RestTypes, broker
<1>5. Counted'
  <2>1. Due' = Due
      BY <1>2, <1>3 DEF Due
  <2> QED BY <1>1, <1>2, <2>1 DEF Counted, broker
<1>6. Phased'
  <2>1. connected' = connected /\ shadowed' = shadowed /\ run' = run
      BY <1>2 DEF runs
  <2>2. CASE Probe \/ Serve \/ RaiseTunnel
      BY <1>1, <1>3, <2>1, <2>2 DEF Phased, RestTypes, Probe, Serve, RaiseTunnel, Alive
  <2>3. CASE TunnelSettles
      BY <1>1, <1>3, <2>1, <2>3 DEF Phased, RestTypes, TunnelSettles, Alive
  <2>4. CASE Register
      BY <1>1, <1>3, <2>1, <2>4 DEF Phased, RestTypes, Register, Alive
  <2>5. CASE TunnelDies
      BY <1>1, <1>3, <2>1, <2>5 DEF Phased, RestTypes, TunnelDies, Alive
  <2> QED BY <2>2, <2>3, <2>4, <2>5 DEF Start
<1> QED BY <1>3, <1>4, <1>5, <1>6, TypeParts DEF IInv

\* What leaves the command where it is keeps what it has up; once it has ended, no
\* agent comes to life.
LEMMA PhaseStays ==
    ASSUME Phased, UNCHANGED <<bringUp, connected>>,
           \/ phase = "online"
           \/ /\ Used' = Used /\ shadowed' = shadowed
              /\ \A r \in Runs : run'[r].agent = "alive" /\ ~run'[r].killed =>
                    run[r].agent = "alive" /\ ~run[r].killed /\ run'[r].job = run[r].job
    PROVE  Phased'
BY DEF Phased, bringUp, Alive

\* The broker's steps: a dispatch within the capacity adds one to both counts, a
\* beat puts its count in the place of the broker's.
LEMMA HubStep == ASSUME IInv, Hub PROVE IInv'
<1>1. Types /\ RunTypes /\ RestTypes /\ Phased /\ Counted
    BY TypeParts DEF IInv
<1>2. UNCHANGED <<bringUp, runs, connected, faults, shadowed, swept>>
    BY DEF Hub, Dispatch, Withdraw, BeatLeaves, BeatArrives
<1>3. RunTypes' /\ Kept' /\ Live' = Live /\ Used' = Used
    BY <1>2, RunsUntouched
<1>4. Phased'
    BY <1>1, <1>2, <1>3, PhaseStays DEF runs
<1>5. /\ Due = Cardinality(Live) + Cardinality(Waiting) /\ Due' = Cardinality(Live) + Cardinality(Waiting')
      /\ Cardinality(Live) \in Nat /\ Cardinality(Waiting) \in Nat /\ Cardinality(Live) <= MaxRuns
    BY <1>1, <1>3, Sizes DEF Due, Waiting
<1>6. ASSUME NEW j \in Jobs, Dispatch(j) PROVE RestTypes' /\ Counted'
  <2>1. /\ inbox' \in Seq(Message) /\ Len(inbox') = Len(inbox) + 1
        /\ Cardinality(Waiting') = Cardinality(Waiting) + 1
      BY <1>1, <1>6, WaitingGrows DEF Dispatch
  <2>2. /\ active < Capacity /\ Len(inbox) < MaxInbox
        /\ out' = out \cup {j} /\ active' = active + 1 /\ UNCHANGED <<slipped, beat>>
      BY <1>6 DEF Dispatch
  <2>3. Len(inbox) \in Nat
      BY <1>1, LenProperties DEF RestTypes
  <2>4. RestTypes'
      BY <1>1, <1>2, <2>1, <2>2, <2>3, NodeAssumption DEF RestTypes, bringUp
  <2>5. Counted'
    <3>1. active \in Nat
        BY <1>1 DEF RestTypes
    <3> QED BY <1>1, <1>5, <2>1, <2>2, <3>1, NodeAssumption DEF Counted
  <2> QED BY <2>4, <2>5
<1>7. ASSUME NEW j \in Jobs, Withdraw(j) PROVE RestTypes' /\ Counted'
  <2>1. out' = out \ {j} /\ active' = Fewer /\ slipped' = TRUE /\ beat' = beat
      BY <1>7 DEF Withdraw
  <2>2. Counted'
      BY <2>1 DEF Counted
  <2>3. inbox' \in Seq(Message) /\ Len(inbox') <= MaxInbox
    <3>1. CASE Len(inbox) < MaxInbox /\ Send("cancel", j)
      <4>1. inbox' \in Seq(Message) /\ Len(inbox') = Len(inbox) + 1
          BY <1>1, <3>1, WaitingGrows
      <4>2. Len(inbox) \in Nat
          BY <1>1, LenProperties DEF RestTypes
      <4> QED BY <3>1, <4>1, <4>2, NodeAssumption
    <3>2. CASE UNCHANGED inbox
        BY <1>1, <3>2 DEF RestTypes
    <3> QED BY <1>7, <3>1, <3>2 DEF Withdraw
  <2> QED BY <1>1, <1>2, <2>1, <2>2, <2>3 DEF RestTypes, bringUp, Fewer
<1>8. ASSUME BeatLeaves PROVE RestTypes' /\ Counted'
  <2>1. beat' = Cardinality(Entries) /\ UNCHANGED <<inbox, broker>>
      BY <1>8 DEF BeatLeaves
  <2>2. Cardinality(Entries) \in Nat /\ Cardinality(Entries) <= Cardinality(Live)
      BY <1>1, EntriesAreLive
  <2>3. beat' \in 0..NoBeat
      BY <1>5, <2>1, <2>2, NodeAssumption DEF NoBeat
  <2>4. RestTypes'
      BY <1>1, <1>2, <2>1, <2>3 DEF RestTypes, bringUp, broker
  <2>5. Due' = Due /\ UNCHANGED <<active, slipped>>
      BY <1>3, <2>1 DEF Due, broker
  <2>6. ~slipped => beat' <= Capacity
    <3>1. active \in Nat
        BY <1>1 DEF RestTypes
    <3> QED BY <1>1, <1>5, <2>1, <2>2, <3>1, NodeAssumption DEF Counted
  <2> QED BY <1>1, <2>4, <2>5, <2>6 DEF Counted
<1>9. ASSUME BeatArrives PROVE RestTypes' /\ Counted'
  <2>1. /\ beat # NoBeat /\ active' = beat /\ beat' = NoBeat /\ slipped' = (slipped \/ beat < Due)
        /\ UNCHANGED <<inbox, out>>
      BY <1>9 DEF BeatArrives
  <2>2. beat \in Nat /\ NoBeat \in 0..NoBeat
      BY <1>1, NodeAssumption DEF RestTypes, NoBeat
  <2>3. RestTypes'
      BY <1>1, <1>2, <2>1, <2>2 DEF RestTypes, bringUp
  <2>4. Due' = Due
      BY <1>3, <2>1 DEF Due
  <2>5. Counted'
    <3>1. SUFFICES ASSUME ~slipped' PROVE Due' <= active' /\ active' <= Capacity
        BY <2>1 DEF Counted
    <3>2. ~slipped /\ ~(beat < Due)
        BY <2>1, <3>1
    <3>3. Due \in Nat
        BY <1>5
    <3>4. beat <= Capacity
        BY <1>1, <2>1, <3>2 DEF Counted
    <3> QED BY <2>1, <2>2, <2>4, <3>2, <3>3, <3>4
  <2> QED BY <2>3, <2>5
<1>10. RestTypes' /\ Counted'
    BY <1>6, <1>7, <1>8, <1>9 DEF Hub
<1> QED BY <1>3, <1>4, <1>10, TypeParts DEF IInv

\* The row in the ledger: the run ends in time with one slot less, or it throws and
\* the second report takes a second slot.
LEMMA Rowed ==
    ASSUME IInv, NEW r \in Live, NEW x \in Run, Ledger(r, x), x.job = run[r].job,
           x.told = {"result"} /\ x.agent = "text" /\ ~x.killed, UNCHANGED <<shadowed, swept>>
    PROVE  /\ RunTypes' /\ Kept'
           /\ Cardinality(Live) > 0 /\ Cardinality(Live') = Cardinality(Live) - 1
           /\ out' \in SUBSET Jobs /\ active' \in Nat /\ slipped' \in BOOLEAN
           /\ faults' \in 0..MaxFaults /\ (slipped' \/ (active' = Fewer /\ ~slipped))
<1>1. RunTypes /\ RestTypes /\ r \in Runs
    BY TypeParts DEF IInv, Live
<1>2. CASE /\ Finally(r, [x EXCEPT !.pc = "over"]) /\ Heard(x.job)
           /\ UNCHANGED <<unledgered, faults>>
  <2> DEFINE e == [x EXCEPT !.pc = "over"]
  <2>1. /\ e \in Run /\ e.pc = "over" /\ e.job = run[r].job /\ e.agent = "text"
        /\ e.told = {"result"} /\ ~e.killed
      BY DEF Run
  <2>2. Finally(r, e)
      BY <1>2
  <2> HIDE DEF e
  <2>3. RunTypes' /\ Kept' /\ Cardinality(Live) > 0 /\ Cardinality(Live') = Cardinality(Live) - 1
      BY <1>1, <1>2, <2>1, <2>2, RunEnds DEF RunTypes
  <2> QED BY <1>1, <1>2, <2>3 DEF RestTypes, Heard, Fewer
<1>3. CASE /\ Fault /\ unledgered' = unledgered \cup {r}
           /\ Finally(r, [x EXCEPT !.pc = "over", !.told = @ \cup {"error"}])
           /\ out' = out \ {x.job} /\ slipped' = TRUE
           /\ active' = IF active < 2 THEN 0 ELSE active - 2
  <2> DEFINE e == [x EXCEPT !.pc = "over", !.told = x.told \cup {"error"}]
  <2>1. e \in Run /\ e.pc = "over" /\ e.job = run[r].job /\ e.agent = "text"
      BY DEF Run
  <2>2. Finally(r, e)
      BY <1>3
  <2> HIDE DEF e
  <2>3. unledgered' \subseteq Runs /\ unledgered \subseteq unledgered' /\ r \in unledgered'
      BY <1>1, <1>3 DEF RunTypes
  <2>4. RunTypes' /\ Kept' /\ Cardinality(Live) > 0 /\ Cardinality(Live') = Cardinality(Live) - 1
      BY <1>1, <2>1, <2>2, <2>3, RunEnds
  <2>5. faults' \in 0..MaxFaults
      BY <1>1, <1>3, NodeAssumption DEF RestTypes, Fault
  <2>6. active' \in Nat /\ out' \in SUBSET Jobs /\ slipped'
      BY <1>1, <1>3 DEF RestTypes
  <2> QED BY <1>3, <2>4, <2>5, <2>6
<1> QED BY <1>2, <1>3 DEF Ledger

\* One job less at the node, and one slot less in the broker's count.
LEMMA OneLess ==
    ASSUME IInv, Due' = Due - 1, beat' = beat, slipped' \/ (active' = Fewer /\ ~slipped)
    PROVE  Counted'
<1>1. Types /\ Counted /\ active \in Nat
    BY TypeParts DEF IInv, RestTypes
<1>2. Due \in Nat
    BY <1>1, Sizes
<1>3. SUFFICES ASSUME ~slipped'
               PROVE  Due' <= active' /\ active' <= Capacity /\ (beat # NoBeat => beat <= Capacity)
    BY DEF Counted
<1>4. active' = Fewer /\ Due <= active /\ active <= Capacity /\ (beat # NoBeat => beat <= Capacity)
    BY <1>1, <1>3 DEF Counted
<1> QED BY <1>1, <1>2, <1>4, NodeAssumption DEF Fewer

\* A run of an online node that ended with its report made.
LEMMA RunReported ==
    ASSUME IInv, phase = "online", UNCHANGED <<bringUp, connected, inbox, beat, swept>>,
           RunTypes', Kept', Cardinality(Live) > 0, Cardinality(Live') = Cardinality(Live) - 1,
           out' \in SUBSET Jobs, active' \in Nat, slipped' \in BOOLEAN, faults' \in 0..MaxFaults,
           slipped' \/ (active' = Fewer /\ ~slipped)
    PROVE  IInv'
<1>1. Types /\ RestTypes /\ Phased
    BY TypeParts DEF IInv
<1>2. Due' = Due - 1
  <2>1. Waiting' = Waiting
      BY DEF Waiting
  <2> QED BY <1>1, <2>1, Sizes DEF Due, Waiting
<1>3. Counted'
    BY <1>2, OneLess
<1>4. Phased'
    BY <1>1, PhaseStays
<1>5. RestTypes'
    BY <1>1 DEF RestTypes, bringUp
<1> QED BY <1>3, <1>4, <1>5, TypeParts DEF IInv

\* A run of an online node that is still under way.
LEMMA RunGoesOn ==
    ASSUME IInv, phase = "online", UNCHANGED <<bringUp, connected, inbox, broker, beat, swept>>,
           faults' = faults, RunTypes', Kept', Live' = Live
    PROVE  IInv'
<1>1. Types /\ RestTypes /\ Phased /\ Counted
    BY TypeParts DEF IInv
<1>2. Due' = Due
    BY DEF Due
<1>3. Counted'
    BY <1>1, <1>2 DEF Counted, broker
<1>4. Phased'
    BY <1>1, PhaseStays
<1>5. RestTypes'
    BY <1>1 DEF RestTypes, bringUp, broker
<1> QED BY <1>3, <1>4, <1>5, TypeParts DEF IInv

\* The close event: an agent that was killed failed, whatever it said before.
LEMMA ClosesStep == ASSUME IInv, NEW r \in Runs, Closes(r) PROVE IInv'
<1>1. Types /\ RunTypes /\ RestTypes /\ Kept
    BY TypeParts DEF IInv
<1>2. /\ phase = "online" /\ run[r].pc = "agent" /\ run[r].agent # "alive"
      /\ UNCHANGED <<bringUp, connected, inbox, beat, shadowed, swept>>
    BY DEF Closes
<1>3. r \in Live /\ run[r] \in Run /\ run[r].told = {}
    BY <1>1, <1>2 DEF Live, RunTypes, Kept, Told
<1>4. CASE Fails(r, run[r]) /\ UNCHANGED <<unledgered, faults>>
  <2> DEFINE e == [run[r] EXCEPT !.pc = "over", !.told = run[r].told \cup {"error"}]
  <2>1. e \in Run /\ e.pc = "over" /\ e.job = run[r].job /\ e.agent # "alive" /\ e.told = {"error"}
      BY <1>2, <1>3 DEF Run
  <2>2. Finally(r, e) /\ Heard(run[r].job)
      BY <1>4 DEF Fails
  <2> HIDE DEF e
  <2>3. RunTypes' /\ Kept' /\ Cardinality(Live) > 0 /\ Cardinality(Live') = Cardinality(Live) - 1
      BY <1>1, <1>2, <1>3, <1>4, <2>1, <2>2, RunEnds DEF RunTypes
  <2>4. /\ out' \in SUBSET Jobs /\ active' \in Nat /\ slipped' \in BOOLEAN
        /\ slipped' \/ (active' = Fewer /\ ~slipped)
      BY <1>1, <2>2 DEF RestTypes, Heard, Fewer
  <2> QED BY <1>1, <1>2, <1>4, <2>3, <2>4, RunReported DEF RestTypes
<1>5. CASE run[r].agent = "text" /\ ~run[r].killed /\ Delivers(r, run[r])
  <2> DEFINE x == [run[r] EXCEPT !.told = {"result"}]
  <2>1. /\ x \in Run /\ x.job = run[r].job /\ x.told = {"result"}
        /\ x.agent = "text" /\ ~x.killed
      BY <1>3, <1>5 DEF Run
  <2>2. CASE Ledger(r, x)
    <3> HIDE DEF x
    <3>1. /\ RunTypes' /\ Kept'
          /\ Cardinality(Live) > 0 /\ Cardinality(Live') = Cardinality(Live) - 1
          /\ out' \in SUBSET Jobs /\ active' \in Nat /\ slipped' \in BOOLEAN
          /\ faults' \in 0..MaxFaults /\ (slipped' \/ (active' = Fewer /\ ~slipped))
        BY <1>2, <1>3, <2>1, <2>2, Rowed
    <3> QED BY <1>2, <3>1, RunReported
  <2>3. CASE /\ run' = [run EXCEPT ![r] = [x EXCEPT !.pc = "posting", !.told = {"result"}]]
             /\ UNCHANGED <<running, dirs, unledgered, broker, faults>>
    <3> DEFINE e == [x EXCEPT !.pc = "posting", !.told = {"result"}]
    <3>1. /\ e \in Run /\ e.pc = "posting" /\ e.job = run[r].job /\ e.told = {"result"}
          /\ e.agent = "text" /\ ~e.killed
        BY <2>1 DEF Run
    <3>2. run' = [run EXCEPT ![r] = e]
        BY <2>3
    <3> HIDE DEF e, x
    <3>3. /\ run' \in [Runs -> Run] /\ run'[r] = e
          /\ \A s \in Runs \ {r} : run'[s] = run[s]
        BY <1>1, <3>1, <3>2 DEF RunTypes
    <3>4. Live' = Live /\ Used' = Used
        BY <1>2, <3>1, <3>3 DEF Live, Used
    <3>5. RunTypes'
      <4>1. \A s \in Runs : /\ run'[s].job = run[s].job
                            /\ run[s].pc \in {"agent", "posting"} => run'[s].pc \in {"agent", "posting"}
          BY <3>1, <3>3
      <4>2. UNCHANGED <<running, dirs, shadowed, unledgered>>
          BY <1>2, <2>3
      <4>3. \A j \in Jobs : running[j] # 0 => running[j] \in Runs
          BY <1>1 DEF RunTypes
      <4> QED BY <1>1, <3>3, <4>1, <4>2, <4>3 DEF RunTypes
    <3>6. Told'
        BY <1>1, <3>1, <3>3 DEF Kept, Told
    <3>7. Entered'
      <4>1. \A s \in Live : s \in Runs /\ run'[s].job = run[s].job
          BY <3>1, <3>3 DEF Live
      <4> QED BY <1>1, <1>2, <2>3, <3>4, <4>1 DEF Kept, Entered
    <3>8. Housed'
        BY <1>1, <1>2, <2>3, <3>1, <3>3 DEF Kept, Housed
    <3>9. Numbered' /\ OneOutcome'
        BY <1>1, <2>3, <3>1, <3>3, <3>4 DEF Kept, Numbered, OneOutcome
    <3>10. Kept'
        BY <3>6, <3>7, <3>8, <3>9 DEF Kept
    <3> QED BY <1>2, <2>3, <3>4, <3>5, <3>10, RunGoesOn
  <2>4. \/ Ledger(r, x)
        \/ /\ run' = [run EXCEPT ![r] = [x EXCEPT !.pc = "posting", !.told = {"result"}]]
           /\ UNCHANGED <<running, dirs, unledgered, broker, faults>>
    <3>1. CASE connected /\ Ledger(r, x)
        BY <3>1
    <3>2. CASE ~connected /\ run' = [run EXCEPT ![r] = [run[r] EXCEPT !.pc = "posting", !.told = {"result"}]]
               /\ UNCHANGED <<running, dirs, unledgered, broker, faults>>
      <4>1. [run[r] EXCEPT !.pc = "posting", !.told = {"result"}] =
                [x EXCEPT !.pc = "posting", !.told = {"result"}]
          BY <1>3 DEF Run
      <4> QED BY <3>2, <4>1
    <3> QED BY <1>5, <3>1, <3>2 DEF Delivers
  <2> QED BY <2>2, <2>3, <2>4
<1> QED BY <1>4, <1>5 DEF Closes

\* The POST is over, answered or given up.
LEMMA PostedStep == ASSUME IInv, NEW r \in Runs, Posted(r) PROVE IInv'
<1>1. RunTypes /\ Kept
    BY TypeParts DEF IInv
<1>2. /\ phase = "online" /\ run[r].pc = "posting" /\ Ledger(r, run[r])
      /\ UNCHANGED <<bringUp, connected, inbox, beat, shadowed, swept>>
    BY DEF Posted
<1>3. /\ r \in Live /\ run[r] \in Run /\ run[r].told = {"result"}
      /\ run[r].agent = "text" /\ ~run[r].killed
    BY <1>1, <1>2 DEF Live, RunTypes, Kept, Told
<1>4. /\ RunTypes' /\ Kept'
      /\ Cardinality(Live) > 0 /\ Cardinality(Live') = Cardinality(Live) - 1
      /\ out' \in SUBSET Jobs /\ active' \in Nat /\ slipped' \in BOOLEAN
      /\ faults' \in 0..MaxFaults /\ (slipped' \/ (active' = Fewer /\ ~slipped))
    BY <1>2, <1>3, Rowed
<1> QED BY <1>2, <1>4, RunReported

\* The node's own timer aborts the run it was set for.
LEMMA TimerStep == ASSUME IInv, NEW r \in Runs, TimerFires(r) PROVE IInv'
<1>1. /\ phase = "online" /\ run' = Abort({r})
      /\ UNCHANGED <<bringUp, running, dirs, unledgered, connected, inbox, broker, beat,
                     faults, shadowed, swept>>
    BY DEF TimerFires
<1>2. RunTypes' /\ Kept' /\ Live' = Live
    BY <1>1, RunsAborted
<1> QED BY <1>1, <1>2, RunGoesOn

\* An agent ends, of an online node or of one that has stopped or crashed.
LEMMA AgentExitsStep == ASSUME IInv, NEW r \in Runs, AgentExits(r) PROVE IInv'
<1>1. Types /\ RunTypes /\ RestTypes /\ Phased /\ Counted /\ Kept
    BY TypeParts DEF IInv
<1>2. UNCHANGED <<bringUp, running, dirs, unledgered, connected, inbox, broker, beat,
                  faults, shadowed, swept>>
    BY DEF AgentExits
<1>3. PICK a \in {"text", "failed"} : run' = [run EXCEPT ![r].agent = a]
    BY DEF AgentExits
<1>4. run[r] \in Run /\ run[r].pc = "agent"
    BY <1>1 DEF RunTypes, Kept, Told, AgentExits
<1>5. /\ run' \in [Runs -> Run] /\ run'[r] = [run[r] EXCEPT !.agent = a]
      /\ \A s \in Runs \ {r} : run'[s] = run[s]
  <2>1. [run[r] EXCEPT !.agent = a] \in Run
      BY <1>4 DEF Run
  <2> QED BY <1>1, <1>3, <2>1 DEF RunTypes
<1>6. \A s \in Runs :
          /\ run'[s].pc = run[s].pc /\ run'[s].job = run[s].job /\ run'[s].told = run[s].told
          /\ run'[s].killed = run[s].killed
          /\ run[s].pc # "agent" => run'[s] = run[s]
          /\ run'[s].agent = "alive" => run[s].agent = "alive"
  <2> TAKE s \in Runs
  <2>1. CASE s = r
      BY <1>4, <1>5, <2>1 DEF Run
  <2>2. CASE s # r
      BY <1>5, <2>2
  <2> QED BY <2>1, <2>2
<1>7. RunTypes' /\ Kept' /\ Live' = Live /\ Used' = Used
    BY <1>1, <1>2, <1>5, <1>6, RunsStay DEF RunTypes
<1>8. Phased'
    BY <1>1, <1>2, <1>6, <1>7, PhaseStays
<1>9. Counted'
  <2>1. Due' = Due
      BY <1>2, <1>7 DEF Due
  <2> QED BY <1>1, <1>2, <2>1 DEF Counted, broker
<1>10. RestTypes'
    BY <1>1, <1>2 DEF RestTypes, bringUp, broker
<1> QED BY <1>7, <1>8, <1>9, <1>10, TypeParts DEF IInv

\* A message comes in.
LEMMA ReceiveStep == ASSUME IInv, Receive PROVE IInv'
<1> DEFINE m == Head(inbox)
           r == Cardinality(Used) + 1
           x == [Unused EXCEPT !.job = m.job]
<1>1. Types /\ RunTypes /\ RestTypes /\ Kept /\ Phased /\ Counted
    BY TypeParts DEF IInv
<1>2. /\ connected /\ inbox # <<>> /\ phase = "online"
      /\ inbox' = (IF connected' THEN Tail(inbox) ELSE <<>>) /\ UNCHANGED <<beat, swept>>
    BY <1>1 DEF Receive, Phased
<1>3. m \in Message
    BY <1>1, <1>2, HeadTailProperties, EmptySeq DEF RestTypes
<1>4. x \in Run /\ x.job = m.job /\ x.agent = "none" /\ ~x.killed /\ x.told = {} /\ x.pc = "none"
  <2>1. (CHOOSE j \in Jobs : TRUE) \in Jobs
      BY NodeAssumption
  <2> QED BY <1>3, <2>1 DEF Run, Unused, Message
<1>5. Due = Cardinality(Live) + Cardinality(Waiting)
      /\ Cardinality(Live) \in Nat /\ Cardinality(Waiting) \in Nat
    BY <1>1, Sizes
<1>6. ASSUME UNCHANGED <<bringUp, connected>>
      PROVE  /\ Phased' /\ inbox' \in Seq(Message) /\ Len(inbox') <= MaxInbox
             /\ Cardinality(Waiting') = Cardinality(Waiting) - IF m.type = "dispatch" THEN 1 ELSE 0
  <2>1. inbox' = Tail(inbox)
      BY <1>2, <1>6
  <2>2. Phased'
      BY <1>1, <1>2, <1>6, PhaseStays
  <2> QED BY <1>1, <1>2, <2>1, <2>2, WaitingShrinks
\* The cases of the handler.
<1>7. CASE /\ m.type = "cancel"
           /\ run' = IF running[m.job] = 0 THEN run ELSE Abort({running[m.job]})
           /\ UNCHANGED <<bringUp, connected, running, dirs, unledgered, broker, faults, shadowed>>
  <2>1. RunTypes' /\ Kept' /\ Live' = Live
    <3>1. CASE run' = run
        BY <1>2, <1>7, <3>1, RunsUntouched DEF runs
    <3>2. CASE run' = Abort({running[m.job]})
        BY <1>2, <1>7, <3>2, RunsAborted
    <3> QED BY <1>7, <3>1, <3>2
  <2>2. Due' = Due
    <3>1. Cardinality(Waiting') = Cardinality(Waiting)
        BY <1>5, <1>6, <1>7
    <3> QED BY <1>5, <2>1, <3>1 DEF Due, Waiting
  <2>3. Counted'
      BY <1>1, <1>2, <1>7, <2>2 DEF Counted, broker
  <2>4. RestTypes'
      BY <1>1, <1>2, <1>6, <1>7 DEF RestTypes, bringUp, broker
  <2> QED BY <1>6, <1>7, <2>1, <2>3, <2>4, TypeParts DEF IInv
<1>8. CASE /\ m.type = "dispatch" /\ r \in Runs
           /\ run' = [run EXCEPT ![r] = [x EXCEPT !.pc = "agent", !.agent = "alive"]]
           /\ running' = [running EXCEPT ![m.job] = r]
           /\ dirs' = dirs \cup {m.job} /\ Shadows(m.job)
           /\ UNCHANGED <<bringUp, connected, unledgered, broker, faults>>
  <2> DEFINE e == [x EXCEPT !.pc = "agent", !.agent = "alive"]
  <2>1. e \in Run /\ e.pc = "agent" /\ e.told = {} /\ e.job = m.job
      BY <1>4 DEF Run
  <2>2. run' = [run EXCEPT ![r] = e]
      BY <1>8
  <2>3. RunTypes' /\ Kept' /\ Cardinality(Live') = Cardinality(Live) + 1
    <3> HIDE DEF e, x, m
    <3> QED BY <1>2, <1>8, <2>1, <2>2, RunStarts
  <2>4. Due' = Due
    <3>1. Cardinality(Waiting') = Cardinality(Waiting) - 1
        BY <1>5, <1>6, <1>8
    <3> QED BY <1>5, <2>3, <3>1 DEF Due, Waiting
  <2>5. Counted'
      BY <1>1, <1>2, <1>8, <2>4 DEF Counted, broker
  <2>6. RestTypes'
      BY <1>1, <1>2, <1>6, <1>8 DEF RestTypes, bringUp, broker
  <2> QED BY <1>6, <1>8, <2>3, <2>5, <2>6, TypeParts DEF IInv
<1>9. CASE /\ m.type = "dispatch" /\ r \in Runs
           /\ \E e \in Run : /\ e.pc = "over" /\ e.agent = "none" /\ e.told = {"error"}
                             /\ e.job = m.job /\ run' = [run EXCEPT ![r] = e]
           /\ \/ running' = [running EXCEPT ![m.job] = 0] /\ dirs' = dirs \ {m.job}
              \/ UNCHANGED <<running, dirs>>
           /\ Heard(m.job) /\ Shadows(m.job)
           /\ UNCHANGED <<bringUp, connected, unledgered, faults>>
  <2>1. RunTypes' /\ Kept' /\ Live' = Live
    <3> HIDE DEF m
    <3>1. PICK e \in Run : /\ e.pc = "over" /\ e.agent = "none" /\ e.told = {"error"}
                           /\ e.job = m.job /\ run' = [run EXCEPT ![r] = e]
        BY <1>9
    <3> QED BY <1>2, <1>9, <3>1, RunRefused
  <2>2. Due' = Due - 1
    <3>1. Cardinality(Waiting') = Cardinality(Waiting) - 1
        BY <1>5, <1>6, <1>9
    <3> QED BY <1>5, <2>1, <3>1 DEF Due, Waiting
  <2>3. Counted'
      BY <1>1, <1>2, <1>9, <2>2, OneLess DEF Heard, RestTypes
  <2>4. RestTypes'
      BY <1>1, <1>2, <1>6, <1>9 DEF RestTypes, bringUp, Heard, Fewer
  <2> QED BY <1>6, <1>9, <2>1, <2>3, <2>4, TypeParts DEF IInv
<1>10. CASE /\ m.type = "dispatch" /\ Fault
            /\ phase' = "crashed" /\ local' = FALSE /\ connected' = FALSE
            /\ UNCHANGED <<tunnel, runs, broker, shadowed>>
  <2>1. RunTypes' /\ Kept' /\ Live' = Live
      BY <1>2, <1>10, RunsUntouched
  <2>2. inbox' = <<>> /\ inbox' \in Seq(Message) /\ Len(inbox') = 0
      BY <1>2, <1>10, EmptySeq
  <2>3. Due' = Cardinality(Live)
    <3>1. Waiting' = {}
        BY <2>2 DEF Waiting
    <3>2. Due' = Cardinality(Live') + Cardinality(Waiting')
        BY DEF Due, Waiting
    <3> QED BY <1>5, <2>1, <3>1, <3>2, FS_EmptySet
  <2>4. Counted'
    <3>1. active \in Nat
        BY <1>1 DEF RestTypes
    <3> QED BY <1>1, <1>2, <1>5, <1>10, <2>3, <3>1, NodeAssumption DEF Counted, broker
  <2>5. RestTypes'
    <3>1. faults' \in 0..MaxFaults
        BY <1>1, <1>10, NodeAssumption DEF RestTypes, Fault
    <3>2. UNCHANGED <<tunnel, out, active, slipped, beat, swept>>
        BY <1>2, <1>10 DEF broker
    <3>3. Len(inbox') <= MaxInbox
        BY <2>2, NodeAssumption
    <3>4. phase' \in Phases /\ local' \in BOOLEAN /\ connected' \in BOOLEAN
        BY <1>10 DEF Phases
    <3> QED BY <1>1, <2>2, <3>1, <3>2, <3>3, <3>4 DEF RestTypes
  <2>6. Phased'
      BY <1>1, <1>2, <1>10 DEF Phased
  <2> QED BY <2>1, <2>4, <2>5, <2>6, TypeParts DEF IInv
<1>11. ASSUME m.type = "dispatch", r \in Runs,
              \/ Fails(r, x)
              \/ /\ run' = [run EXCEPT ![r] = [x EXCEPT !.pc = "over", !.told = {"error"}]]
                 /\ Heard(m.job) /\ UNCHANGED <<running, dirs>>
       PROVE  /\ \E e \in Run : /\ e.pc = "over" /\ e.agent = "none" /\ e.told = {"error"}
                                /\ e.job = m.job /\ run' = [run EXCEPT ![r] = e]
              /\ \/ running' = [running EXCEPT ![m.job] = 0] /\ dirs' = dirs \ {m.job}
                 \/ UNCHANGED <<running, dirs>>
              /\ Heard(m.job)
  <2> DEFINE e == [x EXCEPT !.pc = "over", !.told = {"error"}]
  <2>1. /\ e \in Run /\ e.pc = "over" /\ e.agent = "none" /\ e.told = {"error"} /\ e.job = m.job
        /\ e = [x EXCEPT !.pc = "over", !.told = x.told \cup {"error"}]
      BY <1>4 DEF Run
  <2> HIDE DEF e, x, m, r
  <2>2. CASE Fails(r, x)
    <3>1. Finally(r, e) /\ Heard(m.job)
        BY <1>4, <2>1, <2>2 DEF Fails
    <3> QED BY <2>1, <3>1 DEF Finally
  <2>3. CASE run' = [run EXCEPT ![r] = e] /\ Heard(m.job) /\ UNCHANGED <<running, dirs>>
      BY <2>1, <2>3
  <2>4. Fails(r, x) \/ (run' = [run EXCEPT ![r] = e] /\ Heard(m.job) /\ UNCHANGED <<running, dirs>>)
      BY <1>11 DEF e
  <2> QED BY <2>2, <2>3, <2>4
<1> QED
  <2>1. \/ /\ m.type = "cancel"
           /\ run' = IF running[m.job] = 0 THEN run ELSE Abort({running[m.job]})
           /\ UNCHANGED <<bringUp, connected, running, dirs, unledgered, broker, faults, shadowed>>
        \/ /\ m.type = "dispatch" /\ r \in Runs
           /\ run' = [run EXCEPT ![r] = [x EXCEPT !.pc = "agent", !.agent = "alive"]]
           /\ running' = [running EXCEPT ![m.job] = r]
           /\ dirs' = dirs \cup {m.job} /\ Shadows(m.job)
           /\ UNCHANGED <<bringUp, connected, unledgered, broker, faults>>
        \/ /\ m.type = "dispatch" /\ r \in Runs
           /\ \/ Fails(r, x)
              \/ /\ run' = [run EXCEPT ![r] = [x EXCEPT !.pc = "over", !.told = {"error"}]]
                 /\ Heard(m.job) /\ UNCHANGED <<running, dirs>>
           /\ Shadows(m.job) /\ UNCHANGED <<bringUp, connected, unledgered, faults>>
        \/ /\ m.type = "dispatch" /\ Fault
           /\ phase' = "crashed" /\ local' = FALSE /\ connected' = FALSE
           /\ UNCHANGED <<tunnel, runs, broker, shadowed>>
      BY DEF Receive, Shadows, Used
  <2> HIDE DEF m, r, x
  <2> QED BY <1>7, <1>8, <1>9, <1>10, <1>11, <2>1

\* The socket, the operator, the doctor.
LEMMA OperatorStep ==
    ASSUME IInv, Connect \/ LoseSocket \/ Stop \/ Signalled \/ DoctorFix PROVE IInv'
<1>1. Types /\ RunTypes /\ RestTypes /\ Kept /\ Phased /\ Counted
    BY TypeParts DEF IInv
<1>2. /\ Due = Cardinality(Live) + Cardinality(Waiting)
      /\ Cardinality(Live) \in Nat /\ Cardinality(Waiting) \in Nat
    BY <1>1, Sizes
\* Messages that are lost leave the broker with more in its count than there is.
<1>3. ASSUME Live' = Live, inbox' = <<>>, UNCHANGED <<broker, beat>>
      PROVE  Counted' /\ inbox' \in Seq(Message) /\ Len(inbox') <= MaxInbox
  <2>1. inbox' \in Seq(Message) /\ Len(inbox') = 0
      BY <1>3, EmptySeq
  <2>2. Due' = Cardinality(Live)
    <3>1. Waiting' = {}
        BY <1>3 DEF Waiting
    <3>2. Due' = Cardinality(Live') + Cardinality(Waiting')
        BY DEF Due, Waiting
    <3> QED BY <1>2, <1>3, <3>1, <3>2, FS_EmptySet
  <2>3. active \in Nat
      BY <1>1 DEF RestTypes
  <2>4. Counted'
      BY <1>1, <1>2, <1>3, <2>2, <2>3, NodeAssumption DEF Counted, broker
  <2> QED BY <2>1, <2>4, NodeAssumption
<1>4. CASE Connect
  <2>1. /\ phase = "online" /\ connected' = TRUE
        /\ UNCHANGED <<bringUp, runs, inbox, broker, beat, faults, shadowed, swept>>
      BY <1>4 DEF Connect
  <2>2. RunTypes' /\ Kept' /\ Live' = Live /\ Used' = Used
      BY <2>1, RunsUntouched
  <2>3. Phased'
      BY <1>1, <2>1 DEF Phased, bringUp
  <2>4. Due' = Due
      BY <2>1, <2>2 DEF Due
  <2>5. RestTypes' /\ Counted'
      BY <1>1, <2>1, <2>4 DEF RestTypes, Counted, bringUp, broker
  <2> QED BY <2>2, <2>3, <2>5, TypeParts DEF IInv
<1>5. CASE LoseSocket
  <2>1. /\ connected' = FALSE /\ inbox' = <<>> /\ faults' \in 0..MaxFaults
        /\ UNCHANGED <<bringUp, runs, broker, beat, shadowed, swept>>
      BY <1>1, <1>5, NodeAssumption DEF LoseSocket, Fault, RestTypes
  <2>2. RunTypes' /\ Kept' /\ Live' = Live /\ Used' = Used
      BY <2>1, RunsUntouched
  <2>3. Phased'
      BY <1>1, <2>1, <2>2 DEF Phased, bringUp, runs, Alive
  <2>4. Counted' /\ inbox' \in Seq(Message) /\ Len(inbox') <= MaxInbox
      BY <1>3, <2>1, <2>2
  <2>5. RestTypes'
      BY <1>1, <2>1, <2>4 DEF RestTypes, bringUp, broker
  <2> QED BY <2>2, <2>3, <2>4, <2>5, TypeParts DEF IInv
<1>6. CASE Stop
  <2>1. /\ phase = "online" /\ phase' = "exited" /\ local' = FALSE
        /\ tunnel' = IF tunnel = "up" THEN "gone" ELSE tunnel
        /\ connected' = FALSE /\ inbox' = <<>> /\ run' = Abort({running[j] : j \in Entries})
        /\ UNCHANGED <<running, dirs, unledgered, broker, beat, faults, shadowed, swept>>
      BY <1>6 DEF Stop
  <2> DEFINE aborted == {running[j] : j \in Entries}
  <2>2. /\ RunTypes' /\ Kept' /\ Live' = Live /\ Used' = Used
        /\ \A r \in Runs : /\ r \in aborted /\ run[r].pc = "agent" => run'[r].killed
                           /\ r \notin aborted => run'[r] = run[r]
    <3> HIDE DEF aborted
    <3>1. run' = Abort(aborted)
        BY <2>1 DEF aborted
    <3> QED BY <2>1, <3>1, RunsAborted
  <2>3. ASSUME NEW r \in Runs, run'[r].agent = "alive", ~run'[r].killed
        PROVE  run'[r].job \in shadowed
    <3>1. run'[r].pc = "agent"
        BY <2>2, <2>3 DEF Kept, Told
    <3>2. r \in Live' /\ r \in Live
        BY <2>2, <3>1 DEF Live
    <3>3. running'[run'[r].job] = r \/ run'[r].job \in shadowed'
        BY <2>2, <3>2 DEF Kept, Entered
    <3>4. run'[r].job \in Jobs
        BY <2>2, <2>3 DEF RunTypes, Run
    <3>5. CASE running[run'[r].job] = r
      <4>1. run'[r].job \in Entries
          BY <3>4, <3>5, NodeAssumption DEF Entries, Runs
      <4>2. r \in aborted
          BY <3>5, <4>1
      <4>3. run[r].pc = "agent"
        <5>1. run'[r].pc = run[r].pc
            BY <1>1, <2>1, <2>3, <4>2 DEF Abort, RunTypes, Run
        <5> QED BY <3>1, <5>1
      <4> QED BY <2>2, <2>3, <4>2, <4>3
    <3> QED BY <2>1, <3>3, <3>5
  <2>4. tunnel' \in {"none", "gone"}
      BY <1>1, <2>1 DEF RestTypes, Phased
  <2>5. Phased'
      BY <2>1, <2>3, <2>4 DEF Phased, Alive
  <2>6. Counted' /\ inbox' \in Seq(Message) /\ Len(inbox') <= MaxInbox
      BY <1>3, <2>1, <2>2
  <2>7. RestTypes'
      BY <1>1, <2>1, <2>4, <2>6 DEF RestTypes, Phases, broker
  <2> QED BY <2>2, <2>5, <2>6, <2>7, TypeParts DEF IInv
<1>7. CASE DoctorFix
  <2>1. /\ dirs' = {} /\ swept' = TRUE /\ faults' \in 0..MaxFaults
        /\ UNCHANGED <<bringUp, run, running, unledgered, connected, inbox, broker, beat, shadowed>>
      BY <1>1, <1>7, NodeAssumption DEF DoctorFix, Fault, RestTypes
  <2>2. RunTypes' /\ Kept' /\ Live' = Live /\ Used' = Used
      BY <1>1, <2>1, RunsStay DEF RunTypes
  <2>3. Phased'
      BY <1>1, <2>1, <2>2, PhaseStays
  <2>4. Due' = Due
      BY <2>1, <2>2 DEF Due
  <2>5. RestTypes' /\ Counted'
      BY <1>1, <2>1, <2>4 DEF RestTypes, Counted, bringUp, broker
  <2> QED BY <2>2, <2>3, <2>5, TypeParts DEF IInv
<1>8. CASE Signalled
  <2>1. /\ phase' = "signalled" /\ local' = FALSE /\ connected' = FALSE /\ inbox' = <<>>
        /\ tunnel' \in {tunnel, IF tunnel = "none" THEN "none" ELSE "gone"}
        /\ UNCHANGED <<runs, broker, beat, faults, shadowed, swept>>
      BY <1>8 DEF Signalled
  <2>2. RunTypes' /\ Kept' /\ Live' = Live /\ Used' = Used
      BY <2>1, RunsUntouched
  <2>3. Phased'
      BY <2>1 DEF Phased
  <2>4. Counted' /\ inbox' \in Seq(Message) /\ Len(inbox') <= MaxInbox
      BY <1>3, <2>1, <2>2
  <2>5. RestTypes'
      BY <1>1, <2>1, <2>4 DEF RestTypes, Phases, broker
  <2> QED BY <2>2, <2>3, <2>4, <2>5, TypeParts DEF IInv
<1> QED BY <1>4, <1>5, <1>6, <1>7, <1>8

\* A container that ends touches nothing of the node.
LEMMA Untouched ==
    ASSUME IInv, UNCHANGED <<bringUp, runs, connected, inbox, broker, beat, faults, shadowed, swept>>
    PROVE  IInv'
<1>1. RestTypes /\ Phased /\ Counted
    BY TypeParts DEF IInv
<1>2. RunTypes' /\ Kept' /\ Live' = Live /\ Used' = Used
    BY RunsUntouched
<1>3. Phased'
    BY <1>1, <1>2, PhaseStays DEF runs
<1>4. Due' = Due
    BY <1>2 DEF Due
<1>5. RestTypes' /\ Counted'
    BY <1>1, <1>4 DEF RestTypes, Counted, bringUp, broker
<1> QED BY <1>2, <1>3, <1>5, TypeParts DEF IInv

-----------------------------------------------------------------------------
(* What a container leaves running.                                        *)

\* Only runs that were killed, in the container tier, run on without a client.
Drifting ==
    /\ contained \in BOOLEAN /\ adrift \subseteq Runs
    /\ \A r \in adrift : contained /\ run[r].killed /\ run[r].pc # "none"

\* A run that was killed stays so.
LEMMA KilledStays ==
    ASSUME IInv, Next, NEW r \in Runs, run[r].killed, run[r].pc # "none"
    PROVE  run'[r].killed /\ run'[r].pc # "none"
<1>1. RunTypes /\ RestTypes /\ Kept
    BY TypeParts DEF IInv
<1>2. run[r] \in Run /\ r \in DOMAIN run
    BY <1>1 DEF RunTypes
<1>3. ASSUME NEW rs, run' = Abort(rs) PROVE run'[r].killed /\ run'[r].pc # "none"
    BY <1>2, <1>3 DEF Abort, Run
<1>4. ASSUME NEW s \in Runs, NEW e, run' = [run EXCEPT ![s] = e],
             s = r => e.killed = run[s].killed /\ e.pc # "none"
      PROVE  run'[r].killed /\ run'[r].pc # "none"
    BY <1>2, <1>4
<1>5. CASE UNCHANGED run
    BY <1>5
<1>6. ASSUME Receive PROVE run'[r].killed /\ run'[r].pc # "none"
  <2>1. \/ run' = run
        \/ \E rs : run' = Abort(rs)
        \/ \E n \in Runs : n = Cardinality(Used) + 1 /\ \E e : run' = [run EXCEPT ![n] = e]
      BY <1>6 DEF Receive, Used, Fails, Finally, runs
  <2>2. \A n \in Runs : n = Cardinality(Used) + 1 => n # r
      BY <1>1, NextNumber DEF Kept
  <2> QED BY <1>3, <1>4, <1>5, <2>1, <2>2
<1>7. ASSUME NEW s \in Runs, Closes(s) \/ Posted(s) PROVE run'[r].killed /\ run'[r].pc # "none"
  <2>1. run[s] \in Run
      BY <1>1 DEF RunTypes
  <2>2. \A e \in Run : e.killed = run[s].killed /\ (Ledger(s, e) \/ Fails(s, e)) =>
            \E f : run' = [run EXCEPT ![s] = f] /\ f.killed = run[s].killed /\ f.pc # "none"
    <3> SUFFICES ASSUME NEW e \in Run, e.killed = run[s].killed, Ledger(s, e) \/ Fails(s, e)
                 PROVE  \E f : run' = [run EXCEPT ![s] = f] /\ f.killed = run[s].killed /\ f.pc # "none"
        OBVIOUS
    <3>1. PICK f \in {[e EXCEPT !.pc = "over"], [e EXCEPT !.pc = "over", !.told = @ \cup {"error"}]} :
              Finally(s, f)
        BY DEF Ledger, Fails
    <3>2. f.killed = run[s].killed /\ f.pc = "over"
        BY <3>1 DEF Run
    <3> QED BY <3>1, <3>2 DEF Finally
  <2>3. run[s] \in Run /\ [run[s] EXCEPT !.told = {"result"}] \in Run
        /\ [run[s] EXCEPT !.told = {"result"}].killed = run[s].killed
      BY <2>1 DEF Run
  <2>4. \/ Ledger(s, run[s]) \/ Fails(s, run[s]) \/ Ledger(s, [run[s] EXCEPT !.told = {"result"}])
        \/ run' = [run EXCEPT ![s] = [run[s] EXCEPT !.pc = "posting", !.told = {"result"}]]
      BY <1>7 DEF Closes, Posted, Delivers
  <2>5. [run[s] EXCEPT !.pc = "posting", !.told = {"result"}].killed = run[s].killed
        /\ [run[s] EXCEPT !.pc = "posting", !.told = {"result"}].pc # "none"
      BY <2>1 DEF Run
  <2>6. \E e : run' = [run EXCEPT ![s] = e] /\ e.killed = run[s].killed /\ e.pc # "none"
      BY <2>2, <2>3, <2>4, <2>5
  <2> QED BY <1>4, <2>6
<1>8. ASSUME NEW s \in Runs, AgentExits(s) PROVE run'[r].killed /\ run'[r].pc # "none"
  <2>1. PICK a : run' = [run EXCEPT ![s].agent = a]
      BY <1>8 DEF AgentExits
  <2> QED BY <1>1, <1>2, <2>1 DEF RunTypes, Run
<1>9. CASE Start
    BY <1>5, <1>9 DEF Start, Probe, Serve, RaiseTunnel, TunnelSettles, Register, TunnelDies, Idle, runs
<1>10. CASE Hub
    BY <1>5, <1>10 DEF Hub, Dispatch, Withdraw, BeatLeaves, BeatArrives, runs
<1>11. CASE Node
  <2>1. CASE Connect \/ LoseSocket \/ DoctorFix \/ Signalled \/ \E s \in Runs : ContainerExits(s)
      BY <1>5, <2>1 DEF Connect, LoseSocket, DoctorFix, Signalled, ContainerExits, runs
  <2>2. CASE Stop
      BY <1>3, <2>2 DEF Stop
  <2>3. CASE \E s \in Runs : TimerFires(s)
      BY <1>3, <2>3 DEF TimerFires
  <2> QED BY <1>6, <1>7, <1>8, <1>11, <2>1, <2>2, <2>3 DEF Node
<1> QED BY <1>9, <1>10, <1>11 DEF Next

\* So does what is said of those that run on.
LEMMA DriftStep == ASSUME IInv, Drifting, [Next]_vars PROVE Drifting'
<1>1. CASE UNCHANGED vars
    BY <1>1 DEF vars, containers, runs, Drifting
<1>2. CASE Next
  <2>1. contained' = contained
      BY <1>2 DEF Next, Start, Hub, Node, Probe, Serve, RaiseTunnel, TunnelSettles, Register, TunnelDies,
             Idle, Dispatch, Withdraw, BeatLeaves, BeatArrives, Receive, Connect, LoseSocket, Stop,
             Signalled, DoctorFix, TimerFires, AgentExits, ContainerExits, Closes, Posted, containers
  <2>2. \A r \in adrift' : \/ r \in adrift
                           \/ r \in Runs /\ contained /\ run[r].killed /\ run[r].agent = "alive"
      BY <1>2 DEF Next, Start, Hub, Node, Probe, Serve, RaiseTunnel, TunnelSettles, Register, TunnelDies,
             Idle, Dispatch, Withdraw, BeatLeaves, BeatArrives, Receive, Connect, LoseSocket, Stop,
             Signalled, DoctorFix, TimerFires, AgentExits, ContainerExits, Closes, Posted, containers
  <2>3. \A r \in adrift' : r \in Runs /\ contained /\ run[r].killed /\ run[r].pc # "none"
      BY <2>2, TypeParts DEF Drifting, IInv, Kept, Told
  <2> QED BY <1>2, <2>1, <2>3, KilledStays DEF Drifting
<1> QED BY <1>1, <1>2

-----------------------------------------------------------------------------
(* The theorems.                                                           *)

\* A command that has not started anything has nothing to clean up after.
LEMMA InitIInv == Init => IInv
<1> SUFFICES ASSUME Init PROVE IInv
    OBVIOUS
<1>1. (CHOOSE j \in Jobs : TRUE) \in Jobs
    BY NodeAssumption
<1>2. Unused \in Run
    BY <1>1 DEF Unused, Run
<1>3. RunTypes
    BY <1>2 DEF Init, RunTypes
<1>4. <<>> \in Seq(Message) /\ Len(<<>>) = 0
    BY EmptySeq
<1>5. RestTypes
  <2>1. NoBeat \in 0..NoBeat /\ 0 \in 0..MaxFaults /\ 0 <= MaxInbox
      BY NodeAssumption DEF NoBeat
  <2>2. inbox \in Seq(Message) /\ Len(inbox) <= MaxInbox
      BY <1>4, <2>1 DEF Init
  <2>3. phase \in Phases
      BY DEF Init, Phases
  <2> QED BY <2>1, <2>2, <2>3 DEF Init, RestTypes
<1>6. Live = {} /\ Used = {} /\ Waiting = {}
    BY <1>2 DEF Init, Live, Used, Waiting, Unused, Run
<1>7. Told /\ Entered /\ Housed /\ OneOutcome
    BY <1>6 DEF Init, Told, Entered, Housed, OneOutcome, Unused
<1>8. Numbered
  <2>1. 1..0 = {}
      OBVIOUS
  <2> QED BY <1>6, <2>1, NodeAssumption DEF Numbered
<1>9. Phased
    BY <1>6 DEF Init, Phased
<1>10. Due = 0
    BY <1>6, FS_EmptySet DEF Due, Waiting
<1>11. Counted
    BY <1>10, NodeAssumption DEF Init, Counted
<1> QED BY <1>3, <1>5, <1>7, <1>8, <1>9, <1>11, TypeParts DEF IInv, Kept

\* Every step keeps the invariant.
LEMMA StepIInv == IInv /\ [Next]_vars => IInv'
<1> SUFFICES ASSUME IInv, [Next]_vars PROVE IInv'
    OBVIOUS
<1>1. CASE Start
    BY <1>1, StartStep
<1>2. CASE Hub
    BY <1>2, HubStep
<1>3. CASE Node
  <2>1. ASSUME NEW r \in Runs, ContainerExits(r) PROVE IInv'
      BY <2>1, Untouched DEF ContainerExits
  <2> QED BY <1>3, <2>1, ReceiveStep, OperatorStep, TimerStep, AgentExitsStep, ClosesStep, PostedStep DEF Node
<1>4. CASE UNCHANGED vars
    BY <1>4, Untouched DEF vars
<1> QED BY <1>1, <1>2, <1>3, <1>4 DEF Next

\* A run's agent, its entry and its directory, the phase of the command and the
\* broker's count go together in every state (node.ts:285, start.ts:66).
THEOREM NodeInvariant == Spec => [](IInv /\ Drifting)
<1>1. Init => IInv /\ Drifting
    BY InitIInv DEF Init, Drifting
<1>2. IInv /\ Drifting /\ [Next]_vars => (IInv /\ Drifting)'
    BY StepIInv, DriftStep
<1> QED BY <1>1, <1>2, PTL DEF Spec

\* A run is cleaned up after when it is over and not before, and the command that
\* was stopped leaves nothing behind, whatever number of runs, lost sockets and
\* faults; a killed agent in a container and a shadowed run are excepted
\* (node.ts:372, start.ts:168).
THEOREM RunsAreCleanedUp == Spec => []CleanedWhenOver
<1>1. ASSUME IInv, Drifting PROVE CleanedWhenOver
  <2>1. Told /\ Housed /\ Phased
      BY <1>1 DEF IInv, Kept
  <2>2. \A r \in Runs : Alive(r) => run[r].pc = "agent" /\ r \in Used
      BY <2>1 DEF Told, Alive, Used
  <2>3. \A r \in Runs : AtWork(r) => Alive(r) \/ BeyondKill(r)
      BY <1>1 DEF AtWork, BeyondKill, Alive, Drifting
  <2>4. phase \in {"failed", "exited"} =>
            /\ ~local /\ tunnel \in {"none", "gone"}
            /\ \A r \in Runs : Alive(r) => run[r].job \in shadowed
      BY <2>1, <2>2 DEF Phased
  <2> QED BY <2>1, <2>2, <2>3, <2>4 DEF Housed, CleanedWhenOver
<1>2. IInv /\ Drifting => CleanedWhenOver
    BY <1>1
<1> QED BY <1>2, NodeInvariant, PTL

\* A run tells the broker one outcome, unless its row in the ledger threw
\* (node.ts:328, node.ts:359).
THEOREM RunsTellOneOutcome == Spec => []OneOutcome
<1>1. IInv => OneOutcome
    BY DEF IInv, Kept
<1> QED BY <1>1, NodeInvariant, PTL

\* The broker's count keeps any node within any capacity until a beat crosses a
\* dispatch or a slot is freed early (registry.ts:149, app.ts:719).
THEOREM NodesStayWithinCapacity == Spec => []WithinCapacity
<1>1. ASSUME IInv, Drifting PROVE WithinCapacity
  <2>1. Types /\ RestTypes /\ Counted
      BY <1>1, TypeParts DEF IInv
  <2>2. Due \in Nat /\ active \in Nat
      BY <2>1, Sizes DEF RestTypes
  <2>3. TypeOK
      BY <1>1, <2>1, TypeParts DEF TypeOK, RunTypes, RestTypes, Run, Message, Drifting
  <2> QED BY <2>1, <2>2, <2>3, NodeAssumption DEF WithinCapacity, Counted
<1>2. IInv /\ Drifting => WithinCapacity
    BY <1>1
<1> QED BY <1>2, NodeInvariant, PTL

-----------------------------------------------------------------------------
(* The node's files, for any number of commands, accounts, prices and       *)
(* interruptions.                                                           *)

Command == [pc: {"off", "asking", "saving", "opened", "written"},
            want: Setting, fd: Inodes \cup {0}]
Content == Setting \cup {Torn}
FileTypes ==
    /\ disk \in [Inodes -> Content] /\ cmd \in [Commands -> Command]
    /\ cfg \in Inodes \cup {0} /\ tmp \in Inodes \cup {0} /\ (cfg = tmp => cfg = 0)
    /\ said \in Content /\ met \in BOOLEAN
    /\ \A c \in Commands : cmd[c].fd # 0 <=> cmd[c].pc \in {"opened", "written"}
LedgerTypes ==
    /\ ledger \in Seq(Int) /\ Len(ledger) <= MaxRows /\ earned \in Nat /\ stops \in 0..MaxStops
    /\ failed \in Nat /\ cut \in Nat

\* Whoever writes a configuration writes an account with its own key.
KeyWithAccount ==
    /\ \A i \in Inodes : disk[i].key = disk[i].account
    /\ \A c \in Commands : cmd[c].want.key = cmd[c].want.account

\* As long as no two commands met, the one that runs alone has the temporary file, and
\* in it what it has written; the configuration is an inode nobody writes to.
Alone ==
    ~met => /\ \A c, d \in Busy : c = d
            /\ \A c \in Commands : cmd[c].pc \in {"opened", "written"} => cmd[c].fd = tmp
            /\ \A c \in Commands : cmd[c].pc = "opened" => disk[tmp] = Torn
            /\ \A c \in Commands : cmd[c].pc = "written" => disk[tmp] = cmd[c].want
            /\ cfg # 0 => disk[cfg] # Torn
            /\ said # Torn => cfg # 0 /\ disk[cfg] = said

FInv == FileTypes /\ LedgerTypes /\ KeyWithAccount /\ Alone

\* The invariant says what the two properties say.
LEMMA FInvImplies ==
    ASSUME FInv PROVE ConfigWhole /\ SaidIsSaved
<1>1. ConfigTypeOK
    BY DEF FInv, FileTypes, LedgerTypes, Command, Content, ConfigTypeOK, NoFile
<1>2. Readable => Config.key = Config.account
    BY DEF FInv, FileTypes, KeyWithAccount, Readable, NoFile, Config
<1>3. ~met => /\ cfg # 0 => disk[cfg] # Torn
              /\ said # Torn => cfg # 0 /\ disk[cfg] = said
    BY DEF FInv, Alone
<1>4. ConfigWhole
    BY <1>1, <1>2, <1>3 DEF ConfigWhole, NoFile
<1>5. SaidIsSaved
    BY <1>3 DEF SaidIsSaved, Readable, Config, NoFile
<1> QED BY <1>4, <1>5

\* A setting is not the torn file, the blank one included; a command that is off wants it.
LEMMA Settings ==
    /\ Torn \notin Setting /\ Blank \in Setting
    /\ Blank.key = Blank.account /\ Torn.key = Torn.account
    /\ Off \in Command /\ Off.pc = "off" /\ Off.fd = 0
    /\ Off.want = Blank
BY ConfigAssumption DEF ConfigAssumption, Torn, Setting, Blank, Off, Command

\* The order of the naturals is well founded, so that a set of them has a least element.
Lower == {p \in Nat \X Nat : p[1] < p[2]}
LEMMA LeastOfNats ==
    ASSUME NEW S \in SUBSET Nat, S # {} PROVE \E x \in S : \A y \in S : x <= y
<1>1. IsWellFoundedOn(Lower, Nat)
    BY NatLessThanWellFounded DEF OpToRel, Lower
<1>2. PICK x \in S : \A y \in S : ~ (<<y, x>> \in Lower)
    BY <1>1, WFMin
<1>3. ASSUME NEW y \in S PROVE x <= y
  <2>1. x \in Nat /\ y \in Nat
      OBVIOUS
  <2>2. y < x => <<y, x>> \in Lower
      BY <2>1 DEF Lower
  <2> QED BY <1>2, <2>1, <2>2
<1> QED BY <1>3

\* Some inode has no name and is open nowhere, for a command that is about to open one.
LEMMA SomeUnlinked ==
    ASSUME FileTypes, NEW c \in Commands, cmd[c].pc = "saving", tmp = 0
    PROVE  Min(Unlinked) \in Unlinked
<1> DEFINE others == Commands \ {c}
           f == [d \in others |-> cmd[d].fd]
           taken == {cmd[d].fd : d \in others}
           n == Cardinality(Commands)
<1>1. IsFiniteSet(Commands) /\ n \in Nat /\ n # 0
    BY ConfigAssumption, FS_CardinalityType, FS_EmptySet DEF ConfigAssumption
<1>2. IsFiniteSet(others) /\ Cardinality(others) = n - 1
    BY <1>1, FS_RemoveElement
<1>3. f \in Surjection(others, taken)
    BY DEF Surjection
<1>4. IsFiniteSet(taken) /\ Cardinality(taken) <= n - 1 /\ Cardinality(taken) \in Nat
  <2> HIDE DEF f, taken, others, n
  <2>1. IsFiniteSet(taken) /\ Cardinality(taken) <= Cardinality(others)
      BY <1>2, <1>3, FS_Surjection
  <2> QED BY <1>2, <2>1, FS_CardinalityType
<1>5. IsFiniteSet(taken \cup {cfg}) /\ Cardinality(taken \cup {cfg}) <= n
  <2> HIDE DEF f, taken, others, n
  <2>1. /\ IsFiniteSet(taken \cup {cfg})
        /\ \/ Cardinality(taken \cup {cfg}) = Cardinality(taken)
           \/ Cardinality(taken \cup {cfg}) = Cardinality(taken) + 1
      BY <1>4, FS_AddElement
  <2> QED BY <1>1, <1>4, <2>1
<1>6. Cardinality(Inodes) = n + 1 /\ Inodes \subseteq Nat
  <2>1. n + 1 \in Int /\ 1 \in Int /\ ~(1 > n + 1) /\ n + 1 - 1 + 1 = n + 1
      BY <1>1
  <2>2. Cardinality(1..(n + 1)) = n + 1
    <3> HIDE DEF n
    <3> QED BY <2>1, FS_Interval
  <2> QED BY <1>1, <2>2 DEF Inodes
<1>7. cmd[c].fd = 0
    BY DEF FileTypes
<1>8. Unlinked = Inodes \ (taken \cup {cfg})
  <2>1. {cmd[d].fd : d \in Commands} = taken \cup {0}
      BY <1>7
  <2>2. 0 \notin Inodes
      BY DEF Inodes
  <2> QED BY <2>1, <2>2 DEF Unlinked
<1> HIDE DEF taken, n
<1>9. Unlinked # {}
  <2>1. SUFFICES ASSUME Inodes \subseteq taken \cup {cfg} PROVE FALSE
      BY <1>8
  <2>2. Cardinality(Inodes) <= Cardinality(taken \cup {cfg})
      BY <1>5, <2>1, FS_Subset
  <2>3. Cardinality(taken \cup {cfg}) \in Nat
      BY <1>5, FS_CardinalityType
  <2> QED BY <1>1, <1>5, <1>6, <2>2, <2>3
<1> QED
  <2>1. Unlinked \in SUBSET Nat
      BY <1>6, <1>8
  <2>2. PICK x \in Unlinked : \A y \in Unlinked : x <= y
      BY <1>9, <2>1, LeastOfNats
  <2> QED BY <2>2 DEF Min

\* No inode is number 0, which stands for no file.
LEMMA NoInode == 0 \notin Inodes
BY DEF Inodes

\* A step that changes nothing of the files and the commands keeps what is said of them.
LEMMA FilesKept ==
    ASSUME FInv, UNCHANGED <<disk, cfg, tmp, cmd, said, met>>, LedgerTypes'
    PROVE  FInv'
BY DEF FInv, FileTypes, KeyWithAccount, Alone, Busy

\* A command begins with what it wants: a setting with the key of its account. It is
\* alone only if no other runs.
LEMMA BeginKeeps ==
    ASSUME FInv, NEW c \in Commands,
           NEW x \in Command, x.pc \in {"asking", "saving"}, x.fd = 0,
           x.want.key = x.want.account, Begin(c, x)
    PROVE  FInv'
<1>1. /\ cmd[c].pc = "off" /\ met' = (met \/ Busy # {})
      /\ cmd' = [cmd EXCEPT ![c] = x]
      /\ UNCHANGED <<disk, cfg, tmp, said, rows, stops>>
    BY DEF Begin, files
<1>2. FileTypes /\ LedgerTypes /\ KeyWithAccount /\ Alone
    BY DEF FInv
<1>3. cmd' \in [Commands -> Command] /\ cmd'[c] = x
      /\ \A d \in Commands \ {c} : cmd'[d] = cmd[d]
    BY <1>1, <1>2 DEF FileTypes
<1>4. FileTypes'
    BY <1>1, <1>2, <1>3 DEF FileTypes
<1>5. LedgerTypes'
    BY <1>1, <1>2 DEF LedgerTypes, rows
<1>6. KeyWithAccount'
    BY <1>1, <1>2, <1>3 DEF KeyWithAccount
<1>7. Alone'
  <2>1. SUFFICES ASSUME ~met' PROVE Alone'
      BY DEF Alone
  <2>2. ~met /\ Busy = {}
      BY <1>1, <2>1
  <2>3. \A d \in Commands \ {c} : cmd'[d].pc = "off"
      BY <1>3, <2>2 DEF Busy
  <2>4. \A d, e \in Busy' : d = e
      BY <2>3 DEF Busy
  <2>5. \A d \in Commands : cmd'[d].pc \notin {"opened", "written"}
      BY <1>3, <2>3
  <2> QED BY <1>1, <1>2, <2>2, <2>4, <2>5 DEF Alone
<1> QED BY <1>4, <1>5, <1>6, <1>7 DEF FInv

\* What init and wallet new want is a setting; what price wants is one made of the
\* configuration it has read.
LEMMA CommandsBegin ==
    ASSUME FInv, NEW c \in Commands,
           \/ \E price \in Prices : priceCommand(c, price)
           \/ \E price \in Prices, w \in Wallets :
                 initCommand(c, price, w)
           \/ walletNew(c)
    PROVE  FInv'
<1>1. FileTypes /\ KeyWithAccount
    BY DEF FInv
<1>2. /\ Prices \subseteq Nat \ {0} /\ Preset \in Nat \ {0} /\ Fresh \in Wallets
    BY ConfigAssumption DEF ConfigAssumption
<1>3. Readable =>
         Config \in Setting /\ Config.key = Config.account
    BY <1>1 DEF FileTypes, KeyWithAccount, Content, Readable, Config, NoFile
<1>4. CASE \E price \in Prices : priceCommand(c, price)
  <2>1. PICK price \in Prices : priceCommand(c, price)
      BY <1>4
  <2> DEFINE w == [Config EXCEPT !.price = price]
             x == [pc |-> "saving", want |-> w, fd |-> 0]
  <2>2. Readable /\ Begin(c, x)
      BY <2>1 DEF priceCommand
  <2>3. price \in Nat \ {0}
      BY <1>2
  <2>4. w \in Setting /\ w.key = w.account
      BY <1>3, <2>2, <2>3 DEF Setting
  <2>5. x \in Command /\ x.pc = "saving" /\ x.fd = 0 /\ x.want = w
      BY <2>4 DEF Command
  <2> HIDE DEF w, x
  <2> QED BY <2>2, <2>4, <2>5, BeginKeeps
<1>5. CASE \E price \in Prices, w \in Wallets : initCommand(c, price, w)
  <2>1. PICK price \in Prices, who \in Wallets :
           initCommand(c, price, who)
      BY <1>5
  <2> DEFINE w == [price |-> price, account |-> who, key |-> who]
             x == [pc |-> "asking", fd |-> 0, want |-> w]
  <2>2. (cfg = 0 \/ Readable) /\ Begin(c, x)
      BY <2>1 DEF initCommand, NoFile
  <2>3. price \in Nat \ {0}
      BY <1>2
  <2>4. w \in Setting /\ w.key = w.account
      BY <2>3 DEF Setting
  <2>5. x \in Command /\ x.pc = "asking" /\ x.fd = 0 /\ x.want = w
      BY <2>4 DEF Command
  <2> HIDE DEF w, x
  <2> QED BY <2>2, <2>4, <2>5, BeginKeeps
<1>6. CASE walletNew(c)
  <2> DEFINE w == [Config EXCEPT !.account = Fresh, !.key = Fresh]
             x == [pc |-> "asking", fd |-> 0, want |-> w]
  <2>1. Readable /\ Begin(c, x)
      BY <1>6 DEF walletNew
  <2>2. w \in Setting /\ w.key = w.account
      BY <1>2, <1>3, <2>1 DEF Setting
  <2>3. x \in Command /\ x.pc = "asking" /\ x.fd = 0 /\ x.want = w
      BY <2>2 DEF Command
  <2> HIDE DEF w, x
  <2> QED BY <2>1, <2>2, <2>3, BeginKeeps
<1> QED BY <1>4, <1>5, <1>6

\* The operator answers, or a command is interrupted: it saves what it wanted, or
\* nothing more.
LEMMA AnsweredKeeps ==
    ASSUME FInv, NEW c \in Commands,
           Answered(c) \/ Interrupt(c)
    PROVE  FInv'
<1>1. FileTypes /\ LedgerTypes /\ KeyWithAccount /\ Alone
    BY DEF FInv
<1>2. /\ UNCHANGED <<disk, cfg, tmp, said, met, rows>>
      /\ stops' = stops \/ (stops < MaxStops /\ stops' = stops + 1)
    BY DEF Answered, Interrupt, files
<1>3. PICK x \in Command :
         /\ cmd' = [cmd EXCEPT ![c] = x] /\ x.pc \in {"off", "saving"} /\ x.fd = 0
         /\ x.want.key = x.want.account /\ cmd[c].pc # "off"
  <2>1. CASE Answered(c)
    <3> DEFINE x == [cmd[c] EXCEPT !.pc = "saving"]
    <3>1. cmd' = [cmd EXCEPT ![c] = x] /\ cmd[c].pc = "asking"
        BY <2>1 DEF Answered
    <3>2. cmd[c] \in Command /\ cmd[c].fd = 0
        BY <1>1, <3>1 DEF FileTypes
    <3>3. x \in Command /\ x.pc = "saving" /\ x.fd = 0 /\ x.want = cmd[c].want
        BY <3>2 DEF Command
    <3> HIDE DEF x
    <3> QED BY <1>1, <3>1, <3>3 DEF KeyWithAccount
  <2>2. CASE Interrupt(c)
      BY <2>2, Settings DEF Interrupt
  <2> QED BY <2>1, <2>2
<1>4. cmd' \in [Commands -> Command] /\ cmd'[c] = x
      /\ \A d \in Commands \ {c} : cmd'[d] = cmd[d]
    BY <1>1, <1>3 DEF FileTypes
<1>5. FileTypes'
    BY <1>1, <1>2, <1>3, <1>4 DEF FileTypes
<1>6. LedgerTypes'
    BY <1>1, <1>2, ConfigAssumption DEF LedgerTypes, rows, ConfigAssumption
<1>7. KeyWithAccount'
    BY <1>1, <1>2, <1>3, <1>4 DEF KeyWithAccount
<1>8. Busy' \subseteq Busy
    BY <1>3, <1>4 DEF Busy
<1>9. Alone'
    BY <1>1, <1>2, <1>3, <1>4, <1>8 DEF Alone
<1> QED BY <1>5, <1>6, <1>7, <1>9 DEF FInv

\* A command opens the temporary file, the one that is there or a new one: it is alone
\* in it unless two commands met, and it is not the configuration.
LEMMA OpenKeeps ==
    ASSUME FInv, NEW c \in Commands, Open(c)
    PROVE  FInv'
<1>1. FileTypes /\ LedgerTypes /\ KeyWithAccount /\ Alone
    BY DEF FInv
<1> DEFINE i == IF tmp # 0 THEN tmp ELSE Min(Unlinked)
           x == [cmd[c] EXCEPT !.pc = "opened", !.fd = i]
<1>2. /\ cmd[c].pc = "saving" /\ disk' = [disk EXCEPT ![i] = Torn]
      /\ cmd' = [cmd EXCEPT ![c] = x] /\ tmp' = i
      /\ UNCHANGED <<cfg, rows, said, met, stops>>
    BY DEF Open, NoFile
<1>3. i \in Inodes /\ i # 0 /\ i # cfg
  <2>1. CASE tmp # 0
      BY <1>1, <2>1 DEF FileTypes
  <2>2. CASE tmp = 0
    <3>1. Min(Unlinked) \in Unlinked
        BY <1>1, <1>2, <2>2, SomeUnlinked
    <3> QED BY <2>2, <3>1, NoInode DEF Unlinked
  <2> QED BY <2>1, <2>2
<1>4. cmd[c] \in Command
    BY <1>1 DEF FileTypes
<1>5. x \in Command /\ x.pc = "opened" /\ x.fd = i /\ x.want = cmd[c].want
    BY <1>3, <1>4 DEF Command
<1> HIDE DEF i, x
<1>6. cmd' \in [Commands -> Command] /\ cmd'[c] = x
      /\ \A d \in Commands \ {c} : cmd'[d] = cmd[d]
    BY <1>1, <1>2, <1>5 DEF FileTypes
<1>7. disk' \in [Inodes -> Content] /\ disk'[i] = Torn
      /\ \A k \in Inodes \ {i} : disk'[k] = disk[k]
    BY <1>1, <1>2, <1>3 DEF FileTypes, Content
<1>8. FileTypes'
    BY <1>1, <1>2, <1>3, <1>5, <1>6, <1>7 DEF FileTypes
<1>9. LedgerTypes'
    BY <1>1, <1>2 DEF LedgerTypes, rows
<1>10. KeyWithAccount'
    BY <1>1, <1>5, <1>6, <1>7, Settings DEF KeyWithAccount
<1>11. Alone'
  <2>1. SUFFICES ASSUME ~met PROVE Alone'
      BY <1>2 DEF Alone
  <2>2. Busy' = Busy /\ c \in Busy
      BY <1>2, <1>5, <1>6 DEF Busy
  <2>3. \A d \in Commands \ {c} : cmd'[d].pc = "off"
      BY <1>1, <1>6, <2>1, <2>2 DEF Alone, Busy
  <2>4. cfg' # 0 => disk'[cfg'] = disk[cfg]
      BY <1>1, <1>2, <1>3, <1>7 DEF FileTypes
  <2> QED BY <1>1, <1>2, <1>5, <1>6, <1>7, <2>1, <2>2, <2>3, <2>4 DEF Alone
<1> QED BY <1>8, <1>9, <1>10, <1>11 DEF FInv

\* A command writes into the file it has opened, and alone, only what it wants.
LEMMA WriteKeeps ==
    ASSUME FInv, NEW c \in Commands, Write(c)
    PROVE  FInv'
<1>1. FileTypes /\ LedgerTypes /\ KeyWithAccount /\ Alone
    BY DEF FInv
<1> DEFINE i == cmd[c].fd
           x == [cmd[c] EXCEPT !.pc = "written"]
<1>2. PICK text \in {cmd[c].want} \cup (IF disk[i] = Torn THEN {} ELSE {Torn}) :
          disk' = [disk EXCEPT ![i] = text]
    BY DEF Write
<1>3. /\ cmd[c].pc = "opened" /\ cmd' = [cmd EXCEPT ![c] = x]
      /\ UNCHANGED <<cfg, tmp, rows, said, met, stops>>
    BY DEF Write
<1>4. cmd[c] \in Command /\ i \in Inodes /\ i # 0
    BY <1>1, <1>3 DEF FileTypes, Command
<1>5. x \in Command /\ x.pc = "written" /\ x.fd = i /\ x.want = cmd[c].want
    BY <1>4 DEF Command
<1>6. text \in Content /\ text.key = text.account
    BY <1>1, <1>2, <1>4, Settings DEF Content, Command, KeyWithAccount
<1>7. disk[i] = Torn => text = cmd[c].want
    BY <1>2
<1> HIDE DEF i, x
<1>8. cmd' \in [Commands -> Command] /\ cmd'[c] = x
      /\ \A d \in Commands \ {c} : cmd'[d] = cmd[d]
    BY <1>1, <1>3, <1>5 DEF FileTypes
<1>9. disk' \in [Inodes -> Content] /\ disk'[i] = text
      /\ \A k \in Inodes \ {i} : disk'[k] = disk[k]
    BY <1>1, <1>2, <1>4, <1>6 DEF FileTypes
<1>10. FileTypes'
    BY <1>1, <1>3, <1>4, <1>5, <1>8, <1>9 DEF FileTypes
<1>11. LedgerTypes'
    BY <1>1, <1>3 DEF LedgerTypes, rows
<1>12. KeyWithAccount'
    BY <1>1, <1>5, <1>6, <1>8, <1>9 DEF KeyWithAccount
<1>13. Alone'
  <2>1. SUFFICES ASSUME ~met PROVE Alone'
      BY <1>3 DEF Alone
  <2>2. Busy' = Busy /\ c \in Busy
      BY <1>3, <1>5, <1>8 DEF Busy
  <2>3. \A d \in Commands \ {c} : cmd'[d].pc = "off"
      BY <1>1, <1>8, <2>1, <2>2 DEF Alone, Busy
  <2>4. i = tmp /\ disk[i] = Torn /\ i # cfg
      BY <1>1, <1>3, <1>4, <2>1 DEF Alone, FileTypes, i
  <2>5. disk'[tmp] = cmd[c].want
      BY <1>7, <1>9, <2>4
  <2>6. cfg' # 0 => disk'[cfg'] = disk[cfg]
      BY <1>1, <1>3, <1>9, <2>4 DEF FileTypes
  <2> QED BY <1>1, <1>3, <1>5, <1>8, <2>1, <2>2, <2>3, <2>4, <2>5, <2>6 DEF Alone
<1> QED BY <1>10, <1>11, <1>12, <1>13 DEF FInv

\* A command renames what it has written, which is the configuration from then on.
LEMMA RenameKeeps ==
    ASSUME FInv, NEW c \in Commands, Rename(c)
    PROVE  FInv'
<1>1. FileTypes /\ LedgerTypes /\ KeyWithAccount /\ Alone
    BY DEF FInv
<1>2. /\ cmd[c].pc = "written" /\ cmd' = [cmd EXCEPT ![c] = Off]
      /\ \/ tmp # 0 /\ cfg' = tmp /\ tmp' = 0 /\ said' = cmd[c].want
         \/ tmp = 0 /\ UNCHANGED <<cfg, tmp, said>>
      /\ UNCHANGED <<rows, met, stops>>
    BY DEF Rename, NoFile
<1>3. disk' = [k \in Inodes |->
                  IF k \in {cfg', tmp'} \cup {cmd'[d].fd : d \in Commands}
                  THEN disk[k] ELSE Blank]
    BY DEF Rename
<1>4. cmd[c] \in Command
    BY <1>1 DEF FileTypes
<1>5. cmd' \in [Commands -> Command] /\ cmd'[c] = Off
      /\ \A d \in Commands \ {c} : cmd'[d] = cmd[d]
    BY <1>1, <1>2, Settings DEF FileTypes
<1>6. disk' \in [Inodes -> Content]
      /\ \A k \in Inodes : disk'[k] = disk[k] \/ disk'[k] = Blank
    BY <1>1, <1>3, Settings DEF FileTypes, Content
<1>7. cfg' # 0 => disk'[cfg'] = disk[cfg']
    BY <1>1, <1>2, <1>3 DEF FileTypes
<1>8. FileTypes'
    BY <1>1, <1>2, <1>4, <1>5, <1>6, Settings DEF FileTypes, Command, Content
<1>9. LedgerTypes'
    BY <1>1, <1>2 DEF LedgerTypes, rows
<1>10. KeyWithAccount'
    BY <1>1, <1>5, <1>6, Settings DEF KeyWithAccount
<1>11. Alone'
  <2>1. SUFFICES ASSUME ~met PROVE Alone'
      BY <1>2 DEF Alone
  <2>2. \A d \in Commands : cmd'[d].pc = "off"
      BY <1>1, <1>2, <1>5, <2>1, Settings DEF Alone, Busy
  <2>3. tmp # 0 /\ disk[tmp] = cmd[c].want /\ cmd[c].want # Torn
    <3>1. cmd[c].fd = tmp /\ disk[tmp] = cmd[c].want
        BY <1>1, <1>2, <2>1 DEF Alone
    <3> QED BY <1>1, <1>2, <1>4, <3>1, Settings DEF FileTypes, Command
  <2>4. cfg' = tmp /\ said' = cmd[c].want /\ cfg' # 0 /\ disk'[cfg'] = said'
      BY <1>2, <1>7, <2>3
  <2> QED BY <2>2, <2>3, <2>4 DEF Alone, Busy
<1> QED BY <1>8, <1>9, <1>10, <1>11 DEF FInv

\* The ledger is no concern of the configuration, and stays one of numbers.
LEMMA AppendKeeps ==
    ASSUME FInv, appendEarning
    PROVE  FInv'
<1>1. LedgerTypes
    BY DEF FInv
<1> DEFINE dangling == ledger # <<>> /\ ledger[Len(ledger)] = Partial
           front == IF dangling THEN SubSeq(ledger, 1, Len(ledger) - 1) ELSE ledger
<1>2. /\ Len(front) < MaxRows /\ earned' = earned + 1
      /\ UNCHANGED <<disk, cfg, tmp, cmd, said, met>>
      /\ \/ /\ ledger' = Append(front, IF dangling THEN Spoilt ELSE earned')
            /\ UNCHANGED <<failed, cut, stops>>
         \/ /\ stops < MaxStops /\ stops' = stops + 1
            /\ \/ UNCHANGED <<ledger, cut>> /\ failed' = failed + 1
               \/ ledger' = Append(front, Partial) /\ cut' = cut + 1 /\ UNCHANGED failed
    BY DEF appendEarning, files
<1>3. /\ ledger \in Seq(Int) /\ Len(ledger) <= MaxRows /\ earned \in Nat /\ failed \in Nat /\ cut \in Nat
      /\ stops \in 0..MaxStops /\ MaxRows \in Nat /\ MaxStops \in Nat
    BY <1>1, ConfigAssumption DEF LedgerTypes, ConfigAssumption
<1>4. front \in Seq(Int)
  <2>1. CASE dangling
    <3>1. Len(ledger) \in Nat /\ Len(ledger) # 0
        BY <1>3, <2>1, LenProperties, EmptySeq
    <3> QED BY <1>3, <2>1, <3>1, SubSeqProperties
  <2> QED BY <1>3, <2>1
<1>5. ledger' = ledger \/ \E row \in Int : ledger' = Append(front, row)
  <2>1. Spoilt \in Int /\ Partial \in Int /\ earned' \in Int
      BY <1>2, <1>3 DEF Spoilt, Partial
  <2> QED BY <1>2, <2>1
<1> HIDE DEF front, dangling
<1>6. ledger' \in Seq(Int) /\ Len(ledger') <= MaxRows
  <2>1. ASSUME NEW row \in Int, ledger' = Append(front, row)
        PROVE  ledger' \in Seq(Int) /\ Len(ledger') <= MaxRows
    <3>1. ledger' \in Seq(Int) /\ Len(ledger') = Len(front) + 1 /\ Len(front) \in Nat
        BY <1>4, <2>1, AppendProperties, LenProperties
    <3> QED BY <1>2, <1>3, <3>1
  <2> QED BY <1>3, <1>5, <2>1
<1>7. LedgerTypes'
    BY <1>2, <1>3, <1>6 DEF LedgerTypes
<1> QED BY <1>2, <1>7, FilesKept

\* Nothing is configured, and nobody runs.
LEMMA FilesInit ==
    ASSUME ConfigInit PROVE FInv
<1>1. FileTypes
    BY Settings DEF ConfigInit, FileTypes, Content, NoFile
<1>2. LedgerTypes
    BY EmptySeq, ConfigAssumption DEF ConfigInit, LedgerTypes, ConfigAssumption
<1>3. KeyWithAccount /\ Alone
    BY Settings DEF ConfigInit, KeyWithAccount, Alone, Busy, NoFile
<1> QED BY <1>1, <1>2, <1>3 DEF FInv

\* Every step of a command, and the ledger's, keeps the invariant.
LEMMA FilesStep ==
    ASSUME FInv, [ConfigNext]_configVars PROVE FInv'
<1>1. CASE UNCHANGED configVars
  <2>1. UNCHANGED <<disk, cfg, tmp, cmd, said, met, rows, stops>>
      BY <1>1 DEF configVars, files
  <2>2. LedgerTypes'
      BY <2>1 DEF FInv, LedgerTypes, rows
  <2> QED BY <2>1, <2>2, FilesKept
<1>2. CASE appendEarning
    BY <1>2, AppendKeeps
<1>3. ASSUME NEW c \in Commands,
             \/ \E price \in Prices : priceCommand(c, price)
             \/ \E price \in Prices, w \in Wallets :
                   initCommand(c, price, w)
             \/ walletNew(c)
      PROVE FInv'
    BY <1>3, CommandsBegin
<1>4. ASSUME NEW c \in Commands, Answered(c) \/ Interrupt(c) PROVE FInv'
    BY <1>4, AnsweredKeeps
<1>5. ASSUME NEW c \in Commands, Open(c) \/ Write(c) \/ Rename(c) PROVE FInv'
    BY <1>5, OpenKeeps, WriteKeeps, RenameKeeps
<1> QED BY <1>1, <1>2, <1>3, <1>4, <1>5 DEF ConfigNext

\* The invariant of the node's files holds of every behaviour of its commands.
THEOREM FilesInvariant ==
    ConfigSpec => []FInv
<1>1. ConfigInit => FInv
    BY FilesInit
<1>2. FInv /\ [ConfigNext]_configVars => FInv'
    BY FilesStep
<1> QED BY <1>1, <1>2, PTL DEF ConfigSpec

\* A command that is interrupted anywhere leaves a configuration that parses, with the
\* key of its account, for any number of commands, accounts, prices and interruptions.
THEOREM ConfigStaysWhole ==
    ConfigSpec => []ConfigWhole
<1>1. FInv => ConfigWhole
    BY FInvImplies
<1> QED BY <1>1, FilesInvariant, PTL

\* What the operator was last told is what the file holds, as long as commands do not
\* overlap.
THEOREM WhatIsSaidIsSaved ==
    ConfigSpec => []SaidIsSaved
<1>1. FInv => SaidIsSaved
    BY FInvImplies
<1> QED BY <1>1, FilesInvariant, PTL

\* A failed append cost its row, one cut short two rows at most, and the one whose half
\* line dangles has cost one so far; no more lines are spoilt than appends were cut.
Dangling == ledger # <<>> /\ ledger[Len(ledger)] = Partial
Half == IF Dangling THEN 1 ELSE 0
Good == Cardinality(Parsed(DOMAIN ledger))
LedgerCounted ==
    /\ earned + Half <= Good + failed + 2 * cut
    /\ Len(ledger) <= Good + cut
    /\ Len(ledger) <= earned

\* A line more, after the lines that parsed, counts if it parses.
Whole(lines) == {i \in DOMAIN lines : lines[i] > 0}
LEMMA LineMore ==
    ASSUME NEW front \in Seq(Int), NEW row \in Int
    PROVE  /\ Cardinality(Whole(front)) \in Nat
           /\ Cardinality(Whole(Append(front, row))) =
                  Cardinality(Whole(front)) + (IF row > 0 THEN 1 ELSE 0)
<1> DEFINE n == Len(front)
           longer == Append(front, row)
           old == Whole(front)
           new == Whole(longer)
<1>1. n \in Nat /\ DOMAIN front = 1..n /\ \A i \in 1..n : front[i] \in Int
    BY LenProperties, ElementOfSeq
<1>2. /\ DOMAIN longer = 1..(n + 1) /\ longer[n + 1] = row
      /\ \A i \in 1..n : longer[i] = front[i]
  <2>1. longer \in Seq(Int) /\ Len(longer) = n + 1
      BY AppendProperties
  <2> QED BY <1>1, <2>1, AppendProperties, LenProperties
<1>3. IsFiniteSet(old)
  <2>1. IsFiniteSet(1..n)
      BY <1>1, FS_Interval
  <2>2. old \subseteq 1..n
      BY <1>1 DEF Whole
  <2> QED BY <2>1, <2>2, FS_Subset
<1>4. new = old \cup (IF row > 0 THEN {n + 1} ELSE {})
    BY <1>1, <1>2 DEF Whole
<1>5. n + 1 \notin old
    BY <1>1 DEF Whole
<1>6. Cardinality(old) \in Nat
    BY <1>3, FS_CardinalityType
<1> HIDE DEF n, longer, old, new
<1>7. Cardinality(old \cup {n + 1}) = Cardinality(old) + 1
    BY <1>3, <1>5, FS_AddElement
<1>8. row > 0 => Cardinality(new) = Cardinality(old) + 1
    BY <1>4, <1>7
<1>9. ~(row > 0) => new = old
    BY <1>4
<1>10. Cardinality(old) \in Nat /\ Cardinality(new) = Cardinality(old) + (IF row > 0 THEN 1 ELSE 0)
    BY <1>6, <1>8, <1>9
<1> QED BY <1>10 DEF old, new, longer

\* A row appended, whole or in part, after a whole line or in half a one.
LEMMA AppendCounts ==
    ASSUME LedgerTypes, LedgerCounted, appendEarning
    PROVE  LedgerCounted'
<1> DEFINE front == IF Dangling THEN SubSeq(ledger, 1, Len(ledger) - 1) ELSE ledger
           old == Whole(front)
           k == Cardinality(old)
<1>1. /\ earned' = earned + 1
      /\ \/ /\ ledger' = Append(front, IF Dangling THEN Spoilt ELSE earned')
            /\ failed' = failed /\ cut' = cut
         \/ ledger' = ledger /\ cut' = cut /\ failed' = failed + 1
         \/ ledger' = Append(front, Partial) /\ cut' = cut + 1 /\ failed' = failed
    BY DEF appendEarning, Dangling
<1>2. ledger \in Seq(Int) /\ earned \in Nat /\ failed \in Nat /\ cut \in Nat
    BY DEF LedgerTypes
<1>3. Len(ledger) \in Nat /\ DOMAIN ledger = 1..Len(ledger)
    BY <1>2, LenProperties
<1>4. front \in Seq(Int) /\ old = Parsed(DOMAIN ledger)
  <2>1. CASE Dangling
    <3>1. Len(ledger) # 0 /\ ledger[Len(ledger)] = -1
        BY <1>2, <2>1, EmptySeq DEF Dangling, Partial
    <3>2. /\ front \in Seq(Int) /\ Len(front) = Len(ledger) - 1
          /\ \A i \in 1..(Len(ledger) - 1) : front[i] = ledger[i]
        BY <1>2, <1>3, <2>1, <3>1, SubSeqProperties
    <3>3. DOMAIN front = 1..(Len(ledger) - 1)
        BY <3>2, LenProperties
    <3> HIDE DEF front
    <3>4. Whole(front) = {i \in 1..Len(ledger) : ledger[i] > 0}
        BY <1>3, <3>1, <3>2, <3>3 DEF Whole
    <3> QED BY <1>3, <3>2, <3>4 DEF Parsed
  <2>2. CASE ~Dangling
      BY <1>2, <2>2 DEF Parsed, Whole
  <2> QED BY <2>1, <2>2
<1>5. /\ earned + Half <= k + failed + 2 * cut
      /\ Len(ledger) <= k + cut /\ Len(ledger) <= earned
      /\ k \in Nat /\ Good = k
      /\ Len(front) = Len(ledger) - Half /\ Half \in {0, 1}
  <2>1. Len(front) = Len(ledger) - Half /\ Half \in {0, 1}
    <3>1. CASE Dangling
      <4>1. Len(ledger) # 0
          BY <1>2, <3>1, EmptySeq DEF Dangling
      <4> QED BY <1>2, <1>3, <3>1, <4>1, SubSeqProperties DEF Half
    <3>2. CASE ~Dangling
        BY <1>3, <3>2 DEF Half
    <3> QED BY <3>1, <3>2
  <2>2. k \in Nat
    <3>1. Cardinality(Whole(front)) \in Nat
      <4> HIDE DEF front
      <4> QED BY <1>4, LineMore
    <3> QED BY <3>1
  <2> QED BY <1>4, <2>1, <2>2 DEF LedgerCounted, Good
<1>6. ASSUME NEW row \in Int, ledger' = Append(front, row)
      PROVE  /\ Good' = k + (IF row > 0 THEN 1 ELSE 0) /\ k \in Nat
             /\ Dangling' <=> row = -1
             /\ Len(ledger') = Len(front) + 1 /\ Len(front) \in Nat /\ ledger'[Len(ledger')] = row
             /\ DOMAIN ledger' = 1..(Len(front) + 1)
             /\ \A i \in 1..Len(front) : ledger'[i] = front[i]
  <2> HIDE DEF front
  <2>1. Parsed(DOMAIN ledger)' = Whole(Append(front, row))
      BY <1>6 DEF Parsed, Whole
  <2>2. Good' = k + (IF row > 0 THEN 1 ELSE 0) /\ k \in Nat
      BY <1>4, <2>1, LineMore DEF Good
  <2>3. /\ ledger' \in Seq(Int) /\ Len(ledger') = Len(front) + 1 /\ Len(front) \in Nat
        /\ ledger'[Len(front) + 1] = row /\ \A i \in 1..Len(front) : ledger'[i] = front[i]
      BY <1>4, <1>6, AppendProperties, LenProperties
  <2>4. ledger' # <<>> /\ DOMAIN ledger' = 1..(Len(front) + 1)
      BY <2>3, LenProperties, EmptySeq
  <2>5. Dangling' <=> row = -1
      BY <2>3, <2>4 DEF Dangling, Partial
  <2> QED BY <2>2, <2>3, <2>4, <2>5
<1> HIDE DEF front, old, k
<1>7. CASE ledger' = Append(front, IF Dangling THEN Spoilt ELSE earned') /\ failed' = failed /\ cut' = cut
  <2>1. PICK row \in Int : row = (IF Dangling THEN -2 ELSE earned + 1) /\ ledger' = Append(front, row)
      BY <1>1, <1>2, <1>7 DEF Spoilt
  <2>2. Half' = 0 /\ Len(ledger') = Len(front) + 1
      BY <1>2, <1>6, <2>1 DEF Half
  <2>3. Good' = k + 1 - Half
      BY <1>2, <1>6, <2>1 DEF Half
  <2> QED BY <1>1, <1>2, <1>3, <1>5, <1>7, <2>2, <2>3 DEF LedgerCounted
<1>8. CASE ledger' = ledger /\ cut' = cut /\ failed' = failed + 1
  <2>1. Good' = Good /\ Half' = Half
      BY <1>8 DEF Good, Parsed, Half, Dangling
  <2> QED BY <1>1, <1>2, <1>3, <1>5, <1>8, <2>1 DEF LedgerCounted
<1>9. CASE ledger' = Append(front, Partial) /\ cut' = cut + 1 /\ failed' = failed
  <2>1. Partial = -1 /\ Partial \in Int
      BY DEF Partial
  <2>2. Half' = 1 /\ Len(ledger') = Len(front) + 1 /\ Good' = k
      BY <1>5, <1>6, <1>9, <2>1 DEF Half
  <2> QED BY <1>1, <1>2, <1>3, <1>5, <1>9, <2>2 DEF LedgerCounted
<1> QED BY <1>1, <1>7, <1>8, <1>9

\* Only an append writes to the ledger.
LEMMA CountStep ==
    ASSUME FInv, LedgerCounted, [ConfigNext]_configVars
    PROVE  LedgerCounted'
<1>1. CASE appendEarning
    BY <1>1, AppendCounts DEF FInv
<1>2. CASE UNCHANGED rows
  <2>1. UNCHANGED <<ledger, earned, failed, cut>>
      BY <1>2 DEF rows
  <2>2. Good' = Good /\ Half' = Half
      BY <2>1 DEF Good, Parsed, Half, Dangling
  <2> QED BY <2>1, <2>2 DEF LedgerCounted
<1>3. ASSUME NEW c \in Commands,
             \/ \E price \in Prices : priceCommand(c, price)
             \/ \E price \in Prices, w \in Wallets : initCommand(c, price, w)
             \/ walletNew(c) \/ Answered(c) \/ Interrupt(c) \/ Open(c) \/ Write(c) \/ Rename(c)
      PROVE  UNCHANGED rows
    BY <1>3 DEF priceCommand, initCommand, walletNew, Begin, Answered, Interrupt, Open, Write, Rename
<1>4. CASE UNCHANGED configVars
    BY <1>4, <1>2 DEF configVars
<1> QED BY <1>1, <1>2, <1>3, <1>4 DEF ConfigNext

\* Of the lines it looks at, the reader misses no more than appends were cut short, and
\* it counts no row twice.
LEMMA WindowCounts ==
    ASSUME LedgerTypes, LedgerCounted
    PROVE  LedgerKept
<1> DEFINE lines == DOMAIN ledger
           good == Parsed(lines)
           window == Window(Limit)
           read == Parsed(window)
<1>1. /\ ledger \in Seq(Int) /\ earned \in Nat /\ failed \in Nat /\ cut \in Nat /\ Limit \in Nat \ {0}
    BY ConfigAssumption DEF LedgerTypes, ConfigAssumption
<1>2. lines = 1..Len(ledger) /\ Len(ledger) \in Nat
    BY <1>1, LenProperties
<1>3. IsFiniteSet(lines) /\ Cardinality(lines) = Len(ledger)
  <2> HIDE DEF lines
  <2>1. Len(ledger) - 1 + 1 = Len(ledger) /\ (1 > Len(ledger) => Len(ledger) = 0)
      BY <1>2
  <2> QED BY <1>2, <2>1, FS_Interval
<1>4. good \subseteq lines /\ window \subseteq lines /\ read \subseteq good /\ read \subseteq window
      /\ window \ read \subseteq lines \ good
    BY DEF Parsed, Window
<1> HIDE DEF lines, good, window, read
<1>5. /\ IsFiniteSet(good) /\ Cardinality(good) \in Nat
      /\ IsFiniteSet(window) /\ Cardinality(window) \in Nat
      /\ IsFiniteSet(read) /\ Cardinality(read) \in Nat
      /\ IsFiniteSet(lines \ good) /\ Cardinality(lines \ good) \in Nat
      /\ Cardinality(good) <= Cardinality(lines) /\ Cardinality(read) <= Cardinality(good)
  <2>1. IsFiniteSet(good) /\ IsFiniteSet(window) /\ IsFiniteSet(lines \ good)
        /\ Cardinality(good) <= Cardinality(lines)
      BY <1>3, <1>4, FS_Subset
  <2>2. IsFiniteSet(read) /\ Cardinality(read) <= Cardinality(good)
      BY <1>4, <2>1, FS_Subset
  <2> QED BY <2>1, <2>2, FS_CardinalityType
<1>6. /\ earned <= Cardinality(good) + failed + 2 * cut
      /\ Len(ledger) <= Cardinality(good) + cut /\ Len(ledger) <= earned
    BY <1>1, <1>2, <1>5 DEF LedgerCounted, Good, Half, good, lines
<1>7. Cardinality(lines \ good) = Cardinality(lines) - Cardinality(good)
  <2>1. Cardinality(lines \ good) = Cardinality(lines) - Cardinality(lines \cap good)
      BY <1>3, FS_Difference
  <2>2. lines \cap good = good
      BY <1>4
  <2> QED BY <2>1, <2>2
<1>8. IsFiniteSet(window \ read) /\ Cardinality(window \ read) <= Cardinality(lines \ good)
      /\ Cardinality(window \ read) = Cardinality(window) - Cardinality(read)
  <2>1. Cardinality(window \ read) = Cardinality(window) - Cardinality(window \cap read)
      BY <1>5, FS_Difference
  <2>2. window \cap read = read
      BY <1>4
  <2> QED BY <1>4, <1>5, <2>1, <2>2, FS_Subset
<1>9. Len(ledger) <= Limit => window = lines
    BY <1>1, <1>2 DEF window, Window, lines
<1>10. Len(ledger) > Limit => Cardinality(window) = Limit
  <2>1. SUFFICES ASSUME Len(ledger) > Limit PROVE Cardinality(window) = Limit
      OBVIOUS
  <2>2. window = (Len(ledger) - Limit + 1)..Len(ledger)
      BY <1>1, <1>2, <2>1 DEF window, Window, lines
  <2>3. Len(ledger) - (Len(ledger) - Limit + 1) + 1 = Limit
      BY <1>1, <1>2
  <2> QED BY <1>1, <1>2, <2>1, <2>2, <2>3, FS_Interval
<1>11. earningsCommand = Cardinality(read)
    BY DEF earningsCommand, readEarnings, read, window
<1>12. CASE Len(ledger) <= Limit
  <2>1. read = good
      BY <1>9, <1>12 DEF read, good
  <2> QED BY <1>1, <1>2, <1>3, <1>5, <1>6, <1>11, <2>1 DEF LedgerKept
<1>13. CASE Len(ledger) > Limit
  <2>1. Cardinality(read) + cut >= Limit /\ Cardinality(read) <= earned
      BY <1>1, <1>2, <1>3, <1>5, <1>6, <1>7, <1>8, <1>10, <1>13
  <2> QED BY <1>11, <2>1 DEF LedgerKept
<1> QED BY <1>1, <1>2, <1>12, <1>13

\* However many rows, failed and interrupted appends and lines looked at: what `earnings`
\* calls lifetime is no more than the node earned, and less by no more than the failed
\* appends cost their rows and the interrupted ones theirs and the next, or by what the
\* limit leaves out (config.ts:153, earnings.ts:22).
THEOREM LedgerIsKept ==
    ConfigSpec => []LedgerKept
<1>1. ConfigInit => LedgerCounted
  <2>1. ASSUME ConfigInit PROVE LedgerCounted
    <3>1. /\ ledger = <<>> /\ earned = 0 /\ failed = 0 /\ cut = 0
          /\ Len(ledger) = 0 /\ DOMAIN ledger = {}
        BY <2>1, EmptySeq DEF ConfigInit
    <3>2. Parsed(DOMAIN ledger) = {} /\ Cardinality({}) = 0
        BY <3>1, FS_EmptySet DEF Parsed
    <3>3. Good = 0 /\ Half = 0
        BY <3>1, <3>2 DEF Good, Half, Dangling
    <3> QED BY <3>1, <3>3 DEF LedgerCounted
  <2> QED BY <2>1
<1>2. FInv /\ LedgerCounted /\ [ConfigNext]_configVars => LedgerCounted'
    BY CountStep
<1>3. FInv /\ LedgerCounted => LedgerKept
    BY WindowCounts DEF FInv
<1> QED BY <1>1, <1>2, <1>3, FilesInvariant, PTL DEF ConfigSpec

-----------------------------------------------------------------------------
(* What the node's operator is told, for any machines, accounts, lives of   *)
(* a session and number of changes.                                         *)

\* An association that was reported is there for good.
Associated == associating = "done" => account.associated
OInv == DoctorTypeOK /\ Associated

\* A session that a command has just found alive serves the running node as well: it
\* has the same one, or an older one that states when it ends and is not over.
LEMMA SessionShared ==
    ASSUME DoctorTypeOK, Lives(Found),
           cache = NoToken \/ cache.stated
    PROVE  Lives(agentCredentials(cache))
<1>1. CASE isStale(cache)
    BY <1>1 DEF agentCredentials
<1>2. CASE ~isStale(cache)
  <2>1. cache # NoToken /\ cache.stated /\ ~(clock >= cache.exp - Margin)
      BY <1>2 DEF isStale
  <2>2. cache.exp \in Int /\ clock \in Int /\ Margin \in Nat
      BY DoctorAssumption DEF DoctorTypeOK, Token, DoctorAssumption
  <2> QED BY <1>2, <2>1, <2>2 DEF agentCredentials, Lives
<1> QED BY <1>1, <1>2

\* A session that states its end, and that has not expired, is alive.
LEMMA StatedIsLive ==
    ASSUME DoctorTypeOK, Found # NoToken, Found.stated,
           ~credentialsExpired
    PROVE  Lives(Found)
<1>1. MaxTime \in Nat /\ Life \in Nat
    BY DoctorAssumption DEF DoctorAssumption
<1>2. Found \in Token /\ clock \in 0..MaxTime
    BY DEF DoctorTypeOK, Found
<1>3. clock \in Int /\ Found.exp \in Int
    BY <1>1, <1>2 DEF Token
<1>4. ~(clock >= Found.exp)
    BY DEF credentialsExpired
<1> QED BY <1>3, <1>4 DEF Lives

\* A transfer in USDC lands wherever doctor says that USDC can be received, and on every
\* associated account.
LEMMA LandsWhereTold ==
    (canReceiveUsdc => TransferLands) /\ (account.associated => TransferLands)
BY DEF canReceiveUsdc, TransferLands

\* With no problem reported, no single check has failed.
LEMMA NoCheckFailed ==
    ASSUME doctorCommand \in {"nothing broken", "all clear"}
    PROVE  /\ "fail" \notin configChecks /\ "fail" \notin payoutChecks
           /\ "fail" \notin brokerChecks /\ "fail" \notin adapterChecks
<1> DEFINE checks == configChecks \cup sandboxChecks \cup payoutChecks
                     \cup brokerChecks \cup adapterChecks
<1>1. doctorCommand = IF detectSandbox = Refused THEN "error"
                          ELSE IF "fail" \in checks THEN "problems"
                          ELSE IF "warn" \in checks THEN "nothing broken" ELSE "all clear"
    BY DEF doctorCommand
<1> HIDE DEF checks
<1>2. "fail" \notin checks
    BY <1>1
<1> QED BY <1>2 DEF checks

\* What doctor finds unbroken earns, where the sandbox leaves the agent in sight and
\* the sign-in confirmed is one that a job gets.
LEMMA UnbrokenEarns ==
    ASSUME DoctorTypeOK, ~paused, AgentInSight,
           doctorCommand \in {"nothing broken", "all clear"},
           \A token \in {Found, cache} : token = NoToken \/ token.stated,
           NEW k \in config.sells \ {"grok"}, probeAuth(k) = "in"
    PROVE  Earns(k)
<1>1. /\ "fail" \notin configChecks /\ "fail" \notin payoutChecks
      /\ "fail" \notin brokerChecks /\ "fail" \notin adapterChecks
    BY NoCheckFailed
<1>2. config # NoConfig /\ config.account
    BY <1>1 DEF configChecks
<1>3. TransferLands
    BY <1>1, <1>2, LandsWhereTold DEF payoutChecks
<1>4. config.network = world.network
    BY <1>1, <1>2 DEF brokerChecks
<1>5. k \in {"claude-code", "codex"}
    BY <1>2 DEF DoctorTypeOK, Kinds
<1>6. k \in agents
  <2>1. adapterCheck(k) # "fail"
      BY <1>1, <1>2, <1>5 DEF adapterChecks, Kinds
  <2> QED BY <2>1 DEF adapterCheck
<1>7. k = "claude-code" => Lives(agentCredentials(cache))
  <2>1. SUFFICES ASSUME k = "claude-code" PROVE Lives(agentCredentials(cache))
      OBVIOUS
  <2>2. Found # NoToken /\ ~credentialsExpired
      BY <2>1 DEF probeAuth
  <2>3. Found.stated
      BY <2>2
  <2> QED BY <2>2, <2>3, StatedIsLive, SessionShared
<1>8. k = "codex" => k \in signed
    BY DEF probeAuth, Evidence
<1>9. Answers(k, cache)
    BY <1>5, <1>6, <1>7, <1>8 DEF Answers
<1> QED BY <1>2, <1>3, <1>4, <1>9 DEF Earns

\* What test has run works on the node.
LEMMA TestSpeaks ==
    ASSUME DoctorTypeOK PROVE TestSpeaksForNode
<1>1. SUFFICES ASSUME testCommand \in {"healthy", "below cost"},
                      cache = NoToken \/ cache.stated, NEW k \in config.sells
               PROVE  Answers(k, cache)
    BY DEF TestSpeaksForNode
<1>2. Answers(k, NoToken)
    BY <1>1 DEF testCommand
<1>3. agentCredentials(NoToken) = Found
    BY DEF agentCredentials, isStale
<1>4. k = "claude-code" /\ wrapCommand # "container" => Lives(Found)
    BY <1>2, <1>3 DEF Answers
<1> QED BY <1>1, <1>2, <1>4, SessionShared DEF Answers

\* The invariant says what the two properties say.
LEMMA OInvImplies ==
    ASSUME OInv
    PROVE  NothingBrokenEarns /\ TestSpeaksForNode
<1>1. NothingBrokenEarns
    BY UnbrokenEarns, LandsWhereTold DEF NothingBrokenEarns, OInv, Associated
<1> QED BY <1>1, TestSpeaks DEF OInv

\* A machine as it is bought, with nothing configured.
LEMMA DocInit == ASSUME DoctorInit PROVE OInv
<1>1. MaxTime \in Nat /\ Life \in Nat /\ MaxChanges \in Nat
    BY DoctorAssumption DEF DoctorAssumption
<1>2. NoToken \in Token
    BY <1>1 DEF NoToken, Token
<1>3. account \in [associated: BOOLEAN, slots: Nat \cup {-1}, held: Nat]
    BY DoctorAssumption DEF DoctorInit, DoctorAssumption
<1>4. agents \subseteq Kinds /\ signed \subseteq SignIns
    BY DEF DoctorInit, Kinds
<1>5. world \in [mirror: BOOLEAN, broker: BOOLEAN, network: Networks]
    BY DEF DoctorInit, Networks
<1>6. DoctorTypeOK
  <2>1. /\ machine \in Machines /\ config = NoConfig /\ paused \in BOOLEAN
        /\ {keychain, file, cache} \subseteq Token /\ associating = "no"
      BY <1>2 DEF DoctorInit
  <2>2. clock \in 0..MaxTime /\ changes \in 0..MaxChanges
      BY <1>1 DEF DoctorInit
  <2> QED BY <1>3, <1>4, <1>5, <2>1, <2>2 DEF DoctorTypeOK
<1> QED BY <1>6 DEF DoctorInit, OInv, Associated

\* What the operator does keeps the types, and so does what the world does; an
\* association stays.
LEMMA DocStep ==
    ASSUME OInv, [DoctorNext]_doctorVars PROVE OInv'
<1>1. DoctorTypeOK /\ Associated
    BY DEF OInv
<1>2. MaxTime \in Nat /\ Life \in Nat /\ MaxChanges \in Nat /\ Offers \subseteq SUBSET Kinds
    BY DoctorAssumption DEF DoctorAssumption
<1> USE DEF box, session, wallet
<1>3. Change => changes' \in 0..MaxChanges
    BY <1>1, <1>2 DEF Change, DoctorTypeOK
<1>4. CASE UNCHANGED doctorVars
    BY <1>1, <1>4 DEF doctorVars, OInv, Associated, DoctorTypeOK
<1>5. ASSUME NEW sells \in Offers, NEW network \in Networks, NEW cheap \in BOOLEAN,
             Configure(sells, network, cheap)
      PROVE  OInv'
  <2>1. config' \in [sells: SUBSET Kinds, account: BOOLEAN, cheap: BOOLEAN,
                     network: Networks]
      BY <1>2, <1>5 DEF Configure
  <2> QED BY <1>1, <1>3, <1>5, <2>1 DEF Configure, OInv, Associated, DoctorTypeOK
<1>6. CASE pauseCommand \/ resumeCommand
    BY <1>1, <1>3, <1>6 DEF pauseCommand, resumeCommand, OInv, Associated, DoctorTypeOK
<1>7. ASSUME NEW k \in Kinds, Install(k) PROVE OInv'
    BY <1>1, <1>3, <1>7 DEF Install, OInv, Associated, DoctorTypeOK
<1>15. ASSUME NEW way \in SignIns, SignIn(way) PROVE OInv'
    BY <1>1, <1>3, <1>15 DEF SignIn, OInv, Associated, DoctorTypeOK
<1>8. ASSUME NEW stated \in BOOLEAN, Login(stated) PROVE OInv'
  <2>1. [exp |-> clock + Life, stated |-> stated] \in Token
      BY <1>1, <1>2 DEF DoctorTypeOK, Token
  <2> QED BY <1>1, <1>3, <1>8, <2>1 DEF Login, OInv, Associated, DoctorTypeOK
<1>9. CASE walletAssociate
    BY <1>1, <1>9 DEF walletAssociate, OInv, Associated, DoctorTypeOK
<1>10. CASE associateToken
    BY <1>1, <1>10 DEF associateToken, OInv, Associated, DoctorTypeOK
<1>11. CASE Tick
    BY <1>1, <1>2, <1>11 DEF Tick, OInv, Associated, DoctorTypeOK
<1>12. CASE Airdrop
    BY <1>1, <1>3, <1>12 DEF Airdrop, OInv, Associated, DoctorTypeOK
<1>13. CASE Turn
  <2>1. world' \in [mirror: BOOLEAN, broker: BOOLEAN, network: Networks]
      BY <1>1, <1>13 DEF Turn, DoctorTypeOK, Networks
  <2> QED BY <1>1, <1>3, <1>13, <2>1 DEF Turn, OInv, Associated, DoctorTypeOK
<1>14. CASE Job
  <2>1. cache' \in Token
      BY <1>1, <1>14 DEF Job, agentCredentials, Found, DoctorTypeOK
  <2> QED BY <1>1, <1>14, <2>1 DEF Job, OInv, Associated, DoctorTypeOK
<1> QED BY <1>4, <1>5, <1>6, <1>7, <1>8, <1>9, <1>10, <1>11, <1>12, <1>13, <1>14, <1>15
        DEF DoctorNext, Operator, World

\* The invariant holds of every behaviour of the operator, the node and the world.
THEOREM OperatorInvariant ==
    DoctorSpec => []OInv
<1>1. DoctorInit => OInv
    BY DocInit
<1>2. OInv /\ [DoctorNext]_doctorVars => OInv'
    BY DocStep
<1> QED BY <1>1, <1>2, PTL DEF DoctorSpec

\* What doctor finds unbroken earns on the running node, but for the ways out that
\* NothingBrokenEarns names, for any machine, account and life of a session.
THEOREM UnbrokenNodesEarn ==
    DoctorSpec => []NothingBrokenEarns
<1>1. OInv => NothingBrokenEarns
    BY OInvImplies
<1> QED BY <1>1, OperatorInvariant, PTL

\* A job that test runs speaks for the running node.
THEOREM TestsSpeakForNodes ==
    DoctorSpec => []TestSpeaksForNode
<1>1. OInv => TestSpeaksForNode
    BY OInvImplies
<1> QED BY <1>1, OperatorInvariant, PTL
=============================================================================
