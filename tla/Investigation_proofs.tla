------------------------- MODULE Investigation_proofs -------------------------
(* Theorems about Investigation, for any number of investigations, workers, *)
(* agents, searches in the budget and steps before the limits.              *)
EXTENDS Investigation, FiniteSetTheorems, TLAPS

(***************************************************************************)
(* The inductive invariant.  Committed is what the budget test cannot see: *)
(* the workers past the test whose search is not counted yet.              *)
(***************************************************************************)
Committed == {w \in Workers : worker[w] \in PastCheck}

OverrunInv ==
  \/ searchesUsed = 0 /\ Committed = {}
  \/ searchesUsed + Cardinality(Committed) < WEB_SEARCH_BUDGET + Cardinality(Workers)

\* Calls run in the tool step only; between steps they are absent or waiting, and
\* a run that concluded has left none.
CallOf(w) ==
  /\ phase[Owner(w)] \in {"idle", "model"} => worker[w] = "free"
  /\ phase[Owner(w)] = "tools" => worker[w] \in Asked \cup {"free"}
  /\ Owner(w) \in Runs /\ Concluded(Owner(w)) => worker[w] = "free"
CallsInv == \A w \in Workers : CallOf(w)

\* An agent runs while its call waits for it; its error is the call's.
AgentOf(a) ==
  /\ phase[a] \in {"idle", "model", "tools", "running", "failed"}
  /\ phase[a] \in {"model", "tools", "running"} <=> worker[a] = "delegated"
  /\ phase[a] = "failed" => worker[a] \in Errors
AgentsInv == \A a \in Agents : AgentOf(a)

\* A page an investigation's own call found is in this tool step or in the
\* transcript already.
PagesInv ==
  /\ \A r \in Runs : r \in found <=> (r \in sourced \/ AnyPage(r))
  /\ \A r \in Runs : phase[r] = "over" => (report[r] # None)
  /\ \A r \in Runs : report[r] # None =>
       /\ phase[r] = "over"
       /\ ~report[r].truncated => report[r].web_sources = (r \in sourced)

IInv == TypeOK /\ OverrunInv /\ CallsInv /\ AgentsInv /\ PagesInv

\* There are finitely many workers.
LEMMA WorkersFinite == IsFiniteSet(Workers) /\ Cardinality(Workers) \in Nat
BY InvestigationAssumption, FS_Union, FS_CardinalityType DEF Workers

\* Every worker belongs to a run or to an agent, never to both; an agent runs on
\* a worker of a run.
LEMMA Owners ==
  /\ \A w \in Workers : Owner(w) \in Loops
  /\ \A a \in Agents : a \in Workers /\ a \in Loops /\ a \notin Runs /\ Owner(a) \in Runs
  /\ \A r \in Runs : r \in Loops
BY InvestigationAssumption DEF Workers, Loops, Agents

LEMMA InitInvariant == Init => IInv
<1> SUFFICES ASSUME Init PROVE IInv
  OBVIOUS
<1>1. TypeOK
  <2>1. step \in [Loops -> Nat] /\ \A l \in Loops : step[l] <= Limit(l)
    BY InvestigationAssumption DEF Init, Limit
  <2>2. worker \in [Workers -> WorkerStates]
    BY DEF Init, WorkerStates
  <2>3. phase \in [Loops -> {"idle", "model", "tools", "running", "over", "failed"}]
    BY DEF Init
  <2>4. report \in [Runs -> Report \cup {None}]
    BY DEF Init
  <2> QED
    BY <2>1, <2>2, <2>3, <2>4 DEF Init, TypeOK
<1>2. OverrunInv
  BY DEF Init, OverrunInv, Committed, PastCheck
<1>3. CallsInv
  BY DEF Init, CallsInv, CallOf
<1>4. AgentsInv
  BY Owners DEF Init, AgentsInv, AgentOf
<1>5. PagesInv
  BY Owners DEF Init, PagesInv, AnyPage, CallsOf
<1> QED
  BY <1>1, <1>2, <1>3, <1>4, <1>5 DEF IInv

\* A step that was left is counted within the limit.
LEMMA TallyTyped ==
  ASSUME TypeOK, NEW l \in Loops, StepLeft(l), step' = Tally(l)
  PROVE  step' \in [Loops -> Nat] /\ \A k \in Loops : step'[k] <= Limit(k)
BY InvestigationAssumption DEF TypeOK, StepLeft, Tally, Limit

\* The steps of a loop, one of a run or of an agent.
LEMMA LoopTypes == ASSUME TypeOK, NEW l \in Loops, LoopStep(l) PROVE TypeOK'
<1> USE InvestigationAssumption DEF globals, loops, threads, Goto, Becomes
<1>1. CASE Ask(l)
  <2>1. worker' \in [Workers -> WorkerStates]
    <3>1. PICK asked \in [{w \in Workers : Owner(w) = l} -> Asked \cup {"free"}] :
            worker' = [w \in Workers |-> IF Owner(w) = l THEN asked[w] ELSE worker[w]]
      BY <1>1 DEF Ask
    <3> QED BY <3>1 DEF TypeOK, WorkerStates
  <2>2. phase' \in [Loops -> {"idle", "model", "tools", "running", "over", "failed"}]
    BY <1>1 DEF Ask, TypeOK
  <2>3. StepLeft(l) /\ step' = Tally(l) /\ UNCHANGED <<globals, sourced, report, found>>
    BY <1>1 DEF Ask
  <2> QED BY <2>1, <2>2, <2>3, TallyTyped DEF TypeOK
<1>2. CASE Dispatch(l)
  <2>1. worker' \in [Workers -> WorkerStates]
    BY <1>2 DEF Dispatch, TypeOK, WorkerStates, Started
  <2>2. phase' \in [Loops -> {"idle", "model", "tools", "running", "over", "failed"}]
    BY <1>2 DEF Dispatch, TypeOK
  <2>3. StepLeft(l) /\ step' = Tally(l) /\ UNCHANGED <<globals, sourced, report, found>>
    BY <1>2 DEF Dispatch
  <2> QED BY <2>1, <2>2, <2>3, TallyTyped DEF TypeOK
<1>3. CASE Join(l)
  BY <1>3 DEF Join, TypeOK, WorkerStates
<1> QED BY <1>1, <1>2, <1>3 DEF LoopStep

\* Every step keeps the types.
LEMMA TypeStep == TypeOK /\ [Next]_vars => TypeOK'
<1> SUFFICES ASSUME TypeOK, [Next]_vars PROVE TypeOK'
  OBVIOUS
<1> USE InvestigationAssumption DEF globals, loops, threads, Goto, Becomes
<1>1. ASSUME NEW r \in Runs, Begin(r) PROVE TypeOK'
  BY <1>1, Owners DEF Begin, TypeOK
<1>2. ASSUME NEW l \in Loops, LoopStep(l) PROVE TypeOK'
  BY <1>2, LoopTypes
<1>3. ASSUME NEW r \in Runs, Conclude(r) PROVE TypeOK'
  <2>1. Assembled(Extracted(r), FALSE) \in Report
    BY DEF Assembled, Extracted, Report
  <2>2. report' \in [Runs -> Report \cup {None}]
    BY <1>3, <2>1 DEF Conclude, TypeOK
  <2>3. step' \in [Loops -> Nat] /\ \A l \in Loops : step'[l] <= Limit(l)
    BY <1>3, TallyTyped, Owners DEF Conclude
  <2> QED
    BY <1>3, <2>2, <2>3 DEF Conclude, TypeOK
<1>4. ASSUME NEW r \in Runs, OutOfSteps(r) PROVE TypeOK'
  <2>1. Assembled(Truncated, TRUE) \in Report
    BY DEF Assembled, Truncated, Report
  <2> QED
    BY <1>4, <2>1 DEF OutOfSteps, CutShort, TypeOK
<1>5. ASSUME NEW r \in Runs, Fail(r) PROVE TypeOK'
  BY <1>5 DEF Fail, TypeOK
<1>6. ASSUME NEW a \in Agents, StartAgent(a) PROVE TypeOK'
  BY <1>6, Owners DEF StartAgent, TypeOK, WorkerStates, Limit
<1>7. ASSUME NEW a \in Agents, AgentAnswers(a) PROVE TypeOK'
  <2>1. step' \in [Loops -> Nat] /\ \A l \in Loops : step'[l] <= Limit(l)
    BY <1>7, TallyTyped, Owners DEF AgentAnswers
  <2> QED BY <1>7, <2>1 DEF AgentAnswers, TypeOK, WorkerStates, Answers
<1>8. ASSUME NEW a \in Agents, AgentStops(a) PROVE TypeOK'
  BY <1>8 DEF AgentStops, TypeOK, WorkerStates, Errors
<1>9. ASSUME NEW w \in Workers, CheckBudget(w) PROVE TypeOK'
  BY <1>9 DEF CheckBudget, TypeOK, WorkerStates, PastCheck, Answers
<1>10. ASSUME NEW w \in Workers, GetClient(w) PROVE TypeOK'
  BY <1>10 DEF GetClient, TypeOK, WorkerStates, PastCheck, Answers
<1>11. ASSUME NEW w \in Workers, BuildClient(w) PROVE TypeOK'
  BY <1>11 DEF BuildClient, TypeOK, WorkerStates, PastCheck, Answers
<1>12. ASSUME NEW w \in Workers, CountSearch(w) PROVE TypeOK'
  BY <1>12 DEF CountSearch, TypeOK, WorkerStates
<1>13. ASSUME NEW w \in Workers, WebAnswers(w) PROVE TypeOK'
  <2>1. worker' \in [Workers -> WorkerStates]
    BY <1>13 DEF WebAnswers, TypeOK, WorkerStates, Answers
  <2>2. found' \subseteq Loops
    BY <1>13, Owners DEF WebAnswers, TypeOK
  <2> QED
    BY <1>13, <2>1, <2>2 DEF WebAnswers, TypeOK
<1>14. ASSUME NEW w \in Workers, GraphAnswers(w) PROVE TypeOK'
  BY <1>14 DEF GraphAnswers, TypeOK, WorkerStates, Answers, Errors
<1>15. ASSUME UNCHANGED vars PROVE TypeOK'
  BY <1>15 DEF vars, TypeOK
<1> QED
  BY <1>1, <1>2, <1>3, <1>4, <1>5, <1>6, <1>7, <1>8, <1>9, <1>10, <1>11, <1>12,
     <1>13, <1>14, <1>15, Owners DEF Next, RunStep, AgentStep, WorkerStep

\* What the loops do to the workers: they touch no global, and a worker they move
\* is in none of the states of a search under way.
Searches == PastCheck \cup {"request", "page", "unavailable"}

LEMMA LoopMoves ==
  ASSUME TypeOK, \/ \E r \in Runs : RunStep(r)
                 \/ \E a \in Agents : AgentStep(a)
  PROVE  /\ UNCHANGED globals
         /\ \A w \in Workers : worker'[w] \in Searches => worker[w] = worker'[w]
<1> USE DEF Goto, Becomes, Searches, PastCheck
<1>1. ASSUME NEW l \in Loops, LoopStep(l)
      PROVE  /\ UNCHANGED globals
             /\ \A w \in Workers : worker'[w] \in Searches => worker[w] = worker'[w]
  <2>1. CASE Ask(l)
    <3>1. PICK asked \in [{w \in Workers : Owner(w) = l} -> Asked \cup {"free"}] :
            worker' = [w \in Workers |-> IF Owner(w) = l THEN asked[w] ELSE worker[w]]
      BY <2>1 DEF Ask
    <3> QED BY <2>1, <3>1 DEF Ask, Asked
  <2>2. CASE Dispatch(l)
    BY <2>2 DEF Dispatch, Started
  <2>3. CASE Join(l)
    BY <2>3 DEF Join
  <2> QED BY <1>1, <2>1, <2>2, <2>3 DEF LoopStep
<1>2. ASSUME NEW r \in Runs, Conclude(r) \/ OutOfSteps(r) \/ Fail(r)
      PROVE  UNCHANGED globals /\ worker' = worker
  BY <1>2 DEF Conclude, OutOfSteps, Fail, threads
<1>3. ASSUME NEW a \in Agents, StartAgent(a) \/ AgentAnswers(a) \/ AgentStops(a)
      PROVE  /\ UNCHANGED globals
             /\ \A w \in Workers : worker'[w] \in Searches => worker[w] = worker'[w]
  BY <1>3 DEF StartAgent, AgentAnswers, AgentStops, TypeOK
<1> QED BY <1>1, <1>2, <1>3, Owners DEF RunStep, AgentStep

(***************************************************************************)
(* The budget.                                                             *)
(***************************************************************************)

\* The committed workers are finitely many, at most all of them.
LEMMA CommittedFinite ==
  /\ IsFiniteSet(Committed) /\ Cardinality(Committed) \in Nat
  /\ Cardinality(Committed) <= Cardinality(Workers)
BY WorkersFinite, FS_Subset, FS_CardinalityType DEF Committed

\* Steps that commit nobody and count nothing leave the overrun where it was.
LEMMA FewerCommitted ==
  ASSUME TypeOK, OverrunInv, searchesUsed' = searchesUsed, Committed' \subseteq Committed
  PROVE  OverrunInv'
<1>1. IsFiniteSet(Committed') /\ Cardinality(Committed') <= Cardinality(Committed)
      /\ Cardinality(Committed') \in Nat
  BY CommittedFinite, FS_Subset, FS_CardinalityType
<1>2. CASE searchesUsed = 0 /\ Committed = {}
  BY <1>2 DEF OverrunInv
<1>3. CASE searchesUsed + Cardinality(Committed) < WEB_SEARCH_BUDGET + Cardinality(Workers)
  BY <1>1, <1>3, CommittedFinite, WorkersFinite, InvestigationAssumption DEF OverrunInv, TypeOK
<1> QED
  BY <1>2, <1>3 DEF OverrunInv

LEMMA OverrunStep == TypeOK /\ OverrunInv /\ [Next]_vars => OverrunInv'
<1> SUFFICES ASSUME TypeOK, OverrunInv, [Next]_vars PROVE OverrunInv'
  OBVIOUS
<1> USE DEF globals, loops, threads, Goto, Becomes
<1>1. ASSUME NEW r \in Runs, Begin(r) PROVE OverrunInv'
  <2>1. searchesUsed' = 0 /\ Committed' = Committed
    BY <1>1 DEF Begin, Committed
  <2>2. CASE Committed = {}
    BY <2>1, <2>2 DEF OverrunInv
  <2>3. CASE searchesUsed + Cardinality(Committed) < WEB_SEARCH_BUDGET + Cardinality(Workers)
    BY <2>1, <2>3, CommittedFinite, WorkersFinite, InvestigationAssumption
    DEF OverrunInv, TypeOK
  <2> QED
    BY <2>2, <2>3 DEF OverrunInv
<1>2. CASE (\E r \in Runs : RunStep(r)) \/ \E a \in Agents : AgentStep(a)
  BY <1>2, LoopMoves, FewerCommitted DEF Committed, Searches
<1>3. ASSUME NEW w \in Workers, CheckBudget(w) PROVE OverrunInv'
  <2>1. CASE ~BudgetLeft
    <3>1. \A x \in Workers : worker'[x] \in PastCheck => worker[x] \in PastCheck
      BY <1>3, <2>1 DEF CheckBudget, PastCheck, TypeOK
    <3> QED
      BY <1>3, <3>1, FewerCommitted DEF CheckBudget, Committed
  <2>2. CASE BudgetLeft
    <3>1. searchesUsed' = searchesUsed /\ searchesUsed < WEB_SEARCH_BUDGET
      BY <1>3, <2>2 DEF CheckBudget, BudgetLeft
    <3>2. IsFiniteSet(Committed') /\ Committed' \subseteq Workers
      BY WorkersFinite, FS_Subset DEF Committed
    <3>3. Cardinality(Committed') \in Nat /\ Cardinality(Committed') <= Cardinality(Workers)
      BY <3>2, WorkersFinite, FS_Subset, FS_CardinalityType
    <3> QED
      BY <3>1, <3>3, WorkersFinite, InvestigationAssumption DEF OverrunInv, TypeOK
  <2> QED
    BY <2>1, <2>2
<1>4. ASSUME NEW w \in Workers, CountSearch(w) PROVE OverrunInv'
  <2>1. w \in Committed
    BY <1>4 DEF CountSearch, Committed, PastCheck
  <2>2. Committed' = Committed \ {w}
    BY <1>4 DEF CountSearch, Committed, PastCheck, TypeOK
  <2>3. Cardinality(Committed') = Cardinality(Committed) - 1
    BY <2>1, <2>2, CommittedFinite, FS_RemoveElement
  <2>4. searchesUsed' = searchesUsed + 1
    BY <1>4 DEF CountSearch
  <2>5. searchesUsed + Cardinality(Committed) < WEB_SEARCH_BUDGET + Cardinality(Workers)
    BY <2>1 DEF OverrunInv
  <2> QED
    BY <2>3, <2>4, <2>5, CommittedFinite, WorkersFinite, InvestigationAssumption
    DEF OverrunInv, TypeOK
<1>5. ASSUME NEW w \in Workers,
             GetClient(w) \/ BuildClient(w) \/ WebAnswers(w) \/ GraphAnswers(w)
      PROVE  OverrunInv'
  <2>1. searchesUsed' = searchesUsed
    BY <1>5 DEF GetClient, BuildClient, WebAnswers, GraphAnswers
  <2>2. \A x \in Workers : worker'[x] \in PastCheck => worker[x] \in PastCheck
    BY <1>5 DEF GetClient, BuildClient, WebAnswers, GraphAnswers, PastCheck, TypeOK
  <2> QED
    BY <2>1, <2>2, FewerCommitted DEF Committed
<1>6. ASSUME UNCHANGED vars PROVE OverrunInv'
  BY <1>6, FewerCommitted DEF vars, Committed
<1> QED
  BY <1>1, <1>2, <1>3, <1>4, <1>5, <1>6 DEF Next, WorkerStep

(***************************************************************************)
(* The calls, the agents and the pages.                                    *)
(***************************************************************************)

\* A call that moves while its step runs is not absent or waiting, before or after.
Moved(w) == worker[w] \notin Asked \cup {"free"} /\ \A x \in Workers : x # w => worker'[x] = worker[x]

\* So neither its own loop nor any other is disturbed.
LEMMA MovedCalls ==
  ASSUME TypeOK, CallsInv, NEW w \in Workers, Moved(w), UNCHANGED report,
         NEW x \in Workers, phase'[Owner(x)] = phase[Owner(x)]
  PROVE  CallOf(x)'
BY DEF CallsInv, CallOf, Moved, Concluded, Asked

\* The calls across a loop's step, a run's end and an agent's.
LEMMA CallsStep == TypeOK /\ CallsInv /\ AgentsInv /\ PagesInv /\ [Next]_vars => CallsInv'
<1> SUFFICES ASSUME TypeOK, CallsInv, AgentsInv, PagesInv, [Next]_vars, NEW x \in Workers
             PROVE  CallOf(x)'
  BY DEF CallsInv
<1> USE DEF globals, loops, threads, Goto, Becomes
<1>0. Owner(x) \in Loops /\ CallOf(x)
  BY Owners DEF CallsInv
<1>1. ASSUME NEW r \in Runs, Begin(r) PROVE CallOf(x)'
  BY <1>0, <1>1 DEF Begin, CallOf, Concluded, TypeOK
<1>2. ASSUME NEW l \in Loops, LoopStep(l) PROVE CallOf(x)'
  <2>0. UNCHANGED report /\ (l \in Runs => ~Concluded(l)) /\ (Owner(x) # l => phase'[Owner(x)] = phase[Owner(x)])
    BY <1>0, <1>2 DEF LoopStep, Ask, Dispatch, Join, TypeOK, PagesInv, Concluded
  <2>1. CASE Owner(x) # l
    <3>1. worker'[x] = worker[x]
      BY <1>2, <2>1 DEF LoopStep, Ask, Dispatch, Join, CallsOf, TypeOK
    <3> QED BY <1>0, <2>0, <2>1, <3>1 DEF CallOf, Concluded
  <2>2. CASE Owner(x) = l /\ Ask(l)
    <3>1. phase'[l] = "tools" /\ worker'[x] \in Asked \cup {"free"}
      BY <1>0, <2>2 DEF Ask, TypeOK
    <3> QED BY <2>0, <2>2, <3>1 DEF CallOf, Concluded
  <2>3. CASE Owner(x) = l /\ Dispatch(l)
    BY <1>0, <2>0, <2>3 DEF Dispatch, CallOf, Concluded, TypeOK
  <2>4. CASE Owner(x) = l /\ Join(l)
    BY <1>0, <2>0, <2>4 DEF Join, CallOf, Concluded, TypeOK
  <2> QED BY <1>2, <2>1, <2>2, <2>3, <2>4 DEF LoopStep
<1>3. ASSUME NEW r \in Runs, Conclude(r) PROVE CallOf(x)'
  BY <1>0, <1>3 DEF Conclude, CallOf, Concluded, TypeOK
<1>4. ASSUME NEW r \in Runs, OutOfSteps(r) PROVE CallOf(x)'
  <2>1. Owner(x) \in Runs /\ Owner(x) # r => report'[Owner(x)] = report[Owner(x)]
    BY <1>4 DEF OutOfSteps, CutShort, TypeOK
  <2>2. report'[r].truncated
    BY <1>4 DEF OutOfSteps, CutShort, Assembled, TypeOK
  <2> QED BY <1>0, <1>4, <2>1, <2>2 DEF OutOfSteps, CallOf, Concluded, TypeOK
<1>5. ASSUME NEW r \in Runs, Fail(r) PROVE CallOf(x)'
  BY <1>0, <1>5 DEF Fail, CallOf, Concluded, TypeOK
<1>6. ASSUME NEW a \in Agents, StartAgent(a) PROVE CallOf(x)'
  <2>1. Moved(a) /\ UNCHANGED report /\ a \in Workers /\ (Owner(x) # a => phase'[Owner(x)] = phase[Owner(x)])
    BY <1>0, <1>6, Owners DEF StartAgent, Moved, Asked, TypeOK
  <2>2. CASE Owner(x) = a
    <3>1. phase[a] = "idle"
      BY <1>6 DEF StartAgent, AgentsInv, AgentOf, Errors
    <3>2. phase'[a] = "model" /\ worker[x] = "free" /\ x # a
      BY <1>0, <1>6, <2>2, <3>1, Owners DEF StartAgent, CallOf, TypeOK
    <3> QED BY <2>1, <2>2, <3>2, Owners DEF Moved, CallOf
  <2> QED BY <2>1, <2>2, MovedCalls
<1>7. ASSUME NEW a \in Agents, AgentAnswers(a) \/ AgentStops(a) PROVE CallOf(x)'
  <2>0. phase[a] \in {"model", "tools", "running"}
    BY <1>7 DEF AgentAnswers, AgentStops, NoStepLeft, Raises, CallEnded
  <2>1. worker[a] = "delegated"
    BY <2>0 DEF AgentsInv, AgentOf
  <2>2. Moved(a) /\ UNCHANGED report /\ a \in Workers /\ (Owner(x) # a => phase'[Owner(x)] = phase[Owner(x)])
    BY <1>0, <1>7, <2>1, Owners DEF AgentAnswers, AgentStops, Moved, Asked, TypeOK
  <2>3. CASE Owner(x) = a
    <3>1. x # a /\ worker'[x] = worker[x] /\ Owner(x) \notin Runs
      BY <2>2, <2>3, Owners DEF Moved
    <3>2. AgentAnswers(a) => worker[x] = "free"
      BY <1>0, <2>3 DEF AgentAnswers, CallOf
    <3>3. AgentStops(a) => phase'[a] = "failed"
      BY <2>3, <1>0 DEF AgentStops, TypeOK
    <3> QED BY <1>7, <2>3, <3>1, <3>2, <3>3 DEF CallOf
  <2> QED BY <2>2, <2>3, MovedCalls
<1>8. ASSUME NEW w \in Workers, WorkerStep(w) PROVE CallOf(x)'
  <2>1. UNCHANGED <<phase, report>> /\ Moved(w)
    BY <1>8 DEF WorkerStep, CheckBudget, GetClient, BuildClient, CountSearch, WebAnswers,
                GraphAnswers, Asked, Moved, TypeOK
  <2> QED BY <2>1, MovedCalls
<1>9. CASE UNCHANGED vars
  BY <1>0, <1>9 DEF vars, CallOf, Concluded
<1> QED
  BY <1>1, <1>2, <1>3, <1>4, <1>5, <1>6, <1>7, <1>8, <1>9, Owners DEF Next, RunStep, AgentStep

\* An agent's phase and its call move together.
LEMMA AgentsStep == TypeOK /\ CallsInv /\ AgentsInv /\ [Next]_vars => AgentsInv'
<1> SUFFICES ASSUME TypeOK, CallsInv, AgentsInv, [Next]_vars, NEW b \in Agents
             PROVE  AgentOf(b)'
  BY DEF AgentsInv
<1> USE DEF globals, loops, threads, Goto, Becomes
<1>0. AgentOf(b) /\ b \in Workers /\ b \in Loops /\ b \notin Runs /\ CallOf(b)
  BY Owners DEF AgentsInv, CallsInv
<1>1. ASSUME NEW r \in Runs, Begin(r) \/ Conclude(r) \/ OutOfSteps(r) \/ Fail(r) PROVE AgentOf(b)'
  BY <1>0, <1>1 DEF Begin, Conclude, OutOfSteps, Fail, AgentOf, TypeOK
<1>2. ASSUME NEW l \in Loops, LoopStep(l) PROVE AgentOf(b)'
  <2>1. CASE b = l
    <3>1. Owner(b) # l
      BY <2>1, Owners
    <3>2. worker'[b] = worker[b]
      BY <1>0, <1>2, <3>1 DEF LoopStep, Ask, Dispatch, Join, CallsOf, TypeOK
    <3>3. {phase[l], phase'[l]} \subseteq {"model", "tools", "running"}
      BY <1>2 DEF LoopStep, Ask, Dispatch, Join, TypeOK
    <3> QED BY <1>0, <2>1, <3>2, <3>3 DEF AgentOf
  <2>2. CASE b # l /\ Owner(b) # l
    BY <1>0, <1>2, <2>2 DEF LoopStep, Ask, Dispatch, Join, CallsOf, AgentOf, TypeOK
  <2>3. CASE b # l /\ Owner(b) = l
    <3>1. phase'[b] = phase[b]
      BY <1>0, <1>2, <2>3 DEF LoopStep, Ask, Dispatch, Join, TypeOK
    <3>2. worker[b] \in Asked \cup {"free"} \/ worker[b] \in Answers \cup {"free"}
      BY <1>0, <1>2, <2>3 DEF LoopStep, Ask, Dispatch, Join, CallOf, CallsOf
    <3>3. phase[b] = "idle"
      BY <1>0, <3>2 DEF AgentOf, Asked, Answers, Errors
    <3>4. worker'[b] # "delegated"
      <4>1. CASE Ask(l)
        BY <1>0, <2>3, <4>1 DEF Ask, Asked, TypeOK
      <4>2. CASE Dispatch(l) \/ Join(l)
        BY <1>0, <2>3, <3>2, <4>2 DEF Dispatch, Join, Started, CallsOf, Asked, Answers, TypeOK
      <4> QED BY <1>2, <4>1, <4>2 DEF LoopStep
    <3> QED BY <3>1, <3>3, <3>4 DEF AgentOf
  <2> QED BY <2>1, <2>2, <2>3
<1>3. ASSUME NEW a \in Agents, StartAgent(a) \/ AgentAnswers(a) \/ AgentStops(a) PROVE AgentOf(b)'
  <2>1. CASE a = b
    BY <1>0, <1>3, <2>1 DEF StartAgent, AgentAnswers, AgentStops, AgentOf, Errors, TypeOK
  <2>2. CASE a # b
    BY <1>0, <1>3, <2>2 DEF StartAgent, AgentAnswers, AgentStops, AgentOf, TypeOK
  <2> QED BY <2>1, <2>2
<1>4. ASSUME NEW w \in Workers, WorkerStep(w) PROVE AgentOf(b)'
  <2>1. /\ phase' = phase /\ worker[w] \notin {"delegated", "raised", "out of steps"}
        /\ worker'[w] # "delegated" /\ \A y \in Workers : y # w => worker'[y] = worker[y]
    BY <1>4 DEF WorkerStep, CheckBudget, GetClient, BuildClient, CountSearch, WebAnswers,
                GraphAnswers, TypeOK
  <2> QED BY <1>0, <2>1 DEF AgentOf, Errors
<1>5. CASE UNCHANGED vars
  BY <1>0, <1>5 DEF vars, AgentOf
<1> QED
  BY <1>1, <1>2, <1>3, <1>4, <1>5, Owners DEF Next, RunStep, AgentStep

\* Between tool steps and after a concluded report no call holds a page.
LEMMA NoPageWaiting ==
  ASSUME CallsInv, NEW r \in Runs, phase[r] \in {"idle", "model", "tools"} \/ Concluded(r)
  PROVE  ~AnyPage(r)
BY DEF CallsInv, CallOf, AnyPage, CallsOf, Asked

PagesOf(r) == r \in found <=> (r \in sourced \/ AnyPage(r))
ReportOf(r) ==
  /\ phase[r] = "over" => report[r] # None
  /\ report[r] # None =>
       /\ phase[r] = "over"
       /\ ~report[r].truncated => report[r].web_sources = (r \in sourced)

\* What is found is found by this step's calls or kept from an earlier step.
LEMMA PagesStep ==
  ASSUME TypeOK, CallsInv, AgentsInv, PagesInv, [Next]_vars, NEW q \in Runs
  PROVE  PagesOf(q)'
<1> USE DEF globals, loops, threads, Goto, Becomes
<1>0. PagesOf(q)
  BY DEF PagesInv, PagesOf
<1>1. ASSUME UNCHANGED <<worker, sourced, found>> PROVE PagesOf(q)'
  BY <1>0, <1>1 DEF PagesOf, AnyPage, CallsOf
<1>2. ASSUME UNCHANGED <<sourced, found>>,
             \A w \in Workers : worker'[w] = "page" <=> worker[w] = "page"
      PROVE  PagesOf(q)'
  BY <1>0, <1>2 DEF PagesOf, AnyPage, CallsOf
<1>3. ASSUME NEW l \in Loops, Ask(l) PROVE PagesOf(q)'
  <2>1. PICK asked \in [{w \in Workers : Owner(w) = l} -> Asked \cup {"free"}] :
          worker' = [w \in Workers |-> IF Owner(w) = l THEN asked[w] ELSE worker[w]]
    BY <1>3 DEF Ask
  <2>2. \A w \in Workers : Owner(w) = l => worker[w] = "free"
    BY <1>3 DEF Ask, CallsInv, CallOf
  <2>3. \A w \in Workers : worker'[w] = "page" <=> worker[w] = "page"
    BY <2>1, <2>2 DEF Asked
  <2> QED BY <1>2, <1>3, <2>3 DEF Ask
<1>4. ASSUME NEW l \in Loops, Dispatch(l) PROVE PagesOf(q)'
  <2>1. \A w \in Workers : worker'[w] = "page" <=> worker[w] = "page"
    BY <1>4 DEF Dispatch, CallsInv, CallOf, CallsOf, Started, TypeOK, Asked
  <2> QED BY <1>2, <1>4, <2>1 DEF Dispatch
<1>5. ASSUME NEW l \in Loops, Join(l) PROVE PagesOf(q)'
  <2>1. CASE q = l
    <3>1. ~AnyPage(q)'
      BY <1>5, <2>1 DEF Join, AnyPage, CallsOf
    <3>2. q \in sourced' <=> (q \in sourced \/ AnyPage(q))
      BY <1>5, <2>1 DEF Join, Harvest
    <3> QED
      BY <1>0, <1>5, <3>1, <3>2 DEF Join, PagesOf
  <2>2. CASE q # l
    <3>1. AnyPage(q)' <=> AnyPage(q)
      BY <1>5, <2>2 DEF Join, AnyPage, CallsOf
    <3> QED
      BY <1>0, <1>5, <2>2, <3>1 DEF Join, PagesOf
  <2> QED
    BY <2>1, <2>2
<1>6. ASSUME NEW w \in Workers, WebAnswers(w) PROVE PagesOf(q)'
  <2>1. PICK answer \in {"page", "nothing"} :
          /\ worker' = [worker EXCEPT ![w] = answer]
          /\ found' = found \cup {l \in {Owner(w)} : answer = "page"}
    BY <1>6 DEF WebAnswers
  <2>2. worker[w] = "request" /\ sourced' = sourced
    BY <1>6 DEF WebAnswers
  <2>3. AnyPage(q)' <=> (AnyPage(q) \/ (Owner(w) = q /\ answer = "page"))
    BY <2>1, <2>2 DEF AnyPage, CallsOf, TypeOK
  <2> QED
    BY <1>0, <2>1, <2>2, <2>3 DEF PagesOf
<1>7. ASSUME NEW w \in Workers,
             CheckBudget(w) \/ GetClient(w) \/ BuildClient(w) \/ CountSearch(w)
             \/ GraphAnswers(w)
      PROVE  PagesOf(q)'
  <2>1. \A x \in Workers : worker'[x] = "page" <=> worker[x] = "page"
    BY <1>7 DEF CheckBudget, GetClient, BuildClient, CountSearch, GraphAnswers, TypeOK
  <2>2. UNCHANGED <<sourced, found>>
    BY <1>7 DEF CheckBudget, GetClient, BuildClient, CountSearch, GraphAnswers
  <2> QED BY <1>2, <2>1, <2>2
<1>8. ASSUME NEW r \in Runs, Begin(r) \/ Conclude(r) \/ OutOfSteps(r) \/ Fail(r)
      PROVE  PagesOf(q)'
  BY <1>1, <1>8 DEF Begin, Conclude, OutOfSteps, Fail
<1>9. ASSUME NEW a \in Agents, StartAgent(a) \/ AgentAnswers(a) \/ AgentStops(a)
      PROVE  PagesOf(q)'
  <2>1. worker[a] # "page"
    BY <1>9 DEF StartAgent, AgentAnswers, AgentStops, NoStepLeft, Raises, CallEnded,
                AgentsInv, AgentOf
  <2>2. \A x \in Workers : worker'[x] = "page" <=> worker[x] = "page"
    BY <1>9, <2>1 DEF StartAgent, AgentAnswers, AgentStops, TypeOK
  <2> QED BY <1>2, <1>9, <2>2 DEF StartAgent, AgentAnswers, AgentStops
<1> QED
  BY <1>1, <1>3, <1>4, <1>5, <1>6, <1>7, <1>8, <1>9, Owners
  DEF Next, RunStep, AgentStep, LoopStep, WorkerStep, vars

\* A report is given where the run ends, from the transcript as it ends.
LEMMA ReportStep ==
  ASSUME TypeOK, PagesInv, [Next]_vars, NEW q \in Runs
  PROVE  ReportOf(q)'
<1> USE DEF globals, loops, threads, Goto, Becomes
<1>0. ReportOf(q)
  BY DEF PagesInv, ReportOf
<1>1. ASSUME UNCHANGED <<phase, report, sourced>> PROVE ReportOf(q)'
  BY <1>0, <1>1 DEF ReportOf
<1>2. ASSUME NEW r \in Runs, Conclude(r) PROVE ReportOf(q)'
  <2>1. Assembled(Extracted(r), FALSE) \in Report
        /\ Assembled(Extracted(r), FALSE).web_sources = (r \in sourced)
    BY DEF Assembled, Extracted, Report
  <2> QED
    BY <1>0, <1>2, <2>1, InvestigationAssumption, Owners DEF Conclude, ReportOf, TypeOK
<1>3. ASSUME NEW r \in Runs, OutOfSteps(r) PROVE ReportOf(q)'
  <2>1. Assembled(Truncated, TRUE) \in Report /\ Assembled(Truncated, TRUE).truncated
    BY DEF Assembled, Truncated, Report
  <2> QED
    BY <1>0, <1>3, <2>1, InvestigationAssumption, Owners
    DEF OutOfSteps, CutShort, NoStepLeft, CallEnded, ReportOf, TypeOK
<1>4. ASSUME NEW r \in Runs, Begin(r) \/ Fail(r) PROVE ReportOf(q)'
  <2>1. phase[r] # "over"
    BY <1>4 DEF Begin, Fail, Raises, CallEnded
  <2> QED BY <1>0, <1>4, <2>1, Owners DEF Begin, Fail, ReportOf, TypeOK
<1>5. ASSUME NEW l \in Loops, LoopStep(l) PROVE ReportOf(q)'
  <2>1. q # l => (q \in sourced' <=> q \in sourced) /\ phase'[q] = phase[q]
    BY <1>5, Owners DEF LoopStep, Ask, Dispatch, Join, TypeOK
  <2>2. UNCHANGED report /\ phase[l] # "over" /\ phase'[l] # "over"
    BY <1>5 DEF LoopStep, Ask, Dispatch, Join, TypeOK
  <2> QED
    BY <1>0, <2>1, <2>2 DEF ReportOf
<1>6. ASSUME NEW w \in Workers, WorkerStep(w) PROVE ReportOf(q)'
  BY <1>1, <1>6 DEF WorkerStep, CheckBudget, GetClient, BuildClient, CountSearch,
                    WebAnswers, GraphAnswers
<1>7. ASSUME NEW a \in Agents, StartAgent(a) \/ AgentAnswers(a) \/ AgentStops(a)
      PROVE  ReportOf(q)'
  <2>1. phase'[q] = phase[q] /\ UNCHANGED <<report, sourced>>
    BY <1>7, Owners DEF StartAgent, AgentAnswers, AgentStops, TypeOK
  <2> QED BY <1>0, <2>1 DEF ReportOf
<1> QED
  BY <1>1, <1>2, <1>3, <1>4, <1>5, <1>6, <1>7, Owners DEF Next, RunStep, AgentStep, vars

LEMMA NextInvariant == IInv /\ [Next]_vars => IInv'
<1> SUFFICES ASSUME IInv, [Next]_vars PROVE IInv'
  OBVIOUS
<1>1. PagesInv'
  <2>1. \A q \in Runs : PagesOf(q)'
    BY PagesStep DEF IInv
  <2>2. \A q \in Runs : ReportOf(q)'
    BY ReportStep DEF IInv
  <2> QED
    BY <2>1, <2>2 DEF PagesInv, PagesOf, ReportOf
<1> QED
  BY <1>1, TypeStep, OverrunStep, CallsStep, AgentsStep DEF IInv

THEOREM Invariance == Spec => []IInv
BY InitInvariant, NextInvariant, PTL DEF Spec

\* Types, for every number of investigations and workers.
THEOREM TypeCorrect == Spec => []TypeOK
BY Invariance, PTL DEF IInv

\* The search budget is overrun by fewer searches than there are workers.
THEOREM BudgetOverrun == Spec => []OverrunBounded
<1>1. IInv => OverrunBounded
  BY CommittedFinite, WorkersFinite, InvestigationAssumption
  DEF IInv, TypeOK, OverrunInv, OverrunBounded
<1> QED
  BY <1>1, Invariance, PTL

\* A run that reaches its end returns exactly one report, the truncated one at
\* the step limit included; a run that raised returns none.
OverMeansReported == \A r \in Runs : phase[r] = "over" <=> report[r] # None

\* A run that ends has its report, and only a run that ends.
THEOREM EveryEndReported == Spec => []OverMeansReported
<1>1. IInv => OverMeansReported
  BY DEF IInv, PagesInv, OverMeansReported
<1> QED
  BY <1>1, Invariance, PTL

\* A concluded report has web sources exactly when a search of the investigation's
\* own found a page; what an agent it started found changes nothing.
THEOREM PagesReported == Spec => []SourcesKept
<1>1. IInv => SourcesKept
  <2> SUFFICES ASSUME IInv, NEW r \in Runs, Concluded(r)
               PROVE  report[r].web_sources = (r \in found)
    BY DEF SourcesKept
  <2>1. report[r].web_sources = (r \in sourced)
    BY DEF IInv, PagesInv, Concluded
  <2>2. ~AnyPage(r)
    BY NoPageWaiting DEF IInv
  <2>3. r \in found <=> r \in sourced
    BY <2>2 DEF IInv, PagesInv
  <2> QED
    BY <2>1, <2>3
<1> QED
  BY <1>1, Invariance, PTL

(***************************************************************************)
(* The search client.                                                      *)
(***************************************************************************)
Builders == {w \in Workers : worker[w] = "building"}
TurnedAway(w) == worker[w] = "unavailable"

\* One worker at most builds the client, under the flag, while there is none.
ClientInv ==
  /\ \A v, w \in Builders : v = w
  /\ Builders # {} => clientBuilt /\ ~clientReady
  /\ clientReady => clientBuilt /\ KeyConfigured

\* The constructor raised, or there was no key: there is no client and will be none.
Hopeless == clientBuilt /\ ~clientReady /\ Builders = {}

\* A step that does not touch the client takes up no building and turns nobody away.
LEMMA ClientUntouched ==
  ASSUME TypeOK, [Next]_vars, \A w \in Workers : ~GetClient(w) /\ ~BuildClient(w)
  PROVE  /\ UNCHANGED <<clientBuilt, clientReady>> /\ Builders' \subseteq Builders
         /\ \A w \in Workers : TurnedAway(w)' => TurnedAway(w)
<1> USE DEF globals, loops, threads, Goto, Becomes, Builders, TurnedAway
<1>1. ASSUME \/ \E r \in Runs : Begin(r) \/ RunStep(r)
             \/ \E a \in Agents : AgentStep(a)
      PROVE  /\ UNCHANGED <<clientBuilt, clientReady>>
             /\ \A w \in Workers : /\ worker'[w] = "building" => worker[w] = "building"
                                   /\ worker'[w] = "unavailable" => worker[w] = "unavailable"
  <2>1. CASE \E r \in Runs : Begin(r)
    BY <2>1 DEF Begin
  <2>2. CASE (\E r \in Runs : RunStep(r)) \/ \E a \in Agents : AgentStep(a)
    BY <2>2, LoopMoves DEF Searches, PastCheck
  <2> QED BY <1>1, <2>1, <2>2
<1>2. ASSUME NEW v \in Workers, WorkerStep(v)
      PROVE  /\ UNCHANGED <<clientBuilt, clientReady>>
             /\ \A w \in Workers : /\ worker'[w] = "building" => worker[w] = "building"
                                   /\ worker'[w] = "unavailable" => worker[w] = "unavailable"
  <2>1. CheckBudget(v) \/ CountSearch(v) \/ WebAnswers(v) \/ GraphAnswers(v)
    BY <1>2 DEF WorkerStep
  <2> QED BY <2>1 DEF CheckBudget, CountSearch, WebAnswers, GraphAnswers, TypeOK
<1>3. CASE UNCHANGED vars
  BY <1>3 DEF vars
<1> QED BY <1>1, <1>2, <1>3 DEF Next

\* What the two steps on the client do.
LEMMA ClientTouched ==
  ASSUME TypeOK, NEW w \in Workers
  PROVE  /\ GetClient(w) /\ ~clientBuilt =>
              clientBuilt' /\ clientReady' = clientReady /\ Builders' = Builders \cup {w}
         /\ GetClient(w) /\ clientBuilt =>
              /\ UNCHANGED <<clientBuilt, clientReady>> /\ Builders' = Builders
              /\ TurnedAway(w)' = ~clientReady
         /\ BuildClient(w) =>
              /\ w \in Builders /\ Builders' = Builders \ {w}
              /\ clientBuilt' = clientBuilt /\ clientReady' \in BOOLEAN /\ (clientReady' => KeyConfigured)
              /\ TurnedAway(w)' = ~clientReady'
         /\ GetClient(w) \/ BuildClient(w) =>
              \A v \in Workers : v # w => TurnedAway(v)' = TurnedAway(v)
<1> USE DEF globals, loops, threads, Becomes, Builders, TypeOK, TurnedAway
<1>1. GetClient(w) => clientReady' = clientReady /\ worker[w] = "client"
  BY DEF GetClient
<1>2. GetClient(w) /\ ~clientBuilt => clientBuilt' /\ worker' = [worker EXCEPT ![w] = "building"]
  BY DEF GetClient
<1>3. GetClient(w) /\ clientBuilt =>
        clientBuilt' = clientBuilt
        /\ worker' = [worker EXCEPT ![w] = IF clientReady THEN "count" ELSE "unavailable"]
  BY DEF GetClient
<1>4. BuildClient(w) =>
        /\ worker[w] = "building" /\ clientBuilt' = clientBuilt
        /\ clientReady' \in BOOLEAN /\ (clientReady' => KeyConfigured)
        /\ worker' = [worker EXCEPT ![w] = IF clientReady' THEN "count" ELSE "unavailable"]
  BY InvestigationAssumption DEF BuildClient
<1> QED BY <1>1, <1>2, <1>3, <1>4

LEMMA ClientStep == TypeOK /\ ClientInv /\ [Next]_vars => ClientInv'
<1> SUFFICES ASSUME TypeOK, ClientInv, [Next]_vars PROVE ClientInv'
  OBVIOUS
<1>1. CASE \A w \in Workers : ~GetClient(w) /\ ~BuildClient(w)
  BY <1>1, ClientUntouched DEF ClientInv
<1>2. ASSUME NEW w \in Workers, GetClient(w) PROVE ClientInv'
  BY <1>2, ClientTouched DEF ClientInv, TypeOK
<1>3. ASSUME NEW w \in Workers, BuildClient(w) PROVE ClientInv'
  BY <1>3, ClientTouched DEF ClientInv, TypeOK
<1> QED BY <1>1, <1>2, <1>3

\* The client is built at most once, by one worker, however many search at once.
THEOREM ClientBuiltOnce == Spec => []ClientInv
<1>1. Init => ClientInv
  BY DEF Init, ClientInv, Builders
<1> QED BY <1>1, ClientStep, TypeCorrect, PTL DEF Spec

\* Once there is a client it stays, and no search is turned away any more.
THEOREM ClientKept ==
  Spec => [][clientReady => clientReady' /\ \A w \in Workers : TurnedAway(w)' => TurnedAway(w)]_vars
<1>1. TypeOK /\ ClientInv /\ [Next]_vars =>
        [clientReady => clientReady' /\ \A w \in Workers : TurnedAway(w)' => TurnedAway(w)]_vars
  <2> SUFFICES ASSUME TypeOK, ClientInv, [Next]_vars, clientReady
               PROVE  clientReady' /\ \A w \in Workers : TurnedAway(w)' => TurnedAway(w)
    OBVIOUS
  <2>1. CASE \A w \in Workers : ~GetClient(w) /\ ~BuildClient(w)
    BY <2>1, ClientUntouched
  <2>2. ASSUME NEW w \in Workers, GetClient(w)
        PROVE  clientReady' /\ \A v \in Workers : TurnedAway(v)' => TurnedAway(v)
    BY <2>2, ClientTouched DEF ClientInv
  <2>3. ASSUME NEW w \in Workers, BuildClient(w) PROVE FALSE
    BY <2>3, ClientTouched DEF ClientInv
  <2> QED BY <2>1, <2>2, <2>3
<1> QED BY <1>1, TypeCorrect, ClientBuiltOnce, PTL DEF Spec

\* A search is turned away while another worker is building the client, or when
\* there is none and never will be.
OnlyWhileBuilding ==
  \A w \in Workers : TurnedAway(w)' /\ ~TurnedAway(w) =>
    Hopeless' \/ (worker[w] = "client" /\ \E v \in Builders : v # w)

LEMMA TurnedAwayStep ==
  TypeOK /\ ClientInv /\ [Next]_vars => OnlyWhileBuilding /\ (Hopeless => Hopeless')
<1> SUFFICES ASSUME TypeOK, ClientInv, [Next]_vars PROVE OnlyWhileBuilding /\ (Hopeless => Hopeless')
  OBVIOUS
<1>1. ASSUME NEW w \in Workers, TurnedAway(w)', ~TurnedAway(w)
      PROVE  Hopeless' \/ (worker[w] = "client" /\ \E v \in Builders : v # w)
  <2>1. GetClient(w) \/ BuildClient(w)
    BY <1>1, ClientUntouched, ClientTouched
  <2>2. CASE GetClient(w)
    <3>1. clientBuilt
      <4>1. ~clientBuilt => worker'[w] = "building"
        BY <2>2 DEF GetClient, Becomes, TypeOK
      <4> QED BY <1>1, <4>1 DEF TurnedAway
    <3>2. clientBuilt' /\ ~clientReady' /\ Builders' = Builders
      BY <1>1, <2>2, <3>1, ClientTouched DEF TypeOK
    <3>3. worker[w] = "client" /\ w \notin Builders
      BY <2>2 DEF GetClient, Builders
    <3>4. CASE Builders = {}
      BY <3>2, <3>4 DEF Hopeless
    <3>5. CASE Builders # {}
      BY <3>3, <3>5
    <3> QED BY <3>4, <3>5
  <2>3. CASE BuildClient(w)
    BY <1>1, <2>3, ClientTouched DEF ClientInv, Hopeless
  <2> QED BY <2>1, <2>2, <2>3
<1>2. ASSUME Hopeless PROVE Hopeless'
  <2>1. CASE \A w \in Workers : ~GetClient(w) /\ ~BuildClient(w)
    <3>1. UNCHANGED <<clientBuilt, clientReady>> /\ Builders' \subseteq Builders
      BY <2>1, ClientUntouched
    <3> QED BY <1>2, <3>1 DEF Hopeless
  <2>2. ASSUME NEW w \in Workers, GetClient(w) PROVE Hopeless'
    BY <1>2, <2>2, ClientTouched DEF Hopeless
  <2>3. ASSUME NEW w \in Workers, BuildClient(w) PROVE FALSE
    BY <1>2, <2>3, ClientTouched DEF Hopeless
  <2> QED BY <2>1, <2>2, <2>3
<1> QED BY <1>1, <1>2 DEF OnlyWhileBuilding

\* How far the finding about the client goes: that, and nothing else, is when
\* a search is turned away.
THEOREM TurnedAwayWhileBuilding == Spec => [][OnlyWhileBuilding /\ (Hopeless => Hopeless')]_vars
<1>1. TypeOK /\ ClientInv /\ [Next]_vars => [OnlyWhileBuilding /\ (Hopeless => Hopeless')]_vars
  BY TurnedAwayStep
<1> QED BY <1>1, TypeCorrect, ClientBuiltOnce, PTL DEF Spec

\* Searches follow each other: from the test of the budget to the count there is
\* one worker at most.
OneAtATime == \A v, w \in Committed : v = w

\* As long as searches follow each other, nobody is turned away from a client that is or will be there.
THEOREM SequentialClient == Spec /\ []OneAtATime => []ClientWhenConfigured
<1> DEFINE ForGood == (\E w \in Workers : TurnedAway(w)) => Hopeless
<1>1. Init => ForGood
  BY DEF Init, TurnedAway
<1>2. OneAtATime /\ ForGood /\ TypeOK /\ ClientInv /\ [Next]_vars => ForGood'
  <2> SUFFICES ASSUME OneAtATime, ForGood, TypeOK, ClientInv, [Next]_vars,
                      NEW w \in Workers, TurnedAway(w)'
               PROVE  Hopeless'
    OBVIOUS
  <2>1. OnlyWhileBuilding /\ (Hopeless => Hopeless')
    BY TurnedAwayStep
  <2>2. ~(worker[w] = "client" /\ \E v \in Builders : v # w)
    BY DEF OneAtATime, Committed, PastCheck, Builders
  <2> QED BY <2>1, <2>2 DEF OnlyWhileBuilding
<1>3. ForGood => ClientWhenConfigured
  BY DEF ClientWhenConfigured, Hopeless, TurnedAway, Builders
<1> HIDE DEF ForGood
<1> QED BY <1>1, <1>2, <1>3, ClientBuiltOnce, TypeCorrect, PTL DEF Spec

\* Nor is the budget overrun: the test and the count are then one step.
THEOREM SequentialBudget == Spec /\ []OneAtATime => [](searchesUsed <= WEB_SEARCH_BUDGET)
<1> DEFINE Within == /\ searchesUsed <= WEB_SEARCH_BUDGET
                     /\ Committed # {} => searchesUsed < WEB_SEARCH_BUDGET
<1>1. Init => Within
  BY InvestigationAssumption DEF Init, Committed, PastCheck
<1>2. TypeOK /\ OneAtATime /\ Within /\ [Next]_vars => Within'
  <2> SUFFICES ASSUME TypeOK, OneAtATime, Within, [Next]_vars PROVE Within'
    OBVIOUS
  <2> USE InvestigationAssumption DEF globals, loops, threads, Goto, Becomes
  <2>1. ASSUME NEW r \in Runs, Begin(r) PROVE Within'
    BY <2>1 DEF Begin, Committed, TypeOK
  <2>2. CASE (\E r \in Runs : RunStep(r)) \/ \E a \in Agents : AgentStep(a)
    BY <2>2, LoopMoves DEF Committed, Searches
  <2>3. ASSUME NEW w \in Workers, CheckBudget(w) PROVE Within'
    <3>1. searchesUsed' = searchesUsed
      BY <2>3 DEF CheckBudget
    <3>2. CASE BudgetLeft
      BY <3>1, <3>2 DEF BudgetLeft
    <3>3. CASE ~BudgetLeft
      <4>1. \A x \in Workers : worker'[x] \in PastCheck => worker[x] \in PastCheck
        BY <2>3, <3>3 DEF CheckBudget, PastCheck, TypeOK
      <4> QED BY <3>1, <4>1 DEF Committed
    <3> QED BY <3>2, <3>3
  <2>4. ASSUME NEW w \in Workers, CountSearch(w) PROVE Within'
    <3>1. Committed = {w}
      BY <2>4 DEF CountSearch, Committed, PastCheck, OneAtATime
    <3>2. Committed' = {}
      BY <2>4, <3>1 DEF CountSearch, Committed, PastCheck, TypeOK
    <3>3. searchesUsed' = searchesUsed + 1 /\ searchesUsed < WEB_SEARCH_BUDGET
      BY <2>4, <3>1 DEF CountSearch
    <3> QED BY <3>2, <3>3 DEF TypeOK
  <2>5. ASSUME NEW w \in Workers,
               GetClient(w) \/ BuildClient(w) \/ WebAnswers(w) \/ GraphAnswers(w)
        PROVE  Within'
    <3>1. searchesUsed' = searchesUsed
      BY <2>5 DEF GetClient, BuildClient, WebAnswers, GraphAnswers
    <3>2. \A x \in Workers : worker'[x] \in PastCheck => worker[x] \in PastCheck
      BY <2>5 DEF GetClient, BuildClient, WebAnswers, GraphAnswers, PastCheck, TypeOK
    <3> QED BY <3>1, <3>2 DEF Committed
  <2>6. CASE UNCHANGED vars
    BY <2>6 DEF vars, Committed
  <2> QED BY <2>1, <2>2, <2>3, <2>4, <2>5, <2>6 DEF Next, WorkerStep
<1> HIDE DEF Within
<1>3. Within => searchesUsed <= WEB_SEARCH_BUDGET
  BY DEF Within
<1> QED BY <1>1, <1>2, <1>3, TypeCorrect, PTL DEF Spec

(***************************************************************************)
(* The refinement.                                                         *)
(***************************************************************************)
\* A page comes back to an investigation that runs, has failed or was cut short,
\* from its own call or from an agent's.
StillOut(r) == phase[r] \in {"running", "failed"} \/ (phase[r] = "over" /\ report[r].truncated)

LEMMA CallOut ==
  ASSUME IInv, NEW w \in Calls, worker[w] \notin Asked \cup {"free"}
  PROVE  Owner(w) \in Runs /\ StillOut(Owner(w))
<1>1. Owner(w) \in Runs /\ w \in Workers
  BY InvestigationAssumption DEF Workers
<1>2. CallOf(w) /\ phase[Owner(w)] \in {"idle", "model", "tools", "running", "over", "failed"}
  BY <1>1, Owners DEF IInv, CallsInv, TypeOK
<1>3. phase[Owner(w)] = "over" => report[Owner(w)] # None
  BY <1>1 DEF IInv, PagesInv
<1> QED BY <1>1, <1>2, <1>3 DEF CallOf, StillOut, Concluded

LEMMA PageFound ==
  ASSUME IInv, NEW w \in Workers, worker[w] = "request"
  PROVE  \/ Owner(w) \in Runs /\ StillOut(Owner(w))
         \/ Owner(w) \in Agents /\ Owner(Owner(w)) \in Runs /\ StillOut(Owner(Owner(w)))
<1>1. CASE w \in Calls
  BY <1>1, CallOut DEF Asked
<1>2. CASE w \in AgentCalls
  <2>1. Owner(w) \in Agents
    BY <1>2 DEF Agents
  <2>2. phase[Owner(w)] \in {"running", "failed"}
    BY <2>1 DEF IInv, CallsInv, CallOf, AgentsInv, AgentOf, Asked
  <2>3. worker[Owner(w)] \in Errors \cup {"delegated"}
    BY <2>1, <2>2 DEF IInv, AgentsInv, AgentOf
  <2>4. Owner(w) \in Calls
    BY <2>1, InvestigationAssumption
  <2> QED BY <2>1, <2>3, <2>4, CallOut DEF Errors, Asked
<1> QED BY <1>1, <1>2 DEF Workers

\* The loops' steps and the workers' are those of an investigation that begins,
\* finds pages, itself or through agents, and ends once, with the report of the
\* pages it found itself.
THEOREM Implementation == Spec => ImplementsOutcome
<1> DEFINE State == [r \in Runs |-> IF phase[r] \in {"model", "tools", "running"} THEN "running" ELSE phase[r]]
           AgentPages == {r \in Runs : AgentFound(r)}
<1>1. Init => Outcome!Init
  BY Owners DEF Init, Outcome!Init, AgentFound
<1>2. IInv /\ [Next]_vars => [Outcome!Next]_(Outcome!outcome)
  <2> SUFFICES ASSUME IInv, [Next]_vars
               PROVE  Outcome!Next \/ UNCHANGED Outcome!outcome
    OBVIOUS
  <2> USE DEF globals, loops, threads, Goto, Becomes
  <2>0. TypeOK
    BY DEF IInv
  <2>1. ASSUME UNCHANGED <<found, report>>, State' = State PROVE UNCHANGED Outcome!outcome
    BY <2>1 DEF Outcome!outcome, AgentFound
  <2>2. ASSUME NEW r \in Runs, Begin(r) PROVE Outcome!Begin(r)
    BY <2>0, <2>2, Owners DEF Begin, Outcome!Begin, AgentFound, TypeOK
  <2>3. ASSUME NEW l \in Loops, LoopStep(l) PROVE UNCHANGED Outcome!outcome
    <3>1. UNCHANGED <<found, report>> /\ {phase[l], phase'[l]} \subseteq {"model", "tools", "running"}
          /\ \A k \in Loops : k # l => phase'[k] = phase[k]
      BY <2>0, <2>3 DEF LoopStep, Ask, Dispatch, Join, TypeOK
    <3>2. State' = State
      BY <3>1, Owners
    <3> QED BY <2>1, <3>1, <3>2
  <2>4. ASSUME NEW r \in Runs, Conclude(r) PROVE Outcome!Conclude(r)
    <3>1. r \in sourced <=> r \in found
      BY <2>4, NoPageWaiting DEF Conclude, IInv, PagesInv
    <3>2. Assembled(Extracted(r), FALSE)
            = [status |-> "complete", truncated |-> FALSE, web_sources |-> r \in found \cap Runs]
      <4>1. (r \in sourced) = (r \in found \cap Runs)
        BY <3>1
      <4> QED BY <4>1 DEF Assembled, Extracted
    <3>3. report' = [report EXCEPT ![r] =
            [status |-> "complete", truncated |-> FALSE, web_sources |-> r \in found \cap Runs]]
      BY <2>4, <3>2 DEF Conclude
    <3>4. phase[r] = "model" /\ phase' = [phase EXCEPT ![r] = "over"] /\ UNCHANGED found
      BY <2>4 DEF Conclude
    <3>5. State[r] = "running" /\ State' = [State EXCEPT ![r] = "over"]
      BY <2>0, <3>4, Owners DEF TypeOK
    <3> QED BY <3>3, <3>4, <3>5 DEF Outcome!Conclude, Outcome!Reports, AgentFound
  <2>5. ASSUME NEW r \in Runs, OutOfSteps(r) PROVE Outcome!CutShort(r)
    <3>1. report' = [report EXCEPT ![r] =
            [status |-> "complete", truncated |-> TRUE, web_sources |-> FALSE]]
      BY <2>5 DEF OutOfSteps, CutShort, Assembled, Truncated
    <3>2. phase[r] \in {"model", "tools", "running"} /\ phase' = [phase EXCEPT ![r] = "over"]
          /\ UNCHANGED found
      BY <2>5 DEF OutOfSteps, NoStepLeft, CallEnded
    <3>3. State[r] = "running" /\ State' = [State EXCEPT ![r] = "over"]
      BY <2>0, <3>2, Owners DEF TypeOK
    <3> QED BY <3>1, <3>2, <3>3 DEF Outcome!CutShort, Outcome!Reports, AgentFound
  <2>6. ASSUME NEW r \in Runs, Fail(r) PROVE Outcome!Fail(r)
    <3>1. phase[r] \in {"model", "tools", "running"} /\ phase' = [phase EXCEPT ![r] = "failed"]
          /\ UNCHANGED <<found, report>>
      BY <2>6 DEF Fail, Raises, CallEnded
    <3>2. State[r] = "running" /\ State' = [State EXCEPT ![r] = "failed"]
      BY <2>0, <3>1, Owners DEF TypeOK
    <3> QED BY <3>1, <3>2 DEF Outcome!Fail, AgentFound
  <2>7. ASSUME NEW a \in Agents, StartAgent(a) \/ AgentAnswers(a) \/ AgentStops(a)
        PROVE  UNCHANGED Outcome!outcome
    <3>1. UNCHANGED <<found, report>> /\ \A r \in Runs : phase'[r] = phase[r]
      BY <2>0, <2>7, Owners DEF StartAgent, AgentAnswers, AgentStops, TypeOK
    <3>2. State' = State
      BY <3>1
    <3> QED BY <2>1, <3>1, <3>2
  <2>8. ASSUME NEW w \in Workers, WebAnswers(w) PROVE Outcome!Next \/ UNCHANGED Outcome!outcome
    <3>1. worker[w] = "request" /\ UNCHANGED <<phase, report>> /\ found' \in {found, found \cup {Owner(w)}}
      BY <2>8 DEF WebAnswers
    <3>2. State' = State
      BY <3>1
    <3>3. CASE found' = found
      BY <2>1, <3>1, <3>2, <3>3
    <3>4. CASE found' = found \cup {Owner(w)} /\ Owner(w) \in Runs /\ StillOut(Owner(w))
      <4>1. found' \cap Runs = (found \cap Runs) \cup {Owner(w)} /\ AgentPages' = AgentPages
        BY <3>4, Owners DEF AgentFound
      <4>2. Outcome!Searching(Owner(w))
        BY <3>4 DEF Outcome!Searching, StillOut
      <4>3. Outcome!FindPage(Owner(w))
        BY <3>1, <3>2, <4>1, <4>2 DEF Outcome!FindPage
      <4> QED BY <3>4, <4>3 DEF Outcome!Next
    <3>5. CASE found' = found \cup {Owner(w)} /\ Owner(w) \in Agents
               /\ Owner(Owner(w)) \in Runs /\ StillOut(Owner(Owner(w)))
      <4>1. found' \cap Runs = found \cap Runs /\ AgentPages' = AgentPages \cup {Owner(Owner(w))}
        BY <3>5, Owners DEF AgentFound
      <4>2. Outcome!Searching(Owner(Owner(w)))
        BY <3>5 DEF Outcome!Searching, StillOut
      <4>3. Outcome!AgentFindsPage(Owner(Owner(w)))
        BY <3>1, <3>2, <4>1, <4>2 DEF Outcome!AgentFindsPage
      <4> QED BY <3>5, <4>3 DEF Outcome!Next
    <3> QED BY <3>1, <3>3, <3>4, <3>5, PageFound
  <2>9. ASSUME NEW w \in Workers,
               CheckBudget(w) \/ GetClient(w) \/ BuildClient(w) \/ CountSearch(w) \/ GraphAnswers(w)
        PROVE  UNCHANGED Outcome!outcome
    <3>1. UNCHANGED <<phase, found, report>>
      BY <2>9 DEF CheckBudget, GetClient, BuildClient, CountSearch, GraphAnswers
    <3> QED BY <2>1, <3>1
  <2>10. ASSUME UNCHANGED vars PROVE UNCHANGED Outcome!outcome
    BY <2>1, <2>10 DEF vars
  <2> QED
    BY <2>2, <2>3, <2>4, <2>5, <2>6, <2>7, <2>8, <2>9, <2>10, Owners
    DEF Next, RunStep, AgentStep, WorkerStep, Outcome!Next
<1> QED BY <1>1, <1>2, Invariance, PTL DEF Spec, ImplementsOutcome, Outcome!Spec
=============================================================================
