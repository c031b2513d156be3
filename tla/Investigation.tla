---------------------------- MODULE Investigation ----------------------------
(***************************************************************************)
(* Tier-4 investigations of one process: run_investigation and web_search  *)
(* (watchline/discovery/agent/investigator.py) with the tool that wraps    *)
(* them (tools/investigation.py).                                          *)
(*                                                                         *)
(* An investigation is a sub-agent loop, model step after tool step, that  *)
(* ends when the model answers or when the step limit is reached.  The     *)
(* calls of one model message run side by side, each on its own worker     *)
(* thread.  A call may also start an agent (create_deep_agent adds that    *)
(* tool): a loop of its own on the call's thread, with the same tools on   *)
(* threads of its own, whose transcript never leaves it.  Investigations   *)
(* of one process share the module's globals: _searches_used,              *)
(* _search_client_cache and _search_client_built.  They may overlap: a     *)
(* message may call the tool twice, the UI serves several sessions from    *)
(* one process, and a stopped turn leaves its worker running.              *)
(*                                                                         *)
(* Between two steps of a worker the interpreter may run any other.  The   *)
(* statement _searches_used += 1 is one step: CPython 3.13 (.python-       *)
(* version) switches threads at calls and loop ends only.                  *)
(*                                                                         *)
(* Abstracted: every node of the sub-agent's graph is a model or a tool    *)
(* step; a transcript is whether it holds a web page; progress and usage   *)
(* events, citations, findings and narrative are left out.                 *)
(***************************************************************************)
EXTENDS Integers, FiniteSets

CONSTANTS
  Runs,             \* the investigations of the process
  Calls,            \* bound: threads for the calls of their messages, <<run, slot>>
  AgentCalls,       \* bound: those for the calls of an agent's, <<its call, slot>>
  WEB_SEARCH_BUDGET,
  RECURSION_LIMIT,
  AGENT_LIMIT,      \* the step limit of an agent an investigation starts
  KeyConfigured,    \* TAVILY_API_KEY is set
  None

Owner(w) == w[1]

Agents == {Owner(w) : w \in AgentCalls}    \* an agent goes by the call it runs on
Loops == Runs \cup Agents
Workers == Calls \cup AgentCalls

Report == [status : {"complete"}, truncated : BOOLEAN, web_sources : BOOLEAN]

ASSUME InvestigationAssumption ==
  /\ IsFiniteSet(Calls) /\ \A w \in Calls : Owner(w) \in Runs
  /\ IsFiniteSet(AgentCalls) /\ Agents \subseteq Calls /\ Agents \cap Runs = {}
  /\ WEB_SEARCH_BUDGET \in Nat
  /\ RECURSION_LIMIT \in Nat \ {0} /\ AGENT_LIMIT \in Nat \ {0}
  /\ KeyConfigured \in BOOLEAN
  /\ None \notin Report

VARIABLES
  searchesUsed,     \* _searches_used
  clientBuilt,      \* _search_client_built
  clientReady,      \* _search_client_cache is not None
  phase,            \* of each loop
  step,             \* steps it has taken
  sourced,          \* the investigations whose own transcript holds a web page
  report,           \* what deep_investigation returned
  worker,           \* where each worker thread stands
  found             \* ghost: the loops a call of which came back with a page

globals == <<searchesUsed, clientBuilt, clientReady>>
loops == <<phase, step, sourced, report>>
threads == <<worker, found>>
vars == <<globals, loops, threads>>

\* A call waits for its tool step, runs, and has an answer or an error.
Asked == {"search asked", "read asked", "agent asked"}
PastCheck == {"client", "building", "count"}
Answers == {"page", "nothing", "exhausted", "unavailable", "rows", "told"}
Errors == {"raised", "out of steps"}
WorkerStates ==
  {"free", "check", "request", "reading", "starting", "delegated"}
    \cup Asked \cup PastCheck \cup Answers \cup Errors

CallsOf(l) == {w \in Workers : Owner(w) = l /\ worker[w] # "free"}

-----------------------------------------------------------------------------
Init ==
  /\ searchesUsed = 0
  /\ clientBuilt = FALSE
  /\ clientReady = FALSE
  /\ phase = [l \in Loops |-> "idle"]
  /\ step = [l \in Loops |-> 0]
  /\ sourced = {}
  /\ report = [r \in Runs |-> None]
  /\ worker = [w \in Workers |-> "free"]
  /\ found = {}

Goto(l, p) == phase' = [phase EXCEPT ![l] = p]
Becomes(w, s) == worker' = [worker EXCEPT ![w] = s]

\* A loop's own step limit, counted from its own start (_sub_config).
NeverTallied(l) == step            \* mutant: the limit does not reach the sub-agent
Tally(l) == [step EXCEPT ![l] = @ + 1]
Limit(l) == IF l \in Runs THEN RECURSION_LIMIT ELSE AGENT_LIMIT
StepLeft(l) == step[l] < Limit(l)

\* run_investigation enters: _reset_budget, whoever else is searching.
Begin(r) ==
  /\ phase[r] = "idle"
  /\ Goto(r, "model")
  /\ searchesUsed' = 0
  /\ UNCHANGED <<clientBuilt, clientReady, step, sourced, report, threads>>

\* The model asks for tools: calls search the web, read the graph, start agents.
Ask(l) ==
  /\ phase[l] = "model" /\ StepLeft(l)
  /\ \E asked \in [{w \in Workers : Owner(w) = l} -> Asked \cup {"free"}] :
       /\ \E w \in DOMAIN asked : asked[w] # "free"
       /\ \A w \in DOMAIN asked : asked[w] = "agent asked" => w \in Agents
       /\ worker' = [w \in Workers |-> IF Owner(w) = l THEN asked[w] ELSE worker[w]]
  /\ Goto(l, "tools")
  /\ step' = Tally(l)
  /\ UNCHANGED <<globals, sourced, report, found>>

\* The tool step starts: one worker per call of the message.
Started(s) == CASE s = "search asked" -> "check"
                [] s = "agent asked" -> "starting"
                [] OTHER -> "reading"

Dispatch(l) ==
  /\ phase[l] = "tools" /\ StepLeft(l)
  /\ Goto(l, "running")
  /\ step' = Tally(l)
  /\ worker' = [w \in Workers |-> IF w \in CallsOf(l) THEN Started(worker[w]) ELSE worker[w]]
  /\ UNCHANGED <<globals, sourced, report, found>>

AnyPage(l) == \E w \in CallsOf(l) : worker[w] = "page"
OneResultRead(l) ==                \* mutant: only one message of the batch is read
  worker[CHOOSE w \in CallsOf(l) : TRUE] = "page"
Harvest(l) == AnyPage(l)

\* Every call is answered: the results enter the transcript.  Only states at the
\* top are kept (if not namespace), so an agent's pages stay with the agent.
Join(l) ==
  /\ phase[l] = "running"
  /\ \A w \in CallsOf(l) : worker[w] \in Answers
  /\ Goto(l, "model")
  /\ sourced' = sourced \cup {r \in {l} \cap Runs : Harvest(r)}
  /\ worker' = [w \in Workers |-> IF Owner(w) = l THEN "free" ELSE worker[w]]
  /\ UNCHANGED <<globals, step, report, found>>

\* A step is due and none is left: GraphRecursionError, here or in a call.
CallEnded(l, error) == phase[l] = "running" /\ \E w \in CallsOf(l) : worker[w] = error
NoStepLeft(l) == \/ phase[l] \in {"model", "tools"} /\ ~StepLeft(l)
                 \/ CallEnded(l, "out of steps")

\* A tool or the model API raises.  Workers that are still out run on.
Raises(l) == phase[l] = "model" \/ CallEnded(l, "raised")

(***************************************************************************)
(* The report.  extract_report reads the transcript; _assemble copies it   *)
(* field by field, always with status "complete".                          *)
(***************************************************************************)
Extracted(r) == [web_sources |-> r \in sourced]
Truncated == [web_sources |-> FALSE]

Unassembled(extracted, cut) == extracted    \* mutant: the report goes out as extracted

Assembled(extracted, cut) ==
  [status |-> "complete", truncated |-> cut, web_sources |-> extracted.web_sources]

\* The model answers: the run is over and its transcript becomes the report.
Conclude(r) ==
  /\ phase[r] = "model" /\ StepLeft(r)
  /\ Goto(r, "over")
  /\ step' = Tally(r)
  /\ report' = [report EXCEPT ![r] = Assembled(Extracted(r), FALSE)]
  /\ UNCHANGED <<globals, sourced, threads>>

LimitEscapes(r) == UNCHANGED report     \* mutant: GraphRecursionError is not caught
CutShort(r) == report' = [report EXCEPT ![r] = Assembled(Truncated, TRUE)]

OutOfSteps(r) ==
  /\ NoStepLeft(r)
  /\ Goto(r, "over")
  /\ CutShort(r)
  /\ UNCHANGED <<globals, step, sourced, threads>>

\* deep_investigation raises what its sub-agent raised.
Fail(r) ==
  /\ Raises(r)
  /\ Goto(r, "failed")
  /\ UNCHANGED <<globals, step, sourced, report, threads>>

(***************************************************************************)
(* An agent an investigation starts, on the thread of the call: it answers *)
(* in words, or its error is the call's.                                   *)
(***************************************************************************)
StartAgent(a) ==
  /\ worker[a] = "starting"
  /\ Becomes(a, "delegated")
  /\ Goto(a, "model")
  /\ step' = [step EXCEPT ![a] = 0]
  /\ UNCHANGED <<globals, sourced, report, found>>

AgentAnswers(a) ==
  /\ phase[a] = "model" /\ StepLeft(a)
  /\ Becomes(a, "told")
  /\ Goto(a, "idle")
  /\ step' = Tally(a)
  /\ UNCHANGED <<globals, sourced, report, found>>

AgentStops(a) ==
  /\ \/ NoStepLeft(a) /\ Becomes(a, "out of steps")
     \/ Raises(a) /\ Becomes(a, "raised")
  /\ Goto(a, "failed")
  /\ UNCHANGED <<globals, step, sourced, report, found>>

(***************************************************************************)
(* web_search, on a worker thread.                                         *)
(***************************************************************************)
CheckDropped == TRUE               \* mutant: the budget is not looked at
BudgetLeft == searchesUsed < WEB_SEARCH_BUDGET

CheckBudget(w) ==
  /\ worker[w] = "check"
  /\ Becomes(w, IF BudgetLeft THEN "client" ELSE "exhausted")
  /\ UNCHANGED <<globals, loops, found>>

\* _search_client: the flag goes up before the client exists.
GetClient(w) ==
  /\ worker[w] = "client"
  /\ IF ~clientBuilt
     THEN /\ clientBuilt' = TRUE
          /\ Becomes(w, "building")
     ELSE /\ Becomes(w, IF clientReady THEN "count" ELSE "unavailable")
          /\ UNCHANGED clientBuilt
  /\ UNCHANGED <<searchesUsed, clientReady, loops, found>>

\* Without a key there is nothing to build; with one, the constructor may raise.
BuildClient(w) ==
  /\ worker[w] = "building"
  /\ clientReady' \in IF KeyConfigured THEN BOOLEAN ELSE {FALSE}
  /\ Becomes(w, IF clientReady' THEN "count" ELSE "unavailable")
  /\ UNCHANGED <<searchesUsed, clientBuilt, loops, found>>

CountSearch(w) ==
  /\ worker[w] = "count"
  /\ searchesUsed' = searchesUsed + 1
  /\ Becomes(w, "request")
  /\ UNCHANGED <<clientBuilt, clientReady, loops, found>>

\* The web answers with pages, with none, or with an error that is handed back.
WebAnswers(w) ==
  /\ worker[w] = "request"
  /\ \E answer \in {"page", "nothing"} :
       /\ Becomes(w, answer)
       /\ found' = found \cup {l \in {Owner(w)} : answer = "page"}
  /\ UNCHANGED <<globals, loops>>

\* run_cypher hands a refusal or a failed query back; a library tool raises.
GraphAnswers(w) ==
  /\ worker[w] = "reading"
  /\ \E answer \in {"rows", "raised"} : Becomes(w, answer)
  /\ UNCHANGED <<globals, loops, found>>

LoopStep(l) == Ask(l) \/ Dispatch(l) \/ Join(l)
RunStep(r) == LoopStep(r) \/ Conclude(r) \/ OutOfSteps(r) \/ Fail(r)
AgentStep(a) == LoopStep(a) \/ StartAgent(a) \/ AgentAnswers(a) \/ AgentStops(a)
WorkerStep(w) == \/ CheckBudget(w) \/ GetClient(w) \/ BuildClient(w)
                 \/ CountSearch(w) \/ WebAnswers(w) \/ GraphAnswers(w)

Next == \/ \E r \in Runs : Begin(r) \/ RunStep(r)
        \/ \E a \in Agents : AgentStep(a)
        \/ \E w \in Workers : WorkerStep(w)

\* The loops and their workers run on: every wait has a time limit (the model
\* client's, the query's server-side one, the search client's).  Nobody has to
\* start an investigation.
Fairness == /\ \A r \in Runs : WF_vars(RunStep(r))
            /\ \A a \in Agents : WF_vars(AgentStep(a))
            /\ \A w \in Workers : WF_vars(WorkerStep(w))

Spec == Init /\ [][Next]_vars
FairSpec == Spec /\ Fairness

-----------------------------------------------------------------------------
(***************************************************************************)
(* Properties.                                                             *)
(***************************************************************************)

\* The module globals, the transcripts and the workers hold what they should.
TypeOK ==
  /\ searchesUsed \in Nat
  /\ clientBuilt \in BOOLEAN /\ clientReady \in BOOLEAN
  /\ phase \in [Loops -> {"idle", "model", "tools", "running", "over", "failed"}]
  /\ step \in [Loops -> Nat] /\ \A l \in Loops : step[l] <= Limit(l)
  /\ sourced \subseteq Runs
  /\ report \in [Runs -> Report \cup {None}]
  /\ worker \in [Workers -> WorkerStates]
  /\ found \subseteq Loops

\* What the search budget really guarantees: however the workers interleave and
\* whichever investigation resets the counter, fewer searches than budget plus
\* workers are counted between two resets (the check and the increment of
\* web_search are apart, so each worker can slip past a nearly spent budget once).
OverrunBounded ==
  \/ searchesUsed = 0
  \/ searchesUsed < WEB_SEARCH_BUDGET + Cardinality(Workers)

Concluded(r) == report[r] # None /\ ~report[r].truncated

\* A concluded report keeps the web sources the investigation's own searches
\* brought back, in any tool step and whatever ran beside them, and claims none
\* that only an agent it started has seen.
SourcesKept ==
  \A r \in Runs : Concluded(r) => report[r].web_sources = (r \in found)

\* However many investigations overlap, whatever the agents they start do, and
\* whatever the workers of an ended one still bring back, each keeps what an
\* investigation promises its caller: it ends once, with a report at a step limit,
\* too, and a concluded one has left nothing running.
AgentFound(r) == \E a \in Agents : Owner(a) = r /\ a \in found

Outcome == INSTANCE InvestigationOutcome WITH
  state <- [r \in Runs |-> IF phase[r] \in {"model", "tools", "running"} THEN "running" ELSE phase[r]],
  pages <- found \cap Runs,
  agentPages <- {r \in Runs : AgentFound(r)}
ImplementsOutcome == Outcome!Spec

\* An investigation cannot loop forever (RECURSION_LIMIT): once begun it ends.
InvestigationEnds ==
  \A r \in Runs : phase[r] = "model" ~> phase[r] \in {"over", "failed"}

\* "The web-search client, or None when no TAVILY_API_KEY is set", the client's
\* constructor having raised nothing.
ClientWhenConfigured ==
  KeyConfigured /\ (clientReady \/ \E w \in Workers : worker[w] = "building")
    => \A w \in Workers : worker[w] # "unavailable"

==============================================================================
