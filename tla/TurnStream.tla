----------------------------- MODULE TurnStream -----------------------------
(***************************************************************************)
(* A turn of the agent as the chat page follows it (watchline/discovery/   *)
(* ui/stream.py run_turn, app.py _render_turn, cost.py): while the agent   *)
(* works, its messages and the progress of an investigation are read off   *)
(* one stream; when it stops, what was read becomes the answer with its    *)
(* evidence, its cost and, for an investigation, its report panel.  The    *)
(* investigation (agent/investigator.py run_investigation) is an agent     *)
(* loop of its own inside a tool call; its model calls reach the page only *)
(* as one usage event.                                                     *)
(*                                                                         *)
(* Abstracted: texts, citations and web sources; a model call costs one    *)
(* unit; results of a tool step that never completes are not told from     *)
(* none, since a turn that raises shows no answer.                         *)
(***************************************************************************)
EXTENDS AgentTurn, Integers, FiniteSets

CONSTANTS
  Deep,             \* deep_investigation
  MaxModelCalls,    \* bound: model calls of a turn
  MaxParallel,      \* bound: tool calls of one model message
  StepLimit         \* RECURSION_LIMIT, as model calls of an investigation

ASSUME StreamAssumption ==
  /\ Deep \in Functions /\ Type(Declared[Deep]) \in {"III", "IV"} /\ Delegates[Deep] = {}
  /\ {MaxModelCalls, MaxParallel, StepLimit} \subseteq Nat \ {0}

VARIABLES
  feed,             \* what the page has read off the stream in this turn
  sub,              \* the investigation's own loop, and the model calls it made
  answer,           \* what the page shows of the last turn
  made              \* ghost: model calls and tool results there were in this turn
stream == <<feed, sub, answer, made>>

Fresh == [results |-> {}, usages |-> 0, deep_usages |-> 0, is_investigation |-> FALSE]
Idle == [at |-> "model", calls |-> 0]
Nothing == [calls |-> 0, deep |-> 0, nested |-> 0, asked |-> {}, ran |-> {}]
NoAnswer == [shown |-> FALSE]

-----------------------------------------------------------------------------
OfLastResult(results) ==           \* mutant: an element is kept for one tool only
  LET one == CHOOSE r \in results : TRUE
  IN IF results = {} THEN {} ELSE {<<c, one.form>> : c \in one.caveats}

\* extract_evidence: the caveats of the results' own tags, an element and a
\* text once.  What a result holds of other tools' results is not looked at.
extract_evidence(results) == UNION {{<<c, r.form>> : c \in r.caveats} : r \in results}

\* A result as the page reads it: long_form texts for an investigation.
Read(name, payloads) ==
  {[tool |-> name, form |-> IF name = Deep THEN "long" ELSE "short", caveats |-> p.tag.caveats] :
     p \in {p \in payloads : p.function = name}}

\* Answer, then Cost.
Show(page) ==
  [shown |-> TRUE, evidence |-> extract_evidence(page.results), usages |-> page.usages,
   deep_usages |-> page.deep_usages, is_investigation |-> page.is_investigation]

-----------------------------------------------------------------------------
StreamInit == Init /\ feed = Fresh /\ sub = Idle /\ answer = NoAnswer /\ made = Nothing

NothingCleared(page) == page           \* mutant: what was read is kept from turn to turn
Cleared(page) == Fresh

\* A new prompt: run_turn begins with nothing read.
Begin(run) ==
  /\ StartTurn(run)
  /\ feed' = Cleared(feed)
  /\ sub' = Idle
  /\ answer' = NoAnswer
  /\ made' = Nothing

ByDepth(asked) == FALSE                \* mutant: only nested steps tell an investigation
Announces(asked) == Deep \in asked

\* The model's message is read with its usage, its calls are announced; without
\* calls it is the answer.
Speak(asked) ==
  /\ made.calls < MaxModelCalls
  /\ made.calls + 1 = MaxModelCalls => asked = {}
  /\ CallModel(asked)
  /\ LET page == [feed EXCEPT !.usages = @ + 1, !.is_investigation = @ \/ Announces(asked)]
     IN feed' = page /\ answer' = IF asked = {} THEN Show(page) ELSE answer
  /\ made' = [made EXCEPT !.calls = @ + 1, !.asked = @ \cup asked]
  /\ sub' = Idle

\* A tool message is read; a refusal and an error carry no payload.
Hear(name, payloads) ==
  /\ feed' = [feed EXCEPT !.results = @ \cup Read(name, payloads)]
  /\ UNCHANGED <<sub, answer>>

Fails(name) ==
  /\ Refuse(name) \/ NoSuchTool(name)
  /\ Hear(name, {})
  /\ UNCHANGED made

Returns(name, parts) ==
  /\ name = Deep => sub.at = "over"
  /\ RunTool(name, parts)
  /\ Hear(name, Payloads(name, parts))
  /\ made' = [made EXCEPT !.ran = @ \cup {name}]

Dies(name) == ToolRaises(name) /\ UNCHANGED stream

-----------------------------------------------------------------------------
(***************************************************************************)
(* run_investigation, while its call is outstanding.                       *)
(***************************************************************************)
Investigating == phase = "tools" /\ Deep \in calls /\ Deep \in tools /\ ~Refused(Deep)

InnerStep(next, used) ==
  /\ Investigating
  /\ sub' = next
  /\ feed' = [feed EXCEPT !.deep_usages = @ + used, !.is_investigation = TRUE]
  /\ UNCHANGED <<vars, answer>>

\* A model message with calls: each is a nested step on the page.
SubAsks ==
  /\ sub.at = "model" /\ sub.calls < StepLimit
  /\ InnerStep([at |-> "tools", calls |-> sub.calls + 1], 0)
  /\ made' = [made EXCEPT !.deep = @ + 1]

\* Its tools, among them agents of its own, whose messages are not in its state.
SubWorks(nested) ==
  /\ sub.at = "tools"
  /\ InnerStep([sub EXCEPT !.at = "model"], 0)
  /\ made' = [made EXCEPT !.deep = @ + nested, !.nested = @ + nested]

\* _emit_usage of the final state: the messages of the investigation itself.
_emit_usage(run) == run.calls

\* A message without calls concludes: no nested step, but the usage event.
SubConcludes ==
  /\ Investigating
  /\ sub.at = "model" /\ sub.calls < StepLimit
  /\ LET run == [at |-> "over", calls |-> sub.calls + 1]
     IN sub' = run /\ feed' = [feed EXCEPT !.deep_usages = @ + _emit_usage(run)]
  /\ made' = [made EXCEPT !.deep = @ + 1]
  /\ UNCHANGED <<vars, answer>>

NoUsage(run) == 0                      \* mutant: a truncated run emits no usage
BestEffort(run) == _emit_usage(run)

\* GraphRecursionError: usage, and the step limit as a nested result.
SubTruncated ==
  /\ sub.at # "over" /\ sub.calls = StepLimit
  /\ InnerStep([sub EXCEPT !.at = "over"], BestEffort(sub))
  /\ UNCHANGED made

StreamNext ==
  \/ \E run \in Session : Begin(run)
  \/ \E asked \in {names \in SUBSET Names : Cardinality(names) <= MaxParallel} : Speak(asked)
  \/ \E name \in calls :
       \/ Fails(name)
       \/ \E parts \in SUBSET Functions : Returns(name, parts)
       \/ Dies(name)
  \/ SubAsks
  \/ \E nested \in 0..1 : SubWorks(nested)
  \/ SubConcludes
  \/ SubTruncated

StreamSpec == StreamInit /\ [][StreamNext]_<<vars, stream>>

-----------------------------------------------------------------------------
Form == {"short", "long"}

\* Types: what was read is of tools there are, counts are within their bounds.
StreamTypeOK ==
  /\ TypeOK
  /\ feed.results \subseteq [tool : tools, form : Form, caveats : SUBSET DerivedElement]
  /\ feed.usages \in 0..MaxModelCalls /\ feed.deep_usages \in 0..(MaxModelCalls * StepLimit)
  /\ feed.is_investigation \in BOOLEAN
  /\ sub.at \in {"model", "tools", "over"} /\ sub.calls \in 0..StepLimit
  /\ answer.shown \in BOOLEAN
  /\ answer.shown => answer.evidence \subseteq DerivedElement \X Form
  /\ made.asked \subseteq Names /\ made.ran \subseteq tools

\* The panel is the basis of this answer: of every derived element that a tool
\* run in this turn declares it holds a caveat, and none of any other turn's.
EvidenceIsTheTurns ==
  answer.shown =>
    /\ \A f \in made.ran : \A e \in Declared[f].touches \cap TYPE_II_ELEMENTS :
         \E c \in answer.evidence : c[1] = CaveatOf(e)
    /\ \A c \in answer.evidence : \E f \in made.ran :
         c[1] \in Caveats(Declared[f]) /\ (c[2] = "long" => f = Deep)

\* The cost of an answer counts every model call of the turn once, those of an
\* investigation included, whether it concluded or ran out of steps; the calls
\* of agents the investigation starts itself are the ones it leaves out.
EveryCallPriced ==
  answer.shown =>
    answer.usages = made.calls /\ answer.deep_usages = made.deep - made.nested

\* A turn gets the report panel if an investigation returned in it, however few
\* steps that took, and only if one was called.
InvestigationHasPanel ==
  answer.shown =>
    /\ Deep \in made.ran => answer.is_investigation
    /\ answer.is_investigation => Deep \in made.asked

=============================================================================
