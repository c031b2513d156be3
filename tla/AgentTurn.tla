----------------------------- MODULE AgentTurn -----------------------------
(***************************************************************************)
(* The turns of one thread of the top-level agent as its middleware sees   *)
(* them (watchline/discovery/agent/middleware.py, session.py, graph.py,    *)
(* tools/registry.py): each model call is offered the tools the run's      *)
(* trust allows, each tool call passes a second check of its own.  Between *)
(* turns the caller may pass another trust level, and the thread keeps     *)
(* what earlier turns said, so the model may ask for a tool it was not     *)
(* offered, or for one there is not.                                       *)
(*                                                                         *)
(* Abstracted: arguments, persona, prompts; parallel calls of one tool are *)
(* one.  A tool that raises ends the turn.                                 *)
(***************************************************************************)
EXTENDS Reliability

CONSTANTS
  Functions,        \* tool functions a library may hold
  Declared,         \* what each declares
  Delegates,        \* the tool functions each calls for parts of its result
  Unknown,          \* a tool name that is not registered
  Missing           \* a trust level that is not passed

ASSUME TurnAssumption ==
  /\ Declared \in [Functions -> Declaration]
  /\ Delegates \in [Functions -> SUBSET Functions]
  /\ Unknown \notin Functions
  /\ Missing \notin {"public", "vetted", "malformed"}

VARIABLES
  tools,            \* all_tools(): the functions of a library that imports
  session,          \* what the caller passes with this turn
  phase,            \* "idle", "model", "tools"
  offered,          \* the tools of the last model request
  calls,            \* tool calls of the last model message not yet answered
  message           \* the last tool message of the turn
vars == <<tools, session, phase, offered, calls, message>>

NoMessage == [outcome |-> "none"]
Names == tools \cup {Unknown}
TrustValue == {"public", "vetted", "malformed", Missing}
Session == [configurable : TrustValue, context : TrustValue]

-----------------------------------------------------------------------------
ContextWins(run) == IF run.context # Missing THEN run.context ELSE run.configurable
                                   \* mutant: the defaults' order swapped
\* _ambient_config: configurable wins over the context.
trust_level(run) == IF run.configurable # Missing THEN run.configurable ELSE run.context

\* resolve_trust_level: anything but the exact word is public.
Vetted(run) == trust_level(run) = "vetted"

\* The gate's view of a tool: a name that is not registered has no metadata,
\* which counts as gated.
Gated(name) == name \in tools => requires_tier_4(Declared[name])

visible_tools(run) == IF Vetted(run) THEN tools ELSE {t \in tools : ~Gated(t)}

FilterIsEnough(name) == FALSE      \* mutant: the second check trusts the first
Refused(name) == Gated(name) /\ ~Vetted(session)

-----------------------------------------------------------------------------
Init ==
  /\ tools \in {lib \in SUBSET Functions :
                  \A f \in lib : Imports(Declared[f]) /\ Delegates[f] \subseteq lib}
  /\ session = [configurable |-> Missing, context |-> Missing]
  /\ phase = "idle"
  /\ offered = {}
  /\ calls = {}
  /\ message = NoMessage

StartTurn(run) ==
  /\ phase = "idle"
  /\ session' = run
  /\ phase' = "model"
  /\ message' = NoMessage
  /\ UNCHANGED <<tools, offered, calls>>

\* TrustGate, then the model's message: with calls, or the answer.
CallModel(asked) ==
  /\ phase = "model"
  /\ offered' = visible_tools(session)
  /\ calls' = asked
  /\ phase' = IF asked = {} THEN "idle" ELSE "tools"
  /\ UNCHANGED <<tools, session, message>>

\* A call's message, and back to the model when it is the last.
Answered(name, outcome, payloads) ==
  /\ phase = "tools" /\ name \in calls
  /\ calls' = calls \ {name}
  /\ phase' = IF calls = {name} THEN "model" ELSE "tools"
  /\ message' = [outcome |-> outcome, tool |-> name, payloads |-> payloads]
  /\ UNCHANGED <<tools, session, offered>>

\* ToolCallGuard: the tool does not run.
Refuse(name) == Refused(name) /\ Answered(name, "refused", {})

NoSuchTool(name) == ~Refused(name) /\ name \notin tools /\ Answered(name, "error", {})

\* The result is tagged, and so is every part of it another tool function made.
Payloads(f, parts) == {[function |-> g, tag |-> as_payload(Declared[g])] : g \in {f} \cup parts}

RunTool(name, parts) ==
  /\ ~Refused(name) /\ name \in tools
  /\ parts \subseteq Delegates[name]
  /\ Answered(name, "ran", Payloads(name, parts))

\* An exception of a tool reaches the caller; the other calls go unanswered.
ToolRaises(name) ==
  /\ phase = "tools" /\ name \in calls /\ name \in tools /\ ~Refused(name)
  /\ phase' = "idle" /\ calls' = {}
  /\ UNCHANGED <<tools, session, offered, message>>

Next ==
  \/ \E run \in Session : StartTurn(run)
  \/ \E asked \in SUBSET Names : CallModel(asked)
  \/ \E name \in calls :
       \/ Refuse(name)
       \/ NoSuchTool(name)
       \/ \E parts \in SUBSET Functions : RunTool(name, parts)
       \/ ToolRaises(name)

Spec == Init /\ [][Next]_vars

-----------------------------------------------------------------------------
Element == TYPE_I_ELEMENTS \cup TYPE_II_ELEMENTS
Payload == [function : Functions, tag : [type : ReliabilityType, elements : SUBSET Element,
                                         caveats : SUBSET DerivedElement]]
Message == [outcome : {"refused", "error", "ran"}, tool : Names, payloads : SUBSET Payload]

\* Types: messages are of tools there are and speak of elements there are.
TypeOK ==
  /\ tools \subseteq Functions
  /\ session \in Session
  /\ phase \in {"idle", "model", "tools"}
  /\ offered \subseteq tools
  /\ calls \subseteq Names
  /\ message \in {NoMessage} \cup Message

\* Investigative: type III or IV, which only a vetted thread may use.
Investigative(f) == Type(Declared[f]) \in {"III", "IV"}

\* The caller vetted this turn: by its configuration, or by the context with
\* nothing in the configuration.
CallerVetted(run) ==
  \/ run.configurable = "vetted"
  \/ run.configurable = Missing /\ run.context = "vetted"

\* A tool that searches or writes its own Cypher runs only in a turn the caller
\* vetted, whatever the model asks for: what it saw in the thread's other turns
\* or made up counts for nothing.
GatedNeedsVetted ==
  message.outcome = "ran" /\ Investigative(message.tool) => CallerVetted(session)

\* The model is offered exactly what the turn is entitled to: on a vetted turn
\* everything, else what is of type I or II.
OfferedIsEntitled ==
  phase = "tools" => offered = {f \in tools : CallerVetted(session) \/ ~Investigative(f)}

\* Only investigation is ever refused: no turn loses an ordinary tool, and a
\* vetted one loses nothing.
OnlyGatedRefused ==
  message.outcome = "refused" =>
    ~CallerVetted(session) /\ (message.tool \in tools => Investigative(message.tool))

\* "Every Type II touch ships its caveat": of each derived element that the
\* tool, or a tool function it delegated to, reads, the result holds a caveat,
\* and a result of type II or above holds a warning.
CaveatsTravel ==
  message.outcome = "ran" =>
    \A g \in {message.tool} \cup {p.function : p \in message.payloads} :
      \E p \in message.payloads :
        /\ p.function = g
        /\ \A e \in Declared[g].touches \cap TYPE_II_ELEMENTS : CaveatOf(e) \in p.tag.caveats
        /\ Type(Declared[g]) # "I" => p.tag.caveats \cap Warnings # {}

=============================================================================
