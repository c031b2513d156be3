---------------------------- MODULE SessionMemory ----------------------------
(***************************************************************************)
(* The memory of one conversation thread: SessionStateMiddleware           *)
(* (watchline/discovery/agent/state.py) around the agent loop of one turn. *)
(*                                                                         *)
(* A turn runs the loop                                                    *)
(*     before_model -> model -> after_model -> tools -> before_model ...   *)
(* until the model answers without calling a tool.  Each node commits its  *)
(* state delta to the thread's checkpoint, so a turn that dies between two *)
(* nodes leaves what the earlier ones wrote.                               *)
(*                                                                         *)
(* The session slots are kept as the code keeps them; what is abstracted:  *)
(*   - an entity is a model value, a result list a sequence of landlords   *)
(*     (both list kinds hold landlords: _KIND_TYPE), a report a value;     *)
(*   - "absent", None and {} are one value, None (<<>> for a list);        *)
(*   - a user's text is what resolve_references reads in it: the ordinal   *)
(*     it names (0: none, or "number 0", which selects nothing either) and *)
(*     the entity type its first type word or pronoun denotes;             *)
(*   - the per-type stamps of slot_touched_at are written, never read, and *)
(*     left out; working_set is never written, so it has no variable;      *)
(*   - disambiguation_history is a bag: nothing reads its order.           *)
(***************************************************************************)
EXTENDS Integers, Sequences, FiniteSets

CONSTANTS
  Landlords,       \* actor ids a tool can return
  Buildings,       \* BBLs a tool can return
  Reports,         \* investigation reports
  CandidateLists,  \* non-empty lists of landlords a tool can return
  Payloads,        \* the tool results that can come back
  Texts,           \* what users' messages say, as far as references go
  None,            \* an absent value
  Timeout,         \* session_idle_timeout_seconds, in ticks
  MaxTime,         \* bound: last instant of the clock
  MaxResults,      \* bound: tool results in one turn
  MaxTurns,        \* bound: turns of the thread
  MaxOrdinal       \* bound: largest ordinal a user names

FocusTypes == {"building", "landlord", "portfolio", "actor"}
ShortTermSlots == {"focus_entities", "last_result"}
Entities == Landlords \cup Buildings
Never == -1        \* a slot with no entry in slot_touched_at

Payload ==
  [tool     : {"resolve_address", "resolve_landlord_name",
               "lookup_building_ownership", "deep_investigation", "other"},
   status   : {"resolved", "needs_disambiguation", "found", "complete", "negative"},
   building : Buildings \cup {None},
   landlord : Landlords \cup {None},
   items    : CandidateLists \cup {<<>>},
   report   : Reports \cup {None}]

Text == [ordinal : 0..MaxOrdinal, type : FocusTypes \cup {"none"}]

ASSUME SessionAssumption ==
  /\ CandidateLists \subseteq Seq(Landlords)
  /\ <<>> \notin CandidateLists
  /\ None \notin Landlords \cup Buildings \cup Reports
  /\ Landlords \cap Buildings = {}
  /\ Payloads \subseteq Payload
  /\ Texts \subseteq Text
  /\ Timeout \in Nat /\ MaxTime \in Nat
  /\ MaxResults \in Nat /\ MaxTurns \in Nat /\ MaxOrdinal \in Nat

VARIABLES
  now,             \* the clock, time.time()
  focus,           \* focus_entities
  lastResult,      \* last_result
  touched,         \* slot_touched_at, for the slots that expire
  history,         \* disambiguation_history
  investigation,   \* investigation_state
  resolved,        \* resolved_reference
  phase,           \* the node that runs next; "done"/"aborted" between turns
  text,            \* the user's text of this turn
  results,         \* tool results since the last human message
  calling,         \* the last model message asks for tools not yet answered
  dangling,        \* an earlier model message's tool calls were never answered
  turns,           \* turns started
  seen             \* entities confirmed by some tool result of the thread

slots == <<focus, lastResult, touched, history, investigation, resolved>>
loop == <<phase, text, results, calling, dangling, turns, seen>>
vars == <<now, slots, loop>>

NoFocus == [type \in FocusTypes |-> None]
NoReference == [via |-> "none", type |-> "none", entity |-> None]
NoText == [ordinal |-> 0, type |-> "none"]

(***************************************************************************)
(* extract_from_payload: what one tool result establishes.                 *)
(***************************************************************************)
IsResolvedAddress(p) == p.tool = "resolve_address" /\ p.status = "resolved"
IsResolvedName(p) == p.tool = "resolve_landlord_name" /\ p.status = "resolved"
IsChoice(p) == /\ p.tool = "resolve_landlord_name"
               /\ p.status = "needs_disambiguation"
               /\ p.items # <<>>
IsOwnership(p) == p.tool = "lookup_building_ownership" /\ p.status = "found"

EchoedBuilding(p) ==           \* mutant: the requested BBL, found or not
  IF p.tool \in {"resolve_address", "lookup_building_ownership"} THEN p.building ELSE None

BuildingOf(p) ==
  IF IsResolvedAddress(p) \/ IsOwnership(p) THEN p.building ELSE None

FirstControllerWins(p) ==      \* mutant: several controllers, the first taken
  IF IsResolvedName(p) THEN p.landlord
  ELSE IF IsOwnership(p) /\ p.items # <<>> THEN p.items[1]
  ELSE None

LandlordOf(p) ==
  IF IsResolvedName(p) THEN p.landlord
  ELSE IF IsOwnership(p) /\ Len(p.items) = 1 THEN p.items[1]
  ELSE None

FocusOf(p, type) ==
  IF type = "building" THEN BuildingOf(p)
  ELSE IF type = "landlord" THEN LandlordOf(p)
  ELSE None

ListOf(p) == IF IsChoice(p) \/ IsOwnership(p) THEN p.items ELSE <<>>

ReportOf(p) ==
  IF p.tool = "deep_investigation" /\ p.status = "complete" THEN p.report ELSE None

\* Ghost: the entities a result confirms, whichever tool produced it.
Confirmed(p) ==
  {e \in Entities :
     \/ p.status \in {"resolved", "found"} /\ e = p.building
     \/ p.status = "resolved" /\ e = p.landlord
     \/ /\ p.status \in {"found", "needs_disambiguation"}
        /\ \E i \in DOMAIN p.items : e = p.items[i]}

-----------------------------------------------------------------------------
Init ==
  /\ now = 0
  /\ focus = NoFocus
  /\ lastResult = <<>>
  /\ touched = [slot \in ShortTermSlots |-> Never]
  /\ history = [choice \in CandidateLists |-> 0]
  /\ investigation = None
  /\ resolved = NoReference
  /\ phase = "done"
  /\ text = NoText
  /\ results = <<>>
  /\ calling = FALSE
  /\ dangling = FALSE
  /\ turns = 0
  /\ seen = {}

\* Time passes, between turns or while a model or a tool is at work.
Tick ==
  /\ now < MaxTime
  /\ now' = now + 1
  /\ UNCHANGED <<slots, loop>>

\* The user's message enters the thread: the agent is invoked on it.
HumanTurn ==
  /\ phase \in {"done", "aborted"}
  /\ turns < MaxTurns
  /\ turns' = turns + 1
  /\ text' \in Texts
  /\ results' = <<>>
  /\ phase' = "before"
  /\ UNCHANGED <<now, slots, calling, dangling, seen>>

(***************************************************************************)
(* before_model: expire_stale_slots, then, when the last message is the    *)
(* user's (no tool result since), resolve_references against what survived.*)
(***************************************************************************)
Expired(slot) == touched[slot] # Never /\ now - touched[slot] > Timeout

LiveFocus == IF Expired("focus_entities") THEN NoFocus ELSE focus
LiveList == IF Expired("last_result") THEN <<>> ELSE lastResult
LiveStamps == [slot \in ShortTermSlots |-> IF Expired(slot) THEN Never ELSE touched[slot]]

Resolution(said, known, list) ==
  IF said.ordinal \in 1..Len(list)
  THEN [via |-> "indexed", type |-> "landlord", entity |-> list[said.ordinal]]
  ELSE IF said.type # "none" /\ known[said.type] # None
  THEN [via |-> "reference", type |-> said.type, entity |-> known[said.type]]
  ELSE NoReference

ReferenceBeforeExpiry == Resolution(text, focus, lastResult)   \* mutant
TurnReference == Resolution(text, LiveFocus, LiveList)

SelectionIgnored == [focus |-> LiveFocus, touched |-> LiveStamps]   \* mutant

\* The slots after an indexed reference overwrote the landlord focus.
Selection == [focus |-> [LiveFocus EXCEPT !["landlord"] = TurnReference.entity],
              touched |-> [LiveStamps EXCEPT !["focus_entities"] = now]]

ExpireInvestigation ==         \* mutant: investigation_state made a short-term slot
  /\ investigation' = IF Expired("focus_entities") THEN None ELSE investigation
  /\ UNCHANGED history

\* disambiguation_history and investigation_state never idle out.
KeepDurableSlots == UNCHANGED <<history, investigation>>

BeforeModel ==
  /\ phase = "before"
  /\ phase' = "model"
  /\ lastResult' = LiveList
  /\ IF results # <<>>                    \* mid-loop: not a turn start
     THEN /\ focus' = LiveFocus
          /\ touched' = LiveStamps
          /\ UNCHANGED resolved
     ELSE /\ resolved' = TurnReference
          /\ IF TurnReference.via = "indexed"
             THEN focus' = Selection.focus /\ touched' = Selection.touched
             ELSE focus' = LiveFocus /\ touched' = LiveStamps
  /\ KeepDurableSlots
  /\ UNCHANGED <<now, text, results, calling, dangling, turns, seen>>

\* The model answers or asks for tools.  The API refuses a history in which
\* an earlier tool call has no result, so a dangling call stops every later turn.
Model ==
  /\ phase = "model"
  /\ ~dangling
  /\ calling' \in IF Len(results) < MaxResults THEN BOOLEAN ELSE {FALSE}
  /\ phase' = "after"
  /\ UNCHANGED <<now, slots, text, results, dangling, turns, seen>>

(***************************************************************************)
(* capture (after_model): fold every tool result since the last human      *)
(* message into the slots, in order, at every model call of the turn.      *)
(***************************************************************************)
LastIn(indices) == CHOOSE i \in indices : \A j \in indices : j <= i

NewestResult == IF results = <<>> THEN {} ELSE {Len(results)}   \* mutant

\* _tool_messages_this_turn: the tool results since the last human message.
ThisTurn == DOMAIN results

FocusHits(type) == {i \in ThisTurn : FocusOf(results[i], type) # None}
ListHits == {i \in ThisTurn : ListOf(results[i]) # <<>>}
ReportHits == {i \in ThisTurn : ReportOf(results[i]) # None}
ChoiceHits(choice) == {i \in ThisTurn : IsChoice(results[i]) /\ results[i].items = choice}

FocusReplaced ==               \* mutant: the slot is replaced, not merged into
  IF \A type \in FocusTypes : FocusHits(type) = {} THEN focus
  ELSE [type \in FocusTypes |->
          IF FocusHits(type) = {} THEN None
          ELSE FocusOf(results[LastIn(FocusHits(type))], type)]

CapturedFocus ==
  [type \in FocusTypes |->
     IF FocusHits(type) = {} THEN focus[type]
     ELSE FocusOf(results[LastIn(FocusHits(type))], type)]

AccumulatedList ==             \* mutant: lists pile up instead of replacing
  IF ListHits = {} THEN lastResult ELSE lastResult \o ListOf(results[LastIn(ListHits)])

CapturedList ==
  IF ListHits = {} THEN lastResult ELSE ListOf(results[LastIn(ListHits)])

CapturedReport ==
  IF ReportHits = {} THEN investigation ELSE ReportOf(results[LastIn(ReportHits)])

CapturedHistory ==
  [choice \in CandidateLists |-> history[choice] + Cardinality(ChoiceHits(choice))]

UnstampedCapture == [touched EXCEPT
  !["focus_entities"] = IF \E type \in FocusTypes : FocusHits(type) # {} THEN now ELSE @]  \* mutant

CapturedStamps == [touched EXCEPT
  !["focus_entities"] = IF \E type \in FocusTypes : FocusHits(type) # {} THEN now ELSE @,
  !["last_result"] = IF ListHits # {} THEN now ELSE @]

AfterModel ==
  /\ phase = "after"
  /\ phase' = IF calling THEN "tools" ELSE "done"
  /\ focus' = CapturedFocus
  /\ lastResult' = CapturedList
  /\ investigation' = CapturedReport
  /\ history' = CapturedHistory
  /\ touched' = CapturedStamps
  /\ UNCHANGED <<now, resolved, text, results, calling, dangling, turns, seen>>

\* The tool calls of one model message run side by side and all come back.
ToolsReturn ==
  /\ phase = "tools"
  /\ \E n \in 1..(MaxResults - Len(results)) : \E batch \in [1..n -> Payloads] :
       /\ results' = results \o batch
       /\ seen' = seen \cup UNION {Confirmed(batch[i]) : i \in 1..n}
  /\ calling' = FALSE
  /\ phase' = "before"
  /\ UNCHANGED <<now, slots, text, dangling, turns>>

\* The turn dies: a tool or the model API raises, or the UI stops the run.
\* What the finished nodes committed stays in the thread.
Abort ==
  /\ phase \in {"before", "model", "after", "tools"}
  /\ phase' = "aborted"
  /\ dangling' = (dangling \/ calling)
  /\ calling' = FALSE
  /\ UNCHANGED <<now, slots, text, results, turns, seen>>

Next ==
  \/ Tick
  \/ HumanTurn
  \/ BeforeModel
  \/ Model
  \/ AfterModel
  \/ ToolsReturn
  \/ Abort

Spec == Init /\ [][Next]_vars

-----------------------------------------------------------------------------
(***************************************************************************)
(* Properties.                                                             *)
(***************************************************************************)

\* The slots hold what DiscoveryState declares.
TypeOK ==
  /\ now \in 0..MaxTime
  /\ focus \in [FocusTypes -> Entities \cup {None}]
  /\ lastResult \in CandidateLists \cup {<<>>}
  /\ touched \in [ShortTermSlots -> 0..MaxTime \cup {Never}]
  /\ history \in [CandidateLists -> Nat]
  /\ investigation \in Reports \cup {None}
  /\ resolved \in [via : {"none", "indexed", "reference"},
                   type : FocusTypes \cup {"none"},
                   entity : Entities \cup {None}]
  /\ phase \in {"before", "model", "after", "tools", "done", "aborted"}
  /\ text \in Text
  /\ results \in Seq(Payloads) /\ Len(results) <= MaxResults
  /\ calling \in BOOLEAN /\ dangling \in BOOLEAN
  /\ turns \in 0..MaxTurns
  /\ seen \subseteq Entities

\* No short-term slot is immortal: whatever it holds was stamped, at a time not
\* in the future, so the idle timeout will reach it (expire_stale_slots skips
\* a slot that has no stamp).
HeldMeansStamped ==
  /\ focus # NoFocus => touched["focus_entities"] # Never
  /\ lastResult # <<>> => touched["last_result"] # Never
  /\ \A slot \in ShortTermSlots : touched[slot] <= now

\* Nothing in memory is invented: every entity the slots hold, and every entity
\* a reference was resolved to, was confirmed by a tool result of this thread.
Grounded ==
  /\ \A type \in FocusTypes : focus[type] \in seen \cup {None}
  /\ \A i \in DOMAIN lastResult : lastResult[i] \in seen
  /\ resolved.entity \in seen \cup {None}

\* A turn that ran to its answer is remembered in full: for each slot the last
\* result of the turn that establishes it is what the slot holds, whatever came
\* back beside it, however long the tools took, whatever expired on the way.
CompletedTurnRemembered ==
  phase = "done" =>
    \A i \in DOMAIN results :
      /\ \A type \in FocusTypes :
           /\ FocusOf(results[i], type) # None
           /\ \A j \in i+1..Len(results) : FocusOf(results[j], type) = None
           => focus[type] = FocusOf(results[i], type)
      /\ /\ ListOf(results[i]) # <<>>
         /\ \A j \in i+1..Len(results) : ListOf(results[j]) = <<>>
         => lastResult = ListOf(results[i])
      /\ /\ ReportOf(results[i]) # None
         /\ \A j \in i+1..Len(results) : ReportOf(results[j]) = None
         => investigation = ReportOf(results[i])

\* A reference is only ever resolved against a slot touched within the idle
\* timeout: _before resolves against the state as it stands after expiry.
FreshReferences ==
  [][phase = "before" /\ phase' = "model" /\ results = <<>> =>
       /\ resolved'.via = "reference" => now - touched["focus_entities"] <= Timeout
       /\ resolved'.via = "indexed" => now - touched["last_result"] <= Timeout]_vars

\* "Capture is additive and never guesses": the landlord in focus changes only
\* to one the user picked by position, or to the one landlord some result of
\* this turn names, never to a member of a list with several.
NeverGuesses ==
  [][focus'["landlord"] \notin {focus["landlord"], None} =>
       \/ resolved'.via = "indexed" /\ resolved'.entity = focus'["landlord"]
       \/ \E i \in DOMAIN results :
            Confirmed(results[i]) \cap Landlords = {focus'["landlord"]}]_vars

\* An entity leaves the focus only by idling out or for another of its type: a
\* result about one type never drops the entity remembered for another.
ForgottenOnlyWhenIdle ==
  [][\A type \in FocusTypes :
       focus[type] # None /\ focus'[type] = None => Expired("focus_entities")]_vars

\* The idle timeout never touches the durable slots: a filed report is only ever
\* replaced by another one, and no recorded choice is lost.
DurableSlotsSurvive ==
  [][/\ investigation # None => investigation' # None
     /\ \A choice \in CandidateLists : history'[choice] >= history[choice]]_vars

\* The middleware implements the abstract memory: with seen as what tools have
\* revealed, every step of the loop is a step of ThreadMemory or leaves it alone.
Memory == INSTANCE ThreadMemory WITH
  known <- seen, list <- lastResult, report <- investigation, reference <- resolved

ImplementsThreadMemory == Memory!Spec

==============================================================================
