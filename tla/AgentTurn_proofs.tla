-------------------------- MODULE AgentTurn_proofs --------------------------
(***************************************************************************)
(* For every library of tools that imports: investigation runs on vetted   *)
(* turns only, is the only thing refused, and every result carries the     *)
(* caveats of what it read.                                                *)
(***************************************************************************)
EXTENDS AgentTurn, TLAPS

-----------------------------------------------------------------------------
\* A type III or IV is what the gate reads, and nothing else is.
LEMMA TagIsGate ==
  ASSUME NEW decl
  PROVE  requires_tier_4(decl) <=> Type(decl) \in {"III", "IV"}
BY DEF requires_tier_4, Type

\* Both channels, the precedence and the reading of the level come to this.
LEMMA VettedByCaller ==
  ASSUME NEW run
  PROVE  Vetted(run) <=> CallerVetted(run)
BY TurnAssumption DEF Vetted, CallerVetted, trust_level

\* Each derived element has its caveat, and what imports as more than type I
\* has a warning among them.
LEMMA CaveatsOfImported ==
  ASSUME NEW decl, Imports(decl)
  PROVE  /\ \A e \in decl.touches \cap TYPE_II_ELEMENTS : CaveatOf(e) \in Caveats(decl)
         /\ Type(decl) # "I" => Caveats(decl) \cap Warnings # {}
         /\ Caveats(decl) \subseteq DerivedElement
         /\ decl.touches \subseteq Element
         /\ Type(decl) \in ReliabilityType
<1>1. \A e \in decl.touches \cap TYPE_II_ELEMENTS : CaveatOf(e) \in Caveats(decl)
  BY DEF Caveats, HasCaveat
<1>2. Type(decl) # "I" => Caveats(decl) \cap Warnings # {}
  BY DEF Imports
<1>3. ASSUME NEW e \in HasCaveat PROVE CaveatOf(e) \in DerivedElement
  BY <1>3 DEF HasCaveat, CaveatOf, TYPE_II_ELEMENTS, DerivedElement, Warnings
<1>4. Caveats(decl) \subseteq DerivedElement
  BY <1>3 DEF Caveats
<1>5. decl.touches \subseteq Element
  BY DEF Imports, Element
<1>6. Type(decl) \in ReliabilityType
  BY DEF Type, ReliabilityType
<1> QED BY <1>1, <1>2, <1>4, <1>5, <1>6

\* A library that imports: closed under delegation, each declaration accepted.
Imported == \A f \in tools : Imports(Declared[f]) /\ Delegates[f] \subseteq tools

\* What a run of a tool puts in its message.
LEMMA PayloadsTyped ==
  ASSUME TypeOK, Imported, NEW name \in tools, NEW parts \in SUBSET Delegates[name]
  PROVE  Payloads(name, parts) \in SUBSET Payload
<1>1. {name} \cup parts \subseteq tools
  BY DEF Imported
<1>2. ASSUME NEW g \in {name} \cup parts
      PROVE  [function |-> g, tag |-> as_payload(Declared[g])] \in Payload
  <2>1. g \in Functions /\ Imports(Declared[g])
    BY <1>1, <1>2 DEF TypeOK, Imported
  <2>2. as_payload(Declared[g]) \in [type : ReliabilityType, elements : SUBSET Element,
                                     caveats : SUBSET DerivedElement]
    BY <2>1, CaveatsOfImported DEF as_payload
  <2> QED BY <2>1, <2>2 DEF Payload
<1> QED BY <1>2 DEF Payloads

\* The library stays what was imported.
LEMMA ImportedStays == Imported /\ [Next]_vars => Imported'
<1> SUFFICES ASSUME Imported, [Next]_vars PROVE Imported'
  OBVIOUS
<1>1. tools' = tools
  BY DEF Next, vars, StartTurn, CallModel, Refuse, NoSuchTool, RunTool, ToolRaises, Answered
<1> QED BY <1>1 DEF Imported

-----------------------------------------------------------------------------
LEMMA AnsweredTyped ==
  ASSUME TypeOK, NEW name \in calls, NEW outcome \in {"refused", "error", "ran"},
         NEW payloads \in SUBSET Payload, Answered(name, outcome, payloads)
  PROVE  TypeOK'
<1>1. name \in Names
  BY DEF TypeOK
<1>2. message' \in Message'
  BY <1>1 DEF Answered, Message, Names
<1>3. phase' \in {"idle", "model", "tools"}
  BY DEF Answered
<1>4. calls' \subseteq Names'
  BY DEF Answered, TypeOK, Names
<1> QED BY <1>2, <1>3, <1>4 DEF Answered, TypeOK

LEMMA TypeStep == TypeOK /\ Imported /\ [Next]_vars => TypeOK'
<1> SUFFICES ASSUME TypeOK, Imported, [Next]_vars PROVE TypeOK'
  OBVIOUS
<1>1. ASSUME NEW run \in Session, StartTurn(run) PROVE TypeOK'
  BY <1>1 DEF StartTurn, TypeOK, Names
<1>2. ASSUME NEW asked \in SUBSET Names, CallModel(asked) PROVE TypeOK'
  <2>1. offered' \subseteq tools'
    BY <1>2 DEF CallModel, visible_tools
  <2>2. phase' \in {"idle", "model", "tools"}
    BY <1>2 DEF CallModel
  <2>3. message' = message /\ Message' = Message
    BY <1>2 DEF CallModel, Message, Names
  <2> QED BY <1>2, <2>1, <2>2, <2>3 DEF CallModel, TypeOK, Names
<1>3. ASSUME NEW name \in calls, Refuse(name) PROVE TypeOK'
  BY <1>3, AnsweredTyped DEF Refuse
<1>4. ASSUME NEW name \in calls, NoSuchTool(name) PROVE TypeOK'
  BY <1>4, AnsweredTyped DEF NoSuchTool
<1>5. ASSUME NEW name \in calls, NEW parts \in SUBSET Functions, RunTool(name, parts) PROVE TypeOK'
  BY <1>5, AnsweredTyped, PayloadsTyped DEF RunTool
<1>6. ASSUME NEW name \in calls, ToolRaises(name) PROVE TypeOK'
  <2>1. message' = message /\ Message' = Message
    BY <1>6 DEF ToolRaises, Message, Names
  <2> QED BY <1>6, <2>1 DEF ToolRaises, TypeOK, Names
<1>7. CASE UNCHANGED vars
  <2>1. message' = message /\ Message' = Message
    BY <1>7 DEF vars, Message, Names
  <2> QED BY <1>7, <2>1 DEF vars, TypeOK, Names
<1> QED BY <1>1, <1>2, <1>3, <1>4, <1>5, <1>6, <1>7 DEF Next

LEMMA Initially == Init => TypeOK /\ Imported
<1> SUFFICES ASSUME Init PROVE TypeOK /\ Imported
  OBVIOUS
<1>1. tools \subseteq Functions /\ Imported
  BY DEF Init, Imported
<1>2. session \in Session
  BY DEF Init, Session, TrustValue
<1> QED BY <1>1, <1>2 DEF Init, TypeOK

\* Messages are of tools there are, of functions and elements there are, and
\* only registered tools are offered.
THEOREM TypeCorrect == Spec => [](TypeOK /\ Imported)
<1>1. Init => TypeOK /\ Imported
  BY Initially
<1>2. TypeOK /\ Imported /\ [Next]_vars => (TypeOK /\ Imported)'
  BY TypeStep, ImportedStays
<1> QED BY <1>1, <1>2, PTL DEF Spec

-----------------------------------------------------------------------------
\* What is proved of a message speaks of the turn it was given in.
Gate == GatedNeedsVetted /\ OnlyGatedRefused /\ OfferedIsEntitled /\ CaveatsTravel

\* With the library and its types known, the four hold after every step: a step
\* that answers establishes them for its message, the others keep or drop it.
LEMMA GateStep == TypeOK /\ Imported /\ Gate /\ [Next]_vars => Gate'
<1> SUFFICES ASSUME TypeOK, Imported, Gate, [Next]_vars PROVE Gate'
  OBVIOUS
<1> USE DEF Gate
<1>1. ASSUME NEW run \in Session, StartTurn(run) PROVE Gate'
  <2>1. message'.outcome = "none" /\ phase' = "model"
    BY <1>1 DEF StartTurn, NoMessage
  <2> QED BY <2>1 DEF GatedNeedsVetted, OnlyGatedRefused, OfferedIsEntitled, CaveatsTravel
<1>2. ASSUME NEW asked \in SUBSET Names, CallModel(asked) PROVE Gate'
  <2>1. tools' = tools /\ session' = session /\ message' = message
    BY <1>2 DEF CallModel
  <2>2. offered' = {f \in tools : CallerVetted(session) \/ ~Investigative(f)}
    BY <1>2, VettedByCaller, TagIsGate DEF CallModel, visible_tools, Gated, Investigative
  <2> QED BY <2>1, <2>2 DEF GatedNeedsVetted, OnlyGatedRefused, OfferedIsEntitled, CaveatsTravel
<1>3. ASSUME NEW name \in calls, Refuse(name) PROVE Gate'
  <2>1. /\ phase = "tools" /\ offered' = offered /\ tools' = tools /\ session' = session
        /\ message' = [outcome |-> "refused", tool |-> name, payloads |-> {}]
    BY <1>3 DEF Refuse, Answered
  <2>2. ~CallerVetted(session) /\ (name \in tools => Investigative(name))
    BY <1>3, VettedByCaller, TagIsGate DEF Refuse, Refused, Gated, Investigative
  <2> QED BY <2>1, <2>2 DEF GatedNeedsVetted, OnlyGatedRefused, OfferedIsEntitled, CaveatsTravel
<1>4. ASSUME NEW name \in calls, NoSuchTool(name) PROVE Gate'
  <2>1. /\ phase = "tools" /\ offered' = offered /\ tools' = tools /\ session' = session
        /\ message' = [outcome |-> "error", tool |-> name, payloads |-> {}]
    BY <1>4 DEF NoSuchTool, Answered
  <2> QED BY <2>1 DEF GatedNeedsVetted, OnlyGatedRefused, OfferedIsEntitled, CaveatsTravel
<1>5. ASSUME NEW name \in calls, NEW parts \in SUBSET Functions, RunTool(name, parts) PROVE Gate'
  <2> DEFINE tags == Payloads(name, parts)
  <2>1. /\ phase = "tools" /\ offered' = offered /\ tools' = tools /\ session' = session
        /\ message' = [outcome |-> "ran", tool |-> name, payloads |-> tags]
    BY <1>5 DEF RunTool, Answered
  <2>2. Investigative(name) => CallerVetted(session)
    BY <1>5, VettedByCaller, TagIsGate DEF RunTool, Refused, Gated, Investigative
  <2>3. {name} \cup {p.function : p \in tags} \subseteq {name} \cup parts
    <3>1. ASSUME NEW p \in tags PROVE p.function \in {name} \cup parts
      <4>1. PICK g \in {name} \cup parts : p = [function |-> g, tag |-> as_payload(Declared[g])]
        BY <3>1 DEF Payloads
      <4> QED BY <4>1
    <3> HIDE DEF tags
    <3> QED BY <3>1
  <2>4. ASSUME NEW g \in {name} \cup parts
        PROVE \E p \in tags :
          /\ p.function = g
          /\ \A e \in Declared[g].touches \cap TYPE_II_ELEMENTS : CaveatOf(e) \in p.tag.caveats
          /\ Type(Declared[g]) # "I" => p.tag.caveats \cap Warnings # {}
    <3> DEFINE p == [function |-> g, tag |-> as_payload(Declared[g])]
    <3>1. p \in tags
      BY <2>4 DEF Payloads
    <3>2. Imports(Declared[g])
      BY <1>5, <2>4 DEF Imported, RunTool
    <3>3. p.function = g /\ p.tag.caveats = Caveats(Declared[g])
      BY DEF as_payload
    <3> HIDE DEF p, tags
    <3> QED BY <3>1, <3>2, <3>3, CaveatsOfImported
  <2>5. CaveatsTravel'
    BY <2>1, <2>3, <2>4 DEF CaveatsTravel
  <2> QED BY <2>1, <2>2, <2>5 DEF GatedNeedsVetted, OnlyGatedRefused, OfferedIsEntitled
<1>6. ASSUME NEW name \in calls, ToolRaises(name) PROVE Gate'
  BY <1>6 DEF ToolRaises, GatedNeedsVetted, OnlyGatedRefused, OfferedIsEntitled, CaveatsTravel
<1>7. CASE UNCHANGED vars
  BY <1>7 DEF vars, GatedNeedsVetted, OnlyGatedRefused, OfferedIsEntitled, CaveatsTravel
<1> QED BY <1>1, <1>2, <1>3, <1>4, <1>5, <1>6, <1>7 DEF Next

LEMMA GateHolds == Spec => []Gate
<1>1. Init => Gate
  BY DEF Init, NoMessage, Gate, GatedNeedsVetted, OnlyGatedRefused, OfferedIsEntitled, CaveatsTravel
<1>2. TypeOK /\ Imported /\ Gate /\ [Next]_vars => Gate'
  BY GateStep
<1> QED BY <1>1, <1>2, TypeCorrect, PTL DEF Spec

\* A type III or IV tool runs only in a turn the caller vetted, whatever the
\* model asks for, for every library that imports.
THEOREM InvestigationNeedsVetted == Spec => []GatedNeedsVetted
<1>1. Gate => GatedNeedsVetted
  BY DEF Gate
<1> QED BY <1>1, GateHolds, PTL

\* A turn is offered what it is entitled to, no more and no less.
THEOREM OfferIsEntitlement == Spec => []OfferedIsEntitled
<1>1. Gate => OfferedIsEntitled
  BY DEF Gate
<1> QED BY <1>1, GateHolds, PTL

\* No turn is refused an ordinary tool.
THEOREM OrdinaryToolsRun == Spec => []OnlyGatedRefused
<1>1. Gate => OnlyGatedRefused
  BY DEF Gate
<1> QED BY <1>1, GateHolds, PTL

\* Every result carries a caveat of each derived element that the tool and the
\* functions it delegated to declare.
THEOREM CaveatsReachTheModel == Spec => []CaveatsTravel
<1>1. Gate => CaveatsTravel
  BY DEF Gate
<1> QED BY <1>1, GateHolds, PTL

=============================================================================
