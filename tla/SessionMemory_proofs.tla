------------------------ MODULE SessionMemory_proofs -------------------------
(***************************************************************************)
(* Theorems of SessionMemory, for every value of its constants.            *)
(***************************************************************************)
EXTENDS SessionMemory, FiniteSetTheorems, SequenceTheorems, WellFoundedInduction, TLAPS

\* What the invariants rest on: the turn's results were all told to the thread.
ResultsSeen == \A i \in DOMAIN results : Confirmed(results[i]) \subseteq seen

IInv == TypeOK /\ HeldMeansStamped /\ Grounded /\ ResultsSeen

-----------------------------------------------------------------------------
(* Lemmas about the operators of capture.                                  *)

\* A non-empty set of positions of a sequence has a last one.
LEMMA LastInExists ==
  ASSUME NEW n \in Nat, NEW I, I \subseteq 1..n, I # {}
  PROVE  LastIn(I) \in I /\ \A j \in I : j <= LastIn(I)
<1> DEFINE D == {n - i : i \in I}
<1>1. D \subseteq Nat /\ D # {}
  <2>1. PICK i0 \in I : TRUE OBVIOUS
  <2>2. n - i0 \in D OBVIOUS
  <2>3. \A i \in I : n - i \in Nat OBVIOUS
  <2> QED BY <2>2, <2>3
<1>2. PICK d \in D : \A e \in D : ~ (<<e, d>> \in OpToRel(<, Nat))
  <2> HIDE DEF D
  <2> QED BY <1>1, NatLessThanWellFounded, WFMin
<1>3. \A e \in D : ~(e < d)
  BY <1>1, <1>2 DEF OpToRel
<1>4. PICK m \in I : d = n - m
  BY <1>2
<1>5. \A j \in I : j <= m
  BY <1>3, <1>4
<1> QED BY <1>4, <1>5 DEF LastIn

\* Whatever is extracted from a tool result is of the slot's type and is
\* confirmed by that very result.
LEMMA Extraction ==
  ASSUME NEW p \in Payloads
  PROVE  /\ \A type \in FocusTypes :
              FocusOf(p, type) # None =>
                FocusOf(p, type) \in Entities /\ FocusOf(p, type) \in Confirmed(p)
         /\ ListOf(p) \in CandidateLists \cup {<<>>}
         /\ \A i \in DOMAIN ListOf(p) : ListOf(p)[i] \in Confirmed(p)
         /\ ReportOf(p) \in Reports \cup {None}
         /\ Confirmed(p) \subseteq Entities
<1>1. p \in Payload
  BY SessionAssumption
<1>2. /\ p.building \in Buildings \cup {None}
      /\ p.landlord \in Landlords \cup {None}
      /\ p.items \in CandidateLists \cup {<<>>}
      /\ p.report \in Reports \cup {None}
  BY <1>1 DEF Payload
<1>3. \A i \in DOMAIN p.items : p.items[i] \in Landlords
  BY <1>2, SessionAssumption, ElementOfSeq
<1>4. None \notin Landlords /\ None \notin Buildings
  BY SessionAssumption
<1>5. Confirmed(p) \subseteq Entities
  BY <1>2, <1>3 DEF Confirmed, Entities
<1>6. BuildingOf(p) # None => BuildingOf(p) \in Entities /\ BuildingOf(p) \in Confirmed(p)
  BY <1>2 DEF BuildingOf, IsResolvedAddress, IsOwnership, Confirmed, Entities
<1>7. LandlordOf(p) # None => LandlordOf(p) \in Entities /\ LandlordOf(p) \in Confirmed(p)
  <2>1. CASE IsResolvedName(p)
    BY <2>1, <1>2 DEF LandlordOf, IsResolvedName, Confirmed, Entities
  <2>2. CASE ~IsResolvedName(p) /\ IsOwnership(p) /\ Len(p.items) = 1
    <3>1. p.items \in Seq(Landlords)
      BY <1>2, SessionAssumption, EmptySeq
    <3>2. 1 \in DOMAIN p.items
      BY <2>2, <3>1
    <3>3. LandlordOf(p) = p.items[1]
      BY <2>2 DEF LandlordOf
    <3>4. p.items[1] \in Entities
      BY <3>2, <1>3 DEF Entities
    <3>5. p.status = "found"
      BY <2>2 DEF IsOwnership
    <3> QED BY <3>2, <3>3, <3>4, <3>5 DEF Confirmed
  <2>3. CASE ~IsResolvedName(p) /\ ~(IsOwnership(p) /\ Len(p.items) = 1)
    BY <2>3 DEF LandlordOf
  <2> QED BY <2>1, <2>2, <2>3
<1>8. \A type \in FocusTypes :
        FocusOf(p, type) # None =>
          FocusOf(p, type) \in Entities /\ FocusOf(p, type) \in Confirmed(p)
  BY <1>6, <1>7 DEF FocusOf
<1>9. ListOf(p) \in CandidateLists \cup {<<>>}
  BY <1>2 DEF ListOf
<1>10. \A i \in DOMAIN ListOf(p) : ListOf(p)[i] \in Confirmed(p)
  <2>1. CASE IsChoice(p) \/ IsOwnership(p)
    BY <2>1, <1>3 DEF ListOf, IsChoice, IsOwnership, Confirmed, Entities
  <2>2. CASE ~(IsChoice(p) \/ IsOwnership(p))
    BY <2>2 DEF ListOf
  <2> QED BY <2>1, <2>2
<1>11. ReportOf(p) \in Reports \cup {None}
  BY <1>2 DEF ReportOf
<1> QED BY <1>5, <1>8, <1>9, <1>10, <1>11

\* The values capture writes are of the slots' types and were told to the thread.
LEMMA CaptureSound ==
  ASSUME TypeOK, Grounded, ResultsSeen
  PROVE  /\ CapturedFocus \in [FocusTypes -> Entities \cup {None}]
         /\ \A type \in FocusTypes : CapturedFocus[type] \in seen \cup {focus[type]}
         /\ CapturedList \in CandidateLists \cup {<<>>}
         /\ \A i \in DOMAIN CapturedList : CapturedList[i] \in seen
         /\ CapturedList # lastResult => CapturedList # <<>>
         /\ CapturedReport \in Reports \cup {None}
         /\ CapturedReport # investigation => CapturedReport \in Reports
         /\ CapturedHistory \in [CandidateLists -> Nat]
         /\ CapturedStamps \in [ShortTermSlots -> 0..MaxTime \cup {Never}]
         /\ \A slot \in ShortTermSlots : CapturedStamps[slot] \in {touched[slot], now}
<1>1. /\ results \in Seq(Payloads)
      /\ Len(results) \in Nat
      /\ DOMAIN results = 1..Len(results)
      /\ \A i \in DOMAIN results : results[i] \in Payloads
  BY DEF TypeOK
<1>2. \A I : I \subseteq ThisTurn /\ I # {} => LastIn(I) \in I /\ results[LastIn(I)] \in Payloads
                                           /\ Confirmed(results[LastIn(I)]) \subseteq seen
  BY <1>1, LastInExists DEF ThisTurn, ResultsSeen
<1>3. \A type \in FocusTypes :
        CapturedFocus[type] \in Entities \cup {None} /\ CapturedFocus[type] \in seen \cup {focus[type]}
  <2> TAKE type \in FocusTypes
  <2>1. CASE FocusHits(type) = {}
    BY <2>1 DEF CapturedFocus, TypeOK
  <2>2. CASE FocusHits(type) # {}
    <3> DEFINE last == LastIn(FocusHits(type))
    <3>1. last \in FocusHits(type) /\ results[last] \in Payloads
          /\ Confirmed(results[last]) \subseteq seen
      BY <1>2, <2>2 DEF FocusHits
    <3>2. FocusOf(results[last], type) # None
      BY <3>1 DEF FocusHits
    <3>3. CapturedFocus[type] = FocusOf(results[last], type)
      BY <2>2 DEF CapturedFocus
    <3> QED BY <3>1, <3>2, <3>3, Extraction
  <2> QED BY <2>1, <2>2
<1>4. /\ CapturedList \in CandidateLists \cup {<<>>}
      /\ \A i \in DOMAIN CapturedList : CapturedList[i] \in seen
      /\ CapturedList # lastResult => CapturedList # <<>>
  <2>1. CASE ListHits = {}
    BY <2>1 DEF CapturedList, TypeOK, Grounded
  <2>2. CASE ListHits # {}
    <3> DEFINE last == LastIn(ListHits)
    <3>1. last \in ListHits /\ results[last] \in Payloads
          /\ Confirmed(results[last]) \subseteq seen
      BY <1>2, <2>2 DEF ListHits
    <3>2. ListOf(results[last]) # <<>>
      BY <3>1 DEF ListHits
    <3>3. CapturedList = ListOf(results[last])
      BY <2>2 DEF CapturedList
    <3> QED BY <3>1, <3>2, <3>3, Extraction
  <2> QED BY <2>1, <2>2
<1>5. /\ CapturedReport \in Reports \cup {None}
      /\ CapturedReport # investigation => CapturedReport \in Reports
  <2>1. CASE ReportHits = {}
    BY <2>1 DEF CapturedReport, TypeOK
  <2>2. CASE ReportHits # {}
    <3> DEFINE last == LastIn(ReportHits)
    <3>1. last \in ReportHits /\ results[last] \in Payloads
      BY <1>2, <2>2 DEF ReportHits
    <3>2. ReportOf(results[last]) # None
      BY <3>1 DEF ReportHits
    <3>3. CapturedReport = ReportOf(results[last])
      BY <2>2 DEF CapturedReport
    <3> QED BY <3>1, <3>2, <3>3, Extraction
  <2> QED BY <2>1, <2>2
<1>6. CapturedHistory \in [CandidateLists -> Nat]
  <2>1. ASSUME NEW choice \in CandidateLists
        PROVE  Cardinality(ChoiceHits(choice)) \in Nat
    <3>1. IsFiniteSet(1..Len(results))
      BY <1>1, FS_Interval
    <3>2. ChoiceHits(choice) \in SUBSET (1..Len(results))
      BY <1>1 DEF ChoiceHits, ThisTurn
    <3>3. IsFiniteSet(ChoiceHits(choice))
      BY <3>1, <3>2, FS_Subset
    <3> QED BY <3>3, FS_CardinalityType
  <2> QED BY <2>1 DEF CapturedHistory, TypeOK
<1>7. /\ CapturedStamps \in [ShortTermSlots -> 0..MaxTime \cup {Never}]
      /\ \A slot \in ShortTermSlots : CapturedStamps[slot] \in {touched[slot], now}
  BY DEF CapturedStamps, TypeOK, ShortTermSlots
<1>8. CapturedFocus \in [FocusTypes -> Entities \cup {None}]
  BY <1>3 DEF CapturedFocus
<1> QED BY <1>3, <1>4, <1>5, <1>6, <1>7, <1>8

\* What a turn's reference can be resolved to.
LEMMA ReferenceSound ==
  ASSUME TypeOK, Grounded
  PROVE  /\ LiveFocus \in {focus, NoFocus}
         /\ LiveList \in {lastResult, <<>>}
         /\ LiveStamps \in [ShortTermSlots -> 0..MaxTime \cup {Never}]
         /\ \/ TurnReference = NoReference
            \/ \E type \in FocusTypes :
                 /\ LiveFocus[type] # None
                 /\ TurnReference =
                      [via |-> "reference", type |-> type, entity |-> LiveFocus[type]]
            \/ \E i \in DOMAIN LiveList :
                 TurnReference =
                   [via |-> "indexed", type |-> "landlord", entity |-> LiveList[i]]
<1>1. LiveFocus \in {focus, NoFocus} /\ LiveList \in {lastResult, <<>>}
  BY DEF LiveFocus, LiveList
<1>2. LiveStamps \in [ShortTermSlots -> 0..MaxTime \cup {Never}]
  BY DEF LiveStamps, TypeOK
<1>3. LiveList \in Seq(Landlords)
  <2>1. <<>> \in Seq(Landlords)
    BY EmptySeq
  <2>2. lastResult \in Seq(Landlords)
    BY <2>1, SessionAssumption DEF TypeOK
  <2> QED BY <1>1, <2>1, <2>2
<1>4. text.type \in FocusTypes \cup {"none"}
  BY DEF TypeOK, Text
<1>5. CASE text.ordinal \in 1..Len(LiveList)
  <2>1. text.ordinal \in DOMAIN LiveList
    BY <1>3, <1>5
  <2>2. TurnReference = [via |-> "indexed", type |-> "landlord",
                         entity |-> LiveList[text.ordinal]]
    BY <1>5 DEF TurnReference, Resolution
  <2> QED BY <1>1, <1>2, <2>1, <2>2
<1>6. CASE /\ text.ordinal \notin 1..Len(LiveList)
           /\ text.type # "none" /\ LiveFocus[text.type] # None
  BY <1>1, <1>2, <1>4, <1>6 DEF TurnReference, Resolution
<1>7. CASE /\ text.ordinal \notin 1..Len(LiveList)
           /\ ~(text.type # "none" /\ LiveFocus[text.type] # None)
  BY <1>1, <1>2, <1>7 DEF TurnReference, Resolution
<1> QED BY <1>5, <1>6, <1>7

-----------------------------------------------------------------------------
(* The inductive invariant.                                                *)

LEMMA InitInvariant == Init => IInv
<1> SUFFICES ASSUME Init PROVE IInv
  OBVIOUS
<1>1. TypeOK
  <2>1. results \in Seq(Payloads) /\ Len(results) <= MaxResults
    BY SessionAssumption, EmptySeq DEF Init
  <2>2. /\ now \in 0..MaxTime /\ turns \in 0..MaxTurns /\ text \in Text
    BY SessionAssumption DEF Init, NoText, Text
  <2>3. /\ focus \in [FocusTypes -> Entities \cup {None}]
        /\ touched \in [ShortTermSlots -> 0..MaxTime \cup {Never}]
        /\ history \in [CandidateLists -> Nat]
    BY DEF Init, NoFocus
  <2>4. resolved \in [via : {"none", "indexed", "reference"},
                      type : FocusTypes \cup {"none"},
                      entity : Entities \cup {None}]
    BY DEF Init, NoReference
  <2>5. /\ lastResult \in CandidateLists \cup {<<>>}
        /\ investigation \in Reports \cup {None}
        /\ phase \in {"before", "model", "after", "tools", "done", "aborted"}
        /\ calling \in BOOLEAN /\ dangling \in BOOLEAN
        /\ seen \subseteq Entities
    BY DEF Init
  <2> QED BY <2>1, <2>2, <2>3, <2>4, <2>5 DEF TypeOK
<1>2. HeldMeansStamped
  BY SessionAssumption DEF Init, HeldMeansStamped, ShortTermSlots, Never
<1>3. Grounded
  BY EmptySeq DEF Init, Grounded, NoFocus, NoReference
<1>4. ResultsSeen
  BY EmptySeq DEF Init, ResultsSeen
<1> QED BY <1>1, <1>2, <1>3, <1>4 DEF IInv

\* before_model keeps the invariant: what it forgets it unstamps, and what an
\* indexed reference puts in focus came from the list.
LEMMA BeforeModelInvariant == IInv /\ BeforeModel => IInv'
<1> SUFFICES ASSUME IInv, BeforeModel PROVE IInv'
  OBVIOUS
<1> USE DEF IInv
<1>1. UNCHANGED <<now, history, investigation, text, results, calling, dangling, turns, seen>>
  BY DEF BeforeModel, KeepDurableSlots
<1>2. LiveList \in CandidateLists \cup {<<>>} /\ lastResult' = LiveList /\ phase' = "model"
  BY DEF BeforeModel, LiveList, TypeOK
<1>3. LiveFocus \in [FocusTypes -> Entities \cup {None}]
  BY DEF LiveFocus, NoFocus, TypeOK
<1>4. LiveStamps \in [ShortTermSlots -> 0..MaxTime \cup {Never}]
  BY ReferenceSound
<1>5. /\ LiveFocus # NoFocus => LiveStamps["focus_entities"] # Never
      /\ LiveList # <<>> => LiveStamps["last_result"] # Never
      /\ \A slot \in ShortTermSlots : LiveStamps[slot] <= now
  BY SessionAssumption
     DEF LiveFocus, LiveList, LiveStamps, HeldMeansStamped, ShortTermSlots, TypeOK, Never
<1>6. /\ \A type \in FocusTypes : LiveFocus[type] \in seen \cup {None}
      /\ \A i \in DOMAIN LiveList : LiveList[i] \in seen
  BY EmptySeq DEF LiveFocus, LiveList, NoFocus, Grounded
<1>7. ResultsSeen'
  BY <1>1 DEF ResultsSeen
<1>8. CASE TurnReference.via = "indexed" /\ results = <<>>
  <2>1. PICK i \in DOMAIN LiveList :
          TurnReference = [via |-> "indexed", type |-> "landlord", entity |-> LiveList[i]]
    BY <1>8, ReferenceSound DEF NoReference
  <2>2. TurnReference.entity \in seen
    BY <1>6, <2>1
  <2>3. /\ resolved' = TurnReference
        /\ focus' = [LiveFocus EXCEPT !["landlord"] = TurnReference.entity]
        /\ touched' = [LiveStamps EXCEPT !["focus_entities"] = now]
    BY <1>8 DEF BeforeModel, Selection
  <2>4. seen \subseteq Entities
    BY DEF TypeOK
  <2>5. TypeOK'
    <3>1. focus' \in [FocusTypes -> Entities \cup {None}]
      BY <1>3, <2>2, <2>3, <2>4
    <3>2. touched' \in [ShortTermSlots -> 0..MaxTime \cup {Never}]
      BY <1>4, <2>3 DEF TypeOK
    <3>3. resolved' \in [via : {"none", "indexed", "reference"},
                         type : FocusTypes \cup {"none"},
                         entity : Entities \cup {None}]
      BY <2>1, <2>2, <2>3, <2>4 DEF FocusTypes
    <3> QED BY <1>1, <1>2, <3>1, <3>2, <3>3 DEF TypeOK
  <2>6. HeldMeansStamped'
    BY <1>1, <1>2, <1>4, <1>5, <2>3, SessionAssumption
       DEF HeldMeansStamped, ShortTermSlots, TypeOK, Never
  <2>7. Grounded'
    BY <1>1, <1>2, <1>3, <1>6, <2>2, <2>3 DEF Grounded
  <2> QED BY <1>7, <2>5, <2>6, <2>7
<1>9. CASE ~(TurnReference.via = "indexed" /\ results = <<>>)
  <2>1. focus' = LiveFocus /\ touched' = LiveStamps
    BY <1>9 DEF BeforeModel
  <2>2. \/ resolved' = resolved
        \/ resolved' = NoReference
        \/ \E type \in FocusTypes :
             /\ LiveFocus[type] # None
             /\ resolved' = [via |-> "reference", type |-> type, entity |-> LiveFocus[type]]
    BY <1>9, ReferenceSound DEF BeforeModel
  <2>3. resolved' \in [via : {"none", "indexed", "reference"},
                       type : FocusTypes \cup {"none"},
                       entity : Entities \cup {None}]
    BY <1>3, <2>2 DEF TypeOK, NoReference
  <2>4. resolved'.entity \in seen \cup {None}
    BY <1>6, <2>2 DEF Grounded, NoReference
  <2>5. TypeOK'
    BY <1>1, <1>2, <1>3, <1>4, <2>1, <2>3 DEF TypeOK
  <2>6. HeldMeansStamped'
    BY <1>1, <1>2, <1>5, <2>1 DEF HeldMeansStamped
  <2>7. Grounded'
    BY <1>1, <1>2, <1>6, <2>1, <2>4 DEF Grounded
  <2> QED BY <1>7, <2>5, <2>6, <2>7
<1> QED BY <1>8, <1>9

\* capture keeps the invariant: what it writes was told to the thread, and it
\* stamps the slots it fills.
LEMMA AfterModelInvariant == IInv /\ AfterModel => IInv'
<1> SUFFICES ASSUME IInv, AfterModel PROVE IInv'
  OBVIOUS
<1> USE DEF IInv
<1>1. /\ UNCHANGED <<now, resolved, text, results, calling, dangling, turns, seen>>
      /\ phase' \in {"tools", "done"}
      /\ focus' = CapturedFocus /\ lastResult' = CapturedList
      /\ investigation' = CapturedReport /\ history' = CapturedHistory
      /\ touched' = CapturedStamps
  BY DEF AfterModel
<1>2. TypeOK'
  BY <1>1, CaptureSound DEF TypeOK
<1>3. HeldMeansStamped'
  <2>1. focus' # NoFocus => touched'["focus_entities"] # Never
    <3>1. CASE \E type \in FocusTypes : FocusHits(type) # {}
      BY <1>1, <3>1 DEF CapturedStamps, TypeOK, ShortTermSlots, Never
    <3>2. CASE \A type \in FocusTypes : FocusHits(type) = {}
      <4>1. CapturedFocus = focus
        BY <3>2 DEF CapturedFocus, TypeOK
      <4>2. CapturedStamps["focus_entities"] = touched["focus_entities"]
        BY <3>2 DEF CapturedStamps, TypeOK, ShortTermSlots
      <4> QED BY <1>1, <4>1, <4>2 DEF HeldMeansStamped
    <3> QED BY <3>1, <3>2
  <2>2. lastResult' # <<>> => touched'["last_result"] # Never
    <3>1. CASE ListHits # {}
      BY <1>1, <3>1 DEF CapturedStamps, TypeOK, ShortTermSlots, Never
    <3>2. CASE ListHits = {}
      BY <1>1, <3>2 DEF CapturedStamps, CapturedList, TypeOK, ShortTermSlots, HeldMeansStamped
    <3> QED BY <3>1, <3>2
  <2>3. \A slot \in ShortTermSlots : touched'[slot] <= now'
    <3>1. \A slot \in ShortTermSlots : CapturedStamps[slot] \in {touched[slot], now}
      BY CaptureSound
    <3>2. now \in Int
      BY SessionAssumption DEF TypeOK
    <3> QED BY <1>1, <3>1, <3>2 DEF HeldMeansStamped
  <2> QED BY <2>1, <2>2, <2>3 DEF HeldMeansStamped
<1>4. Grounded'
  BY <1>1, CaptureSound DEF Grounded
<1>5. ResultsSeen'
  BY <1>1 DEF ResultsSeen
<1> QED BY <1>2, <1>3, <1>4, <1>5

\* New tool results are added to what the thread was told before anything is
\* captured from them.
LEMMA ToolsReturnInvariant == IInv /\ ToolsReturn => IInv'
<1> SUFFICES ASSUME IInv, ToolsReturn PROVE IInv'
  OBVIOUS
<1> USE DEF IInv
<1>1. /\ UNCHANGED <<now, slots, text, dangling, turns>>
      /\ calling' = FALSE /\ phase' = "before"
  BY DEF ToolsReturn
<1>2. PICK n \in 1..(MaxResults - Len(results)) :
        \E batch \in [1..n -> Payloads] :
          /\ results' = results \o batch
          /\ seen' = seen \cup UNION {Confirmed(batch[i]) : i \in 1..n}
  BY DEF ToolsReturn
<1>3. PICK batch \in [1..n -> Payloads] :
        /\ results' = results \o batch
        /\ seen' = seen \cup UNION {Confirmed(batch[i]) : i \in 1..n}
  BY <1>2
<1>4. /\ results \in Seq(Payloads) /\ Len(results) \in Nat
      /\ DOMAIN results = 1..Len(results)
      /\ n \in Nat /\ n <= MaxResults - Len(results)
  BY SessionAssumption DEF TypeOK
<1>5. batch \in Seq(Payloads) /\ Len(batch) = n
  BY <1>4, SeqDef
<1>6. /\ results' \in Seq(Payloads)
      /\ Len(results') = Len(results) + n
      /\ DOMAIN results' = 1..(Len(results) + n)
      /\ \A i \in 1..(Len(results) + n) :
           results'[i] = IF i <= Len(results) THEN results[i] ELSE batch[i - Len(results)]
  <2>1. /\ results \o batch \in Seq(Payloads)
        /\ Len(results \o batch) = Len(results) + Len(batch)
        /\ \A i \in 1..(Len(results) + Len(batch)) :
             (results \o batch)[i] =
               IF i <= Len(results) THEN results[i] ELSE batch[i - Len(results)]
    BY <1>4, <1>5, ConcatProperties
  <2>2. DOMAIN (results \o batch) = 1..Len(results \o batch)
    BY <2>1, LenProperties
  <2> QED BY <1>3, <1>5, <2>1, <2>2
<1>7. seen' \subseteq Entities /\ seen \subseteq seen'
      /\ \A i \in 1..n : Confirmed(batch[i]) \subseteq seen'
  BY <1>3, Extraction DEF TypeOK
<1>8. TypeOK'
  <2>1. Len(results') <= MaxResults
    BY <1>4, <1>6, SessionAssumption
  <2> QED BY <1>1, <1>6, <1>7, <2>1 DEF TypeOK, slots
<1>9. HeldMeansStamped'
  BY <1>1 DEF HeldMeansStamped, slots
<1>10. Grounded'
  BY <1>1, <1>7 DEF Grounded, slots
<1>11. ResultsSeen'
  <2> SUFFICES ASSUME NEW i \in DOMAIN results'
               PROVE  Confirmed(results'[i]) \subseteq seen'
    BY DEF ResultsSeen
  <2>1. CASE i <= Len(results)
    BY <1>4, <1>6, <1>7, <2>1 DEF ResultsSeen
  <2>2. CASE ~(i <= Len(results))
    <3>1. i - Len(results) \in 1..n
      BY <1>4, <1>6, <2>2
    <3> QED BY <1>6, <1>7, <2>2, <3>1
  <2> QED BY <2>1, <2>2
<1> QED BY <1>8, <1>9, <1>10, <1>11

LEMMA NextInvariant == IInv /\ [Next]_vars => IInv'
<1> SUFFICES ASSUME IInv, [Next]_vars PROVE IInv'
  OBVIOUS
<1>1. CASE Tick
  BY <1>1, SessionAssumption
     DEF Tick, IInv, TypeOK, HeldMeansStamped, Grounded, ResultsSeen, slots, loop,
         ShortTermSlots, Never
<1>2. CASE HumanTurn
  <2>1. TypeOK'
    BY <1>2, SessionAssumption, EmptySeq DEF HumanTurn, IInv, TypeOK, slots
  <2>2. HeldMeansStamped' /\ Grounded'
    BY <1>2 DEF HumanTurn, IInv, HeldMeansStamped, Grounded, slots
  <2>3. ResultsSeen'
    BY <1>2, EmptySeq DEF HumanTurn, ResultsSeen
  <2> QED BY <2>1, <2>2, <2>3 DEF IInv
<1>3. CASE BeforeModel
  BY <1>3, BeforeModelInvariant
<1>4. CASE Model
  BY <1>4 DEF Model, IInv, TypeOK, HeldMeansStamped, Grounded, ResultsSeen, slots
<1>5. CASE AfterModel
  BY <1>5, AfterModelInvariant
<1>6. CASE ToolsReturn
  BY <1>6, ToolsReturnInvariant
<1>7. CASE Abort
  BY <1>7 DEF Abort, IInv, TypeOK, HeldMeansStamped, Grounded, ResultsSeen, slots
<1>8. CASE UNCHANGED vars
  BY <1>8 DEF vars, slots, loop, IInv, TypeOK, HeldMeansStamped, Grounded, ResultsSeen
<1> QED BY <1>1, <1>2, <1>3, <1>4, <1>5, <1>6, <1>7, <1>8 DEF Next

\* The inductive invariant holds throughout every behaviour of the thread.
LEMMA Invariance == Spec => []IInv
<1> QED BY InitInvariant, NextInvariant, PTL DEF Spec

\* Every slot always holds what DiscoveryState declares.
THEOREM TypeCorrect == Spec => []TypeOK
<1>1. IInv => TypeOK
  BY DEF IInv
<1> QED BY <1>1, Invariance, PTL

\* No short-term slot ever holds anything without a stamp the timeout can reach.
THEOREM NothingImmortal == Spec => []HeldMeansStamped
<1>1. IInv => HeldMeansStamped
  BY DEF IInv
<1> QED BY <1>1, Invariance, PTL

\* Memory and references only ever hold entities a tool result confirmed.
THEOREM MemoryGrounded == Spec => []Grounded
<1>1. IInv => Grounded
  BY DEF IInv
<1> QED BY <1>1, Invariance, PTL

-----------------------------------------------------------------------------
(* Completeness of capture.                                                *)

\* The last position satisfying a condition is the one LastIn picks.
LEMMA LastInUnique ==
  ASSUME NEW n \in Nat, NEW I, I \subseteq 1..n, NEW i \in I,
         \A j \in i+1..n : j \notin I
  PROVE  LastIn(I) = i
<1>1. LastIn(I) \in I /\ \A j \in I : j <= LastIn(I)
  BY LastInExists
<1>2. i <= LastIn(I) /\ LastIn(I) \in 1..n /\ i \in 1..n
  BY <1>1
<1>3. LastIn(I) \notin i+1..n
  BY <1>1
<1> QED BY <1>2, <1>3

\* A turn that ran to its answer is remembered in full.
THEOREM TurnsRemembered == Spec => []CompletedTurnRemembered
<1>1. Init => CompletedTurnRemembered
  BY EmptySeq DEF Init, CompletedTurnRemembered
<1>2. IInv /\ CompletedTurnRemembered /\ [Next]_vars => CompletedTurnRemembered'
  <2> SUFFICES ASSUME IInv, CompletedTurnRemembered, [Next]_vars, phase' = "done"
               PROVE  CompletedTurnRemembered'
    BY DEF CompletedTurnRemembered
  <2>1. CASE AfterModel
    <3> SUFFICES ASSUME NEW i \in DOMAIN results
                 PROVE
          /\ \A type \in FocusTypes :
               /\ FocusOf(results[i], type) # None
               /\ \A j \in i+1..Len(results) : FocusOf(results[j], type) = None
               => CapturedFocus[type] = FocusOf(results[i], type)
          /\ /\ ListOf(results[i]) # <<>>
             /\ \A j \in i+1..Len(results) : ListOf(results[j]) = <<>>
             => CapturedList = ListOf(results[i])
          /\ /\ ReportOf(results[i]) # None
             /\ \A j \in i+1..Len(results) : ReportOf(results[j]) = None
             => CapturedReport = ReportOf(results[i])
      BY <2>1 DEF CompletedTurnRemembered, AfterModel
    <3>1. Len(results) \in Nat /\ DOMAIN results = 1..Len(results)
      BY DEF IInv, TypeOK
    <3>2. ASSUME NEW type \in FocusTypes, FocusOf(results[i], type) # None,
                 \A j \in i+1..Len(results) : FocusOf(results[j], type) = None
          PROVE  CapturedFocus[type] = FocusOf(results[i], type)
      <4>1. i \in FocusHits(type) /\ FocusHits(type) \subseteq 1..Len(results)
        BY <3>1, <3>2 DEF FocusHits, ThisTurn
      <4>2. \A j \in i+1..Len(results) : j \notin FocusHits(type)
        BY <3>2 DEF FocusHits
      <4>3. LastIn(FocusHits(type)) = i
        BY <3>1, <4>1, <4>2, LastInUnique
      <4> QED BY <4>1, <4>3 DEF CapturedFocus
    <3>3. ASSUME ListOf(results[i]) # <<>>,
                 \A j \in i+1..Len(results) : ListOf(results[j]) = <<>>
          PROVE  CapturedList = ListOf(results[i])
      <4>1. i \in ListHits /\ ListHits \subseteq 1..Len(results)
        BY <3>1, <3>3 DEF ListHits, ThisTurn
      <4>2. \A j \in i+1..Len(results) : j \notin ListHits
        BY <3>3 DEF ListHits
      <4>3. LastIn(ListHits) = i
        BY <3>1, <4>1, <4>2, LastInUnique
      <4> QED BY <4>1, <4>3 DEF CapturedList
    <3>4. ASSUME ReportOf(results[i]) # None,
                 \A j \in i+1..Len(results) : ReportOf(results[j]) = None
          PROVE  CapturedReport = ReportOf(results[i])
      <4>1. i \in ReportHits /\ ReportHits \subseteq 1..Len(results)
        BY <3>1, <3>4 DEF ReportHits, ThisTurn
      <4>2. \A j \in i+1..Len(results) : j \notin ReportHits
        BY <3>4 DEF ReportHits
      <4>3. LastIn(ReportHits) = i
        BY <3>1, <4>1, <4>2, LastInUnique
      <4> QED BY <4>1, <4>3 DEF CapturedReport
    <3> QED BY <3>2, <3>3, <3>4
  <2>2. CASE Tick \/ UNCHANGED vars
    BY <2>2 DEF Tick, vars, slots, loop, CompletedTurnRemembered
  <2>3. ~(HumanTurn \/ BeforeModel \/ Model \/ ToolsReturn \/ Abort)
    BY DEF HumanTurn, BeforeModel, Model, ToolsReturn, Abort
  <2> QED BY <2>1, <2>2, <2>3 DEF Next
<1> QED BY <1>1, <1>2, Invariance, PTL DEF Spec

-----------------------------------------------------------------------------
(* Action properties.                                                      *)

\* No reference is ever resolved against a slot idle past the timeout.
THEOREM ReferencesFresh == Spec => FreshReferences
<1>1. IInv /\ [Next]_vars =>
        [phase = "before" /\ phase' = "model" /\ results = <<>> =>
           /\ resolved'.via = "reference" => now - touched["focus_entities"] <= Timeout
           /\ resolved'.via = "indexed" => now - touched["last_result"] <= Timeout]_vars
  <2> SUFFICES ASSUME IInv, [Next]_vars,
                      phase = "before", phase' = "model", results = <<>>
               PROVE  /\ resolved'.via = "reference" =>
                           now - touched["focus_entities"] <= Timeout
                      /\ resolved'.via = "indexed" =>
                           now - touched["last_result"] <= Timeout
    OBVIOUS
  <2>1. BeforeModel
    BY DEF Next, vars, loop, Tick, HumanTurn, Model, AfterModel, ToolsReturn, Abort
  <2>2. resolved' = TurnReference
    BY <2>1 DEF BeforeModel
  <2>3. now \in Int /\ Timeout \in Int
        /\ \A slot \in ShortTermSlots : touched[slot] \in Int
    BY SessionAssumption DEF IInv, TypeOK, Never
  <2>4. ASSUME resolved'.via = "reference"
        PROVE  now - touched["focus_entities"] <= Timeout
    <3>1. PICK type \in FocusTypes : LiveFocus[type] # None
      BY <2>2, <2>4, ReferenceSound DEF IInv, NoReference
    <3>2. LiveFocus # NoFocus
      BY <3>1 DEF NoFocus
    <3>3. focus # NoFocus /\ ~Expired("focus_entities")
      BY <3>2 DEF LiveFocus
    <3>4. touched["focus_entities"] # Never
      BY <3>3 DEF IInv, HeldMeansStamped
    <3> QED BY <2>3, <3>3, <3>4 DEF Expired, ShortTermSlots
  <2>5. ASSUME resolved'.via = "indexed"
        PROVE  now - touched["last_result"] <= Timeout
    <3>1. PICK i \in DOMAIN LiveList : TRUE
      BY <2>2, <2>5, ReferenceSound DEF IInv, NoReference
    <3>2. LiveList # <<>>
      BY <3>1, EmptySeq
    <3>3. lastResult # <<>> /\ ~Expired("last_result")
      BY <3>2 DEF LiveList
    <3>4. touched["last_result"] # Never
      BY <3>3 DEF IInv, HeldMeansStamped
    <3> QED BY <2>3, <3>3, <3>4 DEF Expired, ShortTermSlots
  <2> QED BY <2>4, <2>5
<1> QED BY <1>1, Invariance, PTL DEF Spec, FreshReferences

\* The idle timeout never takes a filed report or a recorded choice.
THEOREM DurableSlotsKept == Spec => DurableSlotsSurvive
<1>1. IInv /\ [Next]_vars =>
        [/\ investigation # None => investigation' # None
         /\ \A choice \in CandidateLists : history'[choice] >= history[choice]]_vars
  <2> SUFFICES ASSUME IInv, [Next]_vars
               PROVE  /\ investigation # None => investigation' # None
                      /\ \A choice \in CandidateLists : history'[choice] >= history[choice]
    OBVIOUS
  <2>1. history \in [CandidateLists -> Nat]
    BY DEF IInv, TypeOK
  <2>2. CASE AfterModel
    <3>1. CapturedReport # investigation => CapturedReport # None
      BY CaptureSound, SessionAssumption DEF IInv
    <3>2. ASSUME NEW choice \in CandidateLists
          PROVE  CapturedHistory[choice] >= history[choice]
      <4>1. results \in Seq(Payloads) /\ Len(results) \in Nat /\ DOMAIN results = 1..Len(results)
        BY DEF IInv, TypeOK
      <4>2. IsFiniteSet(1..Len(results))
        BY <4>1, FS_Interval
      <4>3. ChoiceHits(choice) \in SUBSET (1..Len(results))
        BY <4>1 DEF ChoiceHits, ThisTurn
      <4>4. IsFiniteSet(ChoiceHits(choice))
        BY <4>2, <4>3, FS_Subset
      <4>5. Cardinality(ChoiceHits(choice)) \in Nat
        BY <4>4, FS_CardinalityType
      <4> QED BY <2>1, <4>5 DEF CapturedHistory
    <3> QED BY <2>2, <3>1, <3>2 DEF AfterModel
  <2>3. CASE ~AfterModel
    <3>1. UNCHANGED <<history, investigation>>
      BY <2>3 DEF Next, vars, slots, Tick, HumanTurn, BeforeModel, KeepDurableSlots,
                  Model, ToolsReturn, Abort
    <3> QED BY <2>1, <3>1
  <2> QED BY <2>2, <2>3
<1> QED BY <1>1, Invariance, PTL DEF Spec, DurableSlotsSurvive

\* An entity leaves the focus only by idling out, or for another of its type.
THEOREM FocusKept == Spec => ForgottenOnlyWhenIdle
<1>1. IInv /\ [Next]_vars =>
        [\A type \in FocusTypes :
           focus[type] # None /\ focus'[type] = None => Expired("focus_entities")]_vars
  <2> SUFFICES ASSUME IInv, [Next]_vars,
                      NEW type \in FocusTypes, focus[type] # None, focus'[type] = None
               PROVE  Expired("focus_entities")
    OBVIOUS
  <2>1. CASE BeforeModel
    <3> SUFFICES ASSUME LiveFocus = focus PROVE FALSE
      BY DEF LiveFocus
    <3>1. CASE TurnReference.via = "indexed" /\ results = <<>>
      <4>1. PICK i \in DOMAIN LiveList :
              TurnReference = [via |-> "indexed", type |-> "landlord", entity |-> LiveList[i]]
        BY <3>1, ReferenceSound DEF IInv, NoReference
      <4>2. LiveList \in {lastResult, <<>>} /\ \A j \in DOMAIN lastResult : lastResult[j] \in seen
        BY ReferenceSound DEF IInv, Grounded
      <4>3. TurnReference.entity \in seen
        BY <4>1, <4>2, EmptySeq
      <4>4. TurnReference.entity # None
        BY <4>3, SessionAssumption DEF IInv, TypeOK, Entities
      <4>5. focus' = [focus EXCEPT !["landlord"] = TurnReference.entity]
        BY <2>1, <3>1 DEF BeforeModel, Selection
      <4> QED BY <4>4, <4>5 DEF IInv, TypeOK
    <3>2. CASE ~(TurnReference.via = "indexed" /\ results = <<>>)
      BY <2>1, <3>2 DEF BeforeModel
    <3> QED BY <3>1, <3>2
  <2>2. CASE AfterModel
    <3>1. CapturedFocus[type] = None
      BY <2>2 DEF AfterModel
    <3>2. FocusHits(type) # {}
      BY <3>1 DEF CapturedFocus
    <3>3. results \in Seq(Payloads) /\ Len(results) \in Nat /\ DOMAIN results = 1..Len(results)
      BY DEF IInv, TypeOK
    <3>4. LastIn(FocusHits(type)) \in FocusHits(type)
      BY <3>2, <3>3, LastInExists DEF FocusHits, ThisTurn
    <3>5. FocusOf(results[LastIn(FocusHits(type))], type) # None
      BY <3>4 DEF FocusHits
    <3> QED BY <3>1, <3>2, <3>5 DEF CapturedFocus
  <2>3. CASE ~(BeforeModel \/ AfterModel)
    <3>1. UNCHANGED focus
      BY <2>3 DEF Next, vars, slots, Tick, HumanTurn, Model, ToolsReturn, Abort
    <3> QED BY <3>1
  <2> QED BY <2>1, <2>2, <2>3
<1> QED BY <1>1, Invariance, PTL DEF Spec, ForgottenOnlyWhenIdle

-----------------------------------------------------------------------------
(* "Capture is additive and never guesses."                                *)

\* A result that puts a landlord in focus confirms that landlord and no other.
LEMMA OneLandlord ==
  ASSUME NEW p \in Payloads, FocusOf(p, "landlord") # None
  PROVE  Confirmed(p) \cap Landlords = {FocusOf(p, "landlord")}
<1> DEFINE l == FocusOf(p, "landlord")
<1>1. /\ p \in Payload /\ p.building \in Buildings \cup {None}
      /\ p.landlord \in Landlords \cup {None} /\ p.items \in CandidateLists \cup {<<>>}
  BY SessionAssumption DEF Payload
<1>2. \A i \in DOMAIN p.items : p.items[i] \in Landlords
  BY <1>1, SessionAssumption, ElementOfSeq
<1>3. p.building \notin Landlords
  BY <1>1, SessionAssumption
<1>4. l = LandlordOf(p)
  BY DEF FocusOf
<1>5. CASE IsResolvedName(p)
  <2>1. l = p.landlord /\ l \in Landlords /\ p.status = "resolved"
    BY <1>1, <1>4, <1>5 DEF LandlordOf, IsResolvedName
  <2>2. l \in Confirmed(p)
    BY <2>1 DEF Confirmed, Entities
  <2>3. ASSUME NEW e \in Confirmed(p), e \in Landlords PROVE e = l
    BY <1>3, <2>1, <2>3 DEF Confirmed
  <2>7. Confirmed(p) \cap Landlords = {l}
    <3> HIDE DEF l
    <3> QED BY <2>1, <2>2, <2>3
  <2> QED BY <2>7
<1>6. CASE ~IsResolvedName(p)
  <2>1. IsOwnership(p) /\ Len(p.items) = 1 /\ l = p.items[1]
    BY <1>4, <1>6 DEF LandlordOf
  <2>2. p.items \in Seq(Landlords)
    BY <1>1, SessionAssumption, EmptySeq
  <2>3. p.status = "found" /\ DOMAIN p.items = {1}
    BY <2>1, <2>2 DEF IsOwnership
  <2>4. l \in Landlords
    BY <1>2, <2>1, <2>3
  <2>5. l \in Confirmed(p)
    BY <2>1, <2>3, <2>4 DEF Confirmed, Entities
  <2>6. ASSUME NEW e \in Confirmed(p), e \in Landlords PROVE e = l
    BY <1>3, <2>1, <2>3, <2>6 DEF Confirmed
  <2>7. Confirmed(p) \cap Landlords = {l}
    <3> HIDE DEF l
    <3> QED BY <2>4, <2>5, <2>6
  <2> QED BY <2>7
<1> QED BY <1>5, <1>6

\* The landlord in focus changes only to one the user picked by position or to
\* the one landlord some result of the turn confirms.
THEOREM FocusNeverGuessed == Spec => NeverGuesses
<1>1. IInv /\ [Next]_vars =>
        [focus'["landlord"] \notin {focus["landlord"], None} =>
           \/ resolved'.via = "indexed" /\ resolved'.entity = focus'["landlord"]
           \/ \E i \in DOMAIN results :
                Confirmed(results[i]) \cap Landlords = {focus'["landlord"]}]_vars
  <2> SUFFICES ASSUME IInv, [Next]_vars, focus'["landlord"] \notin {focus["landlord"], None}
               PROVE  \/ resolved'.via = "indexed" /\ resolved'.entity = focus'["landlord"]
                      \/ \E i \in DOMAIN results :
                           Confirmed(results[i]) \cap Landlords = {focus'["landlord"]}
    OBVIOUS
  <2>1. CASE BeforeModel
    <3>1. LiveFocus["landlord"] \in {focus["landlord"], None}
      BY DEF LiveFocus, NoFocus, FocusTypes
    <3>2. results = <<>> /\ TurnReference.via = "indexed"
      BY <2>1, <3>1 DEF BeforeModel
    <3>3. resolved' = TurnReference /\ focus' = [LiveFocus EXCEPT !["landlord"] = TurnReference.entity]
      BY <2>1, <3>2 DEF BeforeModel, Selection
    <3>4. "landlord" \in DOMAIN LiveFocus
      BY DEF LiveFocus, NoFocus, FocusTypes, IInv, TypeOK
    <3>5. focus'["landlord"] = TurnReference.entity
      BY <3>3, <3>4
    <3> QED BY <3>2, <3>3, <3>5
  <2>2. CASE AfterModel
    <3>1. focus'["landlord"] = CapturedFocus["landlord"]
      BY <2>2 DEF AfterModel
    <3>2. FocusHits("landlord") # {}
      BY <3>1 DEF CapturedFocus, FocusTypes
    <3>3. results \in Seq(Payloads) /\ Len(results) \in Nat /\ DOMAIN results = 1..Len(results)
      BY DEF IInv, TypeOK
    <3> DEFINE i == LastIn(FocusHits("landlord"))
    <3>4. i \in FocusHits("landlord")
      BY <3>2, <3>3, LastInExists DEF FocusHits, ThisTurn
    <3>5. i \in DOMAIN results /\ FocusOf(results[i], "landlord") # None
      BY <3>4 DEF FocusHits, ThisTurn
    <3>6. results[i] \in Payloads
      BY <3>3, <3>5, ElementOfSeq
    <3>7. focus'["landlord"] = FocusOf(results[i], "landlord")
      BY <3>1, <3>2 DEF CapturedFocus, FocusTypes
    <3> HIDE DEF i
    <3> QED BY <3>5, <3>6, <3>7, OneLandlord
  <2>3. CASE ~(BeforeModel \/ AfterModel)
    <3>1. UNCHANGED focus
      BY <2>3 DEF Next, vars, slots, Tick, HumanTurn, Model, ToolsReturn, Abort
    <3> QED BY <3>1
  <2> QED BY <2>1, <2>2, <2>3
<1> QED BY <1>1, Invariance, PTL DEF Spec, NeverGuesses

-----------------------------------------------------------------------------
(* SessionMemory implements ThreadMemory.                                  *)

LEMMA InterpretStep == IInv /\ BeforeModel => Memory!Forget \/ Memory!Interpret
<1> SUFFICES ASSUME IInv, BeforeModel PROVE Memory!Forget \/ Memory!Interpret
  OBVIOUS
<1>1. /\ UNCHANGED <<seen, investigation>>
      /\ lastResult' = LiveList
  BY DEF BeforeModel, KeepDurableSlots
<1>2. LiveFocus \in {focus, Memory!NoFocus} /\ LiveList \in {lastResult, <<>>}
  BY ReferenceSound DEF IInv, NoFocus, Memory!NoFocus
<1>3. CASE results # <<>>
  BY <1>1, <1>2, <1>3 DEF BeforeModel, Memory!Forget
<1>4. CASE results = <<>>
  <2>1. resolved' = TurnReference
    BY <1>4 DEF BeforeModel
  <2>2. CASE TurnReference = NoReference
    <3>1. focus' = LiveFocus
      BY <1>4, <2>2 DEF BeforeModel, NoReference
    <3> QED BY <1>1, <1>2, <2>1, <2>2, <3>1
            DEF Memory!Interpret, NoReference, Memory!NoReference
  <2>3. CASE \E type \in FocusTypes :
               /\ LiveFocus[type] # None
               /\ TurnReference =
                    [via |-> "reference", type |-> type, entity |-> LiveFocus[type]]
    <3>1. focus' = LiveFocus
      BY <1>4, <2>3 DEF BeforeModel
    <3> QED BY <1>1, <1>2, <2>1, <2>3, <3>1 DEF Memory!Interpret
  <2>4. CASE \E i \in DOMAIN LiveList :
               TurnReference =
                 [via |-> "indexed", type |-> "landlord", entity |-> LiveList[i]]
    <3>1. PICK i \in DOMAIN LiveList :
            TurnReference = [via |-> "indexed", type |-> "landlord", entity |-> LiveList[i]]
      BY <2>4
    <3>2. focus' = [LiveFocus EXCEPT !["landlord"] = LiveList[i]]
      BY <1>4, <3>1 DEF BeforeModel, Selection
    <3> QED BY <1>1, <1>2, <2>1, <3>1, <3>2 DEF Memory!Interpret
  <2> QED BY <2>2, <2>3, <2>4, ReferenceSound DEF IInv
<1> QED BY <1>3, <1>4

\* Every behaviour of the middleware around the agent loop is one the abstract
\* memory allows.
THEOREM Implementation == Spec => ImplementsThreadMemory
<1>1. Init => Memory!Init
  BY DEF Init, Memory!Init, NoFocus, NoReference, Memory!NoFocus, Memory!NoReference
<1>2. IInv /\ [Next]_vars => [Memory!Next]_(Memory!memory)
  <2> SUFFICES ASSUME IInv, [Next]_vars
               PROVE  Memory!Next \/ UNCHANGED <<seen, slots>>
    BY DEF Memory!memory, slots
  <2>1. CASE BeforeModel
    BY <2>1, InterpretStep DEF Memory!Next
  <2>2. CASE AfterModel
    <3>1. /\ focus' = CapturedFocus /\ lastResult' = CapturedList
          /\ investigation' = CapturedReport
          /\ UNCHANGED <<seen, resolved>>
      BY <2>2 DEF AfterModel
    <3>2. DOMAIN focus' = FocusTypes
      BY <3>1 DEF CapturedFocus
    <3>3. \A type \in FocusTypes : focus'[type] \in seen \cup {focus[type]}
      BY <3>1, CaptureSound DEF IInv
    <3>4. \/ lastResult' = lastResult
          \/ lastResult' # <<>> /\ \A i \in DOMAIN lastResult' : lastResult'[i] \in seen
      BY <3>1, CaptureSound DEF IInv
    <3>5. investigation' \in Reports \cup {investigation}
      BY <3>1, CaptureSound DEF IInv
    <3> QED BY <3>1, <3>2, <3>3, <3>4, <3>5 DEF Memory!Next, Memory!Record
  <2>3. CASE ToolsReturn
    BY <2>3 DEF ToolsReturn, slots, Memory!Next, Memory!Reveal
  <2>4. CASE ~(BeforeModel \/ AfterModel \/ ToolsReturn)
    BY <2>4 DEF Next, vars, loop, Tick, HumanTurn, Model, Abort
  <2> QED BY <2>1, <2>2, <2>3, <2>4
<1> QED BY <1>1, <1>2, Invariance, PTL DEF Spec, ImplementsThreadMemory, Memory!Spec
==============================================================================
