--------------------------- MODULE Records_proofs ---------------------------
(***************************************************************************)
(* What a verdict on two names establishes, for every vocabulary of        *)
(* tokens, and what the answers of a conversation say of each other, for   *)
(* every snapshot of the graph and every limit.                            *)
(***************************************************************************)
EXTENDS Records, TLAPS, FiniteSetTheorems, SequenceTheorems

\* "The verdict is symmetric: swapping the arguments cannot change it"
\* (compare_names), though an initial is dropped on one side only.
THEOREM VerdictSymmetric ==
  ASSUME NEW left, NEW right
  PROVE  Verdict(left, right) = Verdict(right, left)
<1>1. /\ Kept(left, right).left = Kept(right, left).right
      /\ Kept(left, right).right = Kept(right, left).left
  BY DEF Kept
<1>2. Distinguishing(Kept(left, right)) = Distinguishing(Kept(right, left))
  BY <1>1 DEF Distinguishing
<1> QED
  BY <1>1, <1>2 DEF Verdict

\* Nothing is dropped that would empty a side (_drop_one_sided_initials), so a
\* comparison of two names there are is never called none.
THEOREM KeptNotEmptied ==
  ASSUME NEW left, NEW right, left # {}, right # {}
  PROVE  /\ Kept(left, right).left # {} /\ Kept(left, right).right # {}
         /\ Verdict(left, right) # "not_comparable"
<1>1. Kept(left, right).left # {} /\ Kept(left, right).right # {}
  BY DEF Kept
<1>2. Verdict(left, right) # "not_comparable"
  BY DEF Verdict
<1> QED
  BY <1>1, <1>2

\* What agreement is: the same tokens once a one-sided initial is left out.
LEMMA AgreesIff ==
  ASSUME NEW left, NEW right
  PROVE  Verdict(left, right) = "agrees"
           <=> /\ left # {} /\ right # {}
               /\ Kept(left, right).left = Kept(left, right).right
<1> DEFINE K == Kept(left, right)
<1>1. CASE left = {} \/ right = {}
  BY <1>1 DEF Verdict
<1>2. CASE left # {} /\ right # {} /\ K.left = K.right
  BY <1>2 DEF Verdict
<1>3. CASE left # {} /\ right # {} /\ K.left # K.right
  <2>1. CASE Distinguishing(K) = {}
    BY <1>3, <2>1 DEF Verdict
  <2>2. CASE Distinguishing(K) # {}
    BY <1>3, <2>2 DEF Verdict
  <2> QED
    BY <2>1, <2>2
<1> QED
  BY <1>1, <1>2, <1>3

\* "An initial present on both sides can contradict": where both names carry
\* initials and not the same ones, they are not taken for one party's.
THEOREM InitialsContradict ==
  ASSUME NEW left, NEW right,
         left \cap Initial # {}, right \cap Initial # {},
         left \cap Initial # right \cap Initial
  PROVE  Verdict(left, right) # "agrees"
<1>1. Kept(left, right).left = left /\ Kept(left, right).right = right
  BY DEF Kept
<1> QED
  BY <1>1, AgreesIff

\* "'X REALTY LLC' and 'X REALTY INC' never come back as AGREES": agreeing
\* names carry the same legal forms.
THEOREM LegalFormsMatter ==
  ASSUME NEW left, NEW right, Verdict(left, right) = "agrees"
  PROVE  left \cap LegalForm = right \cap LegalForm
<1>1. Kept(left, right).left = Kept(left, right).right
  BY AgreesIff
<1>2. /\ Kept(left, right).left \cap LegalForm = left \cap LegalForm
      /\ Kept(left, right).right \cap LegalForm = right \cap LegalForm
  BY NamesAssumption DEF Kept
<1> QED
  BY <1>1, <1>2

\* Sharing "llc" is no evidence of shared identity: names with nothing else in
\* common differ, whatever their legal forms.
THEOREM FormsAloneDiffer ==
  ASSUME NEW left, NEW right, left # {}, right # {},
         left \cap right \subseteq LegalForm,
         Kept(left, right).left # Kept(left, right).right
  PROVE  Verdict(left, right) = "differs"
<1>1. Distinguishing(Kept(left, right)) = {}
  BY DEF Distinguishing, Kept
<1> QED
  BY <1>1 DEF Verdict

\* Agreement passes through a name that carries an initial: what agrees with
\* it on both sides agrees with each other.  (Through a name without one it
\* does not: "AARON R COX" and "AARON S COX" both agree with "AARON COX".)
THEOREM AgreementThroughInitials ==
  ASSUME NEW left, NEW middle, NEW right, middle \cap Initial # {},
         Verdict(left, middle) = "agrees", Verdict(middle, right) = "agrees"
  PROVE  Verdict(left, right) = "agrees"
<1>1. /\ left # {} /\ middle # {} /\ right # {}
      /\ Kept(left, middle).left = Kept(left, middle).right
      /\ Kept(middle, right).left = Kept(middle, right).right
  BY AgreesIff
<1>2. left \in {middle, middle \ Initial}
  BY <1>1 DEF Kept
<1>3. right \in {middle, middle \ Initial}
  BY <1>1 DEF Kept
<1>4. Kept(left, right).left = Kept(left, right).right
  BY <1>1, <1>2, <1>3 DEF Kept
<1> QED
  BY <1>1, <1>4, AgreesIff

\* Names that agree share a token, so the index finds each by the other.
LEMMA AgreementShares ==
  ASSUME NEW left, NEW right, Verdict(left, right) = "agrees"
  PROVE  left \cap right # {}
<1>1. /\ left # {} /\ right # {}
      /\ Kept(left, right).left = Kept(left, right).right
  BY AgreesIff
<1>2. Kept(left, right).left # {}
  BY <1>1, KeptNotEmptied
<1>3. Kept(left, right).left \subseteq left /\ Kept(left, right).right \subseteq right
  BY DEF Kept
<1> QED
  BY <1>1, <1>2, <1>3

-----------------------------------------------------------------------------
(* What is said in one answer. *)

\* Every verdict is that of the names beside it.
VerdictsRight(a) ==
  \A c \in a.compared : c.verdict = Verdict(normalize(c.left), normalize(c.right))

\* A resolution is to the only landlord the whole graph has for the name.
OnlyMatch(a) ==
  /\ a.status = "resolved"
  /\ Cardinality(Hits(a.about)) <= FetchLimit
  => {l \in Landlord : Agrees(a.about, l)} = {a.lists.candidates[1]}

\* The totals count what was collected, and an uncut list of sisters is all of it.
AllSisters(a) ==
  a.tool = "sister_buildings" /\ a.status = "found" =>
    /\ a.about \in Building
    /\ a.totals.controller = Cardinality(Collected(SameController(a.about)))
    /\ a.totals.portfolio = Cardinality(Collected(SamePortfolio(a.about)))
    /\ a.totals.controller <= HandleCap =>
         {a.lists.controller[k] : k \in DOMAIN a.lists.controller} = Collected(SameController(a.about))
    /\ a.totals.portfolio <= HandleCap =>
         {a.lists.portfolio[k] : k \in DOMAIN a.lists.portfolio} = Collected(SamePortfolio(a.about))

Faithful(a) == VerdictsRight(a) /\ OnlyMatch(a) /\ AllSisters(a)

\* The answers are a sequence and every one of them is faithful.
IInv ==
  /\ answers \in Seq({answers[i] : i \in DOMAIN answers})
  /\ \A i \in DOMAIN answers : Faithful(answers[i])

\* A ranking of no more than the limit is the whole collection.
LEMMA WholeRanking ==
  ASSUME NEW S, IsFiniteSet(S), NEW n \in Nat, Cardinality(S) <= n, NEW s \in Rankings(S, n)
  PROVE  {s[k] : k \in DOMAIN s} = S
<1>1. Cardinality(S) \in Nat
  BY FS_CardinalityType
<1>2. s \in [1..Cardinality(S) -> S] /\ \A i, j \in 1..Cardinality(S) : s[i] = s[j] => i = j
  <2>1. (IF Cardinality(S) < n THEN Cardinality(S) ELSE n) = Cardinality(S)
    BY <1>1
  <2> QED
    BY <2>1 DEF Rankings
<1>3. s \in Injection(1..Cardinality(S), S)
  BY <1>2 DEF Injection, IsInjective
<1>4. Cardinality(1..Cardinality(S)) = Cardinality(S)
  BY <1>1, FS_Interval
<1>5. s \in Surjection(1..Cardinality(S), S)
  BY <1>3, <1>4, FS_Injection
<1> QED
  BY <1>2, <1>5 DEF Surjection

LEMMA CandidatesRight ==
  ASSUME NEW name, NEW ls, NEW c \in Candidates(name, ls)
  PROVE  c.verdict = Verdict(normalize(c.left), normalize(c.right))
BY DEF Candidates, compare_names

LEMMA VerdictOfRight ==
  ASSUME NEW left, NEW right, NEW c \in VerdictOf(left, right)
  PROVE  c.verdict = Verdict(normalize(c.left), normalize(c.right))
BY DEF VerdictOf, compare_names

\* A landlord whose name agrees is one the index finds.
LEMMA AgreeingIsHit ==
  ASSUME NEW name, NEW l \in Landlord, Agrees(name, l)
  PROVE  l \in Hits(name)
<1>1. Verdict(normalize(name), normalize(graph.name[l])) = "agrees"
  BY DEF Agrees, compare_names
<1> QED
  BY <1>1, AgreementShares DEF Hits

\* When the index has no more than are fetched, all are.
LEMMA AllFetched ==
  ASSUME NEW name, Cardinality(Hits(name)) <= FetchLimit, NEW fetched \in Some(Hits(name), FetchLimit)
  PROVE  fetched = Hits(name)
<1>1. IsFiniteSet(Landlord)
  BY RecordsAssumption, FS_Subset
<1>2. IsFiniteSet(Hits(name))
  BY <1>1, FS_Subset DEF Hits
<1>3. CASE Cardinality(fetched) = FetchLimit
  <2>1. fetched \in SUBSET Hits(name)
    BY DEF Some
  <2>2. Cardinality(fetched) <= Cardinality(Hits(name)) /\ Cardinality(fetched) \in Nat
    BY <1>2, <2>1, FS_Subset, FS_CardinalityType
  <2>3. Cardinality(Hits(name)) = Cardinality(fetched)
    BY <1>2, <1>3, <2>2, FS_CardinalityType, RecordsAssumption
  <2> QED
    BY <1>2, <2>1, <2>3, FS_Subset
<1>4. CASE Cardinality(fetched) # FetchLimit
  BY <1>4 DEF Some
<1> QED
  BY <1>3, <1>4

LEMMA ResolutionFaithful ==
  ASSUME NEW name, NEW fetched \in Some(Hits(name), FetchLimit), NEW a \in Resolution(name, fetched)
  PROVE  Faithful(a)
<1> DEFINE exact == {l \in fetched : Agrees(name, l)}
           plausible == IF exact = {} THEN fetched ELSE exact
           said(status, listed) ==
             Answer("resolve_landlord_name", name, status, [candidates |-> listed],
                    [candidates |-> Cardinality(plausible)], Candidates(name, listed))
<1>1. PICK status, listed :
        /\ a = said(status, listed)
        /\ status = "resolved" => \E l \in exact : exact = {l} /\ listed = <<l>>
  <2>1. \/ \E l \in exact : exact = {l} /\ a = said("resolved", <<l>>)
        \/ \E ls : a = said("needs_disambiguation", ls)
    BY DEF Resolution
  <2>2. CASE \E l \in exact : exact = {l} /\ a = said("resolved", <<l>>)
    <3> HIDE DEF said, exact
    <3> QED
      BY <2>2
  <2>3. CASE \E ls : a = said("needs_disambiguation", ls)
    <3> HIDE DEF said, exact
    <3> QED
      BY <2>3
  <2> QED
    BY <2>1, <2>2, <2>3
<1>2. /\ a.tool = "resolve_landlord_name" /\ a.about = name /\ a.status = status
      /\ a.lists.candidates = listed /\ a.compared = Candidates(name, listed)
  BY <1>1 DEF Answer
<1>3. VerdictsRight(a)
  BY <1>2, CandidatesRight DEF VerdictsRight
<1>4. OnlyMatch(a)
  <2> SUFFICES ASSUME status = "resolved", Cardinality(Hits(name)) <= FetchLimit
               PROVE  {l \in Landlord : Agrees(name, l)} = {listed[1]}
    BY <1>2 DEF OnlyMatch
  <2>1. fetched = Hits(name)
    BY AllFetched
  <2>2. exact = {l \in Landlord : Agrees(name, l)}
    BY <2>1, AgreeingIsHit DEF Hits
  <2>3. PICK l \in exact : exact = {l} /\ listed = <<l>>
    BY <1>1
  <2> QED
    BY <2>2, <2>3
<1>5. AllSisters(a)
  BY <1>2 DEF AllSisters
<1> QED
  BY <1>3, <1>4, <1>5 DEF Faithful

\* An answer that compares nothing, resolves nothing and lists no sisters.
LEMMA OtherFaithful ==
  ASSUME NEW a, VerdictsRight(a), a.status # "resolved",
         a.tool # "sister_buildings" \/ a.status # "found"
  PROVE  Faithful(a)
BY DEF Faithful, OnlyMatch, AllSisters

LEMMA NegativeFaithful ==
  ASSUME NEW tool, NEW about, NEW status, status \notin {"resolved", "found"}
  PROVE  Faithful(Negative(tool, about, status))
<1> DEFINE a == Negative(tool, about, status)
<1>1. a.status = status /\ a.compared = {}
  BY DEF Negative, Answer
<1>2. VerdictsRight(a)
  BY <1>1 DEF VerdictsRight
<1> HIDE DEF a
<1>3. Faithful(a)
  BY <1>1, <1>2, OtherFaithful
<1> QED
  BY <1>3 DEF a

LEMMA SistersFaithful ==
  ASSUME NEW b \in Building,
         NEW cs \in Rankings(Collected(SameController(b)), HandleCap),
         NEW ps \in Rankings(Collected(SamePortfolio(b)), HandleCap)
  PROVE  Faithful(Answer("sister_buildings", b, "found", [controller |-> cs, portfolio |-> ps],
                         [controller |-> Cardinality(Collected(SameController(b))),
                          portfolio |-> Cardinality(Collected(SamePortfolio(b)))], {}))
<1> DEFINE a == Answer("sister_buildings", b, "found", [controller |-> cs, portfolio |-> ps],
                       [controller |-> Cardinality(Collected(SameController(b))),
                        portfolio |-> Cardinality(Collected(SamePortfolio(b)))], {})
<1>1. /\ a.about = b /\ a.status = "found" /\ a.compared = {}
      /\ a.lists.controller = cs /\ a.lists.portfolio = ps
      /\ a.totals.controller = Cardinality(Collected(SameController(b)))
      /\ a.totals.portfolio = Cardinality(Collected(SamePortfolio(b)))
  BY DEF Answer
<1>2. IsFiniteSet(Building \X Landlord) /\ IsFiniteSet(Building \X Portfolio)
  BY RecordsAssumption, FS_Subset, FS_Product
<1>3. IsFiniteSet(SameController(b)) /\ IsFiniteSet(SamePortfolio(b))
  BY <1>2, FS_Subset DEF SameController, SamePortfolio
<1>4. IsFiniteSet(Collected(SameController(b))) /\ IsFiniteSet(Collected(SamePortfolio(b)))
  BY <1>3, FS_Singleton DEF Collected
<1>5. HandleCap \in Nat
  BY RecordsAssumption
<1> HIDE DEF a
<1>6. AllSisters(a)
  BY <1>1, <1>4, <1>5, WholeRanking DEF AllSisters
<1>7. VerdictsRight(a) /\ OnlyMatch(a)
  BY <1>1 DEF VerdictsRight, OnlyMatch
<1> QED
  BY <1>6, <1>7 DEF Faithful, a

-----------------------------------------------------------------------------
(* Every step is one faithful answer about an unchanged snapshot. *)

LEMMA NetworkSays ==
  ASSUME NEW p, Network(p)
  PROVE  \E a : Say(a) /\ Faithful(a)
<1>1. \/ Say(Negative("control_network", p, "not_found"))
      \/ \E lists, totals : Say(Answer("control_network", p, "found", lists, totals, {}))
  BY DEF Network
<1>2. \A lists, totals : Faithful(Answer("control_network", p, "found", lists, totals, {}))
  BY OtherFaithful DEF Answer, VerdictsRight
<1> QED
  BY <1>1, <1>2, NegativeFaithful

LEMMA NextSays ==
  ASSUME Next
  PROVE  \E a : Say(a) /\ Faithful(a)
<1>1. ASSUME NEW name \in Queries, resolve_landlord_name(name)
      PROVE  \E a : Say(a) /\ Faithful(a)
  BY <1>1, NegativeFaithful, ResolutionFaithful DEF resolve_landlord_name
<1>2. ASSUME NEW id, trace_actor_to_landlord(id)
      PROVE  \E a : Say(a) /\ Faithful(a)
  <2>1. ASSUME NEW rows, NEW lists, NEW totals
        PROVE  Faithful(Answer("trace_actor_to_landlord", id, "found", lists, totals,
                               Candidates(graph.name[id], rows)))
    BY OtherFaithful, CandidatesRight DEF Answer, VerdictsRight
  <2> QED
    BY <1>2, <2>1, NegativeFaithful DEF trace_actor_to_landlord
<1>3. ASSUME NEW b, lookup_building_ownership(b)
      PROVE  \E a : Say(a) /\ Faithful(a)
  <2>1. ASSUME NEW rows, NEW lists, NEW totals
        PROVE  Faithful(Answer("lookup_building_ownership", b, "found", lists, totals,
                               Candidates(graph.owner[b], rows)))
    BY OtherFaithful, CandidatesRight DEF Answer, VerdictsRight
  <2> QED
    BY <1>3, <2>1, NegativeFaithful DEF lookup_building_ownership
<1>4. ASSUME NEW b, ownership_vs_registration_diff(b)
      PROVE  \E a : Say(a) /\ Faithful(a)
  <2> DEFINE compared(reg, ctrl) ==
               VerdictOf(graph.owner[b], FirstName(reg)) \cup VerdictOf(graph.owner[b], FirstName(ctrl))
                 \cup VerdictOf(FirstName(reg), FirstName(ctrl))
  <2>1. ASSUME NEW reg, NEW ctrl, NEW lists, NEW totals
        PROVE  Faithful(Answer("ownership_vs_registration_diff", b, "found", lists, totals, compared(reg, ctrl)))
    BY OtherFaithful, VerdictOfRight DEF Answer, VerdictsRight
  <2> QED
    BY <1>4, <2>1, NegativeFaithful DEF ownership_vs_registration_diff
<1>5. ASSUME NEW b, sister_buildings(b)
      PROVE  \E a : Say(a) /\ Faithful(a)
  BY <1>5, NegativeFaithful, SistersFaithful DEF sister_buildings
<1>6. ASSUME NEW id, shared_address_landlords(id)
      PROVE  \E a : Say(a) /\ Faithful(a)
  <2>1. ASSUME NEW lists, NEW totals
        PROVE  Faithful(Answer("shared_address_landlords", id, "found", lists, totals, {}))
    BY OtherFaithful DEF Answer, VerdictsRight
  <2> QED
    BY <1>6, <2>1, NegativeFaithful DEF shared_address_landlords
<1>7. ASSUME NEW p, NEW id, control_network(p, id)
      PROVE  \E a : Say(a) /\ Faithful(a)
  BY <1>7, NegativeFaithful, NetworkSays DEF control_network
<1> QED
  BY <1>1, <1>2, <1>3, <1>4, <1>5, <1>6, <1>7 DEF Next

\* What is said is appended; what was said stays.
LEMMA SayAppends ==
  ASSUME IInv, NEW a, Say(a)
  PROVE  /\ graph' = graph
         /\ Len(answers) \in Nat /\ DOMAIN answers = 1..Len(answers)
         /\ DOMAIN answers' = 1..(Len(answers) + 1)
         /\ \A i \in DOMAIN answers : answers'[i] = answers[i]
         /\ answers'[Len(answers) + 1] = a
         /\ answers' \in Seq({answers'[i] : i \in DOMAIN answers'})
<1> DEFINE S == {answers[i] : i \in DOMAIN answers}
<1>1. answers \in Seq(S) /\ a \in S \cup {a}
  BY DEF IInv
<1>2. answers \in Seq(S \cup {a})
  <2> HIDE DEF S
  <2> QED
    BY <1>1, SeqMonotonic
<1>3. /\ graph' = graph /\ answers' = Append(answers, a)
      /\ Len(answers) \in Nat /\ DOMAIN answers = 1..Len(answers)
  BY <1>1, LenProperties DEF Say
<1>4. /\ answers' \in Seq(S \cup {a}) /\ Len(answers') = Len(answers) + 1
      /\ \A i \in 1..Len(answers) : answers'[i] = answers[i]
      /\ answers'[Len(answers) + 1] = a
  <2> HIDE DEF S
  <2> QED
    BY <1>1, <1>2, <1>3, AppendProperties
<1>5. DOMAIN answers' = 1..(Len(answers) + 1)
  <2> HIDE DEF S
  <2> QED
    BY <1>4, LenProperties
<1>6. {answers'[i] : i \in DOMAIN answers'} = S \cup {a}
  BY <1>3, <1>4, <1>5
<1> QED
  BY <1>3, <1>4, <1>5, <1>6

\* Faithfulness is to the snapshot, which no step changes.
LEMMA FaithfulStays ==
  ASSUME NEW a, Faithful(a), NEW i, answers'[i] = a, graph' = graph
  PROVE  Faithful(answers[i])'
BY DEF Faithful, VerdictsRight, OnlyMatch, AllSisters, Hits, Agrees, Collected, SameController, SamePortfolio

\* The invariant: IInv holds of every conversation.
LEMMA Invariance == Spec => []IInv
<1>1. Init => IInv
  <2> SUFFICES ASSUME Init PROVE IInv
    OBVIOUS
  <2>1. answers = <<>> /\ DOMAIN answers = {}
    BY DEF Init
  <2> QED
    BY <2>1, EmptySeq DEF IInv
<1>2. IInv /\ [Next]_vars => IInv'
  <2> SUFFICES ASSUME IInv, [Next]_vars PROVE IInv'
    OBVIOUS
  <2>1. CASE Next
    <3>1. PICK a : Say(a) /\ Faithful(a)
      BY <2>1, NextSays
    <3>0. /\ graph' = graph /\ Len(answers) \in Nat /\ DOMAIN answers = 1..Len(answers)
          /\ DOMAIN answers' = 1..(Len(answers) + 1)
          /\ \A i \in DOMAIN answers : answers'[i] = answers[i]
          /\ answers'[Len(answers) + 1] = a
          /\ answers' \in Seq({answers'[i] : i \in DOMAIN answers'})
      BY <3>1, SayAppends
    <3>2. ASSUME NEW i \in DOMAIN answers' PROVE Faithful(answers[i])'
      <4>1. CASE i \in DOMAIN answers
        BY <4>1, <3>0, FaithfulStays DEF IInv
      <4>2. CASE i = Len(answers) + 1
        BY <4>2, <3>0, <3>1, FaithfulStays
      <4> QED
        <5>1. i \in 1..Len(answers) \/ i = Len(answers) + 1
          BY <3>0
        <5> QED
          BY <4>1, <4>2, <3>0, <5>1
    <3> QED
      BY <3>0, <3>2 DEF IInv
  <2>2. CASE UNCHANGED vars
    <3>1. graph' = graph /\ answers' = answers
      BY <2>2 DEF vars
    <3>2. \A i \in DOMAIN answers : Faithful(answers[i])'
      BY <3>1, FaithfulStays DEF IInv
    <3> QED
      BY <3>1, <3>2 DEF IInv
  <2> QED
    BY <2>1, <2>2
<1> QED
  BY <1>1, <1>2, PTL DEF Spec

-----------------------------------------------------------------------------
\* A pair of names gets one verdict, whichever tools compared them and in
\* whichever order (compare_names: "a pure function of two strings").
THEOREM VerdictsAgree == Spec => []OneVerdictPerPair
<1>1. IInv => OneVerdictPerPair
  <2> SUFFICES ASSUME IInv, NEW i \in DOMAIN answers, NEW j \in DOMAIN answers,
                      NEW c \in answers[i].compared, NEW d \in answers[j].compared,
                      {normalize(c.left), normalize(c.right)} = {normalize(d.left), normalize(d.right)}
               PROVE  c.verdict = d.verdict
    BY DEF OneVerdictPerPair
  <2>1. /\ c.verdict = Verdict(normalize(c.left), normalize(c.right))
        /\ d.verdict = Verdict(normalize(d.left), normalize(d.right))
    BY DEF IInv, Faithful, VerdictsRight
  <2>2. \/ normalize(c.left) = normalize(d.left) /\ normalize(c.right) = normalize(d.right)
        \/ normalize(c.left) = normalize(d.right) /\ normalize(c.right) = normalize(d.left)
    OBVIOUS
  <2> QED
    BY <2>1, <2>2, VerdictSymmetric
<1> QED
  BY <1>1, Invariance, PTL

\* A resolution is never a guess among several, for any limit on what is
\* fetched (resolve_landlord_name: "never a single silent best guess").
THEOREM ResolutionIsOnlyMatch == Spec => []NeverGuesses
<1>1. IInv => NeverGuesses
  BY DEF IInv, Faithful, OnlyMatch, NeverGuesses
<1> QED
  BY <1>1, Invariance, PTL

\* Complete lists of sisters agree with each other, for any number of
\* buildings, landlords and portfolios (sister_buildings).
THEOREM SistersAgree == Spec => []SistersMutual
<1>1. IInv => SistersMutual
  <2> DEFINE complete(x, dim) == x.tool = "sister_buildings" /\ x.status = "found" /\ x.totals[dim] <= HandleCap
             listed(x, dim) == {x.lists[dim][k] : k \in DOMAIN x.lists[dim]}
  <2> SUFFICES ASSUME IInv, NEW i \in DOMAIN answers, NEW j \in DOMAIN answers,
                      NEW dim \in {"controller", "portfolio"}, NEW via \in Landlord \cup Portfolio,
                      complete(answers[i], dim), complete(answers[j], dim)
               PROVE  <<answers[j].about, via>> \in listed(answers[i], dim)
                        <=> <<answers[i].about, via>> \in listed(answers[j], dim)
    BY DEF SistersMutual
  <2>1. AllSisters(answers[i]) /\ AllSisters(answers[j])
    BY DEF IInv, Faithful
  <2>2. answers[i].about \in Building /\ answers[j].about \in Building
    BY <2>1 DEF AllSisters
  <2>3. /\ <<answers[i].about, via>> # None
        /\ <<answers[j].about, via>> # None
    BY <2>2, RecordsAssumption
  <2>4. CASE dim = "controller"
    <3>1. \A x \in {answers[i], answers[j]} : listed(x, dim) = Collected(SameController(x.about))
      BY <2>1, <2>4 DEF AllSisters
    <3>2. <<answers[j].about, via>> \in SameController(answers[i].about)
            <=> <<answers[i].about, via>> \in SameController(answers[j].about)
      BY <2>2 DEF SameController
    <3> QED
      BY <2>3, <3>1, <3>2 DEF Collected
  <2>5. CASE dim = "portfolio"
    <3>1. \A x \in {answers[i], answers[j]} : listed(x, dim) = Collected(SamePortfolio(x.about))
      BY <2>1, <2>5 DEF AllSisters
    <3>2. <<answers[j].about, via>> \in SamePortfolio(answers[i].about)
            <=> <<answers[i].about, via>> \in SamePortfolio(answers[j].about)
      BY <2>2 DEF SamePortfolio
    <3> QED
      BY <2>3, <3>1, <3>2 DEF Collected
  <2> QED
    BY <2>4, <2>5
<1> QED
  BY <1>1, Invariance, PTL

-----------------------------------------------------------------------------
(* Counting the connections of a network from both ends. *)

\* A set of two is a pair of different things.
LEMMA BothEnds ==
  ASSUME NEW S, IsFiniteSet(S), Cardinality(S) = 2
  PROVE  \E x, y : x # y /\ S = {x, y}
<1>1. S # {}
  BY FS_EmptySet
<1>2. PICK x \in S : TRUE
  BY <1>1
<1>3. IsFiniteSet(S \ {x}) /\ Cardinality(S \ {x}) = 1
  BY <1>2, FS_RemoveElement
<1>4. PICK y : S \ {x} = {y}
  BY <1>3, FS_Singleton
<1> QED
  BY <1>2, <1>4

\* Members of a portfolio and the edges of each: as many as edges at a member,
\* and again those with both ends in it.
LEMMA EndsCounted ==
  ASSUME NEW E, IsFiniteSet(E), NEW M, IsFiniteSet(M),
         \A e \in E : IsFiniteSet(e.ends) /\ Cardinality(e.ends) = 2
  PROVE  LET touching == {e \in E : e.ends \cap M # {}}
             inner == {e \in touching : e.ends \subseteq M}
         IN Cardinality({p \in M \X E : p[1] \in p[2].ends})
              = Cardinality(touching) + Cardinality(inner)
<1> DEFINE touching == {e \in E : e.ends \cap M # {}}
           inner == {e \in touching : e.ends \subseteq M}
           P == {p \in M \X E : p[1] \in p[2].ends}
           one(e) == CHOOSE l \in e.ends : l \in M
           A == {p \in P : p[1] = one(p[2])}
           B == {p \in P : p[1] # one(p[2])}
           f == [p \in A |-> p[2]]
           g == [p \in B |-> p[2]]
<1>1. IsFiniteSet(P) /\ IsFiniteSet(A) /\ IsFiniteSet(B)
  <2>1. IsFiniteSet(M \X E)
    BY FS_Product
  <2>2. P \subseteq M \X E /\ A \subseteq M \X E /\ B \subseteq M \X E
    OBVIOUS
  <2> QED
    BY <2>1, <2>2, FS_Subset
<1>2. \A e \in touching : one(e) \in e.ends \cap M
  OBVIOUS
<1>3. f \in Bijection(A, touching)
  <2>1. f \in [A -> touching]
    OBVIOUS
  <2>0. \A p \in A : p \in M \X E /\ p[1] = one(p[2])
    OBVIOUS
  <2>2. \A p, q \in A : f[p] = f[q] => p = q
    <3> SUFFICES ASSUME NEW p \in A, NEW q \in A, p[2] = q[2] PROVE p = q
      OBVIOUS
    <3>1. p[1] = q[1]
      <4> HIDE DEF A, one
      <4> QED
        BY <2>0
    <3>2. p = <<p[1], p[2]>> /\ q = <<q[1], q[2]>>
      <4> HIDE DEF A, one
      <4> QED
        BY <2>0
    <3> QED
      BY <3>1, <3>2
  <2>3. ASSUME NEW e \in touching PROVE \E p \in A : f[p] = e
    <3>1. <<one(e), e>> \in A
      BY <1>2
    <3> QED
      BY <3>1
  <2> HIDE DEF f, A, touching
  <2> QED
    BY <2>1, <2>2, <2>3 DEF Bijection, Injection, Surjection, IsInjective
<1>4. g \in Bijection(B, inner)
  <2>0. \A e \in inner : \E x, y : x # y /\ e.ends = {x, y}
    BY BothEnds
  <2>4. \A p \in B : p \in M \X E /\ p[1] \in p[2].ends /\ p[1] \in M /\ p[2] \in E /\ p[1] # one(p[2])
    OBVIOUS
  <2>5. ASSUME NEW p \in B PROVE p[2] \in touching /\ p[2].ends = {p[1], one(p[2])} /\ one(p[2]) \in M
    <3>1. p[2] \in touching
      BY <2>4
    <3>2. PICK x, y : x # y /\ p[2].ends = {x, y}
      BY <2>4, BothEnds
    <3>3. one(p[2]) \in p[2].ends \cap M
      BY <1>2, <3>1
    <3> HIDE DEF one, B
    <3> QED
      BY <2>4, <3>1, <3>2, <3>3
  <2>1. g \in [B -> inner]
    <3>1. \A p \in B : p[2] \in inner
      <4> HIDE DEF one, B, touching
      <4> QED
        BY <2>4, <2>5
    <3> QED
      BY <3>1
  <2>2. \A p, q \in B : g[p] = g[q] => p = q
    <3> SUFFICES ASSUME NEW p \in B, NEW q \in B, p[2] = q[2] PROVE p = q
      OBVIOUS
    <3>1. {p[1], one(p[2])} = {q[1], one(p[2])}
      BY <2>5
    <3>2. p[1] = q[1]
      <4> HIDE DEF one, B
      <4> QED
        BY <2>4, <3>1
    <3>3. p = <<p[1], p[2]>> /\ q = <<q[1], q[2]>>
      <4> HIDE DEF B
      <4> QED
        BY <2>4
    <3> QED
      BY <3>2, <3>3
  <2>3. ASSUME NEW e \in inner PROVE \E p \in B : g[p] = e
    <3>1. PICK x, y : x # y /\ e.ends = {x, y}
      BY <2>0
    <3>2. one(e) \in {x, y}
      BY <1>2, <3>1
    <3>3. PICK z \in {x, y} : z # one(e)
      BY <3>1
    <3>4. z \in M /\ e \in E /\ z \in e.ends
      BY <3>1
    <3>5. <<z, e>> \in B
      BY <3>3, <3>4
    <3> QED
      BY <3>5
  <2> HIDE DEF g, B, inner
  <2> QED
    BY <2>1, <2>2, <2>3 DEF Bijection, Injection, Surjection, IsInjective
<1>5. Cardinality(touching) = Cardinality(A) /\ Cardinality(inner) = Cardinality(B)
  <2>1. ExistsBijection(A, touching) /\ ExistsBijection(B, inner)
    BY <1>3, <1>4 DEF ExistsBijection
  <2> HIDE DEF A, B, touching, inner
  <2> QED
    BY <1>1, <2>1, FS_Bijection
<1>6. P = A \cup B /\ A \cap B = {}
  OBVIOUS
<1>7. Cardinality(P) = Cardinality(A) + Cardinality(B)
  <2> HIDE DEF P, A, B
  <2>1. /\ Cardinality(A \cup B) = Cardinality(A) + Cardinality(B) - Cardinality(A \cap B)
        /\ Cardinality(A) \in Nat /\ Cardinality(B) \in Nat
    BY <1>1, FS_Union, FS_CardinalityType
  <2>2. Cardinality(A \cap B) = 0
    BY <1>6, FS_EmptySet
  <2> QED
    BY <1>6, <2>1, <2>2
<1> QED
  BY <1>5, <1>7

-----------------------------------------------------------------------------
-----------------------------------------------------------------------------
(* The types of one answer, and what it says of connections. *)

TypedAnswer(a) ==
  /\ a.tool \in Tool /\ a.status \in Status
  /\ \A d \in DOMAIN a.lists : Len(a.lists[d]) <= Cap[d]
  /\ \A d \in DOMAIN a.totals : a.totals[d] \in Nat
  /\ \A c \in a.compared : c \in Comparison

\* The network's scale, its members' connections, and the addresses shown.
EdgesTold(a) ==
  LET members == {l \in Landlord : a.about \in graph.member[l]}
      touching == {e \in graph.connected : e.ends \cap members # {}}
      inner == {e \in touching : e.ends \subseteq members}
      list == a.lists.members
      shown == a.lists.connected
  IN /\ a.tool = "control_network" /\ a.status = "found" =>
          /\ a.totals.connection_edges = Cardinality(touching) + Cardinality(inner)
          /\ \A k \in DOMAIN list : list[k].connections = Cardinality(Connections(list[k].landlord))
     /\ a.tool = "shared_address_landlords" /\ a.status = "found" =>
          /\ a.about \in Landlord
          /\ a.totals.connected = Cardinality(Collected(Others(a.about, {"address"})))
          /\ {shown[n] : n \in DOMAIN shown} \ {None} \subseteq Others(a.about, {"address"})

Told(a) == TypedAnswer(a) /\ EdgesTold(a)

\* A ranking is a sequence within its limit, of what was ranked.
LEMMA RankingIsSeq ==
  ASSUME NEW S, IsFiniteSet(S), NEW n \in Nat, NEW s \in Rankings(S, n)
  PROVE  /\ s \in Seq(S) /\ Len(s) \in Nat /\ DOMAIN s = 1..Len(s)
         /\ Len(s) <= n /\ Len(s) <= Cardinality(S)
         /\ \A i \in 1..Len(s) : s[i] \in S
<1> DEFINE k == IF Cardinality(S) < n THEN Cardinality(S) ELSE n
<1>1. Cardinality(S) \in Nat
  BY FS_CardinalityType
<1>2. k \in Nat /\ k <= n /\ k <= Cardinality(S)
  BY <1>1
<1>3. s \in [1..k -> S]
  BY DEF Rankings
<1>4. s \in Seq(S) /\ Len(s) = k
  <2> HIDE DEF k
  <2>1. s \in Seq(S)
    BY <1>2, <1>3, SeqDef
  <2>2. DOMAIN s = 1..k
    BY <1>3
  <2> QED
    BY <1>2, <2>1, <2>2, LenProperties
<1> HIDE DEF k
<1> QED
  BY <1>2, <1>3, <1>4

\* All a snapshot holds is finite.
LEMMA Finite ==
  ASSUME graph \in Graph
  PROVE  /\ IsFiniteSet(Landlord) /\ Landlord \subseteq Actor
         /\ \A b \in Building : /\ IsFiniteSet(SameController(b)) /\ IsFiniteSet(SamePortfolio(b))
                                /\ IsFiniteSet(graph.registered[b]) /\ IsFiniteSet(Controllers(b))
         /\ \A l, kinds : IsFiniteSet(Others(l, kinds))
         /\ \A name : IsFiniteSet(Hits(name))
         /\ IsFiniteSet(graph.connected)
         /\ \A l \in Landlord : IsFiniteSet(graph.controls[l]) /\ IsFiniteSet(Connections(l))
<1>1. IsFiniteSet(Landlord) /\ Landlord \subseteq Actor
  BY RecordsAssumption, FS_Subset
<1>2. IsFiniteSet(Building \X Landlord) /\ IsFiniteSet(Building \X Portfolio)
  BY <1>1, RecordsAssumption, FS_Product
<1>3. \A b \in Building : IsFiniteSet(SameController(b)) /\ IsFiniteSet(SamePortfolio(b))
  BY <1>2, FS_Subset DEF SameController, SamePortfolio
<1>4. \A b \in Building : graph.registered[b] \subseteq Actor /\ Controllers(b) \subseteq Landlord
  BY DEF Graph, Controllers
<1>5. \A b \in Building : IsFiniteSet(graph.registered[b]) /\ IsFiniteSet(Controllers(b))
  BY <1>1, <1>4, RecordsAssumption, FS_Subset
<1>6. \A l, kinds : IsFiniteSet(Others(l, kinds))
  BY <1>1, FS_Subset DEF Others
<1>7. \A name : IsFiniteSet(Hits(name))
  BY <1>1, FS_Subset DEF Hits
<1>8. IsFiniteSet(Edge)
  <2> DEFINE Pairs == {pair \in SUBSET Landlord : Cardinality(pair) = 2}
             Kinds == {"name", "address"}
             h == [x \in Pairs \X Kinds |-> [ends |-> x[1], kind |-> x[2]]]
  <2>1. IsFiniteSet(SUBSET Landlord)
    BY <1>1, FS_SUBSET
  <2>2. IsFiniteSet(Pairs) /\ IsFiniteSet(Kinds)
    <3>1. Pairs \in SUBSET (SUBSET Landlord)
      OBVIOUS
    <3>2. IsFiniteSet({"name"} \cup {"address"})
      BY FS_Singleton, FS_Union
    <3>3. {"name"} \cup {"address"} = Kinds
      OBVIOUS
    <3> HIDE DEF Pairs, Kinds
    <3> QED
      BY <2>1, <3>1, <3>2, <3>3, FS_Subset
  <2>3. IsFiniteSet(Pairs \X Kinds)
    <3> HIDE DEF Pairs, Kinds
    <3> QED
      BY <2>2, FS_Product
  <2>4. h \in [Pairs \X Kinds -> Edge]
    BY DEF Edge
  <2>5. ASSUME NEW e \in Edge PROVE \E x \in Pairs \X Kinds : h[x] = e
    <3>1. <<e.ends, e.kind>> \in Pairs \X Kinds
      BY DEF Edge
    <3>2. h[<<e.ends, e.kind>>] = [ends |-> e.ends, kind |-> e.kind]
      BY <3>1
    <3>3. e = [ends |-> e.ends, kind |-> e.kind]
      BY DEF Edge
    <3> QED
      BY <3>1, <3>2, <3>3
  <2>6. h \in Surjection(Pairs \X Kinds, Edge)
    <3> HIDE DEF h, Pairs, Kinds
    <3> QED
      BY <2>4, <2>5 DEF Surjection
  <2> HIDE DEF h, Pairs, Kinds
  <2> QED
    BY <2>3, <2>6, FS_Surjection
<1>9. IsFiniteSet(graph.connected)
  BY <1>8, FS_Subset DEF Graph
<1>10. ASSUME NEW l \in Landlord PROVE IsFiniteSet(graph.controls[l]) /\ IsFiniteSet(Connections(l))
  <2>1. graph.controls[l] \subseteq Building /\ Connections(l) \subseteq graph.connected
    BY DEF Graph, Connections
  <2> QED
    BY <1>9, <2>1, RecordsAssumption, FS_Subset
<1> QED
  BY <1>1, <1>3, <1>5, <1>6, <1>7, <1>9, <1>10

-----------------------------------------------------------------------------
\* A verdict on two names there are is a comparison of them.
LEMMA ComparedNames ==
  ASSUME NEW left \in Raw, NEW right \in Raw
  PROVE  compare_names(left, right) \in Comparison
<1>1. Verdict(normalize(left), normalize(right)) \in OwnershipVerdict
  <2> DEFINE L == normalize(left) R == normalize(right) K == Kept(L, R) D == Distinguishing(K)
  <2> SUFFICES Verdict(L, R) \in OwnershipVerdict
    OBVIOUS
  <2>1. Verdict(L, R) = IF L = {} \/ R = {} THEN "not_comparable" ELSE IF K.left = K.right THEN "agrees"
                        ELSE IF D = {} THEN "differs" ELSE "indeterminate"
    BY DEF Verdict
  <2> HIDE DEF L, R, K, D
  <2> QED
    BY <2>1 DEF OwnershipVerdict
<1> QED
  BY <1>1 DEF compare_names, Comparison

\* Candidates are compared by the names they are recorded under.
LEMMA CandidatesTyped ==
  ASSUME graph \in Graph, NEW name \in Raw, NEW ls, \A i \in DOMAIN ls : ls[i] \in Landlord
  PROVE  \A c \in Candidates(name, ls) : c \in Comparison
<1>1. \A i \in DOMAIN ls : graph.name[ls[i]] \in Raw
  BY RecordsAssumption DEF Graph
<1> QED
  BY <1>1, ComparedNames DEF Candidates

\* A diff compares nothing where a side is missing.
LEMMA DiffTyped ==
  ASSUME NEW left \in Raw, NEW right \in Raw
  PROVE  \A c \in VerdictOf(left, right) : c \in Comparison
BY ComparedNames DEF VerdictOf

\* The first of a list has a recorded name, or there is none.
LEMMA FirstNameTyped ==
  ASSUME graph \in Graph, NEW actors, NEW S \in SUBSET Actor, actors \in Seq(S)
  PROVE  FirstName(actors) \in Raw
<1>1. CASE actors = <<>>
  BY <1>1 DEF FirstName, Raw
<1>2. CASE actors # <<>>
  <2>1. actors[1] \in Actor
    BY <1>2
  <2> QED
    BY <1>2, <2>1 DEF FirstName, Graph
<1> QED
  BY <1>1, <1>2

\* The parts of an answer, typed one by one.
LEMMA AnswerTyped ==
  ASSUME NEW tool \in Tool, NEW about, NEW status \in Status, NEW lists, NEW totals, NEW compared,
         \A d \in DOMAIN lists : Len(lists[d]) <= Cap[d],
         \A d \in DOMAIN totals : totals[d] \in Nat,
         \A c \in compared : c \in Comparison
  PROVE  TypedAnswer(Answer(tool, about, status, lists, totals, compared))
BY DEF TypedAnswer, Answer

\* Only two tools speak of connections.
LEMMA OtherTold ==
  ASSUME NEW tool, NEW about, NEW status, NEW lists, NEW totals, NEW compared,
         tool \notin {"control_network", "shared_address_landlords"} \/ status # "found"
  PROVE  EdgesTold(Answer(tool, about, status, lists, totals, compared))
BY DEF EdgesTold, Answer

\* An answer without content says nothing wrong.
LEMMA NegativeTold ==
  ASSUME NEW tool \in Tool, NEW about, NEW status \in Status, status # "found"
  PROVE  Told(Negative(tool, about, status))
<1>1. TypedAnswer(Negative(tool, about, status))
  BY AnswerTyped DEF Negative, NoList, NoTotal
<1>2. EdgesTold(Negative(tool, about, status))
  BY OtherTold DEF Negative
<1> QED
  BY <1>1, <1>2 DEF Told

-----------------------------------------------------------------------------
-----------------------------------------------------------------------------
(* What each tool says of a snapshot. *)

\* What resolve_landlord_name says of the landlords it fetched.
LEMMA ResolutionTold ==
  ASSUME graph \in Graph, NEW name \in Raw, NEW fetched \in Some(Hits(name), FetchLimit),
         NEW a \in Resolution(name, fetched)
  PROVE  Told(a)
<1> DEFINE exact == {l \in fetched : Agrees(name, l)}
           plausible == IF exact = {} THEN fetched ELSE exact
           said(status, listed) ==
             Answer("resolve_landlord_name", name, status, [candidates |-> listed],
                    [candidates |-> Cardinality(plausible)], Candidates(name, listed))
<1>1. IsFiniteSet(plausible) /\ plausible \subseteq Landlord /\ exact \subseteq Landlord
  <2>1. fetched \subseteq Landlord
    BY DEF Some, Hits
  <2> QED
    BY <2>1, Finite, FS_Subset
<1>2. ASSUME NEW status \in {"resolved", "needs_disambiguation"}, NEW listed,
             Len(listed) <= MaxCandidates, \A i \in DOMAIN listed : listed[i] \in Landlord
      PROVE  Told(said(status, listed))
  <2>1. \A c \in Candidates(name, listed) : c \in Comparison
    BY <1>2, CandidatesTyped
  <2>2. Cardinality(plausible) \in Nat
    BY <1>1, FS_CardinalityType
  <2> HIDE DEF plausible
  <2>3. TypedAnswer(said(status, listed))
    <3> DEFINE lists == [candidates |-> listed] totals == [candidates |-> Cardinality(plausible)]
    <3>1. \A d \in DOMAIN lists : Len(lists[d]) <= Cap[d]
      BY <1>2 DEF Cap
    <3>2. \A d \in DOMAIN totals : totals[d] \in Nat
      BY <2>2
    <3>3. "resolve_landlord_name" \in Tool /\ status \in Status
      BY <1>2 DEF Tool, Status
    <3> HIDE DEF lists, totals
    <3>4. TypedAnswer(Answer("resolve_landlord_name", name, status, lists, totals, Candidates(name, listed)))
      BY <2>1, <3>1, <3>2, <3>3, AnswerTyped
    <3> QED
      BY <3>4 DEF lists, totals
  <2>4. EdgesTold(said(status, listed))
    BY OtherTold
  <2> QED
    BY <2>3, <2>4 DEF Told
<1>3. \/ \E l \in exact : a = said("resolved", <<l>>)
      \/ \E ls \in Rankings(plausible, MaxCandidates) : a = said("needs_disambiguation", ls)
  BY DEF Resolution
<1>4. ASSUME NEW l \in exact PROVE Told(said("resolved", <<l>>))
  <2>1. Len(<<l>>) <= MaxCandidates /\ \A i \in DOMAIN <<l>> : <<l>>[i] \in Landlord
    BY <1>1, RecordsAssumption
  <2> HIDE DEF said
  <2> QED
    BY <1>2, <2>1
<1>5. ASSUME NEW ls \in Rankings(plausible, MaxCandidates) PROVE Told(said("needs_disambiguation", ls))
  <2>1. Len(ls) <= MaxCandidates /\ \A i \in DOMAIN ls : ls[i] \in Landlord
    <3> HIDE DEF plausible
    <3> QED
      BY <1>1, RankingIsSeq, RecordsAssumption
  <2> HIDE DEF said
  <2> QED
    BY <1>2, <2>1
<1> HIDE DEF said, exact, plausible
<1> QED
  BY <1>3, <1>4, <1>5

\* A step of resolve_landlord_name says one answer, told as the snapshot has it.
LEMMA ResolveSays ==
  ASSUME graph \in Graph, NEW name \in Queries, resolve_landlord_name(name)
  PROVE  MoreAnswers /\ \E a : Say(a) /\ Told(a)
<1>1. name \in Raw
  BY RecordsAssumption
<1>2. \A status \in {"invalid_input", "not_found"} : Told(Negative("resolve_landlord_name", name, status))
  BY NegativeTold DEF Tool, Status
<1> QED
  BY <1>1, <1>2, ResolutionTold DEF resolve_landlord_name

\* So does trace_actor_to_landlord.
LEMMA TraceSays ==
  ASSUME graph \in Graph, NEW id, trace_actor_to_landlord(id)
  PROVE  MoreAnswers /\ \E a : Say(a) /\ Told(a)
<1>1. \A status \in {"is_landlord", "not_found"} : Told(Negative("trace_actor_to_landlord", id, status))
  BY NegativeTold DEF Tool, Status
<1>2. ASSUME id \in Actor \ Landlord, NEW rows \in Rankings(Hits(graph.name[id]), TraceLimit)
      PROVE  Told(Answer("trace_actor_to_landlord", id, "found", [possibly_related |-> rows],
                         [possibly_related |-> Len(rows)], Candidates(graph.name[id], rows)))
  <2>1. /\ Len(rows) \in Nat /\ Len(rows) <= TraceLimit
        /\ \A i \in DOMAIN rows : rows[i] \in Hits(graph.name[id])
    BY Finite, RankingIsSeq, RecordsAssumption
  <2>2. \A i \in DOMAIN rows : rows[i] \in Landlord
    BY <2>1 DEF Hits
  <2>3. graph.name[id] \in Raw
    BY <1>2 DEF Graph
  <2>4. \A c \in Candidates(graph.name[id], rows) : c \in Comparison
    BY <2>2, <2>3, CandidatesTyped
  <2>5. TypedAnswer(Answer("trace_actor_to_landlord", id, "found", [possibly_related |-> rows],
                           [possibly_related |-> Len(rows)], Candidates(graph.name[id], rows)))
    <3> DEFINE lists == [possibly_related |-> rows] totals == [possibly_related |-> Len(rows)]
    <3>1. \A d \in DOMAIN lists : Len(lists[d]) <= Cap[d]
      BY <2>1 DEF Cap
    <3>2. \A d \in DOMAIN totals : totals[d] \in Nat
      BY <2>1
    <3>3. "trace_actor_to_landlord" \in Tool /\ "found" \in Status
      BY DEF Tool, Status
    <3> HIDE DEF lists, totals
    <3>4. TypedAnswer(Answer("trace_actor_to_landlord", id, "found", lists, totals, Candidates(graph.name[id], rows)))
      BY <2>4, <3>1, <3>2, <3>3, AnswerTyped
    <3> QED
      BY <3>4 DEF lists, totals
  <2> QED
    BY <2>5, OtherTold DEF Told
<1> QED
  BY <1>1, <1>2 DEF trace_actor_to_landlord

\* So does lookup_building_ownership.
LEMMA OwnershipSays ==
  ASSUME graph \in Graph, NEW b, lookup_building_ownership(b)
  PROVE  MoreAnswers /\ \E a : Say(a) /\ Told(a)
<1>1. Told(Negative("lookup_building_ownership", b, "not_found"))
  BY NegativeTold DEF Tool, Status
<1>2. ASSUME b \in Building, NEW ctrl \in Rankings(Controllers(b), Cardinality(Landlord))
      PROVE  Told(Answer("lookup_building_ownership", b, "found", [controllers |-> ctrl],
                         [controllers |-> Len(ctrl)], Candidates(graph.owner[b], ctrl)))
  <2>0. Cardinality(Landlord) \in Nat
    BY Finite, FS_CardinalityType
  <2>1. /\ Len(ctrl) \in Nat /\ Len(ctrl) <= Cardinality(Landlord)
        /\ \A i \in DOMAIN ctrl : ctrl[i] \in Controllers(b)
    BY <1>2, <2>0, Finite, RankingIsSeq
  <2>2. \A i \in DOMAIN ctrl : ctrl[i] \in Landlord
    BY <2>1 DEF Controllers
  <2>3. graph.owner[b] \in Raw
    BY <1>2 DEF Graph
  <2>4. \A c \in Candidates(graph.owner[b], ctrl) : c \in Comparison
    BY <2>2, <2>3, CandidatesTyped
  <2>5. TypedAnswer(Answer("lookup_building_ownership", b, "found", [controllers |-> ctrl],
                           [controllers |-> Len(ctrl)], Candidates(graph.owner[b], ctrl)))
    <3> DEFINE lists == [controllers |-> ctrl] totals == [controllers |-> Len(ctrl)]
    <3>1. \A d \in DOMAIN lists : Len(lists[d]) <= Cap[d]
      BY <2>1 DEF Cap
    <3>2. \A d \in DOMAIN totals : totals[d] \in Nat
      BY <2>1
    <3>3. "lookup_building_ownership" \in Tool /\ "found" \in Status
      BY DEF Tool, Status
    <3> HIDE DEF lists, totals
    <3>4. TypedAnswer(Answer("lookup_building_ownership", b, "found", lists, totals, Candidates(graph.owner[b], ctrl)))
      BY <2>4, <3>1, <3>2, <3>3, AnswerTyped
    <3> QED
      BY <3>4 DEF lists, totals
  <2> QED
    BY <2>5, OtherTold DEF Told
<1> QED
  BY <1>1, <1>2 DEF lookup_building_ownership

\* So does ownership_vs_registration_diff.
LEMMA DiffSays ==
  ASSUME graph \in Graph, NEW b, ownership_vs_registration_diff(b)
  PROVE  MoreAnswers /\ \E a : Say(a) /\ Told(a)
<1> DEFINE compared(reg, ctrl) ==
             VerdictOf(graph.owner[b], FirstName(reg)) \cup VerdictOf(graph.owner[b], FirstName(ctrl))
               \cup VerdictOf(FirstName(reg), FirstName(ctrl))
           said(reg, ctrl) ==
             Answer("ownership_vs_registration_diff", b, "found", [registered |-> reg, controllers |-> ctrl],
                    NoTotal, compared(reg, ctrl))
<1>1. Told(Negative("ownership_vs_registration_diff", b, "not_found"))
  BY NegativeTold DEF Tool, Status
<1>2. ASSUME b \in Building,
             NEW reg \in Rankings(graph.registered[b], RegisteredCap),
             NEW ctrl \in Rankings(Controllers(b), ControllerCap)
      PROVE  Told(said(reg, ctrl))
  <2>1. /\ reg \in Seq(graph.registered[b]) /\ Len(reg) <= RegisteredCap
        /\ ctrl \in Seq(Controllers(b)) /\ Len(ctrl) <= ControllerCap
        /\ Len(ctrl) \in Nat /\ Len(ctrl) <= Cardinality(Controllers(b))
    BY <1>2, Finite, RankingIsSeq, RecordsAssumption
  <2>2. /\ graph.registered[b] \subseteq Actor /\ Controllers(b) \subseteq Landlord
        /\ Controllers(b) \subseteq Actor
        /\ graph.owner[b] \in Raw
    BY <1>2, Finite DEF Graph, Controllers
  <2>3. Cardinality(Controllers(b)) <= Cardinality(Landlord)
        /\ Cardinality(Controllers(b)) \in Nat /\ Cardinality(Landlord) \in Nat
    BY <1>2, <2>2, Finite, FS_Subset, FS_CardinalityType
  <2>4. FirstName(reg) \in Raw /\ FirstName(ctrl) \in Raw
    BY <2>1, <2>2, FirstNameTyped
  <2>5. \A c \in compared(reg, ctrl) : c \in Comparison
    BY <2>2, <2>4, DiffTyped
  <2>6. Len(ctrl) <= Cardinality(Landlord)
    BY <2>1, <2>3
  <2>7. TypedAnswer(said(reg, ctrl))
    <3> DEFINE lists == [registered |-> reg, controllers |-> ctrl]
    <3>1. \A d \in DOMAIN lists : Len(lists[d]) <= Cap[d]
      BY <2>1, <2>6 DEF Cap
    <3>2. \A d \in DOMAIN NoTotal : NoTotal[d] \in Nat
      BY DEF NoTotal
    <3>3. "ownership_vs_registration_diff" \in Tool /\ "found" \in Status
      BY DEF Tool, Status
    <3> HIDE DEF lists, compared
    <3>4. TypedAnswer(Answer("ownership_vs_registration_diff", b, "found", lists, NoTotal, compared(reg, ctrl)))
      BY <2>5, <3>1, <3>2, <3>3, AnswerTyped
    <3> QED
      BY <3>4 DEF lists
  <2>8. EdgesTold(said(reg, ctrl))
    BY OtherTold
  <2> QED
    BY <2>7, <2>8 DEF Told
<1> QED
  BY <1>1, <1>2 DEF ownership_vs_registration_diff

\* So does sister_buildings.
LEMMA SistersSay ==
  ASSUME graph \in Graph, NEW b, sister_buildings(b)
  PROVE  MoreAnswers /\ \E a : Say(a) /\ Told(a)
<1> DEFINE controller == Collected(SameController(b))
           portfolio == Collected(SamePortfolio(b))
           said(cs, ps) ==
             Answer("sister_buildings", b, "found", [controller |-> cs, portfolio |-> ps],
                    [controller |-> Cardinality(controller), portfolio |-> Cardinality(portfolio)], {})
<1>1. Told(Negative("sister_buildings", b, "not_found"))
  BY NegativeTold DEF Tool, Status
<1>2. ASSUME b \in Building, NEW cs \in Rankings(controller, HandleCap), NEW ps \in Rankings(portfolio, HandleCap)
      PROVE  Told(said(cs, ps))
  <2>1. IsFiniteSet(controller) /\ IsFiniteSet(portfolio)
    BY <1>2, Finite, FS_Singleton DEF Collected
  <2> HIDE DEF controller, portfolio
  <2>2. /\ Cardinality(controller) \in Nat /\ Cardinality(portfolio) \in Nat
        /\ Len(cs) <= HandleCap /\ Len(ps) <= HandleCap
    BY <2>1, FS_CardinalityType, RankingIsSeq, RecordsAssumption
  <2>3. TypedAnswer(said(cs, ps))
    <3> DEFINE lists == [controller |-> cs, portfolio |-> ps]
               totals == [controller |-> Cardinality(controller), portfolio |-> Cardinality(portfolio)]
    <3>1. \A d \in DOMAIN lists : Len(lists[d]) <= Cap[d]
      BY <2>2 DEF Cap
    <3>2. \A d \in DOMAIN totals : totals[d] \in Nat
      BY <2>2
    <3>3. "sister_buildings" \in Tool /\ "found" \in Status
      BY DEF Tool, Status
    <3> HIDE DEF lists, totals
    <3>4. TypedAnswer(Answer("sister_buildings", b, "found", lists, totals, {}))
      BY <3>1, <3>2, <3>3, AnswerTyped
    <3> QED
      BY <3>4 DEF lists, totals
  <2>4. EdgesTold(said(cs, ps))
    BY OtherTold
  <2> QED
    BY <2>3, <2>4 DEF Told
<1>3. \/ Say(Negative("sister_buildings", b, "not_found"))
      \/ /\ b \in Building
         /\ \E cs \in Rankings(controller, HandleCap), ps \in Rankings(portfolio, HandleCap) : Say(said(cs, ps))
  BY DEF sister_buildings
<1> HIDE DEF said, controller, portfolio
<1> QED
  BY <1>1, <1>2, <1>3 DEF sister_buildings

\* So does shared_address_landlords, whose list is of landlords connected.
LEMMA AddressSays ==
  ASSUME graph \in Graph, NEW id, shared_address_landlords(id)
  PROVE  MoreAnswers /\ \E a : Say(a) /\ Told(a)
<1> DEFINE others == Collected(Others(id, {"address"}))
           said(os) == Answer("shared_address_landlords", id, "found", [connected |-> os],
                              [connected |-> Cardinality(others)], {})
<1>1. Told(Negative("shared_address_landlords", id, "not_found"))
  BY NegativeTold DEF Tool, Status
<1>2. ASSUME id \in Landlord, NEW os \in Rankings(others, HandleCap)
      PROVE  Told(said(os))
  <2>1. IsFiniteSet(others) /\ others \subseteq Others(id, {"address"}) \cup {None}
    BY Finite, FS_Singleton DEF Collected
  <2> HIDE DEF others
  <2>2. /\ Cardinality(others) \in Nat /\ Len(os) <= HandleCap
        /\ \A n \in DOMAIN os : os[n] \in others
    BY <2>1, FS_CardinalityType, RankingIsSeq, RecordsAssumption
  <2>3. TypedAnswer(said(os))
    <3> DEFINE lists == [connected |-> os] totals == [connected |-> Cardinality(others)]
    <3>1. \A d \in DOMAIN lists : Len(lists[d]) <= Cap[d]
      BY <2>2 DEF Cap
    <3>2. \A d \in DOMAIN totals : totals[d] \in Nat
      BY <2>2
    <3>3. "shared_address_landlords" \in Tool /\ "found" \in Status
      BY DEF Tool, Status
    <3> HIDE DEF lists, totals
    <3>4. TypedAnswer(Answer("shared_address_landlords", id, "found", lists, totals, {}))
      BY <3>1, <3>2, <3>3, AnswerTyped
    <3> QED
      BY <3>4 DEF lists, totals
  <2>4. EdgesTold(said(os))
    <3>1. /\ said(os).tool = "shared_address_landlords" /\ said(os).about = id
          /\ said(os).lists.connected = os /\ said(os).totals.connected = Cardinality(others)
      BY DEF Answer
    <3>2. {os[n] : n \in DOMAIN os} \ {None} \subseteq Others(id, {"address"})
      BY <2>1, <2>2
    <3> HIDE DEF said
    <3>3. others = Collected(Others(id, {"address"}))
      BY DEF others
    <3> QED
      BY <1>2, <3>1, <3>2, <3>3 DEF EdgesTold
  <2> QED
    BY <2>3, <2>4 DEF Told
<1>3. /\ MoreAnswers
      /\ \/ Say(Negative("shared_address_landlords", id, "not_found"))
         \/ id \in Landlord /\ \E os \in Rankings(others, HandleCap) : Say(said(os))
  BY DEF shared_address_landlords
<1> HIDE DEF said, others
<1> QED
  BY <1>1, <1>2, <1>3

-----------------------------------------------------------------------------
\* What is kept of a list that is cut.
LEMMA FirstOf ==
  ASSUME NEW S, NEW s \in Seq(S), NEW n \in Nat
  PROVE  /\ Len(First(s, n)) <= n /\ DOMAIN First(s, n) = 1..Len(First(s, n))
         /\ \A k \in DOMAIN First(s, n) : k \in DOMAIN s /\ First(s, n)[k] = s[k]
<1> DEFINE m == IF Len(s) < n THEN Len(s) ELSE n
<1>1. Len(s) \in Nat /\ DOMAIN s = 1..Len(s) /\ \A i \in 1..Len(s) : s[i] \in S
  BY LenProperties
<1>2. m \in Nat /\ m <= n /\ m <= Len(s)
  BY <1>1
<1>3. First(s, n) = SubSeq(s, 1, m)
  BY DEF First
<1> HIDE DEF m
<1>4. \A i \in 1..m : s[i] \in S
  BY <1>1, <1>2
<1>5. /\ SubSeq(s, 1, m) \in Seq(S)
      /\ Len(SubSeq(s, 1, m)) = IF 1 <= m THEN m - 1 + 1 ELSE 0
      /\ \A i \in 1..(m - 1 + 1) : SubSeq(s, 1, m)[i] = s[1 + i - 1]
  BY <1>2, <1>4, SubSeqProperties
<1>6. Len(SubSeq(s, 1, m)) = m /\ DOMAIN SubSeq(s, 1, m) = 1..m
  BY <1>2, <1>5, LenProperties
<1>7. \A i \in 1..m : SubSeq(s, 1, m)[i] = s[i]
  BY <1>2, <1>5
<1> QED
  BY <1>1, <1>2, <1>3, <1>6, <1>7

\* A portfolio's answer: the sum over its members counts edges as EndsCounted
\* has it.
LEMMA NetworkTold ==
  ASSUME graph \in Graph, NEW p,
         NEW rows \in Rankings({Member(l) : l \in {l \in Landlord : p \in graph.member[l]}}, Cardinality(Landlord))
  PROVE  LET members == {Member(l) : l \in {l \in Landlord : p \in graph.member[l]}}
         IN Told(Answer("control_network", p, "found", [members |-> First(rows, HandleCap)],
                        [connection_edges |->
                           Cardinality(UNION {{m.landlord} \X Connections(m.landlord) : m \in members})], {}))
<1> DEFINE M == {l \in Landlord : p \in graph.member[l]}
           members == {Member(l) : l \in M}
           sum == Cardinality(UNION {{m.landlord} \X Connections(m.landlord) : m \in members})
           said == Answer("control_network", p, "found", [members |-> First(rows, HandleCap)],
                          [connection_edges |-> sum], {})
           touching == {e \in graph.connected : e.ends \cap M # {}}
           inner == {e \in touching : e.ends \subseteq M}
           ends == {q \in M \X graph.connected : q[1] \in q[2].ends}
<1>1. IsFiniteSet(M) /\ M \subseteq Landlord
  BY Finite, FS_Subset
<1>2. IsFiniteSet(members)
  <2> DEFINE h == [l \in M |-> Member(l)]
  <2>1. h \in [M -> members] /\ \A m \in members : \E l \in M : h[l] = m
    OBVIOUS
  <2>2. h \in Surjection(M, members)
    <3> HIDE DEF h, M, members
    <3> QED
      BY <2>1 DEF Surjection
  <2> HIDE DEF h, M, members
  <2> QED
    BY <1>1, <2>2, FS_Surjection
<1>3. /\ rows \in Seq(members) /\ DOMAIN rows = 1..Len(rows)
      /\ \A i \in 1..Len(rows) : rows[i] \in members
  <2>1. Cardinality(Landlord) \in Nat
    BY Finite, FS_CardinalityType
  <2> HIDE DEF members
  <2>2. rows \in Rankings(members, Cardinality(Landlord))
    BY DEF members
  <2> QED
    BY <1>2, <2>1, <2>2, RankingIsSeq
<1>4. \A m \in members : m.landlord \in M /\ m.connections = Cardinality(Connections(m.landlord))
  BY DEF Member
<1>5. sum = Cardinality(ends)
  <2>1. UNION {{m.landlord} \X Connections(m.landlord) : m \in members}
          = UNION {{l} \X Connections(l) : l \in M}
    <3>1. \A l \in M : Member(l) \in members /\ Member(l).landlord = l
      BY DEF Member
    <3> HIDE DEF members, M
    <3> QED
      BY <1>4, <3>1
  <2>2. UNION {{l} \X Connections(l) : l \in M} = ends
    BY DEF Connections
  <2> QED
    BY <2>1, <2>2
<1>6. IsFiniteSet(ends)
  <2>1. IsFiniteSet(M \X graph.connected)
    <3> HIDE DEF M
    <3> QED
      BY <1>1, Finite, FS_Product
  <2>2. ends \subseteq M \X graph.connected
    OBVIOUS
  <2> HIDE DEF M, ends
  <2> QED
    BY <2>1, <2>2, FS_Subset
<1>7. Cardinality(ends) = Cardinality(touching) + Cardinality(inner)
  <2>1. \A e \in graph.connected : e.ends \in SUBSET Landlord /\ Cardinality(e.ends) = 2
    BY DEF Graph, Edge
  <2>2. \A e \in graph.connected : IsFiniteSet(e.ends) /\ Cardinality(e.ends) = 2
    BY <2>1, Finite, FS_Subset
  <2>3. IsFiniteSet(graph.connected)
    BY Finite
  <2>4. ASSUME NEW E, IsFiniteSet(E), NEW N, IsFiniteSet(N),
               \A e \in E : IsFiniteSet(e.ends) /\ Cardinality(e.ends) = 2
        PROVE  Cardinality({q \in N \X E : q[1] \in q[2].ends})
                 = Cardinality({e \in E : e.ends \cap N # {}})
                     + Cardinality({e \in {e \in E : e.ends \cap N # {}} : e.ends \subseteq N})
    BY <2>4, EndsCounted
  <2> HIDE DEF M
  <2> QED
    BY <1>1, <2>2, <2>3, <2>4
<1>8. /\ Len(First(rows, HandleCap)) <= HandleCap
      /\ \A k \in DOMAIN First(rows, HandleCap) : First(rows, HandleCap)[k] \in members
  <2> HIDE DEF members
  <2> QED
    BY <1>3, FirstOf, RecordsAssumption
<1>9. TypedAnswer(said)
  <2> DEFINE lists == [members |-> First(rows, HandleCap)] totals == [connection_edges |-> sum]
  <2>1. sum \in Nat
    BY <1>5, <1>6, FS_CardinalityType
  <2> HIDE DEF sum
  <2>2. \A d \in DOMAIN lists : Len(lists[d]) <= Cap[d]
    BY <1>8 DEF Cap
  <2>3. \A d \in DOMAIN totals : totals[d] \in Nat
    BY <2>1
  <2>4. "control_network" \in Tool /\ "found" \in Status
    BY DEF Tool, Status
  <2> HIDE DEF lists, totals
  <2>5. TypedAnswer(Answer("control_network", p, "found", lists, totals, {}))
    BY <2>2, <2>3, <2>4, AnswerTyped
  <2> QED
    BY <2>5 DEF lists, totals
<1>10. EdgesTold(said)
  <2>1. /\ said.tool = "control_network" /\ said.about = p
        /\ said.totals.connection_edges = sum
        /\ said.lists.members = First(rows, HandleCap)
    BY DEF Answer
  <2>2. \A k \in DOMAIN First(rows, HandleCap) :
          First(rows, HandleCap)[k].connections = Cardinality(Connections(First(rows, HandleCap)[k].landlord))
    BY <1>4, <1>8
  <2>3. sum = Cardinality(touching) + Cardinality(inner)
    BY <1>5, <1>7
  <2> HIDE DEF said, sum
  <2> QED
    BY <2>1, <2>2, <2>3 DEF EdgesTold
<1>11. Told(said)
  BY <1>9, <1>10 DEF Told
<1> QED
  BY <1>11

\* So does the part of control_network that has its portfolio.
LEMMA NetworkSaysTold ==
  ASSUME graph \in Graph, NEW p, Network(p)
  PROVE  \E a : Say(a) /\ Told(a)
<1> DEFINE members == {Member(l) : l \in {l \in Landlord : p \in graph.member[l]}}
           said(rows) == Answer("control_network", p, "found", [members |-> First(rows, HandleCap)],
                                [connection_edges |->
                                   Cardinality(UNION {{m.landlord} \X Connections(m.landlord) : m \in members})], {})
<1>1. \/ Say(Negative("control_network", p, "not_found"))
      \/ \E rows \in Rankings(members, Cardinality(Landlord)) : Say(said(rows))
  BY DEF Network
<1>2. Told(Negative("control_network", p, "not_found"))
  BY NegativeTold DEF Tool, Status
<1>3. \A rows \in Rankings(members, Cardinality(Landlord)) : Told(said(rows))
  BY NetworkTold
<1> HIDE DEF said, members
<1> QED
  BY <1>1, <1>2, <1>3

\* So does control_network, whichever of its arguments is given.
LEMMA ControlSays ==
  ASSUME graph \in Graph, NEW p, NEW id, control_network(p, id)
  PROVE  MoreAnswers /\ \E a : Say(a) /\ Told(a)
<1>1. \A x : \A status \in {"not_found", "scope_required"} : Told(Negative("control_network", x, status))
  BY NegativeTold DEF Tool, Status
<1> QED
  BY <1>1, NetworkSaysTold DEF control_network

\* Every step is one more answer, told as the snapshot has it.
LEMMA NextSaysTold ==
  ASSUME graph \in Graph, Next
  PROVE  MoreAnswers /\ \E a : Say(a) /\ Told(a)
BY ResolveSays, TraceSays, AddressSays, OwnershipSays, DiffSays, SistersSay, ControlSays DEF Next

\* What an answer says stays said: no step changes the snapshot.
LEMMA ToldStays ==
  ASSUME NEW a, Told(a), NEW i, answers'[i] = a, graph' = graph
  PROVE  Told(answers[i])'
<1>1. \A l, kinds : Others(l, kinds)' = Others(l, kinds)
  BY DEF Others
<1>2. \A l : Connections(l)' = Connections(l)
  BY DEF Connections
<1>3. TypedAnswer(answers[i])'
  BY DEF Told, TypedAnswer
<1>4. EdgesTold(answers[i])'
  BY <1>1, <1>2 DEF Told, EdgesTold, Collected
<1> QED
  BY <1>3, <1>4 DEF Told

\* What holds of the conversation besides IInv.
ToldInv ==
  /\ graph \in Graph
  /\ Len(answers) <= MaxAnswers
  /\ \A i \in DOMAIN answers : Told(answers[i])

\* ToldInv is inductive beside IInv.
LEMMA ToldInvariance == Spec => []ToldInv
<1>1. Init => ToldInv
  <2> SUFFICES ASSUME Init PROVE ToldInv
    OBVIOUS
  <2>1. answers = <<>> /\ DOMAIN answers = {} /\ Len(answers) = 0
    BY DEF Init
  <2>2. graph \in Graph /\ 0 <= MaxAnswers
    BY RecordsAssumption DEF Init
  <2> QED
    BY <2>1, <2>2 DEF ToldInv
<1>2. IInv /\ ToldInv /\ [Next]_vars => ToldInv'
  <2> SUFFICES ASSUME IInv, ToldInv, [Next]_vars PROVE ToldInv'
    OBVIOUS
  <2>1. CASE Next
    <3>1. PICK a : MoreAnswers /\ Say(a) /\ Told(a)
      BY <2>1, NextSaysTold DEF ToldInv
    <3>2. /\ graph' = graph /\ Len(answers) \in Nat /\ DOMAIN answers = 1..Len(answers)
          /\ DOMAIN answers' = 1..(Len(answers) + 1)
          /\ \A i \in DOMAIN answers : answers'[i] = answers[i]
          /\ answers'[Len(answers) + 1] = a
          /\ answers' \in Seq({answers'[i] : i \in DOMAIN answers'})
      BY <3>1, SayAppends
    <3>3. Len(answers') <= MaxAnswers
      <4>1. Len(answers') \in Nat /\ DOMAIN answers' = 1..Len(answers')
        BY <3>2, LenProperties
      <4>2. Len(answers') = Len(answers) + 1
        BY <3>2, <4>1
      <4> QED
        BY <3>1, <3>2, <4>2, RecordsAssumption DEF MoreAnswers
    <3>4. ASSUME NEW i \in DOMAIN answers' PROVE Told(answers[i])'
      <4>1. i \in 1..Len(answers) \/ i = Len(answers) + 1
        BY <3>2
      <4>2. CASE i \in 1..Len(answers)
        BY <4>2, <3>2, ToldStays DEF ToldInv
      <4>3. CASE i = Len(answers) + 1
        BY <4>3, <3>1, <3>2, ToldStays
      <4> QED
        BY <4>1, <4>2, <4>3
    <3> QED
      BY <3>2, <3>3, <3>4 DEF ToldInv
  <2>2. CASE UNCHANGED vars
    <3>1. graph' = graph /\ answers' = answers
      BY <2>2 DEF vars
    <3>2. \A i \in DOMAIN answers : Told(answers[i])'
      BY <3>1, ToldStays DEF ToldInv
    <3> QED
      BY <3>1, <3>2 DEF ToldInv
  <2> QED
    BY <2>1, <2>2
<1> QED
  BY <1>1, <1>2, Invariance, PTL DEF Spec

\* Every list is within its tool's cap, every total a number and every verdict
\* one of names there are (the limits at the head of each tool's module).
THEOREM TypesHold == Spec => []TypeOK
<1>1. ToldInv => TypeOK
  BY DEF ToldInv, Told, TypedAnswer, TypeOK
<1> QED
  BY <1>1, ToldInvariance, PTL

\* An address shared with a landlord is a connection of its own.
LEMMA OthersConnected ==
  ASSUME graph \in Graph, NEW l \in Landlord
  PROVE  /\ IsFiniteSet(Others(l, {"address"})) /\ IsFiniteSet(Connections(l))
         /\ Cardinality(Others(l, {"address"})) <= Cardinality(Connections(l))
<1> DEFINE S == Others(l, {"address"})
           h == [o \in S |-> [ends |-> {l, o}, kind |-> "address"]]
<1>1. IsFiniteSet(S) /\ IsFiniteSet(Connections(l))
  BY Finite
<1>2. \A o \in S : o # l /\ h[o] \in Connections(l)
  BY DEF Others, Connections
<1>3. \A o, q \in S : h[o] = h[q] => o = q
  <2> SUFFICES ASSUME NEW o \in S, NEW q \in S, h[o] = h[q] PROVE o = q
    OBVIOUS
  <2>1. h[o].ends = {l, o} /\ h[q].ends = {l, q}
    OBVIOUS
  <2>2. {l, o} = {l, q}
    <3> HIDE DEF h
    <3> QED
      BY <2>1
  <2> HIDE DEF h, S
  <2> QED
    BY <1>2, <2>2
<1>4. h \in [S -> Connections(l)]
  BY <1>2
<1> HIDE DEF h, S
<1>5. h \in Injection(S, Connections(l))
  BY <1>3, <1>4 DEF Injection, IsInjective
<1>6. Cardinality(S) <= Cardinality(Connections(l))
  BY <1>1, <1>5, FS_Injection
<1> QED
  BY <1>1, <1>6 DEF S

\* "connection_edges" is the edges at the members, once more those between
\* them, for any portfolio; and no answer shows a member more shared addresses
\* than the network gives it connections (control_network,
\* shared_address_landlords).
THEOREM NetworkAddsUp == Spec => []ConnectionsAddUp
<1>1. ToldInv => ConnectionsAddUp
  <2> SUFFICES ASSUME ToldInv, NEW i \in DOMAIN answers,
                      answers[i].tool = "control_network", answers[i].status = "found"
               PROVE  LET net == answers[i]
                          members == {l \in Landlord : net.about \in graph.member[l]}
                          touching == {e \in graph.connected : e.ends \cap members # {}}
                          inner == {e \in touching : e.ends \subseteq members}
                      IN /\ net.totals.connection_edges = Cardinality(touching) + Cardinality(inner)
                         /\ \A j \in DOMAIN answers, k \in DOMAIN net.lists.members :
                              LET shown == answers[j]
                                  m == net.lists.members[k]
                              IN shown.tool = "shared_address_landlords" /\ shown.about = m.landlord
                                   /\ shown.status = "found"
                                   => Cardinality({shown.lists.connected[n] : n \in DOMAIN shown.lists.connected} \ {None})
                                        <= m.connections
    BY DEF ConnectionsAddUp
  <2>1. EdgesTold(answers[i])
    BY DEF ToldInv, Told
  <2>2. ASSUME NEW j \in DOMAIN answers, NEW k \in DOMAIN answers[i].lists.members,
               answers[j].tool = "shared_address_landlords", answers[j].status = "found",
               answers[j].about = answers[i].lists.members[k].landlord
        PROVE  Cardinality({answers[j].lists.connected[n] : n \in DOMAIN answers[j].lists.connected} \ {None})
                 <= answers[i].lists.members[k].connections
    <3> DEFINE shown == answers[j].lists.connected
               real == {shown[n] : n \in DOMAIN shown} \ {None}
               l == answers[j].about
    <3>1. EdgesTold(answers[j])
      BY DEF ToldInv, Told
    <3>2. l \in Landlord /\ real \subseteq Others(l, {"address"})
      BY <2>2, <3>1 DEF EdgesTold
    <3>3. answers[i].lists.members[k].connections = Cardinality(Connections(l))
      BY <2>1, <2>2 DEF EdgesTold
    <3>4. /\ IsFiniteSet(Others(l, {"address"})) /\ IsFiniteSet(Connections(l))
          /\ Cardinality(Others(l, {"address"})) <= Cardinality(Connections(l))
      <4>1. graph \in Graph
        BY DEF ToldInv
      <4> HIDE DEF l
      <4> QED
        BY <3>2, <4>1, OthersConnected
    <3> HIDE DEF real, l
    <3>5. /\ Cardinality(real) <= Cardinality(Others(l, {"address"}))
          /\ Cardinality(real) \in Nat /\ Cardinality(Others(l, {"address"})) \in Nat
          /\ Cardinality(Connections(l)) \in Nat
      BY <3>2, <3>4, FS_Subset, FS_CardinalityType
    <3>6. Cardinality(real) <= answers[i].lists.members[k].connections
      BY <3>3, <3>4, <3>5
    <3> QED
      BY <3>6 DEF real
  <2> QED
    BY <2>1, <2>2 DEF EdgesTold
<1> QED
  BY <1>1, ToldInvariance, PTL

-----------------------------------------------------------------------------
\* How far the totals of the traversals are from the true ones: one in which
\* nothing is found counts one, every other is counted exactly, however short
\* its list is cut (network.py, _SISTER_CYPHER and _SHARED_ADDRESS_CYPHER).
TotalsButForNone ==
  LET counted(S) == IF S = {} THEN 1 ELSE Cardinality(S)
  IN \A i \in DOMAIN answers : answers[i].status = "found" =>
       /\ answers[i].tool = "sister_buildings" =>
            /\ answers[i].totals.controller = counted(SameController(answers[i].about))
            /\ answers[i].totals.portfolio = counted(SamePortfolio(answers[i].about))
       /\ answers[i].tool = "shared_address_landlords" =>
            answers[i].totals.connected = counted(Others(answers[i].about, {"address"}))

\* A total is wrong when there is nothing to count, by one, and never else.
THEOREM OnlyNoneMiscounted == Spec => []TotalsButForNone
<1>1. \A S : Cardinality(Collected(S)) = IF S = {} THEN 1 ELSE Cardinality(S)
  BY FS_Singleton DEF Collected
<1>2. IInv /\ ToldInv => TotalsButForNone
  <2> SUFFICES ASSUME IInv, ToldInv, NEW i \in DOMAIN answers
               PROVE  AllSisters(answers[i]) /\ EdgesTold(answers[i])
    BY <1>1 DEF TotalsButForNone, AllSisters, EdgesTold
  <2> QED
    BY DEF IInv, Faithful, ToldInv, Told
<1> QED
  BY <1>2, Invariance, ToldInvariance, PTL

=============================================================================
