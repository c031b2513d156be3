------------------------- MODULE EventCounts_proofs -------------------------
(***************************************************************************)
(* The list and the aggregate count the same events.  The filter and the   *)
(* reading of a status agree, for every status map; a sum over grouped     *)
(* rows is the number of the events in the groups; so every number either  *)
(* tool reports is the number of some events of the scope, and those are   *)
(* the same ones.                                                          *)
(***************************************************************************)
EXTENDS EventCounts, FiniteSetTheorems, WellFoundedInduction, TLAPS

(***************************************************************************)
(* Induction, with a set in the place of a predicate, and the sums of      *)
(* rollup_events.                                                          *)
(***************************************************************************)

\* A set that holds 0 and with every number the next one holds all of them.
LEMMA InductionOnNat ==
  ASSUME NEW G, 0 \in G, \A n \in Nat : n \in G => n + 1 \in G
  PROVE  \A n \in Nat : n \in G
<1> DEFINE B == {n \in Nat : n \notin G}
<1> SUFFICES ASSUME B # {} PROVE FALSE
  OBVIOUS
<1>1. PICK m \in B : \A k \in B : ~ (<<k, m>> \in OpToRel(<, Nat))
  <2>1. B \subseteq Nat
    OBVIOUS
  <2> HIDE DEF B
  <2> QED BY <2>1, NatLessThanWellFounded, WFMin
<1>2. m \in Nat /\ m # 0
  OBVIOUS
<1>3. m - 1 \in Nat /\ m - 1 < m /\ (m - 1) + 1 = m
  BY <1>2
<1>4. m - 1 \notin B
  BY <1>1, <1>2, <1>3 DEF OpToRel
<1> QED BY <1>2, <1>3, <1>4

\* A set of subsets that holds the empty one, and every other with what is left
\* of it without an element, holds the whole finite set.
LEMMA InductionOnSubsets ==
  ASSUME NEW S, IsFiniteSet(S), NEW G, {} \in G,
         \A s \in SUBSET S : s # {} /\ (\A x \in s : s \ {x} \in G) => s \in G
  PROVE  S \in G
<1> DEFINE N == {n \in Nat : \A s \in SUBSET S : Cardinality(s) = n => s \in G}
<1>1. 0 \in N
  BY FS_Subset, FS_EmptySet
<1>2. ASSUME NEW n \in Nat, n \in N PROVE n + 1 \in N
  <2> SUFFICES ASSUME NEW s \in SUBSET S, Cardinality(s) = n + 1 PROVE s \in G
    OBVIOUS
  <2>1. IsFiniteSet(s) /\ s # {}
    BY FS_Subset, FS_EmptySet
  <2>2. ASSUME NEW x \in s PROVE Cardinality(s \ {x}) = n
    <3>1. Cardinality(s \ {x}) = Cardinality(s) - 1
      BY <2>1, FS_RemoveElement
    <3> QED BY <3>1
  <2> QED BY <1>2, <2>1, <2>2
<1>3. \A n \in Nat : n \in N
  <2> HIDE DEF N
  <2> QED BY <1>1, <1>2, InductionOnNat
<1> QED BY <1>3, FS_CardinalityType

\* A sum over every subset of S: a chosen element, and the sum over the rest.
Unfolded(f, S, g) ==
  g = [s \in SUBSET S |-> IF s = {} THEN 0 ELSE f[CHOOSE x \in s : TRUE] + g[s \ {CHOOSE x \in s : TRUE}]]

\* There is such a function: one is built up to a size, from the one up to the
\* size before.
LEMMA UnfoldingExists ==
  ASSUME NEW f, NEW S, IsFiniteSet(S)
  PROVE  \E g : Unfolded(f, S, g)
<1> DEFINE body(s, g) == IF s = {} THEN 0 ELSE f[CHOOSE x \in s : TRUE] + g[s \ {CHOOSE x \in s : TRUE}]
           Upto(n) == {s \in SUBSET S : Cardinality(s) <= n}
           N == {n \in Nat : \E g : g = [s \in Upto(n) |-> body(s, g)]}
<1>0. \A s \in SUBSET S : IsFiniteSet(s) /\ Cardinality(s) \in Nat /\ (Cardinality(s) = 0 <=> s = {})
  BY FS_Subset, FS_CardinalityType, FS_EmptySet
<1>1. 0 \in N
  <2> DEFINE g == [s \in Upto(0) |-> 0]
  <2>1. \A s \in Upto(0) : s = {}
    BY <1>0
  <2>2. \A s \in Upto(0) : body(s, g) = 0
    BY <2>1
  <2>3. g = [s \in Upto(0) |-> body(s, g)]
    BY <2>2
  <2> QED BY <2>3
<1>2. ASSUME NEW n \in Nat, n \in N PROVE n + 1 \in N
  <2>1. PICK g : g = [s \in Upto(n) |-> body(s, g)]
    BY <1>2
  <2> DEFINE h == [s \in Upto(n + 1) |-> body(s, g)]
  <2>2. ASSUME NEW s \in Upto(n + 1), s # {}
        PROVE  h[s \ {CHOOSE x \in s : TRUE}] = g[s \ {CHOOSE x \in s : TRUE}]
    <3> DEFINE t == s \ {CHOOSE x \in s : TRUE}
    <3>1. (CHOOSE x \in s : TRUE) \in s
      BY <2>2
    <3>2. Cardinality(t) = Cardinality(s) - 1
      BY <1>0, <3>1, FS_RemoveElement
    <3>3. t \in Upto(n) /\ t \in Upto(n + 1)
      BY <1>0, <3>2
    <3>4. h[t] = body(t, g) /\ g[t] = body(t, g)
      <4> HIDE DEF body, Upto, t
      <4> QED BY <2>1, <3>3
    <3> QED BY <3>4
  <2>3. \A s \in Upto(n + 1) : body(s, g) = body(s, h)
    <3> HIDE DEF Upto, h
    <3> QED BY <2>2
  <2>4. h = [s \in Upto(n + 1) |-> body(s, h)]
    <3> HIDE DEF body, Upto
    <3> QED BY <2>3
  <2> HIDE DEF h, body, Upto
  <2> QED BY <2>4
<1>3. \A n \in Nat : n \in N
  <2> HIDE DEF N
  <2> QED BY <1>1, <1>2, InductionOnNat
<1>4. Upto(Cardinality(S)) = SUBSET S
  BY <1>0, FS_Subset
<1>5. Cardinality(S) \in N
  <2> HIDE DEF N
  <2> QED BY <1>0, <1>3
<1>6. PICK g : g = [s \in SUBSET S |-> body(s, g)]
  BY <1>4, <1>5
<1> QED BY <1>6 DEF Unfolded

\* So a sum can be unfolded.
LEMMA SumUnfolds ==
  ASSUME NEW f, NEW S, IsFiniteSet(S)
  PROVE  \E g : Unfolded(f, S, g) /\ SumFunctionOnSet(f, S) = g[S]
<1>1. \E g : Unfolded(f, S, g)
  BY UnfoldingExists
<1> QED BY <1>1 DEF SumFunctionOnSet, FoldFunctionOnSet, MapThenFoldSet, Unfolded

\* A sum of the sizes of disjoint parts is the size of the whole.
LEMMA SumOfParts ==
  ASSUME NEW f, NEW S, IsFiniteSet(S), NEW part,
         \A x \in S : IsFiniteSet(part[x]) /\ f[x] = Cardinality(part[x]),
         \A x, y \in S : x # y => part[x] \cap part[y] = {},
         NEW all, \A e : e \in all <=> \E x \in S : e \in part[x]
  PROVE  SumFunctionOnSet(f, S) = Cardinality(all)
<1>1. PICK g : Unfolded(f, S, g) /\ SumFunctionOnSet(f, S) = g[S]
  BY SumUnfolds
<1> DEFINE whole(s) == UNION {part[x] : x \in s}
           G == {s \in SUBSET S : IsFiniteSet(whole(s)) /\ g[s] = Cardinality(whole(s))}
<1>2. \A s \in SUBSET S : g[s] = IF s = {} THEN 0 ELSE f[CHOOSE x \in s : TRUE] + g[s \ {CHOOSE x \in s : TRUE}]
  BY <1>1 DEF Unfolded
<1>3. {} \in G
  <2>1. whole({}) = {}
    OBVIOUS
  <2>2. g[{}] = 0
    BY <1>2
  <2> QED BY <2>1, <2>2, FS_EmptySet
<1>4. ASSUME NEW s \in SUBSET S, \A x \in s : s \ {x} \in G, s # {} PROVE s \in G
  <2> DEFINE x == CHOOSE y \in s : TRUE
             rest == s \ {x}
  <2>1. x \in s /\ x \in S /\ rest \in G
    BY <1>4
  <2>2. g[s] = Cardinality(part[x]) + Cardinality(whole(rest))
    BY <1>2, <1>4, <2>1
  <2>3. whole(s) = part[x] \cup whole(rest)
    <3>1. s = rest \cup {x}
      BY <2>1
    <3> HIDE DEF x, rest
    <3> QED BY <3>1
  <2>4. part[x] \cap whole(rest) = {}
    <3>1. \A y \in rest : part[x] \cap part[y] = {}
      BY <2>1
    <3> QED BY <3>1
  <2>5. IsFiniteSet(part[x]) /\ IsFiniteSet(whole(rest))
    BY <2>1
  <2>6. /\ IsFiniteSet(whole(s))
        /\ Cardinality(whole(s)) = Cardinality(part[x]) + Cardinality(whole(rest))
    <3> HIDE DEF whole, x, rest
    <3>1. Cardinality(part[x]) \in Nat /\ Cardinality(whole(rest)) \in Nat
      BY <2>5, FS_CardinalityType
    <3>2. /\ IsFiniteSet(part[x] \cup whole(rest))
          /\ Cardinality(part[x] \cup whole(rest))
               = Cardinality(part[x]) + Cardinality(whole(rest)) - Cardinality(part[x] \cap whole(rest))
      BY <2>5, FS_Union
    <3>3. Cardinality(part[x] \cap whole(rest)) = 0
      BY <2>4, FS_EmptySet, Zenon
    <3>4. Cardinality(part[x] \cup whole(rest)) = Cardinality(part[x]) + Cardinality(whole(rest))
      BY <3>1, <3>2, <3>3
    <3> QED BY <2>3, <3>2, <3>4, Zenon
  <2> QED BY <2>2, <2>6
<1>5. S \in G
  <2> HIDE DEF G
  <2> QED BY <1>3, <1>4, InductionOnSubsets
<1>6. all = whole(S)
  OBVIOUS
<1> QED BY <1>1, <1>5, <1>6

-----------------------------------------------------------------------------
\* A word of the map that means one of the wanted statuses is looked for, and
\* no other word is.
LEMMA FilterWords ==
  ASSUME NEW p \in Pairs, NEW wanted, NEW word
  PROVE  /\ word \in status_filter(p, wanted).prefixes <=>
              p = Litigation /\ word \in Keys(p) /\ StatusOf[p][word] \in wanted
         /\ word \in status_filter(p, wanted).exact <=>
              p # Litigation /\ word \in Keys(p) /\ StatusOf[p][word] \in wanted
<1>1. p # Litigation => Keys(p) \subseteq ListedRaw[p]
  BY VocabularyAssumption
<1> QED BY <1>1 DEF status_filter

\* A column that holds nothing is selected exactly when NOT_RECORDED is asked for.
LEMMA NullSelected ==
  ASSUME NEW p \in Pairs, NEW wanted
  PROVE  Selects(status_filter(p, wanted), Null) <=> canonical_status(p, Null) \in wanted
BY DEF Selects, status_filter, canonical_status

\* lookup_building_events and aggregate_building_events count the same events:
\* the filter selects a tidy raw status exactly when it is read as one of the
\* wanted ones, as long as UNKNOWN, which cannot be looked for, is not wanted.
THEOREM FilterAgrees ==
  ASSUME NEW p \in Pairs, NEW raw \in Raw, TidyRaw(p, raw),
         NEW wanted, "UNKNOWN" \notin wanted
  PROVE  Selects(status_filter(p, wanted), raw) <=> canonical_status(p, raw) \in wanted
<1>1. CASE raw = Null
  BY <1>1, NullSelected
<1>2. CASE raw \in Recorded
  <2>1. raw \notin {Null, Blank}
    BY <1>2, VocabularyAssumption
  <2>2. Selects(status_filter(p, wanted), raw)
          <=> Known(p, raw) /\ StatusOf[p][raw.word] \in wanted
    <3>1. raw.as \in Writings /\ raw.as.tail \in {"none", "apart", "attached"}
      BY <1>2, VocabularyAssumption DEF Recorded
    <3>2. CASE p = Litigation
      BY <2>1, <3>1, <3>2, FilterWords DEF Selects, Begins, Known, TidyRaw
    <3>3. CASE p # Litigation
      BY <2>1, <3>3, FilterWords DEF Selects, IsWhole, Known, TidyRaw
    <3> QED BY <3>2, <3>3
  <2> QED BY <2>1, <2>2 DEF canonical_status
<1> QED BY <1>1, <1>2 DEF TidyRaw, Raw

\* What the prefix match adds to the reading: of the values read as UNKNOWN, the
\* lists of named statuses select just the court filings that start with a word
\* of such a status and go on without a blank.
THEOREM UnknownSelected ==
  ASSUME NEW p \in Pairs, NEW raw \in Recorded, canonical_status(p, raw) = "UNKNOWN",
         NEW wanted, "UNKNOWN" \notin wanted
  PROVE  Selects(status_filter(p, wanted), raw) <=>
           /\ p = Litigation /\ ~raw.as.led /\ raw.as.tail = "attached"
           /\ raw.word \in Keys(p) /\ StatusOf[p][raw.word] \in wanted
<1>1. raw \notin {Null, Blank}
  BY VocabularyAssumption
<1>2. raw.as.tail \in {"none", "apart", "attached"}
  BY VocabularyAssumption DEF Recorded
<1>3. CASE p = Litigation
  BY <1>1, <1>2, <1>3, FilterWords DEF canonical_status, Known, Selects, Begins
<1>4. CASE p # Litigation
  BY <1>1, <1>4, FilterWords DEF canonical_status, Known, Selects, IsWhole
<1> QED BY <1>3, <1>4

-----------------------------------------------------------------------------
\* A filter selects what is read as one of the wanted statuses, whatever is
\* written around the word and whatever is wanted, and of court filings at most
\* something that is read as UNKNOWN besides.
LEMMA FilterSound ==
  ASSUME NEW p \in Pairs, NEW raw \in Raw, NEW wanted, Selects(status_filter(p, wanted), raw)
  PROVE  \/ canonical_status(p, raw) \in wanted
         \/ p = Litigation /\ canonical_status(p, raw) = "UNKNOWN"
<1>1. CASE raw \in {Null, Blank}
  BY <1>1 DEF Selects, status_filter, canonical_status
<1>2. CASE raw \notin {Null, Blank} /\ p = Litigation
  BY <1>2, FilterWords DEF Selects, canonical_status, Known
<1>3. CASE raw \notin {Null, Blank} /\ p # Litigation
  BY <1>3, FilterWords DEF Selects, IsWhole, canonical_status, Known
<1> QED BY <1>1, <1>2, <1>3

\* A raw value has one status.
LEMMA StatusTyped ==
  ASSUME NEW p \in Pairs, NEW raw \in Raw
  PROVE  canonical_status(p, raw) \in Status
BY VocabularyAssumption DEF canonical_status, Known, Status, Mapped

-----------------------------------------------------------------------------
(***************************************************************************)
(* The graph, and the events behind some rows.                             *)
(***************************************************************************)
GraphTyped ==
  /\ pair \in Pairs /\ found \in BOOLEAN
  /\ DOMAIN graph \subseteq Events
  /\ graph \in [DOMAIN graph -> [status : Raw, cls : Classes \cup {Null}]]

Group(row) == {e \in DOMAIN graph : graph[e].status = row.status /\ graph[e].cls = row.cls}
EventsOf(rows) == UNION {Group(row) : row \in rows}

\* Subsets of the scope are finite, and no larger than the scope may be.
LEMMA ScopeFinite ==
  ASSUME GraphTyped, NEW s \in SUBSET DOMAIN graph
  PROVE  IsFiniteSet(s) /\ Cardinality(s) \in 0..Cardinality(Events)
<1>1. s \in SUBSET Events /\ IsFiniteSet(Events)
  BY CountsAssumption DEF GraphTyped
<1>2. IsFiniteSet(s) /\ Cardinality(s) <= Cardinality(Events)
  BY <1>1, FS_Subset
<1>3. Cardinality(s) \in Nat /\ Cardinality(Events) \in Nat
  BY <1>1, <1>2, FS_CardinalityType
<1> QED BY <1>2, <1>3

\* A row counts the events of its group.
LEMMA RowCountsGroup ==
  ASSUME GraphTyped, NEW class, NEW row \in Rows(class)
  PROVE  /\ row.c = Cardinality(Group(row))
         /\ row = [status |-> row.status, cls |-> row.cls, c |-> Cardinality(Group(row))]
         /\ Group(row) \subseteq OfClass(class)
<1>1. PICK e \in OfClass(class) :
        row = [status |-> graph[e].status, cls |-> graph[e].cls,
               c |-> Cardinality({d \in DOMAIN graph : graph[d] = graph[e]})]
  BY DEF Rows
<1>2. \A d \in DOMAIN graph : graph[d] = [status |-> graph[d].status, cls |-> graph[d].cls]
  BY DEF GraphTyped
<1>3. {d \in DOMAIN graph : graph[d] = graph[e]} = Group(row)
  BY <1>1, <1>2 DEF Group, OfClass
<1>4. Group(row) \subseteq OfClass(class)
  BY <1>1 DEF Group, OfClass
<1> QED BY <1>1, <1>3, <1>4

\* There are no more rows than events, so there are finitely many.
LEMMA RowsFinite ==
  ASSUME GraphTyped, NEW class
  PROVE  IsFiniteSet(Rows(class))
<1> DEFINE row(e) == [status |-> graph[e].status, cls |-> graph[e].cls,
                      c |-> Cardinality({d \in DOMAIN graph : graph[d] = graph[e]})]
           h == [e \in OfClass(class) |-> row(e)]
<1>1. IsFiniteSet(OfClass(class))
  BY ScopeFinite DEF OfClass
<1>2. Rows(class) = {row(e) : e \in OfClass(class)}
  BY DEF Rows
<1>3. h \in Surjection(OfClass(class), Rows(class))
  <2> HIDE DEF row
  <2> QED BY <1>2 DEF Surjection
<1> QED BY <1>1, <1>3, FS_Surjection

\* The sum over some rows is the number of the events behind them.
LEMMA TotalCountsEvents ==
  ASSUME GraphTyped, NEW class, NEW rows \in SUBSET Rows(class)
  PROVE  Total(rows) = Cardinality(EventsOf(rows))
<1> DEFINE f == [row \in rows |-> row.c]
           part == [row \in rows |-> Group(row)]
<1>1. IsFiniteSet(rows)
  BY RowsFinite, FS_Subset
<1>2. ASSUME NEW x \in rows PROVE IsFiniteSet(part[x]) /\ f[x] = Cardinality(part[x])
  <2>1. IsFiniteSet(Group(x))
    BY ScopeFinite DEF Group
  <2> QED BY <2>1, RowCountsGroup
<1>3. ASSUME NEW x \in rows, NEW y \in rows, x # y PROVE part[x] \cap part[y] = {}
  <2>1. /\ x = [status |-> x.status, cls |-> x.cls, c |-> Cardinality(Group(x))]
        /\ y = [status |-> y.status, cls |-> y.cls, c |-> Cardinality(Group(y))]
    BY RowCountsGroup
  <2>2. ASSUME x.status = y.status, x.cls = y.cls PROVE x = y
    <3>1. Group(x) = Group(y)
      BY <2>2 DEF Group
    <3> QED BY <2>1, <2>2, <3>1
  <2> QED BY <1>3, <2>2 DEF Group
<1>4. \A e : e \in EventsOf(rows) <=> \E x \in rows : e \in part[x]
  BY DEF EventsOf
<1>5. SumFunctionOnSet(f, rows) = Cardinality(EventsOf(rows))
  <2> HIDE DEF f, part
  <2>1. \A x \in rows : IsFiniteSet(part[x]) /\ f[x] = Cardinality(part[x])
    BY <1>2
  <2>2. \A x, y \in rows : x # y => part[x] \cap part[y] = {}
    BY <1>3
  <2> QED BY <1>1, <1>4, <2>1, <2>2, SumOfParts
<1> QED BY <1>5 DEF Total

\* What a rollup has under a status or a class are the events of it.
LEMMA PartsCounted ==
  ASSUME GraphTyped, NEW class, NEW rows \in SUBSET Rows(class)
  PROVE  /\ \A statuses : Total(InStatus(rows, statuses))
              = Cardinality({e \in EventsOf(rows) : canonical_status(pair, graph[e].status) \in statuses})
         /\ \A k : Total(InClass(rows, k)) = Cardinality({e \in EventsOf(rows) : graph[e].cls = k})
<1>1. ASSUME NEW statuses
      PROVE  Total(InStatus(rows, statuses))
               = Cardinality({e \in EventsOf(rows) : canonical_status(pair, graph[e].status) \in statuses})
  <2>1. InStatus(rows, statuses) \in SUBSET Rows(class)
    BY DEF InStatus
  <2>2. EventsOf(InStatus(rows, statuses))
          = {e \in EventsOf(rows) : canonical_status(pair, graph[e].status) \in statuses}
    BY DEF EventsOf, InStatus, Group
  <2> QED BY <2>1, <2>2, TotalCountsEvents
<1>2. ASSUME NEW k
      PROVE  Total(InClass(rows, k)) = Cardinality({e \in EventsOf(rows) : graph[e].cls = k})
  <2>1. InClass(rows, k) \in SUBSET Rows(class)
    BY DEF InClass
  <2>2. EventsOf(InClass(rows, k)) = {e \in EventsOf(rows) : graph[e].cls = k}
    BY DEF EventsOf, InClass, Group
  <2> QED BY <2>1, <2>2, TotalCountsEvents
<1> QED BY <1>1, <1>2

\* So it is a number.
LEMMA PartsNatural ==
  ASSUME GraphTyped, NEW class, NEW statuses
  PROVE  Total(InStatus(Rows(class), statuses)) \in Nat
<1> DEFINE part == {e \in EventsOf(Rows(class)) : canonical_status(pair, graph[e].status) \in statuses}
<1>1. Total(InStatus(Rows(class), statuses)) = Cardinality(part)
  BY PartsCounted
<1>2. part \in SUBSET DOMAIN graph
  BY DEF EventsOf, Group
<1> HIDE DEF part
<1>3. IsFiniteSet(part)
  BY <1>2, ScopeFinite
<1> QED BY <1>1, <1>3, FS_CardinalityType

\* All the rows are all the events, and less than all the rows are fewer events:
\* no group is empty.
LEMMA RowsCoverScope ==
  ASSUME GraphTyped, NEW class, NEW rows \in SUBSET Rows(class)
  PROVE  /\ EventsOf(rows) \subseteq OfClass(class)
         /\ EventsOf(rows) = OfClass(class) <=> rows = Rows(class)
<1>1. EventsOf(rows) \subseteq OfClass(class)
  BY RowCountsGroup DEF EventsOf
<1>2. ASSUME NEW e \in OfClass(class)
      PROVE  \E row \in Rows(class) : e \in Group(row)
  <2> DEFINE row == [status |-> graph[e].status, cls |-> graph[e].cls,
                     c |-> Cardinality({d \in DOMAIN graph : graph[d] = graph[e]})]
  <2>1. row \in Rows(class)
    BY DEF Rows
  <2>2. e \in Group(row)
    BY DEF Group, OfClass
  <2> QED BY <2>1, <2>2
<1>3. ASSUME NEW row \in Rows(class), EventsOf(rows) = OfClass(class) PROVE row \in rows
  <2>1. PICK e \in OfClass(class) :
          row = [status |-> graph[e].status, cls |-> graph[e].cls,
                 c |-> Cardinality({d \in DOMAIN graph : graph[d] = graph[e]})]
    BY DEF Rows
  <2>2. PICK other \in rows : e \in Group(other)
    BY <1>3, <2>1 DEF EventsOf
  <2>3. other.status = row.status /\ other.cls = row.cls
    BY <2>1, <2>2 DEF Group
  <2>4. Group(other) = Group(row)
    BY <2>3 DEF Group
  <2>5. other = row
    <3>1. /\ row = [status |-> row.status, cls |-> row.cls, c |-> Cardinality(Group(row))]
          /\ other = [status |-> other.status, cls |-> other.cls, c |-> Cardinality(Group(other))]
      BY RowCountsGroup
    <3> QED BY <2>3, <2>4, <3>1
  <2> QED BY <2>2, <2>5
<1>4. rows = Rows(class) => EventsOf(rows) = OfClass(class)
  BY <1>1, <1>2 DEF EventsOf
<1> QED BY <1>1, <1>3, <1>4

-----------------------------------------------------------------------------
(***************************************************************************)
(* Either answer is one the tool computed from this graph, which no tool   *)
(* changes.                                                                *)
(***************************************************************************)
AggregateTold ==
  \/ counted \in {NotAsked, NotFound, InvalidFilter}
  \/ \E class \in Classes \cup {Every} : \E rows \in Fetched(Rows(class)) : counted = Counts(class, rows)

ListTold ==
  \/ listed = NotAsked
  \/ \E p \in {pair} \cup Impossible, q \in Status \cup {Every, Misspelt}, class \in Classes \cup {Every} :
       listed = ListAnswer(p, q, class)

IInv == GraphTyped /\ AggregateTold /\ ListTold

\* On the same graph the tools would answer the same.
LEMMA GraphUnchanged ==
  ASSUME UNCHANGED <<pair, graph, found>>
  PROVE  /\ GraphTyped <=> GraphTyped'
         /\ \A class : Rows(class)' = Rows(class)
         /\ \A class, rows : Counts(class, rows)' = Counts(class, rows)
         /\ \A p, q, class : ListAnswer(p, q, class)' = ListAnswer(p, q, class)
<1>1. GraphTyped <=> GraphTyped'
  BY DEF GraphTyped
<1>2. \A class : OfClass(class)' = OfClass(class)
  BY DEF OfClass
<1>3. \A class : Rows(class)' = Rows(class)
  BY <1>2 DEF Rows
<1>4. \A rows, statuses : InStatus(rows, statuses)' = InStatus(rows, statuses)
  BY DEF InStatus
<1>5. \A rows : rollup_events(rows)' = rollup_events(rows)
  BY <1>4 DEF rollup_events, InClass, Total
<1>6. \A class, rows : Counts(class, rows)' = Counts(class, rows)
  BY <1>3, <1>5 DEF Counts
<1>7. \A q, class : Matching(q, class)' = Matching(q, class)
  BY <1>2 DEF Matching
<1>8. \A p, q, class : ListAnswer(p, q, class)' = ListAnswer(p, q, class)
  BY <1>7 DEF ListAnswer, Capped, InvalidFilter, NotFound
<1> QED BY <1>1, <1>3, <1>6, <1>8

\* Every answer is one of the tool that gave it, on the graph as it still is.
THEOREM Inductive == Spec => []IInv
<1>1. Init => IInv
  BY DEF Init, IInv, GraphTyped, AggregateTold, ListTold
<1>2. IInv /\ [Next]_vars => IInv'
  <2> SUFFICES ASSUME IInv, [Next]_vars PROVE IInv'
    OBVIOUS
  <2>1. UNCHANGED <<pair, graph, found>>
    BY DEF Next, Aggregate, ListEvents, vars
  <2>2. GraphTyped'
    BY <2>1, GraphUnchanged DEF IInv
  <2>3. \A class : Fetched(Rows(class))' = Fetched(Rows(class))
    BY <2>1, GraphUnchanged DEF Fetched
  <2>4. AggregateTold'
    <3>1. CASE UNCHANGED counted
      BY <2>1, <2>3, <3>1, GraphUnchanged DEF IInv, AggregateTold
    <3>2. CASE Aggregate
      <4>1. \/ counted' \in {NotFound, InvalidFilter}
            \/ \E class \in Classes \cup {Every} :
                 \E rows \in Fetched(Rows(class)) : counted' = Counts(class, rows)
        BY <3>2 DEF Aggregate, AggregateAnswer
      <4> QED BY <2>1, <2>3, <4>1, GraphUnchanged DEF AggregateTold
    <3> QED BY <3>1, <3>2 DEF Next, ListEvents, vars
  <2>5. ListTold'
    <3>1. CASE UNCHANGED listed
      BY <2>1, <3>1, GraphUnchanged DEF IInv, ListTold
    <3>2. CASE ListEvents
      BY <2>1, <3>2, GraphUnchanged DEF ListTold, ListEvents
    <3> QED BY <3>1, <3>2 DEF Next, Aggregate, vars
  <2> QED BY <2>2, <2>4, <2>5 DEF IInv
<1> QED BY <1>1, <1>2, PTL DEF Spec

\* An aggregate that counted is a rollup of rows of its class: all of them, if
\* they fit under the cap, and then nothing was truncated.
LEMMA CountedRows ==
  ASSUME IInv, Counted
  PROVE  \E class \in Classes \cup {Every} : \E rows \in SUBSET Rows(class) :
           /\ counted.class = class /\ counted.rollup = rollup_events(rows)
           /\ counted.truncated <=> rows # Rows(class)
           /\ Cardinality(Rows(class)) <= RowCap => rows = Rows(class)
<1>1. PICK class \in Classes \cup {Every} :
        \E rows \in Fetched(Rows(class)) : counted = Counts(class, rows)
  BY DEF IInv, AggregateTold, Counted, NotAsked, NotFound, InvalidFilter
<1>2. PICK rows \in Fetched(Rows(class)) : counted = Counts(class, rows)
  BY <1>1
<1>3. rows \in SUBSET Rows(class) /\ (Cardinality(Rows(class)) <= RowCap => rows = Rows(class))
  BY DEF Fetched, kSubset
<1>4. /\ counted.class = class /\ counted.rollup = rollup_events(rows)
      /\ counted.truncated <=> rows # Rows(class)
  BY <1>2 DEF Counts
<1> QED BY <1>3, <1>4

\* A list that was given shows the number of matching events.
LEMMA ListedMatches ==
  ASSUME IInv, Listed
  PROVE  \E q \in Status \cup {Every}, class \in Classes \cup {Every} :
           /\ listed.status = q /\ listed.class = class
           /\ listed.total = Cardinality(Matching(q, class))
           /\ listed.shown = Capped(listed.total)
<1>1. PICK p \in {pair} \cup Impossible, q \in Status \cup {Every, Misspelt}, class \in Classes \cup {Every} :
        listed = ListAnswer(p, q, class)
  BY DEF IInv, ListTold, Listed, NotAsked
<1>2. q # Misspelt /\ p \in Pairs /\ found
  BY <1>1 DEF Listed, ListAnswer, InvalidFilter, NotFound
<1>3. /\ listed.status = q /\ listed.class = class
      /\ listed.total = Cardinality(Matching(q, class))
      /\ listed.shown = Capped(listed.total)
  BY <1>1, <1>2 DEF ListAnswer
<1> QED BY <1>2, <1>3

\* Every answer is a number of events of the scope, and a list shows at most
\* its limit.
THEOREM TypesHold == Spec => []TypeOK
<1>1. IInv => TypeOK
  <2> SUFFICES ASSUME IInv PROVE TypeOK
    OBVIOUS
  <2>1. GraphTyped
    BY DEF IInv
  <2>2. ASSUME Counted PROVE counted.rollup.total \in 0..Cardinality(Events)
    <3>1. PICK class, rows : rows \in SUBSET Rows(class) /\ counted.rollup = rollup_events(rows)
      BY <2>2, CountedRows
    <3>2. rows \in SUBSET Rows(class)
      BY <3>1
    <3>3. EventsOf(rows) \subseteq OfClass(class) /\ Total(rows) = Cardinality(EventsOf(rows))
      BY <2>1, <3>2, RowsCoverScope, TotalCountsEvents
    <3>4. Total(rows) \in 0..Cardinality(Events)
      BY <2>1, <3>3, ScopeFinite DEF OfClass
    <3> QED BY <3>1, <3>4 DEF rollup_events
  <2>3. ASSUME Listed PROVE listed.total \in 0..Cardinality(Events) /\ listed.shown \in 0..Limit
    <3>1. PICK q, class : listed.total = Cardinality(Matching(q, class)) /\ listed.shown = Capped(listed.total)
      BY <2>3, ListedMatches
    <3>2. Matching(q, class) \in SUBSET DOMAIN graph
      BY DEF Matching, OfClass
    <3>3. IsFiniteSet(Events)
      BY CountsAssumption
    <3>4. listed.total \in 0..Cardinality(Events) /\ Cardinality(Events) \in Nat
      BY <2>1, <3>1, <3>2, <3>3, ScopeFinite, FS_CardinalityType
    <3>5. Capped(listed.total) \in 0..Limit
      BY <3>4, CountsAssumption DEF Capped
    <3> QED BY <3>1, <3>4, <3>5
  <2> QED BY <2>1, <2>2, <2>3 DEF TypeOK, GraphTyped
<1> QED BY <1>1, Inductive, PTL

\* What a list of one status matches is, for a complete aggregate, just what that
\* has under the status when the values are tidy; otherwise it is at most that,
\* and of court filings at most that and what is under UNKNOWN.
LEMMA MatchingIsCounted ==
  ASSUME GraphTyped, NEW class, NEW statuses,
         NEW matching, matching = {e \in OfClass(class) : Selects(status_filter(pair, statuses), graph[e].status)}
  PROVE  /\ Tidy /\ "UNKNOWN" \notin statuses => Cardinality(matching) = Total(InStatus(Rows(class), statuses))
         /\ pair # Litigation => Cardinality(matching) <= Total(InStatus(Rows(class), statuses))
         /\ Cardinality(matching) <= Total(InStatus(Rows(class), statuses))
                                     + Total(InStatus(Rows(class), {"UNKNOWN"}))
<1> DEFINE read(s) == {e \in OfClass(class) : canonical_status(pair, graph[e].status) \in s}
           meant == read(statuses)
           unknown == read({"UNKNOWN"})
<1>1. /\ Total(InStatus(Rows(class), statuses)) = Cardinality(meant)
      /\ Total(InStatus(Rows(class), {"UNKNOWN"})) = Cardinality(unknown)
  <2>1. EventsOf(Rows(class)) = OfClass(class)
    BY RowsCoverScope
  <2> QED BY <2>1, PartsCounted
<1>2. \A e \in OfClass(class) : graph[e].status \in Raw
  BY DEF OfClass, GraphTyped
<1>3. /\ matching \subseteq meant \cup unknown
      /\ pair # Litigation => matching \subseteq meant
  BY <1>2, FilterSound DEF GraphTyped
<1>4. ASSUME Tidy, "UNKNOWN" \notin statuses PROVE matching = meant
  <2>1. \A e \in OfClass(class) : TidyRaw(pair, graph[e].status)
    BY <1>4 DEF Tidy, OfClass
  <2> QED BY <1>2, <1>4, <2>1, FilterAgrees DEF GraphTyped
<1>5. /\ IsFiniteSet(meant) /\ Cardinality(meant) \in Nat
      /\ IsFiniteSet(unknown) /\ Cardinality(unknown) \in Nat
  <2>1. meant \in SUBSET DOMAIN graph /\ unknown \in SUBSET DOMAIN graph
    BY DEF OfClass
  <2> HIDE DEF meant, unknown
  <2> QED BY <2>1, ScopeFinite
<1> HIDE DEF meant, unknown
<1>6. pair # Litigation => Cardinality(matching) <= Cardinality(meant)
  BY <1>3, <1>5, FS_Subset
<1>7. Cardinality(matching) <= Cardinality(meant) + Cardinality(unknown)
  <2>1. /\ IsFiniteSet(meant \cup unknown)
        /\ Cardinality(meant \cup unknown)
             = Cardinality(meant) + Cardinality(unknown) - Cardinality(meant \cap unknown)
    BY <1>5, FS_Union
  <2>2. Cardinality(meant \cap unknown) \in Nat
    BY <1>5, FS_Intersection, FS_CardinalityType
  <2>3. Cardinality(matching) <= Cardinality(meant \cup unknown) /\ Cardinality(matching) \in Nat
    BY <1>3, <2>1, FS_Subset, FS_CardinalityType
  <2> QED BY <1>5, <2>1, <2>2, <2>3
<1> QED BY <1>1, <1>4, <1>6, <1>7

\* A list and a complete aggregate of one class give one number for any status,
\* if the values are tidy.  Whatever they are, the list has more of court filings
\* only, and there no more than the aggregate has under UNKNOWN.
THEOREM CountsAgree == Spec => []ToolsAgree
<1>1. IInv => ToolsAgree
  <2> SUFFICES ASSUME IInv, Listed, Counted, ~counted.truncated, listed.class = counted.class
               PROVE  /\ Tidy /\ listed.status # "UNKNOWN" => listed.total = CountOf(listed.status)
                      /\ pair # Litigation => listed.total <= CountOf(listed.status)
                      /\ listed.total <= CountOf(listed.status) + CountOf("UNKNOWN")
    BY DEF ToolsAgree
  <2>1. GraphTyped
    BY DEF IInv
  <2>2. PICK q \in Status \cup {Every}, class \in Classes \cup {Every} :
          /\ listed.status = q /\ listed.class = class
          /\ listed.total = Cardinality(Matching(q, class))
    BY ListedMatches
  <2>3. counted.rollup = rollup_events(Rows(class))
    BY <2>2, CountedRows
  <2>6. CountOf("UNKNOWN") = Total(InStatus(Rows(class), {"UNKNOWN"}))
    BY <2>2, <2>3, CountsAssumption DEF CountOf, rollup_events, Status, Mapped
  <2>4. CASE q = Every
    <3>1. Matching(q, class) = OfClass(class)
      BY <2>4 DEF Matching
    <3>2. EventsOf(Rows(class)) = OfClass(class)
      BY <2>1, RowsCoverScope
    <3>3. Total(Rows(class)) = Cardinality(OfClass(class))
      BY <2>1, <3>2, TotalCountsEvents
    <3>4. Cardinality(OfClass(class)) \in Nat
      BY <2>1, ScopeFinite DEF OfClass
    <3>5. CountOf("UNKNOWN") \in Nat
      BY <2>1, <2>6, PartsNatural
    <3>6. listed.total = CountOf(listed.status)
      BY <2>2, <2>3, <2>4, <3>1, <3>3 DEF CountOf, rollup_events
    <3> QED BY <2>2, <3>1, <3>4, <3>5, <3>6
  <2>5. CASE q # Every
    <3>1. Matching(q, class) = {e \in OfClass(class) : Selects(status_filter(pair, Wanted(q)), graph[e].status)}
      BY <2>5 DEF Matching
    <3>2. CountOf(q) = Total(InStatus(Rows(class), Wanted(q)))
      BY <2>2, <2>3, <2>5 DEF CountOf, rollup_events, Wanted
    <3>3. q # "UNKNOWN" => "UNKNOWN" \notin Wanted(q)
      BY DEF Wanted, OPEN_STATUSES
    <3>4. /\ Tidy /\ "UNKNOWN" \notin Wanted(q) =>
               Cardinality(Matching(q, class)) = Total(InStatus(Rows(class), Wanted(q)))
          /\ pair # Litigation => Cardinality(Matching(q, class)) <= Total(InStatus(Rows(class), Wanted(q)))
          /\ Cardinality(Matching(q, class)) <= Total(InStatus(Rows(class), Wanted(q)))
                                               + Total(InStatus(Rows(class), {"UNKNOWN"}))
      BY <2>1, <3>1, MatchingIsCounted
    <3> QED BY <2>2, <2>6, <3>2, <3>3, <3>4
  <2> QED BY <2>4, <2>5
<1> QED BY <1>1, Inductive, PTL

\* Of a complete read, every event of the class is in the total, under exactly
\* one status, and under its class.
THEOREM NoneDropped == Spec => []NothingDropped
<1>1. IInv => NothingDropped
  <2> SUFFICES ASSUME IInv, Counted, ~counted.truncated
               PROVE  /\ counted.rollup.total = Cardinality(OfClass(counted.class))
                      /\ counted.rollup.total = SumFunctionOnSet(counted.rollup.by_status, Status)
                      /\ \A k \in Classes : counted.rollup.by_class[k].count
                           = Cardinality({e \in OfClass(counted.class) : graph[e].cls = k})
    BY DEF NothingDropped
  <2>1. GraphTyped
    BY DEF IInv
  <2>2. PICK class \in Classes \cup {Every} :
          counted.class = class /\ counted.rollup = rollup_events(Rows(class))
    BY CountedRows
  <2>3. EventsOf(Rows(class)) = OfClass(class)
    BY <2>1, RowsCoverScope
  <2>4. counted.rollup.total = Cardinality(OfClass(class))
    BY <2>1, <2>2, <2>3, TotalCountsEvents DEF rollup_events
  <2>5. SumFunctionOnSet(counted.rollup.by_status, Status) = Cardinality(OfClass(class))
    <3> DEFINE f == counted.rollup.by_status
               part == [s \in Status |-> {e \in OfClass(class) : canonical_status(pair, graph[e].status) = s}]
    <3>1. IsFiniteSet(Status)
      BY CountsAssumption
    <3>2. \A s \in Status : IsFiniteSet(part[s]) /\ f[s] = Cardinality(part[s])
      <4> SUFFICES ASSUME NEW s \in Status PROVE IsFiniteSet(part[s]) /\ f[s] = Cardinality(part[s])
        OBVIOUS
      <4>1. f[s] = Total(InStatus(Rows(class), {s}))
        BY <2>2 DEF rollup_events
      <4>2. f[s] = Cardinality({e \in OfClass(class) : canonical_status(pair, graph[e].status) \in {s}})
        BY <2>1, <2>3, <4>1, PartsCounted
      <4>3. {e \in OfClass(class) : canonical_status(pair, graph[e].status) \in {s}} = part[s]
        OBVIOUS
      <4>4. part[s] \in SUBSET DOMAIN graph
        BY DEF OfClass
      <4>5. IsFiniteSet(part[s])
        BY <2>1, <4>4, ScopeFinite
      <4> QED BY <4>2, <4>3, <4>5
    <3>3. \A s, t \in Status : s # t => part[s] \cap part[t] = {}
      OBVIOUS
    <3>4. \A e : e \in OfClass(class) <=> \E s \in Status : e \in part[s]
      BY <2>1, StatusTyped DEF OfClass, GraphTyped
    <3> HIDE DEF f, part
    <3>5. SumFunctionOnSet(f, Status) = Cardinality(OfClass(class))
      BY <3>1, <3>2, <3>3, <3>4, SumOfParts
    <3> QED BY <3>5 DEF f
  <2>6. \A k \in Classes : counted.rollup.by_class[k].count
          = Cardinality({e \in OfClass(class) : graph[e].cls = k})
    BY <2>1, <2>2, <2>3, PartsCounted DEF rollup_events
  <2> QED BY <2>2, <2>4, <2>5, <2>6
<1> QED BY <1>1, Inductive, PTL

\* What the dropped flag of the read would tell: an aggregate is truncated only
\* with more groups than the cap, and then its total always falls short.
THEOREM TruncatedFallsShort ==
  Spec => [](Counted =>
     /\ counted.truncated => Cardinality(Rows(counted.class)) > RowCap
     /\ counted.truncated <=> counted.rollup.total < Cardinality(OfClass(counted.class))
     /\ ~counted.truncated <=> counted.rollup.total = Cardinality(OfClass(counted.class)))
<1>1. ASSUME IInv, Counted
      PROVE  /\ counted.truncated => Cardinality(Rows(counted.class)) > RowCap
             /\ counted.truncated <=> counted.rollup.total < Cardinality(OfClass(counted.class))
             /\ ~counted.truncated <=> counted.rollup.total = Cardinality(OfClass(counted.class))
  <2>1. GraphTyped
    BY <1>1 DEF IInv
  <2>2. PICK class, rows :
          /\ rows \in SUBSET Rows(class)
          /\ counted.class = class /\ counted.rollup = rollup_events(rows)
          /\ counted.truncated <=> rows # Rows(class)
          /\ Cardinality(Rows(class)) <= RowCap => rows = Rows(class)
    BY <1>1, CountedRows
  <2>3. counted.rollup.total = Cardinality(EventsOf(rows))
    BY <2>1, <2>2, TotalCountsEvents DEF rollup_events
  <2>4. EventsOf(rows) \in SUBSET OfClass(class) /\ (EventsOf(rows) = OfClass(class) <=> rows = Rows(class))
    <3>1. rows \in SUBSET Rows(class)
      BY <2>2
    <3> QED BY <2>1, <3>1, RowsCoverScope
  <2>5. /\ IsFiniteSet(OfClass(class)) /\ IsFiniteSet(EventsOf(rows))
        /\ Cardinality(OfClass(class)) \in Nat /\ Cardinality(EventsOf(rows)) \in Nat
    BY <2>1, <2>4, ScopeFinite DEF OfClass
  <2>6. /\ Cardinality(EventsOf(rows)) <= Cardinality(OfClass(class))
        /\ Cardinality(EventsOf(rows)) = Cardinality(OfClass(class)) <=> EventsOf(rows) = OfClass(class)
    BY <2>4, <2>5, FS_Subset
  <2>7. Cardinality(Rows(class)) \in Nat
    BY <2>1, RowsFinite, FS_CardinalityType
  <2> QED BY <2>2, <2>3, <2>4, <2>5, <2>6, <2>7, CountsAssumption
<1>2. IInv => (Counted =>
         /\ counted.truncated => Cardinality(Rows(counted.class)) > RowCap
         /\ counted.truncated <=> counted.rollup.total < Cardinality(OfClass(counted.class))
         /\ ~counted.truncated <=> counted.rollup.total = Cardinality(OfClass(counted.class)))
  BY <1>1
<1> QED BY <1>2, Inductive, PTL

=============================================================================
