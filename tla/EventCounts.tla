---------------------------- MODULE EventCounts ----------------------------
(***************************************************************************)
(* Two tools over the same events: the list of those with a status         *)
(* (lookup_building_events, watchline/discovery/agent/tools/building.py)   *)
(* and the aggregate over a building, a landlord or a portfolio            *)
(* (aggregate_building_events, aggregate_landlord_portfolio_events), which *)
(* reads grouped rows through db.read and rolls them up in Python          *)
(* (tools/_events.py).  A user asks one, then the other, and expects the   *)
(* numbers to agree.                                                       *)
(*                                                                         *)
(* Abstracted: dates, the scope's own record and the rendering.  The graph *)
(* is a snapshot that does not change while the program runs.              *)
(***************************************************************************)
EXTENDS Integers, EventVocabulary, FiniteSetsExt

CONSTANTS
  Impossible,       \* combinations of a source and an event type that are no pair
  Every,            \* no status, or no class, is asked for
  Misspelt,         \* a status there is not
  Events,           \* events of the scope, at most
  Classes,          \* violation classes
  RowCap,           \* DEFAULT_ROW_CAP
  Limit             \* how many events a list shows

ASSUME CountsAssumption ==
  /\ IsFiniteSet(Events) /\ IsFiniteSet(Status)
  /\ RowCap \in Nat \ {0} /\ Limit \in Nat \ {0}
  /\ Null \notin Classes /\ Every \notin Classes
  /\ Impossible \cap Pairs = {} /\ {Every, Misspelt} \cap Status = {}

VARIABLES
  pair,             \* the source and event type asked about
  graph,            \* status and class of each event of the scope
  found,            \* whether the graph has the scope
  counted,          \* the aggregate's answer, once asked
  listed            \* the last answer of the list, and the status it was for
vars == <<pair, graph, found, counted, listed>>

-----------------------------------------------------------------------------
(***************************************************************************)
(* Rows: the database groups by raw status and class.                      *)
(***************************************************************************)
OfClass(class) == {e \in DOMAIN graph : class \in {Every, graph[e].cls}}
Rows(class) == {[status |-> r.status, cls |-> r.cls,
                 c |-> Cardinality({e \in DOMAIN graph : graph[e] = r})]
                  : r \in {graph[e] : e \in OfClass(class)}}

\* read: rows come in no order; of more than the cap, some do not come.
Fetched(rows) == IF Cardinality(rows) <= RowCap THEN {rows} ELSE kSubset(RowCap, rows)

Total(rows) == SumFunctionOnSet([row \in rows |-> row.c], rows)
InStatus(rows, statuses) == {row \in rows : canonical_status(pair, row.status) \in statuses}
InClass(rows, class) == {row \in rows : row.cls = class}

OnlyKnown(rows) ==                 \* mutant: unrecognised statuses are skipped
  LET known == {row \in rows : canonical_status(pair, row.status) # "UNKNOWN"} IN
    [total |-> Total(rows),
     by_status |-> [s \in Status |-> Total(InStatus(known, {s}))],
     open_count |-> Total(InStatus(known, OPEN_STATUSES)),
     by_class |-> [k \in Classes |-> [count |-> Total(InClass(known, k)),
                                      open_count |-> Total(InStatus(InClass(known, k), OPEN_STATUSES))]]]

rollup_events(rows) ==
  [total |-> Total(rows),
   by_status |-> [s \in Status |-> Total(InStatus(rows, {s}))],
   open_count |-> Total(InStatus(rows, OPEN_STATUSES)),
   by_class |-> [k \in Classes |-> [count |-> Total(InClass(rows, k)),
                                    open_count |-> Total(InStatus(InClass(rows, k), OPEN_STATUSES))]]]

-----------------------------------------------------------------------------
NotAsked == [asked |-> FALSE]
NotFound == [asked |-> TRUE, found |-> FALSE, invalid |-> FALSE]
InvalidFilter == [asked |-> TRUE, found |-> FALSE, invalid |-> TRUE]

Init ==
  /\ pair \in Pairs
  /\ \E there \in SUBSET Events :
       graph \in [there -> [status : Raw, cls : Classes \cup {Null}]]
  /\ found \in BOOLEAN /\ (~found => DOMAIN graph = {})
  /\ counted = NotAsked
  /\ listed = NotAsked

Counts(class, rows) ==
  [asked |-> TRUE, found |-> TRUE, class |-> class, rollup |-> rollup_events(rows),
   truncated |-> rows # Rows(class)]

\* No rows may mean no events or no such scope.
AggregateAnswer(class, rows) == IF rows = {} /\ ~found THEN NotFound ELSE Counts(class, rows)

\* The aggregate.  The truncated flag of the read stays behind: it is kept here
\* for the properties only.
Aggregate ==
  /\ ~counted.asked
  /\ \E p \in {pair} \cup Impossible, class \in Classes \cup {Every} :
       IF p \notin Pairs THEN counted' = InvalidFilter
       ELSE \E rows \in Fetched(Rows(class)) : counted' = AggregateAnswer(class, rows)
  /\ UNCHANGED <<pair, graph, found, listed>>

\* _resolve_statuses: "open", in any case, stands for what is outstanding, any
\* other word for the status of that name.
Wanted(q) == IF q = "OPEN" THEN OPEN_STATUSES ELSE {q}
Matching(q, class) ==
  {e \in OfClass(class) : q = Every \/ Selects(status_filter(pair, Wanted(q)), graph[e].status)}

Uncapped(n) == n                   \* mutant: the list has no limit
Capped(n) == IF n < Limit THEN n ELSE Limit

ListAnswer(p, q, class) ==
  LET total == Cardinality(Matching(q, class)) IN
    IF p \notin Pairs \/ q = Misspelt THEN InvalidFilter
    ELSE IF ~found THEN NotFound
    ELSE [asked |-> TRUE, found |-> TRUE, status |-> q, class |-> class, total |-> total,
          shown |-> Capped(total), truncated |-> total > Capped(total)]

ListEvents ==
  /\ \E p \in {pair} \cup Impossible, q \in Status \cup {Every, Misspelt}, class \in Classes \cup {Every} :
       listed' = ListAnswer(p, q, class)
  /\ UNCHANGED <<pair, graph, found, counted>>

Next == Aggregate \/ ListEvents
Spec == Init /\ [][Next]_vars

-----------------------------------------------------------------------------
Counted == counted.asked /\ counted.found
Listed == listed.asked /\ listed.found

\* Statuses as the vocabulary documents them: recorded ones have a word, with no
\* blank in front; a court filing's date is set apart from it, and elsewhere no
\* blank is behind it.
TidyRaw(p, raw) ==
  /\ raw # Blank
  /\ raw # Null => /\ ~raw.as.led
                   /\ IF p = Litigation THEN raw.as.tail # "attached" ELSE ~raw.as.trailed
Tidy == \A e \in DOMAIN graph : TidyRaw(pair, graph[e].status)

\* Types: each answer either was not asked for or counts events of the scope.
TypeOK ==
  /\ pair \in Pairs /\ DOMAIN graph \subseteq Events /\ found \in BOOLEAN
  /\ Counted => counted.rollup.total \in 0..Cardinality(Events)
  /\ Listed => listed.total \in 0..Cardinality(Events) /\ listed.shown \in 0..Limit

\* The number the aggregate has for a status of the list.
CountOf(status) ==
  IF status = Every THEN counted.rollup.total
  ELSE IF status = "OPEN" THEN counted.rollup.open_count
  ELSE counted.rollup.by_status[status]

\* The two tools give one number: events of a status, or all, of a class or any,
\* in the list and in the aggregate, though one matches raw values in the
\* database and the other reads them in Python.  For values that are not tidy,
\* and for UNKNOWN, which no filter can enumerate, the list may have fewer.  It
\* has more only of court filings, and of those no more than the aggregate has
\* under UNKNOWN: a date attached to the word hides it from Python (_status_key)
\* but not from STARTS WITH.
ToolsAgree ==
  Listed /\ Counted /\ ~counted.truncated /\ listed.class = counted.class =>
    /\ Tidy /\ listed.status # "UNKNOWN" => listed.total = CountOf(listed.status)
    /\ pair # Litigation => listed.total <= CountOf(listed.status)
    /\ listed.total <= CountOf(listed.status) + CountOf("UNKNOWN")

\* "Never silently dropped": every event asked for is in the total, under one
\* status, and under its class if it has one.
NothingDropped ==
  Counted /\ ~counted.truncated =>
    LET r == counted.rollup IN
      /\ r.total = Cardinality(OfClass(counted.class))
      /\ r.total = SumFunctionOnSet(r.by_status, Status)
      /\ \A k \in Classes : r.by_class[k].count =
           Cardinality({e \in OfClass(counted.class) : graph[e].cls = k})

\* "Callers must not present a truncated result as complete - for an
\* aggregation that is the difference between a right and a wrong answer."
AggregateComplete ==
  Counted => counted.rollup.total = Cardinality(OfClass(counted.class))

=============================================================================
