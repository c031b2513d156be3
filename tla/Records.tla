------------------------------ MODULE Records ------------------------------
(***************************************************************************)
(* The tools that say whose a building is and who is connected to whom     *)
(* (watchline/discovery/agent/tools/landlord.py, ownership.py, compare.py, *)
(* network.py), asked in any order in one conversation over one snapshot   *)
(* of the graph.  The database hands collections over in any order, and    *)
(* the name index ranks as it likes.                                       *)
(*                                                                         *)
(* Abstracted: display fields, provenance and messages; ids that are not   *)
(* well formed are answered as ids nothing has; an actor registered in two *)
(* roles is listed once; member_count and building_count are stored; the   *)
(* ownership answer's own verdict repeats a lone controller's.             *)
(***************************************************************************)
EXTENDS Names, FiniteSets

CONSTANTS
  Actor,             \* actor ids; those of landlords carry the label Landlord
  Landlord,
  Building,
  Portfolio,
  Unknown,           \* an id nothing has
  Graphs,            \* the snapshots considered
  Queries,           \* what users type as a name
  FetchLimit,        \* _FETCH_LIMIT (25)
  TraceLimit,        \* the rows trace_actor_to_landlord fetches (10)
  MaxCandidates,     \* MAX_CANDIDATES (5)
  RegisteredCap,     \* registered parties a diff lists (10)
  ControllerCap,     \* controllers a diff lists (5)
  HandleCap,         \* _HANDLE_CAP (50)
  MaxAnswers         \* bound: answers of the conversation

Edge == [ends : {pair \in SUBSET Landlord : Cardinality(pair) = 2}, kind : {"name", "address"}]
Graph ==
  [name : [Actor -> Raw], owner : [Building -> Raw], registered : [Building -> SUBSET Actor],
   controls : [Landlord -> SUBSET Building], portfolio : [Building -> SUBSET Portfolio],
   member : [Landlord -> SUBSET Portfolio], connected : SUBSET Edge]

ASSUME RecordsAssumption ==
  /\ Landlord \subseteq Actor /\ IsFiniteSet(Actor) /\ IsFiniteSet(Building) /\ IsFiniteSet(Portfolio)
  /\ Unknown \notin Actor \cup Building \cup Portfolio
  /\ None \notin Actor \cup Building \cup Portfolio \cup (Building \X (Landlord \cup Portfolio))
  /\ Graphs \subseteq Graph /\ Queries \subseteq Raw \ {None}
  /\ {FetchLimit, TraceLimit, MaxCandidates, RegisteredCap, ControllerCap, HandleCap, MaxAnswers}
       \subseteq Nat \ {0}

VARIABLES
  graph,             \* the snapshot
  answers            \* what the tools said, in order
vars == <<graph, answers>>

-----------------------------------------------------------------------------
Uncapped(s, n) == s                \* mutant: nothing is cut
First(s, n) == SubSeq(s, 1, IF Len(s) < n THEN Len(s) ELSE n)

\* ORDER BY score LIMIT n: n of a set, or all.
Some(S, n) == {T \in SUBSET S : Cardinality(T) = n \/ (T = S /\ Cardinality(S) < n)}

\* The first n of a collection, in whatever order it comes.
Rankings(S, n) ==
  LET k == IF Cardinality(S) < n THEN Cardinality(S) ELSE n
  IN {s \in [1..k -> S] : \A i, j \in 1..k : s[i] = s[j] => i = j}

Answer(tool, about, status, lists, totals, compared) ==
  [tool |-> tool, about |-> about, status |-> status,
   lists |-> lists, totals |-> totals, compared |-> compared]

NoList == [d \in {} |-> <<>>]
NoTotal == [d \in {} |-> 0]
Negative(tool, about, status) == Answer(tool, about, status, NoList, NoTotal, {})

MoreAnswers == Len(answers) < MaxAnswers
Say(answer) ==
  /\ answers' = Append(answers, answer)
  /\ UNCHANGED graph

-----------------------------------------------------------------------------
\* landlord_name_fulltext: landlords with one of the name's tokens.
Hits(name) == {l \in Landlord : normalize(graph.name[l]) \cap normalize(name) # {}}

Agrees(name, l) == compare_names(name, graph.name[l]).verdict = "agrees"
Candidates(name, ls) == {compare_names(name, graph.name[ls[i]]) : i \in DOMAIN ls}

FirstExact(name, fetched) ==       \* mutant: the best-ranked exact match is taken
  LET exact == {l \in fetched : Agrees(name, l)}
      said(status, listed) ==
        Answer("resolve_landlord_name", name, status, [candidates |-> listed],
               [candidates |-> Len(listed)], Candidates(name, listed))
  IN IF exact = {} THEN {said("needs_disambiguation", ls) : ls \in Rankings(fetched, MaxCandidates)}
     ELSE {said("resolved", <<l>>) : l \in exact}

\* What is said of the fetched landlords: one exact match is a resolution,
\* anything else is for the user to choose from.
Resolution(name, fetched) ==
  LET exact == {l \in fetched : Agrees(name, l)}
      plausible == IF exact = {} THEN fetched ELSE exact
      said(status, listed) ==
        Answer("resolve_landlord_name", name, status, [candidates |-> listed],
               [candidates |-> Cardinality(plausible)], Candidates(name, listed))
      one == {l \in exact : exact = {l}}
  IN {said("resolved", <<l>>) : l \in one}
     \cup {said("needs_disambiguation", ls) : ls \in {ls \in Rankings(plausible, MaxCandidates) : one = {}}}

resolve_landlord_name(name) ==
  /\ MoreAnswers
  /\ \/ normalize(name) = {} /\ Say(Negative("resolve_landlord_name", name, "invalid_input"))
     \/ /\ normalize(name) # {} /\ Hits(name) = {}
        /\ Say(Negative("resolve_landlord_name", name, "not_found"))
     \/ /\ normalize(name) # {} /\ Hits(name) # {}
        /\ \E fetched \in Some(Hits(name), FetchLimit) :
             \E answer \in Resolution(name, fetched) : Say(answer)

\* A raw party is never resolved: landlords that share a token, in index order.
trace_actor_to_landlord(id) ==
  /\ MoreAnswers
  /\ \/ id \notin Actor /\ Say(Negative("trace_actor_to_landlord", id, "not_found"))
     \/ id \in Landlord /\ Say(Negative("trace_actor_to_landlord", id, "is_landlord"))
     \/ /\ id \in Actor \ Landlord
        /\ \E rows \in Rankings(Hits(graph.name[id]), TraceLimit) :
             Say(Answer("trace_actor_to_landlord", id, "found", [possibly_related |-> rows],
                        [possibly_related |-> Len(rows)], Candidates(graph.name[id], rows)))

-----------------------------------------------------------------------------
Controllers(b) == {l \in Landlord : b \in graph.controls[l]}

\* Both answers: the recorded owner and every apparent controller, each with
\* its own comparison.
lookup_building_ownership(b) ==
  /\ MoreAnswers
  /\ \/ b \notin Building /\ Say(Negative("lookup_building_ownership", b, "not_found"))
     \/ /\ b \in Building
        /\ \E ctrl \in Rankings(Controllers(b), Cardinality(Landlord)) :
             Say(Answer("lookup_building_ownership", b, "found", [controllers |-> ctrl],
                        [controllers |-> Len(ctrl)], Candidates(graph.owner[b], ctrl)))

\* _verdict: nothing when a side is missing or empty.
VerdictOf(left, right) ==
  IF left \in {None, <<>>} \/ right \in {None, <<>>} THEN {} ELSE {compare_names(left, right)}

FirstName(actors) == IF actors = <<>> THEN None ELSE graph.name[actors[1]]

\* Three parties, of which the diff compares the first it was handed.
ownership_vs_registration_diff(b) ==
  /\ MoreAnswers
  /\ \/ b \notin Building /\ Say(Negative("ownership_vs_registration_diff", b, "not_found"))
     \/ /\ b \in Building
        /\ \E reg \in Rankings(graph.registered[b], RegisteredCap),
              ctrl \in Rankings(Controllers(b), ControllerCap) :
             Say(Answer("ownership_vs_registration_diff", b, "found",
                        [registered |-> reg, controllers |-> ctrl], NoTotal,
                        VerdictOf(graph.owner[b], FirstName(reg))
                          \cup VerdictOf(graph.owner[b], FirstName(ctrl))
                          \cup VerdictOf(FirstName(reg), FirstName(ctrl))))

-----------------------------------------------------------------------------
\* OPTIONAL MATCH and collect(DISTINCT {...}): no match is a map of nulls.
Collected(handles) == IF handles = {} THEN {None} ELSE handles

OneController(b) ==                \* mutant: the first controller's buildings only
  LET l == CHOOSE l \in Landlord : b \in graph.controls[l]
  IN IF Controllers(b) = {} THEN {} ELSE {<<other, l>> : other \in graph.controls[l] \ {b}}

SameController(b) ==
  {pair \in Building \X Landlord : pair[1] # b /\ {b, pair[1]} \subseteq graph.controls[pair[2]]}
SamePortfolio(b) ==
  {pair \in Building \X Portfolio : pair[1] # b /\ pair[2] \in graph.portfolio[b] \cap graph.portfolio[pair[1]]}

sister_buildings(b) ==
  /\ MoreAnswers
  /\ \/ b \notin Building /\ Say(Negative("sister_buildings", b, "not_found"))
     \/ /\ b \in Building
        /\ LET controller == Collected(SameController(b))
               portfolio == Collected(SamePortfolio(b))
           IN \E cs \in Rankings(controller, HandleCap), ps \in Rankings(portfolio, HandleCap) :
                Say(Answer("sister_buildings", b, "found", [controller |-> cs, portfolio |-> ps],
                           [controller |-> Cardinality(controller), portfolio |-> Cardinality(portfolio)], {}))

Others(l, kinds) == {o \in Landlord \ {l} : \E k \in kinds : [ends |-> {l, o}, kind |-> k] \in graph.connected}

shared_address_landlords(id) ==
  /\ MoreAnswers
  /\ \/ id \notin Landlord /\ Say(Negative("shared_address_landlords", id, "not_found"))
     \/ /\ id \in Landlord
        /\ LET others == Collected(Others(id, {"address"}))
           IN \E os \in Rankings(others, HandleCap) :
                Say(Answer("shared_address_landlords", id, "found", [connected |-> os],
                           [connected |-> Cardinality(others)], {}))

NameConnections(l) ==              \* mutant: one of the two relations
  {e \in graph.connected : l \in e.ends /\ e.kind = "name"}
Connections(l) == {e \in graph.connected : l \in e.ends}

Member(l) == [landlord |-> l, buildings |-> Cardinality(graph.controls[l]),
              connections |-> Cardinality(Connections(l))]

\* Members with most buildings first; connection_edges is the sum of theirs.
Network(p) ==
  LET members == {Member(l) : l \in {l \in Landlord : p \in graph.member[l]}}
  IN \/ members = {} /\ Say(Negative("control_network", p, "not_found"))
     \/ /\ members # {}
        /\ \E rows \in Rankings(members, Cardinality(Landlord)) :
             /\ \A i, j \in DOMAIN rows : i < j => rows[i].buildings >= rows[j].buildings
             /\ Say(Answer("control_network", p, "found", [members |-> First(rows, HandleCap)],
                           [connection_edges |->
                              Cardinality(UNION {{m.landlord} \X Connections(m.landlord) : m \in members})], {}))

\* Exactly one of portfolio and landlord; a landlord's portfolio is any one.
control_network(p, id) ==
  /\ MoreAnswers
  /\ \/ (p = None) = (id = None) /\ Say(Negative("control_network", None, "scope_required"))
     \/ p # None /\ id = None /\ Network(p)
     \/ /\ p = None /\ id # None
        /\ \/ id \notin Landlord /\ Say(Negative("control_network", id, "not_found"))
           \/ id \in Landlord /\ graph.member[id] = {} /\ Say(Negative("control_network", id, "not_found"))
           \/ id \in Landlord /\ \E pid \in graph.member[id] : Network(pid)

-----------------------------------------------------------------------------
Init == graph \in Graphs /\ answers = <<>>

Next ==
  \/ \E name \in Queries : resolve_landlord_name(name)
  \/ \E id \in Actor \cup {Unknown} :
       \/ trace_actor_to_landlord(id)
       \/ shared_address_landlords(id)
  \/ \E b \in Building \cup {Unknown} :
       \/ lookup_building_ownership(b)
       \/ ownership_vs_registration_diff(b)
       \/ sister_buildings(b)
  \/ \E p \in Portfolio \cup {Unknown, None}, id \in Actor \cup {Unknown, None} : control_network(p, id)

Spec == Init /\ [][Next]_vars

-----------------------------------------------------------------------------
Tool == {"resolve_landlord_name", "trace_actor_to_landlord", "lookup_building_ownership",
         "ownership_vs_registration_diff", "sister_buildings", "shared_address_landlords", "control_network"}
Status == {"resolved", "needs_disambiguation", "not_found", "invalid_input", "is_landlord", "found", "scope_required"}
Cap == [candidates |-> MaxCandidates, possibly_related |-> TraceLimit, controllers |-> Cardinality(Landlord),
        registered |-> RegisteredCap, controller |-> HandleCap, portfolio |-> HandleCap,
        connected |-> HandleCap, members |-> HandleCap]

\* Types: every verdict is of names there are, every list within its cap.
TypeOK ==
  /\ graph \in Graph
  /\ Len(answers) <= MaxAnswers
  /\ \A i \in DOMAIN answers :
       /\ answers[i].tool \in Tool /\ answers[i].status \in Status
       /\ \A d \in DOMAIN answers[i].lists : Len(answers[i].lists[d]) <= Cap[d]
       /\ \A d \in DOMAIN answers[i].totals : answers[i].totals[d] \in Nat
       /\ \A c \in answers[i].compared : c \in Comparison

\* Two names get one verdict in a conversation, whichever tool compared them,
\* in whichever order, and however the two were written.
OneVerdictPerPair ==
  \A i, j \in DOMAIN answers : \A c \in answers[i].compared, d \in answers[j].compared :
    {normalize(c.left), normalize(c.right)} = {normalize(d.left), normalize(d.right)}
      => c.verdict = d.verdict

\* "Never a single silent best guess": the landlord a name was resolved to is
\* the only one in the graph whose name agrees with it, whenever the index had
\* no more matches than are fetched.
NeverGuesses ==
  \A i \in DOMAIN answers :
    /\ answers[i].status = "resolved"
    /\ Cardinality(Hits(answers[i].about)) <= FetchLimit
    => {l \in Landlord : Agrees(answers[i].about, l)} = {answers[i].lists.candidates[1]}

\* Sister buildings are mutual: of two complete answers, each lists the other
\* building, by the same landlord or portfolio, or neither does.
SistersMutual ==
  \A i, j \in DOMAIN answers : \A dim \in {"controller", "portfolio"} :
    LET a == answers[i]
        b == answers[j]
        complete(x) == x.tool = "sister_buildings" /\ x.status = "found" /\ x.totals[dim] <= HandleCap
        listed(x) == {x.lists[dim][k] : k \in DOMAIN x.lists[dim]}
    IN complete(a) /\ complete(b) =>
         \A via \in Landlord \cup Portfolio : <<b.about, via>> \in listed(a) <=> <<a.about, via>> \in listed(b)

\* The network's scale is what its docstring says, an edge between members
\* counted twice and any other once, and a member has no fewer connections
\* than another answer shows addresses shared with it.
ConnectionsAddUp ==
  \A i \in DOMAIN answers : answers[i].tool = "control_network" /\ answers[i].status = "found" =>
    LET net == answers[i]
        members == {l \in Landlord : net.about \in graph.member[l]}
        touching == {e \in graph.connected : e.ends \cap members # {}}
        inner == {e \in touching : e.ends \subseteq members}
    IN /\ net.totals.connection_edges = Cardinality(touching) + Cardinality(inner)
       /\ \A j \in DOMAIN answers, k \in DOMAIN net.lists.members :
            LET shown == answers[j]
                m == net.lists.members[k]
            IN shown.tool = "shared_address_landlords" /\ shown.about = m.landlord /\ shown.status = "found"
                 => Cardinality({shown.lists.connected[n] : n \in DOMAIN shown.lists.connected} \ {None})
                      <= m.connections

\* "The true total is always reported": a building's counts of sisters are the
\* numbers of pairs of a sister and what they share.
TrueTotals ==
  \A i \in DOMAIN answers : answers[i].tool = "sister_buildings" /\ answers[i].status = "found" =>
    /\ answers[i].totals.controller = Cardinality(SameController(answers[i].about))
    /\ answers[i].totals.portfolio = Cardinality(SamePortfolio(answers[i].about))

=============================================================================
