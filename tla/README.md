# Watchline NYC: a verification development

TLA+ models of the discovery agent of Watchline (`src/watchline/discovery`), with
TLC configurations that check them on small instances and TLAPS proofs for the
parts where a small instance is not enough. `PROJECT.json` lists the components,
the runs, what each definition stands for in the code (`map`), the hazards and
the theorems.

The program answers questions about New York City buildings and landlords from a
Neo4j graph. A language model, driven by LangChain's agent loop, calls tools over
the graph; middleware around the loop keeps a memory of the thread and gates the
investigative tools; a Streamlit page runs one agent per browser session. Nothing
in it is a distributed protocol. What is hard is: what survives from one turn of a
conversation to the next, what parallel tool calls do to module globals, what an
outage between two requests turns into, what a rerun leaves behind when it cuts a
script short, what of a turn reaches the page, and whether two tools that look at the
same names, edges or events say the same.

## 1. Inventory

| Component (code) | State it keeps | Operations | What is hard | What makes it correct |
|---|---|---|---|---|
| Session memory (`agent/state.py`, `session.py`) | the slots of `DiscoveryState`: focus per type, last result list, stamps, choices, report, resolved reference | expiry and reference resolution before a model call, capture after it | runs at every model call of a turn; a turn dies anywhere; time passes while tools run; parallel results come back together | slots are grounded in tool results, stamped, fresh when referred to, complete after a turn, never guessed |
| Investigator (`agent/investigator.py`, `tools/investigation.py`) | search counter, client and its flag (module globals), a sub-agent's transcript and step count | begin, model step, tool step with workers, search, report | check-then-act on globals from several threads and several investigations; the step limit; agents it starts, whose transcripts it does not keep | bounded overrun, every end reported, no page of its own searches lost, an end is reached |
| Address resolution (`tools/address.py`, `agent/geocode.py`, `sidecar/app.py`) | none between calls; the attempts of a call | first spelling, second spelling, confirmation in the graph | the sidecar stops between two requests; the second attempt is worse than the first | an outage is never a verdict; a named building is confirmed; candidates are the city's |
| Turn and gate (`agent/middleware.py`, `graph.py`, `tools/registry.py`) | trust of the run, tools offered, calls outstanding | offer tools, check a call, run or refuse it | the thread remembers tools of a vetted turn; two channels for trust | investigation on vetted turns only, ordinary tools never refused |
| Reliability and caveats (`agent/reliability.py`, `caveats.py`) | a declaration per tool | type, caveats, import-time checks, tag | rules with overlapping branches decide gate and caveats at once | every derived element that is read ships its caveat |
| Status vocabulary (`agent/vocab.py`) | maps of raw values | read a status, build a filter | the same rule is implemented in Python and as a Cypher predicate | both select the same events |
| Event lists and aggregates (`tools/building.py`, `_events.py`, `landlord_portfolio.py`, `agent/db.py`) | none | list, aggregate, roll up | row caps, unrecognised values, empty reads | the two tools agree, nothing is dropped, missing is not empty |
| Browser chat (`ui/app.py`, `sidebar.py`, `samples.py`, `stream.py`) | `st.session_state`, widgets, the checkpointed thread | gestures; the script's writes, one after the other | every gesture ends the running script at any write | transcript and memory belong together, cards open, evidence is the answer's |
| Turn as the page follows it (`ui/stream.py`, `ui/app.py`, `ui/cost.py`) | messages and usages read in this turn | read the stream; at its end answer, evidence, cost, panel | an investigation's model calls are on no message; two exits of its loop; results of other turns are in the thread | evidence of this turn and all of it, every call priced once, a panel for an investigation |
| Names, landlords, ownership, network (`agent/names.py`, `tools/landlord.py`, `ownership.py`, `compare.py`, `network.py`) | none | compare names; resolve; both ownership answers; three-party diff; sisters, network, shared addresses, raw party | rules that look at one side; fetch limits and caps; collections of nulls, rows that multiply | one verdict per pair, no guess, mutual sisters, honest totals |
| Operators (`analytics/operators.py`) | a named projection in the database | project, stream, drop | cleanup that itself may fail | not modelled, section 8 |
| First seed (`deploy/neo4j`) | data directory, sentinel | load, mark, start | killed in between | not modelled, section 8 |
| Cypher guard, area and portfolio detail tools, report rendering, prompts, connections | | | | not modelled, section 8 |

How they interact: the page (chat) invokes the agent on a thread id; each turn is the
loop *before hook, model, after hook, tools*. The session middleware's hooks read the
messages the tools left and write the slots to the checkpoint. The gate middleware
reads trust from the run's configuration at the model call and again at each tool
call. `deep_investigation` is one of those tools: inside it, a second agent loop with
the ungated library plus `run_cypher` and `web_search`. Tools read the graph through
`db.read`; `resolve_address` also calls the sidecar over HTTP. Results go through the
wrapper `tagged`, which attaches reliability and caveats, and the payload comes back
to the session middleware by way of the messages.

## 2. Modules

| Module | Models | Extends |
|---|---|---|
| `ThreadMemory` | abstract: what the memory of a thread promises, without clock, stamps or loop | |
| `SessionMemory` | the session middleware around the loop of a turn; implements `ThreadMemory` | |
| `SessionMemory_proofs` | theorems | `SessionMemory` |
| `InvestigationOutcome` | abstract: what an investigation promises whoever asked for it | |
| `Investigation` | overlapping investigations, their workers and the shared globals; implements `InvestigationOutcome` | |
| `Investigation_proofs` | theorems | `Investigation` |
| `Reliability` | declarations and what follows from them, as operators | |
| `AgentTurn` | the gate over the turns of a thread, for any library that imports | `Reliability` |
| `AgentTurn_proofs` | theorems | `AgentTurn` |
| `TurnStream` | a turn with the page that reads its stream and the investigation inside it; implements `AgentTurn` | `AgentTurn` |
| `TurnStream_proofs` | theorems | `TurnStream`, `AgentTurn_proofs` |
| `Names` | names as token sets and the verdict on two of them, as operators | |
| `Records` | seven tools about owners, controllers and networks, asked in one conversation | `Names` |
| `Records_proofs` | theorems | `Records` |
| `EventVocabulary` | raw and canonical statuses, filters, as operators | |
| `EventCounts` | list and aggregate over the same events | `EventVocabulary` |
| `EventCounts_proofs` | theorems about both | `EventCounts` |
| `AddressResolution` | calls of the tool against a sidecar that comes and goes | |
| `AddressResolution_proofs` | theorems | `AddressResolution` |
| `ChatUi` | one browser session | |
| `ChatUi_proofs` | theorems | `ChatUi` |
| `MC*` | small instances of the above | |

### SessionMemory

One variable per slot of `DiscoveryState` (`focus`, `lastResult`, `touched`, `history`,
`investigation`, `resolved`), the clock, and the place in the loop. `BeforeModel` is the
whole `before_model` hook: `expire_stale_slots`, then, only if no tool result follows the
user's message, `resolve_references` against the state *after* expiry, then the
overwriting of the landlord focus by an indexed pick. `AfterModel` is `capture` over all
tool messages since the last human message: it runs at every model call of a turn and
folds the same results again. `ToolsReturn` brings back a batch, in any order;
`Abort` ends a turn at any node with what was committed so far, and a turn that died
between a request for tools and their results makes the model refuse every later turn
of the thread (`dangling`). `Tick` may occur anywhere. Payloads are what the extraction
tells apart: tool, status, building, landlord, list, report. Texts are the ordinal and
the type word `resolve_references` reads in them.

### Investigation

`Begin` is `_reset_budget`; `Ask`, `Dispatch`, `Join`, `Conclude`, `OutOfSteps` and `Fail`
are the loop of `run_investigation`; a worker goes through `web_search` in the steps in
which another thread can run: test the budget, look at the client's flag, build the
client, count, ask. `_searches_used += 1` is one step because CPython switches threads
only at calls and loop ends. The report is what `_assemble` copies, so it has no search
count.

The investigator is built with `create_deep_agent`, which adds a tool that starts agents.
Such an agent is a loop of its own on the thread of its call (`StartAgent`, then the same
`Ask`, `Dispatch` and `Join`), with the same tools on threads of its own, one budget and
one client with everybody else, and a step limit of its own. It answers its call in words
(`AgentAnswers`) or hands it its error (`AgentStops`); an agent that runs out of steps takes
the investigation with it, as `GraphRecursionError`. Its states have a namespace, and
`run_investigation` keeps only those without one: `Join` puts pages into the transcript of
an investigation only. The library is outside `src/`; what it adds is modelled from how
the code calls it and reads its stream. Agents do not start agents.

The ghost `found` says whose searches came back with a page. The abstract
`InvestigationOutcome` has no loop, no transcript and no globals: an investigation begins,
it or an agent of its may find pages, and it ends once, with an error or with a report,
which, if concluded, has sources exactly if a search of its own had found a page. The
mapping forgets where in its loop a running investigation is (`Outcome`).

### AddressResolution

`FirstAttempt` and `Retry` are the halves of `_geocode`; each is one request, answered by
any response the code distinguishes or by none. `Interpret` is `interpret` with
`compose_bbl`; `Status` is the confirmation against the graph. The sidecar's dictionary is
outside: two requests may get any two answers, which includes every real pair.

### Reliability, AgentTurn

`Type`, `Caveats`, `requires_tier_4` and `Imports` are the rules of `reliability.py`.
`AgentTurn` starts from any library that the import accepts. `trust_level` is the
precedence of the two channels; anything but the exact word `vetted` is public. The
model may ask for any registered tool or for an unknown name, offered or not, so the
gate is the second check (`Refused`). An unknown name has no metadata, which counts as
gated: on a public turn it is refused as if it were investigative. A refusal is a
string where the tool node expects a message; how that is recorded is the library's.
`compare_entities` declares nothing of its own and is labelled type I, while its parts
carry the caveats of the aggregates it delegates to; the model has it that way.

### TurnStream

The composition of the turn with what reads it. Each action takes one of `AgentTurn`'s
with it, or, inside an investigation, leaves that part alone, so that the whole is a
refinement of `AgentTurn` with the identity as its mapping. `feed` is what `run_turn` and
`_render_turn` have read: results with their tags, usages, and whether a call of
`deep_investigation` or a nested step was seen. `SubAsks`, `SubWorks`, `SubConcludes` and
`SubTruncated` are the loop of `run_investigation`; its model calls count in `feed` only
when `_emit_usage` runs, at either exit. A result counts as read when its tool answered,
while the stream hands a step's results over together: a turn that raises in between
shows no answer, so the difference is never seen. `made` is a ghost of what really was
called. Investigations of one turn follow each other here; overlapping ones are
`Investigation`'s subject.

### Names, Records

A name is the sequence of its words, `TokensOf` what folding and the regular expressions
make of a word. `Kept` is `_drop_one_sided_initials`, `Verdict` the rest of
`compare_names`. The database may hand over any order (`Rankings`) and the index any best
`FetchLimit` of the landlords that share a token (`Some`); a `collect` after
`OPTIONAL MATCH` has its map of nulls (`Collected`), which the pattern comprehension of
`ownership.py` and the filter of `compare.py` do not. What tools answered is kept in
order, because the properties compare answers.

### EventVocabulary, EventCounts

A raw value is its word and how it is written: in capitals, with blanks in front or behind,
and with a tail (a date, mostly) that a blank sets apart or that is attached to the word.
`canonical_status` folds case and blanks and, for court filings only, cuts at the first
blank (`Known`). `Selects` is what the generated predicate does in the database: `IN`
compares the whole value, blanks included (`IsWhole`); `STARTS WITH` asks for its beginning
only (`Begins`), so that `'DENIED,10/31/2016'` is selected and, in Python, unknown.
`Aggregate` reads grouped rows up to the cap and rolls them up;
`ListEvents` filters, counts and shows the first few. Both refuse a combination of
source and type that does not exist.

### ChatUi

Every gesture starts the script anew, whatever it was doing (`Gesture`), so each write
to `session_state` is a step: `New chat` in the order of `ResetOrder`, the recording of
an answer in the order of `FinishOrder`. The agent is what its memory was told: a set
of thread, prompt and trust.

## 3. Runs

The bounds are constants of the configurations. Deadlock checking
is off where the system may stop: a user may leave, all investigations may be over,
a bound on gestures may be reached.

| Run | Instance | Question |
|---|---|---|
| `session_memory` | two turns, two results per turn, two landlords, a building, two reports, nine payloads, timeout of one tick in three | are the slots grounded, stamped, fresh, complete, unguessed, durable, and does the middleware implement `ThreadMemory`? |
| `investigation` | two investigations that may overlap, one with two calls per message, of which one may start an agent with a call of its own, the other with one; budget 1, limit 5 steps, 3 for the agent | is the overrun bounded, does a concluded report have sources exactly if its own searches found pages, does every investigation end, and does it keep the promise of `InvestigationOutcome`? |
| `address` | two calls, two lots of which the graph holds one, lists of up to three names against a cap of two | is every verdict heard, every named building confirmed, every candidate list honest, every call ended? |
| `agent_turn` (`MCTurnStream`) | seven tool functions, one of each kind, in every combination that imports; any trust in either channel at each turn; three model calls a turn, two tool calls a message, an investigation of two model calls | is only investigation refused, only on turns that were not vetted; do caveats travel to the model and to the evidence of the answer; is every model call priced; does an investigation get its panel? |
| `event_counts` | three events, two pairs, three words in five writings, a row cap of two | do the tools agree where they should, by how much may they differ elsewhere, is anything dropped? |
| `records` | three landlords, a raw party, two buildings, a portfolio; names with initials, forms and lone marks; every control relation of two landlords, every set of three connections; caps of one and two; two answers | does a pair of names have one verdict, is a resolution the only match, are sisters mutual, do connections add up? |
| `chat_ui` | five gestures, one sample of each kind | do transcript, memory, cards and evidence stay together? |

Why the bounds suffice. Session memory: two turns are what a reference and an abort
need (one to establish, one to refer), two results per turn are what "last one wins" and
"one beside several" need, and three ticks around a timeout of one give both sides of
the boundary in each of two stretches. Investigation: overrun needs two workers past
the test, a reset needs a second investigation, five steps are two tool rounds with the
limit after either, and three are one tool round of an agent and its answer; the theorems
remove all these bounds. Address: one
list shorter than, equal to and longer than the cap. Turns: the kinds of tools are all
there are; the number of turns is not bounded at all; an investigation that runs out of
steps, concludes, or is called twice in a turn fits in three calls. Records: every
property relates at most two answers; a cap of one makes a choice of two lists, a cap of
two one of a null and of both landlords. Counts: three groups exceed the
cap by one; the theorems hold for any number of events, any map and any cap. Chat: the
longest shortest counterexample of the mutations needs four gestures.

Symmetry is used for the three events only, whose order nothing reads and which no
temporal property mentions.

Every property of a passing run has at least one mutation of a mapped definition
(`mutants`) that breaks it: a guard dropped, an order swapped, a case forgotten. The
mutated form stands before the definition it replaces and says what it is.

## 4. Where the code and its words differ

Each is a run that finds one property violated; the property is the quoted line.

| Run | What the line says | What happens |
|---|---|---|
| `search_client` | `investigator.py:131`: `None` "when no `TAVILY_API_KEY` is set" | the flag goes up before the client is built: a parallel first search gets `None` with a key |
| `address_retry` | `address.py:98`: "prefer the retry only when it does better" | a retry that is unparsable, fails or meets an outage replaces the candidates of the first attempt |
| `chat_ui_sample` | `app.py:124`: a sample "submits a single time" | New chat forgets what was sent while the box keeps its value: it is sent again |
| `records_totals` | `network.py:37`: "The true total is always reported" | `collect(DISTINCT {…})` after an `OPTIONAL MATCH` without a match collects one map of nulls: a building with no sister is reported with one of each kind, and a null handle is listed |
| `event_counts_cap` | `db.py:85`: no truncated result "as complete", above all for an aggregation | the aggregates read `.records` and never look at `.truncated` |

Smaller observations, not runs:

- `capture` appends the same choice at every later model call of a turn (`state.py:185`),
  while `session.py:79` speaks of "choices already made"; no property is about repeats.
- `_assemble` (`tools/investigation.py:68`) does not copy `web_search_count`, so the page
  reads 0 where `investigator.py:350` says a caller can tell "N searches, no sources".
- `compare_entities` is tagged with nothing; the caveats of its parts are nested in its
  result, where `extract_evidence` (`stream.py:208`) does not look.
- an element's long-form caveat has another text than its short one: the panel, which
  removes duplicates by element and text, shows the element twice.
- a call of `deep_investigation` that the gate refused still gives its turn the panel.
- `_emit_usage` speaks of the investigation's "total token usage" (`investigator.py:544`);
  agents that the investigation starts itself are not in its state and not counted.
- "Web sources are the pages a web_search *result* returned" (`investigator.py:335`) and
  citations "the tool calls actually made" (299), but a search of an agent that the
  investigation started is in a state with a namespace, which is not kept (581): its page
  and its call are in no report. `SourcesKept` has it that way, both directions.
- a court filing whose date is attached to the word is `UNKNOWN` for the aggregate and in
  the list of the status it begins with; one with a blank in front is the reverse. The
  vocabulary's own examples (`vocab.py:20`) have a blank before the date.
- agreement of names is not transitive: "AARON R COX" and "AARON S COX" agree with
  "AARON COX" and not with each other. The theorem `AgreementThroughInitials` says this is
  the only way it fails.
- candidates that only the *second* spelling brings are discarded when the first brought
  none; `status='UNKNOWN'` lists at most values literally stored so, while the aggregate
  counts every unrecognised one; a truncated investigation has status `complete` and
  replaces an earlier, concluded report in the session memory.

## 5. Fairness

`Investigation`: weak fairness of each loop's next step and of each worker's next step.
The loop is a plain loop and the workers are threads of a pool; each thing they wait
for has a time limit of its own (model client, server-side query timeout, search
client). Nobody is obliged to begin an investigation. `AddressResolution`: weak fairness
of a call's own steps once it was made, since a request ends by answer or timeout; none
of the sidecar, which may stay down. The other modules state no liveness: whether a
model answers or a user goes on is up to them.

## 6. Proofs

All for every value of the constants, from the assumptions named in the modules
(`SessionAssumption`, `InvestigationAssumption`, `AddressAssumption`, `TurnAssumption`,
`StreamAssumption`, `NamesAssumption`, `RecordsAssumption`, `UiAssumption`,
`VocabularyAssumption`, `CountsAssumption`), which each run evaluates on its instance.

**SessionMemory.** The inductive invariant is `TypeOK /\ HeldMeansStamped /\ Grounded /\
ResultsSeen`. `Grounded` alone is not inductive: capture folds `results`, so one has to
know that what the results confirm has been told to the thread (`ResultsSeen`). From it:
types, stamps, grounding; that a reference is fresh; that durable slots stay; that an
entity leaves the focus only by idling out; that a completed turn is remembered (by the
lemma that a non-empty set of positions has a last one, from the well-foundedness of
`<` on the naturals, which makes `LastIn` total); that focus is never guessed (`OneLandlord`: a result that
puts a landlord in focus confirms no other); and that every step is a step of
`ThreadMemory` or a stutter (`Implementation`). 

**Investigation.** The invariant counts what the budget test cannot see: `Committed`,
the workers past the test whose search is not counted yet. `searchesUsed +
Cardinality(Committed)` stays below budget plus workers: passing the test needs
`searchesUsed < budget`, and the worker that passes was not committed; counting moves
one from the second summand to the first; a reset only lowers the first. `CallsInv` says
that the calls of a loop run in its tool step only, `AgentsInv` that an agent runs exactly
while its call waits for it; both are what `PagesInv` (a page that an investigation's own
call found is in the transcript or held by a call of this step) needs at the end of a run.
From these, every step is a step of `InvestigationOutcome` or a stutter (`Implementation`):
no page comes back after a concluded report, an agent's neither, and a concluded report has
sources exactly if a search of the investigation's own had found a page (`PagesReported`).
Pages of agents are lost (section 4), and the theorem says that no other page is. `ClientInv` says of the search client that one worker at most is building
it, under the flag, and that there is none before; once there is one it stays (`ClientKept`).
Both races of the globals get their exact extent: a search is turned away only while
another worker builds the client, or for good (`TurnedAwayWhileBuilding`); and as long as
searches follow each other from the test of the budget to the count (`OneAtATime`), in any
number of investigations, nobody is turned away (`SequentialClient`) and the budget is kept
to the letter (`SequentialBudget`).

**AgentTurn.** `Gate` is the conjunction of the four properties; the only thing it needs
besides is that the library imports, which never changes. `VettedByCaller` reduces two
channels and a precedence to what the caller meant; `TagIsGate` says that the gate reads
nothing but the type; `CaveatsOfImported` says what the import's checks buy.

**TurnStream.** `StreamImplementsTurn` is the refinement: every step is one of `AgentTurn`
or leaves its variables alone, so the gate's theorems hold of the composed system by
citation. `StreamInv` adds what ties the page to the ghosts: what was read is exactly what
the tools that ran had to say (`Heard`), usages are the model calls counted so far
with a debt of `sub.calls` while an investigation has not reported (`Counted`), there is
such a debt only while its call is outstanding or after a turn that raised (`Settled`,
`Outstanding`), and the panel's flag is whether one was called (`Panelled`). `Shown` says
what the answer took over. The debt is why `EveryCallPriced` is not inductive by itself: it
is paid at either exit of the loop, and `Returns` waits for one. `Bounded` gives the type
of the counters.

**Names, Records.** The verdict's algebra needs no state: symmetry, that nothing is emptied,
that contradicting initials and different legal forms never agree, that legal forms alone
are no evidence, and how far agreement is transitive. `IInv` then says of each answer that
its verdicts are those of the names beside it, that a resolution over all hits names the
only landlord that agrees (by `AgreementShares`, an agreeing landlord is always a hit), and
that an uncapped list of sisters is the whole set. Three of the run properties follow.
The other two need what a list says at the moment it is told (`ToldInv`): the types, that
addresses shown are connections of the landlord, and that a network's sum over members
(`EndsCounted`) counts an edge once for each of its two ends that is a member. The count
splits the pairs of a member and an edge by one chosen end: the chosen pairs are as many
as the edges at a member, the others as many as the edges between two. An address shared
with a landlord is an edge of its own (`OthersConnected`). Both invariants together give the
finding of `records_totals` its extent (`OnlyNoneMiscounted`): the totals of
`sister_buildings` and `shared_address_landlords` are wrong, by one, where there is nothing
to count, and exact everywhere else, however short the list was cut.

**ChatUi.** The script is cut at any write, so the invariant says for every place and step
of the script which slots are already new: `Resetting` (between the new thread and the
emptied transcript nothing is sent), `Prompted` (from submission to answer the prompt
stands last in the transcript), `Recording` (evidence, artifact and card in their order)
and `Noted` (a sample that was sent is noted as sent until New chat). Threads, choices and
turns are numbered as they come up (`Numbered`), which makes them unique. TLC checked `IInv` itself
before it was proved.

**EventVocabulary, EventCounts.** `FilterAgrees`: for every status map that lists its words,
the filter selects a tidy raw status exactly when it is read as one of those wanted.
`UnknownSelected`: of the values read as `UNKNOWN`, the filter for other statuses selects
exactly the court filings that begin with a word of theirs and have their date attached.
`FilterSound`: whatever else is selected is read as wanted. So (`CountsAgree`) list and
aggregate give one number for tidy values, a list has more events than the aggregate of
court filings only, and never more of them than the aggregate has under `UNKNOWN`
(`PartsNatural`: the numbers compared are numbers). The maps' words must not begin with one
another, which holds of the court filings' ten. The other half is about sums. `rollup_events` adds
the counts of rows, and a sum over a set is a recursion that the provers cannot unfold by
themselves. `UnfoldingExists` shows that the recursion has a solution, by induction on the
size of the set; `SumOfParts`, by induction on the set, that a sum of sizes of disjoint
parts is the size of their union. Both inductions are over a *set* of good numbers or
good subsets (`InductionOnNat`, `InductionOnSubsets`), from the well-foundedness of `<`. So
`TotalCountsEvents`: the total of any rows is the number of the events behind them, and
`RowsCoverScope`: all rows are all events, fewer rows are fewer events. `IInv` only has
to say that each answer was computed from the graph as it is. `TruncatedFallsShort` gives
the finding of `event_counts_cap` its extent: with no more groups than the cap the aggregate is
right; with more it always falls short.

**AddressResolution.** The invariant has one clause per phase of a call. `Settled` is the
heart: the attempt that counts is an outage, or the last response heard if it got past
the street, or else the first one. It is needed because `result` alone does not say
which request it came from: a named building must be the last lot heard, a candidate
list the first one. `AskingHears` says that a request appends exactly what it was told.
`Chosen` compares the attempt that counts with the first one, which gives the finding of
`address_retry` its extent (`CandidatesLostToRetryOnly`): a second street failure never
costs the candidates, a call without a house number never loses them, and whatever else
replaces them is a second response or an outage in its place. `SpellingsAskedOnce`: a call
hears the sidecar at most once per spelling.

Left to TLC: liveness (`InvestigationEnds`, `CallEnds`). Every other property of a passing run
is a theorem.

## 7. What could come next

1. A composition of `Investigation` with `SessionMemory`, should the code ever promise
   which of two reports stays.
2. The operators' projection and the seeding script, should they grow state of their own.

## 8. Not modelled, and why

- **Cypher guard** (`cypher_guard.py`): a scan of a query's characters; a model would be
  the scan again. Behind it the session is read-only in the database.
- **Chain of title, area and portfolio detail tools**: one Cypher statement each and a
  rendering of its rows. What could be wrong is the statement, which the database
  evaluates; `compare_entities` aligns columns of the aggregates that are modelled.
- **Operators leaderboard**: the projection, its components and their ranking are computed
  in the database; the program is one `try`/`finally` around four statements. The hazard
  of the `finally` is listed without a property.
- **First seed**: a shell script that runs before the program.
- **Cost arithmetic, Markdown and report rendering, cluster picture, prompts, persona,
  prompt caching, connections**: prices, texts, layout and configuration.
- **In modelled components**: the geocoder's health check (nothing in the application
  calls it), progress texts of an investigation, citations and web sources of the
  evidence, the chat's key screen and panel width, dates and `most_recent` in event lists,
  class codebooks, the wrapper's look at a result, badly formed identifiers.
