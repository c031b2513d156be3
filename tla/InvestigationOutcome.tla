------------------------ MODULE InvestigationOutcome ------------------------
(***************************************************************************)
(* What an investigation promises whoever asked for it, with no loop, no   *)
(* transcript, no workers and no globals: it ends once, with a report or   *)
(* with an error; a report that was concluded has web sources exactly if a *)
(* search of its own had found a page by then, whatever the agents it      *)
(* started found; one that was cut short has none; and nothing is found    *)
(* after a concluded report.  Investigation implements it.                 *)
(***************************************************************************)
CONSTANTS
  Runs,            \* the investigations
  None             \* an absent report

VARIABLES
  state,           \* of each: "idle", "running", "over" or "failed"
  pages,           \* those that found a web page
  agentPages,      \* those for which an agent they started found one
  report           \* what each reported

outcome == <<state, pages, agentPages, report>>

Init ==
  /\ state = [r \in Runs |-> "idle"]
  /\ pages = {}
  /\ agentPages = {}
  /\ report = [r \in Runs |-> None]

Begin(r) ==
  /\ state[r] = "idle"
  /\ state' = [state EXCEPT ![r] = "running"]
  /\ UNCHANGED <<pages, agentPages, report>>

\* A search that was on its way when the investigation failed or was cut short
\* still comes back.
Searching(r) ==
  \/ state[r] \in {"running", "failed"}
  \/ state[r] = "over" /\ report[r].truncated

FindPage(r) ==
  /\ Searching(r)
  /\ pages' = pages \cup {r}
  /\ UNCHANGED <<state, agentPages, report>>

AgentFindsPage(r) ==
  /\ Searching(r)
  /\ agentPages' = agentPages \cup {r}
  /\ UNCHANGED <<state, pages, report>>

Reports(r, cut, sources) ==
  /\ state[r] = "running"
  /\ state' = [state EXCEPT ![r] = "over"]
  /\ report' = [report EXCEPT ![r] =
       [status |-> "complete", truncated |-> cut, web_sources |-> sources]]
  /\ UNCHANGED <<pages, agentPages>>

Conclude(r) == Reports(r, FALSE, r \in pages)
CutShort(r) == Reports(r, TRUE, FALSE)

Fail(r) ==
  /\ state[r] = "running"
  /\ state' = [state EXCEPT ![r] = "failed"]
  /\ UNCHANGED <<pages, agentPages, report>>

Next == \E r \in Runs : \/ Begin(r) \/ FindPage(r) \/ AgentFindsPage(r)
                        \/ Conclude(r) \/ CutShort(r) \/ Fail(r)
Spec == Init /\ [][Next]_outcome
=============================================================================
