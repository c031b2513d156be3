--------------------------- MODULE MCEventCounts ---------------------------
(***************************************************************************)
(* Evictions: words that mean open, and one ('EAST') that is listed        *)
(* without a meaning.  Court filings: words with dates, set apart or       *)
(* attached.  Three events may make three groups, one more than the cap.   *)
(***************************************************************************)
EXTENDS EventCounts, TLC

CONSTANTS eviction, filing, dobComplaint, open, pending, east, classA, e1, e2, e3

MCPairs == {eviction, filing}
MCImpossible == {dobComplaint}
MCWords == {open, pending, east}
Plain == [shouted |-> FALSE, led |-> FALSE, trailed |-> FALSE, tail |-> "none"]
MCWritings == {Plain, [Plain EXCEPT !.led = TRUE], [Plain EXCEPT !.trailed = TRUE],
               [Plain EXCEPT !.shouted = TRUE, !.tail = "apart"],
               [Plain EXCEPT !.shouted = TRUE, !.tail = "attached"]}
MCStatusOf == eviction :> (open :> "OPEN" @@ pending :> "PENDING")
              @@ filing :> (open :> "CLOSED" @@ pending :> "PENDING" @@ east :> "UNKNOWN")
MCListedRaw == eviction :> {open, pending, east} @@ filing :> {}
MCConcluded == {"CLOSED"}
MCClasses == {classA}
MCEvents == {e1, e2, e3}
Sym == Permutations(MCEvents)

=============================================================================
