---------------------------- MODULE MCTurnStream ----------------------------
(***************************************************************************)
(* One tool of each kind, as the library has them: a building's record, a  *)
(* landlord's portfolio, the comparison that delegates to it, and the      *)
(* investigation; one that writes its own Cypher, and two the import       *)
(* refuses (a search without a derived element, a misspelt name).          *)
(***************************************************************************)
EXTENDS TurnStream, TLC

CONSTANTS record, membership, compare, investigation, cypher, search, typo

MCFunctions == {record, membership, compare, investigation, cypher, search, typo}
Reads(touches, sources, own) ==
  [touches |-> touches, external_sources |-> sources, self_generated_cypher |-> own]
MCDeclared ==
  record :> Reads({"Building", "Building.dof_ownername"}, {"geosupport"}, FALSE)
  @@ membership :> Reads({"Landlord", "MEMBER_OF"}, {}, FALSE)
  @@ compare :> Reads({}, {}, FALSE)
  @@ investigation :> Reads({"Landlord", "APPARENT_CONTROL"}, {"web_search", "registry_search"}, TRUE)
  @@ cypher :> Reads({"Portfolio"}, {}, TRUE)
  @@ search :> Reads({"Building"}, {"web_search"}, FALSE)
  @@ typo :> Reads({"Landlords"}, {}, FALSE)
MCDelegates == [f \in MCFunctions |-> IF f = compare THEN {record, membership} ELSE {}]

=============================================================================
