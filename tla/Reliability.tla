---------------------------- MODULE Reliability ----------------------------
(***************************************************************************)
(* What a tool declares it reads, and what follows from it before any call *)
(* (watchline/discovery/agent/reliability.py, caveats.py): its type, the   *)
(* caveats every result carries, whether it takes a vetted thread, and     *)
(* whether the module that declares it can be imported at all.             *)
(*                                                                         *)
(* Abstracted: a caveat is the derived element it speaks of.               *)
(***************************************************************************)

TYPE_II_ELEMENTS == {"Landlord", "Portfolio", "APPARENT_CONTROL", "CONNECTED_BY_NAME",
                     "CONNECTED_BY_ADDRESS", "MEMBER_OF", "IN_PORTFOLIO"}
TYPE_I_ELEMENTS == {"Building", "Actor", "Event", "HAS_EVENT", "REGISTERED_FOR", "PARTY_TO",
                    "REFERENCES", "Building.dof_ownername"}
ExternalSource == {"geosupport", "web_search", "registry_search"}
TIER_4_ONLY == {"web_search", "registry_search"}
ReliabilityType == {"I", "II", "III", "IV"}

\* touches may hold a misspelt name: the import refuses it.
Declaration == [touches : SUBSET STRING, external_sources : SUBSET ExternalSource,
                self_generated_cypher : BOOLEAN]

\* CAVEATS: the recorded owner's explains a record, the others warn of one.
Warnings == {"Landlord", "Portfolio", "APPARENT_CONTROL", "CONNECTED_BY_ADDRESS", "CONNECTED_BY_NAME"}
DerivedElement == Warnings \cup {"Building.dof_ownername"}

\* _ELEMENT_CAVEATS: edges into a portfolio are covered by its caveat.
HasCaveat == TYPE_II_ELEMENTS \cup {"Building.dof_ownername"}
CaveatOf(element) == IF element \in {"MEMBER_OF", "IN_PORTFOLIO"} THEN "Portfolio" ELSE element

-----------------------------------------------------------------------------
\* reliability_of
Type(decl) ==
  IF decl.external_sources \cap TIER_4_ONLY # {} THEN "IV"
  ELSE IF decl.self_generated_cypher THEN "III"
  ELSE IF decl.touches \cap TYPE_II_ELEMENTS # {} THEN "II"
  ELSE "I"

OneCaveat(decl) ==                 \* mutant: edges are taken to need no caveat
  {element \in decl.touches : element \in DerivedElement}

Caveats(decl) == {CaveatOf(element) : element \in decl.touches \cap HasCaveat}

NoTypeIII(decl) ==                 \* mutant: only searches take a vetted thread
  decl.external_sources \cap TIER_4_ONLY # {}

requires_tier_4(decl) ==
  Type(decl) \in {"III", "IV"} \/ decl.external_sources \cap TIER_4_ONLY # {}

NamesUnchecked(decl) ==            \* mutant: an unknown name counts as type I
  Type(decl) # "I" => Caveats(decl) \cap Warnings # {}

\* tagged raises on an unknown name, and on a derived answer without a warning.
Imports(decl) ==
  /\ decl.touches \subseteq TYPE_I_ELEMENTS \cup TYPE_II_ELEMENTS
  /\ Type(decl) # "I" => Caveats(decl) \cap Warnings # {}

as_payload(decl) == [type |-> Type(decl), elements |-> decl.touches, caveats |-> Caveats(decl)]

=============================================================================
