--------------------------- MODULE MCSessionMemory ---------------------------
(* A small thread: two landlords, one building, two reports.               *)
EXTENDS SessionMemory

CONSTANTS l1, l2, b1, r1, r2

MCLandlords == {l1, l2}
MCBuildings == {b1}
MCReports == {r1, r2}
MCCandidateLists == {<<l1>>, <<l2, l1>>}

Blank == [tool |-> "other", status |-> "negative", building |-> None,
          landlord |-> None, items |-> <<>>, report |-> None]

ResolvedAddress == [Blank EXCEPT !.tool = "resolve_address", !.status = "resolved",
                                 !.building = b1]
ResolvedName == [Blank EXCEPT !.tool = "resolve_landlord_name", !.status = "resolved",
                              !.landlord = l2]
AmbiguousName == [Blank EXCEPT !.tool = "resolve_landlord_name",
                               !.status = "needs_disambiguation", !.items = <<l2, l1>>]
OneController == [Blank EXCEPT !.tool = "lookup_building_ownership", !.status = "found",
                               !.building = b1, !.items = <<l1>>]
TwoControllers == [OneController EXCEPT !.items = <<l2, l1>>]
UnknownBuilding == [Blank EXCEPT !.tool = "lookup_building_ownership", !.building = b1]
Investigated(r) == [Blank EXCEPT !.tool = "deep_investigation", !.status = "complete",
                                 !.report = r]

MCPayloads == {ResolvedAddress, ResolvedName, AmbiguousName, OneController,
               TwoControllers, UnknownBuilding, Investigated(r1), Investigated(r2), Blank}

MCTexts == {[ordinal |-> 2, type |-> "none"], [ordinal |-> 1, type |-> "landlord"],
            [ordinal |-> 0, type |-> "building"], [ordinal |-> 0, type |-> "none"]}
==============================================================================
