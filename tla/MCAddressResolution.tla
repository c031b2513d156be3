------------------------ MODULE MCAddressResolution ------------------------
(***************************************************************************)
(* Two calls against one sidecar.  Three similar names against a cap of    *)
(* two: a list may be empty, short, full or cut.  One lot the graph holds, *)
(* one it does not.                                                        *)
(***************************************************************************)
EXTENDS AddressResolution

CONSTANTS c1, c2, held, absent, s1

MCCalls == {c1, c2}
MCLots == {held, absent}
MCBuildings == {held}
MCStreets == {s1}

=============================================================================
