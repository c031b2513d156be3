--------------------------- MODULE MCInvestigation ---------------------------
(* Two investigations that may overlap.  The first has two calls per        *)
(* message, one of which may start an agent; the second has one.            *)
EXTENDS Investigation

CONSTANTS i1, i2

MCRuns == {i1, i2}
MCCalls == {<<i1, 1>>, <<i1, 2>>, <<i2, 1>>}
MCAgentCalls == {<<<<i1, 1>>, 1>>}

MCOneRun == {i1}
MCOneRunCalls == {<<i1, 1>>, <<i1, 2>>}
==============================================================================
