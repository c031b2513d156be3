------------------------------ MODULE MCChatUi ------------------------------
(***************************************************************************)
(* One sample for anyone and one for vetted threads: enough to choose, to  *)
(* change the choice and to lose it with the trust level.                  *)
(***************************************************************************)
EXTENDS ChatUi

CONSTANTS building, casefile

MCPublic == {building}
MCVetted == {casefile}

=============================================================================
