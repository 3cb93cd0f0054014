------------------------------- MODULE MCTurn --------------------------------
(* Small instances of Turn for TLC.                                          *)
EXTENDS Turn, TLC
=============================================================================
