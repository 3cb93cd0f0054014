------------------------------ MODULE MCAttach -------------------------------
(* Small instances of Attach for TLC.                                        *)
EXTENDS Attach
=============================================================================
