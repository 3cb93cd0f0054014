------------------------------ MODULE MCHistory ------------------------------
(* Small instances of History for TLC.                                       *)
EXTENDS History, TLC

\* An old session that starts with a greeting of the assistant.
Greeted == <<"text", "user", "text">>

Symmetry == Permutations(Prompts)
=============================================================================
