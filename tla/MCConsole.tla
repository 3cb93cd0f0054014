------------------------------ MODULE MCConsole ------------------------------
(* A small instance of Console for TLC.                                      *)
EXTENDS Console, TLC

Budget(chat, dialog, faults) == [chat |-> chat, panel |-> dialog, faults |-> faults]

SmallBudgets ==
  {Budget(2, 0, 0), Budget(1, 0, 1), Budget(1, 2, 0), Budget(0, 4, 0), Budget(0, 3, 1)}

Symmetry == Permutations(Sessions) \cup Permutations(Names)
=============================================================================
