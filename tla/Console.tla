------------------------------- MODULE Console -------------------------------
(* A tab of the web client: the chat and the memory panel, a dialog above it. *)
(* What the user does and what fails is drawn from budgets, so that TLC can   *)
(* follow all that the program does about it.                                 *)
EXTENDS Chat, Memory

CONSTANT Budgets  \* bound: the acts of the user in the chat and in the panel,
                  \* and the faults and acts of others, of one behaviour

VARIABLE budget

vars == <<chatVars, memoryVars, budget>>

Init ==
  /\ ChatInit /\ MemoryInit
  /\ budget \in Budgets
  /\ budget.panel > 0 => \A s \in Sessions : turns[s] = <<>>
  /\ budget.panel = 0 => Listed = {}

Spend(kind) == budget[kind] > 0 /\ budget' = [budget EXCEPT ![kind] = @ - 1]

\* While the dialog is open the user cannot reach what is below it.
ChatMoves ==
  /\ \/ ~panel.open /\ ChatUser /\ Spend("chat")
     \/ ChatFaults /\ Spend("faults")
     \/ ChatSteps /\ UNCHANGED budget
  /\ UNCHANGED memoryVars

PanelMoves ==
  /\ \/ PanelUser /\ Spend("panel")
     \/ PanelFaults /\ Spend("faults")
     \/ PanelSteps /\ UNCHANGED budget
  /\ UNCHANGED chatVars

\* A turn under way, of any session, uses the memory tools.
TurnRemembers ==
  /\ \E s \in Sessions : LatestTurnInFlight(turns[s])
  /\ ToolChanges /\ Spend("panel")
  /\ UNCHANGED chatVars

Next == ChatMoves \/ PanelMoves \/ TurnRemembers

Spec == Init /\ [][Next]_vars
=============================================================================
