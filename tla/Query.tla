-------------------------------- MODULE Query --------------------------------
(* A query atom of the web client: the last result of a request, and whether *)
(* one is under way.  A refresh interrupts the request under way and sends it *)
(* again; meanwhile the last result stays on screen.                         *)
Mounted == [state |-> "initial", value |-> <<>>, sent |-> TRUE]

Refreshed(q) == [q EXCEPT !.sent = TRUE]

Delivered(value) == [state |-> "success", value |-> value, sent |-> FALSE]

Failed == [state |-> "failure", value |-> <<>>, sent |-> FALSE]

\* It shows a result and expects no other.
Settled(q) == q.state = "success" /\ ~q.sent
=============================================================================
