-------------------------------- MODULE MCMcp --------------------------------
(* A small instance of Mcp for TLC.                                          *)
EXTENDS Mcp

Shape(of, n) == [of |-> of, n |-> n]

\* For one of the calls, the reply on one line or behind another event, which
\* may be the reply to another request, on two, or no reply; for the others
\* just the reply.
ServerStreams(o) ==
  IF o # "c1" THEN {<<Shape("due", 1)>>}
  ELSE {<<Shape("due", 1), Shape("comment", 1)>>, <<Shape("comment", 1), Shape("due", 2)>>,
        <<Shape("text", 1)>>, <<Shape("beside", 2), Shape("due", 2)>>}
=============================================================================
