---------------------------- MODULE MCWorkspace -----------------------------
(* Small instances of Workspace for TLC.                                     *)
EXTENDS Workspace, TLC

CONSTANTS t1, u, f1, f2

Turn == {"exec", "turnEnd"}

\* One turn, which may schedule its work, and an upload.
MayTurn == (t1 :> Turn \cup {"promote"}) @@ (u :> {"upload"})
\* Anything, beside an upload.
MayAllBeside == (t1 :> Kinds) @@ (u :> {"upload"})

\* The faults of requests that are answered with an error.
Errors == {"hydrate", "command", "upload", "snapshot", "copy"}
ErrorsAndSleep == Errors \cup {"sleep"}

\* File names are interchangeable.
FileSymmetry == Permutations(Files)
=============================================================================
