------------------------------- MODULE MCHost -------------------------------
(* The worker writes and the page only runs commands.  One text is empty    *)
(* (a file truncated), the other takes two commands to stage.               *)
EXTENDS Host, TLC

CONSTANTS empty, long

MCPieceCount == (empty :> 0) @@ (long :> 2)
=============================================================================
