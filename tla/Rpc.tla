-------------------------------- MODULE Rpc --------------------------------
(***************************************************************************)
(* What one blocking call across the worker/page boundary promises         *)
(* (kxbox/web/channel.js): a call is answered once, by a reply made for    *)
(* it, and what the caller gets is that reply and all of it.  The buffer,  *)
(* its chunks and the wait/notify handshake do not appear here.            *)
(***************************************************************************)
EXTENDS Naturals

CONSTANTS
  Requests,   \* what a worker may ask for
  MaxSize,    \* bound: the longest encoded reply, in bytes
  None

VARIABLES
  open,       \* a call has been made and has not returned
  request,    \* the call in progress, or the last one
  given,      \* the reply the page made for it, or None
  outcome     \* what the last call returned (or threw), or None

rpcVars == <<open, request, given, outcome>>

\* A reply is never empty: the shortest is the JSON text around a value.
Replies == [to : Requests, ok : BOOLEAN, size : 1..MaxSize]

Init ==
  /\ open = FALSE
  /\ request = None
  /\ given = None
  /\ outcome = None

Ask(r) ==
  /\ ~open
  /\ open' = TRUE
  /\ request' = r
  /\ given' = None
  /\ outcome' = None

Answer(rep) ==
  /\ open
  /\ given = None
  /\ rep.to = request
  /\ given' = rep
  /\ UNCHANGED <<open, request, outcome>>

Take ==
  /\ open
  /\ given # None
  /\ open' = FALSE
  /\ outcome' = given
  /\ UNCHANGED <<request, given>>

Next ==
  \/ \E r \in Requests : Ask(r)
  \/ \E rep \in Replies : Answer(rep)
  \/ Take

Spec == Init /\ [][Next]_rpcVars

=============================================================================
