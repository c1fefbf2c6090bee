------------------------------ MODULE MCGuest ------------------------------
(* Commands that work, that fail with a status of two digits, that never    *)
(* end, and that read their standard input.                                 *)
EXTENDS Guest

MCCommands ==
  {[kind |-> "ends", status |-> <<0>>],
   [kind |-> "ends", status |-> <<1, 2>>],
   [kind |-> "hangs", status |-> <<0>>],
   [kind |-> "eats", status |-> <<0>>]}
=============================================================================
