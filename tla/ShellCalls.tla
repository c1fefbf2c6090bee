----------------------------- MODULE ShellCalls -----------------------------
(***************************************************************************)
(* What Guest.run of kxbox/web/host.js promises the rest of the page:      *)
(* commands are taken one at a time in the order they were asked for, and  *)
(* each is settled once, by its own exit status or by its deadline.  The   *)
(* serial line, the markers and the console noise do not appear.           *)
(***************************************************************************)
EXTENDS Naturals, Sequences

CONSTANT MaxCalls   \* bound: how many commands are ever asked for

VARIABLES
  works,    \* per call: does its command exit zero when the shell runs it
  ran,      \* the calls whose command the shell has run to the end
  outcome   \* per call: "pending", "ok", "failed" or "timeout"

callVars == <<works, ran, outcome>>

Calls == 1..Len(outcome)

\* Every call before k has been settled.
Reached(k) == \A j \in 1..(k - 1) : outcome[j] # "pending"

Init == works = <<>> /\ ran = {} /\ outcome = <<>>

Ask(b) ==
  /\ Len(outcome) < MaxCalls
  /\ works' = Append(works, b)
  /\ outcome' = Append(outcome, "pending")
  /\ UNCHANGED ran

\* The shell may get to a command after its caller has given up on it.
Execute(k) ==
  /\ Reached(k)
  /\ \A j \in ran : j < k
  /\ ran' = ran \cup {k}
  /\ UNCHANGED <<works, outcome>>

Settle(k, how) ==
  /\ Reached(k)
  /\ outcome[k] = "pending"
  /\ how = "timeout" \/ (k \in ran /\ how = IF works[k] THEN "ok" ELSE "failed")
  /\ outcome' = [outcome EXCEPT ![k] = how]
  /\ UNCHANGED <<works, ran>>

Next ==
  \/ \E b \in BOOLEAN : Ask(b)
  \/ \E k \in Calls : Execute(k)
  \/ \E k \in Calls, how \in {"ok", "failed", "timeout"} : Settle(k, how)

Spec == Init /\ [][Next]_callVars

=============================================================================
