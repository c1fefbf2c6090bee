------------------------------ MODULE Tracing ------------------------------
(***************************************************************************)
(* One trace, taken by writing the control files of the tracing            *)
(* filesystem in a fixed order: V86.tape of kxbox/bridge.py on the guest   *)
(* ("v86") and Tracefs.capture of kxray/tracefs.py on a real machine       *)
(* ("native").  A routine is the list of its operations, cut where Python  *)
(* enters and leaves the `try`, and any operation of it may fail.          *)
(*                                                                         *)
(* The kernel's side is what the two files rely on: an option of           *)
(* function_graph is refused while another tracer is selected, and a       *)
(* running tracer records whatever happens.                                *)
(***************************************************************************)
EXTENDS Naturals, Sequences

CONSTANTS
  Backends,    \* where traces are taken: a subset of {"v86", "native"}
  FaultsIn,    \* pairs <<backend, phase>> in which an operation may fail
  MaxWindows,  \* bound: how many traces are taken
  None

Phases == {"setup", "body", "finally"}

ASSUME TracingAssumption ==
  /\ Backends \subseteq {"v86", "native"}
  /\ FaultsIn \subseteq Backends \X Phases
  /\ MaxWindows \in Nat

VARIABLES
  backend,  \* the machine, chosen once
  conf,     \* the control files of its kernel
  ring,     \* whose records are in the ring buffer: windows, or 0 for others
  phase,    \* "idle", or the part of the routine that is running
  todo,     \* the operations of that part not done yet
  args,     \* what the routine was called with, and the tracer it found
  windows,  \* how many routines have been called
  text,     \* what the last one read out of the trace file, or None
  origin    \* the control files before the first of them

kernelVars == <<conf, ring>>
callVars == <<phase, todo, args, windows, text>>
vars == <<backend, kernelVars, callVars, origin>>

-----------------------------------------------------------------------------
(* The control files.                                                      *)

Options == {"proc", "irqs"}

Settings ==
  [on : BOOLEAN, tracer : {"nop", "function", "function_graph"},
   proc : BOOLEAN, irqs : BOOLEAN, graph : {"", "vfs_write"}, depth : {0, 2}]

\* A guest that has just booted.
Booted ==
  [on |-> TRUE, tracer |-> "nop", proc |-> FALSE, irqs |-> TRUE, graph |-> "", depth |-> 0]

Op(op, file, value) == [op |-> op, file |-> file, value |-> value]
Put(file, value) == Op("write", file, value)
Clear == Op("clear", "trace", "")
Do == Op("do", None, None)
Read == Op("read", "trace", None)

\* Whether the kernel takes a write.
Accepts(o) == o.file \in Options => conf.tracer = "function_graph"

-----------------------------------------------------------------------------
(* The two routines.                                                       *)

WANTED == <<Put("proc", TRUE), Put("irqs", FALSE)>>

\* Mutant of RESTORED: interrupts stay hidden from later traces.
RESTORED_ProcOnly == <<Put("proc", FALSE)>>

RESTORED == <<Put("proc", FALSE), Put("irqs", TRUE)>>

OnGuest(r) == r.backend = "v86"

\* Mutant of Setup: the ring buffer is not emptied.
Setup_NoClear(r) ==
  <<Put("on", FALSE), Put("tracer", "function_graph")>>
  \o (IF OnGuest(r) THEN WANTED ELSE <<>>)
  \o <<Put("graph", r.graph), Put("depth", r.depth)>>

Setup(r) ==
  <<Put("on", FALSE), Put("tracer", "function_graph")>>
  \o (IF OnGuest(r) THEN WANTED ELSE <<>>)
  \o <<Put("graph", r.graph), Put("depth", r.depth), Clear>>

\* A program that owns its window opens and closes it from the inside.
Body(r) ==
  (IF r.owns THEN <<>> ELSE <<Put("on", TRUE)>>) \o <<Do, Put("on", FALSE), Read>>

\* Mutant of Finally: the tracer goes back first.
Finally_TracerFirst(r) ==
  <<Put("on", FALSE), Put("tracer", r.before)>>
  \o (IF OnGuest(r) THEN RESTORED ELSE <<>>) \o <<Put("graph", ""), Put("depth", 0)>>

\* Mutant of Finally: trusts the body to have turned tracing off.
Finally_LeavesOn(r) ==
  (IF OnGuest(r) THEN RESTORED ELSE <<>>)
  \o <<Put("graph", ""), Put("depth", 0), Put("tracer", r.before)>>

Finally(r) ==
  IF OnGuest(r)
  THEN <<Put("on", FALSE)>> \o RESTORED
       \o <<Put("graph", ""), Put("depth", 0), Put("tracer", r.before)>>
  ELSE <<Put("on", FALSE), Put("tracer", r.before), Put("graph", ""), Put("depth", 0)>>

\* Mutant of AfterFault: there is no `try`.
AfterFault_NoTry(r, p) == "idle"

\* What runs after an exception: tape enters its `try` after the setup,
\* capture before it.
AfterFault(r, p) ==
  IF p = "body" \/ (p = "setup" /\ ~OnGuest(r)) THEN "finally" ELSE "idle"

After(p) == CASE p = "setup" -> "body" [] p = "body" -> "finally" [] OTHER -> "idle"

Part(r, p) ==
  CASE p = "setup" -> Setup(r) [] p = "body" -> Body(r) [] p = "finally" -> Finally(r)
    [] OTHER -> <<>>

Enter(p) == phase' = p /\ todo' = Part(args, p)

-----------------------------------------------------------------------------
Init ==
  /\ backend \in Backends
  /\ conf \in IF backend = "v86" THEN {Booted} ELSE {c \in Settings : ~c.proc /\ c.irqs}
  /\ ring = {}
  /\ phase = "idle"
  /\ todo = <<>>
  /\ args = None
  /\ windows = 0
  /\ text = None
  /\ origin = conf

(* The routine is called and reads the tracer it will put back. *)
Begin(owns, graph, depth) ==
  /\ phase = "idle"
  /\ windows < MaxWindows
  /\ owns => backend = "v86"
  /\ args' = [backend |-> backend, owns |-> owns, graph |-> graph, depth |-> depth,
              before |-> conf.tracer]
  /\ phase' = "setup"
  /\ todo' = Setup(args')
  /\ windows' = windows + 1
  /\ text' = None
  /\ UNCHANGED <<backend, kernelVars, origin>>

\* The program in its window, or the caller's function in the open one.
Records ==
  IF conf.tracer = "function_graph" /\ (args.owns \/ conf.on) THEN {windows} ELSE {}

\* What an operation does to the kernel.
Effect(o) ==
  \/ /\ o.op = "write" /\ Accepts(o)
     /\ conf' = [conf EXCEPT ![o.file] = o.value]
     /\ UNCHANGED ring
  \/ o.op = "clear" /\ ring' = {} /\ UNCHANGED conf
  \/ /\ o.op = "do"
     /\ ring' = ring \cup Records
     /\ conf' = IF args.owns THEN [conf EXCEPT !.on = FALSE] ELSE conf
  \/ o.op = "read" /\ UNCHANGED kernelVars

(* The next operation succeeds. *)
Step ==
  /\ todo # <<>>
  /\ Effect(Head(todo))
  /\ text' = IF Head(todo).op = "read" THEN ring ELSE text
  /\ IF Len(todo) > 1
     THEN todo' = Tail(todo) /\ UNCHANGED phase
     ELSE Enter(After(phase))
  /\ UNCHANGED <<backend, args, windows, origin>>

\* It raises: a refusal, what is traced throwing, or a command whose deadline
\* passes and that the guest's shell runs all the same.
Raise ==
  /\ todo # <<>>
  /\ <<backend, phase>> \in FaultsIn \/ (Head(todo).op = "write" /\ ~Accepts(Head(todo)))
  /\ \/ UNCHANGED kernelVars
     \/ (OnGuest(args) \/ Head(todo).op = "do") /\ Effect(Head(todo))
  /\ Enter(AfterFault(args, phase))
  /\ UNCHANGED <<backend, args, windows, text, origin>>

(* Something else runs: the guest's shell between two of its commands. *)
Background ==
  /\ conf.on
  /\ conf.tracer # "nop"
  /\ 0 \notin ring
  /\ ring' = ring \cup {0}
  /\ UNCHANGED <<backend, conf, callVars, origin>>

Next ==
  \/ \E owns \in BOOLEAN, graph \in {"", "vfs_write"}, depth \in {0, 2} :
       Begin(owns, graph, depth)
  \/ Step \/ Raise \/ Background

Spec == Init /\ [][Next]_vars

-----------------------------------------------------------------------------
Operations == {Put(f, v) : f \in {"on", "proc", "irqs"}, v \in BOOLEAN}
  \cup {Put("tracer", v) : v \in {"nop", "function", "function_graph"}}
  \cup {Put("graph", v) : v \in {"", "vfs_write"}} \cup {Put("depth", v) : v \in {0, 2}}
  \cup {Clear, Do, Read}

\* Every variable holds a value the code could put there.
TypeOK ==
  /\ backend \in Backends
  /\ conf \in Settings /\ origin \in Settings
  /\ ring \subseteq 0..windows
  /\ phase \in Phases \cup {"idle"}
  /\ \A i \in DOMAIN todo : todo[i] \in Operations
  /\ todo = <<>> <=> phase = "idle"
  /\ windows \in 0..MaxWindows
  /\ text # None => text \subseteq 0..windows

\* Between two traces the tracer is the one that was selected before the first
\* of them, whatever went wrong in the traces in between (bridge.py:224).
TracerPutBack == phase = "idle" => conf.tracer = origin.tracer

\* Nor is anything left on that fills the buffer or filters the next trace.
NothingLeftOn ==
  phase = "idle" /\ windows > 0 =>
    /\ ~conf.on
    /\ conf.graph = "" /\ conf.depth = 0
    /\ conf.proc = origin.proc /\ conf.irqs = origin.irqs

\* A trace handed to the reader has the window it was taken of and nothing of
\* an earlier one; when the program owns its window, nothing of the shell either.
OnlyItsWindow ==
  text # None =>
    /\ windows \in text
    /\ text \subseteq IF args.owns THEN {windows} ELSE {0, windows}

\* No write is one the kernel refuses: the options are set and put back while
\* function_graph is selected (bridge.py:228-230).
NoOptionRefused == todo # <<>> => Accepts(Head(todo))

\* The tracer is never changed while it is running, which would leave two
\* tracers' records in one buffer (bridge.py:203-205).
TracerChangesOnlyWhenOff == [][conf'.tracer # conf.tracer => ~conf.on]_vars

\* "Trace one thing and put the machine back the way it was" (tracefs.py:75).
PutBackTheWayItWas == phase = "idle" => conf = origin

-----------------------------------------------------------------------------
(* Where faults are injected.  `InsideTry` is every place the code promises  *)
(* to clean up after; `InSetup` is the one tape does not cover.              *)
InsideTry == {<<"v86", "body">>, <<"native", "setup">>, <<"native", "body">>}
InSetup == {<<"v86", "setup">>}
=============================================================================
