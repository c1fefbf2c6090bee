--------------------------- MODULE FunctionGraph ---------------------------
(***************************************************************************)
(* The reader of function_graph traces, kxray/trace/function_graph.py, and *)
(* the tape it builds, kxray/models/tape.py.  The tracer prints one line   *)
(* at a time, of whatever the tasks on the processors do, and the reader   *)
(* sees the lines in that order; so a step is a line printed and read.     *)
(* What the reader knows is in tape.  calls is what it does not see: the   *)
(* calls each task is really in.  The ring buffer keeps the newest lines   *)
(* only, so a trace may begin inside calls it does not show, and it ends   *)
(* anywhere.  A frame is named by the line it was read from, and a         *)
(* duration by the line of the call that took it.                          *)
(***************************************************************************)
EXTENDS Integers, Sequences, SequencesExt, FiniteSetsExt

CONSTANTS Cpus, Tasks, Names,
          MaxLines,     \* the lines of a trace
          MaxOther,     \* those of them that are neither calls nor returns
          MaxLost       \* the calls the tasks are in before the trace begins

ASSUME SizesAssumption == MaxLines \in Nat /\ MaxOther \in Nat /\ MaxLost \in Nat
ASSUME EnoughTasks == \E start \in [Cpus -> Tasks] : IsInjective(start)

VARIABLES
  tape,     \* what the reader has built: lines counted, frames, events, refusals, open frames
  running,  \* the task on each processor
  calls,    \* the calls each task is in, outermost first
  told,     \* of each frame, the call it stands for
  tail,     \* whether the kernel repeats the name at a closing brace
  mixed,    \* the processors whose task has changed during the trace
  ended     \* the text is at its end
vars == <<tape, running, calls, told, tail, mixed, ended>>

Verdicts == {"READ", "SKIPPED", "UNPARSED"}
Skipped  == {"blank", "separator", "header", "empty body"}
Unknown  == {"no CPU column", "no duration column", "bad duration", "unrecognised body"}
Events   == {"comment", "interrupt entry", "interrupt exit", "task switch"}

-----------------------------------------------------------------------------
(* The reader.  A frame is known by its place in tape.frames.              *)

EmptyTape ==
    [lines |-> [v \in Verdicts |-> 0], frames |-> <<>>, events |-> <<>>, unparsed |-> <<>>,
     stacks |-> [c \in Cpus |-> <<>>]]

Number(tp) == tp.lines["READ"] + tp.lines["SKIPPED"] + tp.lines["UNPARSED"]
Count(tp, verdict) == [tp EXCEPT !.lines[verdict] = @ + 1]
Refuse(tp, why) ==
    [Count(tp, "UNPARSED") EXCEPT !.unparsed = Append(@, [line |-> Number(tp) + 1, why |-> why])]

\* Mutant of Attach: one stack for the trace and not one for each processor.
Attach_OneStack(tp, line, duration) ==
    LET open == UNION {ToSet(tp.stacks[c]) : c \in Cpus}
    IN  [tp EXCEPT !.frames = Append(@,
            [name |-> line.name, cpu |-> line.cpu, depth |-> line.depth, duration |-> duration,
             complete |-> TRUE, parent |-> IF open = {} THEN 0 ELSE Max(open)])]

\* _attach: a new frame goes under the innermost frame open on its processor, or is a root.
Attach(tp, line, duration) ==
    LET stack == tp.stacks[line.cpu]
    IN  [tp EXCEPT !.frames = Append(@,
            [name |-> line.name, cpu |-> line.cpu, depth |-> line.depth, duration |-> duration,
             complete |-> TRUE, parent |-> IF stack = <<>> THEN 0 ELSE Last(stack)])]

\* A closing brace: the innermost open frame gets its duration, even when the brace names another.
Close(tp, line) ==
    LET stack == tp.stacks[line.cpu]
        frame == Last(stack)
        after == [tp EXCEPT !.stacks[line.cpu] = Front(@), !.frames[frame].duration = line.duration]
    IN  CASE stack = <<>> -> Refuse(tp, "closing brace with no matching call")
          [] stack # <<>> /\ line.name \in Names /\ line.name # tp.frames[frame].name ->
                Refuse(after, "closing brace names another")
          [] OTHER -> Count(after, "READ")

\* _read_line and _read_body: every line is read, skipped or refused.
ReadLine(tp, line) ==
    CASE line.k \in Skipped -> Count(tp, "SKIPPED")
      [] line.k \in Unknown -> Refuse(tp, line.k)
      [] line.k \in Events  -> [Count(tp, "READ") EXCEPT !.events = Append(@, line)]
      [] line.k = "close"   -> Close(tp, line)
      [] line.k = "leaf"    -> Count(Attach(tp, line, line.duration), "READ")
      [] line.k = "open"    ->
            Count([Attach(tp, line, <<>>) EXCEPT !.stacks[line.cpu] = Append(@, Len(tp.frames) + 1)], "READ")

\* The end of parse: whatever is still open ran off the end of the buffer.
Ending(tp) ==
    LET open == UNION {ToSet(tp.stacks[c]) : c \in Cpus}
    IN  [tp EXCEPT !.frames = [i \in DOMAIN @ |-> IF i \in open THEN [@[i] EXCEPT !.complete = FALSE] ELSE @[i]]]

-----------------------------------------------------------------------------
(* The tape.                                                               *)

\* The children of a frame in the order they were attached; those of 0 are the roots.
Children(tp, i) ==
    LET under == {j \in DOMAIN tp.frames : tp.frames[j].parent = i}
    IN  CHOOSE s \in [1..Cardinality(under) -> under] : \A m, n \in DOMAIN s : m < n => s[m] < s[n]

\* Mutant of Walk: level by level.
Walk_ByLevel(tp) ==
    LET under[i \in 0..Len(tp.frames)] ==
            Children(tp, i) \o FlattenSeq([n \in DOMAIN Children(tp, i) |-> under[Children(tp, i)[n]]])
    IN  under[0]

\* walk: a frame, then everything under it; from 0, the whole tape.
Walk(tp) ==
    LET under[i \in 0..Len(tp.frames)] ==
            FlattenSeq([n \in DOMAIN Children(tp, i) |->
                          <<Children(tp, i)[n]>> \o under[Children(tp, i)[n]]])
    IN  under[0]

\* path: the frames from the outermost down to this one.
Path(tp, i) ==
    LET up[j \in 0..Len(tp.frames)] == IF j = 0 THEN <<>> ELSE Append(up[tp.frames[j].parent], j)
    IN  up[i]

-----------------------------------------------------------------------------
(* The kernel prints and the reader reads.                                 *)

Init ==
    /\ tape = EmptyTape
    /\ running \in {r \in [Cpus -> Tasks] : IsInjective(r)}
    /\ calls \in [Tasks -> {[n \in 1..k |-> [name |-> name, frame |-> 0]] :
                               name \in Names, k \in 0..MaxLost}]
    /\ Cardinality({lost \in Tasks \X (1..MaxLost) : lost[2] <= Len(calls[lost[1]])}) <= MaxLost
    /\ told = <<>>
    /\ tail \in BOOLEAN
    /\ mixed = [c \in Cpus |-> FALSE]
    /\ ended = FALSE

Emit(line) == ~ended /\ Number(tape) < MaxLines /\ tape' = ReadLine(tape, line)

\* How many lines were neither calls nor returns.
Others == tape.lines["SKIPPED"] + Len(tape.events)
          + Cardinality({i \in DOMAIN tape.unparsed : tape.unparsed[i].why \in Unknown})

\* The call a new frame stands for: its caller's frame, if that was printed, and its depth.
Told(c, returned) ==
    [caller   |-> LET stack == calls[running[c]] IN IF stack = <<>> THEN 0 ELSE Last(stack).frame,
     clean    |-> ~mixed[c],
     returned |-> returned]

\* A function is called that calls others.
Enter(c, name) ==
    LET t == running[c] IN
    /\ Emit([k |-> "open", cpu |-> c, name |-> name, depth |-> Len(calls[t])])
    /\ calls' = [calls EXCEPT ![t] = Append(@, [name |-> name, frame |-> Len(told) + 1])]
    /\ told' = Append(told, Told(c, FALSE))
    /\ UNCHANGED <<running, tail, mixed, ended>>

\* A function is called and returns, with nothing traced in between.
CallLeaf(c, name) ==
    /\ Emit([k |-> "leaf", cpu |-> c, name |-> name, depth |-> Len(calls[running[c]]),
              duration |-> <<Len(told) + 1>>])
    /\ told' = Append(told, Told(c, TRUE))
    /\ UNCHANGED <<running, calls, tail, mixed, ended>>

\* The innermost call of the running task returns.
Leave(c) ==
    LET t == running[c]
        call == Last(calls[t])
    IN
    /\ calls[t] # <<>>
    /\ Emit([k |-> "close", cpu |-> c, name |-> IF tail THEN call.name ELSE "unnamed",
              duration |-> <<call.frame>>])
    /\ calls' = [calls EXCEPT ![t] = Front(@)]
    /\ told' = IF call.frame = 0 THEN told ELSE [told EXCEPT ![call.frame].returned = TRUE]
    /\ UNCHANGED <<running, tail, mixed, ended>>

\* The processor goes over to another task, in the middle of whatever the first one was in.
Switch(c, t) ==
    /\ t \notin {running[d] : d \in Cpus} /\ Others < MaxOther
    /\ Emit([k |-> "task switch", cpu |-> c])
    /\ running' = [running EXCEPT ![c] = t]
    /\ mixed' = [mixed EXCEPT ![c] = TRUE]
    /\ UNCHANGED <<calls, told, tail, ended>>

\* Any other line: a blank, a header, a comment, an interrupt's marker, or one the reader does not know.
Other(c, kind) ==
    /\ Others < MaxOther
    /\ Emit([k |-> kind, cpu |-> c])
    /\ UNCHANGED <<running, calls, told, tail, mixed, ended>>

\* The text ends, wherever the tasks are.
End ==
    /\ ~ended
    /\ ended' = TRUE
    /\ tape' = Ending(tape)
    /\ UNCHANGED <<running, calls, told, tail, mixed>>

Next ==
    \/ \E c \in Cpus, name \in Names : Enter(c, name) \/ CallLeaf(c, name)
    \/ \E c \in Cpus : Leave(c)
    \/ \E c \in Cpus, t \in Tasks : Switch(c, t)
    \/ \E c \in Cpus, kind \in {"blank", "comment", "unrecognised body"} : Other(c, kind)
    \/ End

Spec == Init /\ [][Next]_vars

-----------------------------------------------------------------------------
(* Properties.                                                             *)

Frames == [name : Names, cpu : Cpus, depth : Nat, duration : Seq(Nat), complete : BOOLEAN,
           parent : Nat]

\* The lines of each verdict add up, every refusal is on the list with its line, in order, and
\* what is open on a processor are frames of that processor, each open under the one before.
TypeOK ==
    /\ tape.lines \in [Verdicts -> Nat]
    /\ \A i \in DOMAIN tape.frames : tape.frames[i] \in Frames /\ tape.frames[i].parent < i
    /\ Len(tape.unparsed) = tape.lines["UNPARSED"]
    /\ Len(tape.frames) + Len(tape.events) <= tape.lines["READ"] + tape.lines["UNPARSED"]
    /\ \A c \in Cpus : \A n \in DOMAIN tape.stacks[c] :
          /\ tape.frames[tape.stacks[c][n]].cpu = c
          /\ n > 1 => tape.stacks[c][n - 1] < tape.stacks[c][n]
    /\ running \in [Cpus -> Tasks] /\ IsInjective(running)
    /\ Len(told) = Len(tape.frames)

\* As long as a processor keeps its task, its frames are the calls that were made: each under
\* its caller, one level deeper, with the duration of its own call, and at the end marked
\* incomplete exactly when the call had not returned.  That calls are missing at the beginning
\* and at the end of the trace, and what other processors do in between, changes nothing.
FramesAreCalls ==
    \A i \in DOMAIN told :
        LET f == tape.frames[i] IN
        /\ told[i].clean =>
              /\ f.parent = told[i].caller
              /\ f.parent # 0 => f.depth = tape.frames[f.parent].depth + 1
        /\ ~mixed[f.cpu] =>
              /\ f.duration = IF told[i].returned THEN <<i>> ELSE <<>>
              /\ ended => f.complete = told[i].returned

\* The walk of a tape meets every frame once, and those of one processor in the order their
\* lines were printed, whatever the scheduler did.
WalkInOrder ==
    LET walk == Walk(tape)
    IN  /\ Len(walk) = Len(tape.frames)
        /\ \A m, n \in DOMAIN walk :
              m < n /\ tape.frames[walk[m]].cpu = tape.frames[walk[n]].cpu => walk[m] < walk[n]

\* models/tape.py says of path: names from the outermost frame down to this one.  Whatever the
\* scheduler did, the frame above another would be its caller's, or none when that was not printed.
PathIsCallPath ==
    \A i \in DOMAIN told :
        LET path == Path(tape, i)
            caller == told[i].caller
        IN  SubSeq(path, 1, Len(path) - 1) = IF caller = 0 THEN <<>> ELSE Path(tape, caller)
=============================================================================
