------------------------ MODULE FunctionGraphProofs ------------------------
(***************************************************************************)
(* Proofs about FunctionGraph, for any number of processors, tasks and     *)
(* functions, traces of any length, and any calls the tasks are in before  *)
(* the trace begins.                                                       *)
(*                                                                         *)
(* The reader keeps a stack of frames for each processor; the kernel has a *)
(* stack of calls for each task.  As long as a processor keeps its task    *)
(* the first is the second without the calls that were made before the     *)
(* trace began, and that is the invariant.  Nothing is known of the frames *)
(* of a processor whose task has changed, except that they are not open on *)
(* another one and that no task of another one is in their calls.          *)
(*                                                                         *)
(* The frames are a forest, and a walk of it is a recursive function.      *)
(* What it meets is proved from the leaves up, from what the stacks of the *)
(* processors have made of the frames: that they are nested.               *)
(***************************************************************************)
EXTENDS FunctionGraph, FiniteSetTheorems, SequenceTheorems, WellFoundedInduction, TLAPS

Whys == Unknown \cup {"closing brace with no matching call", "closing brace names another"}

Tapes ==
  [lines : [Verdicts -> Nat], frames : Seq(Frames), events : Seq([k : Events, cpu : Cpus]),
   unparsed : Seq([line : Nat, why : Whys]), stacks : [Cpus -> Seq(Nat)]]

Typed ==
  /\ tape \in Tapes
  /\ running \in [Cpus -> Tasks]
  /\ \A c, d \in Cpus : running[c] = running[d] => c = d
  /\ calls \in [Tasks -> Seq([name : Names, frame : Nat])]
  /\ told \in Seq([caller : Nat, clean : BOOLEAN, returned : BOOLEAN])
  /\ mixed \in [Cpus -> BOOLEAN]
  /\ Len(told) = Len(tape.frames)
  /\ \A i \in 1..Len(tape.frames) : tape.frames[i].parent < i

\* What is open on a processor are frames of its own, one within the other.
OpenInv ==
  \A c \in Cpus : \A n \in 1..Len(tape.stacks[c]) :
    /\ tape.stacks[c][n] \in 1..Len(tape.frames)
    /\ tape.frames[tape.stacks[c][n]].cpu = c
    /\ \A m \in 1..(n - 1) : tape.stacks[c][m] < tape.stacks[c][n]

\* A task that is in a call of a processor that has kept its task is that task.
CallInv ==
  \A t \in Tasks : \A n \in 1..Len(calls[t]) :
    calls[t][n].frame # 0 =>
      /\ calls[t][n].frame \in 1..Len(told)
      /\ ~mixed[tape.frames[calls[t][n].frame].cpu] =>
           running[tape.frames[calls[t][n].frame].cpu] = t

\* The calls that were made before the trace began, as far as they still are.
Lost(c) == Len(calls[running[c]]) - Len(tape.stacks[c])

\* The reader's stack is the task's, without those.
StackInv ==
  \A c \in Cpus : ~mixed[c] =>
    /\ Lost(c) >= 0
    /\ \A n \in 1..Len(calls[running[c]]) :
         calls[running[c]][n].frame = IF n <= Lost(c) THEN 0 ELSE tape.stacks[c][n - Lost(c)]
    /\ \A n \in 1..Len(tape.stacks[c]) :
         tape.frames[tape.stacks[c][n]].depth = Lost(c) + n - 1

\* A call has returned when its frame is open no longer.
ReturnInv ==
  \A i \in 1..Len(tape.frames) :
    /\ tape.frames[i].complete = TRUE
    /\ ~mixed[tape.frames[i].cpu] =>
         (told[i].returned <=> \A n \in 1..Len(tape.stacks[tape.frames[i].cpu]) :
                                  tape.stacks[tape.frames[i].cpu][n] # i)

FInv ==
  /\ Typed /\ FramesAreCalls
  /\ ~ended => OpenInv /\ CallInv /\ StackInv /\ ReturnInv

-----------------------------------------------------------------------------
(* What a line does to the tape.                                           *)

\* The frame a line opens.
NewFrame(tp, line, duration) ==
  [name |-> line.name, cpu |-> line.cpu, depth |-> line.depth, duration |-> duration,
   complete |-> TRUE,
   parent |-> IF tp.stacks[line.cpu] = <<>> THEN 0 ELSE Last(tp.stacks[line.cpu])]

LEMMA LastOf ==
  ASSUME NEW K, NEW s \in Seq(K), s # <<>>
  PROVE  /\ Len(s) \in Nat /\ Len(s) >= 1 /\ Last(s) = s[Len(s)] /\ Last(s) \in K
         /\ Front(s) \in Seq(K) /\ Len(Front(s)) = Len(s) - 1
         /\ \A i \in 1..(Len(s) - 1) : Front(s)[i] = s[i]
  <1>1. Len(s) \in Nat /\ Len(s) >= 1
    OBVIOUS
  <1>2. Last(s) = s[Len(s)] /\ Last(s) \in K
    BY <1>1 DEF Last
  <1>3. \A i \in 1..(Len(s) - 1) : s[i] \in K
    BY <1>1
  <1>4. Front(s) = SubSeq(s, 1, Len(s) - 1)
    BY DEF Front
  <1>5. /\ Front(s) \in Seq(K) /\ Len(Front(s)) = Len(s) - 1
        /\ \A i \in 1..(Len(s) - 1) : Front(s)[i] = s[i]
    <2>1. 1 \in Int /\ Len(s) - 1 \in Int
      BY <1>1
    <2>2. /\ SubSeq(s, 1, Len(s) - 1) \in Seq(K)
          /\ Len(SubSeq(s, 1, Len(s) - 1)) = IF 1 <= Len(s) - 1 THEN Len(s) - 1 - 1 + 1 ELSE 0
          /\ \A i \in 1..(Len(s) - 1 - 1 + 1) : SubSeq(s, 1, Len(s) - 1)[i] = s[1 + i - 1]
      BY <2>1, <1>3, SubSeqProperties
    <2>3. /\ Len(s) - 1 - 1 + 1 = Len(s) - 1
          /\ (IF 1 <= Len(s) - 1 THEN Len(s) - 1 - 1 + 1 ELSE 0) = Len(s) - 1
          /\ \A i \in 1..(Len(s) - 1) : 1 + i - 1 = i
      <3>1. PICK n \in Nat : n = Len(s) /\ n >= 1
        BY <1>1
      <3>2. /\ n - 1 - 1 + 1 = n - 1
            /\ (IF 1 <= n - 1 THEN n - 1 - 1 + 1 ELSE 0) = n - 1
        BY <3>1
      <3>3. \A i \in 1..(n - 1) : 1 + i - 1 = i
        BY <3>1
      <3>4. QED  BY <3>1, <3>2, <3>3
    <2>4. \A i \in 1..(Len(s) - 1) : Front(s)[i] = s[i]
      BY <2>2, <2>3, <1>4
    <2>5. QED  BY <2>2, <2>3, <2>4, <1>4
  <1>6. QED  BY <1>1, <1>2, <1>5

LEMMA AppendOf ==
  ASSUME NEW K, NEW s \in Seq(K), NEW x \in K
  PROVE  /\ Append(s, x) \in Seq(K) /\ Len(Append(s, x)) = Len(s) + 1 /\ Len(s) \in Nat
         /\ \A i \in 1..Len(s) : Append(s, x)[i] = s[i]
         /\ Append(s, x)[Len(s) + 1] = x
  OBVIOUS

\* Counting a line leaves the frames and what is open alone.
LEMMA CountOf ==
  ASSUME NEW tp \in Tapes, NEW v \in Verdicts
  PROVE  /\ Count(tp, v) \in Tapes /\ Count(tp, v).frames = tp.frames
         /\ Count(tp, v).stacks = tp.stacks /\ Number(tp) \in Nat
  <1>1. tp.lines \in [Verdicts -> Nat]
    BY DEF Tapes
  <1>2. PICK more : more = [tp.lines EXCEPT ![v] = tp.lines[v] + 1]
    OBVIOUS
  <1>3. more \in [Verdicts -> Nat] /\ Number(tp) \in Nat
    BY <1>1, <1>2 DEF Number, Verdicts
  <1>4. Count(tp, v) = [tp EXCEPT !.lines = more]
    BY <1>2 DEF Count, Tapes
  <1>5. QED  BY <1>3, <1>4 DEF Tapes

LEMMA RefuseOf ==
  ASSUME NEW tp \in Tapes, NEW why \in Whys
  PROVE  /\ Refuse(tp, why) \in Tapes /\ Refuse(tp, why).frames = tp.frames
         /\ Refuse(tp, why).stacks = tp.stacks
  <1>1. PICK u : u = Count(tp, "UNPARSED")
    OBVIOUS
  <1>2. u \in Tapes /\ u.frames = tp.frames /\ u.stacks = tp.stacks /\ Number(tp) \in Nat
    BY <1>1, CountOf DEF Verdicts
  <1>3. PICK r : r = [line |-> Number(tp) + 1, why |-> why]
    OBVIOUS
  <1>4. r \in [line : Nat, why : Whys]
    BY <1>2, <1>3
  <1>5. Refuse(tp, why) = [u EXCEPT !.unparsed = Append(u.unparsed, r)]
    BY <1>1, <1>3 DEF Refuse
  <1>6. PICK more : more = Append(u.unparsed, r)
    OBVIOUS
  <1>7. more \in Seq([line : Nat, why : Whys])
    <2>1. u.unparsed \in Seq([line : Nat, why : Whys])
      BY <1>2 DEF Tapes
    <2>2. QED  BY <2>1, <1>4, <1>6, AppendOf
  <1>8. QED  BY <1>2, <1>5, <1>6, <1>7 DEF Tapes

LEMMA AttachOf ==
  ASSUME NEW tp \in Tapes, NEW line, line.name \in Names, line.cpu \in Cpus,
         line.depth \in Nat, NEW duration \in Seq(Nat)
  PROVE  /\ Attach(tp, line, duration) \in Tapes
         /\ NewFrame(tp, line, duration) \in Frames
         /\ Attach(tp, line, duration).frames = Append(tp.frames, NewFrame(tp, line, duration))
         /\ Attach(tp, line, duration).stacks = tp.stacks
  <1>1. PICK f : f = NewFrame(tp, line, duration)
    OBVIOUS
  <1>2. tp.stacks[line.cpu] \in Seq(Nat)
    BY DEF Tapes
  <1>3. (IF tp.stacks[line.cpu] = <<>> THEN 0 ELSE Last(tp.stacks[line.cpu])) \in Nat
    BY <1>2, LastOf
  <1>4. f \in Frames
    BY <1>1, <1>3 DEF NewFrame, Frames
  <1>5. PICK more : more = Append(tp.frames, f)
    OBVIOUS
  <1>6. more \in Seq(Frames)
    <2>1. tp.frames \in Seq(Frames)
      BY DEF Tapes
    <2>2. QED  BY <2>1, <1>4, <1>5, AppendOf
  <1>7. Attach(tp, line, duration) = [tp EXCEPT !.frames = more]
    BY <1>1, <1>5 DEF Attach, NewFrame
  <1>8. QED  BY <1>1, <1>4, <1>5, <1>6, <1>7 DEF Tapes

LEMMA ReadOpen ==
  ASSUME NEW tp \in Tapes, NEW line, line.k = "open", line.name \in Names, line.cpu \in Cpus,
         line.depth \in Nat
  PROVE  /\ ReadLine(tp, line) \in Tapes
         /\ ReadLine(tp, line).frames = Append(tp.frames, NewFrame(tp, line, <<>>))
         /\ ReadLine(tp, line).stacks =
              [tp.stacks EXCEPT ![line.cpu] = Append(tp.stacks[line.cpu], Len(tp.frames) + 1)]
  <1>1. PICK u : u = Attach(tp, line, <<>>)
    OBVIOUS
  <1>2. /\ u \in Tapes /\ u.frames = Append(tp.frames, NewFrame(tp, line, <<>>))
        /\ u.stacks = tp.stacks
    <2>1. <<>> \in Seq(Nat)
      OBVIOUS
    <2>2. QED  BY <1>1, <2>1, AttachOf
  <1>3. PICK v : v = [u EXCEPT !.stacks[line.cpu] =
                                  Append(u.stacks[line.cpu], Len(tp.frames) + 1)]
    OBVIOUS
  <1>4. ReadLine(tp, line) = Count(v, "READ")
    BY <1>1, <1>3 DEF ReadLine, Skipped, Unknown, Events
  <1>5. /\ v \in Tapes /\ v.frames = u.frames
        /\ v.stacks = [u.stacks EXCEPT ![line.cpu] =
                          Append(u.stacks[line.cpu], Len(tp.frames) + 1)]
    <2>1. Len(tp.frames) + 1 \in Nat /\ u.stacks[line.cpu] \in Seq(Nat)
      BY <1>2 DEF Tapes
    <2>2. Append(u.stacks[line.cpu], Len(tp.frames) + 1) \in Seq(Nat)
      BY <2>1
    <2>3. QED  BY <2>2, <1>2, <1>3 DEF Tapes
  <1>6. QED  BY <1>2, <1>4, <1>5, CountOf DEF Verdicts

LEMMA ReadLeaf ==
  ASSUME NEW tp \in Tapes, NEW line, line.k = "leaf", line.name \in Names, line.cpu \in Cpus,
         line.depth \in Nat, line.duration \in Seq(Nat)
  PROVE  /\ ReadLine(tp, line) \in Tapes
         /\ ReadLine(tp, line).frames = Append(tp.frames, NewFrame(tp, line, line.duration))
         /\ ReadLine(tp, line).stacks = tp.stacks
  <1>1. PICK u : u = Attach(tp, line, line.duration)
    OBVIOUS
  <1>2. /\ u \in Tapes /\ u.frames = Append(tp.frames, NewFrame(tp, line, line.duration))
        /\ u.stacks = tp.stacks
    BY <1>1, AttachOf
  <1>3. ReadLine(tp, line) = Count(u, "READ")
    BY <1>1 DEF ReadLine, Skipped, Unknown, Events
  <1>4. QED  BY <1>2, <1>3, CountOf DEF Verdicts

\* A closing brace with nothing open on its processor changes no frame.
LEMMA ReadStray ==
  ASSUME NEW tp \in Tapes, NEW line, line.k = "close", line.cpu \in Cpus,
         tp.stacks[line.cpu] = <<>>
  PROVE  /\ ReadLine(tp, line) \in Tapes /\ ReadLine(tp, line).frames = tp.frames
         /\ ReadLine(tp, line).stacks = tp.stacks
  <1>1. ReadLine(tp, line) = Close(tp, line)
    BY DEF ReadLine, Skipped, Unknown, Events
  <1>2. Close(tp, line) = Refuse(tp, "closing brace with no matching call")
    BY DEF Close
  <1>3. QED  BY <1>1, <1>2, RefuseOf, ZenonT(30) DEF Whys

\* Otherwise it closes the innermost one, whatever it names.
LEMMA ReadClose ==
  ASSUME NEW tp \in Tapes, NEW line, line.k = "close", line.cpu \in Cpus,
         line.duration \in Seq(Nat), tp.stacks[line.cpu] # <<>>,
         Last(tp.stacks[line.cpu]) \in 1..Len(tp.frames)
  PROVE  /\ ReadLine(tp, line) \in Tapes
         /\ ReadLine(tp, line).frames =
              [tp.frames EXCEPT ![Last(tp.stacks[line.cpu])].duration = line.duration]
         /\ ReadLine(tp, line).stacks =
              [tp.stacks EXCEPT ![line.cpu] = Front(tp.stacks[line.cpu])]
  <1>1. PICK i \in 1..Len(tp.frames) : i = Last(tp.stacks[line.cpu])
    OBVIOUS
  <1>2. PICK v : v = [tp EXCEPT !.stacks[line.cpu] = Front(tp.stacks[line.cpu]),
                                !.frames[i].duration = line.duration]
    OBVIOUS
  <1>3. /\ v \in Tapes
        /\ v.frames = [tp.frames EXCEPT ![i].duration = line.duration]
        /\ v.stacks = [tp.stacks EXCEPT ![line.cpu] = Front(tp.stacks[line.cpu])]
    <2>1. tp.stacks[line.cpu] \in Seq(Nat)
      BY DEF Tapes
    <2>2. [tp.stacks EXCEPT ![line.cpu] = Front(tp.stacks[line.cpu])] \in [Cpus -> Seq(Nat)]
      <3>1. Front(tp.stacks[line.cpu]) \in Seq(Nat)
        BY <2>1, LastOf
      <3>2. QED  BY <3>1 DEF Tapes
    <2>3. [tp.frames EXCEPT ![i].duration = line.duration] \in Seq(Frames)
      <3>1. tp.frames \in Seq(Frames) /\ tp.frames[i] \in Frames
        BY DEF Tapes
      <3>2. [tp.frames[i] EXCEPT !.duration = line.duration] \in Frames
        BY <3>1 DEF Frames
      <3>3. QED  BY <3>1, <3>2
    <2>4. QED  BY <2>2, <2>3, <1>2 DEF Tapes
  <1>4. ReadLine(tp, line) = Close(tp, line)
    BY DEF ReadLine, Skipped, Unknown, Events
  <1>5. \/ Close(tp, line) = Refuse(v, "closing brace names another")
        \/ Close(tp, line) = Count(v, "READ")
    BY <1>1, <1>2 DEF Close
  <1>6. /\ Refuse(v, "closing brace names another") \in Tapes
        /\ Refuse(v, "closing brace names another").frames = v.frames
        /\ Refuse(v, "closing brace names another").stacks = v.stacks
    BY <1>3, RefuseOf DEF Whys
  <1>7. /\ Count(v, "READ") \in Tapes /\ Count(v, "READ").frames = v.frames
        /\ Count(v, "READ").stacks = v.stacks
    BY <1>3, CountOf DEF Verdicts
  <1>8. QED  BY <1>1, <1>3, <1>4, <1>5, <1>6, <1>7

\* Any other line.
LEMMA ReadOther ==
  ASSUME NEW tp \in Tapes, NEW k \in Skipped \cup Unknown \cup Events, NEW c \in Cpus
  PROVE  /\ ReadLine(tp, [k |-> k, cpu |-> c]) \in Tapes
         /\ ReadLine(tp, [k |-> k, cpu |-> c]).frames = tp.frames
         /\ ReadLine(tp, [k |-> k, cpu |-> c]).stacks = tp.stacks
  <1>1. PICK line : line = [k |-> k, cpu |-> c]
    OBVIOUS
  <1>2. CASE k \in Skipped
    <2>1. ReadLine(tp, line) = Count(tp, "SKIPPED")
      BY <1>1, <1>2 DEF ReadLine, Skipped, Unknown, Events
    <2>2. QED  BY <2>1, <1>1, CountOf DEF Verdicts
  <1>3. CASE k \in Unknown
    <2>1. ReadLine(tp, line) = Refuse(tp, k)
      BY <1>1, <1>3 DEF ReadLine, Skipped, Unknown, Events
    <2>2. QED  BY <2>1, <1>1, <1>3, RefuseOf DEF Whys
  <1>4. CASE k \in Events
    <2>1. PICK v : v = Count(tp, "READ")
      OBVIOUS
    <2>2. v \in Tapes /\ v.frames = tp.frames /\ v.stacks = tp.stacks
      BY <2>1, CountOf DEF Verdicts
    <2>3. ReadLine(tp, line) = [v EXCEPT !.events = Append(v.events, line)]
      BY <1>1, <1>4, <2>1 DEF ReadLine, Skipped, Unknown, Events
    <2>4. line \in [k : Events, cpu : Cpus]
      BY <1>1, <1>4
    <2>5. PICK more : more = Append(v.events, line)
      OBVIOUS
    <2>6. more \in Seq([k : Events, cpu : Cpus])
      <3>1. v.events \in Seq([k : Events, cpu : Cpus])
        BY <2>2 DEF Tapes
      <3>2. QED  BY <3>1, <2>4, <2>5, AppendOf
    <2>7. QED  BY <2>2, <2>3, <2>5, <2>6, <1>1 DEF Tapes
  <1>5. QED  BY <1>2, <1>3, <1>4

-----------------------------------------------------------------------------
(* The steps.                                                              *)

LEMMA InitF == Init => FInv
  <1>1. ASSUME Init PROVE FInv
    <2>1. /\ tape = EmptyTape /\ told = <<>> /\ mixed = [c \in Cpus |-> FALSE] /\ ended = FALSE
          /\ running \in [Cpus -> Tasks] /\ IsInjective(running)
          /\ calls \in [Tasks -> {[n \in 1..k |-> [name |-> name, frame |-> 0]] :
                                    name \in Names, k \in 0..MaxLost}]
      BY <1>1 DEF Init
    <2>2. tape \in Tapes
      <3>1. /\ [v \in Verdicts |-> 0] \in [Verdicts -> Nat]
            /\ [c \in Cpus |-> <<>>] \in [Cpus -> Seq(Nat)]
            /\ <<>> \in Seq(Frames) /\ <<>> \in Seq([k : Events, cpu : Cpus])
            /\ <<>> \in Seq([line : Nat, why : Whys])
        OBVIOUS
      <3>2. QED  BY <2>1, <3>1 DEF EmptyTape, Tapes
    <2>3. tape.frames = <<>> /\ \A c \in Cpus : tape.stacks[c] = <<>>
      BY <2>1 DEF EmptyTape
    <2>4. \A c, d \in Cpus : running[c] = running[d] => c = d
      BY <2>1 DEF IsInjective
    <2>5. \A t \in Tasks : /\ calls[t] \in Seq([name : Names, frame : Nat])
                           /\ \A n \in 1..Len(calls[t]) : calls[t][n].frame = 0
      <3>1. ASSUME NEW t \in Tasks
            PROVE  /\ calls[t] \in Seq([name : Names, frame : Nat])
                   /\ \A n \in 1..Len(calls[t]) : calls[t][n].frame = 0
        <4>1. PICK name \in Names, k \in 0..MaxLost :
                 calls[t] = [n \in 1..k |-> [name |-> name, frame |-> 0]]
          BY <2>1
        <4>2. k \in Nat
          BY SizesAssumption
        <4>3. [name |-> name, frame |-> 0] \in [name : Names, frame : Nat]
          OBVIOUS
        <4>4. calls[t] \in Seq([name : Names, frame : Nat]) /\ Len(calls[t]) = k
          BY <4>1, <4>2, <4>3
        <4>5. QED  BY <4>1, <4>4
      <3>2. QED  BY <3>1
    <2>6. calls \in [Tasks -> Seq([name : Names, frame : Nat])]
      <3>1. calls = [t \in Tasks |-> calls[t]]
        BY <2>1
      <3>2. \A t \in Tasks : calls[t] \in Seq([name : Names, frame : Nat])
        BY <2>5
      <3>3. QED  BY <3>1, <3>2
    <2>7. Typed
      <3>1. told \in Seq([caller : Nat, clean : BOOLEAN, returned : BOOLEAN])
        BY <2>1
      <3>2. mixed \in [Cpus -> BOOLEAN]
        BY <2>1
      <3>3. Len(told) = Len(tape.frames) /\ \A i \in 1..Len(tape.frames) : tape.frames[i].parent < i
        BY <2>1, <2>3
      <3>4. running \in [Cpus -> Tasks]
        BY <2>1
      <3>5. QED  BY <2>2, <2>4, <2>6, <3>1, <3>2, <3>3, <3>4, Zenon DEF Typed
    <2>8. FramesAreCalls
      BY <2>1 DEF FramesAreCalls
    <2>9. OpenInv /\ ReturnInv
      BY <2>3 DEF OpenInv, ReturnInv
    <2>10. CallInv
      BY <2>5 DEF CallInv
    <2>11. StackInv
      <3>1. ASSUME NEW c \in Cpus
            PROVE  /\ Lost(c) = Len(calls[running[c]]) /\ Lost(c) \in Nat
                   /\ Len(tape.stacks[c]) = 0
        <4>1. running[c] \in Tasks /\ Len(tape.stacks[c]) = 0
          BY <2>1, <2>3
        <4>2. Len(calls[running[c]]) \in Nat
          BY <4>1, <2>5
        <4>3. QED  BY <4>1, <4>2 DEF Lost
      <3>2. QED  BY <3>1, <2>1, <2>5 DEF StackInv
    <2>12. QED  BY <2>7, <2>8, <2>9, <2>10, <2>11 DEF FInv
  <1>2. QED  BY <1>1

ParentAt(c) == IF tape.stacks[c] = <<>> THEN 0 ELSE Last(tape.stacks[c])
CallerAt(c) == IF calls[running[c]] = <<>> THEN 0 ELSE Last(calls[running[c]]).frame
CallSet == [name : Names, frame : Nat]
ToldSet == [caller : Nat, clean : BOOLEAN, returned : BOOLEAN]

\* What is typed, where it is used.
LEMMA TypedParts ==
  ASSUME Typed
  PROVE  /\ tape \in Tapes /\ tape.frames \in Seq(Frames)
         /\ tape.stacks \in [Cpus -> Seq(Nat)]
         /\ \A c \in Cpus : /\ running[c] \in Tasks /\ tape.stacks[c] \in Seq(Nat)
                            /\ Len(tape.stacks[c]) \in Nat /\ mixed[c] \in BOOLEAN
         /\ \A t \in Tasks : calls[t] \in Seq(CallSet) /\ Len(calls[t]) \in Nat
         /\ told \in Seq(ToldSet) /\ Len(told) = Len(tape.frames) /\ Len(told) \in Nat
         /\ \A i \in 1..Len(told) :
              tape.frames[i] \in Frames /\ tape.frames[i].cpu \in Cpus /\ told[i] \in ToldSet
  <1>1. tape \in Tapes /\ tape.frames \in Seq(Frames) /\ tape.stacks \in [Cpus -> Seq(Nat)]
    BY DEF Typed, Tapes
  <1>2. \A c \in Cpus : running[c] \in Tasks /\ mixed[c] \in BOOLEAN
    BY DEF Typed
  <1>3. \A c \in Cpus : tape.stacks[c] \in Seq(Nat) /\ Len(tape.stacks[c]) \in Nat
    BY <1>1
  <1>4. \A t \in Tasks : calls[t] \in Seq(CallSet) /\ Len(calls[t]) \in Nat
    <2>1. calls \in [Tasks -> Seq(CallSet)]
      BY DEF Typed, CallSet
    <2>2. \A t \in Tasks : calls[t] \in Seq(CallSet)
      BY <2>1
    <2>3. QED  BY <2>2
  <1>5. told \in Seq(ToldSet) /\ Len(told) = Len(tape.frames) /\ Len(told) \in Nat
    BY DEF Typed, ToldSet
  <1>6. \A i \in 1..Len(told) : tape.frames[i] \in Frames /\ told[i] \in ToldSet
    BY <1>1, <1>5
  <1>7. \A f \in Frames : f.cpu \in Cpus
    BY DEF Frames
  <1>8. QED  BY <1>1, <1>2, <1>3, <1>4, <1>5, <1>6, <1>7

\* On a processor that has kept its task, the innermost open frame is the
\* call the task is in, unless that was made before the trace began.
LEMMA ParentOf ==
  ASSUME Typed, OpenInv, StackInv, NEW c \in Cpus
  PROVE  /\ ParentAt(c) \in 0..Len(tape.frames)
         /\ ~mixed[c] => /\ ParentAt(c) = CallerAt(c)
                         /\ ParentAt(c) # 0 =>
                              Len(calls[running[c]]) = tape.frames[ParentAt(c)].depth + 1
  <1>1. PICK s \in Seq(Nat) : s = tape.stacks[c]
    BY TypedParts
  <1>2. PICK w \in Seq(CallSet) : w = calls[running[c]]
    BY TypedParts
  <1>3. Len(s) \in Nat /\ Len(w) \in Nat /\ Len(tape.frames) \in Nat
    BY TypedParts
  <1>4. \A n \in 1..Len(s) : s[n] \in 1..Len(tape.frames)
    BY <1>1 DEF OpenInv
  <1>5. CASE s = <<>>
    <2>1. ParentAt(c) = 0
      BY <1>1, <1>5 DEF ParentAt
    <2>2. ASSUME ~mixed[c] PROVE CallerAt(c) = 0
      <3>1. CASE w = <<>>
        BY <3>1, <1>2 DEF CallerAt
      <3>2. CASE w # <<>>
        <4>1. CallerAt(c) = w[Len(w)].frame /\ Len(w) >= 1
          BY <3>2, <1>2, LastOf DEF CallerAt
        <4>2. Lost(c) = Len(w) /\ Len(w) \in 1..Len(w)
          BY <4>1, <1>1, <1>2, <1>3, <1>5 DEF Lost
        <4>3. w[Len(w)].frame = 0
          BY <4>2, <2>2, <1>2, <1>3 DEF StackInv
        <4>4. QED  BY <4>1, <4>3
      <3>3. QED  BY <3>1, <3>2
    <2>3. QED  BY <2>1, <2>2, <1>3
  <1>6. CASE s # <<>>
    <2>1. ParentAt(c) = s[Len(s)] /\ Len(s) >= 1 /\ Len(s) \in 1..Len(s)
      <3>1. Last(s) = s[Len(s)] /\ Len(s) >= 1
        BY <1>6, LastOf
      <3>2. QED  BY <3>1, <1>1, <1>3, <1>6 DEF ParentAt
    <2>2. ParentAt(c) \in 1..Len(tape.frames)
      BY <2>1, <1>4
    <2>3. ASSUME ~mixed[c]
          PROVE  /\ ParentAt(c) = CallerAt(c)
                 /\ Len(w) = tape.frames[ParentAt(c)].depth + 1
      <3>1. PICK k : k = Lost(c)
        OBVIOUS
      <3>2. k = Len(w) - Len(s) /\ k >= 0 /\ k \in Int
        <4>1. k = Len(w) - Len(s)
          BY <3>1, <1>1, <1>2 DEF Lost
        <4>2. k >= 0
          BY <2>3, <3>1 DEF StackInv
        <4>3. QED  BY <4>1, <4>2, <1>3
      <3>3. Len(w) \in 1..Len(w) /\ ~(Len(w) <= k) /\ Len(w) - k = Len(s) /\ Len(w) >= 1
        BY <3>2, <2>1, <1>3
      <3>4. w[Len(w)].frame = s[Len(s)]
        BY <3>1, <3>3, <2>3, <1>1, <1>2 DEF StackInv
      <3>5. CallerAt(c) = w[Len(w)].frame
        <4>1. w # <<>>
          BY <3>3
        <4>2. QED  BY <4>1, <1>2, LastOf DEF CallerAt
      <3>6. tape.frames[s[Len(s)]].depth = k + Len(s) - 1
        BY <3>1, <2>1, <2>3, <1>1 DEF StackInv
      <3>7. QED  BY <3>2, <3>4, <3>5, <3>6, <2>1, <1>3
    <2>4. QED  BY <2>2, <2>3, <1>2, <1>3
  <1>7. QED  BY <1>5, <1>6

\* A frame more.
LEMMA Grown ==
  ASSUME Typed, FramesAreCalls, OpenInv, StackInv, ~ended,
         NEW c \in Cpus, NEW f \in Frames, NEW b \in BOOLEAN,
         f.cpu = c, f.parent = ParentAt(c), f.depth = Len(calls[running[c]]),
         f.duration = IF b THEN <<Len(told) + 1>> ELSE <<>>,
         tape'.frames = Append(tape.frames, f),
         told' = Append(told, [caller |-> CallerAt(c), clean |-> ~mixed[c], returned |-> b]),
         mixed' = mixed, ended' = ended
  PROVE  /\ FramesAreCalls'
         /\ Len(told') = Len(told) + 1 /\ Len(tape'.frames) = Len(told) + 1
         /\ \A i \in 1..Len(told) : tape'.frames[i] = tape.frames[i] /\ told'[i] = told[i]
         /\ tape'.frames[Len(told) + 1] = f
         /\ told'[Len(told) + 1] =
              [caller |-> CallerAt(c), clean |-> ~mixed[c], returned |-> b]
         /\ \A i \in 1..Len(tape'.frames) : tape'.frames[i].parent < i
         /\ told' \in Seq(ToldSet)
  <1>1. PICK F \in Seq(Frames) : F = tape.frames
    BY TypedParts
  <1>2. PICK G : G = tape'.frames
    OBVIOUS
  <1>3. PICK r : r = [caller |-> CallerAt(c), clean |-> ~mixed[c], returned |-> b]
    OBVIOUS
  <1>4. PICK L \in Nat : L = Len(told) /\ L = Len(F)
    BY <1>1, TypedParts
  <1>5. /\ G \in Seq(Frames) /\ Len(G) = L + 1 /\ \A i \in 1..L : G[i] = F[i]
        /\ G[L + 1] = f
    <2>1. G = Append(F, f)
      BY <1>1, <1>2
    <2>2. QED  BY <2>1, <1>1, <1>4, AppendOf
  <1>6. ParentAt(c) \in 0..L
        /\ (~mixed[c] => /\ ParentAt(c) = CallerAt(c)
                         /\ ParentAt(c) # 0 => f.depth = F[ParentAt(c)].depth + 1)
    BY <1>1, <1>4, ParentOf
  <1>7. r \in ToldSet
    <2>1. CallerAt(c) \in Nat
      <3>1. PICK w \in Seq(CallSet) : w = calls[running[c]]
        BY TypedParts
      <3>2. w # <<>> => Last(w) \in CallSet
        BY <3>1, LastOf
      <3>3. QED  BY <3>1, <3>2 DEF CallerAt, CallSet
    <2>2. mixed[c] \in BOOLEAN
      BY TypedParts
    <2>3. QED  BY <2>1, <2>2, <1>3 DEF ToldSet
  <1>8. /\ told' \in Seq(ToldSet) /\ Len(told') = L + 1
        /\ \A i \in 1..L : told'[i] = told[i]
        /\ told'[L + 1] = r
    <2>1. PICK T \in Seq(ToldSet) : T = told
      BY TypedParts
    <2>2. PICK M : M = Append(T, r)
      OBVIOUS
    <2>3. /\ M \in Seq(ToldSet) /\ Len(M) = Len(T) + 1
          /\ \A i \in 1..Len(T) : M[i] = T[i]
          /\ M[Len(T) + 1] = r
      BY <2>2, <1>7, AppendOf
    <2>4. told' = M
      BY <2>1, <2>2, <1>3
    <2>5. QED  BY <2>1, <2>3, <2>4, <1>4
  <1>9. \A i \in 1..Len(G) : G[i].parent < i
    <2>1. \A i \in 1..L : F[i].parent < i
      BY <1>1, <1>4 DEF Typed
    <2>2. G[L + 1].parent < L + 1
      BY <1>5, <1>6
    <2>3. \A i \in 1..(L + 1) : i \in 1..L \/ i = L + 1
      OBVIOUS
    <2>4. \A i \in 1..L : G[i].parent < i
      BY <2>1, <1>5
    <2>5. QED  BY <2>2, <2>3, <2>4, <1>5
  <1>10. FramesAreCalls'
    <2>1. ASSUME NEW i \in 1..(L + 1)
          PROVE  /\ told'[i].clean =>
                      /\ G[i].parent = told'[i].caller
                      /\ G[i].parent # 0 => G[i].depth = G[G[i].parent].depth + 1
                 /\ ~mixed[G[i].cpu] =>
                      G[i].duration = IF told'[i].returned THEN <<i>> ELSE <<>>
      <3>1. CASE i \in 1..L
        <4>1. G[i] = F[i] /\ told'[i] = told[i] /\ i \in DOMAIN told
          BY <3>1, <1>4, <1>5, <1>8, TypedParts
        <4>2. /\ told[i].clean =>
                   /\ F[i].parent = told[i].caller
                   /\ F[i].parent # 0 => F[i].depth = F[F[i].parent].depth + 1
              /\ ~mixed[F[i].cpu] =>
                   F[i].duration = IF told[i].returned THEN <<i>> ELSE <<>>
          BY <4>1, <1>1 DEF FramesAreCalls
        <4>3. F[i].parent # 0 => G[F[i].parent] = F[F[i].parent]
          <5>1. F[i].parent \in Nat /\ F[i].parent < i
            <6>1. F[i] \in Frames /\ F[i].parent < i
              BY <3>1, <1>1, <1>4 DEF Typed
            <6>2. QED  BY <6>1 DEF Frames
          <5>2. F[i].parent # 0 => F[i].parent \in 1..L
            BY <5>1, <3>1
          <5>3. QED  BY <5>2, <1>5
        <4>4. QED  BY <4>1, <4>2, <4>3
      <3>2. CASE i = L + 1
        <4>1. G[i] = f /\ told'[i] = r
          BY <3>2, <1>5, <1>8
        <4>2. /\ r.caller = CallerAt(c) /\ r.clean = ~mixed[c] /\ r.returned = b
          BY <1>3
        <4>3. ParentAt(c) # 0 => G[ParentAt(c)] = F[ParentAt(c)]
          BY <1>5, <1>6
        <4>4. f.duration = IF b THEN <<i>> ELSE <<>>
          BY <3>2, <1>4
        <4>5. QED  BY <4>1, <4>2, <4>3, <4>4, <1>6
      <3>3. i \in 1..L \/ i = L + 1
        OBVIOUS
      <3>4. QED  BY <3>1, <3>2, <3>3, Zenon
    <2>2. DOMAIN told' = 1..(L + 1)
      BY <1>8
    <2>3. QED  BY <2>1, <2>2, <1>2 DEF FramesAreCalls
  <1>11. QED  BY <1>1, <1>2, <1>3, <1>4, <1>5, <1>8, <1>9, <1>10

LEMMA EnterF ==
  ASSUME FInv, NEW c \in Cpus, NEW name \in Names, Enter(c, name)
  PROVE  FInv'
  <1>1. /\ Typed /\ FramesAreCalls /\ OpenInv /\ CallInv /\ StackInv /\ ReturnInv
        /\ ~ended /\ ended' = ended
    BY DEF FInv, Enter, Emit
  <1>2. PICK t \in Tasks : t = running[c]
    BY <1>1, TypedParts
  <1>3. PICK w \in Seq(CallSet) : w = calls[t]
    BY <1>1, TypedParts
  <1>4. PICK s \in Seq(Nat) : s = tape.stacks[c]
    BY <1>1, TypedParts
  <1>5. PICK F \in Seq(Frames) : F = tape.frames
    BY <1>1, TypedParts
  <1>6. PICK L \in Nat : L = Len(told) /\ L = Len(F)
    BY <1>1, <1>5, TypedParts
  <1>7. PICK line : line = [k |-> "open", cpu |-> c, name |-> name, depth |-> Len(w)]
    OBVIOUS
  <1>8. PICK new : new = [name |-> name, frame |-> L + 1]
    OBVIOUS
  <1>9. /\ tape' = ReadLine(tape, line)
        /\ calls' = [calls EXCEPT ![t] = Append(w, new)]
        /\ told' = Append(told, [caller |-> CallerAt(c), clean |-> ~mixed[c], returned |-> FALSE])
        /\ UNCHANGED <<running, mixed>>
    BY <1>2, <1>3, <1>6, <1>7, <1>8 DEF Enter, Emit, Told, CallerAt
  <1>10. Len(w) \in Nat /\ Len(s) \in Nat /\ new \in CallSet /\ new.frame = L + 1
    BY <1>6, <1>8 DEF CallSet
  <1>11. PICK f : f = NewFrame(tape, line, <<>>)
    OBVIOUS
  <1>12. /\ f \in Frames /\ f.cpu = c /\ f.parent = ParentAt(c) /\ f.depth = Len(w)
         /\ f.duration = <<>> /\ f.complete = TRUE
    <2>1. <<>> \in Seq(Nat) /\ tape \in Tapes
      BY <1>1, TypedParts
    <2>2. line.name \in Names /\ line.cpu \in Cpus /\ line.depth \in Nat
      BY <1>7, <1>10
    <2>3. f \in Frames
      BY <2>1, <2>2, <1>11, AttachOf
    <2>4. QED  BY <2>3, <1>7, <1>11 DEF NewFrame, ParentAt
  <1>13. /\ tape' \in Tapes /\ tape'.frames = Append(F, f)
         /\ tape'.stacks = [tape.stacks EXCEPT ![c] = Append(s, L + 1)]
    <2>1. line.k = "open" /\ line.name \in Names /\ line.cpu = c /\ line.depth \in Nat
      BY <1>7, <1>10
    <2>2. tape \in Tapes
      BY <1>1, TypedParts
    <2>3. /\ ReadLine(tape, line) \in Tapes
          /\ ReadLine(tape, line).frames = Append(tape.frames, NewFrame(tape, line, <<>>))
          /\ ReadLine(tape, line).stacks =
               [tape.stacks EXCEPT ![line.cpu] = Append(tape.stacks[line.cpu], Len(tape.frames) + 1)]
      BY <2>1, <2>2, ReadOpen
    <2>4. QED  BY <2>1, <2>3, <1>4, <1>5, <1>6, <1>9, <1>11
  <1>14. /\ FramesAreCalls'
         /\ Len(told') = L + 1 /\ Len(tape'.frames) = L + 1
         /\ \A i \in 1..L : tape'.frames[i] = F[i] /\ told'[i] = told[i]
         /\ tape'.frames[L + 1] = f
         /\ told'[L + 1] = [caller |-> CallerAt(c), clean |-> ~mixed[c], returned |-> FALSE]
         /\ \A i \in 1..Len(tape'.frames) : tape'.frames[i].parent < i
         /\ told' \in Seq(ToldSet)
    <2>1. f.depth = Len(calls[running[c]]) /\ tape'.frames = Append(tape.frames, f)
      BY <1>2, <1>3, <1>5, <1>12, <1>13
    <2>2. f.duration = IF FALSE THEN <<Len(told) + 1>> ELSE <<>>
      BY <1>12
    <2>3. FALSE \in BOOLEAN /\ mixed' = mixed
      BY <1>9
    <2>4. QED  BY <2>1, <2>2, <2>3, <1>1, <1>5, <1>6, <1>9, <1>12, Grown
  <1>15. /\ tape'.stacks[c] \in Seq(Nat) /\ Len(tape'.stacks[c]) = Len(s) + 1
         /\ \A n \in 1..Len(s) : tape'.stacks[c][n] = s[n]
         /\ tape'.stacks[c][Len(s) + 1] = L + 1
         /\ \A d \in Cpus : d # c => tape'.stacks[d] = tape.stacks[d]
    <2>1. tape'.stacks[c] = Append(s, L + 1)
          /\ \A d \in Cpus : d # c => tape'.stacks[d] = tape.stacks[d]
      BY <1>1, <1>13, TypedParts
    <2>2. QED  BY <2>1, <1>6, AppendOf
  <1>16. /\ calls' \in [Tasks -> Seq(CallSet)] /\ Len(calls'[t]) = Len(w) + 1
         /\ \A n \in 1..Len(w) : calls'[t][n] = w[n]
         /\ calls'[t][Len(w) + 1] = new
         /\ \A u \in Tasks : u # t => calls'[u] = calls[u]
    <2>1. calls \in [Tasks -> Seq(CallSet)]
      BY <1>1 DEF Typed, CallSet
    <2>2. calls'[t] = Append(w, new) /\ \A u \in Tasks : u # t => calls'[u] = calls[u]
      BY <2>1, <1>9
    <2>3. /\ Append(w, new) \in Seq(CallSet) /\ Len(Append(w, new)) = Len(w) + 1
          /\ \A n \in 1..Len(w) : Append(w, new)[n] = w[n]
          /\ Append(w, new)[Len(w) + 1] = new
      BY <1>10, AppendOf
    <2>4. calls' \in [Tasks -> Seq(CallSet)]
      BY <2>1, <2>3, <1>9
    <2>5. QED  BY <2>2, <2>3, <2>4
  <1>17. \A d \in Cpus : d # c => running[d] # t
    BY <1>1, <1>2 DEF Typed
  <1>18. Typed'
    <2>1. running' \in [Cpus -> Tasks] /\ mixed' \in [Cpus -> BOOLEAN]
          /\ \A d, e \in Cpus : running'[d] = running'[e] => d = e
      BY <1>1, <1>9 DEF Typed
    <2>2. QED  BY <2>1, <1>13, <1>14, <1>16, Zenon DEF Typed, CallSet, ToldSet
  <1>19. OpenInv'
    <2>1. ASSUME NEW d \in Cpus, NEW n \in 1..Len(tape'.stacks[d])
          PROVE  /\ tape'.stacks[d][n] \in 1..Len(tape'.frames)
                 /\ tape'.frames[tape'.stacks[d][n]].cpu = d
                 /\ \A m \in 1..(n - 1) : tape'.stacks[d][m] < tape'.stacks[d][n]
      <3>1. ASSUME NEW k \in 1..Len(tape.stacks[d])
            PROVE  /\ tape.stacks[d][k] \in 1..L /\ tape'.frames[tape.stacks[d][k]].cpu = d
                   /\ \A m \in 1..(k - 1) : tape.stacks[d][m] < tape.stacks[d][k]
        <4>1. /\ tape.stacks[d][k] \in 1..L /\ F[tape.stacks[d][k]].cpu = d
              /\ \A m \in 1..(k - 1) : tape.stacks[d][m] < tape.stacks[d][k]
          BY <1>1, <1>5, <1>6 DEF OpenInv
        <4>2. tape'.frames[tape.stacks[d][k]] = F[tape.stacks[d][k]]
          BY <4>1, <1>14
        <4>3. QED  BY <4>1, <4>2
      <3>2. CASE d # c
        <4>1. tape'.stacks[d] = tape.stacks[d]
          BY <3>2, <1>15
        <4>2. /\ tape.stacks[d][n] \in 1..L /\ tape'.frames[tape.stacks[d][n]].cpu = d
              /\ \A m \in 1..(n - 1) : tape.stacks[d][m] < tape.stacks[d][n]
          BY <3>1, <4>1
        <4>3. \A i \in 1..L : i \in 1..(L + 1)
          OBVIOUS
        <4>4. QED  BY <4>1, <4>2, <4>3, <1>14, Zenon
      <3>3. CASE d = c /\ n \in 1..Len(s)
        <4>1. \A m \in 1..(n - 1) : m \in 1..Len(s)
          BY <3>3, <1>10
        <4>2. tape'.stacks[d][n] = s[n] /\ \A m \in 1..(n - 1) : tape'.stacks[d][m] = s[m]
          BY <3>3, <4>1, <1>15
        <4>3. /\ s[n] \in 1..L /\ tape'.frames[s[n]].cpu = d /\ \A m \in 1..(n - 1) : s[m] < s[n]
          BY <3>1, <3>3, <1>4
        <4>4. QED  BY <4>2, <4>3, <1>6, <1>14
      <3>4. CASE d = c /\ n = Len(s) + 1
        <4>1. tape'.stacks[d][n] = L + 1 /\ tape'.frames[L + 1].cpu = d
          BY <3>4, <1>12, <1>14, <1>15
        <4>2. ASSUME NEW m \in 1..(n - 1) PROVE tape'.stacks[d][m] < L + 1
          <5>1. m \in 1..Len(s)
            BY <3>4, <1>10
          <5>2. tape'.stacks[d][m] = s[m] /\ s[m] \in 1..L
            BY <3>1, <3>4, <5>1, <1>4, <1>15
          <5>3. QED  BY <5>2
        <4>3. L + 1 \in 1..Len(tape'.frames)
          BY <1>14
        <4>4. QED  BY <4>1, <4>2, <4>3
      <3>5. d = c => n \in 1..Len(s) \/ n = Len(s) + 1
        BY <2>1, <1>10, <1>15
      <3>6. QED  BY <3>2, <3>3, <3>4, <3>5, Zenon
    <2>2. QED  BY <2>1 DEF OpenInv
  <1>20. CallInv'
    <2>1. ASSUME NEW u \in Tasks, NEW n \in 1..Len(calls'[u]), calls'[u][n].frame # 0
          PROVE  /\ calls'[u][n].frame \in 1..Len(told')
                 /\ ~mixed[tape'.frames[calls'[u][n].frame].cpu] =>
                      running[tape'.frames[calls'[u][n].frame].cpu] = u
      <3>1. CASE u = t /\ n = Len(w) + 1
        BY <3>1, <1>2, <1>6, <1>10, <1>12, <1>14, <1>16
      <3>2. CASE n \in 1..Len(calls[u]) /\ calls'[u][n] = calls[u][n]
        <4>1. PICK i : i = calls[u][n].frame
          OBVIOUS
        <4>2. i \in 1..L /\ (~mixed[F[i].cpu] => running[F[i].cpu] = u)
          BY <4>1, <3>2, <2>1, <1>1, <1>5, <1>6 DEF CallInv
        <4>3. tape'.frames[i] = F[i] /\ i \in 1..(L + 1)
          BY <4>2, <1>6, <1>14
        <4>4. QED  BY <4>1, <4>2, <4>3, <3>2, <1>14
      <3>3. u = t => n \in 1..Len(w) \/ n = Len(w) + 1
        BY <2>1, <1>10, <1>16
      <3>4. QED  BY <3>1, <3>2, <3>3, <1>3, <1>16
    <2>2. QED  BY <2>1, <1>9 DEF CallInv
  <1>21. StackInv'
    <2>1. ASSUME NEW d \in Cpus, ~mixed[d]
          PROVE  /\ Lost(d)' >= 0
                 /\ \A n \in 1..Len(calls'[running[d]]) :
                      calls'[running[d]][n].frame =
                        IF n <= Lost(d)' THEN 0 ELSE tape'.stacks[d][n - Lost(d)']
                 /\ \A n \in 1..Len(tape'.stacks[d]) :
                      tape'.frames[tape'.stacks[d][n]].depth = Lost(d)' + n - 1
      <3>1. Lost(d)' = Len(calls'[running[d]]) - Len(tape'.stacks[d])
        BY <1>9 DEF Lost
      <3>2. /\ Lost(d) >= 0
            /\ \A n \in 1..Len(calls[running[d]]) :
                 calls[running[d]][n].frame =
                   IF n <= Lost(d) THEN 0 ELSE tape.stacks[d][n - Lost(d)]
            /\ \A n \in 1..Len(tape.stacks[d]) :
                 F[tape.stacks[d][n]].depth = Lost(d) + n - 1
        BY <2>1, <1>1, <1>5 DEF StackInv
      <3>3. \A n \in 1..Len(tape.stacks[d]) :
              tape.stacks[d][n] \in 1..L /\ tape'.frames[tape.stacks[d][n]] = F[tape.stacks[d][n]]
        BY <1>1, <1>5, <1>6, <1>14 DEF OpenInv
      <3>4. CASE d # c
        <4>1. /\ calls'[running[d]] = calls[running[d]] /\ tape'.stacks[d] = tape.stacks[d]
              /\ running[d] \in Tasks
          BY <3>4, <1>1, <1>15, <1>16, <1>17, TypedParts
        <4>2. Lost(d)' = Lost(d)
          BY <3>1, <4>1 DEF Lost
        <4>3. QED  BY <3>2, <3>3, <4>1, <4>2, ZenonT(30)
      <3>5. CASE d = c
        <4>1. PICK k : k = Lost(d)
          OBVIOUS
        <4>2. k = Len(w) - Len(s) /\ k \in Int /\ k >= 0
          BY <3>2, <3>5, <4>1, <1>2, <1>3, <1>4, <1>10 DEF Lost
        <4>3. Lost(d)' = k
          <5>1. Lost(d)' = (Len(w) + 1) - (Len(s) + 1)
            BY <3>1, <3>5, <1>2, <1>15, <1>16
          <5>2. QED  BY <5>1, <4>2, <1>10
        <4>4. /\ \A n \in 1..Len(w) : w[n].frame = IF n <= k THEN 0 ELSE s[n - k]
              /\ \A n \in 1..Len(s) : tape'.frames[s[n]].depth = k + n - 1
          BY <3>2, <3>3, <3>5, <4>1, <1>2, <1>3, <1>4
        <4>5. ASSUME NEW n \in 1..(Len(w) + 1)
              PROVE  calls'[t][n].frame = IF n <= k THEN 0 ELSE tape'.stacks[c][n - k]
          <5>1. CASE n = Len(w) + 1
            <6>1. n - k = Len(s) + 1 /\ ~(n <= k)
              BY <5>1, <4>2, <1>10
            <6>2. QED  BY <5>1, <6>1, <1>10, <1>15, <1>16
          <5>2. CASE n \in 1..Len(w)
            <6>1. ~(n <= k) => n - k \in 1..Len(s)
              BY <5>2, <4>2, <1>10
            <6>2. ~(n <= k) => tape'.stacks[c][n - k] = s[n - k]
              BY <6>1, <1>15
            <6>3. calls'[t][n] = w[n]
              BY <5>2, <1>16
            <6>4. QED  BY <5>2, <6>2, <6>3, <4>4
          <5>3. QED  BY <5>1, <5>2, <1>10
        <4>6. ASSUME NEW n \in 1..(Len(s) + 1)
              PROVE  tape'.frames[tape'.stacks[c][n]].depth = k + n - 1
          <5>1. CASE n = Len(s) + 1
            <6>1. tape'.frames[tape'.stacks[c][n]] = f
              BY <5>1, <1>14, <1>15
            <6>2. QED  BY <5>1, <6>1, <4>2, <1>10, <1>12
          <5>2. CASE n \in 1..Len(s)
            BY <5>2, <4>4, <1>15
          <5>3. QED  BY <5>1, <5>2, <1>10
        <4>7. QED  BY <3>5, <4>2, <4>3, <4>5, <4>6, <1>2, <1>15, <1>16
      <3>6. QED  BY <3>4, <3>5
    <2>2. QED  BY <2>1, <1>9 DEF StackInv
  <1>22. ReturnInv'
    <2>1. ASSUME NEW i \in 1..(L + 1)
          PROVE  /\ tape'.frames[i].complete = TRUE
                 /\ ~mixed[tape'.frames[i].cpu] =>
                      (told'[i].returned <=>
                        \A n \in 1..Len(tape'.stacks[tape'.frames[i].cpu]) :
                          tape'.stacks[tape'.frames[i].cpu][n] # i)
      <3>1. CASE i \in 1..L
        <4>1. PICK d \in Cpus : d = F[i].cpu
          BY <3>1, <1>1, <1>5, <1>6, TypedParts
        <4>2. /\ F[i].complete = TRUE
              /\ ~mixed[d] => (told[i].returned <=>
                                 \A n \in 1..Len(tape.stacks[d]) : tape.stacks[d][n] # i)
          BY <3>1, <4>1, <1>1, <1>5, <1>6 DEF ReturnInv
        <4>3. (\A n \in 1..Len(tape.stacks[d]) : tape.stacks[d][n] # i)
                <=> (\A n \in 1..Len(tape'.stacks[d]) : tape'.stacks[d][n] # i)
          <5>1. CASE d # c
            BY <5>1, <1>15
          <5>2. CASE d = c
            <6>1. L + 1 # i
              BY <3>1
            <6>2. \A n \in 1..(Len(s) + 1) : n \in 1..Len(s) \/ n = Len(s) + 1
              BY <1>10
            <6>3. \A n \in 1..Len(s) : n \in 1..(Len(s) + 1)
              BY <1>10
            <6>4. QED  BY <5>2, <6>1, <6>2, <6>3, <1>4, <1>15
          <5>3. QED  BY <5>1, <5>2
        <4>4. tape'.frames[i] = F[i] /\ told'[i] = told[i]
          BY <3>1, <1>14
        <4>5. QED  BY <4>1, <4>2, <4>3, <4>4
      <3>2. CASE i = L + 1
        <4>1. tape'.frames[i] = f /\ told'[i].returned = FALSE
          BY <3>2, <1>14
        <4>2. Len(s) + 1 \in 1..Len(tape'.stacks[c]) /\ tape'.stacks[c][Len(s) + 1] = i
          BY <3>2, <1>10, <1>15
        <4>3. QED  BY <4>1, <4>2, <1>12
      <3>3. i \in 1..L \/ i = L + 1
        OBVIOUS
      <3>4. QED  BY <3>1, <3>2, <3>3, Zenon
    <2>2. QED  BY <2>1, <1>9, <1>14 DEF ReturnInv
  <1>23. QED  BY <1>14, <1>18, <1>19, <1>20, <1>21, <1>22 DEF FInv

LEMMA CallLeafF ==
  ASSUME FInv, NEW c \in Cpus, NEW name \in Names, CallLeaf(c, name)
  PROVE  FInv'
  <1>1. /\ Typed /\ FramesAreCalls /\ OpenInv /\ CallInv /\ StackInv /\ ReturnInv
        /\ ~ended /\ ended' = ended
    BY DEF FInv, CallLeaf, Emit
  <1>2. PICK w \in Seq(CallSet) : w = calls[running[c]]
    BY <1>1, TypedParts
  <1>3. PICK F \in Seq(Frames) : F = tape.frames
    BY <1>1, TypedParts
  <1>4. PICK L \in Nat : L = Len(told) /\ L = Len(F)
    BY <1>1, <1>3, TypedParts
  <1>5. PICK line : line = [k |-> "leaf", cpu |-> c, name |-> name, depth |-> Len(w),
                            duration |-> <<L + 1>>]
    OBVIOUS
  <1>6. /\ tape' = ReadLine(tape, line)
        /\ told' = Append(told, [caller |-> CallerAt(c), clean |-> ~mixed[c], returned |-> TRUE])
        /\ UNCHANGED <<running, calls, mixed>>
    BY <1>2, <1>4, <1>5 DEF CallLeaf, Emit, Told, CallerAt
  <1>7. PICK f : f = NewFrame(tape, line, <<L + 1>>)
    OBVIOUS
  <1>8. /\ line.k = "leaf" /\ line.name \in Names /\ line.cpu = c /\ line.depth = Len(w)
        /\ line.depth \in Nat /\ line.duration = <<L + 1>> /\ <<L + 1>> \in Seq(Nat)
        /\ tape \in Tapes
    BY <1>1, <1>2, <1>4, <1>5, TypedParts
  <1>9. /\ f \in Frames /\ f.cpu = c /\ f.parent = ParentAt(c) /\ f.depth = Len(w)
        /\ f.duration = <<L + 1>> /\ f.complete = TRUE
    <2>1. f \in Frames
      BY <1>7, <1>8, AttachOf
    <2>2. QED  BY <2>1, <1>7, <1>8 DEF NewFrame, ParentAt
  <1>10. tape' \in Tapes /\ tape'.frames = Append(F, f) /\ tape'.stacks = tape.stacks
    <2>1. /\ ReadLine(tape, line) \in Tapes
          /\ ReadLine(tape, line).frames = Append(tape.frames, NewFrame(tape, line, line.duration))
          /\ ReadLine(tape, line).stacks = tape.stacks
      BY <1>8, ReadLeaf
    <2>2. QED  BY <2>1, <1>3, <1>6, <1>7, <1>8
  <1>11. /\ FramesAreCalls'
         /\ Len(told') = L + 1 /\ Len(tape'.frames) = L + 1
         /\ \A i \in 1..L : tape'.frames[i] = F[i] /\ told'[i] = told[i]
         /\ tape'.frames[L + 1] = f
         /\ told'[L + 1] = [caller |-> CallerAt(c), clean |-> ~mixed[c], returned |-> TRUE]
         /\ \A i \in 1..Len(tape'.frames) : tape'.frames[i].parent < i
         /\ told' \in Seq(ToldSet)
    <2>1. f.depth = Len(calls[running[c]]) /\ tape'.frames = Append(tape.frames, f)
      BY <1>2, <1>3, <1>9, <1>10
    <2>2. f.duration = IF TRUE THEN <<Len(told) + 1>> ELSE <<>>
      BY <1>4, <1>9
    <2>3. TRUE \in BOOLEAN /\ mixed' = mixed
      BY <1>6
    <2>4. QED  BY <2>1, <2>2, <2>3, <1>1, <1>3, <1>4, <1>6, <1>9, Grown, ZenonT(30)
  <1>12. ASSUME NEW d \in Cpus, NEW n \in 1..Len(tape.stacks[d])
         PROVE  /\ tape.stacks[d][n] \in 1..L
                /\ tape'.frames[tape.stacks[d][n]] = F[tape.stacks[d][n]]
    <2>1. tape.stacks[d][n] \in 1..L
      BY <1>1, <1>3, <1>4 DEF OpenInv
    <2>2. QED  BY <2>1, <1>11
  <1>13. Typed'
    <2>1. /\ running' \in [Cpus -> Tasks] /\ mixed' \in [Cpus -> BOOLEAN]
          /\ \A d, e \in Cpus : running'[d] = running'[e] => d = e
          /\ calls' \in [Tasks -> Seq([name : Names, frame : Nat])]
      BY <1>1, <1>6 DEF Typed
    <2>2. QED  BY <2>1, <1>10, <1>11, Zenon DEF Typed, ToldSet
  <1>14. OpenInv'
    <2>1. ASSUME NEW d \in Cpus, NEW n \in 1..Len(tape.stacks[d])
          PROVE  /\ tape.stacks[d][n] \in 1..Len(tape'.frames)
                 /\ tape'.frames[tape.stacks[d][n]].cpu = d
                 /\ \A m \in 1..(n - 1) : tape.stacks[d][m] < tape.stacks[d][n]
      <3>1. /\ F[tape.stacks[d][n]].cpu = d
            /\ \A m \in 1..(n - 1) : tape.stacks[d][m] < tape.stacks[d][n]
        BY <1>1, <1>3 DEF OpenInv
      <3>2. \A i \in 1..L : i \in 1..(L + 1)
        OBVIOUS
      <3>3. QED  BY <3>1, <3>2, <1>11, <1>12, Zenon
    <2>2. QED  BY <2>1, <1>10 DEF OpenInv
  <1>15. CallInv'
    <2>1. ASSUME NEW u \in Tasks, NEW n \in 1..Len(calls[u]), calls[u][n].frame # 0
          PROVE  /\ calls[u][n].frame \in 1..Len(told')
                 /\ ~mixed[tape'.frames[calls[u][n].frame].cpu] =>
                      running[tape'.frames[calls[u][n].frame].cpu] = u
      <3>1. PICK i : i = calls[u][n].frame
        OBVIOUS
      <3>2. i \in 1..L /\ (~mixed[F[i].cpu] => running[F[i].cpu] = u)
        BY <3>1, <2>1, <1>1, <1>3, <1>4 DEF CallInv
      <3>3. tape'.frames[i] = F[i] /\ i \in 1..(L + 1)
        BY <3>2, <1>11
      <3>4. QED  BY <3>1, <3>2, <3>3, <1>11
    <2>2. QED  BY <2>1, <1>6 DEF CallInv
  <1>16. StackInv'
    <2>1. \A d \in Cpus : Lost(d)' = Lost(d)
      BY <1>6, <1>10 DEF Lost
    <2>2. ASSUME NEW d \in Cpus, ~mixed'[d]
          PROVE  /\ Lost(d)' >= 0
                 /\ \A n \in 1..Len(calls'[running'[d]]) :
                      calls'[running'[d]][n].frame =
                        IF n <= Lost(d)' THEN 0 ELSE tape'.stacks[d][n - Lost(d)']
                 /\ \A n \in 1..Len(tape'.stacks[d]) :
                      tape'.frames[tape'.stacks[d][n]].depth = Lost(d)' + n - 1
      <3>1. /\ Lost(d) >= 0
            /\ \A n \in 1..Len(calls[running[d]]) :
                 calls[running[d]][n].frame =
                   IF n <= Lost(d) THEN 0 ELSE tape.stacks[d][n - Lost(d)]
            /\ \A n \in 1..Len(tape.stacks[d]) : F[tape.stacks[d][n]].depth = Lost(d) + n - 1
        BY <2>2, <1>1, <1>3, <1>6 DEF StackInv
      <3>2. \A n \in 1..Len(tape.stacks[d]) :
              tape'.frames[tape.stacks[d][n]].depth = F[tape.stacks[d][n]].depth
        BY <1>12
      <3>3. /\ calls' = calls /\ running' = running /\ tape'.stacks = tape.stacks
            /\ Lost(d)' = Lost(d)
        BY <2>1, <1>6, <1>10
      <3>4. QED  BY <3>1, <3>2, <3>3
    <2>3. QED  BY <2>2 DEF StackInv
  <1>17. ReturnInv'
    <2>1. ASSUME NEW i \in 1..(L + 1)
          PROVE  /\ tape'.frames[i].complete = TRUE
                 /\ ~mixed[tape'.frames[i].cpu] =>
                      (told'[i].returned <=>
                        \A n \in 1..Len(tape'.stacks[tape'.frames[i].cpu]) :
                          tape'.stacks[tape'.frames[i].cpu][n] # i)
      <3>1. CASE i \in 1..L
        <4>1. PICK d \in Cpus : d = F[i].cpu
          BY <3>1, <1>1, <1>3, <1>4, TypedParts
        <4>2. /\ F[i].complete = TRUE
              /\ ~mixed[d] => (told[i].returned <=>
                                 \A n \in 1..Len(tape.stacks[d]) : tape.stacks[d][n] # i)
          BY <3>1, <4>1, <1>1, <1>3, <1>4 DEF ReturnInv
        <4>3. tape'.frames[i] = F[i] /\ told'[i] = told[i] /\ tape'.stacks[d] = tape.stacks[d]
          BY <3>1, <1>10, <1>11
        <4>4. QED  BY <4>1, <4>2, <4>3
      <3>2. CASE i = L + 1
        <4>1. tape'.frames[i] = f /\ told'[i].returned = TRUE
          BY <3>2, <1>11
        <4>2. \A n \in 1..Len(tape'.stacks[c]) : tape'.stacks[c][n] # i
          BY <3>2, <1>10, <1>12
        <4>3. QED  BY <4>1, <4>2, <1>9
      <3>3. i \in 1..L \/ i = L + 1
        OBVIOUS
      <3>4. QED  BY <3>1, <3>2, <3>3, Zenon
    <2>2. QED  BY <2>1, <1>6, <1>11 DEF ReturnInv
  <1>18. QED  BY <1>11, <1>13, <1>14, <1>15, <1>16, <1>17 DEF FInv

\* What a closing brace leaves: the innermost open frame of its processor, if
\* there is one, has a duration and is open no more.
Shut(c, duration) ==
  LET s == tape.stacks[c]
  IN  /\ tape' \in Tapes /\ Len(tape'.frames) = Len(tape.frames)
      /\ \A i \in 1..Len(tape.frames) :
           /\ tape'.frames[i].cpu = tape.frames[i].cpu
           /\ tape'.frames[i].parent = tape.frames[i].parent
           /\ tape'.frames[i].depth = tape.frames[i].depth
           /\ tape'.frames[i].complete = tape.frames[i].complete
           /\ tape'.frames[i].duration =
                IF s # <<>> /\ i = s[Len(s)] THEN duration ELSE tape.frames[i].duration
      /\ tape'.stacks[c] \in Seq(Nat)
      /\ Len(tape'.stacks[c]) = IF s = <<>> THEN 0 ELSE Len(s) - 1
      /\ \A n \in 1..Len(tape'.stacks[c]) : tape'.stacks[c][n] = s[n]
      /\ \A d \in Cpus : d # c => tape'.stacks[d] = tape.stacks[d]

LEMMA CloseShuts ==
  ASSUME Typed, OpenInv, NEW c \in Cpus, NEW line, line.k = "close", line.cpu = c,
         line.duration \in Seq(Nat), tape' = ReadLine(tape, line)
  PROVE  Shut(c, line.duration)
  <1>1. PICK s \in Seq(Nat) : s = tape.stacks[c]
    BY TypedParts
  <1>2. PICK F \in Seq(Frames) : F = tape.frames
    BY TypedParts
  <1>3. tape \in Tapes /\ tape.stacks \in [Cpus -> Seq(Nat)] /\ Len(s) \in Nat /\ Len(F) \in Nat
    BY TypedParts
  <1>4. CASE s = <<>>
    <2>1. tape' \in Tapes /\ tape'.frames = F /\ tape'.stacks = tape.stacks
      BY <1>1, <1>2, <1>3, <1>4, ReadStray
    <2>2. Len(s) = 0
      BY <1>4
    <2>3. QED  BY <2>1, <2>2, <1>1, <1>2, <1>4 DEF Shut
  <1>5. CASE s # <<>>
    <2>1. /\ Last(s) = s[Len(s)] /\ Len(s) >= 1 /\ Front(s) \in Seq(Nat)
          /\ Len(Front(s)) = Len(s) - 1 /\ \A i \in 1..(Len(s) - 1) : Front(s)[i] = s[i]
      BY <1>5, LastOf
    <2>2. Last(s) \in 1..Len(F)
      <3>1. Len(s) \in 1..Len(s)
        BY <2>1, <1>3
      <3>2. QED  BY <3>1, <2>1, <1>1, <1>2 DEF OpenInv
    <2>3. PICK j \in 1..Len(F) : j = s[Len(s)]
      BY <2>1, <2>2
    <2>4. /\ tape' \in Tapes
          /\ tape'.frames = [F EXCEPT ![j].duration = line.duration]
          /\ tape'.stacks = [tape.stacks EXCEPT ![c] = Front(s)]
      <3>1. /\ line.cpu \in Cpus /\ tape.stacks[line.cpu] = s /\ Last(s) = j
            /\ tape.frames = F /\ tape \in Tapes
        BY <2>1, <2>3, <1>1, <1>2, <1>3
      <3>2. /\ ReadLine(tape, line) \in Tapes
            /\ ReadLine(tape, line).frames =
                 [tape.frames EXCEPT ![Last(tape.stacks[line.cpu])].duration = line.duration]
            /\ ReadLine(tape, line).stacks =
                 [tape.stacks EXCEPT ![line.cpu] = Front(tape.stacks[line.cpu])]
        BY <3>1, <1>5, ReadClose
      <3>3. QED  BY <3>1, <3>2
    <2>5. tape'.stacks[c] = Front(s) /\ \A d \in Cpus : d # c => tape'.stacks[d] = tape.stacks[d]
      BY <2>4, <1>3
    <2>6. Len(tape'.frames) = Len(F)
          /\ \A i \in 1..Len(F) : i # j => tape'.frames[i] = F[i]
      BY <2>4, <1>3
    <2>7. PICK g \in Frames : g = F[j]
      BY <1>3
    <2>8. tape'.frames[j] = [g EXCEPT !.duration = line.duration]
      <3>1. j \in DOMAIN F
        BY <1>3
      <3>2. tape'.frames[j] = [F[j] EXCEPT !.duration = line.duration]
        BY <3>1, <2>4
      <3>3. QED  BY <3>2, <2>7
    <2>9. /\ tape'.frames[j].cpu = g.cpu /\ tape'.frames[j].parent = g.parent
          /\ tape'.frames[j].depth = g.depth /\ tape'.frames[j].complete = g.complete
          /\ tape'.frames[j].duration = line.duration
      BY <2>7, <2>8 DEF Frames
    <2>10. ASSUME NEW i \in 1..Len(F)
           PROVE  /\ tape'.frames[i].cpu = F[i].cpu
                  /\ tape'.frames[i].parent = F[i].parent
                  /\ tape'.frames[i].depth = F[i].depth
                  /\ tape'.frames[i].complete = F[i].complete
                  /\ tape'.frames[i].duration =
                       IF s # <<>> /\ i = s[Len(s)] THEN line.duration ELSE F[i].duration
      <3>1. CASE i = j
        BY <3>1, <2>3, <2>7, <2>9, <1>5
      <3>2. CASE i # j
        BY <3>2, <2>3, <2>6
      <3>3. QED  BY <3>1, <3>2
    <2>11. QED  BY <2>1, <2>4, <2>5, <2>6, <2>10, <1>1, <1>2, <1>5 DEF Shut
  <1>6. QED  BY <1>4, <1>5

\* Of the frames of the processors that have kept their task, the call that
\* returns is the innermost one open on the processor it returns on.
LEMMA LeavesTheInnermost ==
  ASSUME Typed, OpenInv, CallInv, StackInv, NEW c \in Cpus, calls[running[c]] # <<>>,
         NEW i \in 1..Len(told), ~mixed[tape.frames[i].cpu]
  PROVE  /\ i = CallerAt(c) => tape.frames[i].cpu = c
         /\ i = ParentAt(c) => tape.frames[i].cpu = c
         /\ i = CallerAt(c) => i = ParentAt(c)
         /\ i = ParentAt(c) => i = CallerAt(c)
  <1>1. PICK w \in Seq(CallSet) : w = calls[running[c]] /\ w # <<>>
    BY TypedParts
  <1>2. PICK s \in Seq(Nat) : s = tape.stacks[c]
    BY TypedParts
  <1>3. PICK d \in Cpus : d = tape.frames[i].cpu /\ ~mixed[d]
    BY TypedParts
  <1>4. CallerAt(c) = w[Len(w)].frame /\ Len(w) \in 1..Len(w)
    <2>1. Last(w) = w[Len(w)] /\ Len(w) >= 1 /\ Len(w) \in Nat
      BY <1>1, LastOf
    <2>2. QED  BY <2>1, <1>1 DEF CallerAt
  <1>5. ASSUME i = CallerAt(c) PROVE d = c
    <2>1. w[Len(w)].frame # 0
      BY <1>4, <1>5
    <2>2. running[c] \in Tasks
      BY TypedParts
    <2>3. running[d] = running[c]
      BY <2>1, <2>2, <1>1, <1>3, <1>4, <1>5 DEF CallInv
    <2>4. QED  BY <2>3 DEF Typed
  <1>6. ASSUME i = ParentAt(c) PROVE d = c
    <2>1. s # <<>>
      BY <1>2, <1>6 DEF ParentAt
    <2>2. Last(s) = s[Len(s)] /\ Len(s) \in 1..Len(s)
      <3>1. Last(s) = s[Len(s)] /\ Len(s) >= 1 /\ Len(s) \in Nat
        BY <2>1, LastOf
      <3>2. QED  BY <3>1
    <2>3. i = s[Len(s)]
      BY <2>1, <2>2, <1>2, <1>6 DEF ParentAt
    <2>4. QED  BY <2>2, <2>3, <1>2, <1>3 DEF OpenInv
  <1>7. ~mixed[c] => ParentAt(c) = CallerAt(c)
    BY ParentOf
  <1>8. QED  BY <1>3, <1>5, <1>6, <1>7

LEMMA LeaveF ==
  ASSUME FInv, NEW c \in Cpus, Leave(c)
  PROVE  FInv'
  <1>1. /\ Typed /\ FramesAreCalls /\ OpenInv /\ CallInv /\ StackInv /\ ReturnInv
        /\ ~ended /\ ended' = ended
    BY DEF FInv, Leave, Emit
  <1>2. PICK t \in Tasks : t = running[c]
    BY <1>1, TypedParts
  <1>3. PICK w \in Seq(CallSet) : w = calls[t] /\ w # <<>>
    BY <1>1, <1>2, TypedParts DEF Leave
  <1>4. PICK s \in Seq(Nat) : s = tape.stacks[c]
    BY <1>1, TypedParts
  <1>5. PICK F \in Seq(Frames) : F = tape.frames
    BY <1>1, TypedParts
  <1>6. PICK L \in Nat : L = Len(told) /\ L = Len(F)
    BY <1>1, <1>5, TypedParts
  <1>7. /\ Last(w) = w[Len(w)] /\ Len(w) >= 1 /\ Len(w) \in Nat /\ Last(w) \in CallSet
        /\ Front(w) \in Seq(CallSet) /\ Len(Front(w)) = Len(w) - 1
        /\ \A n \in 1..(Len(w) - 1) : Front(w)[n] = w[n]
    BY <1>3, LastOf
  <1>8. PICK i0 \in Nat : i0 = Last(w).frame /\ i0 = CallerAt(c)
    BY <1>2, <1>3, <1>7 DEF CallSet, CallerAt
  <1>9. i0 # 0 => i0 \in 1..L
    <2>1. Len(w) \in 1..Len(w)
      BY <1>7
    <2>2. calls[t][Len(w)].frame = i0
      BY <1>3, <1>7, <1>8
    <2>3. Len(w) \in 1..Len(calls[t]) /\ t \in Tasks
      BY <2>1, <1>3
    <2>4. calls[t][Len(w)].frame # 0 => calls[t][Len(w)].frame \in 1..Len(told)
      BY <2>3, <1>1 DEF CallInv
    <2>5. QED  BY <2>2, <2>4, <1>6
  <1>10. PICK line : line = [k |-> "close", cpu |-> c,
                             name |-> IF tail THEN Last(w).name ELSE "unnamed",
                             duration |-> <<i0>>]
    OBVIOUS
  <1>11. /\ tape' = ReadLine(tape, line)
         /\ calls' = [calls EXCEPT ![t] = Front(w)]
         /\ told' = IF i0 = 0 THEN told ELSE [told EXCEPT ![i0].returned = TRUE]
         /\ UNCHANGED <<running, mixed>>
    BY <1>2, <1>3, <1>8, <1>10 DEF Leave, Emit
  <1>12. Shut(c, <<i0>>)
    <2>1. line.k = "close" /\ line.cpu = c /\ line.duration = <<i0>> /\ <<i0>> \in Seq(Nat)
      BY <1>10
    <2>2. QED  BY <2>1, <1>1, <1>11, CloseShuts
  <1>13. /\ tape' \in Tapes /\ Len(tape'.frames) = L
         /\ \A i \in 1..L :
              /\ tape'.frames[i].cpu = F[i].cpu
              /\ tape'.frames[i].parent = F[i].parent
              /\ tape'.frames[i].depth = F[i].depth
              /\ tape'.frames[i].complete = F[i].complete
              /\ tape'.frames[i].duration =
                   IF s # <<>> /\ i = s[Len(s)] THEN <<i0>> ELSE F[i].duration
         /\ tape'.stacks[c] \in Seq(Nat)
         /\ Len(tape'.stacks[c]) = IF s = <<>> THEN 0 ELSE Len(s) - 1
         /\ \A n \in 1..Len(tape'.stacks[c]) : tape'.stacks[c][n] = s[n]
         /\ \A d \in Cpus : d # c => tape'.stacks[d] = tape.stacks[d]
    BY <1>4, <1>5, <1>6, <1>12 DEF Shut
  <1>14. /\ told' \in Seq(ToldSet) /\ Len(told') = L
         /\ \A i \in 1..L : /\ told'[i].caller = told[i].caller
                            /\ told'[i].clean = told[i].clean
                            /\ told'[i].returned = IF i = i0 THEN TRUE ELSE told[i].returned
    <2>1. PICK T \in Seq(ToldSet) : T = told /\ Len(T) = L
      BY <1>1, <1>6, TypedParts
    <2>2. CASE i0 = 0
      <3>1. told' = told /\ Len(told) = L /\ told \in Seq(ToldSet)
        BY <2>1, <2>2, <1>11
      <3>2. \A i \in 1..L : i # i0
        BY <2>2
      <3>3. QED  BY <3>1, <3>2, Zenon
    <2>3. CASE i0 # 0
      <3>1. PICK r \in ToldSet : r = T[i0]
        BY <2>1, <2>3, <1>9
      <3>2. PICK q : q = [r EXCEPT !.returned = TRUE]
        OBVIOUS
      <3>3. q \in ToldSet /\ q.caller = r.caller /\ q.clean = r.clean /\ q.returned = TRUE
        BY <3>1, <3>2 DEF ToldSet
      <3>4. told' = [T EXCEPT ![i0] = q]
        BY <3>1, <3>2, <2>1, <2>3, <1>11
      <3>5. /\ told' \in Seq(ToldSet) /\ Len(told') = L /\ told'[i0] = q
            /\ \A i \in 1..L : i # i0 => told'[i] = T[i]
        BY <3>3, <3>4, <2>1, <2>3, <1>9
      <3>6. QED  BY <3>1, <3>3, <3>5, <2>1
    <2>4. QED  BY <2>2, <2>3
  <1>15. calls'[t] = Front(w) /\ \A u \in Tasks : u # t => calls'[u] = calls[u]
    BY <1>1, <1>11 DEF Typed
  <1>16. Len(s) \in Nat /\ (s # <<>> => Len(s) >= 1) /\ (s = <<>> => Len(s) = 0)
    OBVIOUS
  <1>17. ParentAt(c) = IF s = <<>> THEN 0 ELSE s[Len(s)]
    <2>1. s # <<>> => Last(s) = s[Len(s)]
      BY LastOf
    <2>2. QED  BY <2>1, <1>4 DEF ParentAt
  <1>18. ASSUME NEW i \in 1..L, ~mixed[F[i].cpu]
         PROVE  /\ i = i0 => F[i].cpu = c /\ s # <<>> /\ i = s[Len(s)]
                /\ s # <<>> /\ i = s[Len(s)] => i = i0
    <2>1. /\ i = CallerAt(c) => tape.frames[i].cpu = c
          /\ i = ParentAt(c) => tape.frames[i].cpu = c
          /\ i = CallerAt(c) => i = ParentAt(c)
          /\ i = ParentAt(c) => i = CallerAt(c)
      BY <1>1, <1>2, <1>3, <1>5, <1>6, <1>18, LeavesTheInnermost
    <2>2. QED  BY <2>1, <1>5, <1>8, <1>17
  <1>19. Typed'
    <2>1. /\ running' \in [Cpus -> Tasks] /\ mixed' \in [Cpus -> BOOLEAN]
          /\ \A d, e \in Cpus : running'[d] = running'[e] => d = e
      BY <1>1, <1>11 DEF Typed
    <2>2. calls' \in [Tasks -> Seq(CallSet)]
      BY <1>1, <1>7, <1>11 DEF Typed, CallSet
    <2>3. \A i \in 1..Len(tape'.frames) : tape'.frames[i].parent < i
      BY <1>1, <1>5, <1>6, <1>13 DEF Typed
    <2>4. QED  BY <2>1, <2>2, <2>3, <1>13, <1>14, Zenon DEF Typed, ToldSet, CallSet
  <1>20. FramesAreCalls'
    <2>1. ASSUME NEW i \in 1..L
          PROVE  /\ told'[i].clean =>
                      /\ tape'.frames[i].parent = told'[i].caller
                      /\ tape'.frames[i].parent # 0 =>
                           tape'.frames[i].depth = tape'.frames[tape'.frames[i].parent].depth + 1
                 /\ ~mixed[tape'.frames[i].cpu] =>
                      tape'.frames[i].duration = IF told'[i].returned THEN <<i>> ELSE <<>>
      <3>1. /\ told[i].clean => /\ F[i].parent = told[i].caller
                                /\ F[i].parent # 0 => F[i].depth = F[F[i].parent].depth + 1
            /\ ~mixed[F[i].cpu] => F[i].duration = IF told[i].returned THEN <<i>> ELSE <<>>
        <4>1. i \in DOMAIN told
          <5>1. told \in Seq(ToldSet)
            BY <1>1, TypedParts
          <5>2. DOMAIN told = 1..Len(told)
            BY <5>1, LenProperties
          <5>3. QED  BY <5>2, <1>6, Zenon
        <4>2. QED  BY <4>1, <1>1, <1>5 DEF FramesAreCalls
      <3>2. F[i].parent # 0 => F[i].parent \in 1..L
        <4>1. F[i] \in Frames /\ F[i].parent < i
          BY <1>1, <1>5, <1>6 DEF Typed
        <4>2. F[i].parent \in Nat /\ F[i].parent < i
          BY <4>1 DEF Frames
        <4>3. QED  BY <4>2
      <3>3. told'[i].clean =>
              /\ tape'.frames[i].parent = told'[i].caller
              /\ tape'.frames[i].parent # 0 =>
                   tape'.frames[i].depth = tape'.frames[tape'.frames[i].parent].depth + 1
        <4>1. /\ told'[i].clean = told[i].clean /\ told'[i].caller = told[i].caller
              /\ tape'.frames[i].parent = F[i].parent /\ tape'.frames[i].depth = F[i].depth
          BY <1>13, <1>14
        <4>2. F[i].parent # 0 => tape'.frames[F[i].parent].depth = F[F[i].parent].depth
          BY <3>2, <1>13
        <4>3. QED  BY <4>1, <4>2, <3>1
      <3>4. ASSUME ~mixed[F[i].cpu]
            PROVE  tape'.frames[i].duration = IF told'[i].returned THEN <<i>> ELSE <<>>
        <4>1. CASE i = i0
          BY <4>1, <3>4, <1>13, <1>14, <1>18
        <4>2. CASE i # i0
          BY <4>2, <3>1, <3>4, <1>13, <1>14, <1>18
        <4>3. QED  BY <4>1, <4>2
      <3>5. QED  BY <3>3, <3>4, <1>13
    <2>2. DOMAIN told' = 1..L
      BY <1>14
    <2>3. QED  BY <2>1, <2>2, <1>1, <1>11 DEF FramesAreCalls
  <1>21. OpenInv'
    <2>1. ASSUME NEW d \in Cpus, NEW n \in 1..Len(tape'.stacks[d])
          PROVE  /\ tape'.stacks[d][n] \in 1..L
                 /\ tape'.frames[tape'.stacks[d][n]].cpu = d
                 /\ \A m \in 1..(n - 1) : tape'.stacks[d][m] < tape'.stacks[d][n]
      <3>1. CASE d # c
        <4>1. /\ n \in 1..Len(tape.stacks[d]) /\ tape'.stacks[d] = tape.stacks[d]
          BY <3>1, <1>13
        <4>2. /\ tape.stacks[d][n] \in 1..L /\ F[tape.stacks[d][n]].cpu = d
              /\ \A m \in 1..(n - 1) : tape.stacks[d][m] < tape.stacks[d][n]
          BY <4>1, <1>1, <1>5, <1>6 DEF OpenInv
        <4>3. PICK i \in 1..L : i = tape.stacks[d][n] /\ i = tape'.stacks[d][n]
          BY <4>1, <4>2
        <4>4. tape'.frames[i].cpu = F[i].cpu
          BY <1>13
        <4>5. \A m \in 1..(n - 1) : tape'.stacks[d][m] < tape'.stacks[d][n]
          BY <4>1, <4>2
        <4>6. QED  BY <4>2, <4>3, <4>4, <4>5
      <3>2. CASE d = c
        <4>1. PICK k \in Nat : k = Len(tape'.stacks[c]) /\ k <= Len(s)
          BY <1>13, <1>16
        <4>2. n \in 1..k /\ n \in 1..Len(s) /\ \A m \in 1..(n - 1) : m \in 1..k
          BY <3>2, <4>1, <1>16
        <4>3. /\ s[n] \in 1..L /\ F[s[n]].cpu = c
              /\ \A m \in 1..(n - 1) : s[m] < s[n]
          BY <4>2, <1>1, <1>4, <1>5, <1>6 DEF OpenInv
        <4>4. /\ tape'.stacks[c][n] = s[n]
              /\ \A m \in 1..(n - 1) : tape'.stacks[c][m] = s[m]
          BY <4>1, <4>2, <1>13
        <4>5. QED  BY <3>2, <4>3, <4>4, <1>13, ZenonT(30)
      <3>3. QED  BY <3>1, <3>2
    <2>2. QED  BY <2>1, <1>13 DEF OpenInv
  <1>22. CallInv'
    <2>1. ASSUME NEW u \in Tasks, NEW n \in 1..Len(calls'[u]), calls'[u][n].frame # 0
          PROVE  /\ calls'[u][n].frame \in 1..L
                 /\ ~mixed[tape'.frames[calls'[u][n].frame].cpu] =>
                      running[tape'.frames[calls'[u][n].frame].cpu] = u
      <3>1. n \in 1..Len(calls[u]) /\ calls'[u][n] = calls[u][n]
        <4>1. CASE u # t
          BY <4>1, <1>15
        <4>2. CASE u = t
          <5>1. n \in 1..(Len(w) - 1)
            BY <4>2, <1>7, <1>15
          <5>2. calls'[u] = Front(w) /\ calls[u] = w
            BY <4>2, <1>3, <1>15
          <5>3. n \in 1..Len(w) /\ Front(w)[n] = w[n]
            BY <5>1, <1>7
          <5>4. QED  BY <5>2, <5>3
        <4>3. QED  BY <4>1, <4>2
      <3>2. PICK i : i = calls[u][n].frame /\ i # 0
        BY <3>1, <2>1
      <3>3. i \in 1..L /\ (~mixed[F[i].cpu] => running[F[i].cpu] = u)
        BY <3>1, <3>2, <1>1, <1>5, <1>6 DEF CallInv
      <3>4. tape'.frames[i].cpu = F[i].cpu
        BY <3>3, <1>13
      <3>5. calls'[u][n].frame = i
        BY <3>1, <3>2
      <3>6. QED  BY <3>3, <3>4, <3>5
    <2>2. QED  BY <2>1, <1>11, <1>14 DEF CallInv
  <1>23. StackInv'
    <2>1. ASSUME NEW d \in Cpus, ~mixed[d]
          PROVE  /\ Lost(d)' >= 0
                 /\ \A n \in 1..Len(calls'[running[d]]) :
                      calls'[running[d]][n].frame =
                        IF n <= Lost(d)' THEN 0 ELSE tape'.stacks[d][n - Lost(d)']
                 /\ \A n \in 1..Len(tape'.stacks[d]) :
                      tape'.frames[tape'.stacks[d][n]].depth = Lost(d)' + n - 1
      <3>1. Lost(d)' = Len(calls'[running[d]]) - Len(tape'.stacks[d])
        BY <1>11 DEF Lost
      <3>2. /\ Lost(d) >= 0
            /\ \A n \in 1..Len(calls[running[d]]) :
                 calls[running[d]][n].frame =
                   IF n <= Lost(d) THEN 0 ELSE tape.stacks[d][n - Lost(d)]
            /\ \A n \in 1..Len(tape.stacks[d]) :
                 F[tape.stacks[d][n]].depth = Lost(d) + n - 1
        BY <2>1, <1>1, <1>5 DEF StackInv
      <3>3. \A n \in 1..Len(tape.stacks[d]) :
              /\ tape.stacks[d][n] \in 1..L
              /\ tape'.frames[tape.stacks[d][n]].depth = F[tape.stacks[d][n]].depth
        BY <1>1, <1>5, <1>6, <1>13 DEF OpenInv
      <3>4. CASE d # c
        <4>1. running[d] # t /\ running[d] \in Tasks
          BY <3>4, <1>1, <1>2 DEF Typed
        <4>2. calls'[running[d]] = calls[running[d]] /\ tape'.stacks[d] = tape.stacks[d]
          BY <3>4, <4>1, <1>13, <1>15
        <4>3. Lost(d)' = Lost(d)
          BY <3>1, <4>2 DEF Lost
        <4>4. QED  BY <3>2, <3>3, <4>2, <4>3
      <3>5. CASE d = c
        <4>1. PICK k : k = Lost(d)
          OBVIOUS
        <4>2. k = Len(w) - Len(s) /\ k \in Int /\ k >= 0
          BY <3>2, <3>5, <4>1, <1>2, <1>3, <1>4, <1>7, <1>16 DEF Lost
        <4>3. /\ \A n \in 1..Len(w) : w[n].frame = IF n <= k THEN 0 ELSE s[n - k]
              /\ \A n \in 1..Len(s) : tape'.frames[s[n]].depth = k + n - 1
          BY <3>2, <3>3, <3>5, <4>1, <1>2, <1>3, <1>4
        <4>4. PICK v : v = calls'[t] /\ v = Front(w)
          BY <1>15
        <4>5. Len(v) = Len(w) - 1 /\ \A n \in 1..Len(v) : n \in 1..Len(w) /\ v[n] = w[n]
          BY <4>4, <1>7
        <4>6. PICK z : z = tape'.stacks[c]
          OBVIOUS
        <4>7. PICK j : j = Lost(d)'
          OBVIOUS
        <4>8. CASE s = <<>>
          <5>1. Len(z) = 0 /\ j = Len(w) - 1 /\ k = Len(w) /\ j >= 0
            <6>1. Len(z) = 0
              BY <4>6, <4>8, <1>13
            <6>2. Len(s) = 0
              BY <4>8, <1>16
            <6>3. j = Len(v) - Len(z)
              BY <3>1, <3>5, <4>4, <4>6, <4>7, <1>2
            <6>4. QED  BY <6>1, <6>2, <6>3, <4>2, <4>5, <1>7
          <5>2. \A n \in 1..Len(v) : v[n].frame = 0 /\ n <= j
            <6>1. \A n \in 1..Len(v) : n \in 1..Len(w) /\ v[n] = w[n] /\ n <= Len(w) - 1
              BY <4>5, <1>7
            <6>2. \A n \in 1..Len(w) : n <= k
              BY <5>1, <1>7
            <6>3. QED  BY <6>1, <6>2, <5>1, <4>3
          <5>3. \A n \in 1..Len(z) : FALSE
            BY <5>1
          <5>4. QED  BY <5>1, <5>2, <5>3, <4>4, <4>6, <4>7, <3>5, <1>2, ZenonT(30)
        <4>9. CASE s # <<>>
          <5>1. Len(z) = Len(s) - 1
            BY <4>6, <4>9, <1>13
          <5>2. j = k
            <6>1. j = (Len(w) - 1) - (Len(s) - 1)
              BY <5>1, <3>1, <3>5, <4>4, <4>5, <4>6, <4>7, <1>2
            <6>2. QED  BY <6>1, <4>2, <1>7, <1>16
          <5>3. \A n \in 1..Len(z) : n \in 1..Len(s) /\ z[n] = s[n]
            BY <5>1, <4>6, <1>13, <1>16
          <5>4. ASSUME NEW n \in 1..Len(v)
                PROVE  v[n].frame = IF n <= j THEN 0 ELSE z[n - j]
            <6>1. v[n] = w[n] /\ n \in 1..Len(w)
              BY <4>5
            <6>2. ~(n <= k) => n - k \in 1..Len(z)
              BY <5>1, <4>2, <4>5, <1>7, <1>16, SMTT(30)
            <6>3. QED  BY <6>1, <6>2, <5>2, <5>3, <4>3
          <5>5. \A n \in 1..Len(z) : tape'.frames[z[n]].depth = j + n - 1
            BY <5>2, <5>3, <4>3
          <5>6. QED  BY <5>2, <5>4, <5>5, <4>2, <4>4, <4>6, <4>7, <3>5, <1>2
        <4>10. QED  BY <4>8, <4>9
      <3>6. QED  BY <3>4, <3>5
    <2>2. QED  BY <2>1, <1>11 DEF StackInv
  <1>24. ReturnInv'
    <2>1. ASSUME NEW i \in 1..L
          PROVE  /\ tape'.frames[i].complete = TRUE
                 /\ ~mixed[tape'.frames[i].cpu] =>
                      (told'[i].returned <=>
                        \A n \in 1..Len(tape'.stacks[tape'.frames[i].cpu]) :
                          tape'.stacks[tape'.frames[i].cpu][n] # i)
      <3>1. PICK d \in Cpus : d = F[i].cpu
        BY <1>1, <1>5, <1>6, TypedParts
      <3>2. /\ F[i].complete = TRUE
            /\ ~mixed[d] => (told[i].returned <=>
                               \A n \in 1..Len(tape.stacks[d]) : tape.stacks[d][n] # i)
        BY <3>1, <1>1, <1>5, <1>6 DEF ReturnInv
      <3>3. ASSUME ~mixed[d]
            PROVE  told'[i].returned <=>
                     \A n \in 1..Len(tape'.stacks[d]) : tape'.stacks[d][n] # i
        <4>1. CASE i = i0
          <5>1. d = c /\ s # <<>> /\ i = s[Len(s)] /\ told'[i].returned = TRUE
            BY <4>1, <3>1, <3>3, <1>14, <1>18
          <5>2. ASSUME NEW n \in 1..Len(tape'.stacks[c]) PROVE tape'.stacks[c][n] # i
            <6>1. n \in 1..(Len(s) - 1) /\ tape'.stacks[c][n] = s[n]
              BY <5>1, <1>13
            <6>2. Len(s) \in 1..Len(s)
              BY <5>1, <1>16
            <6>3. s[n] < s[Len(s)] /\ s[Len(s)] \in 1..L
              BY <6>1, <6>2, <1>1, <1>4, <1>5, <1>6 DEF OpenInv
            <6>4. n \in 1..Len(s)
              BY <6>1, <1>16
            <6>5. s[n] \in Nat
              BY <6>4
            <6>6. QED  BY <6>1, <6>3, <6>5, <5>1
          <5>3. QED  BY <5>1, <5>2
        <4>2. CASE i # i0
          <5>1. told'[i].returned = told[i].returned /\ ~(s # <<>> /\ i = s[Len(s)])
            BY <4>2, <3>1, <3>3, <1>14, <1>18
          <5>2. CASE d # c
            BY <5>1, <5>2, <3>2, <3>3, <1>13, SMTT(30)
          <5>3. CASE d = c /\ s = <<>>
            <6>1. Len(tape'.stacks[c]) = 0 /\ Len(tape.stacks[c]) = 0
              BY <5>3, <1>4, <1>13, <1>16
            <6>2. QED  BY <6>1, <5>1, <5>3, <3>2, <3>3
          <5>4. CASE d = c /\ s # <<>>
            <6>1. \A n \in 1..Len(s) : n \in 1..(Len(s) - 1) \/ n = Len(s)
              BY <1>16
            <6>2. \A n \in 1..(Len(s) - 1) : n \in 1..Len(s) /\ tape'.stacks[c][n] = s[n]
              BY <5>4, <1>13, <1>16
            <6>3. Len(tape'.stacks[c]) = Len(s) - 1
              BY <5>4, <1>13
            <6>4. (\A n \in 1..Len(s) : s[n] # i)
                    <=> \A n \in 1..(Len(s) - 1) : tape'.stacks[c][n] # i
              BY <6>1, <6>2, <5>1, <5>4
            <6>5. QED  BY <6>3, <6>4, <5>1, <5>4, <3>2, <3>3, <1>4
          <5>5. QED  BY <5>2, <5>3, <5>4
        <4>3. QED  BY <4>1, <4>2
      <3>4. tape'.frames[i].cpu = d /\ tape'.frames[i].complete = TRUE
        BY <3>1, <3>2, <1>13
      <3>5. QED  BY <3>3, <3>4
    <2>2. QED  BY <2>1, <1>11, <1>13 DEF ReturnInv
  <1>25. QED  BY <1>19, <1>20, <1>21, <1>22, <1>23, <1>24 DEF FInv

\* A frame's claims hold of a tape that has the same frames and fewer processors
\* that have kept their task.
LEMMA SameFrames ==
  ASSUME FInv, ~ended, ended' = ended, NEW c \in Cpus, NEW k \in Skipped \cup Unknown \cup Events,
         tape' = ReadLine(tape, [k |-> k, cpu |-> c]),
         calls' = calls, told' = told,
         \/ UNCHANGED <<running, mixed>>
         \/ \E t \in Tasks : /\ \A d \in Cpus : running[d] # t
                             /\ running' = [running EXCEPT ![c] = t]
                             /\ mixed' = [mixed EXCEPT ![c] = TRUE]
  PROVE  FInv'
  <1>1. Typed /\ FramesAreCalls /\ OpenInv /\ CallInv /\ StackInv /\ ReturnInv
    BY DEF FInv
  <1>2. tape' \in Tapes /\ tape'.frames = tape.frames /\ tape'.stacks = tape.stacks
    <2>1. tape \in Tapes
      BY <1>1, TypedParts
    <2>2. QED  BY <2>1, ReadOther
  <1>3. /\ running' \in [Cpus -> Tasks] /\ mixed' \in [Cpus -> BOOLEAN]
        /\ \A d, e \in Cpus : running'[d] = running'[e] => d = e
        /\ \A d \in Cpus : ~mixed'[d] => ~mixed[d] /\ running'[d] = running[d]
    <2>1. /\ running \in [Cpus -> Tasks] /\ mixed \in [Cpus -> BOOLEAN]
          /\ \A d, e \in Cpus : running[d] = running[e] => d = e
      BY <1>1 DEF Typed
    <2>2. CASE UNCHANGED <<running, mixed>>
      BY <2>1, <2>2
    <2>3. CASE \E t \in Tasks : /\ \A d \in Cpus : running[d] # t
                                /\ running' = [running EXCEPT ![c] = t]
                                /\ mixed' = [mixed EXCEPT ![c] = TRUE]
      <3>1. PICK t \in Tasks : /\ \A d \in Cpus : running[d] # t
                               /\ running' = [running EXCEPT ![c] = t]
                               /\ mixed' = [mixed EXCEPT ![c] = TRUE]
        BY <2>3
      <3>2. /\ running' \in [Cpus -> Tasks] /\ running'[c] = t
            /\ \A d \in Cpus : d # c => running'[d] = running[d]
        BY <3>1, <2>1
      <3>3. /\ mixed' \in [Cpus -> BOOLEAN] /\ mixed'[c] = TRUE
            /\ \A d \in Cpus : d # c => mixed'[d] = mixed[d]
        BY <3>1, <2>1
      <3>4. \A d, e \in Cpus : running'[d] = running'[e] => d = e
        BY <3>1, <3>2, <2>1
      <3>5. QED  BY <3>2, <3>3, <3>4
    <2>4. QED  BY <2>2, <2>3
  <1>4. PICK F \in Seq(Frames) : F = tape.frames /\ F = tape'.frames /\ Len(told) = Len(F)
    BY <1>1, <1>2, TypedParts
  <1>5. \A i \in 1..Len(F) : F[i].cpu \in Cpus
    BY <1>1, <1>4, TypedParts
  <1>6. Typed'
    <2>1. /\ told' \in Seq(ToldSet) /\ calls' \in [Tasks -> Seq(CallSet)]
          /\ Len(told') = Len(tape'.frames)
          /\ \A i \in 1..Len(tape'.frames) : tape'.frames[i].parent < i
      BY <1>1, <1>2 DEF Typed, ToldSet, CallSet
    <2>2. QED  BY <2>1, <1>2, <1>3, Zenon DEF Typed, ToldSet, CallSet
  <1>7. FramesAreCalls'
    <2>1. \A i \in DOMAIN told : i \in 1..Len(F)
      <3>1. told \in Seq(ToldSet)
        BY <1>1, TypedParts
      <3>2. QED  BY <3>1, <1>4, LenProperties
    <2>2. ASSUME NEW i \in DOMAIN told
          PROVE  /\ told[i].clean =>
                      /\ F[i].parent = told[i].caller
                      /\ F[i].parent # 0 => F[i].depth = F[F[i].parent].depth + 1
                 /\ ~mixed'[F[i].cpu] =>
                      F[i].duration = IF told[i].returned THEN <<i>> ELSE <<>>
      <3>1. F[i].cpu \in Cpus
        BY <2>1, <1>5
      <3>2. /\ told[i].clean =>
                 /\ F[i].parent = told[i].caller
                 /\ F[i].parent # 0 => F[i].depth = F[F[i].parent].depth + 1
            /\ ~mixed[F[i].cpu] =>
                 F[i].duration = IF told[i].returned THEN <<i>> ELSE <<>>
        BY <1>1, <1>4 DEF FramesAreCalls
      <3>3. QED  BY <3>1, <3>2, <1>3
    <2>3. QED  BY <2>2, <1>4, ZenonT(30) DEF FramesAreCalls
  <1>8. OpenInv'
    <2>1. ASSUME NEW d \in Cpus, NEW n \in 1..Len(tape.stacks[d])
          PROVE  /\ tape.stacks[d][n] \in 1..Len(F)
                 /\ F[tape.stacks[d][n]].cpu = d
                 /\ \A m \in 1..(n - 1) : tape.stacks[d][m] < tape.stacks[d][n]
      BY <1>1, <1>4 DEF OpenInv
    <2>2. tape'.stacks = tape.stacks /\ tape'.frames = F
      BY <1>2, <1>4
    <2>3. QED  BY <2>1, <2>2 DEF OpenInv
  <1>9. CallInv'
    <2>1. ASSUME NEW u \in Tasks, NEW n \in 1..Len(calls'[u]), calls'[u][n].frame # 0
          PROVE  /\ calls'[u][n].frame \in 1..Len(told')
                 /\ ~mixed'[tape'.frames[calls'[u][n].frame].cpu] =>
                      running'[tape'.frames[calls'[u][n].frame].cpu] = u
      <3>1. PICK i : i = calls'[u][n].frame
        OBVIOUS
      <3>2. n \in 1..Len(calls[u]) /\ calls[u][n].frame = i /\ i # 0
        BY <2>1, <3>1
      <3>3. i \in 1..Len(F) /\ (~mixed[F[i].cpu] => running[F[i].cpu] = u)
        BY <3>2, <1>1, <1>4, ZenonT(30) DEF CallInv
      <3>4. PICK d \in Cpus : d = F[i].cpu
        BY <3>3, <1>5
      <3>5. ~mixed'[d] => running'[d] = u
        BY <3>3, <3>4, <1>3
      <3>6. tape'.frames = F /\ Len(told') = Len(F)
        BY <1>4
      <3>7. QED  BY <3>1, <3>3, <3>4, <3>5, <3>6
    <2>2. QED  BY <2>1 DEF CallInv
  <1>10. StackInv'
    <2>1. ASSUME NEW d \in Cpus, ~mixed'[d]
          PROVE  /\ ~mixed[d] /\ running'[d] = running[d] /\ Lost(d)' = Lost(d)
      <3>1. ~mixed[d] /\ running'[d] = running[d]
        BY <2>1, <1>3
      <3>2. QED  BY <3>1, <1>2 DEF Lost
    <2>2. ASSUME NEW d \in Cpus, ~mixed'[d]
          PROVE  /\ Lost(d)' >= 0
                 /\ \A n \in 1..Len(calls[running'[d]]) :
                      calls[running'[d]][n].frame =
                        IF n <= Lost(d)' THEN 0 ELSE tape.stacks[d][n - Lost(d)']
                 /\ \A n \in 1..Len(tape.stacks[d]) :
                      F[tape.stacks[d][n]].depth = Lost(d)' + n - 1
      BY <2>1, <2>2, <1>1, <1>4 DEF StackInv
    <2>3. QED  BY <2>2, <1>2, <1>4, SMTT(30) DEF StackInv
  <1>11. ReturnInv'
    <2>1. ASSUME NEW i \in 1..Len(F)
          PROVE  /\ tape'.frames[i].complete = TRUE
                 /\ ~mixed'[tape'.frames[i].cpu] =>
                      (told'[i].returned <=>
                        \A n \in 1..Len(tape'.stacks[tape'.frames[i].cpu]) :
                          tape'.stacks[tape'.frames[i].cpu][n] # i)
      <3>1. PICK d \in Cpus : d = F[i].cpu
        BY <1>5
      <3>2. /\ F[i].complete = TRUE
            /\ ~mixed[d] => (told[i].returned <=>
                               \A n \in 1..Len(tape.stacks[d]) : tape.stacks[d][n] # i)
        BY <3>1, <1>1, <1>4, SMTT(30) DEF ReturnInv
      <3>3. /\ told'[i].returned = told[i].returned /\ tape'.frames[i] = F[i]
            /\ tape'.stacks[d] = tape.stacks[d]
        BY <1>2, <1>4
      <3>4. QED  BY <3>1, <3>2, <3>3, <1>3, SMTT(30)
    <2>2. QED  BY <2>1, <1>4 DEF ReturnInv
  <1>12. QED  BY <1>6, <1>7, <1>8, <1>9, <1>10, <1>11 DEF FInv

LEMMA SwitchF ==
  ASSUME FInv, NEW c \in Cpus, NEW t \in Tasks, Switch(c, t)
  PROVE  FInv'
  <1>1. /\ ~ended /\ ended' = ended /\ tape' = ReadLine(tape, [k |-> "task switch", cpu |-> c])
        /\ calls' = calls /\ told' = told
        /\ \A d \in Cpus : running[d] # t
        /\ running' = [running EXCEPT ![c] = t]
        /\ mixed' = [mixed EXCEPT ![c] = TRUE]
    BY DEF Switch, Emit
  <1>2. "task switch" \in Skipped \cup Unknown \cup Events
    BY DEF Events
  <1>3. QED  BY <1>1, <1>2, SameFrames

LEMMA OtherF ==
  ASSUME FInv, NEW c \in Cpus, NEW kind \in {"blank", "comment", "unrecognised body"},
         Other(c, kind)
  PROVE  FInv'
  <1>1. /\ ~ended /\ ended' = ended /\ tape' = ReadLine(tape, [k |-> kind, cpu |-> c])
        /\ calls' = calls /\ told' = told /\ UNCHANGED <<running, mixed>>
    BY DEF Other, Emit
  <1>2. kind \in Skipped \cup Unknown \cup Events
    BY DEF Events, Skipped, Unknown
  <1>3. QED  BY <1>1, <1>2, SameFrames

\* At the end a frame is marked incomplete when it is still open.
LEMMA EndF ==
  ASSUME FInv, End
  PROVE  FInv'
  <1>1. /\ Typed /\ FramesAreCalls /\ OpenInv /\ ReturnInv /\ ~ended
        /\ ended' = TRUE /\ tape' = Ending(tape) /\ UNCHANGED <<running, calls, told, mixed>>
    BY DEF FInv, End
  <1>2. PICK F \in Seq(Frames) : F = tape.frames
    BY <1>1, TypedParts
  <1>3. PICK L \in Nat : L = Len(told) /\ L = Len(F)
    BY <1>1, <1>2, TypedParts
  <1>4. PICK open : open = UNION {ToSet(tape.stacks[c]) : c \in Cpus}
    OBVIOUS
  <1>5. PICK G : G = [i \in DOMAIN F |-> IF i \in open THEN [F[i] EXCEPT !.complete = FALSE]
                                         ELSE F[i]]
    OBVIOUS
  <1>6. tape' = [tape EXCEPT !.frames = G]
    BY <1>1, <1>2, <1>4, <1>5 DEF Ending
  <1>7. DOMAIN F = 1..L
    BY <1>3
  <1>8. ASSUME NEW i \in 1..L
        PROVE  /\ G[i] \in Frames /\ G[i].cpu = F[i].cpu /\ G[i].parent = F[i].parent
               /\ G[i].depth = F[i].depth /\ G[i].duration = F[i].duration
               /\ G[i].complete = IF i \in open THEN FALSE ELSE F[i].complete
    <2>1. PICK f \in Frames : f = F[i]
      BY <1>3
    <2>2. PICK g : g = [f EXCEPT !.complete = FALSE]
      OBVIOUS
    <2>3. /\ g \in Frames /\ g.cpu = f.cpu /\ g.parent = f.parent /\ g.depth = f.depth
          /\ g.duration = f.duration /\ g.complete = FALSE
      BY <2>1, <2>2 DEF Frames
    <2>4. G[i] = IF i \in open THEN g ELSE f
      BY <2>1, <2>2, <1>5, <1>7
    <2>5. QED  BY <2>1, <2>3, <2>4
  <1>9. G \in Seq(Frames) /\ Len(G) = L
    <2>1. G = [i \in 1..L |-> G[i]]
      BY <1>5, <1>7
    <2>2. \A i \in 1..L : G[i] \in Frames
      BY <1>8
    <2>3. QED  BY <2>1, <2>2
  <1>10. tape' \in Tapes /\ tape'.frames = G
    BY <1>1, <1>6, <1>9, TypedParts DEF Tapes
  <1>11. Typed'
    <2>1. /\ running' \in [Cpus -> Tasks] /\ mixed' \in [Cpus -> BOOLEAN]
          /\ \A d, e \in Cpus : running'[d] = running'[e] => d = e
          /\ told' \in Seq(ToldSet) /\ calls' \in [Tasks -> Seq(CallSet)]
      BY <1>1 DEF Typed, ToldSet, CallSet
    <2>2. \A i \in 1..L : F[i].parent < i
      BY <1>1, <1>2, <1>3 DEF Typed
    <2>3. Len(told') = Len(tape'.frames) /\ \A i \in 1..Len(tape'.frames) : tape'.frames[i].parent < i
      BY <2>2, <1>1, <1>3, <1>8, <1>9, <1>10
    <2>4. QED  BY <2>1, <2>3, <1>10, Zenon DEF Typed, ToldSet, CallSet
  <1>12. ASSUME NEW i \in 1..L, ~mixed[F[i].cpu]
         PROVE  i \in open <=> ~told[i].returned
    <2>1. PICK d \in Cpus : d = F[i].cpu
      BY <1>1, <1>2, <1>3, TypedParts
    <2>2. \A c \in Cpus : ToSet(tape.stacks[c]) =
                            {tape.stacks[c][n] : n \in 1..Len(tape.stacks[c])}
      <3>1. \A c \in Cpus : tape.stacks[c] \in Seq(Nat)
        BY <1>1, TypedParts
      <3>2. QED  BY <3>1, LenProperties DEF ToSet
    <2>3. ASSUME i \in open PROVE \E n \in 1..Len(tape.stacks[d]) : tape.stacks[d][n] = i
      <3>1. PICK c \in Cpus : i \in ToSet(tape.stacks[c])
        BY <2>3, <1>4
      <3>2. PICK n \in 1..Len(tape.stacks[c]) : tape.stacks[c][n] = i
        BY <3>1, <2>2
      <3>3. c = d
        BY <3>2, <2>1, <1>1, <1>2 DEF OpenInv
      <3>4. QED  BY <3>2, <3>3
    <2>4. ASSUME NEW n \in 1..Len(tape.stacks[d]), tape.stacks[d][n] = i PROVE i \in open
      <3>1. i \in ToSet(tape.stacks[d])
        BY <2>2, <2>4
      <3>2. QED  BY <3>1, <1>4
    <2>5. told[i].returned <=> \A n \in 1..Len(tape.stacks[d]) : tape.stacks[d][n] # i
      BY <2>1, <1>1, <1>2, <1>3, <1>12 DEF ReturnInv
    <2>6. QED  BY <2>3, <2>4, <2>5
  <1>13. FramesAreCalls'
    <2>1. DOMAIN told = 1..L
      <3>1. told \in Seq(ToldSet)
        BY <1>1, TypedParts
      <3>2. DOMAIN told = 1..Len(told)
        BY <3>1, LenProperties
      <3>3. QED  BY <3>2, <1>3, Zenon
    <2>2. ASSUME NEW i \in 1..L
          PROVE  /\ told[i].clean =>
                      /\ G[i].parent = told[i].caller
                      /\ G[i].parent # 0 => G[i].depth = G[G[i].parent].depth + 1
                 /\ ~mixed[G[i].cpu] =>
                      /\ G[i].duration = IF told[i].returned THEN <<i>> ELSE <<>>
                      /\ G[i].complete = told[i].returned
      <3>1. /\ told[i].clean => /\ F[i].parent = told[i].caller
                                /\ F[i].parent # 0 => F[i].depth = F[F[i].parent].depth + 1
            /\ ~mixed[F[i].cpu] => F[i].duration = IF told[i].returned THEN <<i>> ELSE <<>>
        BY <2>1, <1>1, <1>2 DEF FramesAreCalls
      <3>2. F[i].parent # 0 => F[i].parent \in 1..L
        <4>1. F[i] \in Frames /\ F[i].parent < i
          BY <1>1, <1>2, <1>3 DEF Typed
        <4>2. F[i].parent \in Nat /\ F[i].parent < i
          BY <4>1 DEF Frames
        <4>3. QED  BY <4>2
      <3>3. told[i].clean =>
                      /\ G[i].parent = told[i].caller
                      /\ G[i].parent # 0 => G[i].depth = G[G[i].parent].depth + 1
        <4>1. F[i].parent # 0 => G[F[i].parent].depth = F[F[i].parent].depth
          BY <3>2, <1>8
        <4>2. QED  BY <4>1, <3>1, <1>8
      <3>4. ASSUME ~mixed[F[i].cpu]
            PROVE  /\ G[i].duration = IF told[i].returned THEN <<i>> ELSE <<>>
                   /\ G[i].complete = told[i].returned
        <4>1. F[i].complete = TRUE
          BY <1>1, <1>2, <1>3 DEF ReturnInv
        <4>2. told[i].returned \in BOOLEAN
          <5>1. told[i] \in ToldSet
            BY <1>1, <1>3, TypedParts
          <5>2. QED  BY <5>1 DEF ToldSet
        <4>3. CASE told[i].returned
          <5>1. told[i].returned = TRUE /\ i \notin open
            BY <4>2, <4>3, <3>4, <1>12
          <5>2. QED  BY <5>1, <4>1, <3>1, <3>4, <1>8
        <4>4. CASE ~told[i].returned
          <5>1. told[i].returned = FALSE /\ i \in open
            BY <4>2, <4>4, <3>4, <1>12
          <5>2. QED  BY <5>1, <3>1, <3>4, <1>8
        <4>5. QED  BY <4>3, <4>4
      <3>5. QED  BY <3>3, <3>4, <1>8
    <2>3. QED  BY <2>1, <2>2, <1>1, <1>10 DEF FramesAreCalls
  <1>14. QED  BY <1>1, <1>11, <1>13 DEF FInv

LEMMA StutterF ==
  ASSUME FInv, UNCHANGED vars
  PROVE  FInv'
  <1>1. /\ tape' = tape /\ running' = running /\ calls' = calls /\ told' = told
        /\ mixed' = mixed /\ ended' = ended
    BY DEF vars
  <1>2. /\ Typed' = Typed /\ FramesAreCalls' = FramesAreCalls /\ OpenInv' = OpenInv
        /\ CallInv' = CallInv /\ ReturnInv' = ReturnInv
    BY <1>1, Zenon DEF Typed, FramesAreCalls, OpenInv, CallInv, ReturnInv
  <1>3. StackInv' = StackInv
    BY <1>1, Zenon DEF StackInv, Lost
  <1>4. QED  BY <1>1, <1>2, <1>3, Zenon DEF FInv

LEMMA NextF ==
  ASSUME FInv, [Next]_vars
  PROVE  FInv'
  <1>1. CASE Next
    <2>1. CASE \E c \in Cpus, name \in Names : Enter(c, name) \/ CallLeaf(c, name)
      BY <2>1, EnterF, CallLeafF
    <2>2. CASE \E c \in Cpus : Leave(c)
      BY <2>2, LeaveF
    <2>3. CASE \E c \in Cpus, t \in Tasks : Switch(c, t)
      BY <2>3, SwitchF
    <2>4. CASE \E c \in Cpus, kind \in {"blank", "comment", "unrecognised body"} : Other(c, kind)
      BY <2>4, OtherF
    <2>5. CASE End
      BY <2>5, EndF
    <2>6. QED  BY <1>1, <2>1, <2>2, <2>3, <2>4, <2>5 DEF Next
  <1>2. CASE UNCHANGED vars
    BY <1>2, StutterF
  <1>3. QED  BY <1>1, <1>2

-----------------------------------------------------------------------------
(* The tape as a forest.                                                   *)

\* Frames are nested: a frame is on its parent's processor, and what a
\* processor opened between a frame and its parent is under that parent too.
Nested(F) ==
  /\ \A i \in 1..Len(F) : F[i].parent # 0 => F[F[i].parent].cpu = F[i].cpu
  /\ \A i, k \in 1..Len(F) :
       i < k /\ F[i].cpu = F[k].cpu /\ F[k].parent < i => F[k].parent <= F[i].parent

\* What a processor opened behind a frame that is open on it is under that.
NestInv ==
  /\ Nested(tape.frames)
  /\ ~ended => \A c \in Cpus : \A n \in 1..Len(tape.stacks[c]) : \A i \in 1..Len(tape.frames) :
       tape.frames[i].cpu = c /\ tape.stacks[c][n] < i => tape.stacks[c][n] <= tape.frames[i].parent

\* A frame more, under the innermost one that is open.
LEMMA GrownN ==
  ASSUME Typed, OpenInv, NestInv, ~ended, NEW c \in Cpus, NEW f \in Frames,
         f.cpu = c, f.parent = ParentAt(c), tape'.frames = Append(tape.frames, f),
         \/ tape'.stacks = tape.stacks
         \/ tape'.stacks = [tape.stacks EXCEPT ![c] = Append(tape.stacks[c], Len(tape.frames) + 1)]
  PROVE  NestInv'
  <1>1. PICK F \in Seq(Frames) : F = tape.frames
    BY TypedParts
  <1>2. PICK s \in Seq(Nat) : s = tape.stacks[c]
    BY TypedParts
  <1>3. PICK L \in Nat : L = Len(F)
    OBVIOUS
  <1>4. PICK p \in 0..L : p = ParentAt(c) /\ (s = <<>> => p = 0) /\ (s # <<>> => p = s[Len(s)])
    <2>1. CASE s = <<>>
      BY <2>1, <1>2, <1>3 DEF ParentAt
    <2>2. CASE s # <<>>
      <3>1. Last(s) = s[Len(s)] /\ Len(s) \in 1..Len(s)
        <4>1. Last(s) = s[Len(s)] /\ Len(s) \in Nat /\ Len(s) >= 1
          BY <2>2, LastOf
        <4>2. QED  BY <4>1
      <3>2. s[Len(s)] \in 1..Len(F)
        BY <3>1, <1>1, <1>2 DEF OpenInv
      <3>3. QED  BY <3>1, <3>2, <2>2, <1>2, <1>3 DEF ParentAt
    <2>3. QED  BY <2>1, <2>2
  <1>5. PICK G : G = Append(F, f)
    OBVIOUS
  <1>6. /\ tape'.frames = G /\ Len(G) = L + 1 /\ G[L + 1] = f
        /\ \A i \in 1..L : G[i] = F[i]
    BY <1>1, <1>3, <1>5
  <1>7. \A i \in 1..L : F[i].parent \in Nat /\ F[i].parent < i
    <2>1. \A i \in 1..L : F[i] \in Frames
      BY <1>3
    <2>2. QED  BY <2>1, <1>1, <1>3 DEF Frames, Typed
  <1>8. ASSUME NEW i \in 1..L, F[i].cpu = c, p < i PROVE p <= F[i].parent
    <2>1. CASE s = <<>>
      BY <2>1, <1>4, <1>7
    <2>2. CASE s # <<>>
      <3>1. Len(s) \in 1..Len(s)
        BY <2>2, LastOf
      <3>2. QED  BY <3>1, <2>2, <1>1, <1>2, <1>3, <1>4, <1>8 DEF NestInv
    <2>3. QED  BY <2>1, <2>2
  <1>9. p # 0 => F[p].cpu = c
    <2>1. ASSUME s # <<>> PROVE F[p].cpu = c
      <3>1. Len(s) \in 1..Len(s)
        BY <2>1, LastOf
      <3>2. QED  BY <3>1, <2>1, <1>1, <1>2, <1>4 DEF OpenInv
    <2>2. QED  BY <2>1, <1>4
  <1>10. Nested(G)
    <2>1. ASSUME NEW i \in 1..(L + 1), G[i].parent # 0 PROVE G[G[i].parent].cpu = G[i].cpu
      <3>1. CASE i = L + 1
        <4>1. G[i].parent = p /\ p \in 1..L
          BY <3>1, <2>1, <1>4, <1>6
        <4>2. QED  BY <4>1, <3>1, <1>6, <1>9
      <3>2. CASE i \in 1..L
        <4>1. F[i].parent \in 1..L /\ F[i].parent # 0
          BY <3>2, <2>1, <1>6, <1>7
        <4>2. F[F[i].parent].cpu = F[i].cpu
          BY <4>1, <3>2, <1>1, <1>3 DEF NestInv, Nested
        <4>3. QED  BY <4>1, <4>2, <3>2, <1>6
      <3>3. QED  BY <3>1, <3>2
    <2>2. ASSUME NEW i \in 1..(L + 1), NEW k \in 1..(L + 1),
                 i < k, G[i].cpu = G[k].cpu, G[k].parent < i
          PROVE  G[k].parent <= G[i].parent
      <3>1. i \in 1..L
        BY <2>2
      <3>2. CASE k = L + 1
        BY <3>1, <3>2, <2>2, <1>4, <1>6, <1>8
      <3>3. CASE k \in 1..L
        BY <3>1, <3>3, <2>2, <1>1, <1>3, <1>6 DEF NestInv, Nested
      <3>4. QED  BY <3>2, <3>3
    <2>3. QED  BY <2>1, <2>2, <1>6 DEF Nested
  <1>11. ASSUME NEW d \in Cpus, NEW n \in 1..Len(tape'.stacks[d]), NEW i \in 1..(L + 1),
                G[i].cpu = d, tape'.stacks[d][n] < i
         PROVE  tape'.stacks[d][n] <= G[i].parent
    <2>1. PICK r \in Seq(Nat) : r = tape.stacks[d]
      BY TypedParts
    <2>2. \/ n \in 1..Len(r) /\ tape'.stacks[d][n] = r[n]
          \/ tape'.stacks[d][n] = L + 1
      <3>1. CASE tape'.stacks = tape.stacks
        BY <3>1, <2>1, <1>11
      <3>2. CASE tape'.stacks = [tape.stacks EXCEPT ![c] = Append(tape.stacks[c], Len(tape.frames) + 1)]
        <4>1. tape.stacks \in [Cpus -> Seq(Nat)]
          BY TypedParts
        <4>2. CASE d = c
          <5>1. tape'.stacks[d] = Append(r, L + 1) /\ L + 1 \in Nat
            BY <4>1, <4>2, <3>2, <2>1, <1>1, <1>3
          <5>2. QED  BY <5>1, <1>11, AppendOf
        <4>3. CASE d # c
          <5>1. tape'.stacks[d] = r
            BY <4>1, <4>3, <3>2, <2>1
          <5>2. QED  BY <5>1, <1>11
        <4>4. QED  BY <4>2, <4>3
      <3>3. QED  BY <3>1, <3>2
    <2>3. CASE tape'.stacks[d][n] = L + 1
      BY <2>3, <1>11
    <2>4. CASE n \in 1..Len(r) /\ tape'.stacks[d][n] = r[n]
      <3>1. CASE i \in 1..L
        <4>1. F[i].cpu = d /\ r[n] < i
          BY <3>1, <2>4, <1>6, <1>11
        <4>2. r[n] <= F[i].parent
          BY <4>1, <3>1, <2>1, <2>4, <1>1, <1>3 DEF NestInv
        <4>3. QED  BY <4>2, <3>1, <2>4, <1>6
      <3>2. CASE i = L + 1
        <4>1. d = c /\ r = s /\ s # <<>>
          <5>1. d = c
            BY <3>2, <1>6, <1>11
          <5>2. r = s
            BY <5>1, <2>1, <1>2
          <5>3. s # <<>>
            BY <5>2, <2>4
          <5>4. QED  BY <5>1, <5>2, <5>3
        <4>2. Len(s) \in 1..Len(s) /\ n \in 1..Len(s)
          BY <4>1, <2>4, LastOf
        <4>3. n < Len(s) => s[n] < s[Len(s)]
          <5>1. n < Len(s) => n \in 1..(Len(s) - 1)
            BY <4>2
          <5>2. \A m \in 1..(Len(s) - 1) : s[m] < s[Len(s)]
            BY <4>2, <1>2 DEF OpenInv
          <5>3. QED  BY <5>1, <5>2
        <4>4. s[n] <= p /\ s[n] \in Nat /\ s[Len(s)] \in Nat
          BY <4>1, <4>2, <4>3, <1>4
        <4>5. QED  BY <4>1, <4>4, <3>2, <2>4, <1>4, <1>6
      <3>3. QED  BY <3>1, <3>2
    <2>5. QED  BY <2>2, <2>3, <2>4
  <1>12. QED  BY <1>6, <1>10, <1>11 DEF NestInv

\* No frame more, and nothing opened.
LEMMA SameN ==
  ASSUME Typed, NestInv, Len(tape'.frames) = Len(tape.frames),
         \A i \in 1..Len(tape.frames) : /\ tape'.frames[i].cpu = tape.frames[i].cpu
                                        /\ tape'.frames[i].parent = tape.frames[i].parent,
         ~ended' => /\ ~ended
                    /\ \A c \in Cpus : \A n \in 1..Len(tape'.stacks[c]) :
                         n \in 1..Len(tape.stacks[c]) /\ tape'.stacks[c][n] = tape.stacks[c][n]
  PROVE  NestInv'
  <1>1. PICK F \in Seq(Frames) : F = tape.frames
    BY TypedParts
  <1>2. PICK G : G = tape'.frames
    OBVIOUS
  <1>3. PICK L \in Nat : L = Len(F) /\ Len(G) = L
    BY <1>1, <1>2
  <1>4. \A i \in 1..L : G[i].cpu = F[i].cpu /\ G[i].parent = F[i].parent
    BY <1>1, <1>2, <1>3
  <1>5. Nested(G)
    <2>1. ASSUME NEW i \in 1..L, G[i].parent # 0 PROVE G[G[i].parent].cpu = G[i].cpu
      <3>1. F[i] \in Frames /\ F[i].parent < i /\ F[i].parent # 0
        BY <2>1, <1>1, <1>3, <1>4 DEF Typed
      <3>2. F[i].parent \in 1..L
        BY <3>1 DEF Frames
      <3>3. F[F[i].parent].cpu = F[i].cpu
        BY <3>1, <1>1, <1>3 DEF NestInv, Nested
      <3>4. QED  BY <3>2, <3>3, <1>4
    <2>2. ASSUME NEW i \in 1..L, NEW k \in 1..L,
                 i < k, G[i].cpu = G[k].cpu, G[k].parent < i
          PROVE  G[k].parent <= G[i].parent
      BY <2>2, <1>1, <1>3, <1>4 DEF NestInv, Nested
    <2>3. QED  BY <2>1, <2>2, <1>3 DEF Nested
  <1>6. ASSUME ~ended', NEW c \in Cpus, NEW n \in 1..Len(tape'.stacks[c]), NEW i \in 1..L,
               G[i].cpu = c, tape'.stacks[c][n] < i
        PROVE  tape'.stacks[c][n] <= G[i].parent
    BY <1>1, <1>3, <1>4, <1>6 DEF NestInv
  <1>7. QED  BY <1>2, <1>3, <1>5, <1>6 DEF NestInv

LEMMA InitN == Init => NestInv
  <1>1. ASSUME Init PROVE NestInv
    <2>1. tape.frames = <<>> /\ \A c \in Cpus : tape.stacks[c] = <<>>
      BY <1>1 DEF Init, EmptyTape
    <2>2. Len(tape.frames) = 0
      BY <2>1
    <2>3. QED  BY <2>2 DEF NestInv, Nested
  <1>2. QED  BY <1>1

LEMMA EnterN ==
  ASSUME FInv, NestInv, NEW c \in Cpus, NEW name \in Names, Enter(c, name) \/ CallLeaf(c, name)
  PROVE  NestInv'
  <1>1. Typed /\ OpenInv /\ ~ended
    BY DEF FInv, Enter, CallLeaf, Emit
  <1>2. tape \in Tapes /\ Len(calls[running[c]]) \in Nat /\ Len(told) \in Nat
    BY <1>1, TypedParts
  <1>3. CASE Enter(c, name)
    <2>1. PICK line : line = [k |-> "open", cpu |-> c, name |-> name, depth |-> Len(calls[running[c]])]
      OBVIOUS
    <2>2. tape' = ReadLine(tape, line)
      BY <2>1, <1>3 DEF Enter, Emit
    <2>3. PICK f : f = NewFrame(tape, line, <<>>)
      OBVIOUS
    <2>4. /\ line.k = "open" /\ line.name \in Names /\ line.cpu = c /\ line.depth \in Nat
          /\ <<>> \in Seq(Nat)
      BY <2>1, <1>2
    <2>5. f \in Frames
      BY <2>3, <2>4, <1>2, AttachOf
    <2>6. f.cpu = c /\ f.parent = ParentAt(c)
      BY <2>3, <2>4 DEF NewFrame, ParentAt
    <2>7. /\ tape'.frames = Append(tape.frames, f)
          /\ tape'.stacks = [tape.stacks EXCEPT ![c] = Append(tape.stacks[c], Len(tape.frames) + 1)]
      BY <2>2, <2>3, <2>4, <1>2, ReadOpen
    <2>8. QED  BY <2>5, <2>6, <2>7, <1>1, GrownN
  <1>4. CASE CallLeaf(c, name)
    <2>1. PICK line : line = [k |-> "leaf", cpu |-> c, name |-> name, depth |-> Len(calls[running[c]]),
                              duration |-> <<Len(told) + 1>>]
      OBVIOUS
    <2>2. tape' = ReadLine(tape, line)
      BY <2>1, <1>4 DEF CallLeaf, Emit
    <2>3. PICK f : f = NewFrame(tape, line, line.duration)
      OBVIOUS
    <2>4. /\ line.k = "leaf" /\ line.name \in Names /\ line.cpu = c /\ line.depth \in Nat
          /\ line.duration \in Seq(Nat)
      BY <2>1, <1>2
    <2>5. f \in Frames
      BY <2>3, <2>4, <1>2, AttachOf
    <2>6. f.cpu = c /\ f.parent = ParentAt(c)
      BY <2>3, <2>4 DEF NewFrame, ParentAt
    <2>7. /\ tape'.frames = Append(tape.frames, f)
          /\ tape'.stacks = tape.stacks
      BY <2>2, <2>3, <2>4, <1>2, ReadLeaf
    <2>8. QED  BY <2>5, <2>6, <2>7, <1>1, GrownN
  <1>5. QED  BY <1>3, <1>4

LEMMA LeaveN ==
  ASSUME FInv, NestInv, NEW c \in Cpus, Leave(c)
  PROVE  NestInv'
  <1>1. Typed /\ OpenInv /\ ~ended
    BY DEF FInv, Leave, Emit
  <1>2. PICK call \in CallSet : call = Last(calls[running[c]])
    <2>1. calls[running[c]] \in Seq(CallSet) /\ calls[running[c]] # <<>>
      BY <1>1, TypedParts DEF Leave
    <2>2. QED  BY <2>1, LastOf
  <1>3. PICK line : line = [k |-> "close", cpu |-> c, name |-> IF tail THEN call.name ELSE "unnamed",
                            duration |-> <<call.frame>>]
    OBVIOUS
  <1>4. tape' = ReadLine(tape, line)
    BY <1>2, <1>3 DEF Leave, Emit
  <1>5. line.k = "close" /\ line.cpu = c /\ line.duration = <<call.frame>> /\ <<call.frame>> \in Seq(Nat)
    BY <1>2, <1>3 DEF CallSet
  <1>6. Shut(c, line.duration)
    BY <1>1, <1>4, <1>5, CloseShuts
  <1>7. PICK s \in Seq(Nat) : s = tape.stacks[c]
    BY <1>1, TypedParts
  <1>8. /\ Len(tape'.frames) = Len(tape.frames)
        /\ \A i \in 1..Len(tape.frames) : /\ tape'.frames[i].cpu = tape.frames[i].cpu
                                          /\ tape'.frames[i].parent = tape.frames[i].parent
        /\ Len(tape'.stacks[c]) = IF s = <<>> THEN 0 ELSE Len(s) - 1
        /\ \A n \in 1..Len(tape'.stacks[c]) : tape'.stacks[c][n] = s[n]
        /\ \A d \in Cpus : d # c => tape'.stacks[d] = tape.stacks[d]
    BY <1>6, <1>7, Zenon DEF Shut
  <1>9. ASSUME NEW d \in Cpus, NEW n \in 1..Len(tape'.stacks[d])
        PROVE  n \in 1..Len(tape.stacks[d]) /\ tape'.stacks[d][n] = tape.stacks[d][n]
    <2>1. CASE d = c
      <3>1. n \in 1..Len(s)
        BY <2>1, <1>7, <1>8, <1>9
      <3>2. QED  BY <3>1, <2>1, <1>7, <1>8, <1>9
    <2>2. CASE d # c
      BY <2>2, <1>8, <1>9
    <2>3. QED  BY <2>1, <2>2
  <1>10. QED  BY <1>1, <1>8, <1>9, SameN

LEMMA NextN ==
  ASSUME FInv, NestInv, [Next]_vars
  PROVE  NestInv'
  <1>1. Typed
    BY DEF FInv
  <1>2. ASSUME tape'.frames = tape.frames, tape'.stacks = tape.stacks, ended' = ended PROVE NestInv'
    <2>1. NestInv' = NestInv
      BY <1>2, Zenon DEF NestInv, Nested
    <2>2. QED  BY <2>1
  <1>3. ASSUME NEW c \in Cpus, NEW kind \in Skipped \cup Unknown \cup Events,
               tape' = ReadLine(tape, [k |-> kind, cpu |-> c])
        PROVE  tape'.frames = tape.frames /\ tape'.stacks = tape.stacks
    <2>1. tape \in Tapes
      BY <1>1, TypedParts
    <2>2. QED  BY <2>1, <1>3, ReadOther
  <1>4. ASSUME NEW c \in Cpus, NEW t \in Tasks, Switch(c, t) PROVE NestInv'
    <2>1. "task switch" \in Skipped \cup Unknown \cup Events
      BY DEF Events
    <2>2. tape' = ReadLine(tape, [k |-> "task switch", cpu |-> c]) /\ ended' = ended
      BY <1>4 DEF Switch, Emit
    <2>3. QED  BY <2>1, <2>2, <1>2, <1>3
  <1>5. ASSUME NEW c \in Cpus, NEW kind \in {"blank", "comment", "unrecognised body"}, Other(c, kind)
        PROVE  NestInv'
    <2>1. kind \in Skipped \cup Unknown \cup Events
      BY DEF Events, Skipped, Unknown
    <2>2. tape' = ReadLine(tape, [k |-> kind, cpu |-> c]) /\ ended' = ended
      BY <1>5 DEF Other, Emit
    <2>3. QED  BY <2>1, <2>2, <1>2, <1>3
  <1>6. ASSUME End PROVE NestInv'
    <2>1. PICK F \in Seq(Frames) : F = tape.frames
      BY <1>1, TypedParts
    <2>2. PICK open : open = UNION {ToSet(tape.stacks[c]) : c \in Cpus}
      OBVIOUS
    <2>3. PICK G : G = [i \in DOMAIN F |-> IF i \in open THEN [F[i] EXCEPT !.complete = FALSE] ELSE F[i]]
      OBVIOUS
    <2>4. tape' = [tape EXCEPT !.frames = G] /\ ended' = TRUE
      BY <2>1, <2>2, <2>3, <1>6 DEF End, Ending
    <2>5. tape'.frames = G
      <3>1. tape \in Tapes
        BY <1>1, TypedParts
      <3>2. QED  BY <3>1, <2>4 DEF Tapes
    <2>6. DOMAIN F = 1..Len(F) /\ Len(F) \in Nat
      OBVIOUS
    <2>7. Len(G) = Len(F)
      BY <2>3, <2>6
    <2>8. ASSUME NEW i \in 1..Len(F) PROVE G[i].cpu = F[i].cpu /\ G[i].parent = F[i].parent
      <3>1. PICK f \in Frames : f = F[i]
        OBVIOUS
      <3>2. PICK g : g = [f EXCEPT !.complete = FALSE]
        OBVIOUS
      <3>3. g.cpu = f.cpu /\ g.parent = f.parent
        BY <3>1, <3>2 DEF Frames
      <3>4. G[i] = g \/ G[i] = f
        BY <3>1, <3>2, <2>3, <2>6
      <3>5. QED  BY <3>1, <3>3, <3>4
    <2>9. QED  BY <2>1, <2>4, <2>5, <2>7, <2>8, <1>1, SameN
  <1>7. ASSUME UNCHANGED vars PROVE NestInv'
    BY <1>2, <1>7 DEF vars
  <1>8. ASSUME NEW c \in Cpus, NEW name \in Names, Enter(c, name) \/ CallLeaf(c, name) PROVE NestInv'
    BY <1>8, EnterN
  <1>9. ASSUME NEW c \in Cpus, Leave(c) PROVE NestInv'
    BY <1>9, LeaveN
  <1>10. QED  BY <1>4, <1>5, <1>6, <1>7, <1>8, <1>9, Zenon DEF Next

-----------------------------------------------------------------------------
(* Sequences in order, and sequences of sequences.                         *)

\* Induction over a set of numbers.
LEMMA AllOfNat ==
  ASSUME NEW T, 0 \in T, \A n \in Nat : n \in T => n + 1 \in T
  PROVE  Nat \subseteq T
  <1>1. SUFFICES ASSUME Nat \ T # {} PROVE FALSE
    OBVIOUS
  <1>2. PICK m \in Nat \ T : \A n \in Nat \ T : ~(<<n, m>> \in OpToRel(<, Nat))
    <2>1. Nat \ T \subseteq Nat
      OBVIOUS
    <2>2. QED  BY <2>1, <1>1, NatLessThanWellFounded, WFMin
  <1>3. m - 1 \in Nat /\ m - 1 < m /\ (m - 1) + 1 = m /\ m \in Nat
    <2>1. m \in Nat /\ m # 0
      OBVIOUS
    <2>2. QED  BY <2>1
  <1>4. m - 1 \in T
    BY <1>2, <1>3 DEF OpToRel
  <1>5. QED  BY <1>2, <1>3, <1>4

\* A set in order.
Sorted(s, S) ==
  /\ s \in [1..Cardinality(S) -> S]
  /\ \A m, n \in DOMAIN s : m < n => s[m] < s[n]

\* A sequence that has the members of a set, each once and in order.
Lists(s, S) ==
  /\ s \in Seq(S) /\ \A m, n \in 1..Len(s) : m < n => s[m] < s[n]
  /\ \A x \in S : \E n \in 1..Len(s) : s[n] = x

\* A finite set of numbers can be put in order, and then has every member in it.
LEMMA SortedIs ==
  ASSUME NEW N \in Nat, NEW S \in SUBSET (1..N)
  PROVE  \E s : Sorted(s, S)
  <1> DEFINE T == {n \in Nat : \A U \in SUBSET (1..n) : \E s : Sorted(s, U)}
  <1>1. 0 \in T
    <2>1. ASSUME NEW U \in SUBSET (1..0) PROVE \E s : Sorted(s, U)
      <3>1. U = {} /\ Cardinality(U) = 0
        <4>1. 1..0 = {}
          OBVIOUS
        <4>2. U = {}
          BY <4>1
        <4>3. QED  BY <4>2, FS_EmptySet
      <3>2. Sorted([i \in 1..0 |-> 0], U)
        BY <3>1 DEF Sorted
      <3>3. QED  BY <3>2
    <2>2. QED  BY <2>1
  <1>2. ASSUME NEW n \in Nat, n \in T PROVE n + 1 \in T
    <2>1. ASSUME NEW U \in SUBSET (1..(n + 1)) PROVE \E s : Sorted(s, U)
      <3>1. CASE n + 1 \notin U
        <4>1. U \in SUBSET (1..n)
          BY <3>1
        <4>2. QED  BY <4>1, <1>2
      <3>2. CASE n + 1 \in U
        <4>1. PICK V : V = U \ {n + 1}
          OBVIOUS
        <4>2. V \in SUBSET (1..n) /\ U = V \cup {n + 1} /\ n + 1 \notin V
          BY <4>1, <3>2
        <4>3. PICK s : Sorted(s, V)
          BY <4>2, <1>2
        <4>4. IsFiniteSet(V)
          <5>1. IsFiniteSet(1..n)
            BY FS_Interval
          <5>2. QED  BY <5>1, <4>2, FS_Subset
        <4>5. PICK k \in Nat : k = Cardinality(V)
          BY <4>4, FS_CardinalityType
        <4>6. Cardinality(U) = k + 1
          BY <4>2, <4>4, <4>5, FS_AddElement
        <4>7. s \in [1..k -> V] /\ \A a, b \in 1..k : a < b => s[a] < s[b]
          BY <4>3, <4>5 DEF Sorted
        <4>8. PICK u : u = [i \in 1..(k + 1) |-> IF i = k + 1 THEN n + 1 ELSE s[i]]
          OBVIOUS
        <4>9. u[k + 1] = n + 1 /\ \A i \in 1..k : u[i] = s[i] /\ s[i] \in V
          BY <4>7, <4>8
        <4>10. DOMAIN u = 1..(k + 1)
          BY <4>8
        <4>11. u \in [1..(k + 1) -> U]
          <5>1. \A i \in 1..(k + 1) : u[i] \in U
            BY <4>2, <4>9
          <5>2. QED  BY <5>1, <4>8
        <4>12. ASSUME NEW a \in 1..(k + 1), NEW b \in 1..(k + 1), a < b PROVE u[a] < u[b]
          <5>1. a \in 1..k
            BY <4>12
          <5>2. CASE b = k + 1
            <6>1. s[a] \in V /\ u[a] = s[a] /\ u[b] = n + 1
              BY <5>1, <5>2, <4>9
            <6>2. s[a] \in 1..n
              BY <6>1, <4>2
            <6>3. QED  BY <6>1, <6>2
          <5>3. CASE b \in 1..k
            BY <5>1, <5>3, <4>7, <4>9, <4>12
          <5>4. QED  BY <5>2, <5>3
        <4>13. Sorted(u, U)
          BY <4>6, <4>10, <4>11, <4>12 DEF Sorted
        <4>14. QED  BY <4>13
      <3>3. QED  BY <3>1, <3>2
    <2>2. QED  BY <2>1
  <1>3. N \in T
    <2> HIDE DEF T
    <2>1. QED  BY <1>1, <1>2, AllOfNat
  <1>4. QED  BY <1>3

LEMMA SortedHasAll ==
  ASSUME NEW S, IsFiniteSet(S), \A x \in S : x \in Nat, NEW s, Sorted(s, S)
  PROVE  Lists(s, S)
  <1>1. IsFiniteSet(S)
    OBVIOUS
  <1>2. PICK k \in Nat : k = Cardinality(S)
    BY FS_CardinalityType
  <1>3. s \in [1..k -> S] /\ \A m, n \in 1..k : m < n => s[m] < s[n]
    BY <1>2 DEF Sorted
  <1>4. s \in Seq(S) /\ Len(s) = k
    BY <1>3
  <1>5. \A a, b \in 1..k : s[a] = s[b] => a = b
    <2>1. \A a \in 1..k : s[a] \in Nat
      BY <1>3
    <2>2. QED  BY <2>1, <1>3
  <1>6. s \in Injection(1..k, S)
    BY <1>3, <1>5 DEF Injection, IsInjective
  <1>7. IsFiniteSet(1..k) /\ Cardinality(1..k) = k
    <2>1. IsFiniteSet(1..k) /\ Cardinality(1..k) = IF 1 > k THEN 0 ELSE k - 1 + 1
      BY FS_Interval
    <2>2. (IF 1 > k THEN 0 ELSE k - 1 + 1) = k
      OBVIOUS
    <2>3. QED  BY <2>1, <2>2
  <1>8. s \in Surjection(1..k, S)
    BY <1>1, <1>2, <1>6, <1>7, FS_Injection
  <1>9. \A x \in S : \E n \in 1..k : s[n] = x
    BY <1>8 DEF Surjection
  <1>10. QED  BY <1>3, <1>4, <1>9 DEF Lists

\* The children of a frame are the frames it is the parent of, in order.
LEMMA ChildrenAre ==
  ASSUME NEW tp, tp.frames \in Seq(Frames), NEW i
  PROVE  LET ch == Children(tp, i)
         IN  /\ ch \in Seq(1..Len(tp.frames))
             /\ \A n \in 1..Len(ch) : tp.frames[ch[n]].parent = i
             /\ \A m, n \in 1..Len(ch) : m < n => ch[m] < ch[n]
             /\ \A j \in 1..Len(tp.frames) :
                  tp.frames[j].parent = i => \E n \in 1..Len(ch) : ch[n] = j
  <1>1. PICK S : S = {j \in DOMAIN tp.frames : tp.frames[j].parent = i}
    OBVIOUS
  <1>2. PICK N \in Nat : N = Len(tp.frames) /\ DOMAIN tp.frames = 1..N
    OBVIOUS
  <1>3. S \in SUBSET (1..N)
    BY <1>1, <1>2
  <1>4. PICK ch : ch = Children(tp, i)
    OBVIOUS
  <1>5. ch = CHOOSE s \in [1..Cardinality(S) -> S] : \A m, n \in DOMAIN s : m < n => s[m] < s[n]
    BY <1>1, <1>4 DEF Children
  <1>6. Sorted(ch, S)
    <2>1. \E s : Sorted(s, S)
      BY <1>3, SortedIs
    <2>2. QED  BY <2>1, <1>5 DEF Sorted
  <1>7. /\ ch \in Seq(S) /\ \A m, n \in 1..Len(ch) : m < n => ch[m] < ch[n]
        /\ \A x \in S : \E n \in 1..Len(ch) : ch[n] = x
    <2>1. IsFiniteSet(S) /\ \A x \in S : x \in Nat
      <3>1. IsFiniteSet(1..N)
        BY FS_Interval
      <3>2. IsFiniteSet(S)
        BY <3>1, <1>3, FS_Subset
      <3>3. \A x \in S : x \in Nat
        BY <1>3
      <3>4. QED  BY <3>2, <3>3
    <2>2. Lists(ch, S)
      BY <2>1, <1>6, SortedHasAll
    <2>3. QED  BY <2>2 DEF Lists
  <1>8. ch \in Seq(1..N)
    <2>1. \A n \in 1..Len(ch) : ch[n] \in 1..N
      <3>1. \A n \in 1..Len(ch) : ch[n] \in S
        BY <1>7
      <3>2. QED  BY <3>1, <1>3
    <2>2. ch = [n \in 1..Len(ch) |-> ch[n]] /\ Len(ch) \in Nat
      BY <1>7
    <2>3. QED  BY <2>1, <2>2
  <1>9. \A n \in 1..Len(ch) : ch[n] \in S
    BY <1>7
  <1>10. QED  BY <1>1, <1>2, <1>4, <1>7, <1>8, <1>9

\* A sequence that is others put one behind the other: what is in it is in one of them, in order.
Joined(flat, ss, k) ==
  /\ \A a \in 1..Len(flat) : \E m \in 1..k : \E p \in 1..Len(ss[m]) : flat[a] = ss[m][p]
  /\ \A a, b \in 1..Len(flat) : a < b =>
       \E m, n \in 1..k : \E p \in 1..Len(ss[m]), q \in 1..Len(ss[n]) :
         flat[a] = ss[m][p] /\ flat[b] = ss[n][q] /\ (m < n \/ (m = n /\ p < q))
  /\ \A m \in 1..k : \A p \in 1..Len(ss[m]) : \E a \in 1..Len(flat) : flat[a] = ss[m][p]

LEMMA OneMore ==
  ASSUME NEW K, NEW ss \in Seq(Seq(K)), NEW k \in Nat, k + 1 \in 1..Len(ss),
         NEW flat \in Seq(K), Joined(flat, ss, k)
  PROVE  flat \o ss[k + 1] \in Seq(K) /\ Joined(flat \o ss[k + 1], ss, k + 1)
  <1>1. PICK t \in Seq(K) : t = ss[k + 1]
    OBVIOUS
  <1>2. PICK both : both = flat \o t
    OBVIOUS
  <1>3. /\ both \in Seq(K) /\ Len(both) = Len(flat) + Len(t)
        /\ \A a \in 1..Len(flat) : both[a] = flat[a]
        /\ \A p \in 1..Len(t) : both[Len(flat) + p] = t[p]
        /\ Len(flat) \in Nat /\ Len(t) \in Nat
    BY <1>2
  <1>4. \A m \in 1..k : m \in 1..(k + 1) /\ m < k + 1
    OBVIOUS
  <1>5. k + 1 \in 1..(k + 1)
    OBVIOUS
  <1>6. ASSUME NEW a \in 1..Len(both), ~(a \in 1..Len(flat))
        PROVE  a - Len(flat) \in 1..Len(t) /\ both[a] = t[a - Len(flat)] /\ Len(flat) < a
    <2>1. a - Len(flat) \in 1..Len(t) /\ Len(flat) + (a - Len(flat)) = a /\ Len(flat) < a
      BY <1>3, <1>6
    <2>2. QED  BY <2>1, <1>3
  <1>7. ASSUME NEW a \in 1..Len(both)
        PROVE  \E m \in 1..(k + 1) : \E p \in 1..Len(ss[m]) : both[a] = ss[m][p]
    <2>1. CASE a \in 1..Len(flat)
      <3>1. PICK m \in 1..k : \E p \in 1..Len(ss[m]) : flat[a] = ss[m][p]
        BY <2>1 DEF Joined
      <3>2. QED  BY <3>1, <2>1, <1>3, <1>4
    <2>2. CASE ~(a \in 1..Len(flat))
      BY <2>2, <1>1, <1>5, <1>6
    <2>3. QED  BY <2>1, <2>2
  <1>8. ASSUME NEW a \in 1..Len(both), NEW b \in 1..Len(both), a < b
        PROVE  \E m, n \in 1..(k + 1) : \E p \in 1..Len(ss[m]), q \in 1..Len(ss[n]) :
                 both[a] = ss[m][p] /\ both[b] = ss[n][q] /\ (m < n \/ (m = n /\ p < q))
    <2>1. CASE b \in 1..Len(flat)
      <3>1. a \in 1..Len(flat)
        BY <2>1, <1>3, <1>8
      <3>2. PICK m, n \in 1..k : \E p \in 1..Len(ss[m]), q \in 1..Len(ss[n]) :
              flat[a] = ss[m][p] /\ flat[b] = ss[n][q] /\ (m < n \/ (m = n /\ p < q))
        BY <3>1, <2>1, <1>8 DEF Joined
      <3>3. QED  BY <3>1, <3>2, <2>1, <1>3, <1>4
    <2>2. CASE ~(b \in 1..Len(flat)) /\ a \in 1..Len(flat)
      <3>1. PICK m \in 1..k : \E p \in 1..Len(ss[m]) : flat[a] = ss[m][p]
        BY <2>2 DEF Joined
      <3>6. PICK p \in 1..Len(ss[m]) : flat[a] = ss[m][p]
        BY <3>1
      <3>2. PICK q \in 1..Len(t) : both[b] = t[q]
        BY <2>2, <1>6
      <3>3. both[a] = ss[m][p] /\ both[b] = ss[k + 1][q] /\ m < k + 1 /\ q \in 1..Len(ss[k + 1])
        BY <3>6, <3>2, <2>2, <1>1, <1>3
      <3>4. m \in 1..(k + 1)
        BY <1>4
      <3>5. QED  BY <3>3, <3>4, <1>5
    <2>3. CASE ~(b \in 1..Len(flat)) /\ ~(a \in 1..Len(flat))
      <3>1. PICK p, q \in 1..Len(t) : both[a] = t[p] /\ both[b] = t[q] /\ p < q
        <4>1. /\ a - Len(flat) \in 1..Len(t) /\ both[a] = t[a - Len(flat)]
              /\ b - Len(flat) \in 1..Len(t) /\ both[b] = t[b - Len(flat)]
          BY <2>3, <1>6
        <4>2. a - Len(flat) < b - Len(flat)
          BY <1>3, <1>8
        <4>3. QED  BY <4>1, <4>2
      <3>2. QED  BY <3>1, <1>1, <1>5
    <2>4. QED  BY <2>1, <2>2, <2>3
  <1>9. ASSUME NEW m \in 1..(k + 1), NEW p \in 1..Len(ss[m])
        PROVE  \E a \in 1..Len(both) : both[a] = ss[m][p]
    <2>1. CASE m \in 1..k
      <3>1. PICK a \in 1..Len(flat) : flat[a] = ss[m][p]
        BY <2>1 DEF Joined
      <3>2. a \in 1..Len(both) /\ both[a] = flat[a]
        BY <1>3
      <3>3. QED  BY <3>1, <3>2
    <2>2. CASE m = k + 1
      <3>1. p \in 1..Len(t) /\ ss[m][p] = t[p]
        BY <2>2, <1>1
      <3>2. Len(flat) + p \in 1..Len(both) /\ both[Len(flat) + p] = t[p]
        BY <3>1, <1>3
      <3>3. QED  BY <3>1, <3>2
    <2>3. QED  BY <2>1, <2>2
  <1>10. Joined(both, ss, k + 1)
    BY <1>7, <1>8, <1>9 DEF Joined
  <1>11. both = flat \o ss[k + 1]
    BY <1>1, <1>2
  <1>12. QED  BY <1>3, <1>10, <1>11

\* FlattenSeq goes over the sequences by a recursive function, and there is one.
LEMMA FlattenIs ==
  ASSUME NEW K, NEW ss \in Seq(Seq(K))
  PROVE  FlattenSeq(ss) \in Seq(K) /\ Joined(FlattenSeq(ss), ss, Len(ss))
  <1>1. PICK L \in Nat : L = Len(ss)
    OBVIOUS
  <1>2. CASE L = 0
    <2>1. ss = <<>>
      BY <1>1, <1>2, EmptySeq
    <2>2. FlattenSeq(ss) = <<>>
      <3>1. FlattenSeq(ss) = ss
        BY <1>1, <1>2, Zenon DEF FlattenSeq
      <3>2. QED  BY <3>1, <2>1
    <2>3. Len(<<>>) = 0 /\ <<>> \in Seq(K)
      OBVIOUS
    <2>4. Joined(<<>>, ss, 0)
      BY <2>3 DEF Joined
    <2>5. QED  BY <2>2, <2>3, <2>4, <1>1, <1>2
  <1>3. CASE L # 0
    <2> DEFINE Def(g, i) == IF i = 1 THEN ss[i] ELSE g[i - 1] \o ss[i]
               T == {n \in Nat : \E g : g = [i \in 1..(n + 1) |-> Def(g, i)]}
    <2>1. 0 \in T
      <3>1. PICK g : g = [i \in 1..(0 + 1) |-> ss[1]]
        OBVIOUS
      <3>2. \A i \in 1..(0 + 1) : Def(g, i) = ss[1]
        OBVIOUS
      <3> HIDE DEF Def
      <3>3. g = [i \in 1..(0 + 1) |-> Def(g, i)]
        BY <3>1, <3>2
      <3>4. QED  BY <3>3
    <2>2. ASSUME NEW n \in Nat, n \in T PROVE n + 1 \in T
      <3>1. PICK g : g = [i \in 1..(n + 1) |-> Def(g, i)]
        <4> HIDE DEF Def
        <4>1. QED  BY <2>2
      <3>2. PICK last : last = g[n + 1] \o ss[n + 2]
        OBVIOUS
      <3>3. PICK h : h = [i \in 1..(n + 2) |-> IF i = n + 2 THEN last ELSE g[i]]
        OBVIOUS
      <3>4. h[n + 2] = last /\ \A i \in 1..(n + 1) : h[i] = g[i]
        BY <3>3
      <3>5. ASSUME NEW i \in 1..(n + 2) PROVE h[i] = Def(h, i)
        <4>1. CASE i = n + 2
          <5>1. i # 1 /\ i - 1 = n + 1 /\ n + 1 \in 1..(n + 1)
            BY <4>1
          <5>2. h[i - 1] = g[n + 1]
            BY <5>1, <3>4
          <5>3. QED  BY <5>1, <5>2, <4>1, <3>2, <3>4
        <4>2. CASE i \in 1..(n + 1)
          <5>1. g[i] = Def(g, i)
            <6> HIDE DEF Def
            <6>1. QED  BY <4>2, <3>1
          <5>2. CASE i = 1
            <6>1. h[i] = g[i] /\ g[i] = ss[i]
              BY <5>1, <5>2, <4>2, <3>4
            <6>2. QED  BY <6>1, <5>2
          <5>3. CASE i # 1
            <6>1. i - 1 \in 1..(n + 1)
              BY <4>2, <5>3
            <6>2. h[i - 1] = g[i - 1] /\ h[i] = g[i]
              BY <6>1, <4>2, <3>4
            <6>3. QED  BY <6>2, <5>1, <5>3
          <5>4. QED  BY <5>2, <5>3
        <4>3. QED  BY <4>1, <4>2
      <3>6. h = [i \in 1..(n + 2) |-> Def(h, i)]
        <4> HIDE DEF Def
        <4>1. h = [i \in 1..(n + 2) |-> h[i]]
          BY <3>3
        <4>2. QED  BY <4>1, <3>5
      <3>7. (n + 1) + 1 = n + 2 /\ n + 1 \in Nat
        OBVIOUS
      <3> HIDE DEF Def
      <3>8. QED  BY <3>6, <3>7
    <2>3. L - 1 \in T
      <3> HIDE DEF T
      <3>1. L - 1 \in Nat
        BY <1>3
      <3>2. QED  BY <3>1, <2>1, <2>2, AllOfNat
    <2> HIDE DEF Def
    <2>4. \E g : g = [i \in 1..L |-> Def(g, i)]
      <3>1. L - 1 + 1 = L
        OBVIOUS
      <3>2. QED  BY <3>1, <2>3
    <2>5. PICK f : f = CHOOSE g1 : g1 = [i \in 1..L |-> Def(g1, i)]
      OBVIOUS
    <2>6. f = [i \in 1..L |-> Def(f, i)]
      BY <2>4, <2>5
    <2>7. FlattenSeq(ss) = f[L]
      BY <2>5, <1>1, <1>3 DEF FlattenSeq, Def
    <2>8. f[L] \in Seq(K) /\ Joined(f[L], ss, L)
      <3> DEFINE U == {n \in Nat : n + 1 <= L => f[n + 1] \in Seq(K) /\ Joined(f[n + 1], ss, n + 1)}
      <3>1. 0 \in U
        <4>1. 1 \in 1..L
          BY <1>3
        <4>2. f[1] = ss[1]
          BY <4>1, <2>6 DEF Def
        <4>3. 1 \in 1..1 /\ \A m \in 1..1 : m = 1
          OBVIOUS
        <4>4. Joined(ss[1], ss, 1)
          BY <4>3 DEF Joined
        <4>5. ss[1] \in Seq(K) /\ 0 + 1 = 1
          BY <4>1, <1>1
        <4>6. QED  BY <4>2, <4>4, <4>5
      <3>2. ASSUME NEW n \in Nat, n \in U PROVE n + 1 \in U
        <4>1. SUFFICES ASSUME n + 2 <= L PROVE f[n + 2] \in Seq(K) /\ Joined(f[n + 2], ss, n + 2)
          <5>1. n + 1 + 1 = n + 2 /\ n + 1 \in Nat
            OBVIOUS
          <5>2. QED  BY <5>1
        <4>2. f[n + 1] \in Seq(K) /\ Joined(f[n + 1], ss, n + 1)
          BY <4>1, <3>2
        <4>3. n + 2 \in 1..L /\ n + 2 # 1 /\ n + 2 - 1 = n + 1 /\ n + 1 \in Nat /\ n + 1 + 1 = n + 2
          BY <4>1
        <4>4. f[n + 2] = f[n + 1] \o ss[n + 2]
          <5>1. PICK j \in 1..L : j = n + 2 /\ j # 1 /\ j - 1 = n + 1
            BY <4>3
          <5>2. f[j] = Def(f, j)
            BY <2>6
          <5>3. f[j] = f[j - 1] \o ss[j]
            BY <5>1, <5>2 DEF Def
          <5>4. QED  BY <5>1, <5>3
        <4>5. QED  BY <4>2, <4>3, <4>4, <1>1, OneMore
      <3>3. L - 1 \in U
        <4> HIDE DEF U
        <4>1. L - 1 \in Nat
          BY <1>3
        <4>2. QED  BY <4>1, <3>1, <3>2, AllOfNat
      <3>4. L - 1 + 1 = L /\ L <= L
        OBVIOUS
      <3>5. QED  BY <3>3, <3>4
    <2>9. QED  BY <2>7, <2>8, <1>1
  <1>4. QED  BY <1>2, <1>3

-----------------------------------------------------------------------------
(* The walk.                                                               *)

\* What the walk has of a frame, child after child: the child and what it has of that.
Blocks(tp, under, i) ==
  [n \in DOMAIN Children(tp, i) |-> <<Children(tp, i)[n]>> \o under[Children(tp, i)[n]]]

\* A tape whose frames are nested, each behind its parent.
Forest(tp) ==
  /\ tp.frames \in Seq(Frames) /\ Nested(tp.frames)
  /\ \A i \in 1..Len(tp.frames) : tp.frames[i].parent < i

\* u has everything under a frame and nothing else: it is behind the frame and on its processor,
\* those of one processor in the order they were printed, all before the processor's next frame
\* that is not under this one.
Right(F, i, u) ==
  /\ u \in Seq(1..Len(F))
  /\ \A a \in 1..Len(u) : i < u[a]
  /\ i # 0 => \A a \in 1..Len(u) : F[u[a]].cpu = F[i].cpu
  /\ \A a, b \in 1..Len(u) : a < b /\ F[u[a]].cpu = F[u[b]].cpu => u[a] < u[b]
  /\ i # 0 => \A v \in 1..Len(F) : i < v /\ F[v].cpu = F[i].cpu /\ F[v].parent < i =>
                 \A a \in 1..Len(u) : u[a] < v
  /\ \A j \in 1..Len(F) : (F[j].parent = i \/ \E a \in 1..Len(u) : u[a] = F[j].parent) =>
       \E a \in 1..Len(u) : u[a] = j

LEMMA Between ==
  ASSUME NEW N \in Nat, NEW x \in 1..N, NEW y \in 1..N, NEW z \in 1..N, x < z, z <= y
  PROVE  x < y
  OBVIOUS

\* If that is so of the children it is so of the frame.
LEMMA RightAt ==
  ASSUME NEW tp, Forest(tp), NEW i \in 0..Len(tp.frames), NEW g,
         \A c \in 1..Len(tp.frames) : tp.frames[c].parent = i => Right(tp.frames, c, g[c])
  PROVE  Right(tp.frames, i, FlattenSeq(Blocks(tp, g, i)))
  <1>1. PICK F \in Seq(Frames) : F = tp.frames
    BY DEF Forest
  <1>2. PICK N \in Nat : N = Len(F)
    OBVIOUS
  <1>3. \A j \in 1..N : F[j].parent \in Nat /\ F[j].parent < j
    <2>1. \A j \in 1..N : F[j] \in Frames
      BY <1>2
    <2>2. QED  BY <2>1, <1>1, <1>2 DEF Forest, Frames
  <1>4. PICK ch : ch = Children(tp, i)
    OBVIOUS
  <1>5. /\ ch \in Seq(1..N) /\ \A n \in 1..Len(ch) : F[ch[n]].parent = i
        /\ \A m, n \in 1..Len(ch) : m < n => ch[m] < ch[n]
        /\ \A j \in 1..N : F[j].parent = i => \E n \in 1..Len(ch) : ch[n] = j
    BY <1>1, <1>2, <1>4, ChildrenAre
  <1>6. PICK M \in Nat : M = Len(ch) /\ DOMAIN ch = 1..M
    BY <1>5
  <1>7. \A n \in 1..M : ch[n] \in 1..N /\ F[ch[n]].parent = i /\ i < ch[n] /\ ch[n] \in Nat
    <2>1. \A n \in 1..M : ch[n] \in 1..N /\ F[ch[n]].parent = i
      BY <1>5, <1>6
    <2>2. QED  BY <2>1, <1>3
  <1>8. \A n \in 1..M : Right(F, ch[n], g[ch[n]])
    BY <1>1, <1>2, <1>7
  <1>9. \A n \in 1..M : g[ch[n]] \in Seq(1..N)
    BY <1>2, <1>8 DEF Right
  <1>10. PICK B : B = Blocks(tp, g, i)
    OBVIOUS
  <1>11. B = [n \in 1..M |-> <<ch[n]>> \o g[ch[n]]]
    BY <1>4, <1>6, <1>10 DEF Blocks
  <1>12. ASSUME NEW n \in 1..M
         PROVE  /\ B[n] \in Seq(1..N) /\ Len(g[ch[n]]) \in Nat /\ Len(B[n]) = Len(g[ch[n]]) + 1
                /\ B[n][1] = ch[n]
                /\ \A a \in 1..Len(g[ch[n]]) : B[n][a + 1] = g[ch[n]][a]
    <2>1. PICK c \in 1..N : c = ch[n]
      BY <1>7
    <2>2. PICK t \in Seq(1..N) : t = g[ch[n]]
      BY <1>9
    <2>3. B[n] = <<c>> \o t
      BY <2>1, <2>2, <1>11
    <2>4. /\ <<c>> \o t \in Seq(1..N) /\ Len(t) \in Nat /\ Len(<<c>> \o t) = Len(t) + 1
          /\ (<<c>> \o t)[1] = c
          /\ \A a \in 1..Len(t) : (<<c>> \o t)[a + 1] = t[a]
      OBVIOUS
    <2>5. QED  BY <2>1, <2>2, <2>3, <2>4
  <1>13. B \in Seq(Seq(1..N)) /\ Len(B) = M
    <2>1. PICK K : K = Seq(1..N)
      OBVIOUS
    <2>2. \A n \in 1..M : B[n] \in K
      BY <2>1, <1>12
    <2>3. B = [n \in 1..M |-> B[n]]
      BY <1>11
    <2>4. B \in Seq(K) /\ Len(B) = M
      BY <2>2, <2>3
    <2>5. QED  BY <2>1, <2>4
  <1>14. PICK u : u = FlattenSeq(B)
    OBVIOUS
  <1>15. u \in Seq(1..N) /\ Joined(u, B, M)
    BY <1>13, <1>14, FlattenIs
  <1>16. ASSUME NEW n \in 1..M, NEW p \in 1..Len(B[n])
         PROVE  \/ p = 1 /\ B[n][p] = ch[n]
                \/ \E a \in 1..Len(g[ch[n]]) : p = a + 1 /\ B[n][p] = g[ch[n]][a]
    <2>1. Len(g[ch[n]]) \in Nat /\ Len(B[n]) = Len(g[ch[n]]) + 1
      BY <1>12
    <2>2. CASE p = 1
      BY <2>2, <1>12
    <2>3. CASE p # 1
      <3>1. p - 1 \in 1..Len(g[ch[n]]) /\ (p - 1) + 1 = p
        BY <2>1, <2>3
      <3>2. QED  BY <3>1, <1>12
    <2>4. QED  BY <2>2, <2>3
  <1>17. ASSUME NEW n \in 1..M, NEW p \in 1..Len(B[n])
         PROVE  /\ B[n][p] \in 1..N /\ ch[n] <= B[n][p] /\ i < B[n][p]
                /\ F[B[n][p]].cpu = F[ch[n]].cpu
    <2>1. B[n][p] \in 1..N
      BY <1>12
    <2>2. B[n][p] = ch[n] => ch[n] <= B[n][p] /\ i < B[n][p] /\ B[n][p] \in 1..N
      BY <2>1, <1>7
    <2>3. ASSUME NEW a \in 1..Len(g[ch[n]]), B[n][p] = g[ch[n]][a]
          PROVE  ch[n] < B[n][p] /\ F[B[n][p]].cpu = F[ch[n]].cpu
      <3>1. Right(F, ch[n], g[ch[n]]) /\ ch[n] # 0
        BY <1>7, <1>8
      <3>2. QED  BY <3>1, <2>3 DEF Right
    <2>4. ch[n] \in Nat /\ i < ch[n] /\ i \in Nat
      BY <1>7
    <2>5. CASE p = 1 /\ B[n][p] = ch[n]
      BY <2>2, <2>5
    <2>6. CASE \E a \in 1..Len(g[ch[n]]) : p = a + 1 /\ B[n][p] = g[ch[n]][a]
      <3>1. ch[n] < B[n][p] /\ F[B[n][p]].cpu = F[ch[n]].cpu
        BY <2>3, <2>6
      <3>2. PICK x \in 1..N : x = B[n][p]
        BY <2>1
      <3>3. QED  BY <3>1, <3>2, <2>4
    <2>7. QED  BY <2>5, <2>6, <1>16
  <1>18. ASSUME NEW n \in 1..M, NEW p \in 1..Len(B[n]), NEW q \in 1..Len(B[n]), p < q
         PROVE  B[n][p] < B[n][q]
    <2>1. q # 1 /\ p \in Nat /\ q \in Nat
      BY <1>12, <1>18
    <2>2. PICK b \in 1..Len(g[ch[n]]) : q = b + 1 /\ B[n][q] = g[ch[n]][b]
      BY <2>1, <1>16
    <2>3. Right(F, ch[n], g[ch[n]]) /\ ch[n] # 0
      BY <1>7, <1>8
    <2>4. CASE p = 1 /\ B[n][p] = ch[n]
      BY <2>2, <2>3, <2>4 DEF Right
    <2>5. ASSUME NEW a \in 1..Len(g[ch[n]]), p = a + 1, B[n][p] = g[ch[n]][a]
          PROVE  B[n][p] < B[n][q]
      <3>1. a < b
        BY <2>2, <2>5, <1>12, <1>18
      <3>2. F[g[ch[n]][a]].cpu = F[g[ch[n]][b]].cpu
        BY <2>3, <2>2 DEF Right
      <3>3. QED  BY <3>1, <3>2, <2>2, <2>3, <2>5 DEF Right
    <2>6. QED  BY <2>4, <2>5, <1>16
  <1>19. ASSUME NEW n \in 1..M, NEW p \in 1..Len(B[n]), NEW v \in 1..N,
                ch[n] < v, F[v].cpu = F[ch[n]].cpu, F[v].parent < ch[n]
         PROVE  B[n][p] < v
    <2>1. Right(F, ch[n], g[ch[n]]) /\ ch[n] # 0
      BY <1>7, <1>8
    <2>2. \A a \in 1..Len(g[ch[n]]) : g[ch[n]][a] < v
      BY <2>1, <1>2, <1>19 DEF Right
    <2>3. QED  BY <2>2, <1>16, <1>19
  <1>20. ASSUME NEW a \in 1..Len(u)
         PROVE  \E n \in 1..M : \E p \in 1..Len(B[n]) : u[a] = B[n][p]
    BY <1>15 DEF Joined
  <1>21. ASSUME NEW n \in 1..M, NEW p \in 1..Len(B[n])
         PROVE  \E a \in 1..Len(u) : u[a] = B[n][p]
    BY <1>15 DEF Joined
  <1>22. \A a \in 1..Len(u) : i < u[a]
    BY <1>17, <1>20
  <1>23. ASSUME i # 0, NEW n \in 1..M PROVE F[ch[n]].cpu = F[i].cpu
    BY <1>1, <1>2, <1>7, <1>23 DEF Forest, Nested
  <1>24. ASSUME i # 0, NEW a \in 1..Len(u) PROVE F[u[a]].cpu = F[i].cpu
    BY <1>17, <1>20, <1>23, <1>24
  <1>25. ASSUME NEW a \in 1..Len(u), NEW b \in 1..Len(u), a < b, F[u[a]].cpu = F[u[b]].cpu
         PROVE  u[a] < u[b]
    <2>1. PICK m, n \in 1..M : \E p \in 1..Len(B[m]), q \in 1..Len(B[n]) :
            u[a] = B[m][p] /\ u[b] = B[n][q] /\ (m < n \/ (m = n /\ p < q))
      BY <1>15, <1>25 DEF Joined
    <2>2. PICK p \in 1..Len(B[m]), q \in 1..Len(B[n]) :
            u[a] = B[m][p] /\ u[b] = B[n][q] /\ (m < n \/ (m = n /\ p < q))
      BY <2>1
    <2>3. CASE m = n /\ p < q
      BY <2>2, <2>3, <1>18
    <2>4. CASE m < n
      <3>1. F[ch[m]].cpu = F[ch[n]].cpu
        BY <2>2, <1>17, <1>25
      <3>2. ch[m] < ch[n] /\ F[ch[n]].parent < ch[m] /\ ch[n] \in 1..N
        BY <2>4, <1>5, <1>6, <1>7
      <3>3. B[m][p] < ch[n]
        BY <3>1, <3>2, <1>19
      <3>4. B[m][p] \in 1..N /\ B[n][q] \in 1..N /\ ch[n] <= B[n][q]
        BY <1>17
      <3>5. B[m][p] < B[n][q]
        BY <3>2, <3>3, <3>4, Between, Zenon
      <3>6. QED  BY <3>5, <2>2, Zenon
    <2>5. QED  BY <2>2, <2>3, <2>4
  <1>26. ASSUME i # 0, NEW v \in 1..N, i < v, F[v].cpu = F[i].cpu, F[v].parent < i,
                NEW a \in 1..Len(u)
         PROVE  u[a] < v
    <2>1. PICK n \in 1..M : \E p \in 1..Len(B[n]) : u[a] = B[n][p]
      BY <1>20
    <2>2. PICK p \in 1..Len(B[n]) : u[a] = B[n][p]
      BY <2>1
    <2>3. F[v].cpu = F[ch[n]].cpu /\ ch[n] \in 1..N /\ F[ch[n]].parent = i /\ i < ch[n]
      BY <1>7, <1>23, <1>26
    <2>4. ch[n] < v
      <3>1. SUFFICES ASSUME v < ch[n] PROVE FALSE
        <4>1. v # ch[n]
          BY <2>3, <1>3, <1>26
        <4>2. QED  BY <4>1, <2>3
      <3>2. F[ch[n]].parent <= F[v].parent
        BY <3>1, <2>3, <1>1, <1>2, <1>26 DEF Forest, Nested
      <3>3. QED  BY <3>2, <2>3, <1>3, <1>26
    <2>5. F[v].parent < ch[n]
      BY <2>3, <1>3, <1>26
    <2>6. QED  BY <2>2, <2>3, <2>4, <2>5, <1>19
  <1>27. ASSUME NEW j \in 1..N, F[j].parent = i \/ \E a \in 1..Len(u) : u[a] = F[j].parent
         PROVE  \E a \in 1..Len(u) : u[a] = j
    <2>1. CASE F[j].parent = i
      <3>1. PICK n \in 1..M : ch[n] = j
        BY <2>1, <1>5, <1>6
      <3>2. 1 \in 1..Len(B[n]) /\ B[n][1] = j
        <4>1. PICK k \in Nat : k = Len(g[ch[n]]) /\ Len(B[n]) = k + 1 /\ B[n][1] = ch[n]
          BY <1>12
        <4>2. 1 \in 1..(k + 1)
          OBVIOUS
        <4>3. QED  BY <4>1, <4>2, <3>1
      <3>3. QED  BY <3>2, <1>21
    <2>2. CASE \E a \in 1..Len(u) : u[a] = F[j].parent
      <3>0. PICK c \in 1..Len(u) : u[c] = F[j].parent
        BY <2>2
      <3>1. PICK n \in 1..M : \E p \in 1..Len(B[n]) : F[j].parent = B[n][p]
        <4>1. PICK n \in 1..M : \E p \in 1..Len(B[n]) : u[c] = B[n][p]
          BY <1>20
        <4>2. QED  BY <4>1, <3>0
      <3>2. F[j].parent = ch[n] \/ \E a \in 1..Len(g[ch[n]]) : g[ch[n]][a] = F[j].parent
        BY <3>1, <1>16
      <3>3. PICK a \in 1..Len(g[ch[n]]) : g[ch[n]][a] = j
        <4>1. Right(F, ch[n], g[ch[n]])
          BY <1>8
        <4>2. QED  BY <4>1, <3>2, <1>2 DEF Right
      <3>4. a + 1 \in 1..Len(B[n]) /\ B[n][a + 1] = j
        <4>1. PICK k \in Nat : k = Len(g[ch[n]]) /\ Len(B[n]) = k + 1
          BY <1>12
        <4>2. a \in 1..k /\ a + 1 \in 1..(k + 1)
          BY <4>1
        <4>3. B[n][a + 1] = g[ch[n]][a]
          BY <1>12
        <4>4. QED  BY <4>1, <4>2, <4>3, <3>3
      <3>5. QED  BY <3>4, <1>21
    <2>3. QED  BY <1>27, <2>1, <2>2
  <1>28. Right(F, i, u)
    BY <1>2, <1>15, <1>22, <1>24, <1>25, <1>26, <1>27 DEF Right
  <1>29. QED  BY <1>1, <1>10, <1>14, <1>28

\* The walk goes over the frames by a recursive function, and there is one.
LEMMA WalkIs ==
  ASSUME NEW tp, Forest(tp)
  PROVE  \E under : /\ under = [i \in 0..Len(tp.frames) |-> FlattenSeq(Blocks(tp, under, i))]
                    /\ Walk(tp) = under[0]
  <1>1. PICK N \in Nat : N = Len(tp.frames)
    BY DEF Forest
  <1> DEFINE Def(g, i) == FlattenSeq(Blocks(tp, g, i))
             T == {d \in Nat : d <= N => \E g : g = [i \in (N - d)..N |-> Def(g, i)]}
  <1>2. ASSUME NEW i \in 0..N, NEW g, NEW h, \A j \in (i + 1)..N : g[j] = h[j]
        PROVE  Def(g, i) = Def(h, i)
    <2>1. PICK ch : ch = Children(tp, i)
      OBVIOUS
    <2>2. \A n \in DOMAIN ch : ch[n] \in (i + 1)..N
      <3>1. /\ ch \in Seq(1..N) /\ \A n \in 1..Len(ch) : tp.frames[ch[n]].parent = i
        BY <2>1, <1>1, ChildrenAre DEF Forest
      <3>2. \A n \in 1..Len(ch) : ch[n] \in 1..N /\ i < ch[n]
        <4>1. \A n \in 1..Len(ch) : ch[n] \in 1..N
          BY <3>1
        <4>2. \A j \in 1..N : tp.frames[j].parent < j
          BY <1>1 DEF Forest
        <4>3. QED  BY <4>1, <4>2, <3>1
      <3>3. DOMAIN ch = 1..Len(ch)
        BY <3>1
      <3>4. QED  BY <3>2, <3>3
    <2>3. \A n \in DOMAIN ch : <<ch[n]>> \o g[ch[n]] = <<ch[n]>> \o h[ch[n]]
      BY <2>2, <1>2
    <2>4. Blocks(tp, g, i) = Blocks(tp, h, i)
      BY <2>1, <2>3 DEF Blocks
    <2>5. QED  BY <2>4
  <1> HIDE DEF Def
  <1>3. 0 \in T
    <2>1. PICK g : g = [i \in (N - 0)..N |-> Def(<<>>, i)]
      OBVIOUS
    <2>2. \A i \in (N - 0)..N : Def(g, i) = Def(<<>>, i)
      <3>1. \A i \in (N - 0)..N : i \in 0..N /\ \A j \in (i + 1)..N : g[j] = <<>>[j]
        OBVIOUS
      <3>2. QED  BY <3>1, <1>2
    <2>3. g = [i \in (N - 0)..N |-> Def(g, i)]
      BY <2>1, <2>2
    <2>4. QED  BY <2>3
  <1>4. ASSUME NEW d \in Nat, d \in T PROVE d + 1 \in T
    <2>1. SUFFICES ASSUME d + 1 <= N PROVE \E h : h = [i \in (N - (d + 1))..N |-> Def(h, i)]
      OBVIOUS
    <2>2. PICK e \in 0..N : e = N - (d + 1) /\ e + 1 = N - d
      BY <2>1
    <2>3. PICK g : g = [i \in (e + 1)..N |-> Def(g, i)]
      <3>1. d <= N
        BY <2>1
      <3>2. QED  BY <3>1, <2>2, <1>4
    <2>4. PICK h : h = [i \in e..N |-> IF i = e THEN Def(g, e) ELSE g[i]]
      OBVIOUS
    <2>5. h[e] = Def(g, e) /\ \A i \in (e + 1)..N : h[i] = g[i]
      BY <2>4
    <2>6. ASSUME NEW i \in e..N PROVE h[i] = Def(h, i)
      <3>1. i \in 0..N /\ \A j \in (i + 1)..N : j \in (e + 1)..N
        OBVIOUS
      <3>2. Def(g, i) = Def(h, i)
        BY <3>1, <2>5, <1>2
      <3>3. CASE i = e
        BY <3>2, <3>3, <2>5
      <3>4. CASE i # e
        <4>1. i \in (e + 1)..N
          BY <3>4
        <4>2. g[i] = Def(g, i)
          BY <4>1, <2>3
        <4>3. QED  BY <4>1, <4>2, <3>2, <2>5
      <3>5. QED  BY <3>3, <3>4
    <2>7. h = [i \in e..N |-> h[i]]
      BY <2>4
    <2>8. h = [i \in e..N |-> Def(h, i)]
      BY <2>6, <2>7
    <2>9. QED  BY <2>2, <2>8
  <1>5. N \in T
    <2> HIDE DEF T
    <2>1. QED  BY <1>3, <1>4, AllOfNat
  <1>6. \E g : g = [i \in 0..N |-> Def(g, i)]
    <2>1. N - N = 0 /\ N <= N
      OBVIOUS
    <2>2. QED  BY <2>1, <1>5
  <1>7. PICK under : under = CHOOSE g : g = [i \in 0..N |-> Def(g, i)]
    OBVIOUS
  <1>8. under = [i \in 0..N |-> Def(under, i)]
    BY <1>6, <1>7
  <1>9. Walk(tp) = under[0]
    BY <1>1, <1>7 DEF Walk, Def, Blocks
  <1>10. under = [i \in 0..Len(tp.frames) |-> FlattenSeq(Blocks(tp, under, i))]
    BY <1>1, <1>8 DEF Def
  <1>11. QED  BY <1>9, <1>10

LEMMA WalkRight ==
  ASSUME NEW tp, Forest(tp)
  PROVE  Right(tp.frames, 0, Walk(tp))
  <1>1. PICK N \in Nat : N = Len(tp.frames)
    BY DEF Forest
  <1>2. PICK under : /\ under = [i \in 0..N |-> FlattenSeq(Blocks(tp, under, i))]
                     /\ Walk(tp) = under[0]
    BY <1>1, WalkIs
  <1> DEFINE T == {d \in Nat : \A i \in 0..N : N - d <= i => Right(tp.frames, i, under[i])}
  <1>3. ASSUME NEW i \in 0..N, \A j \in (i + 1)..N : Right(tp.frames, j, under[j])
        PROVE  Right(tp.frames, i, under[i])
    <2>1. ASSUME NEW c \in 1..N, tp.frames[c].parent = i PROVE Right(tp.frames, c, under[c])
      <3>1. tp.frames[c].parent < c
        BY <1>1 DEF Forest
      <3>2. c \in (i + 1)..N
        BY <3>1, <2>1
      <3>3. QED  BY <3>2, <1>3
    <2>2. Right(tp.frames, i, FlattenSeq(Blocks(tp, under, i)))
      BY <2>1, <1>1, RightAt
    <2>3. under[i] = FlattenSeq(Blocks(tp, under, i))
      BY <1>2
    <2>4. QED  BY <2>2, <2>3
  <1>4. 0 \in T
    <2>1. ASSUME NEW i \in 0..N, N - 0 <= i PROVE Right(tp.frames, i, under[i])
      <3>1. \A j \in (i + 1)..N : Right(tp.frames, j, under[j])
        BY <2>1
      <3>2. QED  BY <3>1, <1>3
    <2>2. QED  BY <2>1
  <1>5. ASSUME NEW d \in Nat, d \in T PROVE d + 1 \in T
    <2>1. ASSUME NEW i \in 0..N, N - (d + 1) <= i PROVE Right(tp.frames, i, under[i])
      <3>1. \A j \in (i + 1)..N : j \in 0..N /\ N - d <= j
        BY <2>1
      <3>2. \A j \in (i + 1)..N : Right(tp.frames, j, under[j])
        BY <3>1, <1>5
      <3>3. QED  BY <3>2, <1>3
    <2>2. QED  BY <2>1
  <1>6. N \in T
    <2> HIDE DEF T
    <2>1. QED  BY <1>4, <1>5, AllOfNat
  <1>7. N - N <= 0 /\ 0 \in 0..N
    OBVIOUS
  <1>8. Right(tp.frames, 0, under[0])
    BY <1>6, <1>7
  <1>9. QED  BY <1>2, <1>8

\* What is under no frame is every frame, once.
LEMMA WalkHasAll ==
  ASSUME NEW tp, Forest(tp)
  PROVE  /\ Walk(tp) \in Seq(1..Len(tp.frames)) /\ Len(Walk(tp)) = Len(tp.frames)
         /\ \A m, n \in 1..Len(Walk(tp)) :
              m < n /\ tp.frames[Walk(tp)[m]].cpu = tp.frames[Walk(tp)[n]].cpu =>
                Walk(tp)[m] < Walk(tp)[n]
  <1>1. PICK F \in Seq(Frames) : F = tp.frames
    BY DEF Forest
  <1>2. PICK N \in Nat : N = Len(F)
    OBVIOUS
  <1>3. PICK w : w = Walk(tp)
    OBVIOUS
  <1>4. /\ w \in Seq(1..N)
        /\ \A a, b \in 1..Len(w) : a < b /\ F[w[a]].cpu = F[w[b]].cpu => w[a] < w[b]
        /\ \A j \in 1..N : (F[j].parent = 0 \/ \E a \in 1..Len(w) : w[a] = F[j].parent) =>
             \E a \in 1..Len(w) : w[a] = j
    BY <1>1, <1>2, <1>3, WalkRight DEF Right
  <1>5. PICK L \in Nat : L = Len(w)
    BY <1>4
  <1>6. w \in [1..L -> 1..N]
    BY <1>4, <1>5
  <1>7. ASSUME NEW a \in 1..L, NEW b \in 1..L, w[a] = w[b] PROVE a = b
    <2>1. w[a] \in Nat /\ ~(w[a] < w[b]) /\ ~(w[b] < w[a])
      BY <1>6, <1>7
    <2>2. F[w[a]].cpu = F[w[b]].cpu
      BY <1>7
    <2>3. ~(a < b) /\ ~(b < a)
      BY <2>1, <2>2, <1>4, <1>5
    <2>4. QED  BY <2>3
  <1> DEFINE T == {n \in Nat : \A j \in 1..N : j <= n => \E a \in 1..L : w[a] = j}
  <1>8. 0 \in T
    OBVIOUS
  <1>9. ASSUME NEW n \in Nat, n \in T PROVE n + 1 \in T
    <2>1. ASSUME NEW j \in 1..N, j <= n + 1 PROVE \E a \in 1..L : w[a] = j
      <3>1. F[j].parent \in Nat /\ F[j].parent < j
        <4>1. F[j] \in Frames
          BY <1>2
        <4>2. QED  BY <4>1, <1>1, <1>2 DEF Forest, Frames
      <3>2. CASE F[j].parent = 0
        BY <3>2, <1>4, <1>5
      <3>3. CASE F[j].parent # 0
        <4>1. F[j].parent \in 1..N /\ F[j].parent <= n
          BY <3>1, <3>3, <2>1
        <4>2. \E a \in 1..L : w[a] = F[j].parent
          BY <4>1, <1>9
        <4>3. QED  BY <4>2, <1>4, <1>5
      <3>4. QED  BY <3>2, <3>3
    <2>2. QED  BY <2>1
  <1>10. N \in T
    <2> HIDE DEF T
    <2>1. QED  BY <1>8, <1>9, AllOfNat
  <1>11. \A j \in 1..N : \E a \in 1..L : w[a] = j
    BY <1>10
  <1>12. w \in Bijection(1..L, 1..N)
    BY <1>6, <1>7, <1>11 DEF Bijection, Injection, Surjection, IsInjective
  <1>13. L = N
    <2>1. /\ IsFiniteSet(1..L) /\ Cardinality(1..L) = IF 1 > L THEN 0 ELSE L - 1 + 1
          /\ Cardinality(1..N) = IF 1 > N THEN 0 ELSE N - 1 + 1
      BY FS_Interval
    <2>2. ExistsBijection(1..L, 1..N)
      BY <1>12 DEF ExistsBijection
    <2>3. Cardinality(1..N) = Cardinality(1..L)
      BY <2>1, <2>2, FS_Bijection
    <2>4. Cardinality(1..L) = L /\ Cardinality(1..N) = N
      BY <2>1
    <2>5. QED  BY <2>3, <2>4
  <1>14. QED  BY <1>1, <1>2, <1>3, <1>4, <1>5, <1>13

-----------------------------------------------------------------------------
(* The theorems.                                                           *)

\* The invariant, of every trace: while the text lasts, the stack the reader
\* keeps for a processor that has kept its task is the task's stack of calls
\* without those that were made before the trace began.
THEOREM FrameInv == Spec => []FInv
  <1>1. Init => FInv
    BY InitF
  <1>2. FInv /\ [Next]_vars => FInv'
    BY NextF
  <1>3. QED  BY <1>1, <1>2, PTL DEF Spec

\* The tape that function_graph.parse builds of the lines of a processor that
\* keeps its task is the calls the task made: each frame is under its caller,
\* has the duration of its own call, and is marked incomplete at the end
\* exactly when the call had not returned.
THEOREM FramesStandForCalls == Spec => []FramesAreCalls
  <1>1. FInv => FramesAreCalls
    BY DEF FInv
  <1>2. QED  BY <1>1, FrameInv, PTL

\* The walk of a tape meets every frame once, those of one processor in the
\* order their lines were printed, of traces of any length and whatever the
\* scheduler did (models/tape.py: walk).
THEOREM WalksInOrder == Spec => []WalkInOrder
  <1>1. Init => FInv /\ NestInv
    BY InitF, InitN
  <1>2. FInv /\ NestInv /\ [Next]_vars => FInv' /\ NestInv'
    BY NextF, NextN
  <1>3. ASSUME FInv, NestInv PROVE WalkInOrder
    <2>1. Forest(tape)
      BY <1>3, TypedParts DEF FInv, Typed, NestInv, Forest
    <2>2. DOMAIN Walk(tape) = 1..Len(Walk(tape))
      BY <2>1, WalkHasAll
    <2>3. QED  BY <2>1, <2>2, WalkHasAll DEF WalkInOrder
  <1>4. QED  BY <1>1, <1>2, <1>3, PTL DEF Spec
=============================================================================
