--------------------------- MODULE TracingProofs ---------------------------
(***************************************************************************)
(* Proofs about Tracing, for any number of traces.                         *)
(*                                                                         *)
(* A routine is at a place given by its part and by how many operations of *)
(* it are left, and every place fixes some of the control files (SetupAt,  *)
(* BodyAt, FinallyAt): what is traced, what may be read and what the       *)
(* kernel accepts follow from those wherever an operation fails.           *)
(*                                                                         *)
(* That the machine is put back (PutBackAt) needs CoveredFaults: nothing   *)
(* fails in the setup of tape, which its `try` does not cover, nor in a    *)
(* clean-up, where an exception skips the rest of it.  The first is what   *)
(* the run Tracing_setup shows; both are hazards of the code.              *)
(***************************************************************************)
EXTENDS Tracing, TLAPS, SequenceTheorems

Tracers == {"nop", "function", "function_graph"}

\* No filter, under a name: the provers cannot read the empty string.
NoFilter == ""
Filters == {NoFilter, "vfs_write"}

Calls ==
  [backend : Backends, owns : BOOLEAN, graph : Filters, depth : {0, 2},
   before : Tracers]

-----------------------------------------------------------------------------
(* The two routines, operation by operation.                               *)

LEMMA TwoTwo ==
  ASSUME NEW a, NEW b, NEW c, NEW d
  PROVE  <<a, b>> \o <<c, d>> = <<a, b, c, d>>
  <1> DEFINE S == {a, b, c, d}
             s == <<a, b>>
             t == <<c, d>>
             u == <<a, b, c, d>>
  <1>1. s \in Seq(S) /\ t \in Seq(S) /\ u \in Seq(S)
    OBVIOUS
  <1>2. s \o t \in Seq(S) /\ Len(s \o t) = 4 /\ Len(u) = 4
    BY <1>1
  <1>3. \A i \in 1 .. 4 : (s \o t)[i] = u[i]
    BY <1>1
  <1>4. QED  BY <1>1, <1>2, <1>3, SeqEqual

LEMMA TwoThree ==
  ASSUME NEW a, NEW b, NEW c, NEW d, NEW e
  PROVE  <<a, b>> \o <<c, d, e>> = <<a, b, c, d, e>>
  <1> DEFINE S == {a, b, c, d, e}
             s == <<a, b>>
             t == <<c, d, e>>
             u == <<a, b, c, d, e>>
  <1>1. s \in Seq(S) /\ t \in Seq(S) /\ u \in Seq(S)
    OBVIOUS
  <1>2. s \o t \in Seq(S) /\ Len(s \o t) = 5 /\ Len(u) = 5
    BY <1>1
  <1>3. \A i \in 1 .. 5 : (s \o t)[i] = u[i]
    BY <1>1
  <1>4. QED  BY <1>1, <1>2, <1>3, SeqEqual

LEMMA FourThree ==
  ASSUME NEW a, NEW b, NEW c, NEW d, NEW e, NEW f, NEW g
  PROVE  <<a, b, c, d>> \o <<e, f, g>> = <<a, b, c, d, e, f, g>>
  <1> DEFINE S == {a, b, c, d, e, f, g}
             s == <<a, b, c, d>>
             t == <<e, f, g>>
             u == <<a, b, c, d, e, f, g>>
  <1>1. s \in Seq(S) /\ t \in Seq(S) /\ u \in Seq(S)
    OBVIOUS
  <1>2. s \o t \in Seq(S) /\ Len(s \o t) = 7 /\ Len(u) = 7
    BY <1>1
  <1>3. \A i \in 1 .. 7 : (s \o t)[i] = u[i]
    BY <1>1
  <1>4. QED  BY <1>1, <1>2, <1>3, SeqEqual

LEMMA OneTwo ==
  ASSUME NEW a, NEW b, NEW c
  PROVE  <<a>> \o <<b, c>> = <<a, b, c>>
  <1> DEFINE S == {a, b, c}
             s == <<a>>
             t == <<b, c>>
             u == <<a, b, c>>
  <1>1. s \in Seq(S) /\ t \in Seq(S) /\ u \in Seq(S)
    OBVIOUS
  <1>2. s \o t \in Seq(S) /\ Len(s \o t) = 3 /\ Len(u) = 3
    BY <1>1
  <1>3. \A i \in 1 .. 3 : (s \o t)[i] = u[i]
    BY <1>1
  <1>4. QED  BY <1>1, <1>2, <1>3, SeqEqual

LEMMA OneThree ==
  ASSUME NEW a, NEW b, NEW c, NEW d
  PROVE  <<a>> \o <<b, c, d>> = <<a, b, c, d>>
  <1> DEFINE S == {a, b, c, d}
             s == <<a>>
             t == <<b, c, d>>
             u == <<a, b, c, d>>
  <1>1. s \in Seq(S) /\ t \in Seq(S) /\ u \in Seq(S)
    OBVIOUS
  <1>2. s \o t \in Seq(S) /\ Len(s \o t) = 4 /\ Len(u) = 4
    BY <1>1
  <1>3. \A i \in 1 .. 4 : (s \o t)[i] = u[i]
    BY <1>1
  <1>4. QED  BY <1>1, <1>2, <1>3, SeqEqual

LEMMA ThreeThree ==
  ASSUME NEW a, NEW b, NEW c, NEW d, NEW e, NEW f
  PROVE  <<a, b, c>> \o <<d, e, f>> = <<a, b, c, d, e, f>>
  <1> DEFINE S == {a, b, c, d, e, f}
             s == <<a, b, c>>
             t == <<d, e, f>>
             u == <<a, b, c, d, e, f>>
  <1>1. s \in Seq(S) /\ t \in Seq(S) /\ u \in Seq(S)
    OBVIOUS
  <1>2. s \o t \in Seq(S) /\ Len(s \o t) = 6 /\ Len(u) = 6
    BY <1>1
  <1>3. \A i \in 1 .. 6 : (s \o t)[i] = u[i]
    BY <1>1
  <1>4. QED  BY <1>1, <1>2, <1>3, SeqEqual

LEMMA NothingTwo ==
  ASSUME NEW a, NEW b, NEW c
  PROVE  <<a, b>> \o <<>> = <<a, b>> /\ <<>> \o <<a, b, c>> = <<a, b, c>>
  <1>1. <<a, b>> \in Seq({a, b}) /\ <<a, b, c>> \in Seq({a, b, c})
    OBVIOUS
  <1>2. QED  BY <1>1, ConcatEmptySeq

LEMMA SetupOps ==
  ASSUME NEW r
  PROVE  /\ OnGuest(r) => Setup(r) =
              <<Put("on", FALSE), Put("tracer", "function_graph"), Put("proc", TRUE),
                Put("irqs", FALSE), Put("graph", r.graph), Put("depth", r.depth), Clear>>
         /\ ~OnGuest(r) => Setup(r) =
              <<Put("on", FALSE), Put("tracer", "function_graph"),
                Put("graph", r.graph), Put("depth", r.depth), Clear>>
  <1>1. CASE OnGuest(r)
    <2>1. Setup(r) = <<Put("on", FALSE), Put("tracer", "function_graph")>>
                     \o <<Put("proc", TRUE), Put("irqs", FALSE)>>
                     \o <<Put("graph", r.graph), Put("depth", r.depth), Clear>>
      BY <1>1, Zenon DEF Setup, WANTED
    <2>2. <<Put("on", FALSE), Put("tracer", "function_graph")>>
             \o <<Put("proc", TRUE), Put("irqs", FALSE)>>
          = <<Put("on", FALSE), Put("tracer", "function_graph"), Put("proc", TRUE),
              Put("irqs", FALSE)>>
      BY TwoTwo, Zenon
    <2>3. <<Put("on", FALSE), Put("tracer", "function_graph"), Put("proc", TRUE),
            Put("irqs", FALSE)>>
             \o <<Put("graph", r.graph), Put("depth", r.depth), Clear>>
          = <<Put("on", FALSE), Put("tracer", "function_graph"), Put("proc", TRUE),
              Put("irqs", FALSE), Put("graph", r.graph), Put("depth", r.depth), Clear>>
      <3>1. PICK a, b, c, d, e, f, g :
              /\ a = Put("on", FALSE) /\ b = Put("tracer", "function_graph")
              /\ c = Put("proc", TRUE) /\ d = Put("irqs", FALSE)
              /\ e = Put("graph", r.graph) /\ f = Put("depth", r.depth) /\ g = Clear
        BY Zenon
      <3>2. <<a, b, c, d>> \o <<e, f, g>> = <<a, b, c, d, e, f, g>>
        BY FourThree
      <3>3. QED  BY <3>1, <3>2, Zenon
    <2>4. QED  BY <1>1, <2>1, <2>2, <2>3, Zenon
  <1>2. CASE ~OnGuest(r)
    <2>1. Setup(r) = <<Put("on", FALSE), Put("tracer", "function_graph")>>
                     \o <<>>
                     \o <<Put("graph", r.graph), Put("depth", r.depth), Clear>>
      BY <1>2, Zenon DEF Setup
    <2>2. <<Put("on", FALSE), Put("tracer", "function_graph")>> \o <<>>
          = <<Put("on", FALSE), Put("tracer", "function_graph")>>
      BY NothingTwo, Zenon
    <2>3. <<Put("on", FALSE), Put("tracer", "function_graph")>>
             \o <<Put("graph", r.graph), Put("depth", r.depth), Clear>>
          = <<Put("on", FALSE), Put("tracer", "function_graph"),
              Put("graph", r.graph), Put("depth", r.depth), Clear>>
      BY TwoThree, Zenon
    <2>4. QED  BY <1>2, <2>1, <2>2, <2>3, Zenon
  <1>3. QED  BY <1>1, <1>2

LEMMA BodyOps ==
  ASSUME NEW r
  PROVE  /\ r.owns => Body(r) = <<Do, Put("on", FALSE), Read>>
         /\ ~r.owns => Body(r) = <<Put("on", TRUE), Do, Put("on", FALSE), Read>>
  <1>1. CASE r.owns
    BY <1>1, NothingTwo, Zenon DEF Body
  <1>2. CASE ~r.owns
    BY <1>2, OneThree, Zenon DEF Body
  <1>3. QED  BY <1>1, <1>2

LEMMA FinallyOps ==
  ASSUME NEW r
  PROVE  /\ OnGuest(r) => Finally(r) =
              <<Put("on", FALSE), Put("proc", FALSE), Put("irqs", TRUE),
                Put("graph", ""), Put("depth", 0), Put("tracer", r.before)>>
         /\ ~OnGuest(r) => Finally(r) =
              <<Put("on", FALSE), Put("tracer", r.before), Put("graph", ""), Put("depth", 0)>>
  <1>1. CASE OnGuest(r)
    <2>1. Finally(r) = <<Put("on", FALSE)>> \o <<Put("proc", FALSE), Put("irqs", TRUE)>>
                       \o <<Put("graph", ""), Put("depth", 0), Put("tracer", r.before)>>
      BY <1>1, Zenon DEF Finally, RESTORED
    <2>2. <<Put("on", FALSE)>> \o <<Put("proc", FALSE), Put("irqs", TRUE)>>
          = <<Put("on", FALSE), Put("proc", FALSE), Put("irqs", TRUE)>>
      BY OneTwo, Zenon
    <2>3. <<Put("on", FALSE), Put("proc", FALSE), Put("irqs", TRUE)>>
             \o <<Put("graph", ""), Put("depth", 0), Put("tracer", r.before)>>
          = <<Put("on", FALSE), Put("proc", FALSE), Put("irqs", TRUE),
              Put("graph", ""), Put("depth", 0), Put("tracer", r.before)>>
      <3>1. PICK a, b, c, d, e, f :
              /\ a = Put("on", FALSE) /\ b = Put("proc", FALSE) /\ c = Put("irqs", TRUE)
              /\ d = Put("graph", "") /\ e = Put("depth", 0) /\ f = Put("tracer", r.before)
        BY Zenon
      <3>2. <<a, b, c>> \o <<d, e, f>> = <<a, b, c, d, e, f>>
        BY ThreeThree
      <3>3. QED  BY <3>1, <3>2, Zenon
    <2>4. QED  BY <1>1, <2>1, <2>2, <2>3, Zenon
  <1>2. CASE ~OnGuest(r)
    BY <1>2, Zenon DEF Finally
  <1>3. QED  BY <1>1, <1>2



\* The operations of both routines.
LEMMA OpTyped ==
  /\ \A v \in BOOLEAN : /\ Put("on", v) \in Operations
                        /\ Put("proc", v) \in Operations
                        /\ Put("irqs", v) \in Operations
  /\ \A v \in Tracers : Put("tracer", v) \in Operations
  /\ \A v \in Filters : Put("graph", v) \in Operations
  /\ \A v \in {0, 2} : Put("depth", v) \in Operations
  /\ Clear \in Operations /\ Do \in Operations /\ Read \in Operations
  <1> DEFINE A == {Put(f, v) : f \in {"on", "proc", "irqs"}, v \in BOOLEAN}
             B == {Put("tracer", v) : v \in {"nop", "function", "function_graph"}}
             C == {Put("graph", v) : v \in Filters}
             D == {Put("depth", v) : v \in {0, 2}}
             E == {Clear, Do, Read}
  <1>1. Operations = A \cup B \cup C \cup D \cup E
    BY DEF Operations, Filters, NoFilter
  <1>2. \A v \in BOOLEAN : Put("on", v) \in A /\ Put("proc", v) \in A /\ Put("irqs", v) \in A
    OBVIOUS
  <1>3. \A v \in Tracers : Put("tracer", v) \in B
    BY DEF Tracers
  <1>4. \A v \in Filters : Put("graph", v) \in C
    OBVIOUS
  <1>5. \A v \in {0, 2} : Put("depth", v) \in D
    OBVIOUS
  <1>6. Clear \in E /\ Do \in E /\ Read \in E
    OBVIOUS
  <1> HIDE DEF A, B, C, D, E
  <1>7. A \subseteq Operations /\ B \subseteq Operations /\ C \subseteq Operations
        /\ D \subseteq Operations /\ E \subseteq Operations
    BY <1>1
  <1>8. QED  BY <1>2, <1>3, <1>4, <1>5, <1>6, <1>7, Zenon

LEMMA SetupTyped ==
  ASSUME NEW r \in Calls
  PROVE  /\ Setup(r) \in Seq(Operations)
         /\ OnGuest(r) =>
              /\ Len(Setup(r)) = 7
              /\ Setup(r)[1] = Put("on", FALSE) /\ Setup(r)[2] = Put("tracer", "function_graph")
              /\ Setup(r)[3] = Put("proc", TRUE) /\ Setup(r)[4] = Put("irqs", FALSE)
              /\ Setup(r)[5] = Put("graph", r.graph) /\ Setup(r)[6] = Put("depth", r.depth)
              /\ Setup(r)[7] = Clear
         /\ ~OnGuest(r) =>
              /\ Len(Setup(r)) = 5
              /\ Setup(r)[1] = Put("on", FALSE) /\ Setup(r)[2] = Put("tracer", "function_graph")
              /\ Setup(r)[3] = Put("graph", r.graph) /\ Setup(r)[4] = Put("depth", r.depth)
              /\ Setup(r)[5] = Clear
  <1>1. PICK a, b, c, d, e, f, g :
          /\ a = Put("on", FALSE) /\ b = Put("tracer", "function_graph")
          /\ c = Put("proc", TRUE) /\ d = Put("irqs", FALSE)
          /\ e = Put("graph", r.graph) /\ f = Put("depth", r.depth) /\ g = Clear
    BY Zenon
  <1>2. /\ a \in Operations /\ b \in Operations /\ c \in Operations /\ d \in Operations
        /\ e \in Operations /\ f \in Operations /\ g \in Operations
    BY <1>1, OpTyped DEF Calls, Tracers
  <1>3. /\ OnGuest(r) => Setup(r) = <<a, b, c, d, e, f, g>>
        /\ ~OnGuest(r) => Setup(r) = <<a, b, e, f, g>>
    BY <1>1, SetupOps, Zenon
  <1>4. /\ Setup(r) \in Seq(Operations)
        /\ OnGuest(r) => Len(Setup(r)) = 7 /\ Setup(r)[1] = a /\ Setup(r)[2] = b /\ Setup(r)[3] = c /\ Setup(r)[4] = d /\ Setup(r)[5] = e /\ Setup(r)[6] = f /\ Setup(r)[7] = g
        /\ ~OnGuest(r) => Len(Setup(r)) = 5 /\ Setup(r)[1] = a /\ Setup(r)[2] = b /\ Setup(r)[3] = e /\ Setup(r)[4] = f /\ Setup(r)[5] = g
    <2>1. <<a, b, c, d, e, f, g>> \in Seq(Operations) /\ <<a, b, e, f, g>> \in Seq(Operations)
      BY <1>2
    <2>2. Setup(r) \in Seq(Operations)
      BY <1>3, <2>1
    <2>3. OnGuest(r) => Len(Setup(r)) = 7 /\ Setup(r)[1] = a /\ Setup(r)[2] = b /\ Setup(r)[3] = c /\ Setup(r)[4] = d /\ Setup(r)[5] = e /\ Setup(r)[6] = f /\ Setup(r)[7] = g
      BY <1>3
    <2>4. ~OnGuest(r) => Len(Setup(r)) = 5 /\ Setup(r)[1] = a /\ Setup(r)[2] = b /\ Setup(r)[3] = e /\ Setup(r)[4] = f /\ Setup(r)[5] = g
      BY <1>3
    <2>5. QED  BY <2>2, <2>3, <2>4
  <1>5. QED  BY <1>1, <1>4, Zenon

LEMMA BodyTyped ==
  ASSUME NEW r \in Calls
  PROVE  /\ Body(r) \in Seq(Operations)
         /\ r.owns => /\ Len(Body(r)) = 3
                      /\ Body(r)[1] = Do /\ Body(r)[2] = Put("on", FALSE) /\ Body(r)[3] = Read
         /\ ~r.owns => /\ Len(Body(r)) = 4
                       /\ Body(r)[1] = Put("on", TRUE) /\ Body(r)[2] = Do
                       /\ Body(r)[3] = Put("on", FALSE) /\ Body(r)[4] = Read
  <1>1. PICK a, b, c, d : a = Put("on", TRUE) /\ b = Do /\ c = Put("on", FALSE) /\ d = Read
    BY Zenon
  <1>2. a \in Operations /\ b \in Operations /\ c \in Operations /\ d \in Operations
    BY <1>1, OpTyped
  <1>3. (r.owns => Body(r) = <<b, c, d>>) /\ (~r.owns => Body(r) = <<a, b, c, d>>)
    BY <1>1, BodyOps, Zenon
  <1>4. /\ Body(r) \in Seq(Operations)
        /\ r.owns => Len(Body(r)) = 3 /\ Body(r)[1] = b /\ Body(r)[2] = c /\ Body(r)[3] = d
        /\ ~r.owns => Len(Body(r)) = 4 /\ Body(r)[1] = a /\ Body(r)[2] = b /\ Body(r)[3] = c /\ Body(r)[4] = d
    <2>1. <<b, c, d>> \in Seq(Operations) /\ <<a, b, c, d>> \in Seq(Operations)
      BY <1>2
    <2>2. Body(r) \in Seq(Operations)
      BY <1>3, <2>1
    <2>3. r.owns => Len(Body(r)) = 3 /\ Body(r)[1] = b /\ Body(r)[2] = c /\ Body(r)[3] = d
      BY <1>3
    <2>4. ~r.owns => Len(Body(r)) = 4 /\ Body(r)[1] = a /\ Body(r)[2] = b /\ Body(r)[3] = c /\ Body(r)[4] = d
      BY <1>3
    <2>5. QED  BY <2>2, <2>3, <2>4
  <1>5. QED  BY <1>1, <1>4, Zenon

LEMMA FinallyTyped ==
  ASSUME NEW r \in Calls
  PROVE  /\ Finally(r) \in Seq(Operations)
         /\ OnGuest(r) =>
              /\ Len(Finally(r)) = 6
              /\ Finally(r)[1] = Put("on", FALSE) /\ Finally(r)[2] = Put("proc", FALSE)
              /\ Finally(r)[3] = Put("irqs", TRUE) /\ Finally(r)[4] = Put("graph", "")
              /\ Finally(r)[5] = Put("depth", 0) /\ Finally(r)[6] = Put("tracer", r.before)
         /\ ~OnGuest(r) =>
              /\ Len(Finally(r)) = 4
              /\ Finally(r)[1] = Put("on", FALSE) /\ Finally(r)[2] = Put("tracer", r.before)
              /\ Finally(r)[3] = Put("graph", "") /\ Finally(r)[4] = Put("depth", 0)
  <1>1. PICK a, b, c, d, e, f :
          /\ a = Put("on", FALSE) /\ b = Put("proc", FALSE) /\ c = Put("irqs", TRUE)
          /\ d = Put("graph", "") /\ e = Put("depth", 0) /\ f = Put("tracer", r.before)
    BY Zenon
  <1>2. /\ a \in Operations /\ b \in Operations /\ c \in Operations /\ d \in Operations
        /\ e \in Operations /\ f \in Operations
    <2>1. d = Put("graph", NoFilter) /\ NoFilter \in Filters
      BY <1>1, Zenon DEF NoFilter, Filters
    <2>2. QED  BY <1>1, <2>1, OpTyped DEF Calls
  <1>3. /\ OnGuest(r) => Finally(r) = <<a, b, c, d, e, f>>
        /\ ~OnGuest(r) => Finally(r) = <<a, f, d, e>>
    BY <1>1, FinallyOps, Zenon
  <1>4. /\ Finally(r) \in Seq(Operations)
        /\ OnGuest(r) => Len(Finally(r)) = 6 /\ Finally(r)[1] = a /\ Finally(r)[2] = b /\ Finally(r)[3] = c /\ Finally(r)[4] = d /\ Finally(r)[5] = e /\ Finally(r)[6] = f
        /\ ~OnGuest(r) => Len(Finally(r)) = 4 /\ Finally(r)[1] = a /\ Finally(r)[2] = f /\ Finally(r)[3] = d /\ Finally(r)[4] = e
    <2>1. <<a, b, c, d, e, f>> \in Seq(Operations) /\ <<a, f, d, e>> \in Seq(Operations)
      BY <1>2
    <2>2. Finally(r) \in Seq(Operations)
      BY <1>3, <2>1
    <2>3. OnGuest(r) => Len(Finally(r)) = 6 /\ Finally(r)[1] = a /\ Finally(r)[2] = b /\ Finally(r)[3] = c /\ Finally(r)[4] = d /\ Finally(r)[5] = e /\ Finally(r)[6] = f
      BY <1>3
    <2>4. ~OnGuest(r) => Len(Finally(r)) = 4 /\ Finally(r)[1] = a /\ Finally(r)[2] = f /\ Finally(r)[3] = d /\ Finally(r)[4] = e
      BY <1>3
    <2>5. QED  BY <2>2, <2>3, <2>4
  <1>5. QED  BY <1>1, <1>4, Zenon

-----------------------------------------------------------------------------
(* The invariant.                                                          *)

Left == Len(todo)

\* One sequence of operations is the end of another.
EndOf(some, part) ==
  /\ Len(some) <= Len(part)
  /\ \A i \in 1 .. Len(some) : some[i] = part[Len(part) - Len(some) + i]

\* What is left to do is the end of the part that is running.
CallInv ==
  /\ todo \in Seq(Operations)
  /\ phase # "idle" =>
       /\ args \in Calls /\ args.backend = backend
       /\ windows > 0
       /\ EndOf(todo, Part(args, phase))
  /\ phase \in {"setup", "body"} => text = None

\* With n operations of the setup left: the tracer is changed while it is off.
SetupAt(n) ==
  /\ n <= (IF OnGuest(args) THEN 6 ELSE 4) => ~conf.on
  /\ n <= (IF OnGuest(args) THEN 5 ELSE 3) => conf.tracer = "function_graph"
  /\ n = 0 => ring = {}

\* Only the window's own records come into the emptied buffer; when it is the
\* program that opens it, tracing is off at every place of the routine.
BodyAt(n) ==
  /\ conf.tracer = "function_graph"
  /\ args.owns \/ n \in {0, 1, 4} => ~conf.on
  /\ ~args.owns /\ n = 3 => conf.on
  /\ n >= 3 => ring \subseteq IF args.owns THEN {} ELSE {0}
  /\ n <= 2 => /\ windows \in ring
               /\ ring \subseteq IF args.owns THEN {windows} ELSE {0, windows}

\* On the guest the tracer goes back last, after the options that need it.
FinallyAt(n) ==
  /\ OnGuest(args) /\ n > 0 => conf.tracer = "function_graph"
  /\ n <= (IF OnGuest(args) THEN 5 ELSE 3) => ~conf.on

PhaseInv ==
  /\ phase = "setup" => SetupAt(Left)
  /\ phase = "body" => BodyAt(Left)
  /\ phase = "finally" => FinallyAt(Left)

BInv == TypeOK /\ CallInv /\ PhaseInv /\ OnlyItsWindow

\* What the clean-up has put back.
PutBackAt(n) ==
  IF OnGuest(args)
  THEN /\ n <= 4 => ~conf.proc
       /\ n <= 3 => conf.irqs
       /\ n <= 2 => conf.graph = NoFilter
       /\ n <= 1 => conf.depth = 0
       /\ n = 0 => conf.tracer = args.before
  ELSE /\ n <= 2 => conf.tracer = args.before
       /\ n <= 1 => conf.graph = NoFilter
       /\ n = 0 => conf.depth = 0

RestoreInv ==
  /\ ~origin.proc /\ origin.irqs
  /\ backend # "v86" => ~conf.proc /\ conf.irqs
  /\ phase # "idle" => args.before = origin.tracer
  /\ phase = "finally" => PutBackAt(Left)

RInv == BInv /\ RestoreInv /\ TracerPutBack /\ NothingLeftOn

\* Nothing fails but where the code promises to clean up after it.
CoveredFaults ==
  FaultsIn \cap {<<"v86", "setup">>, <<"v86", "finally">>, <<"native", "finally">>} = {}

-----------------------------------------------------------------------------
(* What each operation leaves of the control files and the ring buffer.    *)

SwitchNow(v) ==
  /\ conf' \in Settings /\ ring' = ring
  /\ conf'.on = v /\ conf'.tracer = conf.tracer /\ conf'.proc = conf.proc
  /\ conf'.irqs = conf.irqs /\ conf'.graph = conf.graph /\ conf'.depth = conf.depth

TracerNow(v) ==
  /\ conf' \in Settings /\ ring' = ring
  /\ conf'.on = conf.on /\ conf'.tracer = v /\ conf'.proc = conf.proc
  /\ conf'.irqs = conf.irqs /\ conf'.graph = conf.graph /\ conf'.depth = conf.depth

ProcNow(v) ==
  /\ conf' \in Settings /\ ring' = ring
  /\ conf'.on = conf.on /\ conf'.tracer = conf.tracer /\ conf'.proc = v
  /\ conf'.irqs = conf.irqs /\ conf'.graph = conf.graph /\ conf'.depth = conf.depth

IrqsNow(v) ==
  /\ conf' \in Settings /\ ring' = ring
  /\ conf'.on = conf.on /\ conf'.tracer = conf.tracer /\ conf'.proc = conf.proc
  /\ conf'.irqs = v /\ conf'.graph = conf.graph /\ conf'.depth = conf.depth

GraphNow(v) ==
  /\ conf' \in Settings /\ ring' = ring
  /\ conf'.on = conf.on /\ conf'.tracer = conf.tracer /\ conf'.proc = conf.proc
  /\ conf'.irqs = conf.irqs /\ conf'.graph = v /\ conf'.depth = conf.depth

DepthNow(v) ==
  /\ conf' \in Settings /\ ring' = ring
  /\ conf'.on = conf.on /\ conf'.tracer = conf.tracer /\ conf'.proc = conf.proc
  /\ conf'.irqs = conf.irqs /\ conf'.graph = conf.graph /\ conf'.depth = v

DoNow ==
  /\ conf' \in Settings /\ ring' = ring \cup Records
  /\ (args.owns => ~conf'.on) /\ (~args.owns => conf'.on = conf.on)
  /\ conf'.tracer = conf.tracer /\ conf'.proc = conf.proc /\ conf'.irqs = conf.irqs
  /\ conf'.graph = conf.graph /\ conf'.depth = conf.depth

LEMMA Written ==
  ASSUME conf \in Settings
  PROVE  /\ \A v \in BOOLEAN : Effect(Put("on", v)) => SwitchNow(v)
         /\ \A v \in Tracers : Effect(Put("tracer", v)) => TracerNow(v)
         /\ \A v \in BOOLEAN : Effect(Put("proc", v)) => ProcNow(v)
         /\ \A v \in BOOLEAN : Effect(Put("irqs", v)) => IrqsNow(v)
         /\ \A v \in Filters : Effect(Put("graph", v)) => GraphNow(v)
         /\ \A v \in {0, 2} : Effect(Put("depth", v)) => DepthNow(v)
         /\ Effect(Clear) => ring' = {} /\ conf' = conf
         /\ Effect(Read) => ring' = ring /\ conf' = conf
         /\ Effect(Do) => DoNow
  <1>1. ASSUME NEW v \in BOOLEAN, Effect(Put("on", v))
        PROVE  SwitchNow(v)
    BY <1>1 DEF Effect, Put, Op, Settings, SwitchNow
  <1>2. ASSUME NEW v \in Tracers, Effect(Put("tracer", v))
        PROVE  TracerNow(v)
    BY <1>2 DEF Effect, Put, Op, Settings, TracerNow, Tracers
  <1>3. ASSUME NEW v \in BOOLEAN, Effect(Put("proc", v))
        PROVE  ProcNow(v)
    BY <1>3 DEF Effect, Put, Op, Settings, ProcNow
  <1>4. ASSUME NEW v \in BOOLEAN, Effect(Put("irqs", v))
        PROVE  IrqsNow(v)
    BY <1>4 DEF Effect, Put, Op, Settings, IrqsNow
  <1>5. ASSUME NEW v \in Filters, Effect(Put("graph", v))
        PROVE  GraphNow(v)
    BY <1>5 DEF Effect, Put, Op, Settings, GraphNow, Filters, NoFilter
  <1>6. ASSUME NEW v \in {0, 2}, Effect(Put("depth", v))
        PROVE  DepthNow(v)
    BY <1>6 DEF Effect, Put, Op, Settings, DepthNow
  <1>7. Effect(Clear) => ring' = {} /\ conf' = conf
    BY DEF Effect, Clear, Op
  <1>8. Effect(Read) => ring' = ring /\ conf' = conf
    BY DEF Effect, Read, Op, kernelVars
  <1>9. ASSUME Effect(Do)
        PROVE  DoNow
    <2>1. /\ ring' = ring \cup Records
          /\ conf' = IF args.owns THEN [conf EXCEPT !.on = FALSE] ELSE conf
      BY <1>9 DEF Effect, Do, Op
    <2>2. CASE args.owns
      BY <2>1, <2>2 DEF Settings, DoNow
    <2>3. CASE ~args.owns
      BY <2>1, <2>3 DEF Settings, DoNow
    <2>4. QED  BY <2>2, <2>3
  <1>10. QED  BY <1>1, <1>2, <1>3, <1>4, <1>5, <1>6, <1>7, <1>8, <1>9, Zenon

-----------------------------------------------------------------------------
(* The next operation, by how many are left.                               *)

LEMMA SetupHead ==
  ASSUME CallInv, phase = "setup", todo # <<>>, NEW n \in Nat, Left = n + 1
  PROVE  /\ args \in Calls
         /\ OnGuest(args) =>
              /\ n \in 0 .. 6
              /\ n = 6 => Head(todo) = Put("on", FALSE)
              /\ n = 5 => Head(todo) = Put("tracer", "function_graph")
              /\ n = 4 => Head(todo) = Put("proc", TRUE)
              /\ n = 3 => Head(todo) = Put("irqs", FALSE)
              /\ n = 2 => Head(todo) = Put("graph", args.graph)
              /\ n = 1 => Head(todo) = Put("depth", args.depth)
              /\ n = 0 => Head(todo) = Clear
         /\ ~OnGuest(args) =>
              /\ n \in 0 .. 4
              /\ n = 4 => Head(todo) = Put("on", FALSE)
              /\ n = 3 => Head(todo) = Put("tracer", "function_graph")
              /\ n = 2 => Head(todo) = Put("graph", args.graph)
              /\ n = 1 => Head(todo) = Put("depth", args.depth)
              /\ n = 0 => Head(todo) = Clear
  <1>1. args \in Calls /\ Part(args, phase) = Setup(args)
    BY DEF CallInv, Part
  <1>2. PICK k \in Nat : k = Len(Setup(args))
    <2>1. Setup(args) \in Seq(Operations)
      BY <1>1, SetupTyped
    <2>2. QED  BY <2>1
  <1>3. n + 1 \in 1 .. k /\ Head(todo) = Setup(args)[k - n]
    BY <1>1, <1>2 DEF CallInv, EndOf, Left
  <1>4. CASE OnGuest(args)
    <2>1. k = 7
      BY <1>1, <1>2, <1>4, SetupTyped
    <2>2. /\ n = 6 => k - n = 1
          /\ n = 5 => k - n = 2
          /\ n = 4 => k - n = 3
          /\ n = 3 => k - n = 4
          /\ n = 2 => k - n = 5
          /\ n = 1 => k - n = 6
          /\ n = 0 => k - n = 7
      BY <2>1
    <2>3. n \in 0 .. 6
      BY <1>3, <2>1
    <2>4. QED  BY <1>1, <1>2, <1>3, <1>4, <2>2, <2>3, SetupTyped, Zenon
  <1>5. CASE ~OnGuest(args)
    <2>1. k = 5
      BY <1>1, <1>2, <1>5, SetupTyped
    <2>2. /\ n = 4 => k - n = 1
          /\ n = 3 => k - n = 2
          /\ n = 2 => k - n = 3
          /\ n = 1 => k - n = 4
          /\ n = 0 => k - n = 5
      BY <2>1
    <2>3. n \in 0 .. 4
      BY <1>3, <2>1
    <2>4. QED  BY <1>1, <1>2, <1>3, <1>5, <2>2, <2>3, SetupTyped, Zenon
  <1>6. QED  BY <1>1, <1>4, <1>5

LEMMA BodyHead ==
  ASSUME CallInv, phase = "body", todo # <<>>, NEW n \in Nat, Left = n + 1
  PROVE  /\ args \in Calls
         /\ args.owns =>
              /\ n \in 0 .. 2
              /\ n = 2 => Head(todo) = Do
              /\ n = 1 => Head(todo) = Put("on", FALSE)
              /\ n = 0 => Head(todo) = Read
         /\ ~args.owns =>
              /\ n \in 0 .. 3
              /\ n = 3 => Head(todo) = Put("on", TRUE)
              /\ n = 2 => Head(todo) = Do
              /\ n = 1 => Head(todo) = Put("on", FALSE)
              /\ n = 0 => Head(todo) = Read
  <1>1. args \in Calls /\ Part(args, phase) = Body(args)
    BY DEF CallInv, Part
  <1>2. PICK k \in Nat : k = Len(Body(args))
    <2>1. Body(args) \in Seq(Operations)
      BY <1>1, BodyTyped
    <2>2. QED  BY <2>1
  <1>3. n + 1 \in 1 .. k /\ Head(todo) = Body(args)[k - n]
    BY <1>1, <1>2 DEF CallInv, EndOf, Left
  <1>4. CASE args.owns
    <2>1. k = 3
      BY <1>1, <1>2, <1>4, BodyTyped
    <2>2. /\ n = 2 => k - n = 1
          /\ n = 1 => k - n = 2
          /\ n = 0 => k - n = 3
      BY <2>1
    <2>3. n \in 0 .. 2
      BY <1>3, <2>1
    <2>4. QED  BY <1>1, <1>2, <1>3, <1>4, <2>2, <2>3, BodyTyped, Zenon
  <1>5. CASE ~args.owns
    <2>1. k = 4
      BY <1>1, <1>2, <1>5, BodyTyped
    <2>2. /\ n = 3 => k - n = 1
          /\ n = 2 => k - n = 2
          /\ n = 1 => k - n = 3
          /\ n = 0 => k - n = 4
      BY <2>1
    <2>3. n \in 0 .. 3
      BY <1>3, <2>1
    <2>4. QED  BY <1>1, <1>2, <1>3, <1>5, <2>2, <2>3, BodyTyped, Zenon
  <1>6. QED  BY <1>1, <1>4, <1>5

LEMMA FinallyHead ==
  ASSUME CallInv, phase = "finally", todo # <<>>, NEW n \in Nat, Left = n + 1
  PROVE  /\ args \in Calls
         /\ OnGuest(args) =>
              /\ n \in 0 .. 5
              /\ n = 5 => Head(todo) = Put("on", FALSE)
              /\ n = 4 => Head(todo) = Put("proc", FALSE)
              /\ n = 3 => Head(todo) = Put("irqs", TRUE)
              /\ n = 2 => Head(todo) = Put("graph", NoFilter)
              /\ n = 1 => Head(todo) = Put("depth", 0)
              /\ n = 0 => Head(todo) = Put("tracer", args.before)
         /\ ~OnGuest(args) =>
              /\ n \in 0 .. 3
              /\ n = 3 => Head(todo) = Put("on", FALSE)
              /\ n = 2 => Head(todo) = Put("tracer", args.before)
              /\ n = 1 => Head(todo) = Put("graph", NoFilter)
              /\ n = 0 => Head(todo) = Put("depth", 0)
  <1>1. args \in Calls /\ Part(args, phase) = Finally(args)
    BY DEF CallInv, Part
  <1>2. PICK k \in Nat : k = Len(Finally(args))
    <2>1. Finally(args) \in Seq(Operations)
      BY <1>1, FinallyTyped
    <2>2. QED  BY <2>1
  <1>3. n + 1 \in 1 .. k /\ Head(todo) = Finally(args)[k - n]
    BY <1>1, <1>2 DEF CallInv, EndOf, Left
  <1>4. CASE OnGuest(args)
    <2>1. k = 6
      BY <1>1, <1>2, <1>4, FinallyTyped
    <2>2. /\ n = 5 => k - n = 1
          /\ n = 4 => k - n = 2
          /\ n = 3 => k - n = 3
          /\ n = 2 => k - n = 4
          /\ n = 1 => k - n = 5
          /\ n = 0 => k - n = 6
      BY <2>1
    <2>3. n \in 0 .. 5
      BY <1>3, <2>1
    <2>4. QED  BY <1>1, <1>2, <1>3, <1>4, <2>2, <2>3, FinallyTyped, Zenon DEF NoFilter
  <1>5. CASE ~OnGuest(args)
    <2>1. k = 4
      BY <1>1, <1>2, <1>5, FinallyTyped
    <2>2. /\ n = 3 => k - n = 1
          /\ n = 2 => k - n = 2
          /\ n = 1 => k - n = 3
          /\ n = 0 => k - n = 4
      BY <2>1
    <2>3. n \in 0 .. 3
      BY <1>3, <2>1
    <2>4. QED  BY <1>1, <1>2, <1>3, <1>5, <2>2, <2>3, FinallyTyped, Zenon DEF NoFilter
  <1>6. QED  BY <1>1, <1>4, <1>5

-----------------------------------------------------------------------------
(* What an operation does to its part of the routine.                      *)

\* What no operation of a routine does.
Harmless ==
  /\ conf' \in Settings /\ ring' \subseteq 0 .. windows
  /\ conf'.tracer # conf.tracer => ~conf.on
  /\ ~OnGuest(args) => conf'.proc = conf.proc /\ conf'.irqs = conf.irqs

LEMMA SetupEffect ==
  ASSUME BInv, phase = "setup", todo # <<>>, Effect(Head(todo)),
         NEW n \in Nat, Left = n + 1, args' = args
  PROVE  Harmless /\ SetupAt(n)'
  <1>1. /\ conf \in Settings /\ ring \subseteq 0 .. windows /\ windows \in Nat
        /\ args \in Calls /\ CallInv /\ SetupAt(n + 1)
    BY DEF BInv, TypeOK, CallInv, PhaseInv
  <1>2. /\ args.graph \in Filters /\ args.depth \in {0, 2} /\ args.before \in Tracers
        /\ 0 \in {0, 2} /\ "function_graph" \in Tracers
    BY <1>1 DEF Calls, Tracers
  <1>3. NoFilter \in Filters
    BY DEF Filters
  <1>4. CASE OnGuest(args)
    <2>1. n \in 0 .. 6
      BY <1>1, <1>4, SetupHead
    <2>2. CASE n = 6
      <3>1. SwitchNow(FALSE)
        BY <1>1, <1>2, <1>3, <1>4, <2>2, SetupHead, Written, Zenon
      <3>2. Harmless
        BY <1>1, <1>4, <2>2, <3>1 DEF SwitchNow, Harmless, SetupAt
      <3>3. SetupAt(n)'
        BY <1>1, <1>4, <2>2, <3>1 DEF SwitchNow, SetupAt, OnGuest
      <3>4. QED  BY <3>2, <3>3
    <2>3. CASE n = 5
      <3>1. TracerNow("function_graph")
        BY <1>1, <1>2, <1>3, <1>4, <2>3, SetupHead, Written, Zenon
      <3>2. Harmless
        BY <1>1, <1>4, <2>3, <3>1 DEF TracerNow, Harmless, SetupAt
      <3>3. SetupAt(n)'
        BY <1>1, <1>4, <2>3, <3>1 DEF TracerNow, SetupAt, OnGuest
      <3>4. QED  BY <3>2, <3>3
    <2>4. CASE n = 4
      <3>1. ProcNow(TRUE)
        BY <1>1, <1>2, <1>3, <1>4, <2>4, SetupHead, Written, Zenon
      <3>2. Harmless
        BY <1>1, <1>4, <2>4, <3>1 DEF ProcNow, Harmless, SetupAt
      <3>3. SetupAt(n)'
        BY <1>1, <1>4, <2>4, <3>1 DEF ProcNow, SetupAt, OnGuest
      <3>4. QED  BY <3>2, <3>3
    <2>5. CASE n = 3
      <3>1. IrqsNow(FALSE)
        BY <1>1, <1>2, <1>3, <1>4, <2>5, SetupHead, Written, Zenon
      <3>2. Harmless
        BY <1>1, <1>4, <2>5, <3>1 DEF IrqsNow, Harmless, SetupAt
      <3>3. SetupAt(n)'
        BY <1>1, <1>4, <2>5, <3>1 DEF IrqsNow, SetupAt, OnGuest
      <3>4. QED  BY <3>2, <3>3
    <2>6. CASE n = 2
      <3>1. GraphNow(args.graph)
        BY <1>1, <1>2, <1>3, <1>4, <2>6, SetupHead, Written, Zenon
      <3>2. Harmless
        BY <1>1, <1>4, <2>6, <3>1 DEF GraphNow, Harmless, SetupAt
      <3>3. SetupAt(n)'
        BY <1>1, <1>4, <2>6, <3>1 DEF GraphNow, SetupAt, OnGuest
      <3>4. QED  BY <3>2, <3>3
    <2>7. CASE n = 1
      <3>1. DepthNow(args.depth)
        BY <1>1, <1>2, <1>3, <1>4, <2>7, SetupHead, Written, Zenon
      <3>2. Harmless
        BY <1>1, <1>4, <2>7, <3>1 DEF DepthNow, Harmless, SetupAt
      <3>3. SetupAt(n)'
        BY <1>1, <1>4, <2>7, <3>1 DEF DepthNow, SetupAt, OnGuest
      <3>4. QED  BY <3>2, <3>3
    <2>8. CASE n = 0
      <3>1. ring' = {} /\ conf' = conf
        BY <1>1, <1>2, <1>3, <1>4, <2>8, SetupHead, Written, Zenon
      <3>2. Harmless
        BY <1>1, <1>4, <2>8, <3>1 DEF Harmless, SetupAt
      <3>3. SetupAt(n)'
        BY <1>1, <1>4, <2>8, <3>1 DEF SetupAt, OnGuest
      <3>4. QED  BY <3>2, <3>3
    <2>9. QED  BY <2>1, <2>2, <2>3, <2>4, <2>5, <2>6, <2>7, <2>8
  <1>5. CASE ~OnGuest(args)
    <2>1. n \in 0 .. 4
      BY <1>1, <1>5, SetupHead
    <2>2. CASE n = 4
      <3>1. SwitchNow(FALSE)
        BY <1>1, <1>2, <1>3, <1>5, <2>2, SetupHead, Written, Zenon
      <3>2. Harmless
        BY <1>1, <1>5, <2>2, <3>1 DEF SwitchNow, Harmless, SetupAt
      <3>3. SetupAt(n)'
        BY <1>1, <1>5, <2>2, <3>1 DEF SwitchNow, SetupAt, OnGuest
      <3>4. QED  BY <3>2, <3>3
    <2>3. CASE n = 3
      <3>1. TracerNow("function_graph")
        BY <1>1, <1>2, <1>3, <1>5, <2>3, SetupHead, Written, Zenon
      <3>2. Harmless
        BY <1>1, <1>5, <2>3, <3>1 DEF TracerNow, Harmless, SetupAt
      <3>3. SetupAt(n)'
        BY <1>1, <1>5, <2>3, <3>1 DEF TracerNow, SetupAt, OnGuest
      <3>4. QED  BY <3>2, <3>3
    <2>4. CASE n = 2
      <3>1. GraphNow(args.graph)
        BY <1>1, <1>2, <1>3, <1>5, <2>4, SetupHead, Written, Zenon
      <3>2. Harmless
        BY <1>1, <1>5, <2>4, <3>1 DEF GraphNow, Harmless, SetupAt
      <3>3. SetupAt(n)'
        BY <1>1, <1>5, <2>4, <3>1 DEF GraphNow, SetupAt, OnGuest
      <3>4. QED  BY <3>2, <3>3
    <2>5. CASE n = 1
      <3>1. DepthNow(args.depth)
        BY <1>1, <1>2, <1>3, <1>5, <2>5, SetupHead, Written, Zenon
      <3>2. Harmless
        BY <1>1, <1>5, <2>5, <3>1 DEF DepthNow, Harmless, SetupAt
      <3>3. SetupAt(n)'
        BY <1>1, <1>5, <2>5, <3>1 DEF DepthNow, SetupAt, OnGuest
      <3>4. QED  BY <3>2, <3>3
    <2>6. CASE n = 0
      <3>1. ring' = {} /\ conf' = conf
        BY <1>1, <1>2, <1>3, <1>5, <2>6, SetupHead, Written, Zenon
      <3>2. Harmless
        BY <1>1, <1>5, <2>6, <3>1 DEF Harmless, SetupAt
      <3>3. SetupAt(n)'
        BY <1>1, <1>5, <2>6, <3>1 DEF SetupAt, OnGuest
      <3>4. QED  BY <3>2, <3>3
    <2>7. QED  BY <2>1, <2>2, <2>3, <2>4, <2>5, <2>6
  <1>6. QED  BY <1>4, <1>5

LEMMA BodyEffect ==
  ASSUME BInv, phase = "body", todo # <<>>, Effect(Head(todo)),
         NEW n \in Nat, Left = n + 1, args' = args, windows' = windows
  PROVE  Harmless /\ BodyAt(n)' /\ conf'.tracer = conf.tracer
  <1>1. /\ conf \in Settings /\ ring \subseteq 0 .. windows /\ windows \in Nat
        /\ args \in Calls /\ CallInv /\ BodyAt(n + 1)
    BY DEF BInv, TypeOK, CallInv, PhaseInv
  <1>2. n = 2 => Records = {windows}
    BY <1>1 DEF Records, BodyAt
  <1>3. CASE args.owns
    <2>1. n \in 0 .. 2
      BY <1>1, <1>3, BodyHead
    <2>2. CASE n = 2
      <3>1. DoNow
        BY <1>1, <1>3, <2>2, BodyHead, Written, Zenon
      <3>2. ring' = ring \cup {windows} /\ ring \subseteq {}
        BY <1>1, <1>2, <1>3, <2>2, <3>1 DEF DoNow, BodyAt
      <3>3. ring' \subseteq 0 .. windows
        BY <1>1, <3>2
      <3>4. Harmless
        BY <3>1, <3>3 DEF DoNow, Harmless
      <3>5. ring' \subseteq {windows} /\ windows \in ring'
        BY <3>2
      <3>6. conf'.tracer = "function_graph" /\ ~conf'.on
        BY <1>1, <1>3, <3>1 DEF DoNow, BodyAt
      <3>7. BodyAt(n)'
        BY <1>3, <2>2, <3>5, <3>6 DEF BodyAt
      <3>8. QED  BY <3>1, <3>4, <3>7 DEF DoNow
    <2>3. CASE n = 1
      <3>1. SwitchNow(FALSE)
        BY <1>1, <1>2, <1>3, <2>3, BodyHead, Written, Zenon
      <3>2. Harmless
        BY <1>1, <1>2, <1>3, <2>3, <3>1 DEF SwitchNow, Harmless, BodyAt
      <3>3. BodyAt(n)'
        BY <1>1, <1>2, <1>3, <2>3, <3>1 DEF SwitchNow, BodyAt, OnGuest
      <3>4. conf'.tracer = conf.tracer
        BY <3>1 DEF SwitchNow
      <3>5. QED  BY <3>2, <3>3, <3>4
    <2>4. CASE n = 0
      <3>1. ring' = ring /\ conf' = conf
        BY <1>1, <1>2, <1>3, <2>4, BodyHead, Written, Zenon
      <3>2. Harmless
        BY <1>1, <1>2, <1>3, <2>4, <3>1 DEF Harmless, BodyAt
      <3>3. BodyAt(n)'
        BY <1>1, <1>2, <1>3, <2>4, <3>1 DEF BodyAt, OnGuest
      <3>4. conf'.tracer = conf.tracer
        BY <3>1
      <3>5. QED  BY <3>2, <3>3, <3>4
    <2>5. QED  BY <2>1, <2>2, <2>3, <2>4
  <1>4. CASE ~args.owns
    <2>1. n \in 0 .. 3
      BY <1>1, <1>4, BodyHead
    <2>2. CASE n = 3
      <3>1. SwitchNow(TRUE)
        BY <1>1, <1>2, <1>4, <2>2, BodyHead, Written, Zenon
      <3>2. Harmless
        BY <1>1, <1>2, <1>4, <2>2, <3>1 DEF SwitchNow, Harmless, BodyAt
      <3>3. BodyAt(n)'
        BY <1>1, <1>2, <1>4, <2>2, <3>1 DEF SwitchNow, BodyAt, OnGuest
      <3>4. conf'.tracer = conf.tracer
        BY <3>1 DEF SwitchNow
      <3>5. QED  BY <3>2, <3>3, <3>4
    <2>3. CASE n = 2
      <3>1. DoNow
        BY <1>1, <1>4, <2>3, BodyHead, Written, Zenon
      <3>2. ring' = ring \cup {windows} /\ ring \subseteq {0}
        BY <1>1, <1>2, <1>4, <2>3, <3>1 DEF DoNow, BodyAt
      <3>3. ring' \subseteq 0 .. windows
        BY <1>1, <3>2
      <3>4. Harmless
        BY <3>1, <3>3 DEF DoNow, Harmless
      <3>5. ring' \subseteq {0, windows} /\ windows \in ring'
        BY <3>2
      <3>6. conf'.tracer = "function_graph" /\ conf.tracer = conf'.tracer
        BY <1>1, <1>4, <3>1 DEF DoNow, BodyAt
      <3>7. BodyAt(n)'
        BY <1>4, <2>3, <3>5, <3>6 DEF BodyAt
      <3>8. QED  BY <3>1, <3>4, <3>7 DEF DoNow
    <2>4. CASE n = 1
      <3>1. SwitchNow(FALSE)
        BY <1>1, <1>2, <1>4, <2>4, BodyHead, Written, Zenon
      <3>2. Harmless
        BY <1>1, <1>2, <1>4, <2>4, <3>1 DEF SwitchNow, Harmless, BodyAt
      <3>3. BodyAt(n)'
        BY <1>1, <1>2, <1>4, <2>4, <3>1 DEF SwitchNow, BodyAt, OnGuest
      <3>4. conf'.tracer = conf.tracer
        BY <3>1 DEF SwitchNow
      <3>5. QED  BY <3>2, <3>3, <3>4
    <2>5. CASE n = 0
      <3>1. ring' = ring /\ conf' = conf
        BY <1>1, <1>2, <1>4, <2>5, BodyHead, Written, Zenon
      <3>2. Harmless
        BY <1>1, <1>2, <1>4, <2>5, <3>1 DEF Harmless, BodyAt
      <3>3. BodyAt(n)'
        BY <1>1, <1>2, <1>4, <2>5, <3>1 DEF BodyAt, OnGuest
      <3>4. conf'.tracer = conf.tracer
        BY <3>1
      <3>5. QED  BY <3>2, <3>3, <3>4
    <2>6. QED  BY <2>1, <2>2, <2>3, <2>4, <2>5
  <1>5. QED  BY <1>3, <1>4

LEMMA FinallyEffect ==
  ASSUME BInv, phase = "finally", todo # <<>>, Effect(Head(todo)),
         NEW n \in Nat, Left = n + 1, args' = args
  PROVE  /\ Harmless /\ FinallyAt(n)'
         /\ PutBackAt(n + 1) => PutBackAt(n)'
  <1>1. /\ conf \in Settings /\ ring \subseteq 0 .. windows /\ windows \in Nat
        /\ args \in Calls /\ CallInv /\ FinallyAt(n + 1)
    BY DEF BInv, TypeOK, CallInv, PhaseInv
  <1>2. /\ args.graph \in Filters /\ args.depth \in {0, 2} /\ args.before \in Tracers
        /\ 0 \in {0, 2} /\ "function_graph" \in Tracers
    BY <1>1 DEF Calls, Tracers
  <1>3. NoFilter \in Filters
    BY DEF Filters
  <1>4. CASE OnGuest(args)
    <2>1. n \in 0 .. 5
      BY <1>1, <1>4, FinallyHead
    <2>2. CASE n = 5
      <3>1. SwitchNow(FALSE)
        BY <1>1, <1>2, <1>3, <1>4, <2>2, FinallyHead, Written, Zenon
      <3>2. Harmless
        BY <1>1, <1>4, <2>2, <3>1 DEF SwitchNow, Harmless, FinallyAt
      <3>3. FinallyAt(n)'
        BY <1>1, <1>4, <2>2, <3>1 DEF SwitchNow, FinallyAt, OnGuest
      <3>4. PutBackAt(n + 1) => PutBackAt(n)'
        BY <1>1, <1>4, <2>2, <3>1 DEF SwitchNow, PutBackAt, OnGuest
      <3>5. QED  BY <3>2, <3>3, <3>4
    <2>3. CASE n = 4
      <3>1. ProcNow(FALSE)
        BY <1>1, <1>2, <1>3, <1>4, <2>3, FinallyHead, Written, Zenon
      <3>2. Harmless
        BY <1>1, <1>4, <2>3, <3>1 DEF ProcNow, Harmless, FinallyAt
      <3>3. FinallyAt(n)'
        BY <1>1, <1>4, <2>3, <3>1 DEF ProcNow, FinallyAt, OnGuest
      <3>4. PutBackAt(n + 1) => PutBackAt(n)'
        BY <1>1, <1>4, <2>3, <3>1 DEF ProcNow, PutBackAt, OnGuest
      <3>5. QED  BY <3>2, <3>3, <3>4
    <2>4. CASE n = 3
      <3>1. IrqsNow(TRUE)
        BY <1>1, <1>2, <1>3, <1>4, <2>4, FinallyHead, Written, Zenon
      <3>2. Harmless
        BY <1>1, <1>4, <2>4, <3>1 DEF IrqsNow, Harmless, FinallyAt
      <3>3. FinallyAt(n)'
        BY <1>1, <1>4, <2>4, <3>1 DEF IrqsNow, FinallyAt, OnGuest
      <3>4. PutBackAt(n + 1) => PutBackAt(n)'
        BY <1>1, <1>4, <2>4, <3>1 DEF IrqsNow, PutBackAt, OnGuest
      <3>5. QED  BY <3>2, <3>3, <3>4
    <2>5. CASE n = 2
      <3>1. GraphNow(NoFilter)
        BY <1>1, <1>2, <1>3, <1>4, <2>5, FinallyHead, Written, Zenon
      <3>2. Harmless
        BY <1>1, <1>4, <2>5, <3>1 DEF GraphNow, Harmless, FinallyAt
      <3>3. FinallyAt(n)'
        BY <1>1, <1>4, <2>5, <3>1 DEF GraphNow, FinallyAt, OnGuest
      <3>4. PutBackAt(n + 1) => PutBackAt(n)'
        BY <1>1, <1>4, <2>5, <3>1 DEF GraphNow, PutBackAt, OnGuest
      <3>5. QED  BY <3>2, <3>3, <3>4
    <2>6. CASE n = 1
      <3>1. DepthNow(0)
        BY <1>1, <1>2, <1>3, <1>4, <2>6, FinallyHead, Written, Zenon
      <3>2. Harmless
        BY <1>1, <1>4, <2>6, <3>1 DEF DepthNow, Harmless, FinallyAt
      <3>3. FinallyAt(n)'
        BY <1>1, <1>4, <2>6, <3>1 DEF DepthNow, FinallyAt, OnGuest
      <3>4. PutBackAt(n + 1) => PutBackAt(n)'
        BY <1>1, <1>4, <2>6, <3>1 DEF DepthNow, PutBackAt, OnGuest
      <3>5. QED  BY <3>2, <3>3, <3>4
    <2>7. CASE n = 0
      <3>1. TracerNow(args.before)
        BY <1>1, <1>2, <1>3, <1>4, <2>7, FinallyHead, Written, Zenon
      <3>2. Harmless
        BY <1>1, <1>4, <2>7, <3>1 DEF TracerNow, Harmless, FinallyAt
      <3>3. FinallyAt(n)'
        BY <1>1, <1>4, <2>7, <3>1 DEF TracerNow, FinallyAt, OnGuest
      <3>4. PutBackAt(n + 1) => PutBackAt(n)'
        BY <1>1, <1>4, <2>7, <3>1 DEF TracerNow, PutBackAt, OnGuest
      <3>5. QED  BY <3>2, <3>3, <3>4
    <2>8. QED  BY <2>1, <2>2, <2>3, <2>4, <2>5, <2>6, <2>7
  <1>5. CASE ~OnGuest(args)
    <2>1. n \in 0 .. 3
      BY <1>1, <1>5, FinallyHead
    <2>2. CASE n = 3
      <3>1. SwitchNow(FALSE)
        BY <1>1, <1>2, <1>3, <1>5, <2>2, FinallyHead, Written, Zenon
      <3>2. Harmless
        BY <1>1, <1>5, <2>2, <3>1 DEF SwitchNow, Harmless, FinallyAt
      <3>3. FinallyAt(n)'
        BY <1>1, <1>5, <2>2, <3>1 DEF SwitchNow, FinallyAt, OnGuest
      <3>4. PutBackAt(n + 1) => PutBackAt(n)'
        BY <1>1, <1>5, <2>2, <3>1 DEF SwitchNow, PutBackAt, OnGuest
      <3>5. QED  BY <3>2, <3>3, <3>4
    <2>3. CASE n = 2
      <3>1. TracerNow(args.before)
        BY <1>1, <1>2, <1>3, <1>5, <2>3, FinallyHead, Written, Zenon
      <3>2. Harmless
        BY <1>1, <1>5, <2>3, <3>1 DEF TracerNow, Harmless, FinallyAt
      <3>3. FinallyAt(n)'
        BY <1>1, <1>5, <2>3, <3>1 DEF TracerNow, FinallyAt, OnGuest
      <3>4. PutBackAt(n + 1) => PutBackAt(n)'
        BY <1>1, <1>5, <2>3, <3>1 DEF TracerNow, PutBackAt, OnGuest
      <3>5. QED  BY <3>2, <3>3, <3>4
    <2>4. CASE n = 1
      <3>1. GraphNow(NoFilter)
        BY <1>1, <1>2, <1>3, <1>5, <2>4, FinallyHead, Written, Zenon
      <3>2. Harmless
        BY <1>1, <1>5, <2>4, <3>1 DEF GraphNow, Harmless, FinallyAt
      <3>3. FinallyAt(n)'
        BY <1>1, <1>5, <2>4, <3>1 DEF GraphNow, FinallyAt, OnGuest
      <3>4. PutBackAt(n + 1) => PutBackAt(n)'
        BY <1>1, <1>5, <2>4, <3>1 DEF GraphNow, PutBackAt, OnGuest
      <3>5. QED  BY <3>2, <3>3, <3>4
    <2>5. CASE n = 0
      <3>1. DepthNow(0)
        BY <1>1, <1>2, <1>3, <1>5, <2>5, FinallyHead, Written, Zenon
      <3>2. Harmless
        BY <1>1, <1>5, <2>5, <3>1 DEF DepthNow, Harmless, FinallyAt
      <3>3. FinallyAt(n)'
        BY <1>1, <1>5, <2>5, <3>1 DEF DepthNow, FinallyAt, OnGuest
      <3>4. PutBackAt(n + 1) => PutBackAt(n)'
        BY <1>1, <1>5, <2>5, <3>1 DEF DepthNow, PutBackAt, OnGuest
      <3>5. QED  BY <3>2, <3>3, <3>4
    <2>6. QED  BY <2>1, <2>2, <2>3, <2>4, <2>5
  <1>6. QED  BY <1>4, <1>5

-----------------------------------------------------------------------------
(* The steps.                                                              *)

LEMMA PartTyped ==
  ASSUME NEW r \in Calls, NEW p \in Phases \cup {"idle"}
  PROVE  /\ Part(r, p) \in Seq(Operations)
         /\ Part(r, p) = <<>> <=> p = "idle"
         /\ p = "body" => Len(Part(r, p)) = IF r.owns THEN 3 ELSE 4
         /\ p = "finally" => Len(Part(r, p)) = IF OnGuest(r) THEN 6 ELSE 4
  <1>1. CASE p = "setup"
    <2>1. Part(r, p) = Setup(r)
      BY <1>1 DEF Part
    <2>2. Setup(r) \in Seq(Operations) /\ Len(Setup(r)) \in {5, 7}
      BY SetupTyped
    <2>3. Part(r, p) \in Seq(Operations) /\ Part(r, p) # <<>>
      <3>1. Len(Part(r, p)) >= 1
        BY <2>1, <2>2
      <3>2. \A s : Len(s) >= 1 => s # <<>>
        OBVIOUS
      <3>3. QED  BY <2>1, <2>2, <3>1, <3>2, Zenon
    <2>4. p # "idle" /\ p # "body" /\ p # "finally"
      BY <1>1
    <2>5. QED  BY <2>3, <2>4, Zenon
  <1>2. CASE p = "body"
    <2>1. Part(r, p) = Body(r)
      BY <1>2 DEF Part
    <2>2. Body(r) \in Seq(Operations) /\ Len(Body(r)) = IF r.owns THEN 3 ELSE 4
      BY BodyTyped
    <2>3. Part(r, p) \in Seq(Operations) /\ Part(r, p) # <<>>
      <3>1. Len(Part(r, p)) >= 1
        BY <2>1, <2>2
      <3>2. \A s : Len(s) >= 1 => s # <<>>
        OBVIOUS
      <3>3. QED  BY <2>1, <2>2, <3>1, <3>2, Zenon
    <2>4. p # "idle" /\ p # "finally"
      BY <1>2
    <2>5. QED  BY <1>2, <2>1, <2>2, <2>3, <2>4, Zenon
  <1>3. CASE p = "finally"
    <2>1. Part(r, p) = Finally(r)
      BY <1>3 DEF Part
    <2>2. Finally(r) \in Seq(Operations) /\ Len(Finally(r)) = IF OnGuest(r) THEN 6 ELSE 4
      BY FinallyTyped
    <2>3. Part(r, p) \in Seq(Operations) /\ Part(r, p) # <<>>
      <3>1. Len(Part(r, p)) >= 1
        BY <2>1, <2>2
      <3>2. \A s : Len(s) >= 1 => s # <<>>
        OBVIOUS
      <3>3. QED  BY <2>1, <2>2, <3>1, <3>2, Zenon
    <2>4. p # "idle" /\ p # "body"
      BY <1>3
    <2>5. QED  BY <1>3, <2>1, <2>2, <2>3, <2>4, Zenon
  <1>4. CASE p = "idle"
    BY <1>4 DEF Part
  <1>5. QED  BY <1>1, <1>2, <1>3, <1>4 DEF Phases

\* A part begins with all of it left to do.
LEMMA Entered ==
  ASSUME NEW r \in Calls, NEW p \in Phases \cup {"idle"},
         phase' = p, todo' = Part(r, p), args' = r, r.backend = backend', windows' > 0,
         p \in {"setup", "body"} => text' = None
  PROVE  /\ CallInv'
         /\ \A i \in DOMAIN todo' : todo'[i] \in Operations
         /\ todo' = <<>> <=> phase' = "idle"
         /\ p = "body" => Left' = IF r.owns THEN 3 ELSE 4
         /\ p = "finally" => Left' = IF OnGuest(r) THEN 6 ELSE 4
  <1>1. /\ todo' \in Seq(Operations)
        /\ todo' = <<>> <=> phase' = "idle"
        /\ p = "body" => Len(todo') = IF r.owns THEN 3 ELSE 4
        /\ p = "finally" => Len(todo') = IF OnGuest(r) THEN 6 ELSE 4
    BY PartTyped, Zenon
  <1>2. EndOf(todo', todo')
    BY <1>1 DEF EndOf
  <1>3. EndOf(todo', Part(args', phase'))
    BY <1>2
  <1>4. CallInv'
    BY <1>1, <1>3 DEF CallInv
  <1>5. \A i \in DOMAIN todo' : todo'[i] \in Operations
    BY <1>1
  <1>6. QED  BY <1>1, <1>4, <1>5, Zenon DEF Left

LEMMA OneLess ==
  ASSUME CallInv, phase # "idle", NEW n \in Nat, Left = n + 1, n > 0, todo' = Tail(todo),
         phase \in Phases, UNCHANGED <<phase, args, backend, windows, text>>
  PROVE  /\ CallInv' /\ Left' = n
         /\ \A i \in DOMAIN todo' : todo'[i] \in Operations
         /\ todo' # <<>>
  <1>1. PICK part : part = Part(args, phase)
    OBVIOUS
  <1>2. PICK k \in Nat : k = Len(part)
    <2>1. args \in Calls
      BY DEF CallInv
    <2>2. part \in Seq(Operations)
      BY <1>1, <2>1, PartTyped
    <2>3. QED  BY <2>2
  <1>3. todo \in Seq(Operations) /\ Len(todo) = n + 1 /\ n + 1 <= k
    BY <1>1, <1>2 DEF CallInv, EndOf, Left
  <1>4. /\ todo' \in Seq(Operations) /\ Len(todo') = n
        /\ \A i \in 1 .. n : todo'[i] = todo[i + 1]
    BY <1>3, HeadTailProperties
  <1>5. \A i \in 1 .. n : todo[i + 1] = part[k - (n + 1) + (i + 1)]
    BY <1>1, <1>2, <1>3 DEF CallInv, EndOf, Left
  <1>6. \A i \in 1 .. n : todo'[i] = part[k - n + i]
    BY <1>2, <1>4, <1>5
  <1>7. EndOf(todo', Part(args', phase'))
    <2>1. part = Part(args', phase')
      BY <1>1
    <2>2. EndOf(todo', part)
      BY <1>2, <1>3, <1>4, <1>6 DEF EndOf
    <2>3. QED  BY <2>1, <2>2
  <1>8. CallInv'
    BY <1>4, <1>7 DEF CallInv
  <1>9. todo' # <<>> /\ \A i \in DOMAIN todo' : todo'[i] \in Operations
    <2>1. \A s : Len(s) >= 1 => s # <<>>
      OBVIOUS
    <2>2. Len(todo') >= 1
      BY <1>4
    <2>3. \A i \in DOMAIN todo' : todo'[i] \in Operations
      BY <1>4, ElementOfSeq
    <2>4. QED  BY <2>1, <2>2, <2>3, Zenon
  <1>10. QED  BY <1>4, <1>8, <1>9, Zenon DEF Left

\* The trace file is read at the end of the body.
LEMMA ReadsLast ==
  ASSUME BInv, todo # <<>>, Head(todo).op = "read"
  PROVE  phase = "body" /\ Left = 1
  <1>1. /\ CallInv /\ phase \in Phases /\ todo \in Seq(Operations)
    BY DEF BInv, TypeOK, CallInv
  <1>2. PICK n \in Nat : Left = n + 1
    BY <1>1 DEF Left
  <1>3. \A f, v : Head(todo) # Put(f, v)
    BY DEF Put, Op
  <1>4. Head(todo) # Clear /\ Head(todo) # Do
    <2>1. \A v : Op("clear", "trace", v).op # "read" /\ Op("do", v, v).op # "read"
      BY DEF Op
    <2>2. QED  BY <2>1, Zenon DEF Clear, Do
  <1>5. ASSUME phase = "setup"
        PROVE  FALSE
    <2>1. CASE OnGuest(args)
      <3>1. n \in 0 .. 6
        BY <1>1, <1>2, <1>5, <2>1, SetupHead
      <3>2. n = 0 \/ n = 1 \/ n = 2 \/ n = 3 \/ n = 4 \/ n = 5 \/ n = 6
        BY <3>1
      <3>3. QED  BY <1>1, <1>2, <1>3, <1>4, <1>5, <2>1, <3>2, SetupHead, Zenon
    <2>2. CASE ~OnGuest(args)
      <3>1. n \in 0 .. 4
        BY <1>1, <1>2, <1>5, <2>2, SetupHead
      <3>2. n = 0 \/ n = 1 \/ n = 2 \/ n = 3 \/ n = 4
        BY <3>1
      <3>3. QED  BY <1>1, <1>2, <1>3, <1>4, <1>5, <2>2, <3>2, SetupHead, Zenon
    <2>3. QED  BY <2>1, <2>2
  <1>6. ASSUME phase = "finally"
        PROVE  FALSE
    <2>1. CASE OnGuest(args)
      <3>1. n \in 0 .. 5
        BY <1>1, <1>2, <1>6, <2>1, FinallyHead
      <3>2. n = 0 \/ n = 1 \/ n = 2 \/ n = 3 \/ n = 4 \/ n = 5
        BY <3>1
      <3>3. QED  BY <1>1, <1>2, <1>3, <1>6, <2>1, <3>2, FinallyHead, Zenon
    <2>2. CASE ~OnGuest(args)
      <3>1. n \in 0 .. 3
        BY <1>1, <1>2, <1>6, <2>2, FinallyHead
      <3>2. n = 0 \/ n = 1 \/ n = 2 \/ n = 3
        BY <3>1
      <3>3. QED  BY <1>1, <1>2, <1>3, <1>6, <2>2, <3>2, FinallyHead, Zenon
    <2>3. QED  BY <2>1, <2>2
  <1>7. ASSUME phase = "body"
        PROVE  n = 0
    <2>1. CASE args.owns
      <3>1. n \in 0 .. 2
        BY <1>1, <1>2, <1>7, <2>1, BodyHead
      <3>2. n = 0 \/ n = 1 \/ n = 2
        BY <3>1
      <3>3. QED  BY <1>1, <1>2, <1>3, <1>4, <1>7, <2>1, <3>2, BodyHead, Zenon
    <2>2. CASE ~args.owns
      <3>1. n \in 0 .. 3
        BY <1>1, <1>2, <1>7, <2>2, BodyHead
      <3>2. n = 0 \/ n = 1 \/ n = 2 \/ n = 3
        BY <3>1
      <3>3. QED  BY <1>1, <1>2, <1>3, <1>4, <1>7, <2>2, <3>2, BodyHead, Zenon
    <2>3. QED  BY <2>1, <2>2
  <1>8. QED  BY <1>1, <1>2, <1>5, <1>6, <1>7 DEF Phases

\* No option is written but while function_graph is selected.
LEMMA OptionsTaken ==
  ASSUME BInv
  PROVE  NoOptionRefused
  <1> SUFFICES ASSUME todo # <<>>, ~Accepts(Head(todo))
               PROVE  FALSE
    BY DEF NoOptionRefused
  <1>1. /\ CallInv /\ phase \in Phases /\ todo \in Seq(Operations)
        /\ phase = "setup" => SetupAt(Left)
        /\ phase = "body" => BodyAt(Left)
        /\ phase = "finally" => FinallyAt(Left)
    BY DEF BInv, TypeOK, CallInv, PhaseInv
  <1>2. PICK n \in Nat : Left = n + 1
    BY <1>1 DEF Left
  <1>3. /\ \A v : Head(todo) # Put("on", v) /\ Head(todo) # Put("tracer", v)
        /\ \A v : Head(todo) # Put("graph", v) /\ Head(todo) # Put("depth", v)
    BY DEF Accepts, Put, Op, Options
  <1>4. Head(todo) # Clear
    <2>1. \A op, v : Op(op, "trace", v).file \notin Options
      BY DEF Op, Options
    <2>2. Head(todo).file \in Options
      BY DEF Accepts
    <2>3. QED  BY <2>1, <2>2, Zenon DEF Clear
  <1>5. conf.tracer # "function_graph"
    BY DEF Accepts
  <1>6. ASSUME phase = "setup"
        PROVE  FALSE
    <2>1. CASE OnGuest(args)
      <3>1. n \in 0 .. 6
        BY <1>1, <1>2, <1>6, <2>1, SetupHead
      <3>2. n = 0 \/ n = 1 \/ n = 2 \/ n = 5 \/ n = 6
        BY <1>1, <1>2, <1>5, <1>6, <2>1, <3>1 DEF SetupAt
      <3>3. QED  BY <1>1, <1>2, <1>3, <1>4, <1>6, <2>1, <3>2, SetupHead, Zenon
    <2>2. CASE ~OnGuest(args)
      <3>1. n \in 0 .. 4
        BY <1>1, <1>2, <1>6, <2>2, SetupHead
      <3>2. n = 0 \/ n = 1 \/ n = 2 \/ n = 3 \/ n = 4
        BY <3>1
      <3>3. QED  BY <1>1, <1>2, <1>3, <1>4, <1>6, <2>2, <3>2, SetupHead, Zenon
    <2>3. QED  BY <2>1, <2>2
  <1>7. ASSUME phase = "finally"
        PROVE  FALSE
    <2>1. ~OnGuest(args)
      BY <1>1, <1>2, <1>5, <1>7 DEF FinallyAt
    <2>2. n \in 0 .. 3
      BY <1>1, <1>2, <1>7, <2>1, FinallyHead
    <2>3. n = 0 \/ n = 1 \/ n = 2 \/ n = 3
      BY <2>2
    <2>4. QED  BY <1>1, <1>2, <1>3, <1>7, <2>1, <2>3, FinallyHead, Zenon
  <1>8. phase # "body"
    BY <1>1, <1>5 DEF BodyAt
  <1>9. QED  BY <1>1, <1>6, <1>7, <1>8 DEF Phases

LEMMA HeadHarmless ==
  ASSUME BInv, todo # <<>>, Effect(Head(todo)), UNCHANGED <<args, windows>>
  PROVE  /\ Harmless
         /\ phase = "body" => conf'.tracer = conf.tracer
  <1> todo \in Seq(Operations)
    BY DEF BInv, CallInv
  <1>1. PICK n \in Nat : Left = n + 1
    BY DEF Left
  <1>2. phase \in Phases
    BY DEF BInv, TypeOK
  <1>3. QED  BY <1>1, <1>2, SetupEffect, BodyEffect, FinallyEffect DEF Phases

LEMMA BeginStep ==
  ASSUME BInv, NEW owns \in BOOLEAN, NEW graph \in Filters, NEW depth \in {0, 2},
         Begin(owns, graph, depth)
  PROVE  BInv' /\ conf' = conf
  <1>1. /\ backend \in Backends /\ conf \in Settings /\ windows \in 0 .. MaxWindows
        /\ windows < MaxWindows /\ ring \subseteq 0 .. windows /\ origin \in Settings
        /\ conf.tracer \in Tracers /\ windows' = windows + 1
        /\ phase' = "setup" /\ text' = None
        /\ UNCHANGED <<backend, conf, ring, origin>>
    BY DEF BInv, TypeOK, Begin, kernelVars, Settings, Tracers
  <1>2. PICK r \in Calls :
          /\ r = [backend |-> backend, owns |-> owns, graph |-> graph,
                  depth |-> depth, before |-> conf.tracer]
          /\ r.backend = backend
    <2> DEFINE q == [backend |-> backend, owns |-> owns, graph |-> graph,
                     depth |-> depth, before |-> conf.tracer]
    <2>1. q \in Calls /\ q.backend = backend
      BY <1>1 DEF Calls
    <2>2. QED  BY <2>1
  <1>3. args' = r /\ todo' = Setup(r)
    BY <1>2 DEF Begin
  <1>4. todo' = Part(r, "setup")
    BY <1>3 DEF Part
  <1>5. windows' > 0 /\ windows' \in 0 .. MaxWindows /\ ring' \subseteq 0 .. windows'
    <2>1. windows \in Nat /\ windows + 1 > 0 /\ windows + 1 \in 0 .. MaxWindows
      BY <1>1, TracingAssumption
    <2>2. 0 .. windows \subseteq 0 .. (windows + 1)
      BY <2>1
    <2>3. QED  BY <1>1, <2>1, <2>2, Zenon
  <1>6. /\ CallInv' /\ \A i \in DOMAIN todo' : todo'[i] \in Operations
        /\ todo' = <<>> <=> phase' = "idle"
    BY <1>1, <1>2, <1>3, <1>4, <1>5, Entered DEF Phases
  <1>7. TypeOK'
    BY <1>1, <1>5, <1>6 DEF TypeOK, Phases
  <1>8. Left' = Len(Setup(r))
    BY <1>3 DEF Left
  <1>9. SetupAt(Left)'
    <2>1. PICK n \in Nat : n = Left' /\ (OnGuest(r) => n = 7) /\ (~OnGuest(r) => n = 5)
      <3>1. Setup(r) \in Seq(Operations)
        BY SetupTyped
      <3>2. Len(Setup(r)) \in Nat
        BY <3>1
      <3>3. QED  BY <1>8, <3>2, SetupTyped, Zenon
    <2>2. args' = r
      BY <1>3
    <2>3. CASE OnGuest(r)
      <3>1. Left' = 7
        BY <2>1, <2>3
      <3>2. args'.backend = "v86"
        BY <2>2, <2>3 DEF OnGuest
      <3>3. QED  BY <3>1, <3>2 DEF SetupAt, OnGuest
    <2>4. CASE ~OnGuest(r)
      <3>1. Left' = 5
        BY <2>1, <2>4
      <3>2. args'.backend # "v86"
        BY <2>2, <2>4 DEF OnGuest
      <3>3. QED  BY <3>1, <3>2 DEF SetupAt, OnGuest
    <2>5. QED  BY <2>3, <2>4
  <1>10. PhaseInv'
    BY <1>1, <1>9 DEF PhaseInv
  <1>11. OnlyItsWindow'
    BY <1>1 DEF OnlyItsWindow
  <1>12. QED  BY <1>1, <1>6, <1>7, <1>10, <1>11 DEF BInv

LEMMA StepStep ==
  ASSUME BInv, Step
  PROVE  /\ BInv' /\ Harmless
  <1>1. /\ todo # <<>> /\ Effect(Head(todo)) /\ phase \in Phases /\ CallInv
        /\ UNCHANGED <<backend, args, windows, origin>>
        /\ text' = IF Head(todo).op = "read" THEN ring ELSE text
        /\ args \in Calls /\ args.backend = backend /\ windows \in Nat /\ windows > 0
        /\ windows \in 0 .. MaxWindows
        /\ backend \in Backends /\ origin \in Settings
    BY DEF BInv, TypeOK, CallInv, Step, Phases
  <1>2. Harmless
    BY <1>1, HeadHarmless
  <1>3. PICK n \in Nat : Left = n + 1
    <2>1. todo \in Seq(Operations)
      BY <1>1 DEF CallInv
    <2>2. QED  BY <1>1, <2>1 DEF Left
  <1>4. /\ phase = "setup" => SetupAt(n)'
        /\ phase = "body" => BodyAt(n)'
        /\ phase = "finally" => FinallyAt(n)'
    BY <1>1, <1>3, SetupEffect, BodyEffect, FinallyEffect, Zenon
  <1>5. ASSUME Head(todo).op # "read"
        PROVE  text' = text /\ OnlyItsWindow'
    BY <1>1, <1>5 DEF OnlyItsWindow, BInv
  <1>6. CASE n > 0
    <2>1. todo' = Tail(todo) /\ phase' = phase
      BY <1>3, <1>6 DEF Step, Left
    <2>2. text' = text /\ OnlyItsWindow'
      BY <1>1, <1>3, <1>5, <1>6, ReadsLast
    <2>3. /\ CallInv' /\ Left' = n
          /\ \A i \in DOMAIN todo' : todo'[i] \in Operations
          /\ todo' # <<>>
      BY <1>1, <1>3, <1>6, <2>1, <2>2, OneLess DEF Phases
    <2>4. PhaseInv'
      BY <1>4, <2>1, <2>3 DEF PhaseInv
    <2>5. TypeOK'
      BY <1>1, <1>2, <2>1, <2>2, <2>3 DEF TypeOK, BInv, Harmless, Phases
    <2>6. QED  BY <1>2, <2>2, <2>3, <2>4, <2>5 DEF BInv
  <1>7. CASE n = 0
    <2>1. PICK p \in {"body", "finally", "idle"} : p = After(phase)
      BY <1>1 DEF After, Phases
    <2>2. phase' = p /\ todo' = Part(args, p)
      BY <1>3, <1>7, <2>1 DEF Step, Left, Enter
    <2>3. phase = "setup" => text' = None /\ p = "body"
      BY <1>1, <2>1, <1>3, ReadsLast DEF CallInv, After
    <2>4. p = "body" => phase = "setup" /\ text' = None
      BY <1>1, <2>1, <2>3 DEF After, Phases
    <2>5. /\ CallInv' /\ \A i \in DOMAIN todo' : todo'[i] \in Operations
          /\ todo' = <<>> <=> phase' = "idle"
          /\ p = "body" => Left' = IF args.owns THEN 3 ELSE 4
          /\ p = "finally" => Left' = IF OnGuest(args) THEN 6 ELSE 4
      BY <1>1, <2>2, <2>4, Entered DEF Phases
    <2>6. p = "body" => BodyAt(Left)'
      <3>1. SUFFICES ASSUME p = "body"
                     PROVE  BodyAt(Left)'
        OBVIOUS
      <3>2. PICK m : m = Left' /\ m = IF args.owns THEN 3 ELSE 4
        BY <2>5, <3>1
      <3>3. conf'.tracer = "function_graph" /\ ~conf'.on /\ ring' = {}
        BY <1>1, <1>4, <1>7, <2>4, <3>1 DEF SetupAt
      <3>4. QED  BY <1>1, <3>2, <3>3 DEF BodyAt
    <2>7. p = "finally" => FinallyAt(Left)'
      <3>1. SUFFICES ASSUME p = "finally"
                     PROVE  FinallyAt(Left)'
        OBVIOUS
      <3>2. PICK m : m = Left' /\ m = IF OnGuest(args) THEN 6 ELSE 4
        BY <2>5, <3>1
      <3>3. phase = "body"
        BY <1>1, <2>1, <3>1 DEF After, Phases
      <3>4. conf'.tracer = "function_graph"
        BY <1>4, <3>3 DEF BodyAt
      <3>5. QED  BY <1>1, <3>2, <3>4 DEF FinallyAt, OnGuest
    <2>8. PhaseInv'
      BY <2>2, <2>6, <2>7 DEF PhaseInv
    <2>9. OnlyItsWindow' /\ (text' # None => text' \subseteq 0 .. windows)
      <3>1. CASE Head(todo).op = "read"
        <4>1. phase = "body" /\ text' = ring
          BY <1>1, <3>1, ReadsLast
        <4>2. BodyAt(1) /\ ring \subseteq 0 .. windows
          BY <1>3, <1>7, <4>1 DEF BInv, PhaseInv, TypeOK
        <4>3. windows \in ring /\ ring \subseteq IF args.owns THEN {windows} ELSE {0, windows}
          BY <4>2 DEF BodyAt
        <4>4. QED  BY <1>1, <4>1, <4>2, <4>3 DEF OnlyItsWindow
      <3>2. CASE Head(todo).op # "read"
        BY <1>5, <3>2 DEF BInv, TypeOK
      <3>3. QED  BY <3>1, <3>2
    <2>10. TypeOK'
      BY <1>1, <1>2, <2>1, <2>2, <2>5, <2>9 DEF TypeOK, Harmless, Phases
    <2>11. QED  BY <1>2, <2>5, <2>8, <2>9, <2>10 DEF BInv
  <1>8. QED  BY <1>3, <1>6, <1>7

LEMMA RaiseStep ==
  ASSUME BInv, Raise
  PROVE  BInv' /\ Harmless
  <1>1. /\ todo # <<>> /\ phase \in Phases /\ CallInv /\ PhaseInv
        /\ UNCHANGED <<backend, args, windows, text, origin>>
        /\ args \in Calls /\ args.backend = backend /\ windows \in Nat /\ windows > 0
        /\ windows \in 0 .. MaxWindows
        /\ backend \in Backends /\ origin \in Settings /\ conf \in Settings
        /\ ring \subseteq 0 .. windows
    BY DEF BInv, TypeOK, CallInv, Raise, Phases
  <1>2. Harmless /\ (phase = "body" => conf'.tracer = conf.tracer)
    <2>1. CASE UNCHANGED kernelVars
      BY <1>1, <2>1 DEF Harmless, kernelVars
    <2>2. CASE Effect(Head(todo))
      BY <1>1, <2>2, HeadHarmless
    <2>3. QED  BY <2>1, <2>2 DEF Raise
  <1>3. PICK p \in {"finally", "idle"} : p = AfterFault(args, phase)
    BY DEF AfterFault
  <1>4. phase' = p /\ todo' = Part(args, p)
    BY <1>3 DEF Raise, Enter
  <1>5. /\ CallInv' /\ \A i \in DOMAIN todo' : todo'[i] \in Operations
        /\ todo' = <<>> <=> phase' = "idle"
        /\ p = "finally" => Left' = IF OnGuest(args) THEN 6 ELSE 4
    BY <1>1, <1>3, <1>4, Entered DEF Phases
  <1>6. p = "finally" => FinallyAt(Left)'
    <2>1. SUFFICES ASSUME p = "finally"
                   PROVE  FinallyAt(Left)'
      OBVIOUS
    <2>2. PICK m : m = Left' /\ m = IF OnGuest(args) THEN 6 ELSE 4
      BY <1>5, <2>1
    <2>3. OnGuest(args) => conf'.tracer = "function_graph"
      <3>1. SUFFICES ASSUME OnGuest(args)
                     PROVE  conf'.tracer = "function_graph"
        OBVIOUS
      <3>2. phase = "body"
        BY <1>3, <2>1, <3>1 DEF AfterFault
      <3>3. QED  BY <1>1, <1>2, <3>2 DEF PhaseInv, BodyAt
    <2>4. QED  BY <1>1, <2>2, <2>3 DEF FinallyAt, OnGuest
  <1>7. PhaseInv'
    BY <1>3, <1>4, <1>6 DEF PhaseInv
  <1>8. OnlyItsWindow'
    BY <1>1 DEF OnlyItsWindow, BInv
  <1>9. TypeOK'
    BY <1>1, <1>2, <1>3, <1>4, <1>5 DEF TypeOK, BInv, Harmless, Phases
  <1>10. QED  BY <1>2, <1>5, <1>7, <1>8, <1>9 DEF BInv

LEMMA BackgroundStep ==
  ASSUME BInv, Background
  PROVE  BInv' /\ conf' = conf
  <1>1. /\ conf.on /\ ring' = ring \cup {0}
        /\ UNCHANGED <<backend, conf, phase, todo, args, windows, text, origin>>
        /\ windows \in Nat
    BY DEF BInv, TypeOK, Background, callVars
  <1>2. ring' \subseteq 0 .. windows
    BY <1>1 DEF BInv, TypeOK
  <1>3. TypeOK'
    BY <1>1, <1>2 DEF BInv, TypeOK
  <1>4. CallInv' /\ OnlyItsWindow'
    BY <1>1 DEF BInv, CallInv, OnlyItsWindow, EndOf
  <1>5. todo \in Seq(Operations) /\ PhaseInv
    BY DEF BInv, CallInv
  <1>6. PICK n \in Nat : n = Left /\ n = Left'
    BY <1>1, <1>5 DEF Left
  <1>7. ASSUME phase = "setup"
        PROVE  SetupAt(n)'
    <2>1. n # 0
      <3>1. todo # <<>>
        BY <1>7 DEF BInv, TypeOK
      <3>2. Len(todo) # 0
        BY <1>5, <3>1
      <3>3. QED  BY <1>6, <3>2 DEF Left
    <2>2. SetupAt(n)
      BY <1>5, <1>6, <1>7 DEF PhaseInv
    <2>3. QED  BY <1>1, <2>1, <2>2 DEF SetupAt, OnGuest
  <1>8. ASSUME phase = "body"
        PROVE  BodyAt(n)'
    <2>1. BodyAt(n)
      BY <1>5, <1>6, <1>8 DEF PhaseInv
    <2>2. ~args.owns
      BY <1>1, <2>1 DEF BodyAt
    <2>3. QED  BY <1>1, <2>1, <2>2 DEF BodyAt
  <1>9. ASSUME phase = "finally"
        PROVE  FinallyAt(n)'
    <2>1. FinallyAt(n)
      BY <1>5, <1>6, <1>9 DEF PhaseInv
    <2>2. QED  BY <1>1, <2>1 DEF FinallyAt, OnGuest
  <1>10. PhaseInv'
    BY <1>1, <1>6, <1>7, <1>8, <1>9 DEF PhaseInv
  <1>11. QED  BY <1>1, <1>3, <1>4, <1>10 DEF BInv

LEMMA BInit ==
  ASSUME Init
  PROVE  BInv
  <1>1. Booted \in Settings
    BY DEF Booted, Settings
  <1>2. conf \in Settings
    BY <1>1 DEF Init
  <1>3. TypeOK
    BY <1>2, TracingAssumption DEF Init, TypeOK
  <1>4. CallInv /\ PhaseInv /\ OnlyItsWindow
    BY DEF Init, CallInv, PhaseInv, OnlyItsWindow
  <1>5. QED  BY <1>3, <1>4 DEF BInv

LEMMA BNext ==
  ASSUME BInv, [Next]_vars
  PROVE  BInv' /\ (conf'.tracer # conf.tracer => ~conf.on)
  <1>1. ASSUME NEW owns \in BOOLEAN, NEW graph \in {"", "vfs_write"}, NEW depth \in {0, 2},
               Begin(owns, graph, depth)
        PROVE  BInv' /\ (conf'.tracer # conf.tracer => ~conf.on)
    <2>1. graph \in Filters
      BY <1>1, Zenon DEF Filters, NoFilter
    <2>2. QED  BY <1>1, <2>1, BeginStep, Zenon
  <1>2. CASE Step
    BY <1>2, StepStep DEF Harmless
  <1>3. CASE Raise
    BY <1>3, RaiseStep DEF Harmless
  <1>4. CASE Background
    BY <1>4, BackgroundStep
  <1>5. CASE UNCHANGED vars
    BY <1>5 DEF BInv, TypeOK, CallInv, EndOf, PhaseInv, SetupAt, BodyAt, FinallyAt, OnGuest,
                OnlyItsWindow, Left, vars, kernelVars, callVars
  <1>6. QED  BY <1>1, <1>2, <1>3, <1>4, <1>5, Zenon DEF Next

\* The invariant, with the type invariant in it.
THEOREM TracingInv == Spec => []BInv
  <1>1. Init => BInv
    BY BInit
  <1>2. BInv /\ [Next]_vars => BInv'
    BY BNext
  <1>3. QED  BY <1>1, <1>2, PTL DEF Spec

\* Wherever an operation fails, no write of either routine is one the kernel
\* refuses (NoOptionRefused, bridge.py:228-230).
THEOREM NoWriteRefused == Spec => []NoOptionRefused
  <1>1. BInv => NoOptionRefused
    BY OptionsTaken
  <1>2. QED  BY <1>1, TracingInv, PTL

\* Wherever an operation fails, a trace that is handed over holds its own window
\* and no earlier one (OnlyItsWindow, bridge.py:203-214, tracefs.py:91-99).
THEOREM NothingOfAnEarlierTrace == Spec => []OnlyItsWindow
  <1>1. BInv => OnlyItsWindow
    BY DEF BInv
  <1>2. QED  BY <1>1, TracingInv, PTL

\* Wherever an operation fails, the tracer is changed only while tracing is off
\* (TracerChangesOnlyWhenOff, bridge.py:203-205).
THEOREM TracerChangedOnlyWhenOff == Spec => TracerChangesOnlyWhenOff
  <1>1. BInv /\ [Next]_vars => [conf'.tracer # conf.tracer => ~conf.on]_vars
    BY BNext
  <1>2. QED  BY <1>1, TracingInv, PTL DEF Spec, TracerChangesOnlyWhenOff

-----------------------------------------------------------------------------
LEMMA RestoreInit ==
  ASSUME Init
  PROVE  RInv
  <1>1. ~conf.proc /\ conf.irqs
    <2>1. Booted = [on |-> TRUE, tracer |-> "nop", proc |-> FALSE, irqs |-> TRUE,
                    graph |-> NoFilter, depth |-> 0]
      BY Zenon DEF Booted, NoFilter
    <2>2. ~Booted.proc /\ Booted.irqs
      BY <2>1
    <2>3. QED  BY <2>2 DEF Init
  <1>2. BInv
    BY BInit
  <1>3. QED  BY <1>1, <1>2 DEF Init, RInv, RestoreInv, TracerPutBack, NothingLeftOn

LEMMA RestoreStep ==
  ASSUME RInv, Step
  PROVE  RInv'
  <1>1. /\ BInv /\ BInv' /\ Harmless
        /\ todo # <<>> /\ Effect(Head(todo)) /\ phase \in Phases
        /\ UNCHANGED <<backend, args, windows, origin>>
        /\ args.backend = backend /\ args.before = origin.tracer
        /\ ~origin.proc /\ origin.irqs
        /\ backend # "v86" => ~conf.proc /\ conf.irqs
        /\ todo \in Seq(Operations)
    BY StepStep DEF RInv, RestoreInv, BInv, TypeOK, CallInv, Step, Phases
  <1>2. backend # "v86" => ~conf'.proc /\ conf'.irqs
    BY <1>1 DEF Harmless, OnGuest
  <1>3. PICK n \in Nat : Left = n + 1
    <2>1. todo \in Seq(Operations) /\ todo # <<>>
      BY <1>1
    <2>2. QED  BY <2>1 DEF Left
  <1>4. phase = "finally" => FinallyAt(n)' /\ PutBackAt(n)'
    <2>1. phase = "finally" => PutBackAt(n + 1)
      BY <1>3 DEF RInv, RestoreInv
    <2>2. QED  BY <1>1, <1>3, <2>1, FinallyEffect, Zenon
  <1>5. CASE n > 0
    <2>1. todo' = Tail(todo) /\ phase' = phase
      BY <1>3, <1>5 DEF Step, Left
    <2>2. Left' = n
      BY <1>1, <1>3, <1>5, <2>1, HeadTailProperties DEF Left
    <2>3. RestoreInv'
      BY <1>1, <1>2, <1>4, <2>1, <2>2 DEF RestoreInv
    <2>4. phase' # "idle"
      BY <1>1, <2>1 DEF Phases
    <2>5. QED  BY <1>1, <2>3, <2>4 DEF RInv, TracerPutBack, NothingLeftOn
  <1>6. CASE n = 0
    <2>1. phase' = After(phase) /\ todo' = Part(args, phase')
      BY <1>3, <1>6 DEF Step, Left, Enter
    <2>2. CASE phase = "setup"
      <3>1. phase' = "body"
        BY <2>1, <2>2 DEF After
      <3>2. QED  BY <1>1, <1>2, <3>1 DEF RInv, RestoreInv, TracerPutBack, NothingLeftOn
    <2>3. CASE phase = "body"
      <3>1. phase' = "finally"
        BY <2>1, <2>3 DEF After
      <3>2. PICK m : m = Left' /\ m = IF OnGuest(args) THEN 6 ELSE 4
        <4>1. args \in Calls
          BY <1>1 DEF BInv, CallInv, Phases
        <4>2. Left' = Len(Part(args, "finally"))
          BY <2>1, <3>1 DEF Left
        <4>3. QED  BY <4>1, <4>2, PartTyped DEF Phases
      <3>3. PutBackAt(m)'
        BY <1>1, <3>2 DEF PutBackAt, OnGuest
      <3>4. QED  BY <1>1, <1>2, <3>1, <3>2, <3>3 DEF RInv, RestoreInv, TracerPutBack, NothingLeftOn
    <2>4. CASE phase = "finally"
      <3>1. phase' = "idle"
        BY <2>1, <2>4 DEF After
      <3>2. FinallyAt(0)' /\ PutBackAt(0)'
        BY <1>4, <1>6, <2>4
      <3>3. /\ ~conf'.on /\ conf'.tracer = args.before
            /\ conf'.graph = NoFilter /\ conf'.depth = 0
            /\ OnGuest(args) => ~conf'.proc /\ conf'.irqs
        BY <1>1, <3>2 DEF FinallyAt, PutBackAt, OnGuest
      <3>4. ~conf'.proc /\ conf'.irqs
        BY <1>1, <1>2, <3>3 DEF OnGuest
      <3>5. RestoreInv' /\ TracerPutBack'
        BY <1>1, <1>2, <3>1, <3>3 DEF RestoreInv, TracerPutBack
      <3>6. conf'.proc = origin'.proc /\ conf'.irqs = origin'.irqs
        <4>1. conf' \in Settings /\ origin' \in Settings
          BY <1>1 DEF BInv, TypeOK
        <4>2. QED  BY <1>1, <3>4, <4>1 DEF Settings
      <3>7. NothingLeftOn'
        BY <3>3, <3>6, Zenon DEF NothingLeftOn, NoFilter
      <3>8. QED  BY <1>1, <3>5, <3>7 DEF RInv
    <2>5. QED  BY <1>1, <2>2, <2>3, <2>4 DEF Phases
  <1>7. QED  BY <1>3, <1>5, <1>6

LEMMA RestoreRaise ==
  ASSUME CoveredFaults, RInv, Raise
  PROVE  RInv'
  <1>1. /\ BInv /\ BInv' /\ Harmless
        /\ todo # <<>> /\ phase \in Phases
        /\ UNCHANGED <<backend, args, windows, origin>>
        /\ args \in Calls /\ args.backend = backend /\ args.before = origin.tracer
        /\ ~origin.proc /\ origin.irqs
        /\ backend # "v86" => ~conf.proc /\ conf.irqs
        /\ backend \in {"v86", "native"}
    BY RaiseStep, TracingAssumption DEF RInv, RestoreInv, BInv, TypeOK, CallInv, Raise, Phases
  <1>2. backend # "v86" => ~conf'.proc /\ conf'.irqs
    BY <1>1 DEF Harmless, OnGuest
  <1>3. <<backend, phase>> \in FaultsIn
    BY <1>1, OptionsTaken DEF Raise, NoOptionRefused
  <1>4. phase = "body" \/ (phase = "setup" /\ backend = "native")
    BY <1>1, <1>3 DEF CoveredFaults, Phases
  <1>5. AfterFault(args, phase) = "finally"
    BY <1>1, <1>4 DEF AfterFault, OnGuest
  <1>6. phase' = "finally" /\ todo' = Part(args, "finally")
    BY <1>5 DEF Raise, Enter
  <1>7. PICK m : m = Left' /\ m = IF OnGuest(args) THEN 6 ELSE 4
    <2>1. Left' = Len(Part(args, "finally"))
      BY <1>6 DEF Left
    <2>2. QED  BY <1>1, <2>1, PartTyped DEF Phases
  <1>8. PutBackAt(m)'
    BY <1>1, <1>7 DEF PutBackAt, OnGuest
  <1>9. QED  BY <1>1, <1>2, <1>6, <1>7, <1>8 DEF RInv, RestoreInv, TracerPutBack, NothingLeftOn

LEMMA RestoreNext ==
  ASSUME CoveredFaults, RInv, [Next]_vars
  PROVE  RInv'
  <1>1. BInv /\ BInv'
    BY BNext DEF RInv
  <1>2. ASSUME NEW owns \in BOOLEAN, NEW graph \in {"", "vfs_write"}, NEW depth \in {0, 2},
               Begin(owns, graph, depth)
        PROVE  RInv'
    <2>1. /\ phase = "idle" /\ phase' = "setup" /\ args'.before = conf.tracer
          /\ UNCHANGED <<backend, conf, origin>>
      BY <1>2, Zenon DEF Begin, kernelVars
    <2>2. QED  BY <1>1, <2>1 DEF RInv, RestoreInv, TracerPutBack, NothingLeftOn
  <1>3. CASE Step
    BY <1>3, RestoreStep
  <1>4. CASE Raise
    BY <1>4, RestoreRaise
  <1>5. CASE Background
    <2>1. UNCHANGED <<backend, conf, phase, todo, args, windows, text, origin>>
      BY <1>5 DEF Background, callVars
    <2>2. QED  BY <1>1, <2>1, Zenon DEF RInv, RestoreInv, PutBackAt, OnGuest, Left, TracerPutBack,
                                        NothingLeftOn
  <1>6. CASE UNCHANGED vars
    <2>1. UNCHANGED <<backend, conf, phase, todo, args, windows, text, origin>>
      BY <1>6 DEF vars, kernelVars, callVars
    <2>2. QED  BY <1>1, <2>1, Zenon DEF RInv, RestoreInv, PutBackAt, OnGuest, Left, TracerPutBack,
                                        NothingLeftOn
  <1>7. QED  BY <1>2, <1>3, <1>4, <1>5, <1>6, Zenon DEF Next

LEMMA RestoreInvariant ==
  ASSUME CoveredFaults
  PROVE  Spec => []RInv
  <1>1. Init => RInv
    BY RestoreInit
  <1>2. RInv /\ [Next]_vars => RInv'
    BY RestoreNext
  <1>3. QED  BY <1>1, <1>2, PTL DEF Spec

\* After any number of traces, failed or not, the tracer is the one selected
\* before the first of them (TracerPutBack, bridge.py:224-233), when what
\* fails is inside the `try`.
THEOREM PutBack ==
  ASSUME CoveredFaults
  PROVE  Spec => []TracerPutBack
  <1>1. RInv => TracerPutBack
    BY DEF RInv
  <1>2. QED  BY <1>1, RestoreInvariant, PTL

\* Under the same condition nothing stays on after a trace: tracing is off,
\* the filter and the depth are clear and the options are what they were
\* (NothingLeftOn, bridge.py:224-233, tracefs.py:90-104).
THEOREM SwitchedOff ==
  ASSUME CoveredFaults
  PROVE  Spec => []NothingLeftOn
  <1>1. RInv => NothingLeftOn
    BY DEF RInv
  <1>2. QED  BY <1>1, RestoreInvariant, PTL
=============================================================================
