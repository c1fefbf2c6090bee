------------------------------ MODULE Grading ------------------------------
(***************************************************************************)
(* The graders of the three lessons, lessons/*/grader.py, and the          *)
(* prediction gate, kxwidgets/gate.py.  A grader has no answer key: each   *)
(* check computes what is right from the reader's own evidence.  An answer *)
(* is a record of what was given to each question: a number, name or       *)
(* truth value that could not be read as one is the empty sequence, what   *)
(* could be has one element, and the prediction is its number of words.    *)
(***************************************************************************)
EXTENDS Lines

Dep == INSTANCE Lockdep
Proc == INSTANCE ProcFiles

PLUMBING == {"lock_acquire", "__mutex_lock"}
BLOCKLAYER == {"submit_bio", "blk_mq"}

\* grade: a handwritten fixture is refused, and otherwise there is a result for every check.
Grade(handwritten, results) == IF handwritten THEN <<>> ELSE <<results>>

CheckPrediction(answers) == answers.prediction >= 5

\* _bucket: the order of magnitude, of four there are to choose from; log10 of a value rounds up to
\* an exponent when its square reaches the odd power below.
Bucket(value) ==
    IF value < 1 THEN 0
    ELSE 10^Max({1, Cardinality({k \in 1..4 : value * value >= 10^(2 * k - 1)})})
SameOrder(given, actual) == given # <<>> /\ Bucket(given[1]) = Bucket(actual)

-----------------------------------------------------------------------------
(* Z02, against a trace: its frames in the order of a walk, each with the  *)
(* frame it is under, 0 for none.                                          *)

RootsOf(tape) == {i \in DOMAIN tape : tape[i].under = 0}
ReachedDisk(tape) == \E i \in DOMAIN tape : tape[i].name \in BLOCKLAYER

CheckOutermost(tape, answers) == answers.outermost # <<>> /\ answers.outermost[1] \in {tape[i].name : i \in RootsOf(tape)}
CheckDepth(tape, answers) == answers.depth = <<Max({0} \cup {tape[i].depth : i \in DOMAIN tape})>>
GradeZ02(tape, answers) ==
    [prediction   |-> CheckPrediction(answers),
     frames       |-> SameOrder(answers.frames, Len(tape)),
     outermost    |-> CheckOutermost(tape, answers),
     depth        |-> CheckDepth(tape, answers),
     reached_disk |-> answers.reached_disk = <<ReachedDisk(tape)>>,
     cpus         |-> answers.cpus = <<Cardinality({tape[i].cpu : i \in DOMAIN tape})>>]

-----------------------------------------------------------------------------
(* C09, against a report of lockdep.  A task is its name cut at slashes.   *)

\* Mutant of CheckCycle: a cycle that is written closed is one lock longer.
CheckCycle_AsWritten(splat, answers) ==
    LET actual == Front(Dep!Cycle(splat))
    IN  answers.cycle \in {SubSeq(actual, n + 1, Len(actual)) \o SubSeq(actual, 1, n) : n \in 0..Len(actual) - 1}

\* check_cycle: the locks in the order of the edges, begun anywhere, and closed or not.
CheckCycle(splat, answers) ==
    LET given  == answers.cycle
        names  == IF Len(given) > 1 /\ given[1] = Last(given) THEN Front(given) ELSE given
        actual == Front(Dep!Cycle(splat))
    IN  names \in {SubSeq(actual, n + 1, Len(actual)) \o SubSeq(actual, 1, n) : n \in 0..Len(actual) - 1}

\* check_who keeps what is before the first slash of the answer, and not of the report.
CheckWho(splat, answers) == answers.who # <<>> /\ SubSeq(answers.who, 1, 1) = splat.task

\* other_edge: where the edge to the lock that is held was taken.
OtherEdge(splat) ==
    LET held == {i \in DOMAIN splat.chain : splat.chain[i].name = splat.holding}
    IN  Dep!TakenIn(splat.chain[Min(held)], PLUMBING)
CheckLearnedIn(splat, answers) == OtherEdge(splat) # <<>> /\ answers.learned_in = OtherEdge(splat)

\* check_checker, of statistics that may be missing or lack the line.
CheckChecker(stats, answers) ==
    /\ stats # <<>> /\ "debug_locks" \in DOMAIN stats[1].values
    /\ answers.checker = IF Dep!Off(stats[1]) THEN "off" ELSE "on"
GradeC09(splat, answers, stats) ==
    [prediction |-> CheckPrediction(answers),
     who        |-> CheckWho(splat, answers),
     length     |-> answers.length = <<Len(splat.chain)>>,
     cycle      |-> CheckCycle(splat, answers),
     learned_in |-> CheckLearnedIn(splat, answers),
     checker    |-> CheckChecker(stats, answers)]

-----------------------------------------------------------------------------
(* S05, against a table of symbols, and against a trace if there is one.   *)

OpsTables(symbols) == SelectSeq(symbols, LAMBDA s : s.family # "")
FileOperations(symbols) == SelectSeq(symbols, LAMBDA s : s.family \in {"_operations", "_fops"})

\* check_readonly: most is two thirds and half is from two fifths.
CheckReadonly(symbols, answers) ==
    LET all   == Len(OpsTables(symbols))
        const == Len(SelectSeq(OpsTables(symbols), LAMBDA s : s.readonly))
    IN  /\ all > 0
        /\ answers.readonly = CASE 3 * const >= 2 * all -> "most"
                                [] 3 * const < 2 * all /\ 10 * const >= 4 * all -> "half"
                                [] OTHER -> "few"

\* check_worker: what is directly under the first vfs_write that was called.
CheckWorker(tape, answers) ==
    LET writes == {i \in DOMAIN tape : tape[i].name = "vfs_write"}
        under  == {tape[j].name : j \in {k \in DOMAIN tape : tape[k].under = Min(writes)}}
    IN  writes # {} /\ answers.worker # <<>> /\ answers.worker[1] \in under
GradeS05(symbols, answers, tape) ==
    [prediction |-> CheckPrediction(answers),
     tables     |-> SameOrder(answers.tables, Len(OpsTables(symbols))),
     file_ops   |-> answers.file_ops = <<Len(FileOperations(symbols))>>,
     readonly   |-> CheckReadonly(symbols, answers),
     hidden     |-> answers.hidden = <<Proc!AllHidden(symbols)>>,
     worker     |-> CheckWorker(tape, answers)]

-----------------------------------------------------------------------------
(* gate.py.  Options are words by their letter, or there are none.         *)

Lower(word) == IF word.capital THEN [word EXCEPT !.capital = FALSE] ELSE word
GateCheck(options, answer, chosen) ==
    [correct |-> Lower(chosen) = Lower(answer),
     chosen  |-> IF Lower(chosen) \in DOMAIN options THEN <<options[Lower(chosen)]>> ELSE <<>>,
     answer  |-> IF answer \in DOMAIN options THEN <<options[answer]>> ELSE <<>>]
============================================================================
