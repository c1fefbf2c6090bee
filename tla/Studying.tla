------------------------------ MODULE Studying -----------------------------
(***************************************************************************)
(* A reader at a lesson: evidence is captured on the reader's own machine, *)
(* or taken from a handwritten fixture, and a sheet of answers is graded   *)
(* against it, as the last cells of lessons/*/build.py do.                 *)
(***************************************************************************)
EXTENDS Grading

CONSTANTS
    Functions,  \* the names in a trace
    SymbolRows, \* the rows of a symbol table
    Reports,    \* what lockdep may have to report: the task, and the locks with where each edge was learned
    StatsRead,  \* what /proc/lockdep_stats held, if it was read
    Options,    \* the options of a gate
    Repeats,    \* how often what was captured may be done over
    MaxEvidence \* the most calls and symbols that are captured one by one

VARIABLES lessonRead, gathered, sheet, marks

studyingVars == <<lessonRead, gathered, sheet, marks>>

Nothing == [calls |-> <<>>, times |-> 1, symbols |-> <<>>, report |-> <<>>, whole |-> TRUE, stats |-> <<>>, handwritten |-> FALSE]
StudyingInit == lessonRead = "" /\ gathered = Nothing /\ sheet = <<>> /\ marks = <<>>

-----------------------------------------------------------------------------
(* What the machine prints of what happened.                               *)

\* The calls as often as they were made.
Tape ==
    FlattenSeq([n \in 1..gathered.times |->
        [i \in DOMAIN gathered.calls |->
            [gathered.calls[i] EXCEPT !.under = IF @ = 0 THEN 0 ELSE @ + (n - 1) * Len(gathered.calls)]]])

\* A report names the lock wanted and the lock held, and lists the edges from the last to the first;
\* one that was only half copied lacks the first.
Link(lock, i) ==
    <<[k |-> "link", index |-> i, name |-> lock.name], [k |-> "frame", fn |-> "lock_acquire"],
      [k |-> "frame", fn |-> lock.learned], [k |-> "blank"]>>
ReportLines(report) ==
    LET last == Len(report.locks)
        lock(i) == [k |-> "lock", name |-> report.locks[i].name]
    IN  <<[k |-> "banner"], [k |-> "who", task |-> report.task], lock(1), [k |-> "holding"], lock(last)>>
        \o FlattenSeq([i \in 1..(IF gathered.whole THEN last ELSE last - 1) |-> Link(report.locks[last + 1 - i], last - i)])

-----------------------------------------------------------------------------
(* The evidence.                                                           *)

\* The path from a call up to its root.
Above(calls, i) == {j \in 1..i : j = i \/ \A k \in (j + 1)..i : calls[k].depth > calls[j].depth}

Opens(l) ==
    /\ lessonRead = "" /\ lessonRead' = l
    /\ gathered' \in {[Nothing EXCEPT !.handwritten = h] : h \in BOOLEAN}
    /\ UNCHANGED <<sheet, marks>>
Captures(name, cpu, under) ==
    LET calls == gathered.calls IN
    /\ lessonRead \in {"Z02", "S05"} /\ Len(calls) + Len(gathered.symbols) < MaxEvidence
    /\ under \in {0} \cup (IF calls = <<>> THEN {} ELSE Above(calls, Len(calls)))
    /\ under # 0 => cpu = calls[under].cpu
    /\ gathered' = [gathered EXCEPT !.calls = Append(@, [name |-> name, cpu |-> cpu, under |-> under,
                                                         depth |-> IF under = 0 THEN 0 ELSE calls[under].depth + 1])]
DoneOver(times) == lessonRead = "Z02" /\ gathered.times = 1 /\ gathered' = [gathered EXCEPT !.times = times]
HasSymbol(row) ==
    /\ lessonRead = "S05" /\ gathered.calls = <<>> /\ Len(gathered.symbols) < MaxEvidence
    /\ gathered' = [gathered EXCEPT !.symbols = Append(@, row)]
IsReported(report, whole) ==
    /\ lessonRead = "C09" /\ gathered.report = <<>>
    /\ gathered' = [gathered EXCEPT !.report = <<report>>, !.whole = whole]
ReadsStats(stats) ==
    /\ lessonRead = "C09" /\ gathered.stats = <<>>
    /\ gathered' = [gathered EXCEPT !.stats = <<[values |-> stats, maxima |-> <<>>]>>]

-----------------------------------------------------------------------------
(* What is true of the evidence, whatever a grader makes of it.            *)

Orders == {10, 100, 1000, 10000}
\* The nearest of the orders by ratio.
Nearest(count) == {<<g>> : g \in {o \in Orders : \A other \in Orders \ {o} :
                                    IF other > o THEN count * count < o * other ELSE count * count > o * other}}
Calls == gathered.calls
RightZ02 ==
    [prediction   |-> {5},
     frames       |-> Nearest(gathered.times * Len(Calls)),
     outermost    |-> {<<Calls[i].name>> : i \in {j \in DOMAIN Calls : Calls[j].under = 0}},
     depth        |-> {<<Max({Cardinality(Above(Calls, i)) - 1 : i \in DOMAIN Calls})>>},
     reached_disk |-> {<<\E i \in DOMAIN Calls : Calls[i].name \in BLOCKLAYER>>},
     cpus         |-> {<<Cardinality({Calls[i].cpu : i \in DOMAIN Calls})>>}]

\* A list of locks goes round as the report does: the same locks, and one after the other.
EdgesOf(locks) == {<<locks[i], locks[(i % Len(locks)) + 1]>> : i \in DOMAIN locks}
RightC09 ==
    LET report == gathered.report[1]
        names  == [i \in DOMAIN report.locks |-> report.locks[i].name]
        values == IF gathered.stats = <<>> THEN <<>> ELSE gathered.stats[1].values
        round  == {c \in UNION {[1..n -> ToSet(names)] : n \in {Len(names), Len(names) + 1}} :
                     LET once == IF c[1] = Last(c) THEN Front(c) ELSE c
                     IN  Len(once) = Len(names) /\ EdgesOf(once) = EdgesOf(names)}
    IN  [prediction |-> {5},
         who        |-> {report.task},
         length     |-> {<<Len(names)>>},
         cycle      |-> round,
         learned_in |-> {<<Last(report.locks).learned>>},
         checker    |-> {v \in {"on", "off"} : "debug_locks" \in DOMAIN values /\ (v = "off" <=> values["debug_locks"] = 0)}]

\* The fourth question of S05 is whether the addresses were real numbers (lessons/S05/grader.py:41).
Tables == SelectSeq(gathered.symbols, LAMBDA s : s.family # "")
RightS05 ==
    LET const == Cardinality({i \in DOMAIN Tables : Tables[i].readonly})
        first == SelectSeq([i \in DOMAIN Calls |-> i], LAMBDA i : Calls[i].name = "vfs_write")
    IN  [prediction |-> {5},
         tables     |-> IF Tables = <<>> THEN {} ELSE Nearest(Len(Tables)),
         file_ops   |-> {<<Cardinality({i \in DOMAIN Tables : Tables[i].family # "_ops"})>>},
         readonly   |-> CASE Tables = <<>> -> {} [] const = Len(Tables) -> {"most"} [] const = 0 -> {"few"}
                          [] OTHER -> {"most", "half", "few"},
         hidden     |-> {<<\E i \in DOMAIN gathered.symbols : gathered.symbols[i].address # 0>>},
         worker     |-> IF first = <<>> THEN {} ELSE {<<Calls[i].name>> : i \in {j \in DOMAIN Calls : Calls[j].under = first[1]}}]
RightGate == [gate |-> {word \in {[word |-> w, capital |-> c] : w \in {"a", "b"}, c \in BOOLEAN} : word.word = "a"}]

\* There is something to grade: a tape with a call in it, a symbol table, a report that parses.
Gradable ==
    CASE lessonRead = "Z02" -> Calls # <<>>
      [] lessonRead = "S05" -> gathered.symbols # <<>>
      [] lessonRead = "C09" -> gathered.report # <<>> /\ gathered.whole
      [] OTHER -> TRUE
Right == CASE lessonRead = "Z02" -> RightZ02 [] lessonRead = "C09" -> RightC09 [] lessonRead = "S05" -> RightS05 [] OTHER -> RightGate

-----------------------------------------------------------------------------
(* Answering.                                                              *)

\* The values an answer may have: what a reader may write to a question.
Written(question) ==
    CASE question = "prediction" -> {0, 4, 5}
      [] question \in {"frames", "tables"} -> {<<>>} \cup {<<g>> : g \in Orders}
      [] question \in {"outermost", "worker"} -> {<<>>} \cup {<<name>> : name \in Functions}
      [] question \in {"depth", "cpus", "length", "file_ops"} -> {<<>>} \cup {<<n>> : n \in 0..3}
      [] question \in {"reached_disk", "hidden"} -> {<<>>, <<TRUE>>, <<FALSE>>}
      [] question = "who" -> {<<>>} \cup {report.task : report \in Reports}
      [] question = "cycle" ->
            UNION {[1..n -> {l.name : l \in UNION {ToSet(r.locks) : r \in Reports}}] : n \in 1..4}
      [] question = "learned_in" -> {<<>>} \cup {<<l.learned>> : l \in UNION {ToSet(r.locks) : r \in Reports}}
      [] question = "checker" -> {"", "on", "off"}
      [] question = "readonly" -> {"", "most", "half", "few"}
      [] question = "gate" -> {[word |-> w, capital |-> c] : w \in {"a", "b", "other"}, c \in BOOLEAN}

\* A sheet with a right answer to every question that has one, but for one question.
Sheets ==
    LET Of(right) == [q \in DOMAIN right |-> IF right[q] \cap Written(q) = {} THEN CHOOSE v \in Written(q) : TRUE
                                              ELSE CHOOSE v \in right[q] \cap Written(q) : TRUE]
        base == Of(Right)
    IN  UNION {{[base EXCEPT ![q] = v] : v \in Written(q)} : q \in DOMAIN base}

\* The last cells: what cannot be graded is not, and a refusal of the grader is printed.
MarkedZ02(answers) == IF RootsOf(Tape) = {} THEN <<>> ELSE Grade(gathered.handwritten, GradeZ02(Tape, answers))
MarkedC09(answers) ==
    LET splat == Dep!ParseSplat(ReportLines(gathered.report[1]))
    IN  IF gathered.report = <<>> \/ splat.error # "" THEN <<>>
        ELSE Grade(gathered.handwritten, GradeC09(splat, answers, gathered.stats))
MarkedS05(answers) ==
    IF gathered.symbols = <<>> THEN <<>> ELSE Grade(gathered.handwritten, GradeS05(gathered.symbols, answers, Tape))
Marked(answers) ==
    CASE lessonRead = "Z02" -> MarkedZ02(answers)
      [] lessonRead = "C09" -> MarkedC09(answers)
      [] lessonRead = "S05" -> MarkedS05(answers)
      [] OTHER -> <<[gate |-> GateCheck(Options, [word |-> "a", capital |-> FALSE], answers.gate).correct]>>
HandsIn ==
    /\ lessonRead # ""
    /\ \E answers \in (IF Gradable THEN Sheets ELSE {[prediction |-> 0]}) :
           sheet' = <<answers>> /\ marks' = Marked(answers)
    /\ UNCHANGED <<lessonRead, gathered>>

StudyingNext ==
    /\ sheet = <<>>
    /\ \/ \E l \in {"Z02", "C09", "S05", "gate"} : Opens(l)
       \/ /\ \/ \E name \in Functions, cpu \in {0, 1}, under \in 0..MaxEvidence : Captures(name, cpu, under)
             \/ \E times \in Repeats : DoneOver(times)
             \/ \E row \in SymbolRows : HasSymbol(row)
             \/ \E report \in Reports, whole \in BOOLEAN : IsReported(report, whole)
             \/ \E stats \in StatsRead : ReadsStats(stats)
          /\ UNCHANGED <<lessonRead, sheet, marks>>
       \/ HandsIn

-----------------------------------------------------------------------------
\* A check passes exactly when its answer is right about the reader's own evidence: the order of magnitude
\* nearest to the count, a cycle wherever it is begun and closed or not, and never for want of evidence; nothing
\* handwritten or half copied is graded at all. Not for a task with a slash in its name,
\* which no answer matches, and not for a mixture of tables, whose word is a matter of thresholds.
\* One check is the wrong way round: the question "hidden" asks whether the addresses were real numbers
\* and check_hidden compares with whether they were hidden (lessons/S05/grader.py:41 and 120), so that
\* of the two answers it passes the wrong one and no other.
ReadersPass ==
    sheet # <<>> =>
        /\ marks # <<>> <=> Gradable /\ (lessonRead = "gate" \/ ~gathered.handwritten)
        /\ marks # <<>> => \A right \in {Right} : \A q \in DOMAIN marks[1] :
               \/ q = "who" /\ Len(gathered.report[1].task) > 1
               \/ q = "readonly" /\ Cardinality(right[q]) = 3
               \/ q = "hidden" /\ (marks[1][q] <=> sheet[1][q] \in {<<TRUE>>, <<FALSE>>} \ right[q])
               \/ q # "hidden" /\ (marks[1][q] <=> sheet[1][q] \in right[q])
============================================================================
