------------------------------ MODULE ProcFiles ------------------------------
(***************************************************************************)
(* The readers of files under /proc: kxray/proc, kxray/kallsyms.py and the *)
(* records of models/proc.py they fill.  A line is a record whose field k  *)
(* is "blank" or what the line looks like; words are model strings, and a  *)
(* number that a word may or may not be is a sequence of at most one.      *)
(***************************************************************************)
EXTENDS Lines

First(s) == IF s = <<>> THEN <<>> ELSE <<s[1]>>
Sum(s) == FoldLeft(LAMBDA total, n : total + n, 0, s)
Leads(one, other) == \* whether a tuple of numbers is not before another
    LET differ == {i \in DOMAIN one \cap DOMAIN other : one[i] # other[i]}
    IN  IF differ = {} THEN Len(one) >= Len(other) ELSE one[Min(differ)] > other[Min(differ)]

\* The loop the readers share: blank lines are skipped, and the rest is what Row makes of it,
\* nothing for a line that does not parse.
Tabled(lines, Row(_)) ==
    [account |-> [i \in DOMAIN lines |-> CASE lines[i].k = "blank" -> "skipped"
                                           [] lines[i].k # "blank" /\ Row(i) = <<>> -> "unparsed"
                                           [] OTHER -> "read"],
     rows |-> FlattenSeq([i \in DOMAIN lines |-> IF lines[i].k = "blank" THEN <<>> ELSE Row(i)])]

-----------------------------------------------------------------------------
(* stability.py: what the kernel promises about a path.                    *)

RULES == <<[of |-> {"kallsyms", "config.gz"}, kind |-> "not-abi"],
           [of |-> {"loginuid"}, kind |-> "stable"],
           [of |-> {"smaps_rollup", "diskstats", "btf"}, kind |-> "testing"],
           [of |-> {"debug tracing"}, kind |-> "obsolete"],
           [of |-> {"tracing", "proc", "sys"}, kind |-> "undocumented"]>>

\* classify: the first rule of the table whose pattern has the path; paths stands for those
\* patterns of the table, in its order, that the path matches.
Classify(paths) ==
    IF paths = <<>> THEN "undocumented"
    ELSE RULES[Min({i \in DOMAIN RULES : paths[1] \in RULES[i].of})].kind
Documented(kind) == kind \in {"stable", "testing", "obsolete", "removed"}
Dependable(kind) == kind \in {"stable", "testing"}

\* READERS, reader_for, read: a reader by the kind of file, or a LookupError.
READERS == "version" :> "version" @@ "meminfo" :> "keyed" @@ "interrupts" :> "percpu" @@ "softirqs" :> "percpu"
           @@ "stat" :> "pidstat" @@ "maps" :> "maps" @@ "status" :> "keyed"
ReaderFor(file) == IF file \in DOMAIN READERS THEN <<READERS[file]>> ELSE <<>>

-----------------------------------------------------------------------------
(* keyed.py: a key, one colon, and words; kB at the end is the unit.       *)

KeyedRow(line, n) ==
    IF line.k # "pair" THEN <<>>
    ELSE LET unit == line.words # <<>> /\ Last(line.words).word = "kB"
         IN  <<[key |-> line.key, values |-> IF unit THEN Front(line.words) ELSE line.words,
                unit |-> IF unit THEN "kB" ELSE "", line |-> n]>>
ParseKeyed(lines) == Tabled(lines, LAMBDA i : KeyedRow(lines[i], i))

\* KeyedFile.get, KeyValue.number, bytes_of: the first of a key, when it is one number.
GetKey(file, key) == First(SelectSeq(file.rows, LAMBDA e : e.key = key))
NumberIn(entry) == IF Len(entry.values) = 1 THEN entry.values[1].number ELSE <<>>
BytesOf(file, key) ==
    LET entry == GetKey(file, key)
    IN  CASE entry = <<>> -> <<>>
          [] entry # <<>> /\ NumberIn(entry[1]) = <<>> -> <<>>
          [] OTHER -> <<NumberIn(entry[1])[1] * (IF entry[1].unit = "kB" THEN 1024 ELSE 1)>>

-----------------------------------------------------------------------------
(* percpu.py: a line of processors, then a label and a count for each.     *)

Header(line) == line.k = "names"
CounterRow(line, cpus) ==
    LET counts == SubSeq(line.words, 1, cpus)
    IN  IF line.k # "pair" \/ Len(line.words) < cpus \/ \E i \in DOMAIN counts : counts[i].number = <<>> THEN <<>>
        ELSE <<[label |-> line.key, counts |-> [i \in DOMAIN counts |-> counts[i].number[1]],
                detail |-> SubSeq(line.words, cpus + 1, Len(line.words))]>>
ParsePercpu(lines) ==
    LET heads == {i \in DOMAIN lines : Header(lines[i])}
        head  == IF heads = {} THEN Len(lines) + 1 ELSE Min(heads)
        cpus  == IF heads = {} THEN <<>> ELSE lines[head].words
        found == Tabled(lines, LAMBDA i : IF i <= head THEN <<>> ELSE CounterRow(lines[i], Len(cpus)))
    IN  [cpus |-> cpus, rows |-> found.rows,
         account |-> [i \in DOMAIN lines |-> IF i = head THEN "skipped" ELSE found.account[i]]]

\* Counter.total, CounterFile.total, quiet, busiest; hardware and named.
Total(counter) == Sum(counter.counts)
TotalOf(file, label) ==
    LET found == SelectSeq(file.rows, LAMBDA c : c.label = label) IN IF found = <<>> THEN 0 ELSE Total(found[1])
Quiet(file) == SelectSeq(file.rows, LAMBDA c : Total(c) <= 0)
Busiest(file, limit) ==
    LET Before(i, j) == Total(file.rows[i]) > Total(file.rows[j]) \/ (Total(file.rows[i]) = Total(file.rows[j]) /\ i < j)
        order == SortSeq([i \in DOMAIN file.rows |-> i], Before)
    IN  [n \in 1..Min({limit, Len(order)}) |-> file.rows[order[n]]]
Hardware(file, Digits) == SelectSeq(file.rows, LAMBDA c : c.label \in Digits)

-----------------------------------------------------------------------------
(* pidstat.py.  A line is its words; the name of the task is the words     *)
(* between the first that opens and the last that closes a parenthesis.    *)

STAT == <<"state", "ppid", "min_flt">>      \* the fields after the name, shortened

\* split_comm
SplitComm(line) ==
    LET opens  == {i \in DOMAIN line : line[i] = "("}
        closes == {i \in DOMAIN line : line[i] = ")"}
    IN  IF opens = {} \/ closes = {} \/ Max(closes) < Min(opens) THEN <<>>
        ELSE <<[head |-> SubSeq(line, 1, Min(opens) - 1), comm |-> SubSeq(line, Min(opens) + 1, Max(closes) - 1),
                tail |-> SubSeq(line, Max(closes) + 1, Len(line))]>>

\* parse: a stat file is one line; the fields that are there are named in their order.
ParseStat(line, Pids) ==
    LET parts == SplitComm(line)
    IN  IF parts = <<>> \/ ~(Len(parts[1].head) = 1 /\ parts[1].head[1] \in Pids) THEN <<>>
        ELSE <<[pid |-> parts[1].head[1], comm |-> parts[1].comm,
                values |-> [i \in 1..Min({Len(parts[1].tail), Len(STAT)}) |-> parts[1].tail[i]],
                extra |-> SubSeq(parts[1].tail, Len(STAT) + 1, Len(parts[1].tail)),
                naive |-> SelectSeq(line, LAMBDA w : w \notin {"(", ")"})]>>
State(stat) == IF stat.values = <<>> THEN "" ELSE stat.values[1]
Trapped(stat) == Len(stat.comm) > 1 \/ \E i \in DOMAIN stat.comm : stat.comm[i] = ")"

-----------------------------------------------------------------------------
(* maps.py and kallsyms.py.                                                *)

ParseMaps(lines) == Tabled(lines, LAMBDA i : IF lines[i].k = "region" THEN <<lines[i]>> ELSE <<>>)

\* Region.size, holds; AddressSpace.total_size, at, gaps.
SizeOfRegion(region) == region.end - region.start
TotalSize(space) == Sum([i \in DOMAIN space.rows |-> SizeOfRegion(space.rows[i])])
At(space, address) == First(SelectSeq(space.rows, LAMBDA r : r.start <= address /\ address < r.end))
Gaps(space) ==
    LET r == space.rows
        Between(i) == IF r[i + 1].start > r[i].end THEN <<<<r[i].end, r[i + 1].start - r[i].end>>>> ELSE <<>>
    IN  FlattenSeq([i \in 1..(Len(r) - 1) |-> Between(i)])

\* kallsyms: _read_one, families (the ending of a name that is an ops table, the first of the
\* three it has) and hidden.
ParseKallsyms(lines) == Tabled(lines, LAMBDA i : IF lines[i].k = "symbol" THEN <<lines[i]>> ELSE <<>>)
Families(symbols) ==
    LET tables == SelectSeq(symbols, LAMBDA s : s.family # "")
        kinds  == {tables[i].family : i \in DOMAIN tables}
    IN  [f \in kinds |-> Cardinality({i \in DOMAIN tables : tables[i].family = f})]
AllHidden(symbols) == \A i \in DOMAIN symbols : symbols[i].address = 0

-----------------------------------------------------------------------------
(* version.py.  A release is its pieces between dots, each the number it   *)
(* starts with, or nothing; what follows the build's number are words.     *)

\* parse: the first line that is not blank is the banner.
ParseVersion(lines) ==
    LET full == {i \in DOMAIN lines : lines[i].k # "blank"}
        at   == IF full = {} THEN 0 ELSE Min(full)
        read == at > 0 /\ lines[at].k = "banner"
    IN  [account |-> [i \in DOMAIN lines |-> CASE i # at -> "skipped" [] i = at /\ read -> "read" [] OTHER -> "unparsed"],
         rows |-> IF read THEN <<lines[at]>> ELSE <<>>]

\* Version.parts, at_least, tags, preemption.
Parts(version) ==
    LET none == {i \in DOMAIN version.release : version.release[i] = <<>>}
        n    == IF none = {} THEN Len(version.release) ELSE Min(none) - 1
    IN  [i \in 1..n |-> version.release[i][1]]
AtLeast(version, wanted) == Leads(SubSeq(Parts(version), 1, Min({Len(wanted), Len(Parts(version))})), wanted)
TagsOf(version) == IF version.build = "" THEN <<>> ELSE SelectSeq(version.words, LAMBDA w : w.upper)
Preemption(version) == First(SelectSeq(TagsOf(version), LAMBDA w : w.preempt))
==============================================================================
