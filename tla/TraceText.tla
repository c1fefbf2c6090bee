------------------------------ MODULE TraceText ------------------------------
(***************************************************************************)
(* The readers of flat traces (kxray/trace: common.py, function.py,        *)
(* events.py, formats.py), the logs they fill (models/flat.py and          *)
(* models/events.py), and the reader of a ring buffer's counters           *)
(* (kxray/tracefs.py).  A line is a record whose field k is "blank",       *)
(* "banner", "entry" or something else; a field that may be missing is a   *)
(* sequence of at most one.                                                *)
(***************************************************************************)
EXTENDS Lines

OneOf(s) == IF s = <<>> THEN <<>> ELSE <<Last(s)>>
Tally(names) == [n \in ToSet(names) |-> Cardinality({i \in DOMAIN names : names[i] = n})]

-----------------------------------------------------------------------------
(* common.py and models/flat.py.                                           *)

\* banner: what the lines at the top say, a later line overriding an earlier one.
Banner(lines, field) ==
    OneOf(SelectSeq(lines, LAMBDA l : l.k = "banner" /\ field \in DOMAIN l.says))
Said(lines, field) == LET line == Banner(lines, field)
                      IN  IF line = <<>> THEN <<>> ELSE <<line[1].says[field]>>

\* parse_flags and Flags.context: what the processor was doing.
Context(flags) ==
    CASE flags.interrupt \in {"z", "Z"} -> "nmi"
      [] flags.interrupt \in {"h", "H"} -> "hardirq"
      [] flags.interrupt = "s"          -> "softirq"
      [] OTHER -> IF flags.depth > 0 THEN "nopreempt" ELSE "process"

\* TraceLog.lost, overran: events the buffer dropped, when the banner said both counts.
Lost(log) == IF log.in_buffer = <<>> \/ log.written = <<>> THEN <<>>
             ELSE <<Max({0, log.written[1] - log.in_buffer[1]})>>
Overran(log) == Lost(log) # <<>> /\ Lost(log)[1] # 0

\* The loop of both readers: a line has a header and a body that Reads or it is unparsed.
FlatLog(lines, Reads(_), Entry(_)) ==
    LET Verdict(l) == CASE l.k \in {"blank", "banner"} -> "skipped"
                        [] l.k = "entry" /\ Reads(l)   -> "read"
                        [] OTHER                       -> "unparsed"
        read == Only(lines, {l \in ToSet(lines) : Verdict(l) = "read"})
    IN  [account   |-> [i \in DOMAIN lines |-> Verdict(lines[i])],
         entries   |-> [i \in DOMAIN read |-> Entry(read[i])],
         unparsed  |-> SelectSeq([i \in DOMAIN lines |-> i], LAMBDA i : Verdict(lines[i]) = "unparsed"),
         in_buffer |-> Said(lines, "in_buffer"), written |-> Said(lines, "written"),
         cpu_count |-> Said(lines, "cpu_count")]

\* function.py: a call and, when the tracer was told to say, its caller.
ParseFunctions(lines) ==
    FlatLog(lines, LAMBDA l : l.body = "call",
            LAMBDA l : [name |-> l.name, caller |-> l.caller, cpu |-> l.cpu, context |-> Context(l.flags)])

\* FunctionLog.counts, callers, callees; TraceLog.cpus, contexts.
Counts(log) == Tally([i \in DOMAIN log.entries |-> log.entries[i].name])
Callers(log, name) ==
    LET calls == SelectSeq(log.entries, LAMBDA c : c.name = name /\ c.caller # <<>>)
    IN  Tally([i \in DOMAIN calls |-> calls[i].caller[1]])
Callees(log, name) ==
    LET calls == SelectSeq(log.entries, LAMBDA c : c.caller = <<name>>)
    IN  Tally([i \in DOMAIN calls |-> calls[i].name])
CpusOf(log) == {log.entries[i].cpu : i \in DOMAIN log.entries}
Contexts(log) == Tally([i \in DOMAIN log.entries |-> log.entries[i].context])

-----------------------------------------------------------------------------
(* formats.py: the layout of an event's record.  A field's declaration has *)
(* a pointer star or not, [count |-> <<>>] for no brackets, <<"">> for     *)
(* empty ones and <<n>> for a number in them, and may be indirect.         *)

\* _field
FieldOf(line) ==
    [name |-> line.name, common |-> line.common, char |-> line.char /\ ~line.star,
     array |-> line.count # <<>> /\ (line.count[1] >= 0 \/ ~line.indirect),
     offset |-> line.offset, size |-> line.size, data_loc |-> line.indirect]

\* parse: a FormatError without a name, an identity or any field.
ParseFormat(lines) ==
    LET Of(kind) == Only(lines, {l \in ToSet(lines) : l.k = kind})
        fields   == [i \in DOMAIN Of("field") |-> FieldOf(Of("field")[i])]
    IN  IF Of("name") = <<>> \/ Of("ID") = <<>> \/ fields = <<>> THEN <<>>
        ELSE <<[name |-> Last(Of("name")).v, id |-> Last(Of("ID")).v, fields |-> fields]>>
FormatAccount(lines) == EachLine(lines, {"blank", "format:"}, {"name", "ID", "print fmt", "field"})

\* load: by the name in the file, the last file of a name winning.
LoadFormats(files) ==
    LET read == FlattenSeq([i \in DOMAIN files |-> ParseFormat(files[i])])
    IN  [n \in {read[i].name : i \in DOMAIN read} |-> Last(SelectSeq(read, LAMBDA f : f.name = n))]

\* EventField.end, is_text; EventFormat.own, size, holes.
EndOf(field) == field.offset + field.size
IsText(field) == field.data_loc \/ (field.char /\ field.array)
Own(layout) == SelectSeq(layout.fields, LAMBDA f : ~f.common)
RecordSize(layout) == Max({EndOf(layout.fields[i]) : i \in DOMAIN layout.fields} \cup {0})
FormatHoles(layout) ==
    LET f == layout.fields
        Before(i, j) == f[i].offset < f[j].offset \/ (f[i].offset = f[j].offset /\ i < j)
        order == SortSeq([i \in DOMAIN f |-> i], Before)
        Gap(n) == f[order[n + 1]].offset - EndOf(f[order[n]])
        After(n) == IF Gap(n) > 0 THEN <<<<EndOf(f[order[n]]), Gap(n)>>>> ELSE <<>>
    IN  FlattenSeq([n \in 1..(Len(order) - 1) |-> After(n)])

-----------------------------------------------------------------------------
(* events.py: what a line says of an event, against the event's layout.    *)

\* pairs: the last of a key wins.  bind: every pair is a value, and what layout and line do not
\* both have is on a list.  A text is a number, or it is a name the kernel printed for one.
Bind(pairs, layout) ==
    LET keys == {pairs[i].key : i \in DOMAIN pairs}
        Value(key) == Last(SelectSeq(pairs, LAMBDA p : p.key = key)).text
        Field(key) == SelectSeq(layout[1].fields, LAMBDA f : f.name = key)
        unknown == {key \in keys : Field(key) = <<>>}
    IN  IF layout = <<>> THEN [values |-> [k \in keys |-> Value(k)], bound |-> FALSE,
                               unknown |-> {}, missing |-> {}, symbolic |-> {}]
        ELSE [values   |-> [k \in keys |-> Value(k)], bound |-> TRUE, unknown |-> unknown,
              missing  |-> {f.name : f \in ToSet(Own(layout[1]))} \ keys,
              symbolic |-> {k \in keys \ unknown : ~IsText(Field(k)[1]) /\ ~Value(k).number}]
Agrees(event) == event.unknown = {} /\ event.missing = {}

\* parse
ParseEvents(lines, formats) ==
    LET LayoutOf(name) == IF name \in DOMAIN formats THEN <<formats[name]>> ELSE <<>>
    IN  FlatLog(lines, LAMBDA l : l.body = "event",
                LAMBDA l : Bind(l.pairs, LayoutOf(l.name)) @@ [name |-> l.name, cpu |-> l.cpu, context |-> Context(l.flags)])

\* EventLog.unbound, disagreements.
Unbound(log) == {log.entries[i].name : i \in {j \in DOMAIN log.entries : ~log.entries[j].bound}}
Disagreements(log) == SelectSeq(log.entries, LAMBDA e : e.bound /\ ~Agrees(e))

-----------------------------------------------------------------------------
(* tracefs.py: the counters of a processor's buffer, two clocks among them.*)

\* parse_stats, parse_timestamps, account_stats: a count is a whole number and a clock is not.
ParseBuffer(lines, kind) ==
    LET Put(found, line) == IF line.k = kind THEN Laid([name \in {line.name} |-> line.v], found) ELSE found
    IN  FoldLeft(Put, <<>>, lines)
BufferAccount(lines) == EachLine(lines, {"blank", "clock"}, {"count"})

\* window: from the oldest event still there to the reading of the clock.
Window(lines) ==
    LET clocks == ParseBuffer(lines, "clock")
    IN  IF {"oldest event ts", "now ts"} \subseteq DOMAIN clocks
        THEN <<clocks["now ts"] - clocks["oldest event ts"]>> ELSE <<>>

\* find, available; whereami.verdict: what a reader can do here.  A place is what is mounted.
Find(places) == SelectSeq(places, LAMBDA p : p.controls)
Standing(places) ==
    CASE Find(places) = <<>> -> "nothing here can trace"
      [] Find(places) # <<>> /\ Find(places)[1].writable -> "your own traces"
      [] OTHER -> "replays until you are root"
==============================================================================
