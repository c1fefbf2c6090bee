------------------------------ MODULE Normalize ------------------------------
(***************************************************************************)
(* kxray/corpus/normalize.py: taking the numbers of one run out of a       *)
(* capture.  A text is a sequence of lines and a line a sequence of tokens *)
(* [k |-> pattern, v |-> number], where the pattern is the one of the      *)
(* source that matches there, or "word" for what no rule touches.  Time    *)
(* and durations lose their value, or a duration keeps its bucket.         *)
(***************************************************************************)
EXTENDS Integers, Sequences, SequencesExt, FiniteSetsExt

CONSTANT Before(_, _)   \* the order of the text of two lines

RULES == <<"time", "pointer", "identity", "cpu", "offset", "counter">>
ALL   == RULES \o <<"order">>

\* The patterns a rule applies, in the order it applies them, and the family of names they get.
Patterns ==
    [ptr   |-> <<"pointer range", "pointer">>,
     pid   |-> <<"graph task", "event task", "pid field", "oops pid", "held by", "trying">>,
     dev   |-> <<"device">>, inode |-> <<"inode">>,
     lane  |-> <<"graph cpu", "event cpu", "target cpu", "oops cpu">>]
Families == [pointer |-> {"ptr"}, identity |-> {"pid", "dev", "inode"}, cpu |-> {"lane"}]
FamilyOf(k) == {f \in DOMAIN Patterns : Contains(Patterns[f], k)}

\* A zero pointer and a zero inode stand for nothing and keep their value.
IsNamed(token, family) ==
    token.k \in ToSet(Patterns[family]) /\ (family \in {"ptr", "inode"} => token.v # 0)

EachToken(text, To(_)) == [i \in DOMAIN text |-> [j \in DOMAIN text[i] |-> To(text[i][j])]]

\* Mutant of Legend: the values are numbered by size.
Legend_BySize(text, family) ==
    LET met == {t.v : t \in {u \in ToSet(FlattenSeq(text)) : IsNamed(u, family)}}
    IN  SortSeq(SetToSeq(met), <)

\* Legend.name: the values of a family in the order they are met, pattern by pattern.
Legend(text, family) ==
    LET tokens   == FlattenSeq(text)
        Met(k)   == SelectSeq(tokens, LAMBDA t : t.k = k /\ IsNamed(t, family))
        met      == FlattenSeq([i \in DOMAIN Patterns[family] |-> Met(Patterns[family][i])])
        Add(seen, t) == IF Contains(seen, t.v) THEN seen ELSE Append(seen, t.v)
    IN  FoldLeft(Add, <<>>, met)

\* Legend.original: the value a name stands for.
Original(legend, name) == IF name \in DOMAIN legend THEN <<legend[name]>> ELSE <<>>

\* _pointer, _identity, _cpu: a value becomes the name of its place in the legend, or the
\* symbol at that address.
Rename(text, families, symbols) ==
    LET Index(s, v) == CHOOSE i \in DOMAIN s : s[i] = v
        legends == [f \in families |-> Legend(text, f)]
        To(t) == LET of == {f \in families : IsNamed(t, f)}
                     f  == CHOOSE g \in of : TRUE
                 IN  CASE of = {} -> t
                       [] of = {"ptr"} /\ t.v \in DOMAIN symbols -> [k |-> "&symbol", v |-> symbols[t.v]]
                       [] OTHER -> [k |-> "#" \o f, v |-> Index(legends[f], t.v)]
    IN  EachToken(text, To)

\* _time: bucket is the place of the first edge a duration is under.
BUCKETS == <<1, 10, 100, 1000>>
Bucket(us) == LET over == {i \in DOMAIN BUCKETS : us < BUCKETS[i]}
              IN  IF over = {} THEN 5 ELSE Min(over)
Time(text, mode) ==
    LET To(t) == CASE t.k = "stamp"    -> [k |-> "TIME", v |-> 0]
                   [] t.k = "duration" -> IF mode = "bucket" THEN [k |-> "BUCKET", v |-> Bucket(t.v)]
                                          ELSE [k |-> "DUR", v |-> 0]
                   [] OTHER -> t
    IN  EachToken(text, To)

\* _offset, _counter: an offset into a function goes; a counter is told from its first value.
Offset(text) == [i \in DOMAIN text |-> SelectSeq(text[i], LAMBDA t : t.k # "offset")]
Counter(text) ==
    LET first == SelectSeq(FlattenSeq(text), LAMBDA t : t.k = "counter")
        To(t) == IF t.k = "counter" THEN [k |-> "counter from", v |-> t.v - first[1].v] ELSE t
    IN  EachToken(text, To)

\* _order: lines in a row that are stamped are put in the order Before gives their text.
Stamped(line) == \E j \in DOMAIN line : line[j].k = "TIME"
Order(text) ==
    LET Sorted(run) == IF run # <<>> /\ Stamped(run[1]) THEN SortSeq(run, Before) ELSE run
        Turn(s, line) == IF s.run # <<>> /\ Stamped(line) # Stamped(s.run[1])
                         THEN [out |-> s.out \o Sorted(s.run), run |-> <<line>>]
                         ELSE [s EXCEPT !.run = Append(@, line)]
        end == FoldLeft(Turn, [out |-> <<>>, run |-> <<>>], text)
    IN  end.out \o Sorted(end.run)

\* of: the rules that are wanted, always in the same order; a ValueError for one there is none of.
Normalised(text, wanted, mode, symbols) ==
    LET Apply(out, rule) ==
          CASE rule \notin wanted -> out
            [] rule \in wanted /\ rule = "time"    -> Time(out, mode)
            [] rule \in wanted /\ rule = "offset"  -> Offset(out)
            [] rule \in wanted /\ rule = "counter" -> Counter(out)
            [] rule \in wanted /\ rule = "order"   -> Order(out)
            [] OTHER -> Rename(out, Families[rule], IF rule = "pointer" THEN symbols ELSE <<>>)
    IN  IF wanted \subseteq ToSet(ALL) THEN FoldLeft(Apply, text, ALL) ELSE <<>>

\* same
Same(one, other, wanted) ==
    Normalised(one, wanted, "elide", <<>>) = Normalised(other, wanted, "elide", <<>>)
==============================================================================
