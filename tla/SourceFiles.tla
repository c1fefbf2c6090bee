---------------------------- MODULE SourceFiles ----------------------------
(***************************************************************************)
(* The other readers of kernel source files under kxray/source: the tree   *)
(* they are opened in, MAINTAINERS, the system call tables, the definition *)
(* of a name, and the citation of a line.                                  *)
(***************************************************************************)
EXTENDS Lines

-----------------------------------------------------------------------------
(* tree.py.  A tree has whole files, and excerpts beside them.             *)

\* Tree.open and Tree.read: the whole file before the excerpt; why there is none.
Open(tree, path) ==
    CASE path \in DOMAIN tree.whole -> [text |-> tree.whole[path], partial |-> FALSE, error |-> ""]
      [] path \notin DOMAIN tree.whole /\ path \in DOMAIN tree.excerpts ->
            [text |-> tree.excerpts[path], partial |-> TRUE, error |-> ""]
      [] OTHER -> [text |-> <<>>, partial |-> FALSE,
                   error |-> CASE ~tree.present -> "no kernel tree"
                               [] tree.present /\ ~tree.complete -> "not in the committed corpus"
                               [] OTHER -> "not in the tree"]
Missing(tree, paths) == {p \in paths : Open(tree, p).error # ""}

\* find: the unpacked tree of the pinned version, or else the excerpts committed.
FindTree(pinned, unpacked, committed) ==
    IF pinned # "" /\ pinned \in DOMAIN unpacked THEN unpacked[pinned] ELSE committed

-----------------------------------------------------------------------------
(* maintainers.py.  A line is blank, a tag or bare; a bare one is a title, *)
(* an underline or the heading above the list.                             *)

\* What a line that is not blank makes the name of a section, when it is one's.
NameOf(line) == IF line.k = "tag" THEN line.tag ELSE line.v

\* Mutant of CloseSection: a name that turns out to be nobody's is forgotten.
CloseSection_Forgets(s) ==
    IF s.name # "" /\ s.tags # <<>>
    THEN [s EXCEPT !.sections = Append(@, [name |-> s.name, tags |-> s.tags, line |-> s.at]),
                   !.account = Append(@, "read"), !.name = "", !.tags = <<>>]
    ELSE [s EXCEPT !.name = ""]

\* close(): what the name line of a block turned out to be worth.
CloseSection(s) ==
    CASE s.name # "" /\ s.tags # <<>> ->
            [s EXCEPT !.sections = Append(@, [name |-> s.name, tags |-> s.tags, line |-> s.at]),
                      !.account = Append(@, "read"), !.name = "", !.tags = <<>>]
      [] s.name # "" /\ s.tags = <<>> -> [s EXCEPT !.account = Append(@, "skipped"), !.name = ""]
      [] OTHER -> s

\* One turn of the loop of parse.
MaintainersLine(s, line, n) ==
    CASE line.k = "blank" -> CloseSection([s EXCEPT !.account = Append(@, "skipped")])
      [] line.k = "tag" /\ s.name # "" ->
            [s EXCEPT !.tags = Append(@, <<line.tag, line.v>>), !.account = Append(@, "read")]
      [] line.k \notin {"blank", "tag"} /\ s.name # "" /\ s.tags # <<>> -> [s EXCEPT !.account = Append(@, "unparsed")]
      [] OTHER -> [s EXCEPT !.account = IF s.name # "" THEN Append(@, "skipped") ELSE @,
                            !.name = NameOf(line), !.at = n]

\* parse: everything above the heading is skipped.
Preamble(lines) ==
    LET heads == {i \in DOMAIN lines : lines[i].k = "heading"}
    IN  IF heads = {} THEN 0 ELSE Min(heads) - 1
ParseMaintainers(lines) ==
    LET above == Preamble(lines)
        Turn(s, i) == IF i <= above THEN s ELSE MaintainersLine(s, lines[i], i)
        start == [sections |-> <<>>, account |-> [i \in 1..above |-> "skipped"],
                  name |-> "", tags |-> <<>>, at |-> 0]
    IN  CloseSection(FoldLeftDomain(Turn, start, lines))

\* Section.values, contacts, status.
Values(section, tag) ==
    LET with == SelectSeq(section.tags, LAMBDA t : t[1] = tag) IN [i \in DOMAIN with |-> with[i][2]]
Contacts(section) == Values(section, "M") \o Values(section, "L")

\* _glob and covers: a star stands for one component of a path and two for one or more; a
\* pattern that ends in a slash is one that ends in two stars.
Covers(pattern, path) ==
    LET rest[p \in 1..Len(pattern) + 1, n \in 1..Len(path) + 1] ==
            CASE p > Len(pattern) -> n > Len(path)
              [] p <= Len(pattern) /\ n > Len(path) -> FALSE
              [] OTHER -> IF pattern[p] = "**" THEN \E m \in n + 1..Len(path) + 1 : rest[p + 1, m]
                          ELSE pattern[p] \in {"*", path[n]} /\ rest[p + 1, n + 1]
    IN  rest[1, 1]

\* lookup: every section that has the path, in the order of the file, exclusions first; an N
\* pattern, the word it looks for, is asked only when no F pattern has the path.
Lookup(sections, path) ==
    LET Hits(section) ==
          LET Files == SelectSeq(Values(section, "F"), LAMBDA p : p # <<>> /\ Covers(p, path))
              Words == SelectSeq(Values(section, "N"), LAMBDA w : Contains(path, w))
              Out   == \E i \in DOMAIN Values(section, "X") : Covers(Values(section, "X")[i], path)
          IN  CASE Out -> <<>>
                [] ~Out /\ Files # <<>> -> <<[section |-> section.name, tag |-> "F", pattern |-> Files[1]]>>
                [] ~Out /\ Files = <<>> /\ Words # <<>> ->
                      <<[section |-> section.name, tag |-> "N", pattern |-> Words[1]]>>
                [] OTHER -> <<>>
    IN  FlattenSeq([i \in DOMAIN sections |-> Hits(sections[i])])

\* specific, contacts, content.
Specific(sections, path) == SelectSeq(Lookup(sections, path), LAMBDA m : m.section # "THE REST")
WhoFor(sections, path) ==
    LET Of(name) == Contacts(SelectSeq(sections, LAMBDA s : s.name = name)[1])
        hits == Lookup(sections, path)
        Add(seen, who) == IF Contains(seen, who) THEN seen ELSE Append(seen, who)
    IN  FoldLeft(Add, <<>>, FlattenSeq([i \in DOMAIN hits |-> Of(hits[i].section)]))
ByContent(sections, words) ==
    SelectSeq(sections, LAMBDA s : \E i \in DOMAIN Values(s, "K") : Values(s, "K")[i] \in words)

-----------------------------------------------------------------------------
(* syscalls.py.                                                            *)

ParseSyscalls(lines) == Only(lines, {l \in ToSet(lines) : l.k = "row"})
SyscallAccount(lines) == EachLine(lines, {"blank", "comment"}, {"row"})

Rows(calls, name, abi) == SelectSeq(calls, LAMBDA c : c.name = name /\ (abi = "" \/ c.abi = abi))

\* by_number: the first row.  number_of, entry_of: nothing when there are several.
ByNumber(calls, number, abi) ==
    SelectSeq(calls, LAMBDA c : c.number = number /\ (abi = "" \/ c.abi = abi))
NumberOf(calls, name, abi) ==
    IF Len(Rows(calls, name, abi)) = 1 THEN <<Rows(calls, name, abi)[1].number>> ELSE <<>>
EntryOf(calls, name, abi) ==
    IF Len(Rows(calls, name, abi)) = 1 THEN Rows(calls, name, abi)[1].entry ELSE ""

\* reserved, holes, and whether compare says two tables agree on a name.
Reserved(calls) == SelectSeq(calls, LAMBDA c : c.entry = "")
NumberHoles(calls) ==
    LET numbers == {calls[i].number : i \in DOMAIN calls}
    IN  IF numbers = {} THEN {} ELSE Min(numbers)..Max(numbers) \ numbers
SameNumber(left, right, name) ==
    /\ Len(Rows(left, name, "")) = 1 /\ Len(Rows(right, name, "")) = 1
    /\ Rows(left, name, "")[1].number = Rows(right, name, "")[1].number

-----------------------------------------------------------------------------
(* symbols.py.  A line says which names it holds, which of the patterns it *)
(* matches for each, and whether it ends in a semicolon.                   *)

PATTERNS == <<"syscall", "macro", "struct", "typedef", "function", "variable">>

\* search: one definition a line at most, of the first pattern that matches.
Search(lines, name, path) ==
    LET Kinds(i) == SelectSeq(PATTERNS, LAMBDA kind : kind \in lines[i].matches[name])
        Hit(i) == IF name \notin DOMAIN lines[i].matches \/ lines[i].semicolon \/ Kinds(i) = <<>> THEN <<>>
                  ELSE <<[name |-> name, kind |-> Kinds(i)[1], path |-> path, line |-> i]>>
    IN  FlattenSeq([i \in DOMAIN lines |-> Hit(i)])

\* find: the name as it is and, when it is a wrapper of a system call, the name it wraps.
FindSymbol(tree, name, unwrap, paths) ==
    LET wanted == IF name \in DOMAIN unwrap THEN <<name, unwrap[name]>> ELSE <<name>>
        In(path) == FlattenSeq([i \in DOMAIN wanted |-> Search(Open(tree, path).text, wanted[i], path)])
    IN  FlattenSeq([i \in DOMAIN paths |-> In(paths[i])])

-----------------------------------------------------------------------------
(* citations.py.  The hash of a context is the context.                    *)

\* window, context_hash: three lines on either side in the source, radius here.
Context(lines, index, radius) == SubSeq(lines, Max({1, index - radius}), Min({Len(lines), index + radius}))

\* resolve: the first line that holds the anchor, and a problem when there are several or none.
Resolve(lines, anchor, radius) ==
    LET hits == {i \in DOMAIN lines : anchor \in lines[i]}
    IN  IF hits = {} THEN [line |-> 0, context |-> <<>>, problem |-> "not in the file any more"]
        ELSE [line |-> Min(hits), context |-> Context(lines, Min(hits), radius),
              problem |-> IF Cardinality(hits) > 1 THEN "pick a longer anchor" ELSE ""]

\* changed: only two contexts that are both there can differ.
Changed(recorded, found) == recorded # <<>> /\ found # <<>> /\ recorded # found
============================================================================
