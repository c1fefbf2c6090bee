----------------------------- MODULE Blueprint -----------------------------
(***************************************************************************)
(* tools/bpc.py and tools/bpcgen.py: what a blueprint says of itself, what *)
(* is found wrong with it, and what its generated sections are made of.  A *)
(* document is a sequence of lines, each of a kind k; a digest is the text *)
(* it is of, and a finding is the line, the rule and what it is about.     *)
(***************************************************************************)
EXTENDS Lines

SECTIONS == <<"1", "2", "3", "4", "4a", "4b", "4c", "5", "6", "7", "8", "9">>
GENERATED == {"2", "5", "7"}
STATUSES == {"stub", "partial", "complete"}
REQUIREDKEYS == {"blueprint", "title", "status", "pin", "arch", "lessons", "generated"}
EDGECASES == {"allocation-failure", "concurrent-entry", "wrong-context", "signal", "object-freed",
              "refcount-zero", "boundary-cases", "hostile-input", "bug-message"}

digest(content) == [sealed |-> TRUE, of |-> content]
unsealed == [sealed |-> FALSE, of |-> <<>>]

-----------------------------------------------------------------------------
(* Reading a document.                                                     *)

\* parse_front_matter: the header, of scalars and lists; none when the first line opens none.  The
\* last of two lines with one key counts, and a list has the items up to the next key.
FrontMatter(lines) ==
    LET ends  == {i \in 2..Len(lines) : lines[i].k = "rule"}
        upto  == IF ends = {} THEN Len(lines) ELSE Min(ends) - 1
        pairs == {i \in 2..upto : lines[i].k = "pair"}
        Items(i) == SelectSeq(SubSeq(lines, i + 1, Min({j - 1 : j \in {p \in pairs : p > i}} \cup {upto})), LAMBDA l : l.k = "item")
        Value(i) == IF lines[i].list THEN [j \in DOMAIN Items(i) |-> Items(i)[j].v] ELSE lines[i].v
    IN  IF lines = <<>> \/ lines[1].k # "rule" THEN [key \in {} |-> <<>>]
        ELSE [key \in {lines[i].key : i \in pairs} |->
                LET at == Max({i \in pairs : lines[i].key = key}) IN [list |-> lines[at].list, v |-> Value(at)]]

\* str(header.get(key, "")), and a list as Request.from_header takes it.
Scalar(header, key) == IF key \in DOMAIN header /\ header[key].v # <<>> THEN header[key].v[1] ELSE ""
Listed(header, key) == IF key \in DOMAIN header THEN header[key].v ELSE <<>>

\* find_seals: a line that closes a block closes the last one opened since another was closed;
\* the blocks in the order they close.
Marks(lines) == SelectSeq([i \in DOMAIN lines |-> i], LAMBDA i : lines[i].k \in {"open", "close"})
Closes(lines, marks, n) == n > 1 /\ lines[marks[n]].k = "close" /\ lines[marks[n - 1]].k = "open"
FindSeals(lines) ==
    LET marks == Marks(lines)
        Seal(n) == LET open == marks[n - 1]
                   IN  [section |-> lines[open].section, declared |-> lines[open].hash, open |-> open, close |-> marks[n],
                        content |-> SubSeq(lines, open + 1, marks[n] - 1)]
        closing == SelectSeq([n \in DOMAIN marks |-> n], LAMBDA n : Closes(lines, marks, n))
    IN  [j \in DOMAIN closing |-> Seal(closing[j])]
\* The other half of find_seals: what is wrong with how the blocks open and close.
SealProblems(lines) ==
    LET marks == Marks(lines)
        Is(n, kind) == n \in DOMAIN marks /\ lines[marks[n]].k = kind
        Wrong(n) ==
          CASE Is(n, "open") /\ Is(n - 1, "open") -> {"nested"}
            [] Is(n, "close") /\ ~Is(n - 1, "open") -> {"never opened"}
            [] Closes(lines, marks, n) /\ lines[marks[n]].section # lines[marks[n - 1]].section -> {"closes another"}
            [] OTHER -> {}
    IN  (UNION {{<<marks[n], "seal", what>> : what \in Wrong(n)} : n \in DOMAIN marks})
        \cup {<<marks[n], "seal", "never closed">> : n \in {m \in DOMAIN marks : m = Len(marks) /\ Is(m, "open")}}

\* section_bounds: where each section starts and the next one does; the last of two with one name.
SectionBounds(lines) ==
    LET marks == {i \in DOMAIN lines : lines[i].k = "heading"}
        From(name) == Max({i \in marks : lines[i].name = name})
    IN  [name \in {lines[i].name : i \in marks} |->
            <<From(name), Min({j \in marks : j > From(name)} \cup {Len(lines) + 1})>>]

-----------------------------------------------------------------------------
(* What is found wrong with it.                                            *)

CheckHeader(header, stem) ==
    IF DOMAIN header = {} THEN {<<1, "front-matter", "none">>}
    ELSE LET name == Scalar(header, "blueprint")  status == Scalar(header, "status")
             declared == {e \in ToSet(Listed(header, "generated")) : e # ""}
         IN  {<<1, "front-matter", key>> : key \in REQUIREDKEYS \ DOMAIN header}
             \cup (IF name \in {"", stem} THEN {} ELSE {<<1, "front-matter", "another name">>})
             \cup (IF status \in STATUSES \cup {""} THEN {} ELSE {<<1, "front-matter", "no such status">>})
             \cup (IF status = "complete" /\ Scalar(header, "reviewed-by") = "" THEN {<<1, "front-matter", "nobody read it">>} ELSE {})
             \cup (IF declared \in {{}, GENERATED} THEN {} ELSE {<<1, "front-matter", "generated">>})

CheckSections(lines) ==
    LET bounds   == SectionBounds(lines)
        expected == SelectSeq(SECTIONS, LAMBDA name : name \in DOMAIN bounds)
        present  == SortSeq(expected, LAMBDA a, b : bounds[a][1] < bounds[b][1])
    IN  {<<1, "sections", name>> : name \in ToSet(SECTIONS) \ DOMAIN bounds}
        \cup (IF present = expected THEN {} ELSE {<<1, "sections", "order">>})
        \cup {<<bounds[name][1], "sections", "title">> :
                name \in {n \in ToSet(expected) \ {"4a", "4b", "4c"} : ~lines[bounds[n][1]].titled}}

CheckSeals(seals) ==
    LET Wrong(seal) == CASE seal.section \notin GENERATED -> {"not generated"}
                         [] seal.section \in GENERATED /\ ~seal.declared.sealed -> {"unsealed"}
                         [] seal.section \in GENERATED /\ seal.declared.sealed ->
                                {w \in {"hand edited"} : seal.declared # digest(seal.content)}
    IN  {<<1, "seal", section>> : section \in GENERATED \ {seals[i].section : i \in DOMAIN seals}}
        \cup UNION {{<<seals[i].open, "seal", w>> : w \in Wrong(seals[i])} : i \in DOMAIN seals}

\* parse_source: the first line of a block that says what it was made from.
ParseSource(content) == LET found == SelectSeq(content, LAMBDA line : line.k = "source")
                        IN  IF found = <<>> THEN <<>> ELSE <<[found[1] EXCEPT !.path = IF @ = "none" THEN "" ELSE @]>>

\* Source.line: a path that is not there is written none.
SourceLine(source) == [source EXCEPT !.path = IF @ = "" THEN "none" ELSE @]

CheckProvenance(seals, status) ==
    LET From(i) == ParseSource(seals[i].content)
    IN  {<<seals[i].open, "provenance", "no source">> : i \in {j \in DOMAIN seals : From(j) = <<>>}}
        \cup {<<seals[i].open, "provenance", "not evidence">> :
                i \in {j \in DOMAIN seals : status = "complete" /\ From(j) # <<>> /\ ~From(j)[1].evidence}}

\* check: _check_lesson_references, _check_invariants and _check_edge_cases with the others.
Within(lines, name, kinds) ==
    LET bounds == SectionBounds(lines)
    IN  IF name \notin DOMAIN bounds THEN {}
        ELSE {i \in bounds[name][1]..bounds[name][2] - 1 : lines[i].k \in kinds}

CheckDocument(lines, stem) ==
    LET header == FrontMatter(lines)  status == Scalar(header, "status")  seals == FindSeals(lines)
        cases == {lines[i].tag : i \in Within(lines, "6", {"tag"})}
    IN  CheckHeader(header, stem) \cup CheckSections(lines) \cup SealProblems(lines)
        \cup CheckSeals(seals) \cup CheckProvenance(seals, status)
        \cup {<<i, "lesson-reference", "">> : i \in {j \in DOMAIN lines : lines[j].k = "phrase"}}
        \cup {<<i, "invariant", "">> : i \in {j \in Within(lines, "4a", {"numbered"}) : ~lines[j].checked}}
        \cup (IF status = "complete" /\ "6" \in DOMAIN SectionBounds(lines) /\ cases # EDGECASES
              THEN {<<SectionBounds(lines)["6"][1], "edge-cases", "">>} ELSE {})

-----------------------------------------------------------------------------
(* Rewriting it.                                                           *)

\* reseal: every block that does not have the hash of its text is given it.
Reseal(lines) ==
    LET seals == FindSeals(lines)
        Of(i) == SelectSeq(seals, LAMBDA seal : seal.open = i)
    IN  [i \in DOMAIN lines |->
            IF Of(i) = <<>> THEN lines[i] ELSE [lines[i] EXCEPT !.hash = digest(Of(i)[1].content)]]

\* generate: the blocks from the last to the first, each given what the generator makes of it, its
\* text and its problems, and sealed when one changed; a dry run without types leaves what came
\* from types alone.  What the generator makes of each section is in rendered.
FromBtf(seal) == LET from == ParseSource(seal.content) IN from # <<>> /\ from[1].of = "btf"
Rendering(lines, types, dry) ==
    SelectSeq(FindSeals(lines), LAMBDA seal : seal.section \in GENERATED /\ ~(dry /\ ~types /\ FromBtf(seal)))
Rewrites(lines, rendered, types, dry) ==
    SelectSeq(Rendering(lines, types, dry), LAMBDA seal : rendered[seal.section].text # seal.content)

\* Mutant of Generate: the blocks are spliced in from the first to the last.
Generate_FromTheTop(lines, rendered, types) ==
    LET stale == Rewrites(lines, rendered, types, FALSE)
        Into(doc, seal) == SubSeq(doc, 1, seal.open) \o rendered[seal.section].text \o SubSeq(doc, seal.close, Len(doc))
    IN  IF stale = <<>> THEN lines ELSE Reseal(FoldLeft(Into, lines, stale))

Generate(lines, rendered, types) ==
    LET stale == Rewrites(lines, rendered, types, FALSE)
        Into(seal, doc) == SubSeq(doc, 1, seal.open) \o rendered[seal.section].text \o SubSeq(doc, seal.close, Len(doc))
    IN  IF stale = <<>> THEN lines ELSE Reseal(FoldRight(Into, stale, lines))

\* main without an option: what is wrong with the document, and what the generator would change.
Clean(lines, stem, rendered) ==
    /\ CheckDocument(lines, stem) = {}
    /\ Rewrites(lines, rendered, FALSE, TRUE) = <<>>
    /\ \A seal \in ToSet(Rendering(lines, FALSE, TRUE)) : rendered[seal.section].problems = {}

-----------------------------------------------------------------------------
(* bpcgen.py: what sections 2, 5 and 7 are made of, given the header, the  *)
(* types of a kernel when there are any, and the corpus.  A line of a      *)
(* section is a source line or a fact: what it is about and the values it  *)
(* prints; its wording is left out.                                        *)

VERSION == "0.2"
SCENEDEPTH == 4
POINTERSIZES == [x86_64 |-> 8, arm64 |-> 8, aarch64 |-> 8, riscv64 |-> 8, i386 |-> 4, x86 |-> 4, arm |-> 4]

Fact(about, values) == [k |-> "fact", of |-> <<about>> \o values]
When(condition, lines) == IF condition THEN lines ELSE <<>>
Each(s, Of(_)) == FlattenSeq([i \in DOMAIN s |-> Of(s[i])])

\* Request.from_header, and bytes_per_pointer.
Request(header) ==
    LET Names(key) == SelectSeq(Listed(header, key), LAMBDA name : name # "")
    IN  [pin |-> Scalar(header, "pin"), arch |-> Scalar(header, "arch"), pointer |-> Scalar(header, "pointer-size"),
         structures |-> Names("structures"), interfaces |-> Names("interfaces"), ops |-> Names("ops"),
         artefacts |-> Names("artefacts")]
PointerBytes(request) ==
    CASE request.pointer \in {"1", "2", "4", "8"} -> CHOOSE n \in {1, 2, 4, 8} : ToString(n) = request.pointer
      [] request.pointer \notin {"1", "2", "4", "8"} /\ request.arch \in DOMAIN POINTERSIZES -> POINTERSIZES[request.arch]
      [] OTHER -> 8

Source(of, path, evidence, request) ==
    [k |-> "source", of |-> of, path |-> path, evidence |-> evidence, pin |-> request.pin, arch |-> request.arch]

\* btf_source: types read off a machine are evidence until a note beside them says otherwise.
BtfSource(types, request) == Source("btf", types.path, types.evidence # <<FALSE>>, request)

\* artefact_paths: the first file of the corpus under each name.
ArtefactPaths(request, corpus) ==
    [i \in DOMAIN request.artefacts |->
        [one |-> request.artefacts[i], file |-> SelectSeq(corpus, LAMBDA file : file.stem = request.artefacts[i])]]

NotEvidence(path) == <<Fact("not evidence", <<path>>)>>

\* _waiting_on_btf: what there is to say with no types to read.
WaitingOnBtf(names, source) ==
    <<SourceLine(source), Fact("no types", <<Len(names)>>)>> \o Each(names, LAMBDA name : <<Fact("wanted", <<name>>)>>)

\* The lines, and the names there was nothing for.
Rendered(text, problems) == [text |-> text, problems |-> problems]

-----------------------------------------------------------------------------
(* Section 2: the structures a mechanism is built of.                      *)

LayoutBlock(layout, tagsFor) ==
    LET Row(f) == <<Fact("field", <<f.at, f.size, f.bits, f.path>> \o tagsFor[f.type])>>
        Hole(h) == <<Fact("hole", <<h.size, h.at, h.after>>)>>
        tags == Each(layout.fields, LAMBDA f : tagsFor[f.type])
    IN  <<Fact("structure", <<layout.name>>), Fact("size", <<layout.size, Len(layout.fields), Len(layout.holes)>>)>>
        \o Each(layout.fields, Row) \o When(tags # <<>>, <<Fact("legend", SetToSeq(ToSet(tags)))>>) \o Each(layout.holes, Hole)

NotThere(name) == <<Fact("structure", <<name>>), Fact("not there", <<name>>)>>

\* The opening of a section made from types.
FromTypes(types, request) ==
    <<SourceLine(BtfSource(types, request)), Fact("types of", <<types.path, PointerBytes(request)>>)>>
    \o When(types.evidence = <<FALSE>>, NotEvidence(types.path))

Section2(request, types, tagsFor) ==
    IF types = <<>> THEN Rendered(WaitingOnBtf(request.structures, Source("none", "", FALSE, request)), {})
    ELSE LET found == types[1].layouts
             Block(name) == IF name \in DOMAIN found THEN LayoutBlock(found[name], tagsFor) ELSE NotThere(name)
         IN  Rendered(FromTypes(types[1], request) \o Each(request.structures, Block)
                      \o When(request.structures = <<>>, <<Fact("names nothing", <<>>)>>),
                      ToSet(request.structures) \ DOMAIN found)

-----------------------------------------------------------------------------
(* Section 7: the functions and the operation tables of a mechanism.       *)

OpsBlock(table) ==
    LET filled == SelectSeq(table.slots, LAMBDA slot : slot.filledBy # "")
    IN  <<Fact("structure", <<table.name>>), Fact("operations", <<Len(table.slots), Len(table.data)>>)>>
        \o Each(table.slots, LAMBDA slot : <<Fact("slot", <<slot.name, slot.filledBy>>)>>)
        \o When(filled = <<>>, <<Fact("none filled", <<>>)>>)

Section7(request, types) ==
    LET wanted == request.interfaces \o request.ops
    IN  IF types = <<>> THEN Rendered(WaitingOnBtf(wanted, Source("none", "", FALSE, request)), {})
        ELSE LET known == types[1].functions  tables == types[1].tables
                 Signed(name) == <<Fact("function", <<name, IF name \in DOMAIN known THEN known[name] ELSE "no symbol">>)>>
                 Table(name) == IF name \in DOMAIN tables THEN OpsBlock(tables[name]) ELSE NotThere(name)
             IN  Rendered(FromTypes(types[1], request)
                          \o When(request.interfaces # <<>>, <<Fact("functions", <<>>)>>)
                          \o Each(request.interfaces, Signed) \o Each(request.ops, Table)
                          \o When(wanted = <<>>, <<Fact("names nothing", <<>>)>>),
                          (ToSet(request.interfaces) \ DOMAIN known) \cup (ToSet(request.ops) \ DOMAIN tables))

-----------------------------------------------------------------------------
(* Section 5: the artefacts of the corpus.                                 *)

\* _pair_up: the other half of a pair is shown with the one that names it, and not on its own.
PairUp(real) ==
    LET Named(one) == SelectSeq(real, LAMBDA other : other.file[1].name = one.file[1].pair)
        Turn(s, one) ==
            IF one.one \in s.hidden \/ Named(one) = <<>> \/ Last(Named(one)).one = one.one THEN s
            ELSE [partners |-> (one.one :> <<Last(Named(one)).file[1]>>) @@ s.partners,
                  hidden |-> s.hidden \cup {Last(Named(one)).one}]
    IN  FoldLeft(Turn, [partners |-> [one \in {} |-> <<>>], hidden |-> {}], real)

\* The bodies by what the artefact is; one of no known kind has none.
GraphBlock(file) == <<Fact("calls", <<file.frames, file.roots, file.depth>>), Fact("tree", <<file.name>>)>>
                    \o When(file.frames > 0, <<Fact("scene", <<SCENEDEPTH>>)>>)

SplatBlock(splat) ==
    LET Where(link) == IF link.stack = <<>> THEN "no stack recorded" ELSE link.stack[1]
    IN  <<Fact("cycle", splat.cycle), Fact("holding", <<splat.holding>>), Fact("acquiring", <<splat.acquiring>>)>>
        \o Each(splat.chain, LAMBDA link : <<Fact("link", <<link.name, Where(link)>>)>>)
        \o Each(splat.steps, LAMBDA step : <<Fact("step", <<step>>)>>)
        \o Each(SelectSeq(splat.chain, LAMBDA link : link.stack # <<>>), LAMBDA link : <<Fact("taken at", link.stack)>>)

\* Counters of one reading, or of two side by side: those of the first, then those only the other has.
StatsBlock(file, partner) ==
    LET Of(f, name) == IF name \in DOMAIN f.values THEN <<f.values[name]>> ELSE <<>>
        later == IF partner = <<>> THEN {} ELSE DOMAIN partner[1].values \ DOMAIN file.values
        names == SetToSeq(DOMAIN file.values) \o SetToSeq(later)
        Ceiling(name) == IF name \in DOMAIN file.maxima THEN <<file.maxima[name]>> ELSE <<>>
        Row(name) == IF partner = <<>> THEN <<Fact("counter", <<name>> \o Of(file, name) \o Ceiling(name))>>
                     ELSE <<Fact("change", <<name, Of(file, name), Of(partner[1], name), Ceiling(name)>>)>>
    IN  <<Fact("checker", <<file.values["debug_locks"]>>)>>
        \o When(partner # <<>>, <<Fact("checker", <<partner[1].values["debug_locks"]>>)>>) \o Each(names, Row)

\* What was written into a buffer is what is in it, what was thrown away and what was read out.
BufferBlock(file) ==
    LET Of(name) == IF name \in DOMAIN file.values THEN file.values[name] ELSE 0
    IN  Each(SetToSeq(DOMAIN file.values), LAMBDA name : <<Fact("counter", <<name, file.values[name]>>)>>)
        \o When({"entries", "overrun"} \subseteq DOMAIN file.values,
                <<Fact("written", <<Of("entries") + Of("overrun") + Of("read events"), Of("entries"), Of("overrun")>>)>>)
        \o When(file.window # <<>>, <<Fact("window", file.window)>>)

ArtefactBlock(file, partner) ==
    <<Fact("artefact", <<file.name>> \o When(partner # <<>>, <<partner[1].name>>)),
      Fact(IF file.tracer # "" THEN "traced" ELSE "taken by", <<file.tracer>>)>>
    \o When(~file.evidence, NotEvidence(file.name))
    \o CASE file.tracer = "function_graph" -> GraphBlock(file)
         [] file.tracer # "function_graph" /\ file.route = "lockdep-splat" -> SplatBlock(file.splat)
         [] file.tracer # "function_graph" /\ file.route = "lockdep-stats" -> StatsBlock(file, partner)
         [] file.tracer # "function_graph" /\ file.route = "tracefs-stats" -> BufferBlock(file)
         [] OTHER -> <<>>

Section5(request, corpus) ==
    LET found  == ArtefactPaths(request, corpus)
        real   == SelectSeq(found, LAMBDA one : one.file # <<>>)
        paired == PairUp(real)
        shown  == SelectSeq(real, LAMBDA one : one.one \notin paired.hidden)
        Partner(one) == IF one.one \in DOMAIN paired.partners THEN paired.partners[one.one] ELSE <<>>
        evidence == real # <<>> /\ \A i \in DOMAIN real : real[i].file[1].evidence
        source == IF real = <<>> THEN Source("none", "", FALSE, request) ELSE Source("corpus", "corpora", evidence, request)
    IN  Rendered(<<SourceLine(source), Fact("artefacts", <<Len(real)>>)>>
                 \o Each(shown, LAMBDA one : ArtefactBlock(one.file[1], Partner(one))),
                 {found[i].one : i \in {j \in DOMAIN found : found[j].file = <<>>}})

\* render, for the document with these lines.
Render(lines, types, corpus, tagsFor, section) ==
    LET request == Request(FrontMatter(lines))
    IN  CASE section = "2" -> Section2(request, types, tagsFor)
          [] section = "5" -> Section5(request, corpus)
          [] section = "7" -> Section7(request, types)
============================================================================
