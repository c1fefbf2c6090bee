------------------------------ MODULE Reading ------------------------------
(***************************************************************************)
(* A text of the corpus under one of the repository's readers, as          *)
(* kxray/corpus/index.py calls them: which reader, the text so far, and    *)
(* what the reader was last asked about it.  A text grows by pieces, the   *)
(* runs of lines a kernel prints together.                                 *)
(***************************************************************************)
EXTENDS Lines

CONSTANTS
    Pieces,      \* for each kind of text, the pieces it is made of
    MaxPieces,   \* for each kind, the most pieces in a text
    EventFormats \* the layouts events are bound to, by name

VARIABLES reader, text, answers

readingVars == <<reader, text, answers>>

LD == INSTANCE Lockdep
KC == INSTANCE Kconfig
SF == INSTANCE SourceFiles
PF == INSTANCE ProcFiles
TT == INSTANCE TraceText
RC == INSTANCE Recordings

\* The texts are made of lines the readers' patterns tell apart.
ASSUME PiecesAssumption ==
    LET Made(kind, kinds) == \A piece \in Pieces[kind] : {piece[i].k : i \in DOMAIN piece} \subseteq kinds
    IN  /\ Made("kconfig-source", KC!LineKinds)
        /\ Made("lockdep-splat", LD!LineKinds) /\ Made("lockdep-stats", LD!LineKinds)
        /\ Made("lockdep-classes", LD!LineKinds)

\* A piece is a sequence of lines; in MAINTAINERS a line that is not blank says something, the
\* letter of a tag or the words of a bare line.
ASSUME TextsAssumption ==
    /\ \A kind \in DOMAIN Pieces : \A piece \in Pieces[kind] :
           Len(piece) \in Nat /\ piece = [i \in 1..Len(piece) |-> piece[i]]
    /\ \A piece \in Pieces["maintainers"] : \A i \in DOMAIN piece : piece[i].k # "blank" => SF!NameOf(piece[i]) # ""

-----------------------------------------------------------------------------
(* index.py.                                                               *)

Whole == FlattenSeq(text)

\* A stat file is one line, whose words are the lines of this text.
StatOf(lines) == PF!ParseStat([i \in DOMAIN lines |-> lines[i].v], {"1"})

FieldsOf(formats) == FlattenSeq([i \in DOMAIN formats |-> formats[i].fields])
WordsOf(stats) == FlattenSeq([i \in DOMAIN stats |-> stats[i].values \o stats[i].extra])

\* The readers, by the kind of an artefact: what was found in it, and its account when it keeps one.
Found(kind, lines) ==
    CASE kind = "function"        -> TT!ParseFunctions(lines).entries
      [] kind = "events"          -> TT!ParseEvents(lines, EventFormats).entries
      [] kind = "event-format"    -> FieldsOf(TT!ParseFormat(lines))
      [] kind = "tracefs-stats"   -> SetToSeq(DOMAIN TT!ParseBuffer(lines, "count"))
      [] kind = "proc-keyed"      -> PF!ParseKeyed(lines).rows
      [] kind = "proc-percpu"     -> PF!ParsePercpu(lines).rows
      [] kind = "proc-maps"       -> PF!ParseMaps(lines).rows
      [] kind = "proc-version"    -> PF!ParseVersion(lines).rows
      [] kind = "proc-pidstat"    -> WordsOf(StatOf(lines))
      [] kind = "kallsyms"        -> PF!ParseKallsyms(lines).rows
      [] kind = "maintainers"     -> SF!ParseMaintainers(lines).sections
      [] kind = "syscall-table"   -> SF!ParseSyscalls(lines)
      [] kind = "kconfig-source"  -> KC!ParseKconfig(lines).symbols
      [] kind = "lockdep-classes" -> LD!ParseClasses(lines, <<>>)
      [] kind = "lockdep-stats"   -> SetToSeq(DOMAIN LD!ParseStats(lines).values)
      [] kind = "lockdep-splat"   -> LD!Splats(lines)
      [] kind \in {"none", "recipes", "listing", "fragment"} -> <<>>

Account(kind, lines) ==
    CASE kind = "function"        -> <<TT!ParseFunctions(lines).account>>
      [] kind = "events"          -> <<TT!ParseEvents(lines, EventFormats).account>>
      [] kind = "event-format"    -> <<TT!FormatAccount(lines)>>
      [] kind = "tracefs-stats"   -> <<TT!BufferAccount(lines)>>
      [] kind = "proc-keyed"      -> <<PF!ParseKeyed(lines).account>>
      [] kind = "proc-percpu"     -> <<PF!ParsePercpu(lines).account>>
      [] kind = "proc-maps"       -> <<PF!ParseMaps(lines).account>>
      [] kind = "proc-version"    -> <<PF!ParseVersion(lines).account>>
      [] kind = "kallsyms"        -> <<PF!ParseKallsyms(lines).account>>
      [] kind = "maintainers"     -> <<SF!ParseMaintainers(lines).account>>
      [] kind = "syscall-table"   -> <<SF!SyscallAccount(lines)>>
      [] kind = "kconfig-source"  -> <<KC!ParseKconfig(lines).account>>
      [] kind = "lockdep-classes" -> <<LD!AccountClasses(lines)>>
      [] kind = "lockdep-stats"   -> <<LD!AccountStats(lines)>>
      [] OTHER -> <<>>

\* index.read
Read(kind, lines) == [found |-> Len(Found(kind, lines)), lines |-> Len(lines), account |-> Account(kind, lines)]

-----------------------------------------------------------------------------
(* What a lesson asks of a text, kind by kind.                             *)

AskFunctions(log) ==
    LET names == {log.entries[i].name : i \in DOMAIN log.entries}
    IN  [counts |-> TT!Counts(log), callers |-> [n \in names |-> TT!Callers(log, n)],
         callees |-> [n \in names |-> TT!Callees(log, n)], cpus |-> TT!CpusOf(log),
         contexts |-> TT!Contexts(log), lost |-> TT!Lost(log), overran |-> TT!Overran(log)]
AskEvents(log) == [unbound |-> TT!Unbound(log), disagreements |-> TT!Disagreements(log)]
AskFormat(lines) ==
    LET format == TT!ParseFormat(lines)
    IN  [holes |-> IF format = <<>> THEN <<>> ELSE TT!FormatHoles(format[1]),
         size |-> IF format = <<>> THEN 0 ELSE TT!RecordSize(format[1]),
         loaded |-> DOMAIN TT!LoadFormats(<<lines>>)]
AskKeyed(file) == {<<key, PF!GetKey(file, key) # <<>>, PF!BytesOf(file, key)>> : key \in {file.rows[i].key : i \in DOMAIN file.rows}}
AskPercpu(file) ==
    [quiet |-> PF!Quiet(file), busiest |-> PF!Busiest(file, 2), hardware |-> PF!Hardware(file, {"0", "1"}),
     totals |-> {PF!TotalOf(file, file.rows[i].label) : i \in DOMAIN file.rows}]
AskMaps(space) == [size |-> PF!TotalSize(space), gaps |-> PF!Gaps(space), at |-> [a \in 0..5 |-> PF!At(space, a)]]
AskVersion(rows) ==
    IF rows = <<>> THEN [parts |-> <<>>]
    ELSE [parts |-> PF!Parts(rows[1]), atLeast |-> PF!AtLeast(rows[1], <<7, 2>>), preemption |-> PF!Preemption(rows[1])]
AskStat(stat) == [i \in DOMAIN stat |-> [state |-> PF!State(stat[i]), trapped |-> PF!Trapped(stat[i])]]
AskKallsyms(symbols) == [families |-> PF!Families(symbols), hidden |-> PF!AllHidden(symbols)]
AskMaintainers(sections) ==
    LET paths == {<<"mm", "slub.c">>, <<"mm", "kasan", "hw.c">>, <<"fs", "io.c">>}
    IN  [hits |-> [p \in paths |-> SF!Lookup(sections, p)], who |-> [p \in paths |-> SF!WhoFor(sections, p)],
         specific |-> [p \in paths |-> SF!Specific(sections, p)], content |-> SF!ByContent(sections, {"slab"})]
AskSyscalls(calls) ==
    LET names == {calls[i].name : i \in DOMAIN calls}
    IN  [numbers |-> [n \in names |-> SF!NumberOf(calls, n, "")], entries |-> [n \in names |-> SF!EntryOf(calls, n, "")],
         by |-> [n \in 0..2 |-> SF!ByNumber(calls, n, "")], reserved |-> SF!Reserved(calls), holes |-> SF!NumberHoles(calls),
         same |-> {n \in names : SF!SameNumber(calls, calls, n)}]
AskKconfig(file) ==
    LET names == {file.symbols[i].name : i \in DOMAIN file.symbols}
    IN  [why |-> [n \in names |-> KC!Why(file, n)], hidden |-> KC!Hidden(file),
         conditions |-> [i \in DOMAIN file.symbols |-> KC!Conditions(file.symbols[i])]]
\* tools/kconfig.py over a text that is one fragment of a profile: its own setting of the X86
\* symbols, a symbol that is required and one that is dropped, and the config that was built.
AskFragment(lines) ==
    LET arch == [symbols |-> <<[name |-> "X86", selects |-> <<[symbol |-> "HAVE_TIMER", cond |-> "X86_64"]>>]>>]
        profile == [order |-> 1, kill |-> TRUE, kernel |-> "kernel", fragments |-> <<lines>>,
                    drops |-> {"CONFIG_SMP"}, reason |-> TRUE]
        release == [version |-> "7.2", url |-> "x", sha256 |-> TRUE, recorded |-> "x"]
        pin == [schema |-> 1, blocks |-> [kernel |-> release, fallback |-> release], profiles |-> <<profile>>]
        built == <<[k |-> "set", v |-> "CONFIG_MMU", value |-> "y"], [k |-> "banner", v |-> ""]>>
    IN  [found |-> KC!PinFindings(<<pin>>, {"CONFIG_MMU"}, arch, "CONFIG_TIMER" :> "HAVE_TIMER"),
         missing |-> KC!Verify(profile, KC!ReadConfig(built), {"CONFIG_MMU"})]
\* symbols.find in the tree this text is the one file of.
AskTree(lines) ==
    LET tree == [whole |-> ("fs/io.c" :> lines), excerpts |-> ("mm/slub.c" :> <<>>), present |-> TRUE, complete |-> FALSE]
        found == SF!FindTree("v7.2.2", "v7.2.2" :> tree, tree)
    IN  [found |-> SF!FindSymbol(found, "read", "read" :> "sys_read", <<"fs/io.c", "mm/slub.c">>),
         missing |-> SF!Missing(found, {"fs/io.c", "mm/slub.c", "mm/gone.c"})]
\* kxbox/corpus.py and kxbox/profiles.py over a text of recipes, profiles, trees and fragments.
AskRecipes(lines) ==
    LET Of(kind) == SelectSeq(lines, LAMBDA l : l.k = kind)
        ByKey(kind) == [key \in {Of(kind)[i].key : i \in DOMAIN Of(kind)} |-> Last(SelectSeq(Of(kind), LAMBDA l : l.key = key)).v]
        pin     == RC!PinFile(<<[profiles |-> Of("profile"), trees |-> ByKey("tree")]>>, <<>>)
        mine    == RC!Recipes(Of("recipe"), "teaching")
        marks   == ByKey("mark")
        pinned  == RC!PinnedVersion(pin, "teaching")
        release == RC!TapeOf(mine, "version")
    IN  [evidence |-> RC!Evidence(mine, marks), repeatable |-> RC!Repeatable(mine), pinned |-> pinned,
         insmod |-> RC!Insmod(mine, "slab.ko"), tape |-> RC!TapeOf(mine, "slab"), sh |-> RC!Sh(mine, "uname", ""),
         read |-> [p \in {"trace", "kallsyms"} |-> RC!ReadFile(mine, p, "")],
         named |-> RC!ReadFile(mine, "trace", "slab"), arch |-> RC!Arch(pin, "teaching", ByKey("fragment")),
         profile |-> RC!ForBuild("D-lockdep"),
         banner |-> [live \in BOOLEAN |-> RC!BoxBanner(RC!Boot(~live, TRUE), IF release = {} THEN <<>> ELSE <<CHOOSE r \in release : TRUE>>,
                                                       pinned, RC!Evidence(mine, marks))]]
\* kxray/corpus/index.py, kxray/proc and kxray/whereami.py over a text of files and of places.
AskListing(lines) ==
    LET files     == SelectSeq(lines, LAMBDA l : l.k = "file")
        places    == SelectSeq(lines, LAMBDA l : l.k = "place")
        artefacts == RC!FindArtefacts(files)
    IN  [artefacts |-> artefacts, got |-> [f \in ToSet(files) |-> RC!GetArtefact(artefacts, f.id)],
         standing |-> TT!Standing(places),
         promise |-> [f \in ToSet(files) |-> LET kind == PF!Classify(f.abi)
                                             IN  <<kind, PF!Documented(kind), PF!Dependable(kind), PF!ReaderFor(f.id)>>]]
AskStats(stats) == [off |-> LD!Off(stats), near |-> LD!NearLimits(stats, 90)]
AskSplats(splats) ==
    [i \in DOMAIN splats |->
        [cycle |-> LD!Cycle(splats[i]), edges |-> LD!Edges(splats[i]),
         taken |-> [j \in DOMAIN splats[i].chain |-> LD!TakenIn(splats[i].chain[j], {"lock_acquire"})]]]

Answers(kind, lines) ==
    CASE kind = "function"        -> AskFunctions(TT!ParseFunctions(lines))
      [] kind = "events"          -> AskEvents(TT!ParseEvents(lines, EventFormats))
      [] kind = "event-format"    -> AskFormat(lines)
      [] kind = "tracefs-stats"   -> TT!Window(lines)
      [] kind = "proc-keyed"      -> AskKeyed(PF!ParseKeyed(lines))
      [] kind = "proc-percpu"     -> AskPercpu(PF!ParsePercpu(lines))
      [] kind = "proc-maps"       -> AskMaps(PF!ParseMaps(lines))
      [] kind = "proc-version"    -> AskVersion(PF!ParseVersion(lines).rows)
      [] kind = "proc-pidstat"    -> AskStat(StatOf(lines))
      [] kind = "none"            -> AskTree(lines)
      [] kind = "recipes"         -> AskRecipes(lines)
      [] kind = "listing"         -> AskListing(lines)
      [] kind = "fragment"        -> AskFragment(lines)
      [] kind = "kallsyms"        -> AskKallsyms(PF!ParseKallsyms(lines).rows)
      [] kind = "maintainers"     -> AskMaintainers(SF!ParseMaintainers(lines).sections)
      [] kind = "syscall-table"   -> AskSyscalls(SF!ParseSyscalls(lines))
      [] kind = "kconfig-source"  -> AskKconfig(KC!ParseKconfig(lines))
      [] kind = "lockdep-classes" -> LD!ParseClasses(lines, <<1>>)
      [] kind = "lockdep-stats"   -> AskStats(LD!ParseStats(lines))
      [] kind = "lockdep-splat"   -> AskSplats(LD!Splats(lines))

-----------------------------------------------------------------------------
ReadingInit == reader = "" /\ text = <<>> /\ answers = <<>>

Take == /\ reader = ""
        /\ reader' \in DOMAIN Pieces
        /\ UNCHANGED <<text, answers>>

Grow == /\ reader # ""
        /\ Len(text) < MaxPieces[reader]
        /\ \E piece \in Pieces[reader] : text' = Append(text, piece)
        /\ answers' = <<>>
        /\ UNCHANGED reader

Ask == /\ reader # ""
       /\ answers = <<>>
       /\ answers' = <<Read(reader, Whole), Answers(reader, Whole)>>
       /\ UNCHANGED <<reader, text>>

ReadingNext == Take \/ Grow \/ Ask

ReadingSpec == ReadingInit /\ [][ReadingNext]_readingVars

-----------------------------------------------------------------------------
(* What a reader makes of a text grown in any order.                       *)

\* The lines of a kind in from..to that are not a help text's: a block line starts a line.
Lined(kinds, from, to) == {i \in from..to : Whole[i].k \in kinds /\ ~Whole[i].indented}

\* The conditions open above a line: an `if` is open when every endif below it closes a later one.
OpenIfs(n) ==
    LET Open(i) == \A j \in i..(n - 1) :
                       Cardinality(Lined({"endif"}, i, j)) < Cardinality(Lined({"if"}, i, j))
        open == SelectSeq([i \in 1..(n - 1) |-> i], LAMBDA i : i \in Lined({"if"}, 1, n - 1) /\ Open(i))
    IN  [i \in DOMAIN open |-> Whole[open[i]].v]
Ends == {"config", "menuconfig", "if", "endif", "choice", "endchoice"}
Depends(n) ==
    LET under == SelectSeq([i \in DOMAIN Whole |-> i],
                           LAMBDA i : i > n /\ Whole[i].k = "depends" /\ Lined(Ends, n + 1, i) = {}
                                        /\ \A j \in n + 1..i : Whole[j].k # "help")
    IN  [i \in DOMAIN under |-> Whole[under[i]].v]
InChoice(n) == LET marks == Lined({"choice", "endchoice"}, 1, n)
               IN  marks # {} /\ Whole[Max(marks)].k = "choice"

\* The lines of a kind right under line n: up to the first that is not of the kind.
Under(kind, n) ==
    LET stops == {i \in n + 1..Len(Whole) : Whole[i].k # kind}
    IN  SubSeq(Whole, n + 1, IF stops = {} THEN Len(Whole) ELSE Min(stops) - 1)

\* The lines from below line n to the next blank one.
Paragraph(n) ==
    LET blanks == {i \in n + 1..Len(Whole) : Whole[i].k = "blank"}
    IN  SubSeq(Whole, n + 1, IF blanks = {} THEN Len(Whole) ELSE Min(blanks) - 1)

\* The links printed between a banner and the next, each with the frames right under it.
LinksFrom(banner) ==
    LET later == LD!At(Whole, "banner", banner + 1, Len(Whole))
        links == LD!At(Whole, "link", banner, IF later = {} THEN Len(Whole) ELSE Min(later))
        Stack(i) == LET frames == Under("frame", i) IN [j \in DOMAIN frames |-> frames[j].fn]
    IN  {[index |-> Whole[i].index, name |-> Whole[i].name, stack |-> Stack(i)] : i \in links}

\* Everything a reader keeps is under the heading it was printed under, however the blocks of a
\* text follow one another: a symbol's conditions are the ifs and the choice around it, whatever
\* its help text looks like, a subsystem has the tags of its own paragraph, and a lock of a
\* cycle has the stack of its own report.
NothingMisplaced ==
    /\ reader = "kconfig-source" =>
          \A file \in {KC!ParseKconfig(Whole)} :
              \A s \in ToSet(file.symbols) :
                 /\ s.within = OpenIfs(s.line) /\ s.depends = Depends(s.line)
                 /\ (s.choice # "") = InChoice(s.line)
                 /\ InChoice(s.line) => \E c \in ToSet(file.choices) : Contains(c.members, s.name)
    /\ reader = "maintainers" =>
          \A section \in ToSet(Found(reader, Whole)) :
              LET tags == SelectSeq(Paragraph(section.line), LAMBDA l : l.k = "tag")
              IN  section.tags = [i \in DOMAIN tags |-> <<tags[i].tag, tags[i].v>>]
    /\ reader = "lockdep-splat" =>
          \A splat \in ToSet(Found(reader, Whole)) :
              \E banner \in LD!At(Whole, "banner", 1, Len(Whole)) :
                  \E links \in {LinksFrom(banner)} :
                      ToSet(splat.chain) = links /\ Len(splat.chain) = Cardinality(links)

\* The lines that what was found was made of.
LinesHeld(kind, found) ==
    IF kind = "maintainers" THEN FoldLeft(LAMBDA n, s : n + 1 + Len(s.tags), 0, found) ELSE Len(found)
\* What a reader holds and what it says it read are the same lines: every line of a text is
\* accounted for once, in order, and as many were read as what was found was made of.  A reader
\* that dropped a line in silence, or held one it calls unparsed, would not add up.
EveryLineAccounted ==
    reader # "" =>
        \A account \in {Account(reader, Whole)}, held \in {Found(reader, Whole)} :
        /\ RC!AddsUp(account, Whole)
        /\ account # <<>> /\ reader \notin {"event-format", "tracefs-stats", "kconfig-source", "lockdep-stats"} =>
              LinesHeld(reader, held) = Counted(account[1]).read
        /\ account # <<>> => Len(held) <= Counted(account[1]).read
============================================================================
