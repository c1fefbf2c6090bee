---------------------------- MODULE MCWorkbench ----------------------------
(***************************************************************************)
(* Small instances of the desks: the pieces of the texts that are read,    *)
(* the frames and lines of the runs compared, the types of a blob, the     *)
(* commands of a session, a draft of a blueprint, a lesson's citations and *)
(* claims, and what is published.                                          *)
(***************************************************************************)
EXTENDS Workbench, TLC

-----------------------------------------------------------------------------
(* The pieces of the texts that are read.                                  *)

L(kind) == [k |-> kind, v |-> ""]
V(kind, value) == [k |-> kind, v |-> value]
Blank == L("blank")

\* A report of lockdep: the head of one between two locks, its links, and its scenario.
SplatHead(task, first, second) ==
    <<L("rule"), L("banner"), [k |-> "version", release |-> "7.2.2"], L("rule"), [k |-> "who", task |-> task],
      [k |-> "lock", name |-> first], Blank, L("holding"), [k |-> "lock", name |-> second], Blank, L("info")>>
SplatLink(n, name, fns) ==
    <<[k |-> "link", index |-> n, name |-> name]>> \o [i \in DOMAIN fns |-> [k |-> "frame", fn |-> fns[i]]] \o <<Blank>>
SplatPieces ==
    {SplatHead("abba", "a", "b"), SplatHead("baab", "b", "a"), SplatLink(1, "b", <<"lock_acquire", "second">>),
     SplatLink(0, "a", <<"first">>), SplatLink(0, "b", <<>>),
     <<L("unsafe"), Blank, [k |-> "cpus", columns |-> <<0, 1>>], L("step"), L("step"), L("deadlock")>>}

\* A configuration: symbols with help that looks like a condition, choices, and conditions.
C(kind, value, indented) == [k |-> kind, v |-> value, indented |-> indented, cond |-> "", type |-> "bool"]
KconfigPieces ==
    {<<C("config", "SLUB", FALSE), C("type", "Slab", TRUE), C("depends", "MMU", TRUE), C("select", "X", TRUE),
       C("help", "", TRUE), C("if", "in doubt", TRUE), C("blank", "", FALSE), C("depends", "nothing", TRUE)>>,
     <<C("config", "X", FALSE), C("type", "", TRUE), C("imply", "SLUB", TRUE), C("depends", "NET", TRUE), C("default", "y", TRUE)>>,
     <<C("if", "EXPERT", FALSE)>>, <<C("endif", "", FALSE)>>, <<C("source", "mm/Kconfig", FALSE), C("other", "", FALSE)>>,
     <<C("choice", "", FALSE), C("prompt", "one of", TRUE), C("default", "SLUB", TRUE)>>, <<C("endchoice", "", FALSE), C("comment", "", FALSE)>>}

Tag(tag, value) == [k |-> "tag", tag |-> tag, v |-> value]
MaintainersPieces ==
    {<<V("heading", "Maintainers List"), V("underline", "---"), Blank>>, <<V("title", "SLAB"), Tag("M", "Vlastimil"), Tag("F", <<"mm", "slub.c">>), Tag("K", "slab")>>,
     <<V("title", "MEMORY"), Tag("L", "linux-mm"), Tag("F", <<"mm", "**">>), Tag("X", <<"mm", "kasan", "**">>)>>,
     <<V("title", "THE REST"), Tag("M", "Linus"), Tag("N", "io.c")>>, <<V("title", "a remark")>>, <<Tag("Note", "")>>, <<Blank>>}

Free == [interrupt |-> ".", depth |-> 0]
Call(name, caller) == [k |-> "entry", body |-> "call", name |-> name, caller |-> caller, cpu |-> 0, flags |-> Free]
Happened(name, pairs) == [k |-> "entry", body |-> "event", name |-> name, pairs |-> pairs, cpu |-> 1,
                          flags |-> [interrupt |-> "h", depth |-> 1]]
Pair(key, number) == [key |-> key, text |-> [number |-> number]]
BannerPiece == <<[k |-> "banner", says |-> ("in_buffer" :> 2 @@ "written" :> 3)], [k |-> "banner", says |-> ("cpu_count" :> 2)]>>
FunctionPieces == {BannerPiece, <<Call("vfs_read", <<"ksys_read">>), Call("ksys_read", <<>>)>>, <<Blank>>,
                   <<[k |-> "entry", body |-> "event", name |-> "x", flags |-> Free]>>, <<[k |-> "other"]>>}
EventPieces == {BannerPiece, <<Happened("sched_switch", <<Pair("prev", TRUE), Pair("next", FALSE)>>)>>,
                <<Happened("sched_waking", <<Pair("odd", TRUE)>>), Happened("unknown", <<>>)>>, <<[k |-> "other"], Blank>>}
Field(name, offset, size) ==
    [k |-> "field", name |-> name, common |-> offset = 0, char |-> name = "comm", star |-> FALSE,
     count |-> IF name = "comm" THEN <<4>> ELSE <<>>, indirect |-> FALSE, offset |-> offset, size |-> size]
FormatPieces == {<<V("name", "sched_switch")>>, <<V("ID", 7), L("format:")>>, <<Field("type", 0, 2), Field("prev", 4, 4)>>,
                 <<Field("comm", 8, 4), L("print fmt")>>, <<L("other"), Blank>>}
Formats ==
    LET F(name, offset, size) == [name |-> name, common |-> offset = 0, char |-> FALSE, array |-> FALSE, offset |-> offset,
                                  size |-> size, data_loc |-> FALSE]
    IN  [sched_switch |-> [name |-> "sched_switch", id |-> 1, fields |-> <<F("type", 0, 2), F("prev", 4, 4), F("next", 8, 4)>>],
         sched_waking |-> [name |-> "sched_waking", id |-> 2, fields |-> <<F("type", 0, 2), F("pid", 4, 4)>>]]
Counter(kind, name, value) == [k |-> kind, name |-> name, v |-> value]
BufferPieces == {<<Counter("count", "entries", 2), Counter("count", "overrun", 0)>>, <<Counter("clock", "oldest event ts", 1)>>,
                 <<Counter("clock", "now ts", 5)>>, <<Counter("other", "", 0), Blank>>}

N(number) == [word |-> "n", number |-> number]
Unit == [word |-> "kB", number |-> <<>>]
Keyed(key, words) == [k |-> "pair", key |-> key, words |-> words]
KeyedPieces == {<<Keyed("MemFree", <<N(<<4>>), Unit>>), Keyed("MemFree", <<N(<<5>>)>>)>>, <<Keyed("Name", <<N(<<>>), N(<<>>)>>)>>, <<Blank, L("other")>>}
PercpuPieces == {<<[k |-> "names", words |-> <<"CPU0", "CPU1">>]>>, <<Keyed("0", <<N(<<3>>), N(<<4>>), N(<<>>)>>), Keyed("NMI", <<N(<<0>>), N(<<0>>)>>)>>,
                 <<Keyed("ERR", <<N(<<0>>)>>), Blank>>}
MapsPieces == {<<[k |-> "region", start |-> 0, end |-> 2]>>, <<[k |-> "region", start |-> 3, end |-> 4]>>, <<L("other"), Blank>>}
VersionPieces ==
    {<<[k |-> "banner", release |-> <<<<7>>, <<2>>, <<>>>>, build |-> "1", words |-> <<[upper |-> TRUE, preempt |-> FALSE], [upper |-> TRUE, preempt |-> TRUE]>>]>>,
     <<Blank>>, <<L("other")>>}
StatPieces == {<<V("w", "1")>>, <<V("w", "(")>>, <<V("w", ")"), V("w", "S"), V("w", "0")>>, <<V("w", "a")>>}
Sym(family, address) == [k |-> "symbol", family |-> family, address |-> address]
KallsymsPieces == {<<Sym("_ops", 4), Sym("", 0)>>, <<Sym("_fops", 0)>>, <<L("other"), Blank>>}
Row(number, name, entry) == [k |-> "row", number |-> number, abi |-> "common", name |-> name, entry |-> entry]
SyscallPieces == {<<Row(0, "read", "sys_read"), Row(2, "open", "")>>, <<Row(1, "read", "sys_old_read")>>, <<L("comment"), Blank>>, <<L("other")>>}
ClassPieces == {<<L("classes header")>>, <<[k |-> "class", name |-> "a"], [k |-> "class", name |-> "b"]>>, <<L("other"), Blank>>}
StatsPieces == {<<[k |-> "stat", name |-> "lock-classes", value |-> 90, max |-> <<100>>]>>,
                <<[k |-> "stat", name |-> "debug_locks", value |-> 0, max |-> <<>>]>>, <<L("other"), Blank>>}
Line(names, kind, semicolon) == [k |-> "line", matches |-> [n \in names |-> {kind}], semicolon |-> semicolon]
SourcePieces == {<<Line({"read"}, "syscall", FALSE)>>, <<Line({"sys_read", "read"}, "function", FALSE)>>, <<Line({"sys_read"}, "function", TRUE)>>}

Recipe(name, trace, saved) ==
    [k |-> "recipe", name |-> name, profile |-> "teaching", module |-> "slab.ko", trace |-> trace, files |-> saved,
     command |-> name, repeatable |-> trace # ""]
Keyed2(kind, key, value) == [k |-> kind, key |-> key, v |-> value]
RecipePieces ==
    {<<Recipe("slab", "traces/slab.txt", "trace" :> "traces/slab.txt")>>, <<Recipe("uname", "", <<>>), Recipe("version", "7.2.3", "kallsyms" :> "proc/k.txt")>>,
     <<[k |-> "profile", name |-> "A-full", kernel |-> "main", fragments |-> <<"base", "x86">>], Keyed2("tree", "main", "7.2.2")>>,
     <<Keyed2("mark", "traces/slab.txt", TRUE), Keyed2("mark", "proc/k.txt", FALSE)>>, <<Keyed2("fragment", "x86", {"CONFIG_64BIT"})>>}
File(id, dir, fits, toml, abi) == [k |-> "file", id |-> id, path |-> [dir |-> dir, fits |-> fits], toml |-> toml, described |-> TRUE, abi |-> abi]
ListingPieces ==
    {<<File("interrupts", "traces", {"flat-*.txt", "*.txt"}, FALSE, <<"proc">>)>>, <<File("kallsyms", "proc", {"kallsyms.txt"}, FALSE, <<"kallsyms", "proc">>)>>,
     <<File("interrupts", "traces", {"*.toml"}, TRUE, <<>>)>>, <<File("odd", "proc", {}, FALSE, <<"diskstats">>)>>,
     <<[k |-> "place", controls |-> TRUE, writable |-> TRUE]>>, <<[k |-> "place", controls |-> FALSE, writable |-> FALSE]>>}

Set(symbol, value) == [k |-> "set", v |-> symbol, value |-> value]
FragmentPieces == {<<Set("CONFIG_64BIT", "off"), Blank>>, <<Set("CONFIG_MMU", "y")>>, <<Set("CONFIG_TIMER", "y"), Set("CONFIG_SMP", "y")>>, <<L("other")>>}

TextPieces ==
    ("function" :> FunctionPieces @@ "events" :> EventPieces @@ "event-format" :> FormatPieces @@ "tracefs-stats" :> BufferPieces
     @@ "proc-keyed" :> KeyedPieces @@ "proc-percpu" :> PercpuPieces @@ "proc-maps" :> MapsPieces @@ "proc-version" :> VersionPieces
     @@ "proc-pidstat" :> StatPieces @@ "kallsyms" :> KallsymsPieces @@ "maintainers" :> MaintainersPieces
     @@ "syscall-table" :> SyscallPieces @@ "kconfig-source" :> KconfigPieces @@ "lockdep-classes" :> ClassPieces
     @@ "lockdep-stats" :> StatsPieces @@ "lockdep-splat" :> SplatPieces @@ "none" :> SourcePieces
     @@ "fragment" :> FragmentPieces @@ "recipes" :> RecipePieces @@ "listing" :> ListingPieces)
TextLengths == [kind \in DOMAIN TextPieces |->
                   CASE kind = "lockdep-splat" -> 5 [] kind \in {"kconfig-source", "maintainers"} -> 4
                     [] kind = "recipes" -> 4 [] OTHER -> 3]

-----------------------------------------------------------------------------
(* The runs that are compared: calls of a task on two processors, one that *)
(* is not complete and one of a worker; and lines with a value or two.     *)

Frame(depth, name, task, cpu, complete, time, own) ==
    [depth |-> depth, name |-> name, task |-> task, cpu |-> cpu, complete |-> complete, time |-> time, own |-> own]
RunFrames == {Frame(d, n, "sh", c, TRUE, 0, 1) : d \in {0, 1}, n \in {"read", "irq"}, c \in {0, 1}}
             \cup {Frame(0, "read", "", 0, FALSE, 2, 3), Frame(1, "copy", "kworker", 0, TRUE, 2, 3)}
Token(kind, value) == [k |-> kind, v |-> value]
RunLines == {<<Token("stamp", 1), Token("event task", 7), Token("event cpu", 0)>>,
             <<Token("stamp", 2), Token("event task", 9), Token("event cpu", 1)>>,
             <<Token("stamp", 2), Token("event task", 9), Token("pid field", 7), Token("event cpu", 1)>>,
             <<Token("pointer", 0), Token("offset", 3), Token("counter", 5)>>,
             <<Token("pointer", 4), Token("duration", 50)>>, <<Token("pointer", 8), Token("duration", 50)>>}

-----------------------------------------------------------------------------
(* The types of a blob, a number standing for the type declared then.      *)

AnInt(name, size, bits) == [kind |-> "int", name |-> name, size |-> size, encoding |-> 0, offset |-> 0, bits |-> bits]
Member(name, type, bit) == [name |-> name, type |-> type, bit |-> bit, width |-> 0]
Narrow(name, type, bit, width) == [name |-> name, type |-> type, bit |-> bit, width |-> width]
Struct(kind, name, size, members) == [kind |-> kind, name |-> name, size |-> size, members |-> members]
Constants(kind, name, size, values) == [kind |-> kind, name |-> name, size |-> size, values |-> values]
On(kind, name, type) == [kind |-> kind, name |-> name, type |-> type]
BlobTypes ==
    {AnInt("u8", 1, 8), AnInt("u32", 4, 32), AnInt("nibble", 1, 4), On("ptr", "", 2), On("typedef", "t", 1), On("type_tag", "user", 1),
     [kind |-> "array", name |-> "", element |-> 1, index |-> 1, nelems |-> 2],
     [kind |-> "func_proto", name |-> "", type |-> 1, params |-> <<[name |-> "x", type |-> 1]>>],
     Constants("enum", "e", 4, <<[name |-> "no", value |-> -1], [name |-> "x", value |-> 3]>>),
     Constants("enum64", "big", 8, <<[name |-> "x", value |-> 300]>>),
     [kind |-> "fwd", name |-> "S", union |-> TRUE], [kind |-> "decl_tag", name |-> "tag", type |-> 1, component |-> -1],
     [kind |-> "func", name |-> "f", type |-> 2, linkage |-> 1], [kind |-> "var", name |-> "v", type |-> 1, linkage |-> 1],
     [kind |-> "datasec", name |-> ".data", size |-> 4, variables |-> <<[type |-> 1, offset |-> 0, size |-> 4]>>],
     Struct("struct", "S", 16, <<Member("a", 1, 0), Member("b", 2, 64)>>), Struct("union", "", 8, <<Member("b", 2, 0), Member("a", 1, 0)>>),
     Struct("struct", "W", 20, <<Member("", 3, 32), Member("in", 3, 96)>>), Struct("struct", "ops", 24, <<Member("read", 3, 0), Member("x", 2, 64)>>),
     Struct("struct", "F", 8, <<Narrow("p", 1, 0, 3), Narrow("q", 1, 3, 1)>>)}

-----------------------------------------------------------------------------
(* A session: a short command, one with an argument, and one that wraps on *)
(* a narrow terminal.                                                      *)

TypedCommands == {<<"m">>, <<"c", "d", " ", "x", "y", "z">>}
PrintedOutputs == {<<"o", "nl">>, <<"o", "k", "cr", "n", "t", "u", "v", "nl">>}

-----------------------------------------------------------------------------
(* A blueprint of one mechanism, unsealed.                                 *)

Heading(name) == [k |-> "heading", name |-> name, titled |-> TRUE]
Of(key, value) == [k |-> "pair", key |-> key, list |-> FALSE, v |-> <<value>>]
List(key, values) == <<[k |-> "pair", key |-> key, list |-> TRUE, v |-> <<>>]>> \o [i \in DOMAIN values |-> [k |-> "item", v |-> values[i]]]
Rule == [k |-> "rule"]
Prose(words) == [k |-> "text", v |-> words]
Block(section) == <<Heading(section), [k |-> "open", section |-> section, hash |-> [sealed |-> FALSE, of |-> <<>>]],
                    [k |-> "close", section |-> section]>>
Case(tag) == [k |-> "tag", tag |-> tag]
SlabDraft ==
    <<Rule, Of("blueprint", "slab"), Of("title", "Slab"), Of("status", "partial"), Of("reviewed-by", "x"), Of("pin", "7.2"), Of("arch", "i386")>>
    \o List("lessons", <<>>) \o List("generated", <<"2", "5", "7">>) \o List("structures", <<"page">>)
    \o List("interfaces", <<"kmalloc">>) \o List("ops", <<"fops">>) \o List("artefacts", <<"slab", "after">>) \o <<Rule>>
    \o <<Heading("1")>> \o Block("2") \o <<Heading("3"), Heading("4"), Heading("4a"), [k |-> "numbered", checked |-> TRUE], Heading("4b"), Heading("4c")>>
    \o Block("5") \o <<Heading("6")>>
    \o <<Case("allocation-failure"), Case("concurrent-entry"), Case("wrong-context"), Case("signal"), Case("object-freed"),
         Case("refcount-zero"), Case("boundary-cases"), Case("hostile-input"), Case("bug-message")>>
    \o Block("7") \o <<Heading("8"), Heading("9")>>
SlabCorrections == {<<Of("status", "partial"), Of("status", "complete")>>, <<[k |-> "item", v |-> "page"], [k |-> "item", v |-> "gone"]>>,
                    <<[k |-> "item", v |-> "after"], [k |-> "item", v |-> "splat"]>>}
SlabRemarks == {[under |-> "block", line |-> Prose("by hand")], [under |-> "4a", line |-> [k |-> "numbered", checked |-> FALSE]]}
Table == [name |-> "fops", data |-> <<"owner">>, slots |-> <<[name |-> "read", filledBy |-> "sys_read"], [name |-> "open", filledBy |-> ""]>>]
SlabField(at, path, type) == [at |-> at, size |-> 4, bits |-> 0, path |-> path, type |-> type]
Kernel(evidence, holes) ==
    <<[path |-> "vmlinux", evidence |-> evidence, functions |-> ("kmalloc" :> "void *kmalloc(size_t)"), tables |-> ("fops" :> Table),
       layouts |-> ("page" :> [name |-> "page", size |-> 12, fields |-> <<SlabField(0, "flags", "ulong"), SlabField(8, "user", "__user")>>, holes |-> holes])]>>
SlabTypes == {<<>>, Kernel(<<>>, <<[size |-> 4, at |-> 4, after |-> "flags"]>>), Kernel(<<FALSE>>, <<>>)}
InCorpus(stem, pair, tracer, route, evidence) ==
    [stem |-> stem, name |-> stem, pair |-> pair, tracer |-> tracer, route |-> route, evidence |-> evidence, frames |-> 3, roots |-> 1, depth |-> 2,
     values |-> ("debug_locks" :> 1 @@ stem :> 2 @@ "entries" :> 3 @@ "overrun" :> 1), maxima |-> (stem :> 9), window |-> <<1>>,
     splat |-> [cycle |-> <<"a", "b">>, holding |-> "a", acquiring |-> "b", steps |-> <<1>>,
                chain |-> <<[name |-> "a", stack |-> <<"f">>], [name |-> "b", stack |-> <<>>]>>]]
SlabCorpora == {<<InCorpus("slab", "after", "", "lockdep-stats", TRUE), InCorpus("after", "", "", "lockdep-stats", TRUE), InCorpus("splat", "", "", "lockdep-splat", FALSE)>>,
                <<InCorpus("slab", "", "function_graph", "function", TRUE), InCorpus("after", "", "", "tracefs-stats", TRUE)>>}
SlabTags == [ulong |-> <<>>, __user |-> <<"user">>]

-----------------------------------------------------------------------------
(* The citations, claims and evidence of a lesson.                         *)

RefRows(id, path, anchor, context) ==
    <<[k |-> "id", id |-> id], [k |-> "path", path |-> path], [k |-> "anchor", anchor |-> anchor], [k |-> "kernel", kernel |-> "7.2"],
      [k |-> "confirmed", confirmed |-> FALSE], [k |-> "line", line |-> 0]>> \o context
Slub == <<"mm", "slub.c">>
Io == <<"fs", "io.c">>
KernelEntries == {RefRows("R1", Slub, "alloc", <<>>), RefRows("R2", Slub, "free", <<>>), RefRows("R3", Io, "read", <<[k |-> "context", context |-> <<>>]>>)}
KernelSources == (Slub :> {<<{"alloc"}, {"a"}, {"free"}, {"b"}>>, <<{"c"}, {"alloc"}, {"a"}, {"free", "alloc"}>>, <<{"alloc"}, {"c"}, {"free"}, {"b"}>>}
                  @@ Io :> {<<{"read"}>>, <<{"gone"}>>})
SomeClaim(id, kind, evidence, reason) == [id |-> id, kind |-> kind, evidence |-> evidence, verified |-> FALSE, reason |-> reason]
LessonClaims == {SomeClaim("C1", "source", "R1", 0), SomeClaim("C2", "trace", "slab.txt", 0), SomeClaim("C3", "trace", "arm.txt", 50),
                 SomeClaim("C4", "unobservable", "", 0), SomeClaim("C5", "trace", "hand.txt", 0),
                 SomeClaim("C6", "trace", "arm.txt", 0)}
Teaching == [kernel |-> "7.2", arch |-> "i386", profile |-> "teaching", tier |-> "0"]
TakenOn(machine, evidence) == <<[machine |-> machine, evidence |-> evidence]>>
LessonArtefacts == ("slab.txt" :> TakenOn(Teaching, TRUE) @@ "arm.txt" :> TakenOn([Teaching EXCEPT !.arch = "arm64"], TRUE) @@ "hand.txt" :> TakenOn(Teaching, FALSE))
LedgerParts == <<[name |-> "mm", status |-> "taught", paths |-> <<<<"mm">>>>, lessons |-> <<"Z02">>, blueprints |-> <<"slab">>, reason |-> 0],
                 [name |-> "fs", status |-> "mentioned", paths |-> <<<<"fs">>>>, lessons |-> <<>>, blueprints |-> <<>>, reason |-> 0]>>

-----------------------------------------------------------------------------
(* What is published.                                                      *)

Called(name, last, on) == [name |-> name, last |-> last, timeout |-> TRUE, args |-> <<"log">>, on |-> on, corpora |-> FALSE]
CodeCell(calls, assigns) == [kind |-> "code", setup |-> FALSE, tree |-> TRUE, pip |-> FALSE, note |-> 30, lines |-> 1, calls |-> calls, assigns |-> assigns]
Markdown(heading) == [kind |-> "markdown", heading |-> heading]
Assigned(name, from, within) == [name |-> name, from |-> from, within |-> within]
LessonCells ==
    {Markdown(FALSE), Markdown(TRUE), [CodeCell(<<>>, <<>>) EXCEPT !.setup = TRUE, !.pip = TRUE],
     [CodeCell(<<Called("banner", "banner", {})>>, <<>>) EXCEPT !.setup = TRUE],
     CodeCell(<<Called("box.banner", "banner", {})>>, <<>>),
     CodeCell(<<Called("path.write_text", "write_text", {"path"})>>, <<Assigned("path", "colab.scratch", {"colab.scratch"})>>),
     CodeCell(<<Called("out.write_text", "write_text", {"out"}), Called("print", "print", {})>>, <<Assigned("log", "function_graph.parse", {})>>)}
LessonStated == ("Z02-01" :> "trace" @@ "Z02-02" :> "source")
EmulatorPin == [members |-> ("v86.js" :> "js" @@ "v86.wasm" :> "wasm"), bios |-> ("seabios.bin" :> "bios" @@ "vgabios.bin" :> "vga")]
FromServer == {EmulatorPin, [EmulatorPin EXCEPT !.bios["vgabios.bin"] = "other"], [EmulatorPin EXCEPT !.members["v86.js"] = "other"]}
SiteBlueprint(name, status) == [name |-> name, file |-> name, title |-> name, status |-> status, pin |-> "7.2", arch |-> "i386", text |-> <<name, status>>]
SiteStates == {<<SiteBlueprint("slab", "stub")>>, <<SiteBlueprint("README.md", ""), SiteBlueprint("slab", "complete"), SiteBlueprint("vma", "stub")>>,
               <<SiteBlueprint("slab", "stub"), [SiteBlueprint("vma", "stub") EXCEPT !.name = "VMA"]>>}
TheLessons == <<[id |-> "Z02", title |-> "Z02", status |-> "published", notebook |-> "nb", assets |-> {[name |-> "a", suffix |-> ".svg"]}]>>
SurveyRow(path, by, account, found) == [path |-> path, reader |-> by, lines |-> 10, found |-> found, account |-> account]
Counts(read, unparsed) == <<[read |-> read, skipped |-> 1, unparsed |-> unparsed]>>
CorpusSurveys == {<<SurveyRow("a", "function", Counts(7, 2), 3), SurveyRow("b", "btf", <<>>, 2)>>, <<SurveyRow("a", "function", Counts(8, 1), 3), SurveyRow("b", "btf", <<>>, 2)>>,
                  <<SurveyRow("a", "function", <<>>, 3), SurveyRow("b", "btf", <<>>, 2)>>, <<SurveyRow("a", "function", Counts(8, 0), 3)>>, <<SurveyRow("b", "btf", <<>>, 4)>>}

-----------------------------------------------------------------------------
(* A reader's machine.                                                     *)

ReaderFunctions == {"vfs_write", "submit_bio", "ksys_write"}
ReaderSymbols == {[family |-> "_fops", readonly |-> TRUE, address |-> 0], [family |-> "_ops", readonly |-> FALSE, address |-> 0],
                  [family |-> "", readonly |-> FALSE, address |-> 1]}
Taken(name, learned) == [name |-> name, learned |-> learned]
ReaderReports == {[task |-> <<"insmod">>, locks |-> <<Taken("a", "ab"), Taken("b", "ba")>>],
                  [task |-> <<"kworker", "1:2">>, locks |-> <<Taken("a", "ab"), Taken("b", "bc"), Taken("c", "ca")>>]}
ReaderStats == {"debug_locks" :> 0, "debug_locks" :> 1, "lock_classes" :> 5}
GateOptions == ([word |-> "a", capital |-> FALSE] :> "hangs" @@ [word |-> "b", capital |-> FALSE] :> "runs")
=============================================================================
