------------------------------ MODULE Release ------------------------------
(***************************************************************************)
(* What is built from the repository and what is brought into it: the      *)
(* notebook and the page of a lesson (tools/nbbuild.py) and the seven      *)
(* rules every notebook is held to (tools/lintnb.py), the site             *)
(* (tools/sitebuild.py), the emulator's files (tools/vendor.py), and the   *)
(* baseline of what the readers make of the corpus (tools/baseline.py).  A *)
(* cell of a lesson is its kind and what is in it: its headings, its note, *)
(* the calls it makes and the names it assigns; a directory is a function  *)
(* from the names in it to what they hold.                                 *)
(***************************************************************************)
EXTENDS Lines

-----------------------------------------------------------------------------
(* nbbuild.py.  A lesson is built by appending to it.                      *)

RUNNABLEKINDS == {"trace", "proc", "experiment", "litmus"}

NewLesson(claims) == [claims |-> claims, cells |-> <<>>, made |-> <<>>, blocks |-> <<>>]

\* md and code, block, and claim: the claim is in the cell that is appended next.
AppendCell(lesson, cell) == AddTo(lesson, "cells", cell)
OpenBlock(lesson, name) == AddTo(lesson, "blocks", [at |-> Len(lesson.cells) + 1, name |-> name])
MakeClaim(lesson, id) == AddTo(lesson, "made", [id |-> id, cell |-> Len(lesson.cells) + 1])

\* _check_claims: after the cell of a claim that can be run, code comes before the next heading.
Shown(lesson, claim) ==
    LET after == {i \in DOMAIN lesson.cells : i > claim.cell}
    IN  \E i \in after : /\ lesson.cells[i].kind = "code"
                         /\ \A j \in after : j < i => lesson.cells[j].kind = "markdown" /\ ~lesson.cells[j].heading
LessonProblems(lesson) ==
    LET made == {lesson.made[i].id : i \in DOMAIN lesson.made}
        Runnable(id) == lesson.claims[id] \in RUNNABLEKINDS
    IN  {<<lesson.made[i].id, "asserted">> :
            i \in {j \in DOMAIN lesson.made : Runnable(lesson.made[j].id) /\ ~Shown(lesson, lesson.made[j])}}
        \cup {<<id, "never made">> : id \in DOMAIN lesson.claims \ made}

\* to_json and to_markdown: the cells with their identifiers, and the page with its blocks.
ToJson(lesson) == [i \in DOMAIN lesson.cells |-> [id |-> i, cell |-> lesson.cells[i]]]
ToMarkdown(lesson) ==
    LET Starts(i) == SelectSeq(lesson.blocks, LAMBDA b : b.at = i)
        Mark(i) == IF Starts(i) = <<>> THEN <<>> ELSE <<[block |-> Last(Starts(i)).name]>>
    IN  FlattenSeq([i \in DOMAIN lesson.cells |-> Mark(i) \o <<[cell |-> lesson.cells[i]]>>])

\* save: nothing is written of a lesson with problems; a check writes nothing either.
Outputs(lesson) == [notebook |-> <<ToJson(lesson)>>, page |-> <<ToMarkdown(lesson)>>]
Stale(lesson, files) == {name \in {"notebook", "page"} : files[name] # Outputs(lesson)[name]}
Save(lesson, files, checking) ==
    LET sound == LessonProblems(lesson) = {}
    IN  [files |-> IF sound /\ ~checking THEN Outputs(lesson) ELSE files,
         code |-> IF ~sound \/ (checking /\ Stale(lesson, files) # {}) THEN 1 ELSE 0]

-----------------------------------------------------------------------------
(* lintnb.py.  A code cell that cannot be parsed is one with no tree.  A   *)
(* call has its dotted name, what it is called on, and what it is given.   *)

MAXCODECELLS == 20
FORBIDDENCALLS == {"time.sleep", "sleep", "input"}
SUBPROCESSCALLS == {"subprocess.run", "subprocess.check_output", "subprocess.call"}
HASWIDGET == {"function_graph.parse", "function_graph.parse_file", "parse_file", "box.tape", "box.trace",
              "lockdep.parse_classes", "btf.parse_file", "kxdiff.compare"}
SCRATCH == "colab.scratch"
WRITES == {"write_text", "write_bytes", "mkdir", "touch"}
OPENERS == {"open", "Path", "parse_file", "read_text", "read_bytes"}

CallsOf(cell) == IF cell.tree THEN ToSet(cell.calls) ELSE {}
Code(cells) == Only(cells, {cell \in ToSet(cells) : cell.kind = "code"})

\* The setup cell, the first of the code when it looks like one.
SetupOf(code) == IF code # <<>> /\ code[1].setup THEN {1} ELSE {}

\* _check_banner, _check_length.
CheckBanner(code) ==
    LET printed == {i \in DOMAIN code : \E call \in CallsOf(code[i]) : call.last = "banner"}
        real    == DOMAIN code \ SetupOf(code)
    IN  CASE printed = {} -> {"no banner"}
          [] Cardinality(printed) > 1 -> {"more than one banner"}
          [] OTHER -> {w \in {"runs before the banner"} : real # {} /\ Min(real) \notin printed}
CheckLength(code) == {w \in {"too long"} : Len(code) > MAXCODECELLS}

\* _check_caption, _check_timeout, _check_widget.
CheckCaption(cell) ==
    CASE cell.note = 0 -> {"no note"}
      [] cell.note > 0 /\ cell.lines > 1 -> {"more than one line"}
      [] OTHER -> {w \in {"not a line"} : cell.note < 20}
CheckTimeout(cell) ==
    {<<"forbidden", call.name>> : call \in {c \in CallsOf(cell) : c.name \in FORBIDDENCALLS}}
    \cup {<<"no timeout", call.name>> : call \in {c \in CallsOf(cell) : c.name \in SUBPROCESSCALLS /\ ~c.timeout}}
CheckWidget(cell) ==
    LET parsed == {a.name : a \in {b \in ToSet(cell.assigns) : b.from \in HASWIDGET}}
    IN  UNION {{<<"prints", arg>> : arg \in ToSet(call.args) \cap parsed} : call \in {c \in CallsOf(cell) : c.name = "print"}}

\* _check_evidence: a path of the corpus written out in the call that opens it.
CheckOpened(cell) == {<<"opens by path", call.name>> : call \in {c \in CallsOf(cell) : c.name \in OPENERS /\ c.corpora}}

\* _check_scratch: what a write is called on is reached from colab.scratch, or from a name that was.
CheckScratch(cell) ==
    LET rooted == {a.name : a \in {b \in ToSet(cell.assigns) : SCRATCH \in b.within}}
        Under(call) == SCRATCH \in call.on \/ call.on \cap rooted # {}
    IN  {<<"writes", call.last>> : call \in {c \in CallsOf(cell) : c.last \in WRITES /\ c.on # {} /\ ~Under(c)}}

\* check: a cell that cannot be parsed is held to its caption and to what it installs.
CheckCell(cell, setup) ==
    [caption |-> CheckCaption(cell), installs |-> cell.pip /\ ~setup, timeout |-> CheckTimeout(cell),
     widget |-> IF cell.tree THEN CheckWidget(cell) ELSE {}, evidence |-> CheckOpened(cell),
     scratch |-> IF cell.tree THEN CheckScratch(cell) ELSE {}]
CheckNotebook(cells) ==
    LET code == Code(cells)
    IN  [banner |-> CheckBanner(code), length |-> CheckLength(code),
         cells |-> [i \in DOMAIN code |-> CheckCell(code[i], i \in SetupOf(code))]]

-----------------------------------------------------------------------------
(* A directory.                                                            *)

\* A file put into a directory replaces the one of its name; of what is written one after the
\* other, as pairs of a name and what it is to hold, the last of a name stays.
Put(directory, name, content) == Laid([n \in {name} |-> content], directory)
Emptied == [name \in {} |-> ""]
Left(writes) == [name \in {writes[i][1] : i \in DOMAIN writes} |->
                    writes[Max({i \in DOMAIN writes : writes[i][1] = name})][2]]

-----------------------------------------------------------------------------
(* vendor.py.  The pin says what each file has to hold: the members of one *)
(* tarball, and files fetched one by one.                                  *)

Wanted(pin) == Laid(pin.members, pin.bios)

\* download: a tarball that does not match is not unpacked and one file that does not is not
\* written, and nothing after it is fetched; what is there is left alone, unless forced.
DownloadMembers(pin, into, served, force) ==
    CASE ~force /\ DOMAIN pin.members \subseteq DOMAIN into -> [into |-> into, stopped |-> FALSE]
      [] (force \/ ~(DOMAIN pin.members \subseteq DOMAIN into)) /\ served.members # pin.members -> [into |-> into, stopped |-> TRUE]
      [] OTHER -> [into |-> Laid(pin.members, into), stopped |-> FALSE]
Download(pin, into, served, force) ==
    LET Turn(s, name) ==
            CASE s.stopped \/ (~force /\ name \in DOMAIN s.into) -> s
              [] ~s.stopped /\ (force \/ name \notin DOMAIN s.into) /\ served.bios[name] # pin.bios[name] -> [s EXCEPT !.stopped = TRUE]
              [] OTHER -> [s EXCEPT !.into = Put(@, name, served.bios[name])]
    IN  FoldLeft(Turn, DownloadMembers(pin, into, served, force), SetToSeq(DOMAIN pin.bios))

\* check: what is missing, and what does not match.
CheckVendor(pin, into) ==
    {<<name, "missing">> : name \in DOMAIN Wanted(pin) \ DOMAIN into}
    \cup {<<name, "does not match">> : name \in {n \in DOMAIN Wanted(pin) \cap DOMAIN into : into[n] # Wanted(pin)[n]}}

-----------------------------------------------------------------------------
(* sitebuild.py.  A lesson is its id, title, status, notebook and assets;  *)
(* a blueprint its name, title, status, pin, architecture, file and text.  *)
(* Entries and pages that every site has (the front, the notation) are     *)
(* left out.                                                               *)

NOTPUBLISHED == {"README.md", "NOTATION.md", "TEMPLATE.md"}

FindBlueprints(files) == Only(files, {one \in ToSet(files) : one.file \notin NOTPUBLISHED})

\* navigation and config, stylesheet: the lessons, then the blueprints, as pages.
LessonPage(lesson) == <<"lessons", lesson.id>>
BlueprintPage(one) == <<"blueprints", one.name>>
Navigation(lessons, blueprints) ==
    [i \in DOMAIN lessons |-> <<lessons[i].title, LessonPage(lessons[i])>>]
    \o [i \in DOMAIN blueprints |-> <<blueprints[i].title, BlueprintPage(blueprints[i])>>]
Config(head, lessons, blueprints) == [head |-> head, nav |-> Navigation(lessons, blueprints)]

\* lesson_index and blueprint_index: one row each, and how many there are.
LessonIndex(lessons) ==
    [rows |-> [i \in DOMAIN lessons |-> <<lessons[i].id, lessons[i].title, lessons[i].status>>], count |-> Len(lessons)]
BlueprintIndex(blueprints) ==
    [rows |-> [i \in DOMAIN blueprints |-> <<blueprints[i].name, blueprints[i].title, blueprints[i].status>>],
     count |-> Len(blueprints)]

\* stage: two directories, each cleared and then filled in order, its index page last; a page is
\* the copy of its source.
Assets(lessons) ==
    UNION {{<<lessons[i].id, a>> : a \in {b \in lessons[i].assets : b.suffix \in {".svg", ".png"}}} : i \in DOMAIN lessons}
BlueprintFile(one) == <<"blueprints", one.file>>
LessonDirectory(lessons) ==
    [pages |-> Left([i \in DOMAIN lessons |-> <<LessonPage(lessons[i]), lessons[i].notebook>>]),
     assets |-> Assets(lessons), index |-> <<LessonIndex(lessons)>>]
BlueprintDirectory(blueprints) ==
    [pages |-> Left([i \in DOMAIN blueprints |-> <<BlueprintFile(blueprints[i]), blueprints[i].text>>]),
     assets |-> {}, index |-> <<BlueprintIndex(blueprints)>>]
Stage(lessons, blueprints) ==
    [lessons |-> LessonDirectory(lessons), blueprints |-> BlueprintDirectory(blueprints)]

\* build: a check rewrites nothing and looks at the two generated files alone.
Build(site, head, colours, lessons, files, checking) ==
    LET blueprints == FindBlueprints(files)
        wanted == [config |-> <<Config(head, lessons, blueprints)>>, stylesheet |-> <<colours>>]
        stale  == {name \in DOMAIN wanted : site[name] # wanted[name]}
    IN  [stale |-> stale,
         site |-> IF checking THEN site
                  ELSE [config |-> wanted.config, stylesheet |-> wanted.stylesheet, docs |-> Stage(lessons, blueprints)]]

\* What a build that is stopped, or raises, leaves: the config or both files written, a directory
\* cleared in part, whatever of it goes first, or filled with the first of its pages, the pictures of
\* the last of them in part, and no index.
Cleared == [pages |-> <<>>, assets |-> {}, index |-> <<>>]
PartlyCleared(directory) ==
    {[pages |-> [page \in kept |-> directory.pages[page]], assets |-> pictures, index |-> index] :
         kept \in SUBSET DOMAIN directory.pages, pictures \in SUBSET directory.assets, index \in {directory.index, <<>>}}
PartlyFilled(lessons) ==
    UNION {{[LessonDirectory(SubSeq(lessons, 1, n)) EXCEPT !.index = <<>>, !.assets = @ \ missing] :
                missing \in SUBSET Assets(<<lessons[n]>>)} : n \in DOMAIN lessons}
PartlyCopied(blueprints) == {[BlueprintDirectory(SubSeq(blueprints, 1, n)) EXCEPT !.index = <<>>] : n \in 0..Len(blueprints)}
Stopped(site, head, colours, lessons, files) ==
    LET built  == Build(site, head, colours, lessons, files, FALSE).site
        both   == [built EXCEPT !.docs = site.docs]
        Docs(some, others) == [built EXCEPT !.docs = [lessons |-> some, blueprints |-> others]]
    IN  {[both EXCEPT !.stylesheet = site.stylesheet], both}
        \cup {Docs(some, site.docs.blueprints) : some \in PartlyCleared(site.docs.lessons) \cup PartlyFilled(lessons)}
        \cup {Docs(built.docs.lessons, others) :
                 others \in PartlyCleared(site.docs.blueprints) \cup PartlyCopied(FindBlueprints(files))}

-----------------------------------------------------------------------------
(* baseline.py.  A reading is a path, its reader, its lines, what it found *)
(* and its account, of a reader that keeps one.                            *)

Row(one) ==
    LET always == [path |-> one.path, reader |-> one.reader, lines |-> one.lines, found |-> one.found]
    IN  IF one.account = <<>> THEN always ELSE Laid(one.account[1], always)

Totals(readings) ==
    LET Over(Of(_)) == FoldLeft(LAMBDA sum, figure : sum + figure, 0, [i \in DOMAIN readings |-> Of(Row(readings[i]))])
        Kept(row, name) == IF name \in DOMAIN row THEN row[name] ELSE 0
    IN  [artefacts |-> Len(readings), lines |-> Over(LAMBDA row : row.lines), read |-> Over(LAMBDA row : Kept(row, "read")),
         skipped |-> Over(LAMBDA row : Kept(row, "skipped")), unparsed |-> Over(LAMBDA row : Kept(row, "unparsed"))]

\* as_toml: the totals, and a row for each reading.
AsToml(readings) == [totals |-> Totals(readings), rows |-> [i \in DOMAIN readings |-> Row(readings[i])]]

\* The rows by path, and what compare says of a path that is in both: each figure there is now.
ByPath(rows) == Left([i \in DOMAIN rows |-> <<rows[i].path, rows[i]>>])
Moved(is, was) == {name \in DOMAIN is : name \notin DOMAIN was \/ was[name] # is[name]}

\* Mutant of Compare: a file the baseline does not have is passed over.
Compare_OldOnes(readings, recorded) ==
    LET now == ByPath(AsToml(readings).rows)  was == ByPath(recorded.rows)
    IN  {<<path, "not in the corpus">> : path \in DOMAIN was \ DOMAIN now}
        \cup UNION {{<<path, name>> : name \in Moved(now[path], was[path])} : path \in DOMAIN now \cap DOMAIN was}

\* compare: by path, what went and what appeared, and what moved of the rest.
Compare(readings, recorded) ==
    LET now == ByPath(AsToml(readings).rows)  was == ByPath(recorded.rows)
    IN  {<<path, "not in the corpus">> : path \in DOMAIN was \ DOMAIN now}
        \cup {<<path, "not in the baseline">> : path \in DOMAIN now \ DOMAIN was}
        \cup UNION {{<<path, name>> : name \in Moved(now[path], was[path])} : path \in DOMAIN now \cap DOMAIN was}

\* main: nothing is written of a corpus that does not add up.
Total(account) == account.read + account.skipped + account.unparsed
AddUp(readings) == \A i \in DOMAIN readings : readings[i].account # <<>> => Total(readings[i].account[1]) = readings[i].lines
WriteBaseline(readings, recorded) == IF AddUp(readings) THEN AsToml(readings) ELSE recorded
============================================================================
