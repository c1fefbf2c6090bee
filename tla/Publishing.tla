----------------------------- MODULE Publishing -----------------------------
(***************************************************************************)
(* What the repository builds and checks again: a lesson's notebook and    *)
(* page (tools/nbbuild.py), the emulator's files (tools/vendor.py), the    *)
(* site (tools/sitebuild.py) and the baseline of the readers               *)
(* (tools/baseline.py).  An author works on one of them; a build can be    *)
(* cut short, a file edited by hand, and a server can send the wrong file. *)
(***************************************************************************)
EXTENDS Integers, Sequences, SequencesExt, FiniteSetsExt

CONSTANTS
    Cells,         \* the cells a lesson is made of
    Stated,        \* the kind of evidence of each claim of its claims.toml
    MaxCells,      \* the most cells
    Pin,           \* what the emulator's files are to hold
    Served,        \* what a server can send
    Blueprints,    \* the states of the blueprints of the site, sequences of files
    SiteLessons,   \* the lessons of the site
    Surveys        \* what the readers can make of the corpus, sequences of readings

VARIABLES
    working,       \* what is worked on
    lesson, files, \* the lesson as its builder has it, and the two files
    emulator,      \* the emulator's directory
    inputs, site,  \* the blueprints there are, and the site as it is; its `of` is history: the
                   \* blueprints of the last build, if that ran to its end
    survey, baseline

publishingVars == <<working, lesson, files, emulator, inputs, site, survey, baseline>>

RL == INSTANCE Release

\* Calls are known of a cell that parses, and a note has a length.
ASSUME CellsAssumption ==
    \A cell \in Cells : /\ cell.kind \in {"code", "markdown"}
                        /\ cell.kind = "code" => cell.note \in Nat /\ (~cell.tree => cell.calls = <<>>)
\* No file is both a member of the tarball and fetched on its own, as in kxbox/web/vendor.toml.
ASSUME PinAssumption == IsFiniteSet(DOMAIN Pin.bios) /\ DOMAIN Pin.members \cap DOMAIN Pin.bios = {}
\* Nothing checks that a lesson is named for its directory, and tools/bpc.py that a blueprint is
\* for its file only up to case (bpc.py:240).
ASSUME SiteAssumption ==
    /\ \A blueprints \in Blueprints : blueprints \in Seq(ToSet(blueprints))
    /\ SiteLessons \in Seq(ToSet(SiteLessons))
\* The corpus is read in the order of its paths, and an account has its three counts.
PathsOf(readings) == {readings[i].path : i \in DOMAIN readings}
ASSUME SurveysAssumption ==
    /\ \A one \in Surveys :
           /\ one \in Seq(ToSet(one))
           /\ \A i, j \in DOMAIN one : one[i].path = one[j].path => i = j
           /\ \A i \in DOMAIN one : one[i].account = <<>> \/ DOMAIN one[i].account[1] = {"read", "skipped", "unparsed"}
    /\ \A one, other \in Surveys :
           PathsOf(one) = PathsOf(other) => Len(one) = Len(other) /\ \A i \in DOMAIN one : one[i].path = other[i].path

NoFiles == [notebook |-> <<>>, page |-> <<>>]

\* A site with a mark of the build it is of, and a checkout: the config and the stylesheet are
\* committed and the staged pages are not.
SiteWith(built, of) == [config |-> built.config, stylesheet |-> built.stylesheet, docs |-> built.docs, of |-> of]
Checkout == SiteWith([config |-> <<RL!Config("head", SiteLessons, RL!FindBlueprints(<<>>))>>, stylesheet |-> <<"colours">>,
                    docs |-> [lessons |-> RL!Cleared, blueprints |-> RL!Cleared]], <<>>)

-----------------------------------------------------------------------------
PublishingInit ==
    /\ working = "" /\ lesson = RL!NewLesson(Stated) /\ files = NoFiles /\ emulator = RL!Emptied
    /\ inputs = <<>> /\ site = Checkout /\ survey = <<>> /\ baseline = RL!AsToml(<<>>)

Work == /\ working = "" /\ working' \in {"lesson", "emulator", "site", "baseline"}
        /\ UNCHANGED <<lesson, files, emulator, inputs, site, survey, baseline>>

\* The builder's calls, in any order.
Write == /\ working = "lesson" /\ Len(lesson.cells) < MaxCells
         /\ \/ \E cell \in Cells : lesson' = RL!AppendCell(lesson, cell)
            \/ Len(lesson.blocks) < 1 /\ lesson' = RL!OpenBlock(lesson, "why")
            \/ \E id \in DOMAIN Stated : Len(lesson.made) < 2 /\ lesson' = RL!MakeClaim(lesson, id)
         /\ UNCHANGED <<working, files, emulator, inputs, site, survey, baseline>>
Built(new) == files' = new /\ UNCHANGED <<working, lesson, emulator, inputs, site, survey, baseline>>
Save == working = "lesson" /\ Built(RL!Save(lesson, files, FALSE).files)
\* save writes the notebook and then the page, and can be stopped between the two.
StopSave == /\ working = "lesson" /\ RL!LessonProblems(lesson) = {}
            /\ Built([files EXCEPT !.notebook = RL!Outputs(lesson).notebook])

Filled(new) == emulator' = new /\ UNCHANGED <<working, lesson, files, inputs, site, survey, baseline>>
Fetch == /\ working = "emulator"
         /\ \E served \in Served, force \in BOOLEAN : Filled(RL!Download(Pin, emulator, served, force).into)
\* A file is written in place, so one that is cut short is there.
CutShort == /\ working = "emulator"
            /\ \E name \in DOMAIN RL!Wanted(Pin) : Filled(RL!Put(emulator, name, "half"))

SiteBecomes(new) == site' = new /\ UNCHANGED <<working, lesson, files, emulator, inputs, survey, baseline>>
BuildSite == /\ working = "site"
             /\ SiteBecomes(SiteWith(RL!Build(site, "head", "colours", SiteLessons, inputs, FALSE).site, <<inputs>>))
\* A build writes the config, then the stylesheet, then stages: it can be stopped anywhere.
StopSite == /\ working = "site"
            /\ \E left \in RL!Stopped(site, "head", "colours", SiteLessons, inputs) : SiteBecomes(SiteWith(left, <<>>))
EditBlueprints == /\ working = "site" /\ inputs' \in Blueprints
                  /\ UNCHANGED <<working, lesson, files, emulator, site, survey, baseline>>

RecordBaseline == /\ working = "baseline" /\ baseline' = RL!WriteBaseline(survey, baseline)
                  /\ UNCHANGED <<working, lesson, files, emulator, inputs, site, survey>>
ChangeReaders == /\ working = "baseline" /\ survey' \in Surveys
                 /\ UNCHANGED <<working, lesson, files, emulator, inputs, site, baseline>>

PublishingNext ==
    \/ Work \/ Write \/ Save \/ StopSave \/ Fetch \/ CutShort
    \/ BuildSite \/ StopSite \/ EditBlueprints \/ RecordBaseline \/ ChangeReaders

PublishingSpec == PublishingInit /\ [][PublishingNext]_publishingVars

-----------------------------------------------------------------------------
\* The claims a lesson shows: a code cell after the claim's own, with no heading on the way.
ShownBefore(l, claim) ==
    \E i \in DOMAIN l.cells :
        /\ i > claim.cell /\ l.cells[i].kind = "code"
        /\ \A j \in claim.cell + 1..i : ~(l.cells[j].kind = "markdown" /\ l.cells[j].heading)
\* A notebook the rules find nothing wrong with, and a cell that prints the banner.
Linted == LET found == RL!CheckNotebook(lesson.cells)
          IN  /\ found.banner = {} /\ found.length = {}
              /\ \A i \in DOMAIN found.cells : LET c == found.cells[i] IN
                    ~c.installs /\ c.caption = {} /\ c.timeout = {} /\ c.widget = {} /\ c.evidence = {} /\ c.scratch = {}
Prints(cell) == \E call \in ToSet(cell.calls) : call.last = "banner"
\* What a call is made on, through the names its cell binds.
From(cell, call) == call.on \cup UNION {a.within : a \in {b \in ToSet(cell.assigns) : b.name \in call.on}}
Wrong(directory) == {n \in DOMAIN directory : directory[n] # RL!Wanted(Pin)[n]}

\* A lesson that a check passes: the two files are its builder's, wherever the last build was
\* stopped, and every claim that can be run is made and then shown.
LessonIsBuilt ==
    RL!Save(lesson, files, TRUE).code = 0 =>
        /\ files = RL!Outputs(lesson)
        /\ \A id \in DOMAIN Stated : \E i \in DOMAIN lesson.made :
               /\ lesson.made[i].id = id
               /\ Stated[id] \in RL!RUNNABLEKINDS => ShownBefore(lesson, lesson.made[i])
\* A notebook the rules pass prints its banner once, before anything else runs but its setup,
\* installs nothing later, and what it writes is reached from its scratch directory.
NotebookIsLinted ==
    Linted =>
        LET code == RL!Code(lesson.cells)
            first == IF code[1].setup /\ Len(code) > 1 THEN 2 ELSE 1
        IN  \A i \in DOMAIN code :
                /\ Prints(code[i]) <=> i = first
                /\ code[i].note > 0 /\ (code[i].pip => code[i].setup /\ i = 1)
                /\ \A call \in ToSet(code[i].calls) :
                       call.last \in RL!WRITES /\ call.on # {} => RL!SCRATCH \in From(code[i], call)
\* The emulator's files that a check passes hold what is pinned; an honest server leaves nothing
\* missing, a forced fetch from one nothing wrong, and from a dishonest one nothing wrong is ever
\* kept that was not there before, whatever was cut short.
EmulatorIsPinned ==
    /\ \A served \in Served : \A force \in BOOLEAN :
          LET after == RL!Download(Pin, emulator, served, force)
              honest == served.members = Pin.members /\ served.bios = Pin.bios
          IN  /\ Wrong(after.into) \subseteq Wrong(emulator)
              /\ honest => ~after.stopped /\ DOMAIN RL!Wanted(Pin) \subseteq DOMAIN after.into
              /\ honest /\ (force \/ Wrong(emulator) = {}) => RL!CheckVendor(Pin, after.into) = {}
    /\ RL!CheckVendor(Pin, emulator) = {} => Wrong(emulator) = {} /\ DOMAIN emulator = DOMAIN RL!Wanted(Pin)
\* A check of the site looks at the config and the stylesheet alone.  When it passes, the navigation
\* is of the blueprints there are; and if the last build ran to its end, whatever was edited since, every
\* entry of it has its page and every page its entry, but for a blueprint that is not named for its file.
SiteIsStaged ==
    RL!Build(site, "head", "colours", SiteLessons, inputs, TRUE).stale = {} =>
        LET nav      == site.config[1].nav
            entries  == {nav[i][2] : i \in DOMAIN nav}
            pages    == DOMAIN site.docs.lessons.pages \cup DOMAIN site.docs.blueprints.pages
        IN  /\ nav = RL!Navigation(SiteLessons, RL!FindBlueprints(inputs))
            /\ \A i \in DOMAIN site.of :
                 LET misnamed == {one \in RL!ToSet(RL!FindBlueprints(site.of[i])) : one.name # one.file}
                 IN  /\ entries \ {RL!BlueprintPage(one) : one \in misnamed} \subseteq pages
                     /\ pages \ {RL!BlueprintFile(one) : one \in misnamed} \subseteq entries
\* A baseline that a check passes is of readings that add up, and is what would be written of them,
\* unless a reader keeps no account any more: a figure that is gone is not looked for.
BaselineIsNow ==
    RL!Compare(survey, baseline) = {} =>
        /\ RL!AddUp(survey)
        /\ \/ RL!AsToml(survey) = baseline
           \/ \E i \in DOMAIN survey : survey[i].account = <<>> /\ "read" \in DOMAIN baseline.rows[i]

\* What a check passes is what a build would make of the sources, whatever was edited since: a lesson's
\* files wherever the last build was stopped, the emulator's wherever a download was; of the site only
\* what the check looks at, and its staged pages (sitebuild.py:340-352) if the last build was not stopped.
PassedIsBuilt ==
    CASE working = "lesson"   -> LessonIsBuilt /\ NotebookIsLinted
      [] working = "emulator" -> EmulatorIsPinned
      [] working = "site"     -> SiteIsStaged
      [] working = "baseline" -> BaselineIsNow
      [] OTHER -> TRUE
=============================================================================
