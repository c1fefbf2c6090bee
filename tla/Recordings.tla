----------------------------- MODULE Recordings -----------------------------
(***************************************************************************)
(* What a session answers from when there is no kernel: kxbox/corpus.py,   *)
(* the profiles of kxbox/profiles.py, the banner of kxbox/session.py, and  *)
(* the index of the corpus, kxray/corpus/index.py.  An answer that is not  *)
(* there (NotRecorded, LookupError) is an empty sequence.                  *)
(***************************************************************************)
EXTENDS Lines

-----------------------------------------------------------------------------
(* profiles.py.  A pin has profiles and, by key, the kernel trees.         *)

PROFILES == [teaching |-> "A-full", lockdep |-> "D-lockdep", memcheck |-> "E-memcheck"]

\* pin_file: the pin of the checkout before the one in the package.
PinFile(checkout, packaged) == IF checkout # <<>> THEN checkout[1] ELSE packaged

\* for_build, built, pinned_version: the first entry of the pin for the build.
ForBuild(build) == {p \in DOMAIN PROFILES : PROFILES[p] = build}
Built(pin, profile) ==
    LET found == SelectSeq(pin.profiles, LAMBDA p : p.name = PROFILES[profile])
    IN  IF found = <<>> THEN <<>> ELSE <<found[1]>>
PinnedVersion(pin, profile) ==
    LET built == Built(pin, profile)
    IN  IF built = <<>> \/ built[1].kernel \notin DOMAIN pin.trees THEN "" ELSE pin.trees[built[1].kernel]

\* arch: what the first fragment says that says it, the 32 bit symbol asked for first.
Arch(pin, profile, fragments) ==
    LET Says(f) == CASE f \notin DOMAIN fragments -> <<>>
                     [] f \in DOMAIN fragments /\ "CONFIG_X86_32" \in fragments[f] -> <<"i386">>
                     [] f \in DOMAIN fragments /\ "CONFIG_64BIT" \in fragments[f] \ {"CONFIG_X86_32"} -> <<"x86_64">>
                     [] OTHER -> <<>>
        built == Built(pin, profile)
        said  == IF built = <<>> THEN <<>>
                 ELSE FlattenSeq([i \in DOMAIN built[1].fragments |-> Says(built[1].fragments[i])])
    IN  IF said = <<>> THEN "unknown" ELSE said[1]

-----------------------------------------------------------------------------
(* corpus.py.  A recipe has a name, a profile, a module, a trace, the path *)
(* of a corpus file for each file it read, and whether it can be repeated. *)
(* marks is, for each corpus file, whether its metadata calls it evidence. *)

\* Corpus.__init__: the recipes of the profile, the last of a name winning.
Recipes(all, profile) ==
    LET mine == SelectSeq(all, LAMBDA r : r.profile = profile)
        Last1(i) == \A j \in DOMAIN mine : mine[j].name = mine[i].name => j <= i
    IN  {mine[i] : i \in {j \in DOMAIN mine : Last1(j)}}

\* captures, evidence_of, Corpus.evidence
Captures(recipe) == (IF recipe.trace = "" THEN {} ELSE {recipe.trace}) \cup {recipe.files[f] : f \in DOMAIN recipe.files}
EvidenceOf(marks, path) == path \in DOMAIN marks /\ marks[path]
Evidence(recipes, marks) ==
    LET paths == UNION {Captures(r) : r \in recipes} IN paths # {} /\ \A p \in paths : EvidenceOf(marks, p)

\* recipe, repeatable, insmod, tape.
RecipeNamed(recipes, name) == {r \in recipes : r.name = name}
Repeatable(recipes) == {r \in recipes : r.repeatable}
Insmod(recipes, module) == {r \in recipes : r.module = module}
TapeOf(recipes, name) == {r.trace : r \in {s \in RecipeNamed(recipes, name) : s.trace # ""}}

\* sh: the command that was recorded, under the recipe's name or the line itself.
Sh(recipes, line, name) == {r.command : r \in RecipeNamed(recipes, IF name = "" THEN line ELSE name)}

\* read: of the recipe that is named, or of the only one that has the file.
ReadFile(recipes, path, name) ==
    LET having == {r \in recipes : path \in DOMAIN r.files}
    IN  IF name # "" THEN {r.files[path] : r \in RecipeNamed(having, name)}
        ELSE IF Cardinality(having) = 1 THEN {r.files[path] : r \in having} ELSE {}

-----------------------------------------------------------------------------
(* session.py: what a box says of itself before anything is run.           *)

\* boot: the corpus when kxbox is told to, or when there is no emulator to find.
Boot(disabled, emulator) ==
    CASE disabled -> [live |-> FALSE, why |-> "KXBOX_DISABLE is set"]
      [] ~disabled /\ emulator -> [live |-> TRUE, why |-> ""]
      [] OTHER -> [live |-> FALSE, why |-> "no emulator"]

\* banner: release is what /proc/version said, nothing when it could not be read.
BoxBanner(box, release, pinned, evidence) ==
    [who      |-> IF box.live THEN "the kernel says" ELSE "the recorded kernel said",
     release  |-> release,
     notPin   |-> release # <<>> /\ pinned # "" /\ pinned # release[1],
     limits   |-> box.live,
     evidence |-> box.live \/ evidence]

-----------------------------------------------------------------------------
(* index.py.  A path is the directory of the corpus it is in and, as a     *)
(* set, the patterns of file names it fits; each route has one of each.    *)

ROUTES ==
    << <<"traces", "flat-*.txt", "function">>,        <<"traces", "events-*.txt", "events">>,
       <<"traces", "*.txt", "function_graph">>,       <<"events", "*.format", "event-format">>,
       <<"proc", "kallsyms.txt", "kallsyms">>,        <<"proc", "kallsyms-*.txt", "kallsyms">>,
       <<"proc", "lockdep.txt", "lockdep-classes">>,  <<"proc", "lockdep_stats.txt", "lockdep-stats">>,
       <<"proc", "lockdep-stats-*.txt", "lockdep-stats">>, <<"proc", "ring-overrun.txt", "tracefs-stats">>,
       <<"proc", "version.txt", "proc-version">>,     <<"proc", "meminfo.txt", "proc-keyed">>,
       <<"proc", "self-status.txt", "proc-keyed">>,   <<"proc", "interrupts.txt", "proc-percpu">>,
       <<"proc", "softirqs.txt", "proc-percpu">>,     <<"proc", "self-maps.txt", "proc-maps">>,
       <<"proc", "*-stat.txt", "proc-pidstat">>,      <<"source", "MAINTAINERS*", "maintainers">>,
       <<"source", "*.tbl", "syscall-table">>,        <<"source", "Kconfig*", "kconfig-source">>,
       <<"source", "*.c", "none">>,                   <<"oops", "*.txt", "lockdep-splat">>,
       <<"btf", "*.btf", "btf">>,                     <<"experiments", "*.txt", "none">>,
       <<"replays", "*.cast", "cast">> >>

\* route: the first that fits.
Route(path) ==
    LET fit == {i \in DOMAIN ROUTES : ROUTES[i][1] = path.dir /\ ROUTES[i][2] \in path.fits}
    IN  IF fit = {} THEN <<>> ELSE <<ROUTES[Min(fit)][3]>>

\* find: every file that is not metadata and has metadata beside it; nothing when one of them
\* has no route (at raises).
FindArtefacts(files) ==
    LET described == SelectSeq(files, LAMBDA f : ~f.toml /\ f.described)
    IN  IF \E i \in DOMAIN described : Route(described[i].path) = <<>> THEN <<>>
        ELSE [i \in DOMAIN described |-> [id |-> described[i].id, kind |-> Route(described[i].path)[1]]]

\* get: the last artefact of an identity, which is its path without the ending.
GetArtefact(artefacts, id) ==
    LET of == SelectSeq(artefacts, LAMBDA a : a.id = id) IN IF of = <<>> THEN <<>> ELSE <<Last(of)>>

\* Reading.adds_up: the reader accounted for as many lines as the file has, if it accounts at all.
AddsUp(account, lines) == account = <<>> \/ Counted(account[1]).total = Len(lines)
=============================================================================
