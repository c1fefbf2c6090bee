------------------------------ MODULE Ledgers ------------------------------
(***************************************************************************)
(* The three ledgers of the lessons and what is found wrong with them:     *)
(* tools/refcheck.py (what a document points at), tools/claimledger.py     *)
(* (what a lesson claims) and tools/coverage.py (who answers for which     *)
(* part of the kernel).  A path is the sequence of its names; a finding    *)
(* is where and what, its wording left out.                                *)
(***************************************************************************)
EXTENDS SourceFiles

Found(where, what, condition) == IF condition THEN {<<where, what>>} ELSE {}
Startswith(path, prefix) == IsPrefix(prefix, path)

-----------------------------------------------------------------------------
(* refcheck.py: the paths a document names.                                *)

BUILDOUTPUT == {<<"kxbox", "kernel", "build">>, <<"site", "_build">>}

\* prose_paths: the paths on the lines outside a fence, with the line each is on.
ProsePaths(lines) ==
    LET Fenced(i) == Cardinality({j \in 1..i : lines[j].k = "fence"}) % 2 = 1
    IN  {<<i, lines[i].path>> : i \in {j \in DOMAIN lines : lines[j].k = "path" /\ ~Fenced(j)}}

\* check_document: a path of the repository is there or is planned; a build leaves its own.
CheckPaths(lines, tops, there, planned) ==
    UNION {Found(p[1], "points at nothing",
                 /\ p[2][1] \in tops
                 /\ \A built \in BUILDOUTPUT : ~Startswith(p[2], built)
                 /\ p[2] \notin there \cup planned) : p \in ProsePaths(lines)}

\* check_planned: a planned path says what it will be, and is not there yet.
CheckPlanned(entries, there) ==
    UNION {Found(entries[i].path, "no reason", entries[i].words < 8)
           \cup Found(entries[i].path, "exists now", entries[i].path \in there) : i \in DOMAIN entries}

-----------------------------------------------------------------------------
(* refcheck.py: the citations.  A file of them is a sequence of rows, each *)
(* with a key and a value of that key's type.                              *)

NoReference == [id |-> "", path |-> <<>>, anchor |-> "", kernel |-> "", confirmed |-> FALSE, line |-> 0, context |-> <<>>]

\* read_references: an entry begins with its id here, as every entry of the repository does.
ReadReferences(rows) ==
    LET Turn(refs, row) == IF row.k = "id" THEN Append(refs, [NoReference EXCEPT !.id = row.id])
                           ELSE [refs EXCEPT ![Len(refs)] = [@ EXCEPT ![row.k] = row[row.k]]]
    IN  FoldLeft(Turn, <<>>, rows)

\* check_reference, for one entry of a document's file.
CheckReference(ref, document, versions, kerneltops, anchorlength) ==
    LET At(what, condition) == Found(ref.id, what, condition)
    IN  At("not its own id", ref.id \notin document.ids)
        \cup At("no path", ref.path = <<>>)
        \cup At("not in a kernel tree", ref.path # <<>> /\ ref.path[1] \notin kerneltops)
        \cup At("matches anywhere", anchorlength[ref.anchor] < 12)
        \cup At("not a pinned version", ref.kernel \notin versions)
        \cup At("nobody has resolved it", ref.confirmed /\ ref.line = 0)
        \cup At("the line is a guess", ~ref.confirmed /\ ref.line > 0)

\* check_lesson_claims: a claim about the source is verified by a confirmed citation of its lesson.
CheckClaims(claims, refs) ==
    LET Of(claim) == {i \in DOMAIN refs : refs[i].id = claim.evidence}
        Wrong(claim) ==
            CASE claim.evidence = "" -> Found(claim.id, "no citation", claim.verified)
              [] claim.evidence # "" /\ Of(claim) = {} -> {<<claim.id, "not in refs.toml">>}
              [] OTHER -> Found(claim.id, "nobody has confirmed it", claim.verified /\ ~refs[Max(Of(claim))].confirmed)
    IN  UNION {Wrong(claims[i]) : i \in {j \in DOMAIN claims : claims[j].kind = "source"}}

\* check_blueprint_citations: what is cited and what is listed are the same.
CheckCited(used, refs) ==
    LET known == {refs[i].id : i \in DOMAIN refs}
    IN  {<<id, "not in refs.toml">> : id \in used \ known} \cup {<<id, "nothing rests on it">> : id \in known \ used}

\* resolve: where the text cited is in a tree, its context, and what keeps it from being confirmed.
ResolveReference(ref, tree, radius) ==
    LET hit == Resolve(tree[ref.path], ref.anchor, radius)
    IN  CASE ref.path \notin DOMAIN tree -> [line |-> 0, context |-> <<>>, problem |-> "not in the tree"]
          [] ref.path \in DOMAIN tree /\ (hit.line = 0 \/ hit.problem # "") -> hit
          [] OTHER -> [hit EXCEPT !.problem = IF Changed(ref.context, hit.context) THEN "go and read it" ELSE ""]

\* Mutant of Rewrite: what comes after the entry is rewritten like it.
Rewrite_ToTheEnd(rows, id, line, context) ==
    LET Turn(s, row) ==
            LET inside == s.inside \/ (row.k = "id" /\ row.id = id)
                new == CASE inside /\ row.k = "context" -> <<>>
                         [] inside /\ row.k = "line" -> <<[k |-> "line", line |-> line], [k |-> "context", context |-> context]>>
                         [] inside /\ row.k = "confirmed" -> <<[k |-> "confirmed", confirmed |-> TRUE]>>
                         [] OTHER -> <<row>>
            IN  [inside |-> inside, out |-> s.out \o new]
    IN  FoldLeft(Turn, [inside |-> FALSE, out |-> <<>>], rows).out

\* _rewrite: the rows of one entry, its line and context replaced and its confirmation set.
Rewrite(rows, id, line, context) ==
    LET Turn(s, row) ==
            LET inside == IF row.k = "id" THEN row.id = id ELSE s.inside
                new == CASE inside /\ row.k = "context" -> <<>>
                         [] inside /\ row.k = "line" -> <<[k |-> "line", line |-> line], [k |-> "context", context |-> context]>>
                         [] inside /\ row.k = "confirmed" -> <<[k |-> "confirmed", confirmed |-> TRUE]>>
                         [] OTHER -> <<row>>
            IN  [inside |-> inside, out |-> s.out \o new]
    IN  FoldLeft(Turn, [inside |-> FALSE, out |-> <<>>], rows).out

\* confirm, with write: what resolves without a problem is written back, entry by entry.
Confirm(rows, tree, radius) ==
    LET Turn(text, ref) == LET hit == ResolveReference(ref, tree, radius)
                           IN  IF hit.problem # "" THEN text ELSE Rewrite(text, ref.id, hit.line, hit.context)
    IN  FoldLeft(Turn, rows, ReadReferences(rows))

-----------------------------------------------------------------------------
(* claimledger.py.  A machine is a record of what a lesson or an artefact  *)
(* declares, a key that says nothing being left out.                       *)

EVIDENCEKINDS == {"trace", "proc", "oops", "source", "litmus", "experiment", "unobservable"}
FILEKINDS == {"trace", "proc", "oops", "litmus"}
DECLARED == {"kernel", "arch", "profile", "tier"}
UNOBSERVABLELIMIT == 2
ARCHFAMILIES == [x86 |-> "x86-32", i386 |-> "x86-32", i486 |-> "x86-32", i586 |-> "x86-32", i686 |-> "x86-32",
                 x86_64 |-> "x86-64", amd64 |-> "x86-64", aarch64 |-> "arm64", arm64 |-> "arm64"]

SameArch(one, other) ==
    LET Family(arch) == IF arch \in DOMAIN ARCHFAMILIES THEN ARCHFAMILIES[arch] ELSE arch
    IN  Family(one) = Family(other)

\* check_declaration: a lesson says which machine its claims are about, and that machine is built.
CheckDeclaration(meta, built) ==
    {<<"", key>> : key \in DECLARED \ DOMAIN meta}
    \cup Found("", "no such tier", "tier" \in DOMAIN meta /\ meta.tier \notin {"0", "1"})
    \cup (IF "profile" \notin DOMAIN meta \/ DOMAIN built = {} THEN {}
          ELSE IF meta.profile \notin DOMAIN built THEN {<<"", "no such profile">>}
          ELSE Found("", "another kernel", built[meta.profile] # "" /\ ("kernel" \in DOMAIN meta => meta.kernel # built[meta.profile])))

Differences(meta, artefact) ==
    {key \in DECLARED \cap DOMAIN meta \cap DOMAIN artefact :
        IF key = "arch" THEN ~SameArch(meta.arch, artefact.arch) ELSE meta[key] # artefact[key]}

\* Mutant of CheckMachine: an artefact of another machine needs no reason.
CheckMachine_NoReason(claim, meta, beside) ==
    Found(claim.id, "no difference", Differences(meta, beside) = {} /\ claim.reason > 0)

\* _check_machine: an artefact of another machine needs a reason, and one of the same needs none.
CheckMachine(claim, meta, beside) ==
    LET differs == Differences(meta, beside)
    IN  Found(claim.id, "why this machine", differs # {} /\ claim.reason = 0)
        \cup Found(claim.id, "not a reason", differs # {} /\ claim.reason \in 1..39)
        \cup Found(claim.id, "no difference", differs = {} /\ claim.reason > 0)

\* _check_evidence; artefacts has, for a file that is there, the machine it was taken on when it says.
CheckEvidence(claim, meta, artefacts) ==
    LET file == claim.evidence \in DOMAIN artefacts
        beside == file /\ artefacts[claim.evidence] # <<>>
        Machine == IF beside THEN CheckMachine(claim, meta, artefacts[claim.evidence][1].machine) ELSE {}
    IN  CASE claim.kind = "unobservable" -> Found(claim.id, "both", claim.verified)
          [] claim.kind # "unobservable" /\ claim.evidence = "" -> Found(claim.id, "nothing behind it", claim.verified)
          [] claim.kind \in FILEKINDS /\ claim.evidence # "" /\ ~file -> {<<claim.id, "does not exist">>}
          [] claim.kind \in FILEKINDS /\ claim.evidence # "" /\ file ->
                Found(claim.id, "from nowhere", ~beside) \cup Machine
                \cup Found(claim.id, "not evidence", beside /\ claim.verified /\ ~artefacts[claim.evidence][1].evidence)
          [] OTHER -> Machine

\* check_lesson.
CheckLesson(lesson, meta, claims, built, artefacts) ==
    LET Known(i) == claims[i].kind \in EVIDENCEKINDS
        Wrong(i) == Found(claims[i].id, "not its own id", claims[i].id \notin lesson.ids)
                    \cup Found(claims[i].id, "duplicate", \E j \in 1..i - 1 : claims[j].id = claims[i].id)
                    \cup Found(claims[i].id, "no such kind", ~Known(i))
                    \cup (IF Known(i) THEN CheckEvidence(claims[i], meta, artefacts) ELSE {})
                    \cup Found(claims[i].id, "published", Known(i) /\ lesson.published /\ ~claims[i].verified)
    IN  CheckDeclaration(meta, built) \cup Found("", "no claims", claims = <<>>)
        \cup (UNION {Wrong(i) : i \in DOMAIN claims})
        \cup Found("", "unobservable", Cardinality({i \in DOMAIN claims : claims[i].kind = "unobservable"}) > UNOBSERVABLELIMIT)

-----------------------------------------------------------------------------
(* coverage.py.  A citation is a path and the document that makes it.      *)

COVERAGESTATUSES == {"taught", "partial", "mentioned", "out-of-scope"}

\* owner: of the entries with a prefix of a path, the first with the longest one.
Owns(entry, path) == {entry.paths[i] : i \in {j \in DOMAIN entry.paths : Startswith(path, entry.paths[j])}}
LongestOf(entry, path) == Max({Len(p) : p \in Owns(entry, path)})
OwnerOf(entries, path) ==
    LET hits == {i \in DOMAIN entries : Owns(entries[i], path) # {}}
        best == {i \in hits : \A j \in hits : LongestOf(entries[i], path) >= LongestOf(entries[j], path)}
    IN  IF hits = {} THEN <<>> ELSE <<entries[Min(best)]>>

\* _check_entries, _check_paths and _check_named; statuses is the status of each blueprint there is.
CheckEntries(entries, lessons, statuses) ==
    LET Twice(i) == \E j \in 1..i - 1 : entries[j].name = entries[i].name
        Claimed(i) == UNION {ToSet(entries[j].paths) : j \in 1..i - 1}
        Wrong(i) ==
            LET one == entries[i]
                Known == ToSet(one.blueprints) \cap DOMAIN statuses
            IN  Found(one.name, "declared twice", Twice(i))
                \cup Found(one.name, "no such status", one.status \notin COVERAGESTATUSES)
                \cup Found(one.name, "owns nothing", one.paths = <<>>)
                \cup {<<one.name, "claimed twice">> : path \in ToSet(one.paths) \cap Claimed(i)}
                \cup Found(one.name, "needs a reason", one.status = "out-of-scope" /\ one.reason < 40)
                \cup Found(one.name, "no lesson", one.status = "taught" /\ one.lessons = <<>>)
                \cup Found(one.name, "nothing written",
                           one.status \in {"taught", "partial"} /\ one.lessons \o one.blueprints = <<>>)
                \cup Found(one.name, "owes no blueprint", one.status \in {"mentioned", "out-of-scope"} /\ one.blueprints # <<>>)
                \cup {<<one.name, "no such lesson">> : lesson \in ToSet(one.lessons) \ lessons}
                \cup {<<one.name, "no such blueprint">> : name \in ToSet(one.blueprints) \ Known}
                \cup Found(one.name, "not complete", one.status = "taught" /\ \A name \in Known : statuses[name] # "complete")
    IN  UNION {Wrong(i) : i \in DOMAIN entries}

\* _check_citations and _check_both_ways: who cites a part of the tree is who its entry names.
CheckCitations(entries, cited) ==
    LET Holder(c) == OwnerOf(entries, c.path)
        Reaches(one) == {c.document : c \in {d \in cited : Holder(d) # <<>> /\ Holder(d)[1].name = one.name}}
        Named(one) == ToSet(one.lessons) \cup ToSet(one.blueprints)
    IN  {<<c.document, "nobody owns it">> : c \in {d \in cited : Holder(d) = <<>>}}
        \cup {<<c.document, "out of scope">> : c \in {d \in cited : Holder(d) # <<>> /\ Holder(d)[1].status = "out-of-scope"}}
        \cup UNION {{<<entries[i].name, "cites nothing of it">> : document \in Named(entries[i]) \ Reaches(entries[i])}
                    \cup {<<entries[i].name, "not named">> : document \in Reaches(entries[i]) \ Named(entries[i])}
                    : i \in DOMAIN entries}

\* _check_top_level: every directory at the top of the tree has an owner.
CheckTopLevel(entries, toplevel) ==
    {<<"", "nothing owns it">> : name \in {n \in toplevel : OwnerOf(entries, <<n>>) = <<>>}}

\* check
CheckCoverage(entries, lessons, statuses, cited, toplevel) ==
    IF entries = <<>> THEN {<<"", "nothing is declared">>}
    ELSE CheckEntries(entries, lessons, statuses) \cup CheckCitations(entries, cited)
         \cup CheckTopLevel(entries, toplevel)
============================================================================
