------------------------------- MODULE Citing -------------------------------
(***************************************************************************)
(* A lesson's citations and claims: the author writes entries and claims   *)
(* and marks claims verified, the kernel tree moves from version to        *)
(* version, and tools/refcheck.py resolves the citations against it and    *)
(* writes back what it found.  tools/claimledger.py and tools/coverage.py  *)
(* read the result.                                                        *)
(***************************************************************************)
EXTENDS Integers, Sequences, SequencesExt, FiniteSetsExt

CONSTANTS
    Entries,     \* the citations that can be written, each a sequence of rows
    Claims,      \* the claims that can be made
    Sources,     \* for each path of the kernel tree, the texts it has had
    Declared,    \* what the lesson declares
    Artefacts,   \* the evidence there is, and the machine it was taken on
    LedgerEntries, \* the entries of the coverage ledger
    MaxEntries, MaxClaims, Radius

VARIABLES rows, claims, tree, published

citingVars == <<rows, claims, tree, published>>

LG == INSTANCE Ledgers

\* An entry begins with its id and has no other, and has a line and a confirmation to be written
\* over, as every entry of the repository does.
ASSUME EntriesAssumption ==
    \A entry \in Entries :
        /\ entry \in Seq(ToSet(entry)) /\ {"line", "confirmed"} \subseteq {entry[i].k : i \in DOMAIN entry}
        /\ \A i \in DOMAIN entry : (entry[i].k = "id" <=> i = 1) /\ (entry[i].k = "line" => entry[i].line \in Nat)
\* A claim has its five keys, and a reason its length.
ASSUME ClaimsAssumption ==
    \A c \in Claims :
        /\ c = [id |-> c.id, kind |-> c.kind, evidence |-> c.evidence, verified |-> c.verified, reason |-> c.reason]
        /\ c.verified \in BOOLEAN /\ c.reason \in Nat
\* A text is a sequence of lines, and a context some of them on either side.
ASSUME SourcesAssumption ==
    /\ Radius \in Nat
    /\ \A p \in DOMAIN Sources : \A text \in Sources[p] : text \in Seq(ToSet(text))

Cited(r) == LG!ReadReferences(r)
Ids(r) == {Cited(r)[i].id : i \in DOMAIN Cited(r)}
Lesson == [ids |-> {e[1].id : e \in Entries} \cup {c.id : c \in Claims}, published |-> published]

\* What claimledger finds, and what it and refcheck find together.
LedgerProblems == LG!CheckLesson(Lesson, Declared, claims, "teaching" :> "7.2", Artefacts)
Problems ==
    LET refs == Cited(rows)
        long == [a \in {refs[i].anchor : i \in DOMAIN refs} |-> 20]
    IN  (UNION {LG!CheckReference(refs[i], Lesson, {"7.2"}, {"mm", "fs"}, long) : i \in DOMAIN refs})
        \cup LG!CheckClaims(claims, refs)
        \cup LedgerProblems

\* What coverage finds of the part the lesson is of.
Uncovered ==
    LG!CheckCoverage(LedgerEntries, {"Z02"}, "slab" :> "complete",
                     {[document |-> "Z02", path |-> Cited(rows)[i].path] : i \in DOMAIN Cited(rows)}, {"mm", "fs"})

-----------------------------------------------------------------------------
CitingInit == rows = <<>> /\ claims = <<>> /\ tree = <<>> /\ published = FALSE

\* A tree is unpacked, and later a file of it is another version's.
Unpack == /\ tree = <<>>
          /\ tree' \in [DOMAIN Sources -> UNION {Sources[p] : p \in DOMAIN Sources}]
          /\ \A p \in DOMAIN Sources : tree'[p] \in Sources[p]
          /\ UNCHANGED <<rows, claims, published>>
Upgrade == /\ tree # <<>>
           /\ \E p \in DOMAIN Sources : \E text \in Sources[p] \ {tree[p]} : tree' = [tree EXCEPT ![p] = text]
           /\ UNCHANGED <<rows, claims, published>>

Cite == /\ tree # <<>> /\ Len(Cited(rows)) < MaxEntries
        /\ \E entry \in Entries : entry[1].id \notin Ids(rows) /\ rows' = rows \o entry
        /\ UNCHANGED <<claims, tree, published>>

\* Having read the text that changed, the author takes out the context recorded of the old one.
Reread == /\ \E i \in DOMAIN rows : rows[i].k = "context" /\ rows' = RemoveAt(rows, i)
          /\ UNCHANGED <<claims, tree, published>>

\* refcheck --tree --confirm
ConfirmAll == /\ tree # <<>>
              /\ rows' = LG!Confirm(rows, tree, Radius)
              /\ UNCHANGED <<claims, tree, published>>

Claim == /\ tree # <<>> /\ Len(claims) < MaxClaims
         /\ \E c \in Claims : ~Contains(claims, c) /\ claims' = Append(claims, c)
         /\ UNCHANGED <<rows, tree, published>>
MarkVerified == /\ \E i \in DOMAIN claims : claims' = [claims EXCEPT ![i].verified = ~@]
                /\ UNCHANGED <<rows, tree, published>>
Publish == /\ claims # <<>> /\ published' = ~published
           /\ UNCHANGED <<rows, claims, tree>>

CitingNext == Unpack \/ Upgrade \/ Cite \/ Reread \/ ConfirmAll \/ Claim \/ MarkVerified \/ Publish

CitingSpec == CitingInit /\ [][CitingNext]_citingVars

-----------------------------------------------------------------------------
\* An entry is changed by a confirmation only when its text is there once and is the text it was
\* confirmed on, if it ever was: what changed under a citation is never taken for read.  A
\* changed entry has its own line and context, none of another's, and no entry is lost.
DriftIsNeverTakenSilently ==
    [][ConfirmAll =>
        LET was == Cited(rows)  now == Cited(rows')
            Hits(ref) == {n \in DOMAIN tree[ref.path] : ref.anchor \in tree[ref.path][n]}
        IN  /\ Len(now) = Len(was)
            /\ \A i \in DOMAIN was :
                  LET hits == Hits(was[i])
                      text == LG!Context(tree[was[i].path], Min(hits), Radius)
                  IN  \/ now[i] = was[i]
                      \/ /\ Cardinality(hits) = 1 /\ was[i].context \in {<<>>, text}
                         /\ now[i] = [was[i] EXCEPT !.line = Min(hits), !.context = text, !.confirmed = TRUE]]_citingVars

\* A lesson nothing is found wrong with has every claim supported: published, it has no claim
\* that is not verified; a verified claim about the source is one whose citation somebody
\* resolved in a tree; one with a file has that file from the machine the lesson declares, or
\* says why not, and the file is evidence.  And the part of the kernel it cites has an owner.
SupportedClaims ==
    tree # <<>> /\ Problems = {} =>
        /\ published => \A i \in DOMAIN claims : claims[i].verified
        /\ \A i \in DOMAIN claims : claims[i].verified =>
              LET c == claims[i] IN
              /\ c.evidence # "" /\ c.kind # "unobservable"
              /\ c.kind = "source" => \E ref \in ToSet(Cited(rows)) : ref.id = c.evidence /\ ref.confirmed /\ ref.line > 0
              /\ c.kind \in LG!FILEKINDS =>
                    /\ Artefacts[c.evidence][1].evidence
                    /\ LG!Differences(Declared, Artefacts[c.evidence][1].machine) # {} => c.reason >= 40
        /\ Uncovered = {} => \A ref \in ToSet(Cited(rows)) : LG!OwnerOf(LedgerEntries, ref.path) # <<>>
============================================================================
