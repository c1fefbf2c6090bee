------------------------------ MODULE Sealing ------------------------------
(***************************************************************************)
(* The life of a blueprint: its author edits it by hand, inside the sealed *)
(* blocks too, the types and the corpus its generated sections are made     *)
(* from move on, and tools/bpc.py reseals, generates and checks it.        *)
(***************************************************************************)
EXTENDS Lines

CONSTANTS
    Draft,        \* the document there is at first, its blocks not sealed
    Corrections,  \* lines of it that are replaced, as pairs of a line and the one put in its place
    Remarks,      \* lines that are put under a heading or into a block
    Kernels,      \* the types there are to generate from, none or those of one kernel
    Corpora,      \* what the corpus has
    TypeTags,     \* the tags of the type of a field
    MaxEdits      \* the most edits by hand

VARIABLES document, kernel, corpus, edits

sealingVars == <<document, kernel, corpus, edits>>

GE == INSTANCE Blueprint

RenderNow(lines, given, section) == GE!Render(lines, given, corpus, TypeTags, section)
RenderedNow(lines, given) == [section \in GE!GENERATED |-> RenderNow(lines, given, section)]
\* bpc --generate, with the types it is given, and bpc with no option.
Generated(lines, given) == GE!Generate(lines, RenderedNow(lines, given), given # <<>>)
Passes(lines) == GE!Clean(lines, "slab", RenderedNow(lines, <<>>))

-----------------------------------------------------------------------------
SealingInit == document = <<>> /\ edits = 0 /\ kernel = <<>> /\ corpus = <<>>

NewDraft == /\ document = <<>> /\ document' = Draft
         /\ kernel' \in Kernels /\ corpus' \in Corpora
         /\ UNCHANGED edits

\* The author replaces a line, adds one, or takes out one of a block or one that marks a block.
Edited(lines) ==
    /\ document' = lines /\ edits' = edits + 1
    /\ UNCHANGED <<kernel, corpus>>
ByHand == document # <<>> /\ edits < MaxEdits
Correct == ByHand /\ \E i \in DOMAIN document, c \in Corrections :
               c[1] = document[i] /\ Edited([document EXCEPT ![i] = c[2]])
Insert == ByHand /\ \E i \in DOMAIN document, r \in Remarks :
              /\ \/ document[i].k = "heading" /\ document[i].name = r.under
                 \/ document[i].k = "open" /\ r.under = "block"
              /\ Edited(SubSeq(document, 1, i) \o <<r.line>> \o SubSeq(document, i + 1, Len(document)))
TakeOut == ByHand /\ \E i \in DOMAIN document :
              /\ document[i].k \in {"open", "close", "text"}
              /\ Edited(RemoveAt(document, i))

\* Another kernel's types, or another state of the corpus.
Move == /\ document # <<>>
        /\ \/ kernel' \in Kernels \ {kernel} /\ UNCHANGED corpus
           \/ corpus' \in Corpora \ {corpus} /\ UNCHANGED kernel
        /\ UNCHANGED <<document, edits>>

Reseal == /\ document # <<>> /\ document' = GE!Reseal(document)
          /\ UNCHANGED <<kernel, corpus, edits>>

\* The generator is run with the types there are, or without.
Generate == /\ document # <<>>
            /\ \E given \in {<<>>, kernel} : document' = Generated(document, given)
            /\ UNCHANGED <<kernel, corpus, edits>>

SealingNext == NewDraft \/ Correct \/ Insert \/ TakeOut \/ Move \/ Reseal \/ Generate

-----------------------------------------------------------------------------
\* The lines no block has, without the hashes.
Outside(lines) ==
    LET seals == ToSet(GE!FindSeals(lines))
        kept  == SelectSeq([i \in DOMAIN lines |-> i], LAMBDA i : \A s \in seals : i \notin s.open + 1..s.close - 1)
    IN  [j \in DOMAIN kept |-> IF lines[kept[j]].k = "open" THEN [lines[kept[j]] EXCEPT !.hash = GE!unsealed]
                               ELSE lines[kept[j]]]

\* A blueprint that is found clean says what its sources say now: there is one block of every
\* generated section, each with the seal of its text, and what was not read off a machine is what
\* the generator makes of the header and the corpus as they are, however the document got there;
\* a complete one rests on evidence alone.  And a generator run changes no line outside the
\* blocks, which are spliced in from the last to the first, leaves nothing it wrote unsealed, and
\* has nothing left to do the second time.
GeneratedIsCurrent ==
    LET Sealed(s) == s.declared = GE!digest(s.content)
    IN  document # <<>> =>
            /\ Passes(document) =>
                  \A seals \in {ToSet(GE!FindSeals(document))}, now \in {RenderedNow(document, <<>>)} :
                      /\ {s.section : s \in seals} = GE!GENERATED
                      /\ \A s \in seals : Sealed(s) /\ (~GE!FromBtf(s) => s.content = now[s.section].text)
                      /\ GE!Scalar(GE!FrontMatter(document), "status") = "complete" =>
                            /\ \A s \in seals : GE!ParseSource(s.content)[1].evidence
                            /\ \A i \in DOMAIN document : document[i].k = "fact" => document[i].of[1] # "not evidence"
            /\ \A given \in {<<>>, kernel} : \A after \in {Generated(document, given)} :
                  after # document =>
                      /\ Outside(after) = Outside(document)
                      /\ Generated(after, given) = after
                      /\ \A s \in ToSet(GE!FindSeals(after)) : Sealed(s)
============================================================================
