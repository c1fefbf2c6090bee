----------------------------- MODULE Workbench -----------------------------
(***************************************************************************)
(* What is done with this repository by one person at a time, at a desk    *)
(* that is chosen once: a text of the corpus is read, two runs are         *)
(* compared, a blob of types is written and read, a session is replayed,   *)
(* a blueprint is sealed, a lesson cites the kernel, what is built is      *)
(* published, and a reader of a lesson is graded.  The desks share no      *)
(* state, so one specification explores them all; each is a module of its  *)
(* own.                                                                    *)
(***************************************************************************)
EXTENDS Reading, Comparing, Typing, Walkthrough, Sealing, Citing, Publishing, Studying

VARIABLE desk

vars == <<desk, readingVars, comparingVars, typingVars, walkthroughVars, sealingVars, citingVars, publishingVars, studyingVars>>

Init ==
    /\ desk = ""
    /\ ReadingInit /\ ComparingInit /\ TypingInit /\ WalkthroughInit
    /\ SealingInit /\ CitingInit /\ PublishingInit /\ StudyingInit

Others(mine) ==
    /\ IF mine = "reading" THEN TRUE ELSE UNCHANGED readingVars
    /\ IF mine = "comparing" THEN TRUE ELSE UNCHANGED comparingVars
    /\ IF mine = "typing" THEN TRUE ELSE UNCHANGED typingVars
    /\ IF mine = "walkthrough" THEN TRUE ELSE UNCHANGED walkthroughVars
    /\ IF mine = "sealing" THEN TRUE ELSE UNCHANGED sealingVars
    /\ IF mine = "citing" THEN TRUE ELSE UNCHANGED citingVars
    /\ IF mine = "publishing" THEN TRUE ELSE UNCHANGED publishingVars
    /\ IF mine = "studying" THEN TRUE ELSE UNCHANGED studyingVars

SitDown == /\ desk = ""
           /\ desk' \in {"reading", "comparing", "typing", "walkthrough", "sealing", "citing", "publishing", "studying"}
           /\ Others("")

At(mine) == desk = mine /\ Others(mine) /\ UNCHANGED desk

Next ==
    \/ SitDown
    \/ At("reading") /\ ReadingNext
    \/ At("comparing") /\ ComparingNext
    \/ At("typing") /\ TypingNext
    \/ At("walkthrough") /\ WalkthroughNext
    \/ At("sealing") /\ SealingNext
    \/ At("citing") /\ CitingNext
    \/ At("publishing") /\ PublishingNext
    \/ At("studying") /\ StudyingNext

Spec == Init /\ [][Next]_vars
============================================================================
