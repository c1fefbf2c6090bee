-------------------------------- MODULE Diff --------------------------------
(***************************************************************************)
(* kxdiff: which frames of a tape a policy keeps, what each level reads of *)
(* them, and where two tapes differ.  A tape is its frames in the order    *)
(* they are walked, its processors, and each frame has its depth; times    *)
(* are whole numbers, and shares of a total are hundredths.                *)
(***************************************************************************)
EXTENDS Integers, Sequences, SequencesExt, FiniteSetsExt

SHOWN == 8
FLOOR == 5

-----------------------------------------------------------------------------
(* policy.py                                                               *)

\* owner: the task with the most frames, the one met first of several; frames may have none.
Owner(frames) ==
    LET tasks == SelectSeq([i \in DOMAIN frames |-> frames[i].task], LAMBDA t : t # "")
        Times(t) == Cardinality({i \in DOMAIN tasks : tasks[i] = t})
        most == {i \in DOMAIN tasks : \A j \in DOMAIN tasks : Times(tasks[i]) >= Times(tasks[j])}
    IN  IF tasks = <<>> THEN "" ELSE tasks[Min(most)]

\* Policy.keep: a frame left out takes everything under it with it.
Keep(policy, frames) ==
    LET whose == IF policy.oneTask THEN Owner(frames) ELSE ""
        Out(f) == f.name \in policy.ignore \/ (whose # "" /\ f.task # "" /\ f.task # whose)
        Turn(s, f) == CASE s.inside # <<>> /\ f.depth > s.inside[1] -> s
                        [] ~(s.inside # <<>> /\ f.depth > s.inside[1]) /\ Out(f) -> [s EXCEPT !.inside = <<f.depth>>]
                        [] OTHER -> [kept |-> Append(s.kept, f), inside |-> <<>>]
    IN  FoldLeft(Turn, [kept |-> <<>>, inside |-> <<>>], frames).kept

Dropped(policy, frames) == Len(frames) - Len(Keep(policy, frames))

-----------------------------------------------------------------------------
(* levels.py: what a level reads, and its differences; the wording of a    *)
(* difference is left out, and what it is about is kept.                   *)

EachFrame(frames, Part(_)) == [i \in DOMAIN frames |-> Part(frames[i])]
\* Places of a sequence, in order.
InOrder(places) ==
    CHOOSE s \in [1..Cardinality(places) -> places] : \A m, n \in DOMAIN s : m < n => s[m] < s[n]
Names(frames) == {frames[i].name : i \in DOMAIN frames}
Times(frames, name) == Cardinality({i \in DOMAIN frames : frames[i].name = name})

\* _shares: the time each function spent itself, of the whole, when it is worth naming.
Shares(frames) ==
    LET Own(S) == FoldSet(LAMBDA i, sum : sum + frames[i].own, 0, S)
        total  == Own(DOMAIN frames)
        Share(name) == (100 * Own({i \in DOMAIN frames : frames[i].name = name})) \div total
    IN  IF total <= 0 THEN <<>>
        ELSE [name \in {n \in Names(frames) : Share(n) >= FLOOR} |-> Share(name)]

Read(level, frames, tape) ==
    CASE level = "exact" ->
            <<EachFrame(frames, LAMBDA f : <<f.depth, f.name, f.cpu, f.task, f.complete, f.time>>), tape.cpus>>
      [] level = "sequence" ->
            <<EachFrame(frames, LAMBDA f : <<f.depth, f.name>>), tape.cpus,
              LET open == InOrder({i \in DOMAIN frames : ~frames[i].complete})
              IN  [j \in DOMAIN open |-> frames[open[j]].name]>>
      [] level = "counters" -> [name \in Names(frames) |-> Times(frames, name)]
      [] level = "set"      -> Names(frames)
      [] level = "distribution" -> Shares(frames)

\* Mutant of InPlace: a sequence that goes on longer than the other is not seen to.
InPlace_InCommon(one, other) ==
    InOrder({i \in 1..Min({Len(one), Len(other)}) : one[i] # other[i]})

\* Two sequences compared one place after the other, and then by their lengths.
InPlace(one, other) ==
    LET both == Min({Len(one), Len(other)})
    IN  InOrder({i \in 1..both : one[i] # other[i]})
        \o (IF Len(one) = Len(other) THEN <<>> ELSE <<both + 1>>)

\* Names that two functions on names give different values, one that is not there being none.
ByName(one, other, Differ(_, _), none) ==
    LET At(f, name) == IF name \in DOMAIN f THEN f[name] ELSE none
    IN  SetToSeq({name \in DOMAIN one \cup DOMAIN other : Differ(At(one, name), At(other, name))})

\* differences of each level, before they are cut to what is shown.
Differences(level, one, other, tolerance) ==
    LET Cpus == IF one[2] = other[2] THEN <<>> ELSE <<"CPUs">>
    IN  CASE level = "exact" -> Cpus \o InPlace(one[1], other[1])
          [] level = "sequence" ->
                Cpus \o (IF one[3] = other[3] THEN <<>> ELSE <<"not complete">>) \o InPlace(one[1], other[1])
          [] level = "counters" -> ByName(one, other, LAMBDA a, b : a # b, 0)
          [] level = "set" -> SetToSeq(one \ other) \o SetToSeq(other \ one)
          [] level = "distribution" ->
                CASE DOMAIN one = {} /\ DOMAIN other = {} -> <<>>
                  [] (DOMAIN one = {}) # (DOMAIN other = {}) -> <<"nothing to compare">>
                  [] OTHER -> ByName(one, other, LAMBDA a, b : a - b > tolerance \/ b - a > tolerance, 0)

\* _capped: what is shown of the differences, the rest as one line.
Capped(found) == IF Len(found) <= SHOWN THEN found ELSE Append(SubSeq(found, 1, SHOWN), "and more")

\* diff: two tapes at a level under a policy, and whether they are the same.
DiffOf(one, other, level, policy, tolerance) ==
    LET kept == <<Keep(policy, one.frames), Keep(policy, other.frames)>>
        found == Capped(Differences(level, Read(level, kept[1], one), Read(level, kept[2], other), tolerance))
    IN  [level |-> level, same |-> found = <<>>, differences |-> found,
         kept |-> <<Len(kept[1]), Len(kept[2])>>,
         dropped |-> <<Dropped(policy, one.frames), Dropped(policy, other.frames)>>]
============================================================================
