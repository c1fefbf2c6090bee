----------------------------- MODULE Comparing -----------------------------
(***************************************************************************)
(* Two runs compared: two tapes of calls, as kxdiff compares them at its   *)
(* levels, or two captures, as kxray/corpus/normalize.py does once it has  *)
(* taken the numbers of one run out of each.  Either grows a frame or a    *)
(* line at a time.                                                         *)
(***************************************************************************)
EXTENDS Lines

CONSTANTS
    Frames,     \* the frames a tape is made of, in any order their depths allow
    Captured,   \* the lines a capture is made of
    MaxFrames,  \* the most frames of both tapes together
    MaxCaptured \* the most lines of a capture

\* The time a frame ran itself, in thousandths of a microsecond as the kernel prints it.
ASSUME FramesAssumption == \A frame \in Frames : frame.own \in Int

VARIABLES comparing, one, other

comparingVars == <<comparing, one, other>>

KD == INSTANCE Diff

-----------------------------------------------------------------------------
\* The levels that are a chain, the strictest first, and what is compared at each.
LEVELS == <<"exact", "sequence", "counters", "set">>
Policies == [oneTask : BOOLEAN, ignore : {{}, {"irq"}}]
AsTape(frames) == [frames |-> frames, cpus |-> {frames[i].cpu : i \in DOMAIN frames}]
Compared(level, policy) == KD!DiffOf(AsTape(one), AsTape(other), level, policy, 2)

\* A frame is under the one before it, or beside it or one of those it is under.
Follows(frames, frame) == frame.depth <= (IF frames = <<>> THEN 0 ELSE Last(frames).depth + 1)

\* A capture's lines are put in order by their tokens: their patterns by rank, then their values.
Rank == <<"TIME", "DUR", "BUCKET", "#ptr", "#pid", "#lane", "&symbol", "counter from", "pointer", "event task",
          "pid field", "event cpu", "counter", "offset", "stamp", "duration", "word">>
RankOf(k) == CHOOSE i \in DOMAIN Rank : Rank[i] = k
Key(line) == FlattenSeq([j \in DOMAIN line |-> <<RankOf(line[j].k), line[j].v>>])
Before(l, m) ==
    LET a == Key(l)  b == Key(m)
        differ == {i \in DOMAIN a \cap DOMAIN b : a[i] # b[i]}
    IN  IF differ = {} THEN Len(a) < Len(b) ELSE a[Min(differ)] < b[Min(differ)]
NM == INSTANCE Normalize
Plain(capture, wanted) == NM!Normalised(capture, wanted, "elide", <<>>)

-----------------------------------------------------------------------------
ComparingInit == comparing = "" /\ one = <<>> /\ other = <<>>

Choose == /\ comparing = ""
          /\ comparing' \in {"tapes", "captures"}
          /\ UNCHANGED <<one, other>>

\* The tapes are filled one after the other: the first is not touched once the second has a frame.
Trace == /\ comparing = "tapes"
         /\ Len(one) + Len(other) < MaxFrames
         /\ \E frame \in Frames :
                \/ other = <<>> /\ Follows(one, frame) /\ one' = Append(one, frame) /\ UNCHANGED other
                \/ Follows(other, frame) /\ other' = Append(other, frame) /\ UNCHANGED one
         /\ UNCHANGED comparing

\* The captures grow together, a line each, as two runs of one command do.
Capture == /\ comparing = "captures"
           /\ Len(one) < MaxCaptured
           /\ \E l, m \in Captured : one' = Append(one, l) /\ other' = Append(other, m)
           /\ UNCHANGED comparing

ComparingNext == Choose \/ Trace \/ Capture

ComparingSpec == ComparingInit /\ [][ComparingNext]_comparingVars

-----------------------------------------------------------------------------
(* What a run compared with another run shows.                             *)

\* Two tapes that are the same at a level are the same at every looser level of the chain, and
\* neither a policy nor the cut of a long list of differences changes that: levels.py says four
\* of the five levels are a chain, and differences are looked for by a different loop at each.
LevelsAreAChain ==
    comparing = "tapes" =>
        \A policy \in Policies :
            \A same \in {[level \in ToSet(LEVELS) \cup {"distribution"} |-> Compared(level, policy).same]} :
                /\ \A i \in 1..3 : same[LEVELS[i]] => same[LEVELS[i + 1]]
                /\ one = other => same["distribution"]

\* The values of a family in a capture, and whether two sequences are one up to their values.
ValuesOf(capture, family) ==
    LET met == SelectSeq(FlattenSeq(capture), LAMBDA t : NM!IsNamed(t, family)) IN [i \in DOMAIN met |-> met[i].v]
Exchangeable(a, b) == Len(a) = Len(b) /\ \A i, j \in DOMAIN a : (a[i] = a[j]) <=> (b[i] = b[j])
Shape(capture) == NM!EachToken(capture, LAMBDA t : IF \E f \in NM!FamilyOf(t.k) : NM!IsNamed(t, f) THEN [t EXCEPT !.v = 1] ELSE t)
\* What a name of a renamed capture stands for.
Undone(capture) ==
    LET ToValue(t, u) == IF t = u THEN u ELSE LET f == CHOOSE f \in DOMAIN NM!Patterns : u.k = "#" \o f
                                              IN  [t EXCEPT !.v = NM!Original(NM!Legend(capture, f), u.v)[1]]
        renamed == Plain(capture, {"pointer", "identity", "cpu"})
    IN  [i \in DOMAIN capture |-> [j \in DOMAIN capture[i] |-> ToValue(capture[i][j], renamed[i][j])]]
\* Two captures read the same under the rules that name values exactly when one becomes the other
\* by exchanging addresses for addresses, tasks for tasks and processors for processors: a rule
\* that runs two families into one, or numbers a value twice, tells runs apart that are alike or
\* alike ones apart.  A name can be taken back to its value, and what is normal already does not
\* change.
SameUpToNames ==
    comparing = "captures" =>
        LET rules == {"pointer", "identity", "cpu"}
            most  == ToSet(NM!ALL) \ {"counter"}
            alike == /\ Shape(one) = Shape(other)
                     /\ \A family \in DOMAIN NM!Patterns : Exchangeable(ValuesOf(one, family), ValuesOf(other, family))
        IN  /\ NM!Same(one, other, rules) <=> alike
            /\ Undone(one) = one
            /\ Len(NM!Normalised(one, {"time", "order"}, "bucket", <<>>)) = Len(one)
            /\ Plain(Plain(one, most), most) = Plain(one, most)
============================================================================
