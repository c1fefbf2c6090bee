------------------------------ MODULE Lockdep ------------------------------
(***************************************************************************)
(* The readers of kxray/lockdep.py.  A text is a sequence of lines; a line *)
(* is a record whose field k says which pattern of the source it matches,  *)
(* with what the pattern captures.  A value that may be missing (None in   *)
(* the source) is a sequence of at most one element.                       *)
(***************************************************************************)
EXTENDS Lines

\* What the patterns tell apart: the banner and the lines of a report, and the rows of the two
\* files under /proc.
LineKinds == {"blank", "rule", "banner", "version", "who", "holding", "lock", "info", "link", "frame",
              "unsafe", "cpus", "step", "deadlock", "stat", "class", "classes header", "other"}

At(lines, kind, from, to) == {i \in from..to : i <= Len(lines) /\ lines[i].k = kind}

\* _next_lock: the first lock line within four lines of a header.
NextLock(lines, start) ==
    LET near == At(lines, "lock", start, start + 3)
    IN  IF near = {} THEN <<>> ELSE <<lines[Min(near)].name>>

\* _scenario: the columns within eight lines, and the steps up to the DEADLOCK line.
Scenario(lines, start) ==
    LET heads == At(lines, "cpus", start, start + 7)
        ends  == At(lines, "deadlock", Min(heads) + 1, Len(lines)) \cup {Len(lines) + 1}
    IN  IF heads = {} THEN <<>>
        ELSE <<[columns |-> lines[Min(heads)].columns,
                steps |-> SelectSeq(SubSeq(lines, Min(heads) + 1, Min(ends) - 1),
                                    LAMBDA l : l.k = "step")]>>

\* A report nothing is known of yet, with the link being read and the frames under it; a link.
NewSplat == [task |-> "", acquiring |-> <<>>, holding |-> <<>>, chain |-> <<>>,
             scenario |-> <<>>, current |-> <<>>, stack |-> <<>>]
Link(index, name, stack) == [index |-> index, name |-> name, stack |-> stack]

\* Mutant of CloseLink: the stack of a lock is left for the next one.
CloseLink_KeepsStack(s) ==
    [s EXCEPT !.chain = IF s.current = <<>> THEN @
                        ELSE Append(@, Link(s.current[1].index, s.current[1].name, s.stack)),
              !.current = <<>>]

\* close(): the link being read joins the chain with the frames found under it.
CloseLink(s) ==
    [s EXCEPT !.chain = IF s.current = <<>> THEN @
                        ELSE Append(@, Link(s.current[1].index, s.current[1].name, s.stack)),
              !.current = <<>>, !.stack = <<>>]

\* One turn of the loop of parse_splat.
SplatLine(lines, s, i) ==
    LET line == lines[i]
        open == s.current # <<>>
    IN  CASE line.k = "who"     -> [s EXCEPT !.task = line.task, !.acquiring = NextLock(lines, i + 1)]
          [] line.k = "holding" -> [s EXCEPT !.holding = NextLock(lines, i + 1)]
          [] line.k = "link"    -> [CloseLink(s) EXCEPT !.current = <<line>>]
          [] open /\ line.k \in {"blank", "info"} -> CloseLink(s)
          [] open /\ line.k = "frame"    -> [s EXCEPT !.stack = Append(@, line.fn)]
          [] ~open /\ line.k = "unsafe"  -> [s EXCEPT !.scenario = Scenario(lines, i + 1)]
          [] OTHER -> s

NotASplat == [error |-> "NotASplat"]
Truncated(why) == [error |-> "Truncated", why |-> why]

\* The checks at the end of parse_splat, in their order, and the report.
Checked(s, version) ==
    LET ordered == SortSeq(s.chain, LAMBDA a, b : a.index < b.index) IN
    CASE s.acquiring = <<>> -> Truncated("no lock being acquired")
      [] s.holding = <<>>   -> Truncated("no lock held")
      [] Len(s.chain) < 2   -> Truncated("a cycle needs two locks")
      [] \E i \in DOMAIN ordered : ordered[i].index # i - 1 -> Truncated("gap in the chain")
      [] ordered[1].name # s.acquiring[1] -> Truncated("#0 is not the lock being acquired")
      [] Last(ordered).name # s.holding[1] -> Truncated("the top is not the lock held")
      [] OTHER -> [error |-> "", task |-> s.task, kernel |-> version, chain |-> ordered,
                   acquiring |-> s.acquiring[1], holding |-> s.holding[1], scenario |-> s.scenario]

\* parse_splat
ParseSplat(lines) ==
    LET banners  == At(lines, "banner", 1, Len(lines))
        versions == At(lines, "version", Min(banners) + 1, Min(banners) + 2)
        Turn(s, i) == SplatLine(lines, s, i)
    IN  IF banners = {} THEN NotASplat
        ELSE Checked(CloseLink(FoldLeftDomain(Turn, NewSplat, lines)),
                     IF versions = {} THEN "" ELSE lines[Min(versions)].release)

\* Where each banner of a log is, in order: where a report begins.
Starts(lines) == SetToSortSeq(At(lines, "banner", 1, Len(lines)), <)

\* The lines splats() hands to parse_splat: from two lines above a banner to the next banner.
Chunk(lines, p) ==
    LET starts == Starts(lines)
    IN  SubSeq(lines, Max({starts[p] - 2, 1}),
               IF p < Len(starts) THEN starts[p + 1] - 1 ELSE Len(lines))

\* splats: every report of a log that parses, the others left out.
Splats(lines) ==
    SelectSeq([p \in DOMAIN Starts(lines) |-> ParseSplat(Chunk(lines, p))],
              LAMBDA s : s.error = "")

\* Splat.cycle, Splat.edges
Cycle(splat) == [i \in DOMAIN splat.chain |-> splat.chain[i].name] \o <<splat.chain[1].name>>
Edges(splat) == {<<Cycle(splat)[i], Cycle(splat)[i + 1]>> : i \in DOMAIN splat.chain}

\* Link.taken_in: the first frame that is not the checker's own, else the last one, else nothing.
TakenIn(link, Plumbing) ==
    LET callers == {i \in DOMAIN link.stack : link.stack[i] \notin Plumbing}
    IN  CASE callers # {}     -> <<link.stack[Min(callers)]>>
          [] link.stack # <<>> -> <<Last(link.stack)>>
          [] OTHER             -> <<>>

-----------------------------------------------------------------------------
(* /proc/lockdep_stats and /proc/lockdep.                                  *)

\* parse_stats: the last line of a name wins; a limit stays even when a later line has none.
ParseStats(lines) ==
    LET Turn(s, line) ==
          IF line.k # "stat" THEN s
          ELSE [values |-> Laid([name \in {line.name} |-> line.value], s.values),
                maxima |-> IF line.max = <<>> THEN s.maxima
                           ELSE Laid([name \in {line.name} |-> line.max[1]], s.maxima)]
    IN  FoldLeft(Turn, [values |-> <<>>, maxima |-> <<>>], lines)

\* Stats.off: lockdep has switched itself off.
Off(stats) == "debug_locks" \in DOMAIN stats.values /\ stats.values["debug_locks"] = 0

\* Stats.near_limits, with the threshold in hundredths.
NearLimits(stats, threshold) ==
    {name \in DOMAIN stats.maxima :
        /\ stats.maxima[name] # 0
        /\ 100 * stats.values[name] >= threshold * stats.maxima[name]}

\* parse_classes: the rows, no more than limit of them (a limit is asked for or not).
ParseClasses(lines, limit) ==
    LET rows == Only(lines, {l \in ToSet(lines) : l.k = "class"})
    IN  IF limit = <<>> THEN rows
        ELSE SubSeq(rows, 1, Min({Len(rows), Max({limit[1], 1})}))

\* account_stats, account_classes: what became of each line.
Verdict(line, row, header) ==
    CASE line.k \in {"blank", header} -> "skipped"
      [] line.k = row -> "read"
      [] OTHER        -> "unparsed"
AccountStats(lines)   == [i \in DOMAIN lines |-> Verdict(lines[i], "stat", "blank")]
AccountClasses(lines) == [i \in DOMAIN lines |-> Verdict(lines[i], "class", "classes header")]
============================================================================
