------------------------------ MODULE Harness ------------------------------
(***************************************************************************)
(* The measuring page: kxbox/web/harness.js over page.js and worker.js,    *)
(* with the two programs it runs in Python, both-ways.py (which is         *)
(* kxbox/bothways.py) and first-tape.py.                                   *)
(*                                                                         *)
(* A visit boots a guest and a worker.  The page gives the worker cells of *)
(* code and takes the answers by the cell's number.  One recipe is         *)
(* compared with its recording on each visit, and the page reloads for the *)
(* next one; what is done so far waits in sessionStorage, which belongs to *)
(* the tab.  A person may open the page again at any moment, and with      *)
(* another build.                                                          *)
(***************************************************************************)
EXTENDS Integers, Sequences, SequencesExt, FiniteSetsExt

CONSTANTS Recipes,      \* the recipes of the teaching profile, in order
          Builds,       \* the builds `?profile=` may name
          OthersAsk,    \* what else may be asked of Python meanwhile: of {"other", ""}
          MaxVisits     \* how often a person opens the page

\* "checks" is what the guest's own record calls the checks, so no recipe has that name.
ASSUME RecipesAssumption ==
    Recipes \in Seq(STRING) /\ Recipes # <<>> /\ IsInjective(Recipes) /\ "checks" \notin ToSet(Recipes)
ASSUME BoundsAssumption == MaxVisits \in Nat /\ OthersAsk \subseteq {"other", ""}

VARIABLES
  pc,         \* where main of harness.js is in this visit
  build,      \* PROFILE
  carried,    \* sessionStorage: the comparisons of the visits before
  results,    \* window.kxResults
  guest,      \* what has been run on this visit's guest
  up,         \* page.js: whether the promise that Python is up is settled, and how
  asked,      \* page.js: what every cell asks for, by its number
  answers,    \* page.js: the answer each promise was settled with, if it was
  worker,     \* how far worker.js has come with starting Python
  inbox,      \* cells on their way to the worker
  running,    \* cells its message handler is in the middle of
  outbox,     \* messages on their way to the page
  disable,    \* whether KXBOX_DISABLE is set where Python runs
  visits,     \* how often the page was opened by a person
  abandoned   \* whether that was ever done before a comparison was finished

pageVars == <<up, asked, answers>>
workerVars == <<worker, inbox, running, disable>>
visitVars == <<build, visits, abandoned>>
vars == <<pc, carried, results, guest, pageVars, workerVars, outbox, visitVars>>

Programs == {"both-ways", "first-tape"} \cup OthersAsk
Nothing == [error |-> FALSE, both |-> <<>>, bothError |-> FALSE, live |-> <<>>]
Waiting == {cell \in DOMAIN asked : answers[cell] = <<>>}

-----------------------------------------------------------------------------
(* What Python does with a cell: what becomes of the guest and of the      *)
(* environment, and the value.  A cell may raise instead.                  *)

\* session.boot: a live box, unless the reader asked for the recording.
Live(disabled) == ~disabled

\* Mutant of Chosen: counted from one.
Chosen_FromOne(index) == IF index \in DOMAIN Recipes THEN <<Recipes[index]>> ELSE Recipes

\* The recipes one run compares: the one with this index, or all of them when there is none.
Chosen(index) == IF index < Len(Recipes) THEN <<Recipes[index + 1]>> ELSE Recipes

\* Mutant of BothWays: the recording stays forced.
BothWays_StaysForced(index, verdict) ==
    LET only == IF Live(disable) THEN Chosen(index) ELSE <<>>
        One(i) == [recipe |-> only[i], verdict |-> verdict, build |-> build,
                   before |-> guest \o SubSeq(only, 1, i - 1)]
    IN  [guest |-> guest \o only, disable |-> TRUE,
         value |-> [program |-> "both-ways", live |-> Live(disable), recipes |-> [i \in DOMAIN only |-> One(i)]]]

\* bothways.run: the live box, then the recording by force, then each recipe on both, and the
\* environment as it was.  Each answer keeps what had been run on the guest before.
BothWays(index, verdict) ==
    LET only == IF Live(disable) THEN Chosen(index) ELSE <<>>
        One(i) == [recipe |-> only[i], verdict |-> verdict, build |-> build,
                   before |-> guest \o SubSeq(only, 1, i - 1)]
    IN  [guest |-> guest \o only, disable |-> disable,
         value |-> [program |-> "both-ways", live |-> Live(disable), recipes |-> [i \in DOMAIN only |-> One(i)]]]

\* first-tape.py: one trace on the live box, and the banner of a session booted beside it.
FirstTape ==
    [guest |-> Append(guest, "page-fault"), disable |-> disable,
     value |-> [program |-> "first-tape", live |-> Live(disable)]]

Outcomes(cell) ==
    CASE cell.program = "both-ways"  -> {BothWays(cell.index, v) : v \in {"same", "different"}}
      [] cell.program = "first-tape" -> {FirstTape}
      [] OTHER -> {[guest |-> guest, disable |-> disable, value |-> [program |-> cell.program]]}

-----------------------------------------------------------------------------
(* page.js and worker.js.                                                  *)

\* Python.run
Run(program, index) ==
    /\ asked' = Append(asked, [program |-> program, index |-> index])
    /\ answers' = Append(answers, <<>>)
    /\ inbox' = Append(inbox, Len(asked) + 1)

\* Mutant of Receive: an answer settles the cell that has waited longest.
Receive_Oldest ==
    LET data == Head(outbox) IN
    /\ outbox # <<>>
    /\ outbox' = Tail(outbox)
    /\ IF data.cell = 0
       THEN up' = data.value /\ UNCHANGED answers
       ELSE answers' = [answers EXCEPT ![Min(Waiting)] = <<data>>] /\ UNCHANGED up
    /\ UNCHANGED <<pc, carried, results, guest, asked, workerVars, visitVars>>

\* Python.receive: news of the worker settles `up`, an answer the promise of its cell.
Receive ==
    LET data == Head(outbox) IN
    /\ outbox # <<>>
    /\ outbox' = Tail(outbox)
    /\ IF data.cell = 0
       THEN up' = data.value /\ UNCHANGED answers
       ELSE answers' = [answers EXCEPT ![data.cell] = IF @ = <<>> THEN <<data>> ELSE @] /\ UNCHANGED up
    /\ UNCHANGED <<pc, carried, results, guest, asked, workerVars, visitVars>>

\* The worker loads Python, and then the project into it; either may fail.
WorkerBoot ==
    /\ \/ worker = "starting" /\ worker' = "loaded" /\ UNCHANGED outbox
       \/ worker = "starting" /\ worker' = "failed" /\ outbox' = Append(outbox, [cell |-> 0, value |-> "failed"])
       \/ worker = "loaded" /\ worker' = "up" /\ outbox' = Append(outbox, [cell |-> 0, value |-> "up"])
       \/ worker = "loaded" /\ worker' = "bare" /\ outbox' = Append(outbox, [cell |-> 0, value |-> "failed"])
    /\ UNCHANGED <<pc, carried, results, guest, pageVars, inbox, running, disable, visitVars>>

\* Mutant of WorkerTakes: a cell that comes before there is a Python is passed over.
WorkerTakes_Silent ==
    LET cell == Head(inbox) IN
    /\ inbox # <<>>
    /\ inbox' = Tail(inbox)
    /\ running' = IF asked[cell].program # "" /\ worker \in {"loaded", "up", "bare"} THEN running \cup {cell} ELSE running
    /\ UNCHANGED <<pc, carried, results, guest, pageVars, worker, outbox, disable, visitVars>>

\* The message handler begins with a cell: one without code is passed over, and one that comes
\* before there is a Python is refused.

WorkerTakes ==
    LET cell == Head(inbox)
        coded == asked[cell].program # ""
        python == worker \in {"loaded", "up", "bare"}
    IN
    /\ inbox # <<>>
    /\ inbox' = Tail(inbox)
    /\ running' = IF coded /\ python THEN running \cup {cell} ELSE running
    /\ outbox' = IF coded /\ ~python THEN Append(outbox, [cell |-> cell, error |-> TRUE]) ELSE outbox
    /\ UNCHANGED <<pc, carried, results, guest, pageVars, worker, disable, visitVars>>

\* A cell comes to its end; those that wait in between may be overtaken.
WorkerAnswers(cell) ==
    /\ cell \in running
    /\ running' = running \ {cell}
    /\ \/ \E o \in Outcomes(asked[cell]) :
            /\ guest' = o.guest /\ disable' = o.disable
            /\ outbox' = Append(outbox, [cell |-> cell, error |-> FALSE, value |-> o.value])
       \/ /\ outbox' = Append(outbox, [cell |-> cell, error |-> TRUE])
          /\ UNCHANGED <<guest, disable>>
    /\ UNCHANGED <<pc, carried, results, pageVars, worker, inbox, visitVars>>

-----------------------------------------------------------------------------
(* harness.js.                                                             *)

Init ==
    /\ pc = "closed" /\ build \in Builds /\ carried = <<>>
    /\ results = Nothing /\ guest = <<>>
    /\ up = "pending" /\ asked = <<>> /\ answers = <<>>
    /\ worker = "absent" /\ inbox = <<>> /\ running = {} /\ outbox = <<>> /\ disable = FALSE
    /\ visits = 0 /\ abandoned = FALSE

\* A page begins: everything is new but what the tab has stored.
NewPage ==
    /\ pc' = "boot" /\ results' = Nothing /\ guest' = <<>>
    /\ up' = "pending" /\ asked' = <<>> /\ answers' = <<>>
    /\ worker' = "absent" /\ inbox' = <<>> /\ running' = {} /\ outbox' = <<>> /\ disable' = FALSE

\* A person opens the page, perhaps in the middle of a visit.
Open(b) ==
    /\ visits < MaxVisits
    /\ visits' = visits + 1
    /\ build' = b
    /\ abandoned' = (abandoned \/ (pc # "closed" /\ results.both = <<>>))
    /\ NewPage
    /\ UNCHANGED carried

\* start: the guest has booted and the worker is on its way, or there is no more to this visit.
Start ==
    /\ pc = "boot"
    /\ \/ pc' = "checks" /\ worker' = "starting" /\ UNCHANGED results
       \/ pc' = "done" /\ results' = [results EXCEPT !.error = TRUE] /\ UNCHANGED worker
    /\ UNCHANGED <<carried, guest, pageVars, inbox, running, disable, outbox, visitVars>>

\* The checks, on the same guest, while the worker starts.
Checks ==
    /\ pc = "checks"
    /\ pc' = "python"
    /\ guest' = Append(guest, "checks")
    /\ UNCHANGED <<carried, results, pageVars, workerVars, outbox, visitVars>>

\* `up` is settled: on to the comparison, or no further.
Python ==
    /\ pc = "python" /\ up # "pending"
    /\ IF up = "up"
       THEN pc' = "both" /\ Run("both-ways", Len(carried)) /\ UNCHANGED results
       ELSE pc' = "done" /\ results' = [results EXCEPT !.error = TRUE] /\ UNCHANGED <<asked, answers, inbox>>
    /\ UNCHANGED <<carried, guest, up, worker, running, disable, outbox, visitVars>>

\* The answer to a cell of this program.
Settled(program) ==
    {answers[cell][1] : cell \in {c \in DOMAIN asked \ Waiting : asked[c].program = program}}

\* bothWays when its cell raised, or when a program could not be fetched, which the page takes the
\* same way: what was carried over stays.
BothWaysFails ==
    /\ pc = "both"
    /\ \E answer \in Settled("both-ways") : answer.error
    /\ pc' = "trace" /\ Run("first-tape", 0)
    /\ results' = [results EXCEPT !.bothError = TRUE]
    /\ UNCHANGED <<carried, guest, up, worker, running, disable, outbox, visitVars>>

\* bothWays with recipes left to do: they are kept, and the page reloads itself.
BothWaysReloads ==
    /\ pc = "both"
    /\ \E answer \in Settled("both-ways") :
          /\ ~answer.error /\ answer.value.live
          /\ carried' = carried \o answer.value.recipes
          /\ Len(carried') < Len(Recipes)
    /\ NewPage
    /\ UNCHANGED visitVars

\* Mutant of BothWaysEnds: what was carried over stays in the tab.
BothWaysEnds_NoClear ==
    /\ pc = "both"
    /\ \E answer \in Settled("both-ways") :
          /\ ~answer.error
          /\ answer.value.live => Len(carried \o answer.value.recipes) >= Len(Recipes)
          /\ results' = [results EXCEPT !.both = <<[live |-> answer.value.live,
                                                    recipes |-> carried \o answer.value.recipes]>>]
          /\ carried' = carried \o answer.value.recipes
    /\ pc' = "trace" /\ Run("first-tape", 0)
    /\ UNCHANGED <<guest, up, worker, running, disable, outbox, visitVars>>

\* bothWays with the last of them.
BothWaysEnds ==
    /\ pc = "both"
    /\ \E answer \in Settled("both-ways") :
          /\ ~answer.error
          /\ answer.value.live => Len(carried \o answer.value.recipes) >= Len(Recipes)
          /\ results' = [results EXCEPT !.both = <<[live |-> answer.value.live,
                                                    recipes |-> carried \o answer.value.recipes]>>]
          /\ carried' = <<>>
    /\ pc' = "trace" /\ Run("first-tape", 0)
    /\ UNCHANGED <<guest, up, worker, running, disable, outbox, visitVars>>

\* The trace for the picture, or none; the visit is done.
Trace ==
    /\ pc = "trace"
    /\ \E answer \in Settled("first-tape") :
          results' = [results EXCEPT !.live = IF answer.error THEN <<>> ELSE <<answer.value.live>>]
    /\ pc' = "done"
    /\ UNCHANGED <<carried, guest, pageVars, workerVars, outbox, visitVars>>

\* Something else on the page asks Python for something.
Ask(program) ==
    /\ pc \notin {"closed", "boot", "done"}
    /\ \A cell \in DOMAIN asked : asked[cell].program \notin OthersAsk
    /\ Run(program, 0)
    /\ UNCHANGED <<pc, carried, results, guest, up, worker, running, disable, outbox, visitVars>>

Page   == Start \/ Checks \/ Python \/ BothWaysFails \/ BothWaysReloads \/ BothWaysEnds \/ Trace \/ Receive
Worker == WorkerBoot \/ WorkerTakes \/ (\E cell \in running : WorkerAnswers(cell))
Next   == Page \/ Worker \/ (\E b \in Builds : Open(b)) \/ (\E program \in OthersAsk : Ask(program))

Spec == Init /\ [][Next]_vars /\ WF_vars(Page) /\ WF_vars(Worker)

-----------------------------------------------------------------------------
(* Properties.                                                             *)

Comparisons ==
    [recipe : ToSet(Recipes), verdict : {"same", "different"}, build : Builds,
     before : Seq({"checks", "page-fault"} \cup ToSet(Recipes))]

TypeOK ==
    /\ pc \in {"closed", "boot", "checks", "python", "both", "trace", "done"}
    /\ build \in Builds
    /\ \A i \in DOMAIN carried : carried[i] \in Comparisons
    /\ worker \in {"absent", "starting", "loaded", "up", "failed", "bare"}
    /\ up = "pending" \/ (up = "up" /\ worker = "up") \/ (up = "failed" /\ worker \in {"failed", "bare"})
    /\ Len(answers) = Len(asked)
    /\ \A cell \in DOMAIN asked : asked[cell].program \in Programs
    /\ ToSet(inbox) \cup running \subseteq Waiting
    /\ pc \in {"both", "trace"} => worker = "up"

\* A comparison that is reported has every recipe once, in order, and each was run on a guest on
\* which no recipe had been run since it booted: reloads, failures and a person who opens the
\* page in the middle of it change nothing about that.
EachRecipeOnItsOwnGuest ==
    \A i \in DOMAIN results.both :
        LET recipes == results.both[i].recipes IN
        results.both[i].live =>
            /\ [n \in DOMAIN recipes |-> recipes[n].recipe] = Recipes
            /\ \A n \in DOMAIN recipes : ToSet(recipes[n].before) \cap ToSet(Recipes) = {}

\* The comparisons reported with a build were made on that build, unless the page was opened
\* again before a comparison was finished: then the tab still carries what another one began.
OneBuildEach ==
    ~abandoned => \A i \in DOMAIN results.both : \A n \in DOMAIN results.both[i].recipes :
                      results.both[i].recipes[n].build = build

\* Every promise is settled with the answer to its own cell, whatever overtakes what.
AnswersToTheirCells ==
    \A cell \in DOMAIN asked \ Waiting :
        LET answer == answers[cell][1] IN
        /\ answer.cell = cell
        /\ ~answer.error => answer.value.program = asked[cell].program

\* The trace taken after the comparison comes off the kernel: the recording that was forced for
\* one half of the comparison is forced no longer.
BannerIsLive == \A i \in DOMAIN results.live : results.live[i]

\* Every visit comes to its end, through as many reloads as there are recipes, and leaves no cell
\* pending but one without code.
EveryVisitEnds ==
    []<>(/\ pc \in {"closed", "done"}
         /\ \A cell \in Waiting : asked[cell].program = "")
=============================================================================
