--------------------------- MODULE HarnessProofs ---------------------------
(***************************************************************************)
(* Proofs about Harness, for any recipes, builds and number of visits.     *)
(*                                                                         *)
(* Four things about a visit are inductive together: that a cell is in one *)
(* place at a time (PlaceInv), that what was answered is what the cell     *)
(* asks for (AnswerInv), that the one comparison of the visit runs on a    *)
(* guest that only the checks have touched (GuestInv), and that what the   *)
(* tab carries from visit to visit is the recipes so far (CarriedInv).     *)
(***************************************************************************)
EXTENDS Harness, TLAPS, SequenceTheorems

Cells == 1 .. Len(asked)
Asks(cell, program) == cell \in Cells /\ asked[cell].program = program
Pending(cell) == cell \in running \/ \E i \in 1 .. Len(inbox) : inbox[i] = cell

\* What the page and the worker may say to each other.
BothValues  == [program : {"both-ways"}, live : {TRUE}, recipes : Seq(Comparisons)]
TapeValues  == [program : {"first-tape"}, live : {TRUE}]
OtherValues == [program : OthersAsk]
News        == [cell : {0}, value : {"up", "failed"}]
Errors      == [cell : Nat \ {0}, error : {TRUE}]
Replies     == [cell : Nat \ {0}, error : {FALSE}, value : BothValues \cup TapeValues \cup OtherValues]
Messages    == News \cup Errors \cup Replies

Shape ==
    /\ pc \in {"closed", "boot", "checks", "python", "both", "trace", "done"}
    /\ build \in Builds
    /\ carried \in Seq(Comparisons)
    /\ asked \in Seq([program : Programs, index : Nat])
    /\ answers \in Seq(Seq(Errors \cup Replies))
    /\ Len(answers) = Len(asked)
    /\ inbox \in Seq(Nat)
    /\ outbox \in Seq(Messages)
    /\ disable = FALSE
    /\ guest \in Seq({"checks", "page-fault"} \cup ToSet(Recipes))

\* A cell is on its way, or in hand, or said something about, or settled; never two of these.
PlaceInv ==
    /\ \A i, j \in 1 .. Len(inbox) : inbox[i] = inbox[j] => i = j
    /\ \A i \in 1 .. Len(inbox) : inbox[i] \notin running
    /\ \A cell : Pending(cell) => cell \in Cells /\ answers[cell] = <<>>
    /\ \A i \in 1 .. Len(outbox) : ~Pending(outbox[i].cell)

\* The recipe of this place in the teaching profile, compared on a guest fresh from its checks.
Compared(comparison, place) ==
    /\ comparison.recipe = Recipes[place]
    /\ comparison.before = <<"checks">>

\* A message that answers its cell.
Answers(cell, message) ==
    /\ message \in Errors \cup Replies
    /\ message.cell = cell
    /\ ~message.error =>
         /\ message.value.program = asked[cell].program
         /\ asked[cell].program = "both-ways" =>
              /\ message.value \in BothValues
              /\ Len(message.value.recipes) = 1
              /\ Compared(message.value.recipes[1], asked[cell].index + 1)
              /\ message.value.recipes[1].build = build
         /\ asked[cell].program = "first-tape" => message.value \in TapeValues

AnswerInv ==
    /\ \A i \in 1 .. Len(outbox) :
          outbox[i].cell # 0 => outbox[i].cell \in Cells /\ Answers(outbox[i].cell, outbox[i])
    /\ \A cell \in Cells : answers[cell] # <<>> => Answers(cell, answers[cell][1])

\* A visit asks for one comparison, of the recipe that is next, and for the picture's trace after.
GuestInv ==
    /\ \A c, d \in Cells : Asks(c, "both-ways") /\ Asks(d, "both-ways") => c = d
    /\ \A c \in Cells : Asks(c, "both-ways") => pc \in {"both", "trace", "done"}
    /\ \A c \in Cells : Asks(c, "first-tape") => pc \in {"trace", "done"}
    /\ \A c \in Cells : Asks(c, "both-ways") /\ pc = "both" => asked[c].index = Len(carried)
    /\ \A c \in Cells : Asks(c, "both-ways") /\ Pending(c) =>
          /\ pc = "both"
          /\ guest = <<"checks">>
    /\ pc \in {"closed", "boot", "checks"} => guest = <<>>
    /\ pc = "python" => guest = <<"checks">>

CarriedInv ==
    /\ Len(carried) < Len(Recipes)
    /\ \A n \in 1 .. Len(carried) : Compared(carried[n], n)
    /\ ~abandoned => \A n \in 1 .. Len(carried) : carried[n].build = build
    /\ pc = "closed" => carried = <<>>
    /\ results.both # <<>> => carried = <<>> /\ pc \in {"trace", "done"}

\* What the visit reports.
Reported(both) ==
    /\ both.live = TRUE
    /\ both.recipes \in Seq(Comparisons)
    /\ Len(both.recipes) = Len(Recipes)
    /\ \A n \in 1 .. Len(Recipes) : Compared(both.recipes[n], n)
    /\ ~abandoned => \A n \in 1 .. Len(Recipes) : both.recipes[n].build = build

ResultInv ==
    /\ results \in [error : BOOLEAN, both : {results.both}, bothError : BOOLEAN, live : {<<>>, <<TRUE>>}]
    /\ results.both = <<>> \/ (\E both : results.both = <<both>> /\ Reported(both))

IInv == Shape /\ PlaceInv /\ AnswerInv /\ GuestInv /\ CarriedInv /\ ResultInv

-----------------------------------------------------------------------------
(* What the constants give.                                                *)

\* A sequence of one.
LEMMA OneTuple ==
  ASSUME NEW S, NEW x \in S
  PROVE  /\ <<x>> \in Seq(S)
         /\ Len(<<x>>) = 1
         /\ <<x>>[1] = x
         /\ [i \in {1} |-> x] = <<x>>
         /\ SubSeq(<<x>>, 1, 0) = <<>>
         /\ \A s \in Seq(S) : s \o <<>> = s
<1>1. SubSeq(<<x>>, 1, 0) = <<>>
  BY SubSeqEmpty
<1> QED
  BY <1>1, ConcatEmptySeq

\* What is in a queue after something is put at its end, or taken from its front.
LEMMA Appended ==
  ASSUME NEW S, NEW s \in Seq(S), NEW e \in S, NEW t, t = Append(s, e)
  PROVE  /\ t \in Seq(S)
         /\ \A i \in 1 .. Len(t) : t[i] = e \/ (i \in 1 .. Len(s) /\ t[i] = s[i])
BY AppendProperties

LEMMA Taken ==
  ASSUME NEW S, NEW s \in Seq(S), s # <<>>
  PROVE  /\ Head(s) \in S /\ Tail(s) \in Seq(S)
         /\ 1 \in 1 .. Len(s) /\ Head(s) = s[1]
         /\ Len(Tail(s)) \in Nat /\ Len(s) = Len(Tail(s)) + 1
         /\ \A i \in 1 .. Len(Tail(s)) : i + 1 \in 2 .. Len(s) /\ Tail(s)[i] = s[i + 1]
BY HeadTailProperties

\* A recipe is compared when there is one left, and alone.
LEMMA OneIsChosen ==
  ASSUME NEW index \in Nat, index < Len(Recipes)
  PROVE  /\ Chosen(index) = <<Recipes[index + 1]>>
         /\ Recipes[index + 1] \in ToSet(Recipes)
         /\ Recipes[index + 1] \in STRING
BY RecipesAssumption DEF Chosen, ToSet

\* The program a cell asks for is one of the two, or something that leaves the guest alone.
LEMMA OthersDiffer ==
  OthersAsk \cap {"both-ways", "first-tape"} = {}
BY BoundsAssumption

\* What Python answers to a comparison asked for on a fresh guest.
LEMMA BothWaysValue ==
  ASSUME Shape, GuestInv, CarriedInv,
         NEW cell, Asks(cell, "both-ways"), Pending(cell),
         NEW v \in {"same", "different"},
         NEW o, o = BothWays(asked[cell].index, v)
  PROVE  /\ o.disable = FALSE
         /\ o.guest \in Seq({"checks", "page-fault"} \cup ToSet(Recipes))
         /\ o.value \in BothValues
         /\ Len(o.value.recipes) = 1
         /\ Compared(o.value.recipes[1], asked[cell].index + 1)
         /\ o.value.recipes[1].build = build
<1> DEFINE index == asked[cell].index
           recipe == Recipes[index + 1]
<1>1. guest = <<"checks">> /\ index = Len(carried) /\ index \in Nat /\ index < Len(Recipes)
  BY DEF Shape, GuestInv, CarriedInv, Asks, Cells
<1>2. Live(disable) = TRUE /\ disable = FALSE
  BY DEF Shape, Live
<1>3. Chosen(index) = <<recipe>> /\ recipe \in ToSet(Recipes)
  BY <1>1, OneIsChosen
<1> DEFINE only == <<recipe>>
           one == [recipe |-> recipe, verdict |-> v, build |-> build, before |-> <<"checks">>]
<1> DEFINE Marks == {"checks", "page-fault"} \cup ToSet(Recipes)
<1>4. guest \in Seq(Marks) /\ only \in Seq(Marks) /\ SubSeq(only, 1, 0) = <<>>
  BY <1>3, OneTuple DEF Shape
<1>5. guest \o SubSeq(only, 1, 0) = <<"checks">>
  BY <1>1, <1>4, ConcatEmptySeq
<1>6. one \in Comparisons
  BY <1>1, <1>3, <1>4 DEF Shape, Comparisons
<1>7. DOMAIN only = {1} /\ only[1] = recipe
  OBVIOUS
<1> DEFINE all == [i \in DOMAIN only |-> [recipe |-> only[i], verdict |-> v, build |-> build,
                                           before |-> guest \o SubSeq(only, 1, i - 1)]]
<1>8. all = [i \in {1} |-> one]
  <2>1. 1 - 1 = 0
    OBVIOUS
  <2> QED
    BY <1>5, <1>7, <2>1
<1> HIDE DEF one, all
<1>9. o = [guest |-> guest \o only, disable |-> FALSE,
           value |-> [program |-> "both-ways", live |-> TRUE, recipes |-> all]]
  BY <1>2, <1>3 DEF BothWays, all
<1>12. all \in Seq(Comparisons) /\ Len(all) = 1 /\ all[1] = one
  <2>1. all = <<one>>
    BY <1>6, <1>8, OneTuple
  <2> QED
    BY <1>6, <2>1, OneTuple
<1>10. o.value \in BothValues
  BY <1>9, <1>12 DEF BothValues
<1>11. o.guest \in Seq(Marks)
  BY <1>4, <1>9, ConcatProperties
<1>13. one.recipe = recipe /\ one.before = <<"checks">> /\ one.build = build
  BY DEF one
<1>14. o.value.recipes = all /\ o.disable = FALSE
  BY <1>9
<1> QED
  BY <1>10, <1>11, <1>12, <1>13, <1>14 DEF Compared

-----------------------------------------------------------------------------
(* What the parts that several actions share do to the invariant.          *)

\* Only the visit's own state is new on a new page, and it is as at the start.
LEMMA NewPageIsFresh ==
  ASSUME NewPage
  PROVE  PlaceInv' /\ AnswerInv' /\ GuestInv' /\ ResultInv'
<1>1. Cells' = {} /\ \A cell : ~Pending(cell)'
  BY DEF NewPage, Cells, Pending
<1>2. PlaceInv' /\ AnswerInv'
  BY <1>1 DEF NewPage, PlaceInv, AnswerInv
<1>3. GuestInv'
  BY <1>1 DEF NewPage, GuestInv, Asks
<1>4. ResultInv'
  BY DEF NewPage, ResultInv, Nothing
<1> QED
  BY <1>2, <1>3, <1>4

\* What is carried and what is reported stay as they are when nothing of them changes.
LEMMA ReportsStay ==
  ASSUME CarriedInv, ResultInv, UNCHANGED <<pc, carried, results, build, abandoned>>
  PROVE  CarriedInv' /\ ResultInv'
<1>1. \A both : Reported(both)' <=> Reported(both)
  BY DEF Reported, Compared
<1>2. ResultInv'
  BY <1>1 DEF ResultInv
<1>3. CarriedInv'
  BY DEF CarriedInv, Compared
<1> QED
  BY <1>2, <1>3

\* Another cell is the last one, is on its way, and has no answer.
LEMMA RunAdds ==
  ASSUME Shape, NEW program \in Programs, NEW index \in Nat, Run(program, index)
  PROVE  /\ asked' \in Seq([program : Programs, index : Nat])
         /\ answers' \in Seq(Seq(Errors \cup Replies))
         /\ Len(answers') = Len(asked')
         /\ inbox' \in Seq(Nat)
         /\ Cells' = Cells \cup {Len(asked) + 1}
         /\ Len(asked) + 1 \notin Cells
         /\ \A c \in Cells : asked'[c] = asked[c] /\ answers'[c] = answers[c]
         /\ asked'[Len(asked) + 1] = [program |-> program, index |-> index]
         /\ answers'[Len(asked) + 1] = <<>>
         /\ Len(inbox') = Len(inbox) + 1
         /\ \A i \in 1 .. Len(inbox) : inbox'[i] = inbox[i]
         /\ inbox'[Len(inbox) + 1] = Len(asked) + 1
BY DEF Shape, Run, Cells

LEMMA RunKeepsPlaces ==
  ASSUME Shape, PlaceInv, AnswerInv,
         NEW program \in Programs, NEW index \in Nat, Run(program, index),
         UNCHANGED <<running, outbox, build>>
  PROVE  /\ PlaceInv' /\ AnswerInv'
         /\ \A c : Pending(c)' <=> Pending(c) \/ c = Len(asked) + 1
<1> DEFINE new == Len(asked) + 1
<1>1. /\ Cells' = Cells \cup {new}
      /\ new \notin Cells
      /\ \A c \in Cells : asked'[c] = asked[c] /\ answers'[c] = answers[c]
      /\ answers'[new] = <<>>
      /\ Len(inbox') = Len(inbox) + 1
      /\ \A i \in 1 .. Len(inbox) : inbox'[i] = inbox[i]
      /\ inbox'[Len(inbox) + 1] = new
  BY RunAdds
<1>2. 1 .. Len(inbox') = 1 .. Len(inbox) \cup {Len(inbox) + 1}
  BY <1>1 DEF Shape
<1>3. \A c : Pending(c)' <=> Pending(c) \/ c = new
  BY <1>1, <1>2 DEF Pending
<1>4. ~Pending(new)
  BY <1>1 DEF PlaceInv
<1>5. PlaceInv'
  <2>1. \A i, j \in 1 .. Len(inbox') : inbox'[i] = inbox'[j] => i = j
    BY <1>1, <1>2, <1>4 DEF PlaceInv, Pending
  <2>2. \A i \in 1 .. Len(inbox') : inbox'[i] \notin running'
    BY <1>1, <1>2, <1>4 DEF PlaceInv, Pending
  <2>3. \A c : Pending(c)' => c \in Cells' /\ answers'[c] = <<>>
    BY <1>1, <1>3 DEF PlaceInv
  <2>4. \A i \in 1 .. Len(outbox) : outbox[i].cell # new
    BY <1>1 DEF AnswerInv, Shape
  <2>5. \A i \in 1 .. Len(outbox') : ~Pending(outbox[i].cell)'
    BY <1>3, <2>4 DEF PlaceInv
  <2> QED
    BY <2>1, <2>2, <2>3, <2>5 DEF PlaceInv
<1>6. \A c \in Cells : \A m : Answers(c, m)' <=> Answers(c, m)
  BY <1>1 DEF Answers, Compared
<1>7. AnswerInv'
  BY <1>1, <1>6 DEF AnswerInv
<1> QED
  BY <1>3, <1>5, <1>7

-----------------------------------------------------------------------------
(* The invariant at the start, and one lemma for each action.              *)

LEMMA InitHolds == Init => IInv
<1> SUFFICES ASSUME Init PROVE IInv
  OBVIOUS
<1>1. Shape
  BY DEF Init, Shape
<1>2. Cells = {} /\ \A cell : ~Pending(cell)
  BY DEF Init, Cells, Pending
<1>3. PlaceInv /\ AnswerInv /\ GuestInv
  BY <1>2 DEF Init, PlaceInv, AnswerInv, GuestInv, Asks
<1>4. CarriedInv
  BY RecipesAssumption DEF Init, CarriedInv, Nothing
<1>5. ResultInv
  BY DEF Init, ResultInv, Nothing
<1> QED
  BY <1>1, <1>3, <1>4, <1>5 DEF IInv

LEMMA OpenStep ==
  ASSUME IInv, NEW b \in Builds, Open(b)
  PROVE  IInv'
<1>1. PlaceInv' /\ AnswerInv' /\ GuestInv' /\ ResultInv'
  BY NewPageIsFresh DEF Open
<1>2. Shape'
  BY DEF IInv, Shape, Open, NewPage
<1>3. ~abandoned' => carried' = <<>>
  BY DEF IInv, CarriedInv, Open
<1>4. CarriedInv'
  BY <1>3 DEF IInv, CarriedInv, Open, NewPage, Nothing, Compared
<1> QED
  BY <1>1, <1>2, <1>4 DEF IInv

LEMMA StartStep ==
  ASSUME IInv, Start
  PROVE  IInv'
<1> USE DEF IInv, Start, pageVars, visitVars
<1>1. Shape'
  BY DEF Shape
<1>2. PlaceInv' /\ AnswerInv'
  <2>1. PlaceInv'
    BY SMTT(30) DEF PlaceInv, Pending, Cells, Answers, Compared
  <2>2. AnswerInv'
    BY ZenonT(60) DEF AnswerInv, Pending, Cells, Answers, Compared
  <2>3. QED
    BY <2>1, <2>2
<1>3. Cells' = Cells /\ \A c \in Cells : ~Asks(c, "both-ways") /\ ~Asks(c, "first-tape")
  BY DEF GuestInv, Cells
<1>4. GuestInv'
  BY <1>3 DEF GuestInv, Asks
<1>5. CarriedInv'
  BY DEF CarriedInv, Compared, ResultInv
<1>6. ResultInv'
  BY DEF ResultInv, Reported, Compared, CarriedInv
<1> QED
  BY <1>1, <1>2, <1>4, <1>5, <1>6

LEMMA ChecksStep ==
  ASSUME IInv, Checks
  PROVE  IInv'
<1> USE DEF IInv, Checks, pageVars, workerVars, visitVars
<1>1. Append(guest, "checks") = <<"checks">>
  BY DEF GuestInv
<1>2. Shape'
  BY DEF Shape
<1>3. PlaceInv' /\ AnswerInv'
  BY ZenonT(60) DEF PlaceInv, AnswerInv, Pending, Cells, Answers, Compared
<1>4. Cells' = Cells /\ \A c \in Cells : ~Asks(c, "both-ways") /\ ~Asks(c, "first-tape")
  BY DEF GuestInv, Cells
<1>5. GuestInv'
  BY <1>1, <1>4 DEF GuestInv, Asks
<1>6. CarriedInv'
  BY DEF CarriedInv, Compared
<1>7. ResultInv'
  BY DEF ResultInv, Reported, Compared
<1> QED
  BY <1>2, <1>3, <1>5, <1>6, <1>7

LEMMA WorkerBootStep ==
  ASSUME IInv, WorkerBoot
  PROVE  IInv'
<1> USE DEF IInv, WorkerBoot, pageVars, visitVars
<1>1. PICK news \in News : outbox' = outbox \/ outbox' = Append(outbox, news)
  BY DEF News
<1>2. news.cell = 0 /\ news \in Messages
  BY DEF News, Messages
<1>3. outbox \in Seq(Messages)
  BY DEF Shape
<1>4. /\ outbox' \in Seq(Messages)
      /\ \A i \in 1 .. Len(outbox') : outbox'[i] = news \/ (i \in 1 .. Len(outbox) /\ outbox'[i] = outbox[i])
  <2>1. CASE outbox' = outbox
    BY <1>3, <2>1
  <2>2. CASE outbox' = Append(outbox, news)
    BY <1>2, <1>3, <2>2, Appended
  <2> QED
    BY <1>1, <2>1, <2>2
<1>12. Shape'
  BY <1>4 DEF Shape
<1>5. Cells' = Cells /\ (\A c : Pending(c)' <=> Pending(c))
  BY DEF Cells, Pending
<1>6. ~Pending(0)
  BY DEF PlaceInv, Cells, Shape
<1>7. PlaceInv'
  BY <1>2, <1>4, <1>5, <1>6 DEF PlaceInv
<1>8. \A c, m : Answers(c, m)' <=> Answers(c, m)
  BY DEF Answers, Compared
<1>9. AnswerInv'
  BY <1>2, <1>4, <1>5, <1>8 DEF AnswerInv
<1>10. GuestInv'
  BY <1>5 DEF GuestInv, Asks
<1>11. CarriedInv' /\ ResultInv'
  BY ReportsStay
<1> QED
  BY <1>12, <1>7, <1>9, <1>10, <1>11

LEMMA WorkerTakesStep ==
  ASSUME IInv, WorkerTakes
  PROVE  IInv'
<1> DEFINE taken == Head(inbox)
           refusal == [cell |-> taken, error |-> TRUE]
<1> USE DEF IInv
<1>1. /\ inbox # <<>> /\ inbox' = Tail(inbox)
      /\ running' = running \/ running' = running \cup {taken}
      /\ outbox' = outbox \/ (outbox' = Append(outbox, refusal) /\ running' = running)
      /\ UNCHANGED <<pc, carried, results, guest, up, asked, answers, disable, build, visits, abandoned>>
  BY DEF WorkerTakes, pageVars, visitVars
<1>2. inbox \in Seq(Nat) /\ outbox \in Seq(Messages)
  BY DEF Shape
<1>3. /\ inbox' \in Seq(Nat)
      /\ 1 \in 1 .. Len(inbox) /\ taken = inbox[1]
      /\ Len(inbox) = Len(inbox') + 1 /\ Len(inbox') \in Nat
      /\ \A i \in 1 .. Len(inbox') : i + 1 \in 2 .. Len(inbox) /\ inbox'[i] = inbox[i + 1]
  BY <1>1, <1>2, Taken
<1> HIDE DEF taken, refusal
<1>4. Pending(taken) /\ taken \in Cells /\ answers[taken] = <<>>
  BY <1>3 DEF PlaceInv, Pending
<1>5. taken \in Nat \ {0} /\ refusal \in Errors /\ refusal \in Messages /\ Answers(taken, refusal)
  <2>1. taken \in Nat \ {0}
    BY <1>4 DEF Shape, Cells
  <2>2. refusal \in Errors
    BY <2>1 DEF Errors, refusal
  <2> QED
    BY <2>1, <2>2 DEF Messages, Answers, refusal
<1>6. /\ outbox' \in Seq(Messages)
      /\ \A i \in 1 .. Len(outbox') :
            (outbox'[i] = refusal /\ running' = running) \/ (i \in 1 .. Len(outbox) /\ outbox'[i] = outbox[i])
  <2>1. CASE outbox' = outbox
    BY <1>2, <2>1
  <2>2. CASE outbox' = Append(outbox, refusal) /\ running' = running
    BY <1>2, <1>5, <2>2, Appended
  <2> QED
    BY <1>1, <2>1, <2>2
<1>7. Shape'
  BY <1>1, <1>3, <1>6 DEF Shape
<1>8. \A i \in 1 .. Len(inbox') : inbox'[i] # taken
  <2>1. \A i, j \in 1 .. Len(inbox) : inbox[i] = inbox[j] => i = j
    BY DEF PlaceInv
  <2> QED
    BY <1>3, <2>1
<1>9. \A c : Pending(c)' => Pending(c)
  BY <1>1, <1>3 DEF Pending
<1>10. ~(taken \in running)
  BY <1>3 DEF PlaceInv
<1>11. PlaceInv'
  <2>1. \A i, j \in 1 .. Len(inbox') : inbox'[i] = inbox'[j] => i = j
    <3>1. \A i, j \in 1 .. Len(inbox) : inbox[i] = inbox[j] => i = j
      BY DEF PlaceInv
    <3>2. ASSUME NEW i \in 1 .. Len(inbox'), NEW j \in 1 .. Len(inbox'), inbox'[i] = inbox'[j]
          PROVE  i = j
      <4>1. inbox[i + 1] = inbox[j + 1] /\ i + 1 \in 1 .. Len(inbox) /\ j + 1 \in 1 .. Len(inbox)
        BY <1>3, <3>2
      <4> QED
        BY <3>1, <4>1
    <3> QED
      BY <3>2
  <2>2. \A i \in 1 .. Len(inbox') : inbox'[i] \notin running'
    BY <1>1, <1>3, <1>8 DEF PlaceInv
  <2>3. \A c : Pending(c)' => c \in Cells' /\ answers'[c] = <<>>
    BY <1>1, <1>9 DEF PlaceInv, Cells
  <2>4. \A i \in 1 .. Len(outbox') : ~Pending(outbox[i].cell)'
    BY <1>1, <1>6, <1>8, <1>9, <1>10 DEF PlaceInv, Pending, refusal
  <2> QED
    BY <2>1, <2>2, <2>3, <2>4 DEF PlaceInv
<1>12. \A c, m : Answers(c, m)' <=> Answers(c, m)
  BY <1>1 DEF Answers, Compared
<1>13. AnswerInv'
  BY <1>1, <1>4, <1>5, <1>6, <1>12, SMTT(30) DEF AnswerInv, Cells, refusal
<1>14. GuestInv'
  BY <1>1, <1>9 DEF GuestInv, Asks, Cells
<1>15. CarriedInv' /\ ResultInv'
  BY <1>1, ReportsStay
<1> QED
  BY <1>7, <1>11, <1>13, <1>14, <1>15

\* Whatever a cell answers, the message is one that answers it, and Python is as it was.
LEMMA OutcomeAnswers ==
  ASSUME IInv, NEW cell \in Cells, Pending(cell), NEW o \in Outcomes(asked[cell]),
         NEW m, m = [cell |-> cell, error |-> FALSE, value |-> o.value]
  PROVE  /\ o.disable = FALSE
         /\ o.guest \in Seq({"checks", "page-fault"} \cup ToSet(Recipes))
         /\ o.guest = guest \/ Asks(cell, "both-ways") \/ Asks(cell, "first-tape")
         /\ m \in Replies /\ Answers(cell, m)
<1> USE DEF IInv
<1>1. cell \in Nat \ {0} /\ asked[cell] \in [program : Programs, index : Nat]
  <2>1. asked \in Seq([program : Programs, index : Nat])
    BY DEF Shape
  <2>2. cell \in 1 .. Len(asked)
    BY DEF Cells
  <2>3. asked[cell] \in [program : Programs, index : Nat]
    BY <2>1, <2>2, ElementOfSeq
  <2>4. Len(asked) \in Nat
    BY <2>1, LenProperties
  <2> QED
    BY <2>2, <2>3, <2>4
<1>2. ASSUME o.value \in BothValues \cup TapeValues \cup OtherValues,
             o.value.program = asked[cell].program,
             asked[cell].program = "both-ways" =>
                /\ o.value \in BothValues
                /\ Len(o.value.recipes) = 1
                /\ Compared(o.value.recipes[1], asked[cell].index + 1)
                /\ o.value.recipes[1].build = build,
             asked[cell].program = "first-tape" => o.value \in TapeValues
      PROVE  m \in Replies /\ Answers(cell, m)
  BY <1>1, <1>2 DEF Replies, Answers
<1>3. CASE asked[cell].program = "both-ways"
  <2>1. PICK v \in {"same", "different"} : o = BothWays(asked[cell].index, v)
    BY <1>3 DEF Outcomes
  <2>2. Asks(cell, "both-ways")
    BY <1>3 DEF Asks
  <2>3. /\ o.disable = FALSE
        /\ o.guest \in Seq({"checks", "page-fault"} \cup ToSet(Recipes))
        /\ o.value \in BothValues
        /\ Len(o.value.recipes) = 1
        /\ Compared(o.value.recipes[1], asked[cell].index + 1)
        /\ o.value.recipes[1].build = build
    BY <2>1, <2>2, BothWaysValue
  <2>4. o.value.program = "both-ways"
    BY <2>3 DEF BothValues
  <2> QED
    BY <1>2, <1>3, <2>2, <2>3, <2>4
<1>4. CASE asked[cell].program = "first-tape"
  <2>1. /\ o.guest = Append(guest, "page-fault") /\ o.disable = FALSE
        /\ o.value = [program |-> "first-tape", live |-> TRUE]
    <3>1. disable = FALSE /\ Live(disable) = TRUE
      BY DEF Shape, Live
    <3>2. o = FirstTape
      BY <1>4 DEF Outcomes
    <3> QED
      BY <3>1, <3>2 DEF FirstTape
  <2>2. o.guest \in Seq({"checks", "page-fault"} \cup ToSet(Recipes))
    <3>1. guest \in Seq({"checks", "page-fault"} \cup ToSet(Recipes))
      BY DEF Shape
    <3> QED
      BY <2>1, <3>1, AppendProperties
  <2>3. o.value \in TapeValues /\ o.value.program = "first-tape"
    BY <2>1 DEF TapeValues
  <2> QED
    BY <1>2, <1>4, <2>1, <2>2, <2>3 DEF Asks
<1>5. CASE asked[cell].program \notin {"both-ways", "first-tape"}
  <2>1. asked[cell].program \in OthersAsk
    BY <1>1, <1>5 DEF Programs
  <2>2. o = [guest |-> guest, disable |-> disable, value |-> [program |-> asked[cell].program]]
    BY <1>5 DEF Outcomes
  <2>3. o.value \in OtherValues /\ o.value.program = asked[cell].program
    BY <2>1, <2>2 DEF OtherValues
  <2> QED
    BY <1>2, <1>5, <2>2, <2>3 DEF Shape
<1> QED
  BY <1>3, <1>4, <1>5

LEMMA WorkerAnswersStep ==
  ASSUME IInv, NEW cell \in running, WorkerAnswers(cell)
  PROVE  IInv'
<1> USE DEF IInv
<1>1. Pending(cell) /\ cell \in Cells /\ answers[cell] = <<>>
  BY DEF Pending, PlaceInv
<1>2. cell \in Nat \ {0}
  BY <1>1 DEF Shape, Cells
<1> DEFINE Says(m) == /\ m \in Errors \cup Replies
                      /\ Answers(cell, m)
                      /\ outbox' = Append(outbox, m)
                      /\ disable' = FALSE
                      /\ guest' \in Seq({"checks", "page-fault"} \cup ToSet(Recipes))
                      /\ guest' = guest \/ Asks(cell, "both-ways") \/ Asks(cell, "first-tape")
<1>3. PICK m : Says(m)
  <2>1. ASSUME NEW o \in Outcomes(asked[cell]), guest' = o.guest, disable' = o.disable,
               outbox' = Append(outbox, [cell |-> cell, error |-> FALSE, value |-> o.value])
        PROVE  \E m : Says(m)
    BY <1>1, <2>1, OutcomeAnswers
  <2>2. ASSUME outbox' = Append(outbox, [cell |-> cell, error |-> TRUE]), UNCHANGED <<guest, disable>>
        PROVE  \E m : Says(m)
    <3>1. [cell |-> cell, error |-> TRUE] \in Errors
      BY <1>2 DEF Errors
    <3> QED
      BY <2>2, <3>1 DEF Answers, Shape
  <2> QED
    BY <2>1, <2>2 DEF WorkerAnswers
<1>4. /\ running' = running \ {cell}
      /\ UNCHANGED <<pc, carried, results, up, asked, answers, worker, inbox, build, visits, abandoned>>
  BY DEF WorkerAnswers, pageVars, visitVars
<1>5. m.cell = cell /\ m \in Messages
  BY <1>3 DEF Answers, Messages
<1>6. /\ outbox' \in Seq(Messages)
      /\ \A i \in 1 .. Len(outbox') : outbox'[i] = m \/ (i \in 1 .. Len(outbox) /\ outbox'[i] = outbox[i])
  <2>1. outbox \in Seq(Messages)
    BY DEF Shape
  <2> QED
    BY <1>3, <1>5, <2>1, Appended
<1>7. Shape'
  BY <1>3, <1>4, <1>6 DEF Shape
<1>8. Cells' = Cells /\ (\A c : Pending(c)' <=> Pending(c) /\ c # cell)
  BY <1>4 DEF Cells, Pending, PlaceInv
<1>9. PlaceInv'
  <2>1. \A i \in 1 .. Len(outbox') : ~Pending(outbox[i].cell)'
    BY <1>5, <1>6, <1>8 DEF PlaceInv
  <2> QED
    BY <1>4, <1>8, <2>1 DEF PlaceInv
<1>10. \A c, x : Answers(c, x)' <=> Answers(c, x)
  BY <1>4 DEF Answers, Compared
<1>11. AnswerInv'
  BY <1>1, <1>3, <1>4, <1>5, <1>6, <1>8, <1>10 DEF AnswerInv
<1>12. GuestInv'
  <2>1. \A c, p : Asks(c, p)' <=> Asks(c, p)
    BY <1>4, <1>8 DEF Asks
  <2>2. pc \in {"closed", "boot", "checks", "python"} => guest' = guest
    BY <1>1, <1>3 DEF GuestInv
  <2>3. ASSUME NEW c \in Cells, Asks(c, "both-ways"), Pending(c), c # cell
        PROVE  pc = "both" /\ guest' = <<"checks">>
    BY <1>1, <1>3, <2>3 DEF GuestInv
  <2> QED
    BY <1>4, <1>8, <2>1, <2>2, <2>3 DEF GuestInv
<1>13. CarriedInv' /\ ResultInv'
  BY <1>4, ReportsStay
<1> QED
  BY <1>7, <1>9, <1>11, <1>12, <1>13

LEMMA ReceiveStep ==
  ASSUME IInv, Receive
  PROVE  IInv'
<1> DEFINE data == Head(outbox)
<1> USE DEF IInv
<1>1. /\ outbox # <<>> /\ outbox' = Tail(outbox)
      /\ \/ data.cell = 0 /\ answers' = answers
         \/ data.cell # 0 /\ answers' = [answers EXCEPT ![data.cell] = IF @ = <<>> THEN <<data>> ELSE @]
      /\ UNCHANGED <<pc, carried, results, guest, asked, worker, inbox, running, disable, build, visits, abandoned>>
  BY DEF Receive, workerVars, visitVars
<1>2. outbox \in Seq(Messages) /\ answers \in Seq(Seq(Errors \cup Replies)) /\ Len(answers) = Len(asked)
  BY DEF Shape
<1>3. /\ data \in Messages
      /\ outbox' \in Seq(Messages)
      /\ 1 \in 1 .. Len(outbox) /\ data = outbox[1]
      /\ \A i \in 1 .. Len(outbox') : i + 1 \in 1 .. Len(outbox) /\ outbox'[i] = outbox[i + 1]
  <2>1. /\ data \in Messages
        /\ Tail(outbox) \in Seq(Messages)
        /\ 1 \in 1 .. Len(outbox) /\ data = outbox[1]
        /\ Len(outbox) = Len(Tail(outbox)) + 1 /\ Len(Tail(outbox)) \in Nat
        /\ \A i \in 1 .. Len(Tail(outbox)) : i + 1 \in 2 .. Len(outbox) /\ Tail(outbox)[i] = outbox[i + 1]
    BY <1>1, <1>2, Taken
  <2> QED
    BY <1>1, <2>1
<1> HIDE DEF data
<1>4. ~Pending(data.cell)
  BY <1>3 DEF PlaceInv
<1>5. data.cell # 0 => data.cell \in Cells /\ Answers(data.cell, data)
  BY <1>3 DEF AnswerInv
<1>6. /\ answers' \in Seq(Seq(Errors \cup Replies)) /\ Len(answers') = Len(asked)
      /\ \A c \in Cells : answers'[c] = answers[c] \/ (c = data.cell /\ data.cell # 0 /\ answers'[c] = <<data>>)
  <2>1. CASE data.cell = 0
    BY <1>1, <1>2, <2>1
  <2>2. CASE data.cell # 0
    <3>1. data \in Errors \cup Replies /\ data.cell \in 1 .. Len(answers)
      BY <1>2, <1>5, <2>2 DEF Answers, Cells
    <3>2. <<data>> \in Seq(Errors \cup Replies)
      BY <3>1, OneTuple
    <3>3. answers[data.cell] \in Seq(Errors \cup Replies)
      BY <1>2, <3>1, ElementOfSeq
    <3> DEFINE settled == IF answers[data.cell] = <<>> THEN <<data>> ELSE answers[data.cell]
    <3>4. settled \in Seq(Errors \cup Replies) /\ answers' = [answers EXCEPT ![data.cell] = settled]
      BY <1>1, <2>2, <3>2, <3>3
    <3>5. /\ answers' \in Seq(Seq(Errors \cup Replies)) /\ Len(answers') = Len(answers)
          /\ \A c \in 1 .. Len(answers) : answers'[c] = IF c = data.cell THEN settled ELSE answers[c]
      BY <1>2, <3>1, <3>4, ExceptSeq
    <3> QED
      BY <1>2, <2>2, <3>5 DEF Cells
  <2> QED
    BY <2>1, <2>2
<1>7. Shape'
  BY <1>1, <1>3, <1>6 DEF Shape
<1>8. Cells' = Cells /\ (\A c : Pending(c)' <=> Pending(c))
  BY <1>1 DEF Cells, Pending
<1>9. PlaceInv'
  <2>1. \A c : Pending(c)' => c \in Cells' /\ answers'[c] = <<>>
    BY <1>4, <1>6, <1>8 DEF PlaceInv
  <2>2. \A i \in 1 .. Len(outbox') : ~Pending(outbox[i].cell)'
    BY <1>3, <1>8 DEF PlaceInv
  <2> QED
    BY <1>1, <2>1, <2>2 DEF PlaceInv
<1>10. \A c, x : Answers(c, x)' <=> Answers(c, x)
  BY <1>1 DEF Answers, Compared
<1>11. AnswerInv'
  <2>1. \A i \in 1 .. Len(outbox') : outbox'[i].cell # 0 =>
           outbox'[i].cell \in Cells /\ Answers(outbox'[i].cell, outbox'[i])
    BY <1>3 DEF AnswerInv
  <2>2. \A c \in Cells : answers'[c] # <<>> => Answers(c, answers'[c][1])
    BY <1>5, <1>6 DEF AnswerInv
  <2> QED
    BY <1>8, <1>10, <2>1, <2>2 DEF AnswerInv
<1>12. GuestInv'
  BY <1>1, <1>8 DEF GuestInv, Asks
<1>13. CarriedInv' /\ ResultInv'
  BY <1>1, ReportsStay
<1> QED
  BY <1>7, <1>9, <1>11, <1>12, <1>13

\* The answer main waits for is the answer of a cell that asked for the program.
LEMMA SettledAnswers ==
  ASSUME IInv, NEW program, NEW answer \in Settled(program)
  PROVE  \E c \in Cells : Asks(c, program) /\ ~Pending(c) /\ Answers(c, answer)
<1>1. DOMAIN asked = Cells
  BY DEF IInv, Shape, Cells
<1>2. PICK c \in Cells : answers[c] # <<>> /\ asked[c].program = program /\ answer = answers[c][1]
  BY <1>1 DEF Settled, Waiting
<1> QED
  BY <1>2 DEF IInv, PlaceInv, AnswerInv, Asks

\* Asking for the next thing touches nothing that is reported or carried.
LEMMA PythonStep ==
  ASSUME IInv, Python
  PROVE  IInv'
<1> USE DEF IInv
<1>1. /\ pc = "python"
      /\ UNCHANGED <<carried, guest, up, worker, running, disable, outbox, build, visits, abandoned>>
  BY DEF Python, visitVars
<1>2. results.both = <<>> /\ Len(carried) \in Nat
  BY <1>1 DEF CarriedInv, Shape
<1>3. CASE up = "up"
  <2>1. pc' = "both" /\ Run("both-ways", Len(carried)) /\ results' = results
    BY <1>3 DEF Python
  <2>2. "both-ways" \in Programs
    BY DEF Programs
  <2>3. Shape'
    BY <1>1, <1>2, <2>1, <2>2, RunAdds DEF Shape
  <2>4. PlaceInv' /\ AnswerInv' /\ (\A c : Pending(c)' <=> Pending(c) \/ c = Len(asked) + 1)
    BY <1>1, <1>2, <2>1, <2>2, RunKeepsPlaces
  <2>5. /\ Cells' = Cells \cup {Len(asked) + 1}
        /\ \A c \in Cells : asked'[c] = asked[c]
        /\ asked'[Len(asked) + 1] = [program |-> "both-ways", index |-> Len(carried)]
    BY <1>2, <2>1, <2>2, RunAdds
  <2>6. \A c \in Cells : asked[c].program \notin {"both-ways", "first-tape"}
    BY <1>1 DEF GuestInv, Asks
  <2>7. \A c \in Cells' : (Asks(c, "both-ways")' => c = Len(asked) + 1 /\ asked'[c].index = Len(carried))
                          /\ ~Asks(c, "first-tape")'
    BY <2>5, <2>6 DEF Asks
  <2>8. GuestInv'
    BY <1>1, <2>1, <2>7 DEF GuestInv
  <2>9. CarriedInv' /\ ResultInv'
    BY <1>1, <1>2, <2>1 DEF CarriedInv, ResultInv, Compared
  <2> QED
    BY <2>3, <2>4, <2>8, <2>9
<1>4. CASE up # "up"
  <2>1. pc' = "done" /\ results' = [results EXCEPT !.error = TRUE] /\ UNCHANGED <<asked, answers, inbox>>
    BY <1>4 DEF Python
  <2>2. Shape' /\ PlaceInv' /\ AnswerInv'
    BY <1>1, <2>1, ZenonT(60) DEF Shape, PlaceInv, AnswerInv, Pending, Cells, Answers, Compared
  <2>3. GuestInv'
    BY <1>1, <2>1 DEF GuestInv, Asks, Cells
  <2>4. CarriedInv' /\ ResultInv'
    BY <1>1, <1>2, <2>1 DEF CarriedInv, ResultInv, Compared
  <2> QED
    BY <2>2, <2>3, <2>4
<1> QED
  BY <1>3, <1>4

\* What asking for the picture's trace does to the parts that say where a cell is.
LEMMA TraceIsAsked ==
  ASSUME IInv, pc = "both", pc' = "trace", Run("first-tape", 0),
         NEW d \in Cells, Asks(d, "both-ways"), ~Pending(d),
         UNCHANGED <<guest, up, worker, running, disable, outbox, build, visits, abandoned>>,
         carried' \in Seq(Comparisons)
  PROVE  Shape' /\ PlaceInv' /\ AnswerInv' /\ GuestInv'
<1> USE DEF IInv
<1>1. "first-tape" \in Programs /\ 0 \in Nat
  BY DEF Programs
<1>2. Shape'
  BY <1>1, RunAdds DEF Shape
<1>3. PlaceInv' /\ AnswerInv' /\ (\A c : Pending(c)' <=> Pending(c) \/ c = Len(asked) + 1)
  BY <1>1, RunKeepsPlaces
<1>4. /\ Cells' = Cells \cup {Len(asked) + 1}
      /\ Len(asked) + 1 \notin Cells
      /\ \A c \in Cells : asked'[c] = asked[c]
      /\ asked'[Len(asked) + 1] = [program |-> "first-tape", index |-> 0]
  BY <1>1, RunAdds
<1>5. \A c \in Cells' : Asks(c, "both-ways")' => c = d /\ ~Pending(c)'
  BY <1>3, <1>4 DEF GuestInv, Asks
<1>6. GuestInv'
  BY <1>5 DEF GuestInv
<1> QED
  BY <1>2, <1>3, <1>6

LEMMA BothWaysFailsStep ==
  ASSUME IInv, BothWaysFails
  PROVE  IInv'
<1> USE DEF IInv
<1>1. /\ pc = "both" /\ pc' = "trace" /\ Run("first-tape", 0)
      /\ results' = [results EXCEPT !.bothError = TRUE]
      /\ UNCHANGED <<carried, guest, up, worker, running, disable, outbox, build, visits, abandoned>>
  BY DEF BothWaysFails, visitVars
<1>2. PICK d \in Cells : Asks(d, "both-ways") /\ ~Pending(d)
  BY SettledAnswers DEF BothWaysFails
<1>3. Shape' /\ PlaceInv' /\ AnswerInv' /\ GuestInv'
  <2>1. carried' \in Seq(Comparisons)
    BY <1>1 DEF Shape
  <2> QED
    BY <1>1, <1>2, <2>1, TraceIsAsked
<1>4. results.both = <<>>
  BY <1>1 DEF CarriedInv
<1>5. CarriedInv' /\ ResultInv'
  BY <1>1, <1>4 DEF CarriedInv, ResultInv, Compared
<1> QED
  BY <1>3, <1>5

\* The recipes of an answer that was asked for when so many were carried are those so far.
LEMMA OneMore ==
  ASSUME IInv, pc = "both", NEW answer \in Settled("both-ways"), ~answer.error,
         NEW all, all = carried \o answer.value.recipes
  PROVE  /\ answer.value.live = TRUE
         /\ all \in Seq(Comparisons)
         /\ Len(all) = Len(carried) + 1
         /\ \A n \in 1 .. Len(all) : Compared(all[n], n)
         /\ ~abandoned => \A n \in 1 .. Len(all) : all[n].build = build
<1> USE DEF IInv
<1> DEFINE more == answer.value.recipes
<1>1. PICK c \in Cells : Asks(c, "both-ways") /\ Answers(c, answer)
  BY SettledAnswers
<1>2. asked[c].program = "both-ways" /\ asked[c].index = Len(carried)
  BY <1>1 DEF GuestInv, Asks
<1>3. /\ answer.value \in BothValues
      /\ Len(more) = 1
      /\ Compared(more[1], Len(carried) + 1)
      /\ more[1].build = build
  BY <1>1, <1>2 DEF Answers
<1>4. more \in Seq(Comparisons) /\ answer.value.live = TRUE
  BY <1>3 DEF BothValues
<1> HIDE DEF more
<1>5. carried \in Seq(Comparisons) /\ Len(carried) \in Nat
  BY DEF Shape
<1>6. all = carried \o more
  BY DEF more
<1>7. /\ all \in Seq(Comparisons)
      /\ Len(all) = Len(carried) + 1
      /\ \A n \in 1 .. Len(carried) + 1 : all[n] = IF n <= Len(carried) THEN carried[n] ELSE more[n - Len(carried)]
  <2>1. /\ carried \o more \in Seq(Comparisons)
        /\ Len(carried \o more) = Len(carried) + Len(more)
        /\ \A n \in 1 .. Len(carried) + Len(more) :
              (carried \o more)[n] = IF n <= Len(carried) THEN carried[n] ELSE more[n - Len(carried)]
    BY <1>4, <1>5, ConcatProperties
  <2> QED
    BY <1>3, <1>6, <2>1
<1>8. ASSUME NEW n \in 1 .. Len(all)
      PROVE  Compared(all[n], n) /\ (~abandoned => all[n].build = build)
  <2>1. CASE n \in 1 .. Len(carried)
    <3>1. all[n] = carried[n]
      BY <1>5, <1>7, <2>1
    <3> QED
      BY <2>1, <3>1 DEF CarriedInv
  <2>2. CASE n = Len(carried) + 1
    <3>1. all[n] = more[1]
      <4>1. n \in 1 .. Len(carried) + 1 /\ ~(n <= Len(carried)) /\ n - Len(carried) = 1
        BY <1>5, <2>2
      <4> QED
        BY <1>7, <4>1
    <3> QED
      BY <1>3, <2>2, <3>1
  <2> QED
    BY <1>5, <1>7, <2>1, <2>2
<1> QED
  BY <1>4, <1>7, <1>8

LEMMA BothWaysReloadsStep ==
  ASSUME IInv, BothWaysReloads
  PROVE  IInv'
<1> USE DEF IInv
<1>1. PlaceInv' /\ AnswerInv' /\ GuestInv' /\ ResultInv'
  BY NewPageIsFresh DEF BothWaysReloads
<1>2. /\ pc = "both" /\ pc' = "boot" /\ results'.both = <<>> /\ build' = build /\ abandoned' = abandoned
      /\ Len(carried') < Len(Recipes)
  BY DEF BothWaysReloads, NewPage, Nothing, visitVars
<1>3. PICK answer \in Settled("both-ways") : ~answer.error /\ carried' = carried \o answer.value.recipes
  BY DEF BothWaysReloads
<1>4. /\ carried' \in Seq(Comparisons)
      /\ \A n \in 1 .. Len(carried') : Compared(carried'[n], n)
      /\ ~abandoned => \A n \in 1 .. Len(carried') : carried'[n].build = build
  BY <1>2, <1>3, OneMore
<1>5. Shape'
  BY <1>4 DEF Shape, BothWaysReloads, NewPage, visitVars
<1>6. CarriedInv'
  BY <1>2, <1>4 DEF CarriedInv, Compared
<1> QED
  BY <1>1, <1>5, <1>6

LEMMA BothWaysEndsStep ==
  ASSUME IInv, BothWaysEnds
  PROVE  IInv'
<1> USE DEF IInv
<1>1. /\ pc = "both" /\ pc' = "trace" /\ Run("first-tape", 0)
      /\ UNCHANGED <<guest, up, worker, running, disable, outbox, build, visits, abandoned>>
  BY DEF BothWaysEnds, visitVars
<1>2. PICK answer \in Settled("both-ways") :
          /\ ~answer.error
          /\ answer.value.live => Len(carried \o answer.value.recipes) >= Len(Recipes)
          /\ results' = [results EXCEPT !.both = <<[live |-> answer.value.live,
                                                    recipes |-> carried \o answer.value.recipes]>>]
          /\ carried' = <<>>
  BY DEF BothWaysEnds
<1>3. PICK d \in Cells : Asks(d, "both-ways") /\ ~Pending(d)
  BY SettledAnswers
<1>4. Shape' /\ PlaceInv' /\ AnswerInv' /\ GuestInv'
  BY <1>1, <1>2, <1>3, TraceIsAsked
<1>5. PICK all : all = carried \o answer.value.recipes
  OBVIOUS
<1> DEFINE both == [live |-> TRUE, recipes |-> all]
<1>6. /\ answer.value.live = TRUE
      /\ all \in Seq(Comparisons)
      /\ Len(all) = Len(Recipes)
      /\ \A n \in 1 .. Len(all) : Compared(all[n], n)
      /\ ~abandoned => \A n \in 1 .. Len(all) : all[n].build = build
  <2>1. /\ answer.value.live = TRUE
        /\ all \in Seq(Comparisons)
        /\ Len(all) = Len(carried) + 1
        /\ \A n \in 1 .. Len(all) : Compared(all[n], n)
        /\ ~abandoned => \A n \in 1 .. Len(all) : all[n].build = build
    BY <1>1, <1>2, <1>5, OneMore
  <2>2. Len(carried) \in Nat /\ Len(Recipes) \in Nat /\ Len(carried) < Len(Recipes) /\ Len(all) >= Len(Recipes)
    BY <1>2, <1>5, <2>1, RecipesAssumption DEF CarriedInv, Shape
  <2> QED
    BY <2>1, <2>2
<1>7. Reported(both)'
  BY <1>1, <1>6 DEF Reported, Compared
<1>8. results' = [results EXCEPT !.both = <<both>>]
  BY <1>2, <1>5, <1>6
<1> HIDE DEF both
<1>9. ResultInv'
  BY <1>7, <1>8 DEF ResultInv
<1>10. CarriedInv'
  BY <1>1, <1>2, RecipesAssumption DEF CarriedInv
<1> QED
  BY <1>4, <1>9, <1>10

LEMMA TraceStep ==
  ASSUME IInv, Trace
  PROVE  IInv'
<1> USE DEF IInv
<1>1. /\ pc = "trace" /\ pc' = "done"
      /\ UNCHANGED <<carried, guest, up, asked, answers, worker, inbox, running, disable, outbox, build, visits,
                     abandoned>>
  BY DEF Trace, pageVars, workerVars, visitVars
<1>2. PICK answer \in Settled("first-tape") :
          results' = [results EXCEPT !.live = IF answer.error THEN <<>> ELSE <<answer.value.live>>]
  BY DEF Trace
<1>3. PICK c \in Cells : Asks(c, "first-tape") /\ Answers(c, answer)
  BY SettledAnswers
<1>4. results' = [results EXCEPT !.live = <<>>] \/ results' = [results EXCEPT !.live = <<TRUE>>]
  <2>1. CASE answer.error
    BY <1>2, <2>1
  <2>2. CASE ~answer.error
    <3>1. answer.value.live = TRUE
      BY <1>3, <2>2 DEF Answers, Asks, TapeValues
    <3> QED
      BY <1>2, <2>2, <3>1
  <2> QED
    BY <2>1, <2>2
<1>5. Shape' /\ PlaceInv' /\ AnswerInv'
  BY <1>1, ZenonT(60) DEF Shape, PlaceInv, AnswerInv, Pending, Cells, Answers, Compared
<1>6. GuestInv'
  BY <1>1 DEF GuestInv, Asks, Cells, Pending
<1>7. results'.both = results.both
  BY <1>4 DEF ResultInv
<1>8. CarriedInv'
  BY <1>1, <1>7 DEF CarriedInv, Compared
<1>9. \A both : Reported(both)' <=> Reported(both)
  BY <1>1 DEF Reported, Compared
<1>10. ResultInv'
  BY <1>4, <1>7, <1>9 DEF ResultInv
<1> QED
  BY <1>5, <1>6, <1>8, <1>10

LEMMA AskStep ==
  ASSUME IInv, NEW program \in OthersAsk, Ask(program)
  PROVE  IInv'
<1> USE DEF IInv
<1>1. /\ Run(program, 0) /\ pc \notin {"closed", "boot", "done"}
      /\ UNCHANGED <<pc, carried, results, guest, up, worker, running, disable, outbox, build, visits, abandoned>>
  BY DEF Ask, visitVars
<1>2. program \in Programs /\ 0 \in Nat /\ program \notin {"both-ways", "first-tape"}
  BY OthersDiffer DEF Programs
<1>3. Shape'
  BY <1>1, <1>2, RunAdds DEF Shape
<1>4. PlaceInv' /\ AnswerInv' /\ (\A c : Pending(c)' <=> Pending(c) \/ c = Len(asked) + 1)
  BY <1>1, <1>2, RunKeepsPlaces
<1>5. /\ Cells' = Cells \cup {Len(asked) + 1}
      /\ \A c \in Cells : asked'[c] = asked[c]
      /\ asked'[Len(asked) + 1] = [program |-> program, index |-> 0]
      /\ Len(asked) + 1 \notin Cells
  BY <1>1, <1>2, RunAdds
<1>6. \A c \in Cells' : /\ Asks(c, "both-ways")' => c \in Cells /\ Asks(c, "both-ways") /\ (Pending(c)' <=> Pending(c))
                        /\ Asks(c, "first-tape")' => c \in Cells /\ Asks(c, "first-tape")
  BY <1>2, <1>4, <1>5 DEF Asks
<1>7. GuestInv'
  BY <1>1, <1>5, <1>6 DEF GuestInv
<1>8. CarriedInv' /\ ResultInv'
  BY <1>1, ReportsStay
<1> QED
  BY <1>3, <1>4, <1>7, <1>8

-----------------------------------------------------------------------------
(* What holds of every behaviour.                                          *)

\* The four parts and what is reported hold from the first page opened to the last.
THEOREM HarnessInv == Spec => []IInv
<1>1. ASSUME IInv, Next PROVE IInv'
  <2>1. ASSUME Page PROVE IInv'
    BY <1>1, <2>1, StartStep, ChecksStep, PythonStep, BothWaysFailsStep, BothWaysReloadsStep, BothWaysEndsStep,
       TraceStep, ReceiveStep DEF Page
  <2>2. ASSUME Worker PROVE IInv'
    BY <1>1, <2>2, WorkerBootStep, WorkerTakesStep, WorkerAnswersStep DEF Worker
  <2> QED
    BY <1>1, <2>1, <2>2, OpenStep, AskStep DEF Next
<1>2. ASSUME IInv, UNCHANGED vars PROVE IInv'
  <2> USE <1>2 DEF IInv, vars, pageVars, workerVars, visitVars
  <2>1. Shape' /\ PlaceInv' /\ AnswerInv'
    BY ZenonT(60) DEF Shape, PlaceInv, AnswerInv, Pending, Cells, Answers, Compared
  <2>2. GuestInv'
    BY DEF GuestInv, Asks, Cells, Pending
  <2>3. CarriedInv' /\ ResultInv'
    BY ReportsStay
  <2> QED
    BY <2>1, <2>2, <2>3
<1> QED
  BY InitHolds, <1>1, <1>2, PTL DEF Spec

\* However the page is opened, reloaded and left, and whatever fails on the way: a comparison that
\* is reported has every recipe of the profile once and in order, and each was run on a guest that
\* had run no recipe since it booted (main and bothWays of harness.js, run of bothways.py).
THEOREM EveryRecipeAlone == Spec => []EachRecipeOnItsOwnGuest
<1>1. ASSUME IInv PROVE EachRecipeOnItsOwnGuest
  <2> SUFFICES ASSUME NEW i \in DOMAIN results.both
               PROVE  LET recipes == results.both[i].recipes IN
                      /\ [n \in DOMAIN recipes |-> recipes[n].recipe] = Recipes
                      /\ \A n \in DOMAIN recipes : ToSet(recipes[n].before) \cap ToSet(Recipes) = {}
    BY DEF EachRecipeOnItsOwnGuest
  <2>1. PICK both : results.both = <<both>> /\ Reported(both)
    BY <1>1 DEF IInv, ResultInv
  <2>2. results.both[i] = both
    BY <2>1
  <2>3. DOMAIN both.recipes = 1 .. Len(Recipes) /\ \A n \in 1 .. Len(Recipes) : Compared(both.recipes[n], n)
    BY <2>1 DEF Reported
  <2>4. [n \in DOMAIN both.recipes |-> both.recipes[n].recipe] = Recipes
    BY <2>3, RecipesAssumption DEF Compared
  <2>5. ToSet(<<"checks">>) = {"checks"}
    BY DEF ToSet
  <2>6. \A n \in DOMAIN both.recipes : ToSet(both.recipes[n].before) \cap ToSet(Recipes) = {}
    BY <2>3, <2>5, RecipesAssumption DEF Compared
  <2> QED
    BY <2>2, <2>4, <2>6
<1> QED
  BY <1>1, HarnessInv, PTL

\* In a tab that has not abandoned a comparison (left one unfinished, its recipes so far still
\* carried, for another page), what is reported with a build was compared on that build.  A tab
\* that has can mix two builds (the sessionStorage of harness.js): the theorem is not about it.
THEOREM ReportedOnOneBuild == Spec => []OneBuildEach
<1>1. ASSUME IInv PROVE OneBuildEach
  <2> SUFFICES ASSUME ~abandoned, NEW i \in DOMAIN results.both, NEW n \in DOMAIN results.both[i].recipes
               PROVE  results.both[i].recipes[n].build = build
    BY DEF OneBuildEach
  <2>1. PICK both : results.both = <<both>> /\ Reported(both)
    BY <1>1 DEF IInv, ResultInv
  <2>2. results.both[i] = both
    BY <2>1
  <2>3. DOMAIN both.recipes = 1 .. Len(Recipes)
    BY <2>1 DEF Reported
  <2> QED
    BY <2>1, <2>2, <2>3 DEF Reported
<1> QED
  BY <1>1, HarnessInv, PTL

\* A promise of page.js is settled with what worker.js says of its own cell, however many cells
\* are in hand and in whatever order they end.
THEOREM EachCellItsAnswer == Spec => []AnswersToTheirCells
<1>1. ASSUME IInv PROVE AnswersToTheirCells
  <2>1. DOMAIN asked = Cells
    BY <1>1 DEF IInv, Shape, Cells
  <2>2. \A cell \in DOMAIN asked \ Waiting : Answers(cell, answers[cell][1])
    BY <1>1, <2>1 DEF IInv, AnswerInv, Waiting
  <2> QED
    BY <2>2 DEF AnswersToTheirCells, Answers
<1> QED
  BY <1>1, HarnessInv, PTL

\* The recording that bothways.run forces is forced no longer when first-tape.py boots its session.
THEOREM TraceOffTheKernel == Spec => []BannerIsLive
<1>1. ASSUME IInv PROVE BannerIsLive
  <2>1. results.live \in {<<>>, <<TRUE>>}
    BY <1>1 DEF IInv, ResultInv
  <2>2. CASE results.live = <<>>
    BY <2>2 DEF BannerIsLive
  <2>3. CASE results.live = <<TRUE>>
    <3>1. results.live \in Seq({TRUE})
      <4>1. TRUE \in {TRUE}
        OBVIOUS
      <4> QED
        BY <2>3, <4>1, OneTuple
    <3>2. ASSUME NEW i \in DOMAIN results.live PROVE results.live[i] \in {TRUE}
      BY <3>1, ElementOfSeq, LenProperties
    <3> QED
      BY <3>2 DEF BannerIsLive
  <2> QED
    BY <2>1, <2>2, <2>3
<1> QED
  BY <1>1, HarnessInv, PTL
=============================================================================
