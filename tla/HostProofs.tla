----------------------------- MODULE HostProofs -----------------------------
(***************************************************************************)
(* Proofs about Host, for any requesters, texts and lengths of them.       *)
(*                                                                         *)
(* A request has one command at a time on its way, in the chain or in      *)
(* flight (TurnInv): that is all AnswersOnce needs.  What is written needs *)
(* the order of the shell's input as well: a command that expired may      *)
(* still be there, and the commands behind it begin over (InputInv).       *)
(* Then the command on its way finds the files as the commands before it   *)
(* left them (WriteInv).  This part holds for one writer, which is what    *)
(* kxbox has: the worker; two would share the scratch files.               *)
(***************************************************************************)
EXTENDS Host, TLAPS, SequenceTheorems

WriteOps == {"clear", "append", "decode", "copy"}
Entries == [by : Requesters, cmd : Commands]

OneWriter == \A r, s \in Writers : r = s

\* How many commands of its request are settled, and the one on its way.
At(r) == Len(Script(request[r])) - Len(todo[r]) + 1

\* The command on its way is the next one of the request's script.
OnItsWay(entry) ==
    /\ Busy(entry.by)
    /\ todo[entry.by] # <<>>
    /\ entry.cmd = todo[entry.by][1]

TurnInv ==
    /\ \A i, j \in 1 .. Len(chain) : chain[i].by = chain[j].by => i = j
    /\ \A i \in 1 .. Len(chain) : OnItsWay(chain[i])
    /\ flight # None =>
         /\ OnItsWay(flight)
         /\ \A i \in 1 .. Len(chain) : chain[i].by # flight.by
    /\ \A r \in Requesters :
         /\ Len(answers[r]) <= 1
         /\ request[r] # None /\ request[r].call = "write" => r \in Writers
         /\ Busy(r) =>
              /\ request[r].call \in CALLS
              /\ Len(todo[r]) <= Len(Script(request[r]))
              /\ \A i \in 1 .. Len(todo[r]) : todo[r][i] = Script(request[r])[At(r) + i - 1]

\* The result is that of the command in flight, which is the last one the shell was sent.
ResultInv ==
    /\ flight = None => result = "none"
    /\ flight # None /\ result = "none" => typed # <<>> /\ typed[Len(typed)] = flight.cmd
    /\ result # "none" => typed = <<>>

NoWriteTyped == \A i \in 1 .. Len(typed) : typed[i].op \notin WriteOps

\* What a decode and a copy that came back well have left, if base64 fails only when it says so.
Decoded(t) == decoded \in Starts(Whole(t)) /\ ("decode" \notin faults => decoded = Whole(t))
Landed(t) == "decode" \notin faults => target = Whole(t)

\* Only a clear can stand behind another write's command in the shell's input.
InputInv ==
    \A i \in 1 .. Len(typed) : typed[i].op \in WriteOps \ {"clear"} =>
        /\ \A j \in 1 .. (i - 1) : typed[j].op \notin WriteOps
        /\ typed[i].op = "copy" => \E t \in Texts : Decoded(t)

Pieces(t, n) == [i \in 1 .. n |-> <<t, i>>]

\* What the files hold before the k-th command of the script that writes t.
Progress(t, k) ==
    /\ k \in 2 .. PieceCount[t] + 2 => staging = Pieces(t, k - 2)
    /\ k = PieceCount[t] + 3 => Decoded(t)
    /\ k = PieceCount[t] + 4 => Landed(t)

Chained(r) == \E i \in 1 .. Len(chain) : chain[i].by = r
Flying(r) == flight # None /\ flight.by = r

WriteOf(r) ==
    request[r] # None /\ request[r].call = "write" =>
        LET t == request[r].text IN
        /\ Busy(r) /\ Chained(r) => Progress(t, At(r)) /\ (At(r) > 1 => NoWriteTyped)
        /\ Busy(r) /\ Flying(r) /\ result = "none" => Progress(t, At(r))
        /\ Busy(r) /\ Flying(r) /\ result = "ok" => Progress(t, At(r) + 1)
        /\ answers[r] = <<"value">> => Landed(t) /\ NoWriteTyped

WriteInv == \A r \in Writers : WriteOf(r)

TIInv == TypeOK /\ TurnInv
FIInv == TIInv /\ ResultInv /\ InputInv /\ WriteInv /\ TargetWhole

-----------------------------------------------------------------------------
(* Scripts.                                                                *)

LEMMA OpIsCommand ==
  ASSUME NEW op \in CALLS \cup {"clear", "decode", "copy"}
  PROVE  Op(op) \in Commands /\ Op(op).op = op
BY DEF Op, Commands

\* The script of a write: it clears, appends every piece in order, decodes and copies.
LEMMA WriteScript ==
  ASSUME NEW t \in Texts
  PROVE  LET n == PieceCount[t]
             s == writeCommands(t)
         IN  /\ n \in Nat /\ s \in Seq(Commands) /\ Len(s) = n + 3
             /\ s[1].op = "clear"
             /\ \A k \in 2 .. n + 1 : s[k].op = "append" /\ s[k].piece = <<t, k - 1>>
             /\ s[n + 2].op = "decode"
             /\ s[n + 3].op = "copy"
<1> DEFINE n == PieceCount[t]
           s1 == <<Op("clear")>>
           s2 == [i \in 1 .. n |-> [op |-> "append", piece |-> <<t, i>>]]
           s3 == <<Op("decode"), Op("copy")>>
<1>1. n \in Nat
  BY HostAssumption
<1>2. s1 \in Seq(Commands) /\ Len(s1) = 1 /\ s1[1].op = "clear"
  BY OpIsCommand
<1>3. s3 \in Seq(Commands) /\ Len(s3) = 2 /\ s3[1].op = "decode" /\ s3[2].op = "copy"
  BY OpIsCommand
<1>4. /\ s2 \in Seq(Commands) /\ Len(s2) = n
      /\ \A i \in 1 .. n : s2[i].op = "append" /\ s2[i].piece = <<t, i>>
  <2>1. \A i \in 1 .. n : [op |-> "append", piece |-> <<t, i>>] \in Commands
    BY <1>1 DEF Commands
  <2> QED
    BY <1>1, <2>1
<1>5. writeCommands(t) = (s1 \o s2) \o s3
  BY DEF writeCommands
<1> HIDE DEF n, s1, s2, s3
<1> DEFINE s12 == s1 \o s2
<1>6. /\ s12 \in Seq(Commands) /\ Len(s12) = n + 1
      /\ \A i \in 1 .. 1 + n : s12[i] = IF i <= 1 THEN s1[i] ELSE s2[i - 1]
  <2>1. /\ s12 \in Seq(Commands) /\ Len(s12) = Len(s1) + Len(s2)
        /\ \A i \in 1 .. Len(s1) + Len(s2) : s12[i] = IF i <= Len(s1) THEN s1[i] ELSE s2[i - Len(s1)]
    BY <1>2, <1>4, ConcatProperties, SMTT(30)
  <2> QED
    BY <1>1, <1>2, <1>4, <2>1
<1> HIDE DEF s12
<1>7. /\ s12 \o s3 \in Seq(Commands) /\ Len(s12 \o s3) = n + 3
      /\ \A i \in 1 .. n + 3 : (s12 \o s3)[i] = IF i <= n + 1 THEN s12[i] ELSE s3[i - (n + 1)]
  <2>1. /\ s12 \o s3 \in Seq(Commands) /\ Len(s12 \o s3) = Len(s12) + Len(s3)
        /\ \A i \in 1 .. Len(s12) + Len(s3) :
              (s12 \o s3)[i] = IF i <= Len(s12) THEN s12[i] ELSE s3[i - Len(s12)]
    BY <1>3, <1>6, ConcatProperties
  <2> QED
    BY <1>1, <1>3, <1>6, <2>1
<1>8. PICK s : s = s12 \o s3
  OBVIOUS
<1>9. s[1].op = "clear"
  BY <1>1, <1>2, <1>6, <1>7, <1>8
<1>10. \A k \in 2 .. n + 1 : s[k].op = "append" /\ s[k].piece = <<t, k - 1>>
  <2> SUFFICES ASSUME NEW k \in 2 .. n + 1 PROVE s[k].op = "append" /\ s[k].piece = <<t, k - 1>>
    OBVIOUS
  <2>1. s[k] = s2[k - 1] /\ k - 1 \in 1 .. n
    BY <1>1, <1>6, <1>7, <1>8
  <2> QED
    BY <1>4, <2>1
<1>11. s[n + 2].op = "decode" /\ s[n + 3].op = "copy"
  <2>1. s[n + 2] = s3[1] /\ s[n + 3] = s3[2]
    BY <1>1, <1>7, <1>8
  <2> QED
    BY <1>3, <2>1
<1> QED
  BY <1>1, <1>5, <1>7, <1>8, <1>9, <1>10, <1>11 DEF n, s12

\* The script of any request on the allow list.
LEMMA ScriptFacts ==
  ASSUME NEW q \in Requests, q.call \in CALLS
  PROVE  /\ Script(q) \in Seq(Commands) /\ Script(q) # <<>> /\ Len(Script(q)) >= 1
         /\ q.call # "write" => Len(Script(q)) = 1 /\ Script(q)[1] = Op(q.call)
         /\ q.call = "write" => q.text \in Texts /\ Script(q) = writeCommands(q.text)
<1>1. CASE q.call = "write"
  <2>1. q.text \in Texts
    BY <1>1 DEF Requests
  <2> QED
    BY <1>1, <2>1, WriteScript DEF Script
<1>2. CASE q.call # "write"
  BY <1>2, OpIsCommand DEF Script
<1> QED
  BY <1>1, <1>2

-----------------------------------------------------------------------------
(* One command of a request at a time.                                     *)

\* The state as the proofs about turns read it.
LEMMA Typed ==
  ASSUME TypeOK
  PROVE  /\ request \in [Requesters -> Requests \cup {None}]
         /\ answers \in [Requesters -> Seq({"value", "failed"})]
         /\ todo \in [Requesters -> Seq(Commands)]
         /\ chain \in Seq(Entries)
         /\ flight \in Entries \cup {None}
         /\ typed \in Seq(Commands)
         /\ \A i \in 1 .. Len(chain) : chain[i] \in Entries /\ chain[i].by \in Requesters
         /\ flight # None => flight.by \in Requesters /\ flight.cmd \in Commands
<1>1. \A e \in Entries : e.by \in Requesters /\ e.cmd \in Commands
  BY DEF Entries
<1>2. /\ request \in [Requesters -> Requests \cup {None}]
      /\ answers \in [Requesters -> Seq({"value", "failed"})]
      /\ todo \in [Requesters -> Seq(Commands)]
      /\ chain \in Seq(Entries)
      /\ flight \in Entries \cup {None}
      /\ typed \in Seq(Commands)
  BY DEF TypeOK, Entries
<1>3. \A i \in 1 .. Len(chain) : chain[i] \in Entries
  BY <1>2, ElementOfSeq
<1> QED
  BY <1>1, <1>2, <1>3

LEMMA InitTurn == Init => TIInv
<1> SUFFICES ASSUME Init PROVE TIInv
  OBVIOUS
<1>1. TypeOK
  BY DEF Init, TypeOK
<1>2. TurnInv
  BY DEF Init, TurnInv, Busy
<1> QED
  BY <1>1, <1>2 DEF TIInv

LEMMA HandleTurn ==
  ASSUME TIInv, NEW r \in Requesters, NEW q \in Requests, Handle(r, q)
  PROVE  TIInv'
<1> USE DEF TIInv
<1> DEFINE entry == [by |-> r, cmd |-> Head(Script(q))]
<1>1. /\ ~Busy(r) /\ q.call \in CALLS /\ (q.call = "write" => r \in Writers)
      /\ request' = [request EXCEPT ![r] = q]
      /\ answers' = [answers EXCEPT ![r] = <<>>]
      /\ todo' = [todo EXCEPT ![r] = Script(q)]
      /\ chain' = Append(chain, entry)
      /\ UNCHANGED <<flight, result, typed, staging, decoded, target, faults>>
  BY DEF Handle, fileVars
<1>2. /\ Script(q) \in Seq(Commands) /\ Script(q) # <<>> /\ Len(Script(q)) \in Nat
      /\ Head(Script(q)) = Script(q)[1] /\ Script(q)[1] \in Commands
  BY <1>1, ScriptFacts
<1>3. entry \in Entries /\ entry.by = r /\ entry.cmd = Script(q)[1]
  BY <1>2 DEF Entries
<1> HIDE DEF entry
<1>4. /\ chain' \in Seq(Entries) /\ Len(chain') = Len(chain) + 1 /\ Len(chain) \in Nat
      /\ \A i \in 1 .. Len(chain) : chain'[i] = chain[i]
      /\ chain'[Len(chain) + 1] = entry
  BY <1>1, <1>3, Typed, AppendProperties
<1>5. TypeOK'
  BY <1>1, <1>2, <1>4 DEF TypeOK, Entries
<1>6. /\ request'[r] = q /\ answers'[r] = <<>> /\ todo'[r] = Script(q)
      /\ \A b \in Requesters \ {r} : request'[b] = request[b] /\ answers'[b] = answers[b] /\ todo'[b] = todo[b]
  BY <1>1, Typed
<1>7. \A b \in Requesters \ {r} : (Busy(b)' <=> Busy(b)) /\ At(b)' = At(b)
  BY <1>6 DEF Busy, At
<1>8. Busy(r)'
  BY <1>6, NoneAssumption DEF Busy
<1>9. (\A i \in 1 .. Len(chain) : chain[i].by # r) /\ (flight # None => flight.by # r)
  BY <1>1 DEF TurnInv, OnItsWay
<1>10. OnItsWay(entry)'
  BY <1>2, <1>3, <1>6, <1>8 DEF OnItsWay
<1>11. \A e \in Entries : e.by # r /\ OnItsWay(e) => OnItsWay(e)'
  BY <1>6, <1>7 DEF OnItsWay, Entries
<1>12. 1 .. Len(chain') = 1 .. Len(chain) \cup {Len(chain) + 1}
  BY <1>4
<1>13. \A i, j \in 1 .. Len(chain') : chain'[i].by = chain'[j].by => i = j
  BY <1>3, <1>4, <1>9, <1>12 DEF TurnInv
<1>14. \A i \in 1 .. Len(chain') : OnItsWay(chain[i])'
  <2>1. \A i \in 1 .. Len(chain) : OnItsWay(chain[i]) /\ chain[i] \in Entries
    BY Typed DEF TurnInv
  <2> QED
    BY <1>4, <1>9, <1>10, <1>11, <1>12, <2>1
<1>15. flight' # None => OnItsWay(flight)' /\ \A i \in 1 .. Len(chain') : chain'[i].by # flight'.by
  <2>1. flight # None => flight \in Entries /\ OnItsWay(flight)
    BY Typed DEF TurnInv
  <2> QED
    BY <1>1, <1>3, <1>4, <1>9, <1>11, <1>12, <2>1 DEF TurnInv
<1>16. ASSUME NEW b \in Requesters \ {r}
       PROVE  /\ Len(answers'[b]) <= 1
              /\ request'[b] # None /\ request'[b].call = "write" => b \in Writers
              /\ Busy(b)' =>
                   /\ request'[b].call \in CALLS
                   /\ Len(todo'[b]) <= Len(Script(request'[b]))
                   /\ \A i \in 1 .. Len(todo'[b]) : todo'[b][i] = Script(request'[b])[At(b)' + i - 1]
  BY <1>6, <1>7 DEF TurnInv
<1>17. At(r)' = 1 /\ \A i \in 1 .. Len(todo'[r]) : At(r)' + i - 1 = i
  BY <1>2, <1>6 DEF At
<1>18. TurnInv'
  BY <1>1, <1>2, <1>6, <1>13, <1>14, <1>15, <1>16, <1>17 DEF TurnInv
<1> QED
  BY <1>5, <1>18

LEMMA HandleUnknownTurn ==
  ASSUME TIInv, NEW r \in Requesters, NEW q \in Requests, HandleUnknown(r, q)
  PROVE  TIInv'
<1> USE DEF TIInv
<1>1. /\ ~Busy(r) /\ q.call \notin CALLS
      /\ request' = [request EXCEPT ![r] = q]
      /\ answers' = [answers EXCEPT ![r] = <<"failed">>]
      /\ UNCHANGED <<todo, chain, flight, result, typed, staging, decoded, target, faults>>
  BY DEF HandleUnknown, fileVars, guestVars
<1>2. <<"failed">> \in Seq({"value", "failed"}) /\ Len(<<"failed">>) = 1 /\ <<"failed">> # <<>>
  OBVIOUS
<1>3. TypeOK'
  BY <1>1, <1>2 DEF TypeOK
<1>4. /\ request'[r] = q /\ answers'[r] = <<"failed">>
      /\ \A b \in Requesters \ {r} : request'[b] = request[b] /\ answers'[b] = answers[b]
  BY <1>1, Typed
<1>5. \A b \in Requesters \ {r} : (Busy(b)' <=> Busy(b)) /\ At(b)' = At(b)
  BY <1>1, <1>4 DEF Busy, At
<1>6. ~Busy(r)'
  BY <1>2, <1>4 DEF Busy
<1>7. (\A i \in 1 .. Len(chain) : chain[i].by # r) /\ (flight # None => flight.by # r)
  BY <1>1 DEF TurnInv, OnItsWay
<1>8. \A e \in Entries : e.by # r /\ OnItsWay(e) => OnItsWay(e)'
  BY <1>1, <1>5 DEF OnItsWay, Entries
<1>9. \A i \in 1 .. Len(chain') : OnItsWay(chain[i])'
  BY <1>1, <1>7, <1>8, Typed DEF TurnInv
<1>10. flight' # None => OnItsWay(flight)'
  BY <1>1, <1>7, <1>8, Typed DEF TurnInv
<1>11. q.call # "write"
  BY <1>1 DEF CALLS
<1>12. \A b \in Requesters :
         /\ Len(answers'[b]) <= 1
         /\ request'[b] # None /\ request'[b].call = "write" => b \in Writers
         /\ Busy(b)' =>
              /\ request'[b].call \in CALLS
              /\ Len(todo'[b]) <= Len(Script(request'[b]))
              /\ \A i \in 1 .. Len(todo'[b]) : todo'[b][i] = Script(request'[b])[At(b)' + i - 1]
  BY <1>1, <1>2, <1>4, <1>5, <1>6, <1>11 DEF TurnInv
<1>13. TurnInv'
  BY <1>1, <1>9, <1>10, <1>12 DEF TurnInv
<1> QED
  BY <1>3, <1>13

LEMMA SendTurn ==
  ASSUME TIInv, Send
  PROVE  TIInv'
<1> USE DEF TIInv
<1>1. /\ flight = None /\ chain # <<>>
      /\ flight' = Head(chain) /\ chain' = Tail(chain)
      /\ typed' = Append(typed, Head(chain).cmd)
      /\ UNCHANGED <<request, answers, todo, result, staging, decoded, target, faults>>
  BY DEF Send, askVars, fileVars
<1>2. /\ chain' \in Seq(Entries) /\ flight' = chain[1] /\ 1 \in 1 .. Len(chain)
      /\ \A i \in 1 .. Len(chain') : i + 1 \in 2 .. Len(chain) /\ chain'[i] = chain[i + 1]
  BY <1>1, Typed, HeadTailProperties
<1>3. flight' \in Entries /\ flight'.cmd \in Commands
  BY <1>2, Typed DEF Entries
<1>4. TypeOK'
  <2>1. typed' \in Seq(Commands)
    BY <1>1, <1>3, Typed, AppendProperties
  <2> QED
    BY <1>1, <1>2, <1>3, <2>1 DEF TypeOK, Entries
<1>5. \A r \in Requesters : (Busy(r)' <=> Busy(r)) /\ At(r)' = At(r)
  BY <1>1 DEF Busy, At
<1>6. \A e \in Entries : OnItsWay(e) => OnItsWay(e)'
  BY <1>1, <1>5 DEF OnItsWay, Entries
<1>7. \A i, j \in 1 .. Len(chain') : chain'[i].by = chain'[j].by => i = j
  <2> SUFFICES ASSUME NEW i \in 1 .. Len(chain'), NEW j \in 1 .. Len(chain'), chain'[i].by = chain'[j].by
               PROVE  i = j
    OBVIOUS
  <2>1. i + 1 \in 1 .. Len(chain) /\ j + 1 \in 1 .. Len(chain) /\ chain[i + 1].by = chain[j + 1].by
    BY <1>2
  <2> QED
    BY <2>1 DEF TurnInv
<1>8. \A i \in 1 .. Len(chain') : OnItsWay(chain[i])' /\ chain'[i].by # flight'.by
  <2> SUFFICES ASSUME NEW i \in 1 .. Len(chain') PROVE OnItsWay(chain[i])' /\ chain'[i].by # flight'.by
    OBVIOUS
  <2>1. i + 1 \in 1 .. Len(chain) /\ chain'[i] = chain[i + 1] /\ i + 1 # 1
    BY <1>2
  <2>2. OnItsWay(chain[i + 1]) /\ chain[i + 1] \in Entries
    BY <2>1, Typed DEF TurnInv
  <2> QED
    BY <1>2, <1>6, <2>1, <2>2 DEF TurnInv
<1>9. OnItsWay(flight)'
  BY <1>2, <1>3, <1>6 DEF TurnInv
<1>10. TurnInv'
  BY <1>1, <1>5, <1>7, <1>8, <1>9 DEF TurnInv
<1> QED
  BY <1>4, <1>10

\* The end of a request, whether its last command resolved or a deadline passed.
LEMMA AnswerTurn ==
  ASSUME TIInv, flight # None, NEW r, r = flight.by, NEW how \in {"value", "failed"}, Answer(r, how),
         flight' = None, result' = "none", UNCHANGED <<request, typed, staging, decoded, target, faults>>
  PROVE  /\ TIInv' /\ ~Busy(r)'
         /\ answers'[r] = <<how>>
         /\ \A b \in Requesters \ {r} : answers'[b] = answers[b] /\ todo'[b] = todo[b]
<1> USE DEF TIInv
<1>1. r \in Requesters
  BY Typed
<1>2. /\ answers' = [answers EXCEPT ![r] = Append(@, how)]
      /\ todo' = [todo EXCEPT ![r] = <<>>]
      /\ chain' = chain
  BY <1>1 DEF Answer
<1>3. Busy(r) /\ answers[r] = <<>>
  BY <1>1 DEF TurnInv, OnItsWay, Busy
<1>4. Append(answers[r], how) = <<how>> /\ <<how>> \in Seq({"value", "failed"}) /\ Len(<<how>>) = 1 /\ <<how>> # <<>>
  BY <1>3
<1>5. /\ answers'[r] = <<how>> /\ todo'[r] = <<>>
      /\ \A b \in Requesters \ {r} : answers'[b] = answers[b] /\ todo'[b] = todo[b]
  BY <1>2, <1>4, Typed
<1>6. answers' \in [Requesters -> Seq({"value", "failed"})] /\ todo' \in [Requesters -> Seq(Commands)]
  BY <1>2, <1>4, Typed
<1>7. TypeOK'
  BY <1>2, <1>6 DEF TypeOK
<1>8. ~Busy(r)' /\ \A b \in Requesters \ {r} : (Busy(b)' <=> Busy(b)) /\ At(b)' = At(b)
  BY <1>4, <1>5 DEF Busy, At
<1>9. \A i \in 1 .. Len(chain) : chain[i].by # r /\ OnItsWay(chain[i]) /\ chain[i] \in Entries
  BY <1>1, Typed DEF TurnInv
<1>10. \A e \in Entries : e.by # r /\ OnItsWay(e) => OnItsWay(e)'
  BY <1>5, <1>8 DEF OnItsWay, Entries
<1>11. \A i \in 1 .. Len(chain') : OnItsWay(chain[i])'
  BY <1>2, <1>9, <1>10
<1>12. \A b \in Requesters :
         /\ Len(answers'[b]) <= 1
         /\ request'[b] # None /\ request'[b].call = "write" => b \in Writers
         /\ Busy(b)' =>
              /\ request'[b].call \in CALLS
              /\ Len(todo'[b]) <= Len(Script(request'[b]))
              /\ \A i \in 1 .. Len(todo'[b]) : todo'[b][i] = Script(request'[b])[At(b)' + i - 1]
  <2> TAKE b \in Requesters
  <2>1. CASE b = r
    <3>1. request[r] # None /\ request[r].call = "write" => r \in Writers
      BY <1>1 DEF TurnInv
    <3>2. Len(answers'[r]) <= 1
      BY <1>4, <1>5
    <3> QED
      BY <1>8, <2>1, <3>1, <3>2
  <2>2. CASE b # r
    BY <1>5, <1>8, <2>2 DEF TurnInv
  <2> QED
    BY <2>1, <2>2
<1>13. TurnInv'
  BY <1>2, <1>11, <1>12 DEF TurnInv
<1> QED
  BY <1>1, <1>5, <1>7, <1>8, <1>13

\* The next command of a request takes its place at the end of the chain.
LEMMA NextCommandTurn ==
  ASSUME TIInv, flight # None, NEW r, r = flight.by, Len(todo[r]) > 1, NextCommand(r),
         flight' = None, result' = "none", UNCHANGED <<request, typed, staging, decoded, target, faults>>
  PROVE  /\ TIInv' /\ answers' = answers
         /\ Busy(r) /\ At(r)' = At(r) + 1
         /\ \A b \in Requesters \ {r} : todo'[b] = todo[b]
         /\ \A i \in 1 .. Len(chain') : chain'[i].by = r \/ (i \in 1 .. Len(chain) /\ chain'[i] = chain[i])
<1> USE DEF TIInv
<1>1. r \in Requesters
  BY Typed
<1>22. PICK entry : entry = [by |-> r, cmd |-> todo[r][2]]
  OBVIOUS
<1>2. /\ todo' = [todo EXCEPT ![r] = Tail(@)]
      /\ chain' = Append(chain, entry)
      /\ answers' = answers
  BY <1>1, <1>22 DEF NextCommand
<1>3. todo[r] \in Seq(Commands) /\ Len(todo[r]) \in Nat /\ Len(todo[r]) > 1 /\ todo[r] # <<>>
  BY <1>1, Typed
<1>4. /\ Tail(todo[r]) \in Seq(Commands) /\ Len(Tail(todo[r])) = Len(todo[r]) - 1
      /\ \A i \in 1 .. Len(Tail(todo[r])) : Tail(todo[r])[i] = todo[r][i + 1]
  BY <1>3, HeadTailProperties
<1>5. /\ todo'[r] = Tail(todo[r])
      /\ \A b \in Requesters \ {r} : todo'[b] = todo[b]
      /\ todo' \in [Requesters -> Seq(Commands)]
  BY <1>2, <1>4, Typed
<1>6. entry \in Entries /\ entry.by = r /\ entry.cmd = todo[r][2]
  <2>1. todo[r][2] \in Commands
    BY <1>3
  <2> QED
    BY <1>1, <1>22, <2>1 DEF Entries
<1>7. /\ chain' \in Seq(Entries) /\ Len(chain') = Len(chain) + 1 /\ Len(chain) \in Nat
      /\ \A i \in 1 .. Len(chain) : chain'[i] = chain[i]
      /\ chain'[Len(chain) + 1] = entry
  BY <1>2, <1>6, Typed, AppendProperties
<1>8. TypeOK'
  BY <1>2, <1>5, <1>7 DEF TypeOK, Entries
<1>9. (\A b \in Requesters : Busy(b)' <=> Busy(b)) /\ (\A b \in Requesters \ {r} : At(b)' = At(b))
  BY <1>2, <1>5 DEF Busy, At
<1>10. Busy(r) /\ OnItsWay(flight)
  BY <1>1 DEF TurnInv, OnItsWay
<1>11. /\ Len(todo[r]) <= Len(Script(request[r])) /\ request[r].call \in CALLS
       /\ \A i \in 1 .. Len(todo[r]) : todo[r][i] = Script(request[r])[At(r) + i - 1]
       /\ Len(Script(request[r])) \in Nat
  <2>1. request[r] \in Requests /\ request[r].call \in CALLS
    BY <1>10, Typed DEF TurnInv, Busy
  <2>2. Len(Script(request[r])) \in Nat
    BY <2>1, ScriptFacts
  <2> QED
    BY <1>1, <1>10, <2>1, <2>2 DEF TurnInv
<1>12. At(r)' = At(r) + 1 /\ At(r) \in Nat
  <2>1. Len(todo'[r]) = Len(todo[r]) - 1
    BY <1>4, <1>5
  <2>2. At(r)' = Len(Script(request[r])) - Len(todo'[r]) + 1
    BY DEF At
  <2> QED
    BY <1>3, <1>11, <2>1, <2>2 DEF At
<1>13. OnItsWay(entry)'
  <2>1. todo'[r] # <<>> /\ todo'[r][1] = todo[r][2]
    <3>1. Len(Tail(todo[r])) >= 1 /\ 1 \in 1 .. Len(Tail(todo[r]))
      BY <1>3, <1>4
    <3>2. Tail(todo[r])[1] = todo[r][1 + 1]
      BY <1>4, <3>1
    <3>3. Tail(todo[r]) # <<>>
      <4>1. \A s : Len(s) >= 1 => s # <<>>
        OBVIOUS
      <4> QED
        BY <3>1, <4>1
    <3> QED
      BY <1>5, <3>2, <3>3
  <2> QED
    BY <1>1, <1>6, <1>9, <1>10, <2>1 DEF OnItsWay
<1>14. \A i \in 1 .. Len(chain) : chain[i].by # r /\ OnItsWay(chain[i]) /\ chain[i] \in Entries
  BY <1>1, Typed DEF TurnInv
<1>15. \A e \in Entries : e.by # r /\ OnItsWay(e) => OnItsWay(e)'
  BY <1>5, <1>9 DEF OnItsWay, Entries
<1>16. 1 .. Len(chain') = 1 .. Len(chain) \cup {Len(chain) + 1}
  BY <1>7
<1>17. \A i \in 1 .. Len(chain') : OnItsWay(chain[i])'
  BY <1>7, <1>13, <1>14, <1>15, <1>16
<1>18. \A i, j \in 1 .. Len(chain') : chain'[i].by = chain'[j].by => i = j
  BY <1>6, <1>7, <1>14, <1>16 DEF TurnInv
<1>19. \A i \in 1 .. Len(todo'[r]) : todo'[r][i] = Script(request[r])[At(r)' + i - 1]
  <2> SUFFICES ASSUME NEW i \in 1 .. Len(todo'[r]) PROVE todo'[r][i] = Script(request[r])[At(r)' + i - 1]
    OBVIOUS
  <2>1. todo'[r][i] = todo[r][i + 1] /\ i + 1 \in 1 .. Len(todo[r])
    BY <1>3, <1>4, <1>5
  <2>2. At(r)' + i - 1 = At(r) + (i + 1) - 1
    BY <1>12
  <2> QED
    BY <1>11, <2>1, <2>2
<1>20. \A b \in Requesters :
         /\ Len(answers'[b]) <= 1
         /\ request'[b] # None /\ request'[b].call = "write" => b \in Writers
         /\ Busy(b)' =>
              /\ request'[b].call \in CALLS
              /\ Len(todo'[b]) <= Len(Script(request'[b]))
              /\ \A i \in 1 .. Len(todo'[b]) : todo'[b][i] = Script(request'[b])[At(b)' + i - 1]
  <2>1. Len(todo'[r]) <= Len(Script(request[r]))
    BY <1>3, <1>4, <1>5, <1>11
  <2> QED
    BY <1>2, <1>5, <1>9, <1>11, <1>19, <2>1 DEF TurnInv
<1>21. TurnInv'
  BY <1>17, <1>18, <1>20 DEF TurnInv
<1> QED
  BY <1>1, <1>2, <1>5, <1>6, <1>7, <1>8, <1>10, <1>12, <1>16, <1>21

\* The starts of a text are texts of its pieces, a start of a start is one, and it is one of itself.
LEMMA StartsAre ==
  ASSUME NEW X, NEW s \in Seq(X)
  PROVE  /\ Starts(s) \subseteq Seq(X) /\ s \in Starts(s)
         /\ \A u \in Starts(s) : Starts(u) \subseteq Starts(s)
<1>1. ASSUME NEW n \in 0 .. Len(s)
      PROVE  /\ SubSeq(s, 1, n) \in Seq(X) /\ Len(SubSeq(s, 1, n)) = n
             /\ \A i \in 1 .. n : SubSeq(s, 1, n)[i] = s[i]
  OBVIOUS
<1>2. SubSeq(s, 1, Len(s)) = s /\ Len(s) \in 0 .. Len(s)
  <2>1. Len(s) \in 0 .. Len(s)
    OBVIOUS
  <2> QED
    BY <1>1, <2>1, SeqEqual
<1>3. ASSUME NEW n \in 0 .. Len(s), NEW m \in 0 .. n
      PROVE  SubSeq(SubSeq(s, 1, n), 1, m) = SubSeq(s, 1, m)
  <2>1. PICK u \in Seq(X) : u = SubSeq(s, 1, n) /\ Len(u) = n /\ \A i \in 1 .. n : u[i] = s[i]
    BY <1>1
  <2>2. /\ SubSeq(u, 1, m) \in Seq(X) /\ Len(SubSeq(u, 1, m)) = m
        /\ \A i \in 1 .. m : SubSeq(u, 1, m)[i] = u[i]
    BY <2>1
  <2>3. /\ SubSeq(s, 1, m) \in Seq(X) /\ Len(SubSeq(s, 1, m)) = m
        /\ \A i \in 1 .. m : SubSeq(s, 1, m)[i] = s[i] /\ u[i] = s[i]
    BY <1>1, <2>1
  <2> QED
    BY <2>1, <2>2, <2>3, SeqEqual
<1>4. \A n \in 0 .. Len(s) : \A m \in 0 .. n : m \in 0 .. Len(s)
  OBVIOUS
<1>5. Starts(s) \subseteq Seq(X) /\ s \in Starts(s)
  BY <1>1, <1>2 DEF Starts
<1>6. ASSUME NEW u \in Starts(s), NEW v \in Starts(u) PROVE v \in Starts(s)
  <2>1. PICK n \in 0 .. Len(s) : u = SubSeq(s, 1, n)
    BY DEF Starts
  <2>2. Len(u) = n
    BY <1>1, <2>1
  <2>3. PICK m \in 0 .. n : v = SubSeq(u, 1, m)
    BY <2>2 DEF Starts
  <2>4. v = SubSeq(s, 1, m) /\ m \in 0 .. Len(s)
    BY <1>3, <1>4, <2>1, <2>3
  <2> QED
    BY <2>4 DEF Starts
<1> QED
  BY <1>5, <1>6

\* What the shell does with a command, and what it leaves of the others.
LEMMA ExecuteTurn ==
  ASSUME TIInv, Execute
  PROVE  TIInv'
<1> USE DEF TIInv
<1> DEFINE c == Head(typed)
<1>1. /\ typed # <<>> /\ typed' = Tail(typed)
      /\ Effect(c) \/ Fails(c) \/ FailsSilently(c)
      /\ result' \in {"ok", "failed", result}
      /\ UNCHANGED <<request, answers, todo, chain, flight>>
  BY DEF Execute, Reply, askVars
<1>2. c \in Commands /\ typed' \in Seq(Commands)
  BY <1>1, Typed, HeadTailProperties
<1>3. /\ staging \in Seq(Texts \X Nat) /\ decoded \in Seq(Texts \X Nat)
      /\ target \in Seq(Texts \X Nat) \cup {Original} /\ faults \subseteq {"decode", "copy"}
  BY DEF TypeOK
<1>4. c.op = "append" => c.piece \in Texts \X Nat
  BY <1>2 DEF Commands, CALLS
<1> HIDE DEF c
<1>5. /\ staging' \in Seq(Texts \X Nat) /\ decoded' \in Seq(Texts \X Nat)
      /\ target' \in Seq(Texts \X Nat) \cup {Original} /\ faults' \subseteq {"decode", "copy"}
  <2>1. Starts(staging) \subseteq Seq(Texts \X Nat) /\ Starts(decoded) \subseteq Seq(Texts \X Nat)
    BY <1>3, StartsAre
  <2>2. c.op = "append" => Append(staging, c.piece) \in Seq(Texts \X Nat)
    BY <1>3, <1>4, AppendProperties
  <2>3. CASE Effect(c)
    <3>1. /\ staging' \in {<<>>, staging} \/ (c.op = "append" /\ staging' = Append(staging, c.piece))
          /\ decoded' \in {staging, decoded} /\ target' \in {target, decoded} /\ faults' \subseteq faults
      BY <2>3 DEF Effect, fileVars
    <3>2. <<>> \in Seq(Texts \X Nat)
      OBVIOUS
    <3> QED
      BY <1>3, <2>2, <3>1, <3>2
  <2>4. CASE Fails(c)
    BY <1>3, <2>1, <2>2, <2>4 DEF Fails, fileVars
  <2>5. CASE FailsSilently(c)
    BY <1>3, <2>1, <2>5 DEF FailsSilently
  <2> QED
    BY <1>1, <2>3, <2>4, <2>5
<1>6. TypeOK'
  BY <1>1, <1>2, <1>5 DEF TypeOK
<1>7. TurnInv'
  BY <1>1 DEF TurnInv, OnItsWay, Busy, At
<1> QED
  BY <1>6, <1>7

\* The two ways in which a command that came back goes on, and the one in which it did not.
LEMMA ResolveTurn ==
  ASSUME TIInv, Resolve
  PROVE  TIInv'
<1>1. PICK r : r = flight.by
  OBVIOUS
<1>2. flight # None /\ flight' = None /\ result' = "none" /\ UNCHANGED <<request, typed, staging, decoded, target, faults>>
  BY DEF Resolve, fileVars
<1>3. (\E how \in {"value", "failed"} : Answer(r, how)) \/ (Len(todo[r]) > 1 /\ NextCommand(r))
  BY <1>1 DEF Resolve
<1> QED
  BY <1>1, <1>2, <1>3, AnswerTurn, NextCommandTurn

LEMMA ExpireTurn ==
  ASSUME TIInv, Expire
  PROVE  TIInv'
<1>1. PICK r : r = flight.by
  OBVIOUS
<1> QED
  BY <1>1, AnswerTurn DEF Expire, fileVars

LEMMA StutterTurn ==
  ASSUME TIInv, UNCHANGED vars
  PROVE  TIInv'
BY DEF TIInv, TypeOK, TurnInv, OnItsWay, Busy, At, vars, askVars, guestVars, fileVars

LEMMA NextTurn ==
  ASSUME TIInv, [Next]_vars
  PROVE  TIInv'
BY HandleTurn, HandleUnknownTurn, SendTurn, ResolveTurn, ExpireTurn, ExecuteTurn, StutterTurn DEF Next

\* Every variable of Host keeps its type, with any number of writers.
THEOREM HostTyped == Spec => []TypeOK
<1>1. TIInv => TypeOK
  BY DEF TIInv
<1> QED
  BY InitTurn, NextTurn, <1>1, PTL DEF Spec

\* A request of the worker or the page is answered at most once, and when it is nothing of it is
\* left on Guest.queue, whatever fails, expires or comes late (handle and write of host.js).
THEOREM AnsweredOnce == Spec => []AnswersOnce
<1>1. TIInv => AnswersOnce
  <2> SUFFICES ASSUME TIInv PROVE AnswersOnce
    OBVIOUS
  <2>1. DOMAIN chain = 1 .. Len(chain)
    BY Typed DEF TIInv
  <2> QED
    BY <2>1 DEF TIInv, TurnInv, AnswersOnce, OnItsWay
<1> QED
  BY InitTurn, NextTurn, <1>1, PTL DEF Spec

-----------------------------------------------------------------------------
(* What the commands of a write find, and leave.                           *)

\* The command on its way is the one of the script that is next.
LEMMA OnItsWayIsNext ==
  ASSUME TIInv, NEW e \in Entries, OnItsWay(e), NEW r, r = e.by
  PROVE  /\ r \in Requesters /\ request[r] \in Requests /\ At(r) \in Nat /\ At(r) >= 1
         /\ e.cmd.op \in WriteOps => r \in Writers /\ request[r].call = "write"
         /\ request[r].call = "write" =>
              /\ request[r].text \in Texts /\ PieceCount[request[r].text] \in Nat
              /\ Len(todo[r]) = PieceCount[request[r].text] + 4 - At(r)
              /\ At(r) \in 1 .. PieceCount[request[r].text] + 3
              /\ At(r) = 1 => e.cmd.op = "clear"
              /\ At(r) \in 2 .. PieceCount[request[r].text] + 1 =>
                   e.cmd.op = "append" /\ e.cmd.piece = <<request[r].text, At(r) - 1>>
              /\ At(r) = PieceCount[request[r].text] + 2 => e.cmd.op = "decode"
              /\ At(r) = PieceCount[request[r].text] + 3 => e.cmd.op = "copy"
<1>1. r \in Requesters
  BY DEF Entries
<1>2. /\ Busy(r) /\ todo[r] # <<>> /\ e.cmd = todo[r][1]
      /\ request[r] \in Requests /\ todo[r] \in Seq(Commands)
  BY <1>1, Typed DEF OnItsWay, TIInv, Busy
<1>3. /\ request[r].call \in CALLS
      /\ request[r].call = "write" => r \in Writers
      /\ Len(todo[r]) <= Len(Script(request[r]))
      /\ \A i \in 1 .. Len(todo[r]) : todo[r][i] = Script(request[r])[At(r) + i - 1]
  BY <1>1, <1>2, NoneAssumption DEF TIInv, TurnInv
<1>4. PICK s : s = Script(request[r])
  OBVIOUS
<1>5. s \in Seq(Commands) /\ Len(s) \in Nat
  BY <1>2, <1>3, <1>4, ScriptFacts
<1>6. Len(todo[r]) \in Nat /\ Len(todo[r]) >= 1
  BY <1>2
<1>7. At(r) = Len(s) - Len(todo[r]) + 1 /\ At(r) \in Nat /\ At(r) >= 1 /\ At(r) <= Len(s)
  BY <1>3, <1>4, <1>5, <1>6 DEF At
<1>8. e.cmd = s[At(r)]
  <2>1. PICK k \in Nat : k = At(r)
    BY <1>7
  <2>2. todo[r][1] = s[k + 1 - 1]
    BY <1>3, <1>4, <1>6, <2>1
  <2>3. k + 1 - 1 = k
    OBVIOUS
  <2> QED
    BY <1>2, <2>1, <2>2, <2>3
<1>9. CASE request[r].call # "write"
  <2>1. Len(s) = 1 /\ s[1] = Op(request[r].call)
    BY <1>2, <1>3, <1>4, <1>9, ScriptFacts
  <2>2. e.cmd.op = request[r].call
    BY <1>7, <1>8, <2>1 DEF Op
  <2>3. e.cmd.op \notin WriteOps
    BY <1>3, <2>2 DEF WriteOps, CALLS
  <2> QED
    BY <1>1, <1>2, <1>7, <1>9, <2>3
<1>10. CASE request[r].call = "write"
  <2>1. PICK t \in Texts : t = request[r].text
    BY <1>2, <1>3, <1>10, ScriptFacts
  <2>2. s = writeCommands(t)
    BY <1>2, <1>3, <1>4, <1>10, <2>1, ScriptFacts
  <2>3. PICK n : n = PieceCount[t]
    OBVIOUS
  <2>4. /\ n \in Nat /\ Len(s) = n + 3 /\ s[1].op = "clear"
        /\ \A k \in 2 .. n + 1 : s[k].op = "append" /\ s[k].piece = <<t, k - 1>>
        /\ s[n + 2].op = "decode" /\ s[n + 3].op = "copy"
    BY <2>2, <2>3, WriteScript
  <2>5. PICK k \in Nat : k = At(r) /\ k >= 1 /\ k <= Len(s) /\ k = Len(s) - Len(todo[r]) + 1 /\ e.cmd = s[k]
    BY <1>7, <1>8
  <2>6. k \in 1 .. n + 3 /\ Len(todo[r]) = n + 4 - k
    <3>1. PICK m \in Nat : m = Len(todo[r])
      BY <1>6
    <3>2. Len(s) = n + 3 /\ n \in Nat
      BY <2>4
    <3>3. k = (n + 3) - m + 1 /\ k >= 1 /\ k <= n + 3
      BY <2>5, <3>1, <3>2
    <3>4. m = n + 4 - k /\ k \in 1 .. n + 3
      BY <3>2, <3>3
    <3> QED
      BY <3>1, <3>4
  <2>7. /\ k = 1 => e.cmd.op = "clear"
        /\ k \in 2 .. n + 1 => e.cmd.op = "append" /\ e.cmd.piece = <<t, k - 1>>
        /\ k = n + 2 => e.cmd.op = "decode"
        /\ k = n + 3 => e.cmd.op = "copy"
    BY <2>4, <2>5, <2>6
  <2> QED
    BY <1>1, <1>2, <1>3, <1>7, <1>10, <2>1, <2>3, <2>4, <2>5, <2>6, <2>7, ZenonT(60)
<1> QED
  BY <1>9, <1>10

\* A piece appended to the pieces before it.
LEMMA PieceAppended ==
  ASSUME NEW t, NEW n \in Nat
  PROVE  Append(Pieces(t, n), <<t, n + 1>>) = Pieces(t, n + 1)
<1>1. /\ Pieces(t, n) \in Seq({t} \X Nat) /\ Len(Pieces(t, n)) = n
      /\ \A i \in 1 .. n : Pieces(t, n)[i] = <<t, i>>
  BY DEF Pieces
<1>2. /\ Pieces(t, n + 1) \in Seq({t} \X Nat) /\ Len(Pieces(t, n + 1)) = n + 1
      /\ \A i \in 1 .. n + 1 : Pieces(t, n + 1)[i] = <<t, i>>
  BY DEF Pieces
<1>3. PICK s : s = Append(Pieces(t, n), <<t, n + 1>>)
  OBVIOUS
<1>4. <<t, n + 1>> \in {t} \X Nat
  OBVIOUS
<1>5. /\ s \in Seq({t} \X Nat) /\ Len(s) = n + 1
      /\ \A i \in 1 .. n : s[i] = Pieces(t, n)[i]
      /\ s[n + 1] = <<t, n + 1>>
  BY <1>1, <1>3, <1>4, AppendProperties
<1>6. ASSUME NEW i \in 1 .. n + 1 PROVE s[i] = Pieces(t, n + 1)[i]
  <2>1. Pieces(t, n + 1)[i] = <<t, i>>
    BY <1>2
  <2>2. CASE i = n + 1
    BY <1>5, <2>1, <2>2
  <2>3. CASE i # n + 1
    <3>1. i \in 1 .. n
      BY <2>3
    <3>2. s[i] = Pieces(t, n)[i] /\ Pieces(t, n)[i] = <<t, i>>
      BY <1>1, <1>5, <3>1
    <3> QED
      BY <2>1, <3>2
  <2> QED
    BY <2>2, <2>3
<1>7. s = Pieces(t, n + 1)
  BY <1>2, <1>5, <1>6, SeqEqual
<1> QED
  BY <1>3, <1>7

\* A text's pieces, in order, and what there is of it when it was cut short.
LEMMA WholeIs ==
  ASSUME NEW t \in Texts
  PROVE  /\ Whole(t) \in Seq(Texts \X Nat) /\ Whole(t) = Pieces(t, PieceCount[t])
         /\ Whole(t) \in Starts(Whole(t))
         /\ \A u \in Starts(Whole(t)) : Starts(u) \subseteq Starts(Whole(t))
<1>1. Whole(t) \in Seq(Texts \X Nat)
  <2>1. PICK n \in Nat : n = PieceCount[t]
    BY HostAssumption
  <2>2. \A i \in 1 .. n : <<t, i>> \in Texts \X Nat
    OBVIOUS
  <2> QED
    BY <2>1, <2>2 DEF Whole
<1> QED
  BY <1>1, StartsAre DEF Whole, Pieces

LEMMA InitFiles == Init => FIInv
<1> SUFFICES ASSUME Init PROVE FIInv
  OBVIOUS
<1>1. ResultInv /\ InputInv
  BY DEF Init, ResultInv, InputInv
<1>2. WriteInv
  BY HostAssumption DEF Init, WriteInv, WriteOf
<1>3. TargetWhole
  BY DEF Init, TargetWhole
<1> QED
  BY <1>1, <1>2, <1>3, InitTurn DEF FIInv

\* Nothing but the requests and the chain changes.
LEMMA FilesStay ==
  ASSUME FIInv, UNCHANGED <<flight, result, typed, fileVars>>
  PROVE  ResultInv' /\ InputInv' /\ TargetWhole'
BY DEF FIInv, ResultInv, InputInv, TargetWhole, Decoded, fileVars

LEMMA HandleFiles ==
  ASSUME FIInv, OneWriter, NEW r \in Requesters, NEW q \in Requests, Handle(r, q)
  PROVE  FIInv'
<1> USE DEF FIInv
<1>1. TIInv'
  BY HandleTurn
<1>2. ResultInv' /\ InputInv' /\ TargetWhole'
  BY FilesStay DEF Handle
<1>3. /\ ~Busy(r) /\ q.call \in CALLS
      /\ request' = [request EXCEPT ![r] = q]
      /\ answers' = [answers EXCEPT ![r] = <<>>]
      /\ todo' = [todo EXCEPT ![r] = Script(q)]
      /\ chain' = Append(chain, [by |-> r, cmd |-> Head(Script(q))])
      /\ UNCHANGED <<flight, result, typed, staging, decoded, target, faults>>
  BY DEF Handle, fileVars
<1>4. /\ request'[r] = q /\ answers'[r] = <<>> /\ todo'[r] = Script(q)
      /\ \A b \in Requesters \ {r} : request'[b] = request[b] /\ answers'[b] = answers[b] /\ todo'[b] = todo[b]
  BY <1>3, Typed DEF TIInv
<1>5. \A b : Chained(b)' => Chained(b) \/ b = r
  <2>1. \A i \in 1 .. Len(chain') : chain'[i].by = r \/ (i \in 1 .. Len(chain) /\ chain'[i] = chain[i])
    <3>1. chain \in Seq(Entries) /\ Script(q) # <<>> /\ Head(Script(q)) \in Commands
      BY <1>3, Typed, ScriptFacts DEF TIInv
    <3>2. PICK e \in Entries : e = [by |-> r, cmd |-> Head(Script(q))]
      BY <3>1 DEF Entries
    <3> QED
      BY <1>3, <3>1, <3>2, AppendProperties
  <2> QED
    BY <2>1 DEF Chained
<1>6. \A t, k : Progress(t, k)' <=> Progress(t, k)
  BY <1>3 DEF Progress, Decoded, Landed
<1>7. NoWriteTyped' <=> NoWriteTyped
  BY <1>3 DEF NoWriteTyped
<1>8. ASSUME NEW w \in Writers PROVE WriteOf(w)'
  <2>1. w \in Requesters
    BY HostAssumption
  <2>2. CASE w = r
    <3> SUFFICES ASSUME q.call = "write" PROVE WriteOf(w)'
      BY <1>4, <2>2 DEF WriteOf
    <3>1. ~Flying(w)'
      BY <1>3, <2>2 DEF Flying, TIInv, TurnInv, OnItsWay
    <3>2. q.text \in Texts /\ PieceCount[q.text] \in Nat /\ Len(Script(q)) \in Nat
      BY <1>3, ScriptFacts, HostAssumption
    <3>3. At(w)' = 1
      BY <1>4, <2>2, <3>2 DEF At
    <3>4. Progress(q.text, 1)
      BY <3>2 DEF Progress
    <3>5. answers'[w] # <<"value">>
      <4>1. <<>> # <<"value">>
        OBVIOUS
      <4> QED
        BY <1>4, <2>2, <4>1
    <3> QED
      BY <1>4, <1>6, <2>2, <3>1, <3>3, <3>4, <3>5 DEF WriteOf
  <2>3. CASE w # r
    <3>1. (Busy(w)' <=> Busy(w)) /\ At(w)' = At(w) /\ (Flying(w)' <=> Flying(w)) /\ (Chained(w)' => Chained(w))
      BY <1>3, <1>4, <1>5, <2>1, <2>3 DEF Busy, At, Flying
    <3>2. WriteOf(w)
      BY DEF WriteInv
    <3> QED
      BY <1>3, <1>4, <1>6, <1>7, <2>1, <2>3, <3>1, <3>2 DEF WriteOf, Landed
  <2> QED
    BY <2>2, <2>3
<1>9. WriteInv'
  BY <1>8 DEF WriteInv
<1> QED
  BY <1>1, <1>2, <1>9

\* A command of somebody else is not one of a write when this writer is the only one.
LEMMA OnlyTheWriterWrites ==
  ASSUME TIInv, OneWriter, NEW e \in Entries, OnItsWay(e), NEW w \in Writers, e.by # w
  PROVE  e.cmd.op \notin WriteOps
BY OnItsWayIsNext DEF OneWriter

LEMMA SendFiles ==
  ASSUME FIInv, OneWriter, Send
  PROVE  FIInv'
<1> USE DEF FIInv
<1>1. TIInv'
  BY SendTurn
<1>2. PICK e : e = chain[1]
  OBVIOUS
<1>3. /\ flight = None /\ chain # <<>>
      /\ UNCHANGED <<request, answers, todo, result, staging, decoded, target, faults>>
  BY DEF Send, askVars, fileVars
<1>4. /\ e \in Entries /\ 1 \in 1 .. Len(chain) /\ flight' = e /\ typed' = Append(typed, e.cmd)
      /\ \A i \in 1 .. Len(chain') : i + 1 \in 2 .. Len(chain) /\ chain'[i] = chain[i + 1]
  BY <1>2, <1>3, Typed, HeadTailProperties DEF Send, TIInv
<1>5. OnItsWay(e) /\ (\A i \in 2 .. Len(chain) : chain[i].by # e.by) /\ Chained(e.by) /\ Busy(e.by)
  BY <1>2, <1>4 DEF TIInv, TurnInv, Chained, OnItsWay
<1>6. e.cmd \in Commands /\ typed \in Seq(Commands)
  BY <1>4, Typed DEF TIInv, Entries
<1>7. /\ typed' \in Seq(Commands) /\ typed' # <<>> /\ Len(typed') = Len(typed) + 1 /\ Len(typed) \in Nat
      /\ \A i \in 1 .. Len(typed) : typed'[i] = typed[i]
      /\ typed'[Len(typed) + 1] = e.cmd
      /\ 1 .. Len(typed') = 1 .. Len(typed) \cup {Len(typed) + 1}
  BY <1>4, <1>6, AppendProperties
<1>8. e # None /\ result = "none"
  BY <1>3, <1>4, NoneAssumption DEF ResultInv, Entries
<1>9. ResultInv'
  BY <1>3, <1>4, <1>7, <1>8 DEF ResultInv
<1>10. \A t, k : Progress(t, k)' <=> Progress(t, k)
  BY <1>3 DEF Progress, Decoded, Landed
<1>11. ASSUME e.cmd.op \in WriteOps \ {"clear"}
       PROVE  NoWriteTyped /\ (e.cmd.op = "copy" => \E t \in Texts : Decoded(t))
  <2>1. PICK r \in Writers : r = e.by /\ request[r].call = "write" /\ request[r] \in Requests
    BY <1>4, <1>5, <1>11, OnItsWayIsNext
  <2>2. PICK t \in Texts : t = request[r].text
    BY <1>4, <1>5, <2>1, OnItsWayIsNext
  <2>3. PICK n \in Nat : n = PieceCount[t]
    BY HostAssumption
  <2>4. PICK k \in Nat : k = At(r)
    BY <1>4, <1>5, <2>1, OnItsWayIsNext
  <2>5. /\ k \in 1 .. n + 3
        /\ k = 1 => e.cmd.op = "clear"
        /\ k \in 2 .. n + 1 => e.cmd.op = "append"
        /\ k = n + 2 => e.cmd.op = "decode"
        /\ k = n + 3 => e.cmd.op = "copy"
    BY <1>4, <1>5, <2>1, <2>2, <2>3, <2>4, OnItsWayIsNext
  <2>6. k > 1
    BY <1>11, <2>5
  <2>7. Progress(t, k) /\ NoWriteTyped
    BY <1>5, <2>1, <2>2, <2>4, <2>6, NoneAssumption DEF WriteInv, WriteOf
  <2>8. e.cmd.op = "copy" => k = n + 3
    BY <2>5
  <2> QED
    BY <2>3, <2>7, <2>8 DEF Progress
<1>12. InputInv'
  <2> SUFFICES ASSUME NEW i \in 1 .. Len(typed'), typed'[i].op \in WriteOps \ {"clear"}
               PROVE  /\ \A j \in 1 .. (i - 1) : typed'[j].op \notin WriteOps
                      /\ typed'[i].op = "copy" => \E t \in Texts : Decoded(t)'
    BY DEF InputInv
  <2>1. CASE i \in 1 .. Len(typed)
    <3>1. \A j \in 1 .. (i - 1) : j \in 1 .. Len(typed)
      BY <1>7, <2>1
    <3>2. typed[i].op \in WriteOps \ {"clear"}
      BY <1>7, <2>1
    <3> QED
      BY <1>3, <1>7, <2>1, <3>1, <3>2 DEF InputInv, Decoded
  <2>2. CASE i = Len(typed) + 1
    <3>1. \A j \in 1 .. (i - 1) : j \in 1 .. Len(typed)
      BY <1>7, <2>2
    <3> QED
      BY <1>3, <1>7, <1>11, <2>2, <3>1 DEF NoWriteTyped, Decoded
  <2> QED
    BY <1>7, <2>1, <2>2
<1>13. ASSUME NEW w \in Writers PROVE WriteOf(w)'
  <2>1. (Busy(w)' <=> Busy(w)) /\ At(w)' = At(w)
    BY <1>3 DEF Busy, At
  <2>2. Chained(w)' => Chained(w) /\ w # e.by
    BY <1>4, <1>5 DEF Chained
  <2>3. Flying(w)' => w = e.by /\ Chained(w)
    BY <1>4, <1>5 DEF Flying
  <2>4. w # e.by /\ NoWriteTyped => NoWriteTyped'
    BY <1>4, <1>5, <1>7, OnlyTheWriterWrites DEF NoWriteTyped
  <2>5. answers[w] = <<"value">> => w # e.by
    <3>1. <<>> # <<"value">>
      OBVIOUS
    <3> QED
      BY <1>5, <3>1 DEF Busy
  <2>6. WriteOf(w)
    BY DEF WriteInv
  <2> QED
    BY <1>3, <1>8, <1>10, <2>1, <2>2, <2>3, <2>4, <2>5, <2>6 DEF WriteOf, Landed
<1>14. TargetWhole'
  BY <1>3 DEF TargetWhole
<1> QED
  BY <1>1, <1>9, <1>12, <1>13, <1>14 DEF WriteInv

\* A request that ends: what it wrote is there when it ends well.
LEMMA AnswerFiles ==
  ASSUME FIInv, flight # None, NEW r, r = flight.by, NEW how \in {"value", "failed"}, Answer(r, how),
         how = "value" /\ request[r].call = "write" =>
            typed = <<>> /\ Landed(request[r].text),
         flight' = None, result' = "none", UNCHANGED <<request, typed, staging, decoded, target, faults>>
  PROVE  FIInv'
<1> USE DEF FIInv
<1>1. /\ TIInv' /\ ~Busy(r)' /\ answers'[r] = <<how>>
      /\ \A b \in Requesters \ {r} : answers'[b] = answers[b] /\ todo'[b] = todo[b]
  BY AnswerTurn
<1>2. ResultInv' /\ InputInv' /\ TargetWhole'
  BY DEF ResultInv, InputInv, TargetWhole, Decoded
<1>3. \A t, k : Progress(t, k)' <=> Progress(t, k)
  BY DEF Progress, Decoded, Landed
<1>4. NoWriteTyped' <=> NoWriteTyped
  BY DEF NoWriteTyped
<1>5. chain' = chain
  BY DEF Answer
<1>6. \A t : Landed(t)' <=> Landed(t)
  BY DEF Landed
<1>7. ASSUME NEW w \in Writers PROVE WriteOf(w)'
  <2>1. w \in Requesters /\ ~Flying(w)'
    BY HostAssumption DEF Flying
  <2>2. CASE w = r
    <3>1. answers'[w] = <<"value">> => how = "value"
      BY <1>1, <2>2
    <3>2. typed = <<>> => NoWriteTyped
      BY DEF NoWriteTyped
    <3> QED
      BY <1>1, <1>4, <1>6, <2>1, <2>2, <3>1, <3>2 DEF WriteOf
  <2>3. CASE w # r
    <3>1. (Busy(w)' <=> Busy(w)) /\ At(w)' = At(w) /\ (Chained(w)' <=> Chained(w)) /\ answers'[w] = answers[w]
      BY <1>1, <1>5, <2>1, <2>3 DEF Busy, At, Chained
    <3>2. WriteOf(w)
      BY DEF WriteInv
    <3> QED
      BY <1>3, <1>4, <1>6, <2>1, <3>1, <3>2 DEF WriteOf
  <2> QED
    BY <2>2, <2>3
<1> QED
  BY <1>1, <1>2, <1>7 DEF WriteInv

LEMMA ResolveFiles ==
  ASSUME FIInv, OneWriter, Resolve
  PROVE  FIInv'
<1> USE DEF FIInv
<1>1. PICK r : r = flight.by
  OBVIOUS
<1>2. /\ flight # None /\ flight' = None /\ result # "none" /\ result' = "none"
      /\ UNCHANGED <<request, typed, staging, decoded, target, faults>>
  BY DEF Resolve, fileVars
<1>3. typed = <<>> /\ NoWriteTyped /\ result \in {"ok", "failed"}
  BY <1>2 DEF ResultInv, NoWriteTyped, TIInv, TypeOK
<1>4. flight \in Entries /\ OnItsWay(flight) /\ Busy(r) /\ Flying(r) /\ r \in Requesters
  BY <1>1, <1>2, Typed DEF TIInv, TurnInv, OnItsWay, Flying
<1>5. ASSUME request[r].call = "write", ~(result = "failed" /\ Insists(r))
      PROVE  r \in Writers /\ Progress(request[r].text, At(r) + 1)
  <2>1. result = "ok"
    BY <1>3, <1>5 DEF Insists
  <2>2. r \in Writers /\ request[r] \in Requests
    BY <1>1, <1>4, <1>5, OnItsWayIsNext DEF TIInv, TurnInv, Busy
  <2> QED
    BY <1>4, <1>5, <2>1, <2>2, NoneAssumption DEF WriteInv, WriteOf
<1>6. CASE result = "failed" /\ Insists(r) /\ Answer(r, "failed")
  BY <1>1, <1>2, <1>6, AnswerFiles
<1>7. CASE ~(result = "failed" /\ Insists(r)) /\ Len(todo[r]) = 1 /\ Answer(r, "value")
  <2>1. request[r].call = "write" => Landed(request[r].text)
    <3> SUFFICES ASSUME request[r].call = "write" PROVE Landed(request[r].text)
      OBVIOUS
    <3>1. PICK t \in Texts : t = request[r].text
      BY <1>1, <1>4, OnItsWayIsNext
    <3>2. PICK n \in Nat : n = PieceCount[t]
      BY HostAssumption
    <3>3. PICK k \in Nat : k = At(r)
      BY <1>1, <1>4, OnItsWayIsNext
    <3>4. 1 = n + 4 - k
      BY <1>1, <1>4, <1>7, <3>1, <3>2, <3>3, OnItsWayIsNext
    <3>5. k + 1 = n + 4 /\ Progress(t, k + 1)
      BY <1>5, <1>7, <3>1, <3>3, <3>4
    <3> QED
      BY <3>1, <3>2, <3>5 DEF Progress
  <2> QED
    BY <1>1, <1>2, <1>3, <1>7, <2>1, AnswerFiles
<1>8. CASE ~(result = "failed" /\ Insists(r)) /\ Len(todo[r]) > 1 /\ NextCommand(r)
  <2>1. /\ TIInv' /\ answers' = answers /\ At(r)' = At(r) + 1
        /\ \A b \in Requesters \ {r} : todo'[b] = todo[b]
        /\ \A i \in 1 .. Len(chain') : chain'[i].by = r \/ (i \in 1 .. Len(chain) /\ chain'[i] = chain[i])
    BY <1>1, <1>2, <1>8, NextCommandTurn
  <2>2. ResultInv' /\ InputInv' /\ TargetWhole'
    BY <1>2 DEF ResultInv, InputInv, TargetWhole, Decoded
  <2>3. \A t, k : Progress(t, k)' <=> Progress(t, k)
    BY <1>2 DEF Progress, Decoded, Landed
  <2>4. NoWriteTyped'
    BY <1>2, <1>3 DEF NoWriteTyped
  <2>5. ASSUME NEW w \in Writers PROVE WriteOf(w)'
    <3>1. w \in Requesters /\ ~Flying(w)' /\ (Busy(w)' <=> Busy(w)) /\ WriteOf(w)
      BY <1>2, <2>1, HostAssumption DEF Flying, Busy, WriteInv
    <3>2. CASE w = r
      <4>1. answers'[w] # <<"value">>
        <5>1. <<>> # <<"value">>
          OBVIOUS
        <5> QED
          BY <1>4, <2>1, <3>2, <5>1 DEF Busy
      <4> QED
        BY <1>2, <1>5, <1>8, <2>1, <2>3, <2>4, <3>1, <3>2, <4>1 DEF WriteOf, Landed
    <3>3. CASE w # r
      <4>1. At(w)' = At(w) /\ (Chained(w)' => Chained(w))
        BY <1>2, <2>1, <3>1, <3>3 DEF At, Chained
      <4> QED
        BY <1>2, <2>1, <2>3, <2>4, <3>1, <4>1 DEF WriteOf, Landed
    <3> QED
      BY <3>2, <3>3
  <2> QED
    BY <2>1, <2>2, <2>5 DEF WriteInv
<1> QED
  BY <1>1, <1>6, <1>7, <1>8 DEF Resolve

LEMMA ExpireFiles ==
  ASSUME FIInv, Expire
  PROVE  FIInv'
<1>1. PICK r : r = flight.by
  OBVIOUS
<1> QED
  BY <1>1, AnswerFiles DEF Expire, fileVars

LEMMA HandleUnknownFiles ==
  ASSUME FIInv, NEW r \in Requesters, NEW q \in Requests, HandleUnknown(r, q)
  PROVE  FIInv'
<1> USE DEF FIInv
<1>1. TIInv'
  BY HandleUnknownTurn
<1>2. ResultInv' /\ InputInv' /\ TargetWhole'
  BY FilesStay DEF HandleUnknown, guestVars
<1>3. /\ q.call \notin CALLS
      /\ request' = [request EXCEPT ![r] = q]
      /\ answers' = [answers EXCEPT ![r] = <<"failed">>]
      /\ UNCHANGED <<todo, chain, flight, result, typed, staging, decoded, target, faults>>
  BY DEF HandleUnknown, fileVars, guestVars
<1>4. /\ request'[r] = q
      /\ \A b \in Requesters \ {r} : request'[b] = request[b] /\ answers'[b] = answers[b]
  BY <1>3, Typed DEF TIInv
<1>5. (\A t, k : Progress(t, k)' <=> Progress(t, k)) /\ (NoWriteTyped' <=> NoWriteTyped)
  BY <1>3 DEF Progress, Decoded, Landed, NoWriteTyped
<1>6. ASSUME NEW w \in Writers PROVE WriteOf(w)'
  <2>1. w \in Requesters /\ WriteOf(w)
    BY HostAssumption DEF WriteInv
  <2>2. CASE w = r
    BY <1>3, <1>4, <2>2 DEF WriteOf, CALLS, Landed
  <2>3. CASE w # r
    <3>1. (Busy(w)' <=> Busy(w)) /\ At(w)' = At(w) /\ (Flying(w)' <=> Flying(w)) /\ (Chained(w)' <=> Chained(w))
      BY <1>3, <1>4, <2>1, <2>3 DEF Busy, At, Flying, Chained
    <3> QED
      BY <1>3, <1>4, <1>5, <2>1, <2>3, <3>1 DEF WriteOf, Landed
  <2> QED
    BY <2>2, <2>3
<1> QED
  BY <1>1, <1>2, <1>6 DEF WriteInv

\* The shell runs the oldest command: if it is not part of a write nothing of the files changes;
\* if it is, the files are as its write left them and nothing else is on its way to them.
LEMMA ExecuteFiles ==
  ASSUME FIInv, Execute
  PROVE  FIInv'
<1> USE DEF FIInv
<1>1. TIInv'
  BY ExecuteTurn
<1>2. PICK c : c = typed[1]
  OBVIOUS
<1>3. /\ typed # <<>> /\ result = "none"
      /\ UNCHANGED <<request, answers, todo, chain, flight>>
  BY DEF Execute, askVars, ResultInv
<1>4. /\ typed \in Seq(Commands) /\ Len(typed) \in Nat /\ Len(typed) >= 1 /\ 1 \in 1 .. Len(typed)
      /\ Len(typed') = Len(typed) - 1 /\ Head(typed) = c /\ c \in Commands
      /\ \A i \in 1 .. Len(typed') : i + 1 \in 2 .. Len(typed) /\ typed'[i] = typed[i + 1]
  BY <1>2, <1>3, Typed, HeadTailProperties DEF Execute, TIInv
<1>5. \/ Effect(c) /\ result' = (IF Len(typed) = 1 /\ flight # None THEN "ok" ELSE "none")
      \/ Fails(c) /\ result' = (IF Len(typed) = 1 /\ flight # None THEN "failed" ELSE "none")
      \/ FailsSilently(c) /\ result' = (IF Len(typed) = 1 /\ flight # None THEN "ok" ELSE "none")
  BY <1>3, <1>4 DEF Execute, Reply
<1>6. c.op \notin WriteOps => UNCHANGED <<staging, decoded, target, faults>>
  BY <1>5 DEF Effect, Fails, FailsSilently, WriteOps, fileVars
<1>7. typed' = <<>> <=> Len(typed) = 1
  <2>1. typed' \in Seq(Commands)
    BY <1>1 DEF TIInv, TypeOK
  <2> QED
    BY <1>4, <2>1
<1>8. ResultInv'
  <2>1. typed' # <<>> => typed'[Len(typed')] = typed[Len(typed)]
    <3> SUFFICES ASSUME typed' # <<>> PROVE typed'[Len(typed')] = typed[Len(typed)]
      OBVIOUS
    <3>1. Len(typed') \in 1 .. Len(typed') /\ Len(typed') + 1 = Len(typed)
      BY <1>4, <1>7
    <3> QED
      BY <1>4, <3>1
  <2>2. Len(typed) = 1 \/ result' = "none"
    BY <1>5
  <2>3. flight = None => result' = "none"
    BY <1>5
  <2>4. flight # None /\ result' = "none" => typed' # <<>>
    BY <1>5, <1>7
  <2>5. flight # None => typed[Len(typed)] = flight.cmd
    BY <1>3 DEF ResultInv
  <2> QED
    BY <1>3, <1>7, <2>1, <2>2, <2>3, <2>4, <2>5 DEF ResultInv
<1>9. InputInv'
  <2> SUFFICES ASSUME NEW i \in 1 .. Len(typed'), typed'[i].op \in WriteOps \ {"clear"}
               PROVE  /\ \A j \in 1 .. (i - 1) : typed'[j].op \notin WriteOps
                      /\ typed'[i].op = "copy" => \E t \in Texts : Decoded(t)'
    BY DEF InputInv
  <2>1. i \in Nat /\ i + 1 \in 1 .. Len(typed) /\ typed'[i] = typed[i + 1] /\ 1 \in 1 .. (i + 1 - 1)
    BY <1>4
  <2>2. /\ \A j \in 1 .. (i + 1 - 1) : typed[j].op \notin WriteOps
        /\ typed[i + 1].op = "copy" => \E t \in Texts : Decoded(t)
    BY <2>1 DEF InputInv
  <2>3. c.op \notin WriteOps
    BY <1>2, <2>1, <2>2
  <2>4. \A j \in 1 .. (i - 1) : j + 1 \in 1 .. (i + 1 - 1) /\ j \in 1 .. Len(typed')
    BY <1>4, <2>1
  <2> QED
    BY <1>4, <1>6, <2>1, <2>2, <2>3, <2>4 DEF Decoded
<1>10. TargetWhole'
  <2>1. CASE c.op # "copy"
    <3>1. target' = target /\ faults \subseteq faults'
      BY <1>5, <2>1 DEF Effect, Fails, FailsSilently, fileVars
    <3> QED
      BY <3>1 DEF TargetWhole
  <2>2. CASE c.op = "copy"
    <3>1. PICK t \in Texts : Decoded(t)
      BY <1>2, <1>4, <2>2 DEF InputInv, WriteOps
    <3>2. \/ target' = target /\ faults' = faults
          \/ target' = decoded /\ faults' = faults \ {"copy"}
          \/ target' \in Starts(decoded) /\ faults' = faults \cup {"copy"}
      BY <1>5, <2>2 DEF Effect, Fails, FailsSilently, fileVars, CALLS
    <3>3. decoded \in Starts(Whole(t)) /\ Starts(decoded) \subseteq Starts(Whole(t))
      BY <3>1, WholeIs DEF Decoded
    <3>4. target' \in {Original} \cup UNION {Starts(Whole(u)) : u \in Texts}
      BY <3>2, <3>3 DEF TargetWhole
    <3>5. faults' = {} => target' \in {Original} \cup {Whole(u) : u \in Texts}
      BY <3>1, <3>2 DEF TargetWhole, Decoded
    <3> QED
      BY <3>4, <3>5 DEF TargetWhole
  <2> QED
    BY <2>1, <2>2
<1>11. NoWriteTyped => NoWriteTyped' /\ c.op \notin WriteOps
  BY <1>2, <1>4 DEF NoWriteTyped
<1>12. ASSUME NEW w \in Writers PROVE WriteOf(w)'
  <2> SUFFICES ASSUME request[w] # None, request[w].call = "write" PROVE WriteOf(w)'
    BY <1>3 DEF WriteOf
  <2>1. w \in Requesters /\ request[w] \in Requests /\ WriteOf(w)
    BY HostAssumption, Typed DEF TIInv, WriteInv
  <2>2. PICK t : t = request[w].text
    OBVIOUS
  <2>3. PICK k : k = At(w)
    OBVIOUS
  <2>4. At(w)' = k /\ (Busy(w)' <=> Busy(w)) /\ (Chained(w)' <=> Chained(w)) /\ (Flying(w)' <=> Flying(w))
    BY <1>3, <2>3 DEF At, Busy, Chained, Flying
  <2>5. answers[w] = <<"value">> => Landed(t)' /\ NoWriteTyped'
    BY <1>6, <1>11, <2>1, <2>2 DEF WriteOf, Landed
  <2>6. \A e \in Entries : e.by = w /\ OnItsWay(e) =>
           /\ t \in Texts /\ k \in Nat /\ PieceCount[t] \in Nat /\ k >= 1
           /\ k \in 1 .. PieceCount[t] + 3
           /\ k = 1 => e.cmd.op = "clear"
           /\ k \in 2 .. PieceCount[t] + 1 => e.cmd.op = "append" /\ e.cmd.piece = <<t, k - 1>>
           /\ k = PieceCount[t] + 2 => e.cmd.op = "decode"
           /\ k = PieceCount[t] + 3 => e.cmd.op = "copy"
    BY <2>1, <2>2, <2>3, OnItsWayIsNext
  <2>7. ASSUME Chained(w)
        PROVE  Progress(t, k)' /\ (k > 1 => NoWriteTyped')
    <3>1. PICK e \in Entries : e.by = w /\ OnItsWay(e)
      BY <2>7, Typed DEF Chained, TIInv, TurnInv
    <3>2. Progress(t, k) /\ (k > 1 => NoWriteTyped)
      BY <2>1, <2>2, <2>3, <2>7, <3>1 DEF WriteOf, OnItsWay
    <3>3. PICK n \in Nat : n = PieceCount[t]
      BY <2>6, <3>1
    <3>4. k \in Nat /\ k >= 1
      BY <2>6, <3>1
    <3>5. CASE k = 1
      BY <3>3, <3>5 DEF Progress
    <3>6. CASE k > 1
      BY <1>6, <1>11, <3>2, <3>6 DEF Progress, Decoded, Landed
    <3> QED
      BY <3>4, <3>5, <3>6
  <2>8. ASSUME Flying(w)
        PROVE  /\ Busy(w) /\ Progress(t, k) /\ flight \in Entries /\ flight.by = w /\ OnItsWay(flight)
               /\ typed[Len(typed)] = flight.cmd
    <3>1. flight # None /\ flight.by = w /\ flight \in Entries /\ OnItsWay(flight) /\ Busy(w)
      BY <2>8, Typed DEF Flying, TIInv, TurnInv, OnItsWay
    <3> QED
      BY <1>3, <2>1, <2>2, <2>3, <2>8, <3>1 DEF WriteOf, ResultInv
  <2>9. ASSUME Flying(w), result' = "none"
        PROVE  Progress(t, k)'
    <3>1. PICK n \in Nat : n = PieceCount[t]
      BY <2>6, <2>8, <2>9
    <3>2. /\ k \in 1 .. n + 3 /\ k = 1 => flight.cmd.op = "clear"
          /\ k \in 2 .. n + 1 => flight.cmd.op = "append"
          /\ k = n + 2 => flight.cmd.op = "decode"
          /\ k = n + 3 => flight.cmd.op = "copy"
      BY <2>6, <2>8, <2>9, <3>1
    <3>3. CASE k = 1
      BY <3>1, <3>3 DEF Progress
    <3>4. CASE k # 1
      <4>1. flight.cmd.op \in WriteOps \ {"clear"}
        <5>1. k \in 2 .. n + 1 \/ k = n + 2 \/ k = n + 3
          BY <2>6, <2>8, <2>9, <3>1, <3>4
        <5> QED
          BY <2>6, <2>8, <2>9, <3>1, <5>1 DEF WriteOps
      <4>2. Len(typed) > 1
        BY <1>4, <1>5, <2>8, <2>9 DEF Flying
      <4>3. c.op \notin WriteOps
        <5>1. Len(typed) \in 1 .. Len(typed) /\ 1 \in 1 .. (Len(typed) - 1)
          BY <1>4, <4>2
        <5> QED
          BY <1>2, <2>8, <2>9, <4>1, <5>1 DEF InputInv
      <4> QED
        BY <1>6, <2>8, <2>9, <4>3 DEF Progress, Decoded, Landed
    <3> QED
      BY <3>3, <3>4
  <2>10. ASSUME Flying(w), result' = "ok"
         PROVE  Progress(t, k + 1)'
    <3>1. PICK n \in Nat : n = PieceCount[t]
      BY <2>6, <2>8, <2>10
    <3>2. (Effect(c) \/ FailsSilently(c)) /\ Len(typed) = 1 /\ c = flight.cmd
      BY <1>2, <1>5, <2>8, <2>10
    <3>3. k \in Nat /\ k \in 1 .. n + 3 /\ t \in Texts
      BY <2>6, <2>8, <2>10, <3>1
    <3>4. CASE k = 1
      <4>1. staging' = <<>>
        BY <2>6, <2>8, <2>10, <3>2, <3>4 DEF Effect, FailsSilently, CALLS
      <4>2. Pieces(t, 0) = <<>>
        BY DEF Pieces
      <4> QED
        BY <3>1, <3>4, <4>1, <4>2 DEF Progress
    <3>5. CASE k \in 2 .. n + 1
      <4>1. staging' = Append(staging, <<t, k - 1>>)
        BY <2>6, <2>8, <2>10, <3>1, <3>2, <3>5 DEF Effect, FailsSilently, CALLS
      <4>2. staging = Pieces(t, k - 2)
        BY <2>8, <2>10, <3>1, <3>5 DEF Progress
      <4>3. PICK m \in Nat : m = k - 2
        BY <3>1, <3>5
      <4>4. staging' = Pieces(t, m + 1)
        <5>1. k - 1 = m + 1
          BY <3>1, <3>3, <4>3
        <5> QED
          BY <4>1, <4>2, <4>3, <5>1, PieceAppended
      <4>5. m + 1 = k + 1 - 2 /\ k + 1 # n + 3 /\ k + 1 # n + 4
        BY <3>1, <3>5, <4>3
      <4>6. PICK j \in Int : j = k + 1
        BY <3>3
      <4>7. j - 2 = m + 1 /\ j # n + 3 /\ j # n + 4
        BY <3>3, <4>3, <4>5, <4>6
      <4>8. staging' = Pieces(t, j - 2)
        BY <4>4, <4>7
      <4> QED
        BY <3>1, <4>6, <4>7, <4>8 DEF Progress
    <3>6. CASE k = n + 2
      <4>1. decoded' = staging \/ (decoded' \in Starts(staging) /\ "decode" \in faults')
        BY <2>6, <2>8, <2>10, <3>1, <3>2, <3>6 DEF Effect, FailsSilently, CALLS
      <4>2. k - 2 = n /\ k \in 2 .. n + 2 /\ k + 1 = n + 3 /\ ~(k + 1 \in 2 .. n + 2) /\ k + 1 # n + 4
        BY <3>1, <3>6
      <4>3. staging = Pieces(t, n)
        BY <2>8, <2>10, <3>1, <4>2 DEF Progress
      <4>4. staging = Whole(t) /\ Whole(t) \in Starts(Whole(t))
        BY <3>1, <3>3, <4>3, WholeIs
      <4>5. Decoded(t)'
        BY <4>1, <4>4 DEF Decoded
      <4> QED
        BY <3>1, <4>2, <4>5 DEF Progress
    <3>7. CASE k = n + 3
      <4>1. target' = decoded /\ faults' = faults \ {"copy"}
        BY <2>6, <2>8, <2>10, <3>1, <3>2, <3>7 DEF Effect, FailsSilently, CALLS
      <4>2. Landed(t)'
        BY <2>8, <2>10, <3>1, <3>7, <4>1 DEF Progress, Decoded, Landed
      <4>3. k + 1 = n + 4 /\ ~(k + 1 \in 2 .. n + 2) /\ k + 1 # n + 3
        BY <3>1, <3>7
      <4> QED
        BY <3>1, <4>1, <4>2, <4>3 DEF Progress
    <3>8. k = 1 \/ k \in 2 .. n + 1 \/ k = n + 2 \/ k = n + 3
      BY <3>1, <3>3
    <3> QED
      BY <3>4, <3>5, <3>6, <3>7, <3>8
  <2> QED
    BY <1>3, <2>2, <2>3, <2>4, <2>5, <2>7, <2>9, <2>10 DEF WriteOf
<1> QED
  BY <1>1, <1>8, <1>9, <1>10, <1>12 DEF WriteInv

LEMMA StutterFiles ==
  ASSUME FIInv, UNCHANGED vars
  PROVE  FIInv'
<1> USE DEF FIInv, vars, askVars, guestVars, fileVars
<1>1. TIInv'
  BY StutterTurn
<1>2. ResultInv' /\ InputInv' /\ TargetWhole'
  BY FilesStay
<1>3. WriteInv'
  BY ZenonT(60) DEF WriteInv, WriteOf, Busy, Chained, Flying, At, Progress, Decoded, Landed, NoWriteTyped
<1> QED
  BY <1>1, <1>2, <1>3

LEMMA NextFiles ==
  ASSUME FIInv, OneWriter, [Next]_vars
  PROVE  FIInv'
BY HandleFiles, HandleUnknownFiles, SendFiles, ResolveFiles, ExpireFiles, ExecuteFiles, StutterFiles DEF Next

\* Whatever fails, expires or comes late, the file holds what it held or the start of one text, never
\* pieces of two or out of order; and it is the whole of it unless the copy failed (its redirect has
\* truncated the file by then) or base64 did without saying so (writeCommands of guest.js).  For the
\* one writer there is.
THEOREM NeverPartOfAText ==
  ASSUME OneWriter
  PROVE  Spec => []TargetWhole
<1>1. Init => FIInv
  BY InitFiles
<1>2. FIInv /\ [Next]_vars => FIInv'
  BY NextFiles
<1>3. FIInv => TargetWhole
  BY DEF FIInv
<1> QED
  BY <1>1, <1>2, <1>3, PTL DEF Spec

\* A write answered with success has landed, and nothing left over from an earlier one lands on
\* top of it (write of host.js), as long as base64 has not failed without saying so.  For the one
\* writer there is.
THEOREM SuccessIsLanded ==
  ASSUME OneWriter
  PROVE  Spec => []WriteLands
<1>1. Init => FIInv
  BY InitFiles
<1>2. FIInv /\ [Next]_vars => FIInv'
  BY NextFiles
<1>3. FIInv => WriteLands
  BY DEF FIInv, WriteInv, WriteOf, WriteLands, Landed
<1> QED
  BY <1>1, <1>2, <1>3, PTL DEF Spec
=============================================================================
