--------------------------- MODULE ChannelProofs ---------------------------
(***************************************************************************)
(* Proofs about Channel under PromptSpec, for any number of requests, any  *)
(* chunk and any reply size.  Where the request is (PhaseInv) and where    *)
(* its bytes are (ByteInv) together are inductive.                         *)
(***************************************************************************)
EXTENDS Channel, TLAPS

Quiet == mailbox = <<>> /\ inHand = <<>>
Settled == pagePc \in {"idle", "notify"}
Waiting == callerPc \in {"wait", "asleep"}
Writing == pagePc \in {"length", "remaining", "done"}

\* The four places a request can be while its caller waits.
Posted ==
  /\ mailbox = <<turn>>
  /\ inHand = <<>>
  /\ Settled
  /\ state = WAITING
  /\ pagePc = "notify" => callerPc = "wait"

Held ==
  /\ mailbox = <<>>
  /\ inHand = <<turn>>
  /\ turn # More
  /\ pagePc = "idle"
  /\ state = WAITING

Flushing ==
  /\ Quiet
  /\ ~Settled
  /\ state = WAITING

Answered ==
  /\ Quiet
  /\ state = DONE
  /\ pagePc = "notify" \/ (pagePc = "idle" /\ callerPc = "wait")

PhaseInv ==
  /\ ~Waiting => Quiet /\ Settled
  /\ callerPc = "send" => state = WAITING
  /\ Waiting => Posted \/ Held \/ Flushing \/ Answered

\* The turn has not been answered yet.
Asking ==
  callerPc \in {"store", "send"} \/ (Waiting /\ (Posted \/ Held))

TurnInv ==
  /\ callerPc # "idle" => request \in Requests /\ turn \in {request, More}
  /\ given # None => given.to = request
  /\ Asking /\ turn # More => given = None /\ pieces = <<>>
  /\ Asking /\ turn = More => given # None
  /\ callerPc # "idle" /\ ~Asking => given # None
  /\ callerPc = "idle" => outcome \in {None, given}

\* The turn has been answered and the answer is still only in the buffer.
Delivered ==
  (Waiting /\ Answered) \/ callerPc \in {"length", "copy"}

\* Bytes that are in the payload and nowhere else.
Staged ==
  IF Writing THEN flushed ELSE IF Delivered THEN length ELSE 0

ByteInv ==
  given # None =>
    /\ Len(pieces) + Staged + Len(tail) = given.size
    /\ \A i \in 1..Len(pieces) : pieces[i] = <<given, i>>
    /\ \A i \in 1..Staged : payload[i] = <<given, Len(pieces) + i>>
    /\ \A i \in 1..Len(tail) : tail[i] = <<given, given.size - Len(tail) + i>>
    /\ pagePc \in {"remaining", "done"} => length = flushed
    /\ pagePc = "done" => remaining = Len(tail)
    /\ Delivered \/ callerPc = "more" => remaining = Len(tail)
    /\ callerPc = "copy" => got = length
    /\ callerPc = "parse" => Len(tail) = 0

IInv == TypeOK /\ PhaseInv /\ TurnInv /\ ByteInv

-----------------------------------------------------------------------------
\* What the encoding and the parse do to each other: distinct replies have
\* distinct encodings (every byte names its reply and no reply is empty), so
\* parsing a whole encoded reply gives that reply back.
LEMMA DecodeEncode ==
  ASSUME NEW rep \in Replies, NEW bytes, bytes = Encode(rep)
  PROVE  Decode(bytes) = rep
<1>1. ASSUME NEW other \in Replies, bytes = Encode(other)
      PROVE  other = rep
  <2>1. 1 \in 1..rep.size /\ 1 \in 1..other.size
    BY ChannelAssumption DEF Replies
  <2>2. bytes[1] = <<rep, 1>> /\ bytes[1] = <<other, 1>>
    BY <2>1, <1>1 DEF Encode
  <2> QED
    BY <2>2
<1> QED
  BY <1>1 DEF Decode

LEMMA DecodeRange ==
  ASSUME NEW bytes
  PROVE  Decode(bytes) \in Replies \cup {Garbled}
BY DEF Decode

LEMMA EncodeType ==
  ASSUME NEW rep \in Replies
  PROVE  /\ Encode(rep) \in Seq(Bytes)
         /\ Len(Encode(rep)) = rep.size
         /\ rep.size \in 1..MaxSize
         /\ \A i \in 1..rep.size : Encode(rep)[i] = <<rep, i>>
<1>1. rep.size \in 1..MaxSize
  BY ChannelAssumption DEF Replies
<1>2. rep.size \in Nat
  BY <1>1, ChannelAssumption
<1>3. \A i \in 1..rep.size : <<rep, i>> \in Bytes
  BY <1>1, ChannelAssumption DEF Bytes
<1> QED
  BY <1>1, <1>2, <1>3 DEF Encode

\* The worker and the page only ever put well typed values into the buffer,
\* the mailbox and their own variables, under any scheduling of the threads.
LEMMA TypeStep ==
  ASSUME TypeOK, [Next]_vars
  PROVE  TypeOK'
<1> USE ChannelAssumption DEF TypeOK, callerVars, buffer, pageVars, CallerPcs, PagePcs, WAITING, DONE
<1>1. ASSUME NEW r \in Requests, Call(r) PROVE TypeOK'
  BY <1>1 DEF Call
<1>2. CASE StoreWaiting
  BY <1>2 DEF StoreWaiting
<1>3. CASE Send
  BY <1>3 DEF Send
<1>4. CASE Sleep
  BY <1>4 DEF Sleep
<1>5. CASE SkipWait
  BY <1>5 DEF SkipWait
<1>6. CASE LoadLength
  BY <1>6 DEF LoadLength
<1>7. CASE CopyPiece
  BY <1>7 DEF CopyPiece
<1>8. CASE AskForMore
  BY <1>8 DEF AskForMore
<1>9. CASE LastPiece
  BY <1>9 DEF LastPiece
<1>10. CASE Return
  BY <1>10, DecodeRange DEF Return
<1>11. CASE ReceiveCall
  BY <1>11 DEF ReceiveCall
<1>12. CASE ReceiveMore
  BY <1>12 DEF ReceiveMore
<1>13. ASSUME NEW rep \in Replies, Answer(rep) PROVE TypeOK'
  <2>0. Encode(rep) \in Seq(Bytes) /\ Len(Encode(rep)) \in 1..MaxSize
    BY EncodeType
  <2>1. tail' \in Seq(Bytes) /\ Len(tail') <= MaxSize
    BY <1>13, <2>0 DEF Answer
  <2>2. inHand' \in Seq(Requests)
    BY <1>13 DEF Answer
  <2> QED
    BY <1>13, <2>1, <2>2 DEF Answer
<1>14. CASE FillPayload
  BY <1>14 DEF FillPayload, Least
<1>15. CASE StoreLength
  BY <1>15 DEF StoreLength
<1>16. CASE StoreRemaining
  BY <1>16 DEF StoreRemaining
<1>17. CASE StoreDone
  BY <1>17 DEF StoreDone
<1>18. CASE Notify
  BY <1>18 DEF Notify
<1>19. CASE UNCHANGED vars
  BY <1>19 DEF vars
<1> QED
  BY <1>1, <1>2, <1>3, <1>4, <1>5, <1>6, <1>7, <1>8, <1>9, <1>10, <1>11, <1>12,
     <1>13, <1>14, <1>15, <1>16, <1>17, <1>18, <1>19 DEF Next, Worker, Page

THEOREM TypeCorrect == Spec => []TypeOK
<1>1. Init => TypeOK
  BY ChannelAssumption DEF Init, TypeOK, CallerPcs, PagePcs, WAITING, DONE
<1>2. TypeOK /\ [Next]_vars => TypeOK'
  BY TypeStep
<1> QED
  BY <1>1, <1>2, PTL DEF Spec

-----------------------------------------------------------------------------
LEMMA InitIInv == Init => IInv
<1>1. Init => TypeOK
  BY ChannelAssumption DEF Init, TypeOK, CallerPcs, PagePcs, WAITING, DONE
<1> QED
  BY <1>1 DEF Init, IInv, PhaseInv, TurnInv, ByteInv, Quiet, Settled, Waiting, Asking

\* Where the request is: every step moves it on and none loses it.
LEMMA PhaseStep ==
  ASSUME IInv, [PromptNext]_vars
  PROVE  PhaseInv'
<1> USE DEF callerVars, buffer, pageVars, PhaseInv, Quiet, Settled, Waiting,
            Posted, Held, Flushing, Answered, WAITING, DONE
<1>0. TypeOK /\ PhaseInv /\ TurnInv
  BY DEF IInv
<1>1. ASSUME NEW r \in Requests, Call(r) PROVE PhaseInv'
  BY <1>0, <1>1 DEF Call
<1>2. CASE StoreWaiting
  BY <1>0, <1>2 DEF StoreWaiting
<1>3. CASE Send
  BY <1>0, <1>3 DEF Send
<1>4. CASE Sleep /\ ~Overtakes
  BY <1>0, <1>4 DEF Sleep, Overtakes
<1>5. CASE SkipWait
  BY <1>0, <1>5 DEF SkipWait
<1>6. CASE LoadLength
  BY <1>0, <1>6 DEF LoadLength
<1>7. CASE CopyPiece
  BY <1>0, <1>7 DEF CopyPiece
<1>8. CASE AskForMore
  BY <1>0, <1>8 DEF AskForMore
<1>9. CASE LastPiece
  BY <1>0, <1>9 DEF LastPiece
<1>10. CASE Return
  BY <1>0, <1>10 DEF Return
<1>11. CASE ReceiveCall
  <2>1. Waiting /\ Posted
    BY <1>0, <1>11 DEF ReceiveCall
  <2>2. Head(mailbox) = turn /\ Tail(mailbox) = <<>> /\ Append(inHand, turn) = <<turn>>
    BY <2>1
  <2>3. Waiting' /\ Held'
    BY <2>1, <2>2, <1>11 DEF ReceiveCall
  <2> QED
    BY <2>3
<1>12. CASE ReceiveMore
  <2>1. Waiting /\ Posted
    BY <1>0, <1>12 DEF ReceiveMore
  <2>2. Tail(mailbox) = <<>>
    BY <2>1
  <2>3. Waiting' /\ Flushing'
    BY <2>1, <2>2, <1>12 DEF ReceiveMore
  <2> QED
    BY <2>3
<1>13. ASSUME NEW rep \in Replies, Answer(rep) PROVE PhaseInv'
  BY <1>0, <1>13 DEF Answer
<1>14. CASE FillPayload
  BY <1>0, <1>14 DEF FillPayload
<1>15. CASE StoreLength
  BY <1>0, <1>15 DEF StoreLength
<1>16. CASE StoreRemaining
  BY <1>0, <1>16 DEF StoreRemaining
<1>17. CASE StoreDone
  BY <1>0, <1>17 DEF StoreDone, TypeOK, PagePcs
<1>18. CASE Notify
  BY <1>0, <1>18 DEF Notify
<1>19. CASE UNCHANGED vars
  BY <1>0, <1>19 DEF vars
<1> QED
  BY <1>1, <1>2, <1>3, <1>4, <1>5, <1>6, <1>7, <1>8, <1>9, <1>10, <1>11, <1>12,
     <1>13, <1>14, <1>15, <1>16, <1>17, <1>18, <1>19
     DEF PromptNext, Next, Worker, Page, Overtakes, Sleep

\* When the worker parses, it has exactly the encoded reply in its hands.
LEMMA WholeReply ==
  ASSUME IInv, callerPc = "parse"
  PROVE  given \in Replies /\ Decode(pieces) = given
<1>1. given \in Replies
  BY DEF IInv, TypeOK, TurnInv, Asking, Waiting
<1>2. ~Writing /\ ~Delivered
  BY DEF IInv, PhaseInv, Writing, Delivered, Waiting, Settled
<1>3. Len(pieces) = given.size /\ \A i \in 1..Len(pieces) : pieces[i] = <<given, i>>
  BY <1>1, <1>2, ReplyAssumption, ChannelAssumption DEF IInv, TypeOK, ByteInv, Staged, Replies
<1>4. pieces = [i \in 1..Len(pieces) |-> pieces[i]]
  BY DEF IInv, TypeOK
<1>5. pieces = Encode(given)
  BY <1>3, <1>4 DEF Encode
<1> QED
  BY <1>1, <1>5, DecodeEncode

\* Which reply belongs to which turn.
LEMMA TurnStep ==
  ASSUME IInv, [PromptNext]_vars, PhaseInv'
  PROVE  TurnInv'
<1> USE ChannelAssumption, ReplyAssumption DEF TypeOK, callerVars, buffer, pageVars, PhaseInv, TurnInv, Asking,
            Quiet, Settled, Waiting, Posted, Held, Flushing, Answered, WAITING, DONE
<1>0. TypeOK /\ PhaseInv /\ TurnInv /\ ByteInv
  BY DEF IInv
<1>1. ASSUME NEW r \in Requests, Call(r) PROVE TurnInv'
  BY <1>0, <1>1 DEF Call
<1>2. CASE StoreWaiting
  BY <1>0, <1>2 DEF StoreWaiting
<1>3. CASE Send
  BY <1>0, <1>3 DEF Send
<1>4. CASE Sleep
  BY <1>0, <1>4 DEF Sleep
<1>5. CASE SkipWait
  BY <1>0, <1>5 DEF SkipWait
<1>6. CASE LoadLength
  BY <1>0, <1>6 DEF LoadLength
<1>7. CASE CopyPiece
  BY <1>0, <1>7 DEF CopyPiece
<1>8. CASE AskForMore
  BY <1>0, <1>8 DEF AskForMore
<1>9. CASE LastPiece
  BY <1>0, <1>9 DEF LastPiece
<1>10. CASE Return
  BY <1>0, <1>10, WholeReply DEF Return
<1>11. CASE ReceiveCall
  BY <1>0, <1>11 DEF ReceiveCall
<1>12. CASE ReceiveMore
  BY <1>0, <1>12 DEF ReceiveMore
<1>13. CASE FillPayload
  BY <1>0, <1>13 DEF FillPayload
<1>14. CASE StoreLength
  BY <1>0, <1>14 DEF StoreLength
<1>15. CASE StoreRemaining
  BY <1>0, <1>15 DEF StoreRemaining
<1>16. CASE StoreDone
  BY <1>0, <1>16 DEF StoreDone
<1>17. CASE Notify
  BY <1>0, <1>17 DEF Notify
<1>18. ASSUME NEW rep \in Replies, Answer(rep) PROVE TurnInv'
  BY <1>0, <1>18 DEF Answer
<1>19. CASE UNCHANGED vars
  BY <1>0, <1>19 DEF vars
<1> QED
  BY <1>1, <1>2, <1>3, <1>4, <1>5, <1>6, <1>7, <1>8, <1>9, <1>10, <1>11, <1>12, <1>13, <1>14, <1>15, <1>16, <1>17, <1>18, <1>19
     DEF PromptNext, Next, Worker, Page

\* ByteInv over the three steps that move bytes.
LEMMA ByteFacts ==
  ASSUME IInv, given # None
  PROVE  /\ given \in Replies
         /\ given.size \in 1..MaxSize
         /\ pieces \in Seq(Bytes \cup {None})
         /\ tail \in Seq(Bytes)
         /\ payload \in [1..Chunk -> Bytes \cup {None}]
         /\ Len(pieces) + Staged + Len(tail) = given.size
         /\ \A i \in 1..Len(pieces) : pieces[i] = <<given, i>>
         /\ \A i \in 1..Staged : payload[i] = <<given, Len(pieces) + i>>
         /\ \A i \in 1..Len(tail) : tail[i] = <<given, given.size - Len(tail) + i>>
BY ChannelAssumption DEF IInv, TypeOK, ByteInv, Replies

LEMMA ByteCopyPiece ==
  ASSUME IInv, CopyPiece
  PROVE  ByteInv'
<1> SUFFICES ASSUME given # None PROVE ByteInv'
  BY DEF ByteInv, CopyPiece, pageVars
<1>1. /\ Quiet /\ Settled /\ Quiet' /\ Settled'
      /\ ~Waiting /\ ~Waiting' /\ ~Writing /\ ~Writing'
      /\ Delivered /\ ~Delivered'
  BY DEF IInv, PhaseInv, CopyPiece, buffer, pageVars, Quiet, Settled, Waiting, Writing, Delivered
<1>2. got = length /\ remaining = Len(tail) /\ got \in 0..Chunk
  BY <1>1 DEF IInv, TypeOK, ByteInv, CopyPiece
<1>3. Staged = got /\ Staged' = 0
  BY <1>1, <1>2 DEF Staged
<1>4. /\ UNCHANGED <<given, tail, payload, remaining, length, pagePc, flushed>>
      /\ callerPc' = "more"
      /\ pieces' = pieces \o SubSeq(payload, 1, got)
  BY DEF CopyPiece, buffer, pageVars
<1>5. /\ SubSeq(payload, 1, got) \in Seq(Bytes \cup {None})
      /\ Len(SubSeq(payload, 1, got)) = got
      /\ \A i \in 1..got : SubSeq(payload, 1, got)[i] = payload[i]
  <2>1. payload \in Seq(Bytes \cup {None}) /\ Len(payload) = Chunk
    BY ByteFacts, ChannelAssumption
  <2> QED
    BY <1>2, <2>1, ChannelAssumption
<1>6. /\ Len(pieces') = Len(pieces) + got
      /\ \A i \in 1..Len(pieces) : pieces'[i] = pieces[i]
      /\ \A i \in 1..got : pieces'[Len(pieces) + i] = payload[i]
  <2> DEFINE piece == SubSeq(payload, 1, got)
  <2>1. pieces \in Seq(Bytes \cup {None}) /\ piece \in Seq(Bytes \cup {None}) /\ Len(piece) = got
    BY <1>5, ByteFacts
  <2>2. got \in Nat
    BY <1>2, ChannelAssumption
  <2>3. \A i \in 1..got : piece[i] = payload[i]
    BY <1>5
  <2>4. pieces' = pieces \o piece
    BY <1>4
  <2>5. Len(pieces \o piece) = Len(pieces) + got
    BY <2>1
  <2>6. \A i \in 1..Len(pieces) : (pieces \o piece)[i] = pieces[i]
    BY <2>1
  <2>7. \A i \in 1..got : (pieces \o piece)[Len(pieces) + i] = piece[i]
    BY <2>1, <2>2
  <2> QED
    BY <2>3, <2>4, <2>5, <2>6, <2>7
<1>7. ASSUME NEW i \in 1..Len(pieces')
      PROVE  pieces'[i] = <<given, i>>
  <2>1. CASE i \in 1..Len(pieces)
    BY <1>6, <2>1, ByteFacts
  <2>2. CASE i \notin 1..Len(pieces)
    <3>1. Len(pieces) \in Nat /\ got \in Nat
      BY <1>2, ByteFacts, ChannelAssumption
    <3>2. PICK k \in 1..got : i = Len(pieces) + k
      <4>1. i - Len(pieces) \in 1..got /\ i = Len(pieces) + (i - Len(pieces))
        BY <1>6, <2>2, <3>1
      <4> QED
        BY <4>1
    <3>3. pieces'[i] = payload[k]
      BY <1>6, <3>2
    <3>4. payload[k] = <<given, Len(pieces) + k>>
      BY <1>3, <3>2, ByteFacts
    <3> QED
      BY <3>2, <3>3, <3>4
  <2> QED
    BY <2>1, <2>2
<1>8. (Len(pieces) + Staged + Len(tail) = given.size)'
  BY <1>2, <1>3, <1>4, <1>6, ByteFacts, ChannelAssumption
<1> QED
  <2>1. (\A i \in 1..Len(tail) : tail[i] = <<given, given.size - Len(tail) + i>>)'
    BY <1>4, ByteFacts
  <2>2. \A i \in 1..Staged' : FALSE
    BY <1>3
  <2> QED
    BY <1>1, <1>2, <1>3, <1>4, <1>7, <1>8, <2>1, <2>2 DEF ByteInv, Writing

LEMMA ByteFillPayload ==
  ASSUME IInv, FillPayload
  PROVE  ByteInv'
<1> SUFFICES ASSUME given # None PROVE ByteInv'
  BY DEF ByteInv, FillPayload
<1>1. /\ Waiting /\ Waiting' /\ ~Writing /\ Writing'
      /\ ~Delivered /\ ~Delivered'
  BY DEF IInv, PhaseInv, FillPayload, Posted, Held, Flushing, Answered, Quiet, Settled,
         Waiting, Writing, Delivered, callerVars, WAITING, DONE
<1>2. Staged = 0 /\ Staged' = flushed'
  BY <1>1 DEF Staged
<1>3. /\ UNCHANGED <<given, pieces, callerPc>>
      /\ pagePc' = "length"
      /\ tail' = SubSeq(tail, flushed' + 1, Len(tail))
  BY DEF FillPayload, callerVars
<1>4. flushed' \in 0..Len(tail) /\ flushed' <= Chunk
  BY ByteFacts, ChannelAssumption DEF FillPayload, Least
<1>5. /\ Len(tail') = Len(tail) - flushed'
      /\ \A i \in 1..Len(tail') : tail'[i] = tail[flushed' + i]
  BY <1>3, <1>4, ByteFacts
<1>6. \A i \in 1..flushed' : payload'[i] = tail[i]
  BY <1>4, ChannelAssumption, ByteFacts DEF FillPayload
<1>7. given.size \in Nat /\ Len(pieces) \in Nat /\ Len(tail) \in Nat /\ flushed' \in Nat
  BY <1>4, ByteFacts, ChannelAssumption
<1>8. Len(pieces) + Len(tail) = given.size
  BY <1>2, <1>7, ByteFacts
<1>9. (Len(pieces) + Staged + Len(tail) = given.size)'
  BY <1>2, <1>3, <1>4, <1>5, <1>7, <1>8, SMTT(30)
<1>10. ASSUME NEW i \in 1..flushed'
       PROVE  payload'[i] = <<given, Len(pieces) + i>>
  <2>1. tail[i] = <<given, given.size - Len(tail) + i>>
    BY <1>4, <1>7, ByteFacts
  <2>2. given.size - Len(tail) = Len(pieces)
    BY <1>7, <1>8
  <2> QED
    BY <1>6, <2>1, <2>2
<1>11. ASSUME NEW i \in 1..Len(tail')
       PROVE  tail'[i] = <<given, given.size - Len(tail') + i>>
  <2>1. flushed' + i \in 1..Len(tail)
    BY <1>4, <1>5, <1>7
  <2>2. tail[flushed' + i] = <<given, given.size - Len(tail) + (flushed' + i)>>
    BY <2>1, ByteFacts
  <2>3. given.size - Len(tail) + (flushed' + i) = given.size - Len(tail') + i
    BY <1>5, <1>7
  <2> QED
    BY <1>5, <2>2, <2>3
<1>12. (\A i \in 1..Len(pieces) : pieces[i] = <<given, i>>)'
  BY <1>3, ByteFacts
<1> QED
  BY <1>1, <1>2, <1>3, <1>9, <1>10, <1>11, <1>12 DEF ByteInv, Waiting

LEMMA ByteAnswer ==
  ASSUME IInv, NEW rep \in Replies, Answer(rep)
  PROVE  ByteInv'
<1>1. Waiting /\ Held
  BY DEF IInv, PhaseInv, Answer, Waiting, Posted, Held, Flushing, Answered, Quiet, Settled
<1>2. pieces = <<>>
  <2>1. Asking /\ turn # More
    BY <1>1 DEF Asking, Held
  <2> QED
    BY <2>1 DEF IInv, TurnInv
<1>3. /\ UNCHANGED <<pieces, callerPc, state>>
      /\ given' = rep /\ tail' = Encode(rep) /\ pagePc' = "fill"
  BY DEF Answer, callerVars, buffer
<1>4. ~Writing' /\ ~Delivered'
  BY <1>1, <1>3 DEF Writing, Delivered, Answered, Held, Waiting, WAITING, DONE
<1>5. Staged' = 0
  BY <1>4 DEF Staged
<1>6. /\ Len(tail') = rep.size /\ rep.size \in Nat
      /\ \A i \in 1..rep.size : tail'[i] = <<rep, i>>
  BY <1>3, EncodeType, ChannelAssumption
<1>7. ASSUME NEW i \in 1..Len(tail')
      PROVE  tail'[i] = <<rep, rep.size - Len(tail') + i>>
  BY <1>6
<1>8. Len(pieces') = 0
  BY <1>2, <1>3
<1> QED
  BY <1>1, <1>3, <1>4, <1>5, <1>6, <1>7, <1>8 DEF ByteInv, Waiting

\* Where the bytes are.
LEMMA ByteStep ==
  ASSUME IInv, [PromptNext]_vars, PhaseInv'
  PROVE  ByteInv'
<1> USE ChannelAssumption DEF TypeOK, callerVars, buffer, pageVars, ByteInv, Staged, Delivered, Writing,
            Waiting, Answered, Quiet, Settled, WAITING, DONE
<1>0. TypeOK /\ PhaseInv /\ TurnInv /\ ByteInv
  BY DEF IInv
<1>1. ASSUME NEW r \in Requests, Call(r) PROVE ByteInv'
  BY <1>0, <1>1 DEF Call
<1>2. CASE StoreWaiting
  BY <1>0, <1>2 DEF StoreWaiting
<1>3. CASE Send
  <2>1. Staged' = Staged
    BY <1>0, <1>3 DEF Send, PhaseInv, Posted, Held, Flushing, PagePcs, CallerPcs
  <2>2. UNCHANGED <<pieces, payload, tail, given>>
    BY <1>3 DEF Send
  <2>3. (given # None /\ (Delivered \/ callerPc = "more") => remaining = Len(tail))'
    BY <1>0, <1>3, <2>2 DEF Send, PhaseInv, Posted, Held, Flushing, PagePcs, CallerPcs
  <2> QED
    BY <1>0, <1>3, <2>1, <2>2, <2>3 DEF Send, PhaseInv, Posted, Held, Flushing, PagePcs, CallerPcs
<1>4. CASE Sleep
  BY <1>0, <1>4 DEF Sleep
<1>5. CASE SkipWait
  <2>1. Staged' = Staged
    BY <1>0, <1>5 DEF SkipWait, PhaseInv, Posted, Held, Flushing, PagePcs, CallerPcs
  <2>2. UNCHANGED <<pieces, payload, tail, given>>
    BY <1>5 DEF SkipWait
  <2>3. (given # None /\ (Delivered \/ callerPc = "more") => remaining = Len(tail))'
    BY <1>0, <1>5, <2>2 DEF SkipWait, PhaseInv, Posted, Held, Flushing, PagePcs, CallerPcs
  <2> QED
    BY <1>0, <1>5, <2>1, <2>2, <2>3 DEF SkipWait, PhaseInv, Posted, Held, Flushing, PagePcs, CallerPcs
<1>6. CASE LoadLength
  BY <1>0, <1>6 DEF LoadLength
<1>7. CASE CopyPiece
  BY <1>7, ByteCopyPiece
<1>8. CASE AskForMore
  BY <1>0, <1>8 DEF AskForMore
<1>9. CASE LastPiece
  BY <1>0, <1>9 DEF LastPiece
<1>10. CASE Return
  BY <1>0, <1>10 DEF Return
<1>11. CASE ReceiveCall
  <2>1. Staged' = Staged
    BY <1>0, <1>11 DEF ReceiveCall, PhaseInv, Posted, Held, Flushing, PagePcs, CallerPcs
  <2>2. UNCHANGED <<pieces, payload, tail, given>>
    BY <1>11 DEF ReceiveCall
  <2>3. (given # None /\ (Delivered \/ callerPc = "more") => remaining = Len(tail))'
    BY <1>0, <1>11, <2>2 DEF ReceiveCall, PhaseInv, Posted, Held, Flushing, PagePcs, CallerPcs
  <2> QED
    BY <1>0, <1>11, <2>1, <2>2, <2>3 DEF ReceiveCall, PhaseInv, Posted, Held, Flushing, PagePcs, CallerPcs
<1>12. CASE ReceiveMore
  <2>1. Staged' = Staged
    BY <1>0, <1>12 DEF ReceiveMore, PhaseInv, Posted, Held, Flushing, PagePcs, CallerPcs
  <2>2. UNCHANGED <<pieces, payload, tail, given>>
    BY <1>12 DEF ReceiveMore
  <2>3. (given # None /\ (Delivered \/ callerPc = "more") => remaining = Len(tail))'
    BY <1>0, <1>12, <2>2 DEF ReceiveMore, PhaseInv, Posted, Held, Flushing, PagePcs, CallerPcs
  <2> QED
    BY <1>0, <1>12, <2>1, <2>2, <2>3 DEF ReceiveMore, PhaseInv, Posted, Held, Flushing, PagePcs, CallerPcs
<1>13. CASE FillPayload
  BY <1>13, ByteFillPayload
<1>14. CASE StoreLength
  <2>1. Staged' = Staged
    BY <1>0, <1>14 DEF StoreLength, PhaseInv, Posted, Held, Flushing, PagePcs, CallerPcs
  <2>2. UNCHANGED <<pieces, payload, tail, given>>
    BY <1>14 DEF StoreLength
  <2>3. (given # None /\ (Delivered \/ callerPc = "more") => remaining = Len(tail))'
    BY <1>0, <1>14, <2>2 DEF StoreLength, PhaseInv, Posted, Held, Flushing, PagePcs, CallerPcs
  <2> QED
    BY <1>0, <1>14, <2>1, <2>2, <2>3 DEF StoreLength, PhaseInv, Posted, Held, Flushing, PagePcs, CallerPcs
<1>15. CASE StoreRemaining
  BY <1>0, <1>15 DEF StoreRemaining
<1>16. CASE StoreDone
  <2>1. given # None => Staged' = Staged
    BY <1>0, <1>16 DEF StoreDone, PhaseInv, Posted, Held, Flushing, PagePcs, CallerPcs
  <2>2. UNCHANGED <<pieces, payload, tail, given>>
    BY <1>16 DEF StoreDone
  <2>3. (given # None /\ (Delivered \/ callerPc = "more") => remaining = Len(tail))'
    BY <1>0, <1>16, <2>2 DEF StoreDone, PhaseInv, Posted, Held, Flushing, PagePcs, CallerPcs
  <2> QED
    BY <1>0, <1>16, <2>1, <2>2, <2>3 DEF StoreDone, PhaseInv, Posted, Held, Flushing, PagePcs, CallerPcs
<1>17. CASE Notify
  <2>1. Staged' = Staged
    BY <1>0, <1>17 DEF Notify, PhaseInv, Posted, Held, Flushing, PagePcs, CallerPcs
  <2>2. UNCHANGED <<pieces, payload, tail, given>>
    BY <1>17 DEF Notify
  <2>3. (given # None /\ (Delivered \/ callerPc = "more") => remaining = Len(tail))'
    BY <1>0, <1>17, <2>2 DEF Notify, PhaseInv, Posted, Held, Flushing, PagePcs, CallerPcs
  <2> QED
    BY <1>0, <1>17, <2>1, <2>2, <2>3 DEF Notify, PhaseInv, Posted, Held, Flushing, PagePcs, CallerPcs
<1>18. ASSUME NEW rep \in Replies, Answer(rep) PROVE ByteInv'
  BY <1>18, ByteAnswer
<1>19. CASE UNCHANGED vars
  BY <1>0, <1>19 DEF vars
<1> QED
  BY <1>1, <1>2, <1>3, <1>4, <1>5, <1>6, <1>7, <1>8, <1>9, <1>10, <1>11, <1>12, <1>13, <1>14, <1>15, <1>16, <1>17, <1>18, <1>19
     DEF PromptNext, Next, Worker, Page

LEMMA IInvStep ==
  ASSUME IInv, [PromptNext]_vars
  PROVE  IInv'
<1>1. [Next]_vars
  BY DEF PromptNext
<1>2. TypeOK'
  BY <1>1, TypeStep DEF IInv
<1>3. PhaseInv'
  BY PhaseStep
<1> QED
  BY <1>2, <1>3, TurnStep, ByteStep DEF IInv

THEOREM Inductive == PromptSpec => []IInv
<1>1. IInv /\ [PromptNext]_vars => IInv'
  BY IInvStep
<1> QED
  BY <1>1, InitIInv, PTL DEF PromptSpec

-----------------------------------------------------------------------------
\* Whatever the size of the reply and of the buffer, a call that returns hands
\* back the very reply the page made for it.
THEOREM ArrivesWhole == PromptSpec => []AnswerArrivesWhole
<1>1. IInv => AnswerArrivesWhole
  BY DEF IInv, TurnInv, AnswerArrivesWhole
<1> QED
  BY <1>1, Inductive, PTL

\* The page never writes the buffer under a worker that is reading it.
THEOREM NeverTorn == PromptSpec => []NoTornRead
<1>1. IInv => NoTornRead
  BY DEF IInv, PhaseInv, NoTornRead, Waiting, Settled
<1> QED
  BY <1>1, Inductive, PTL

-----------------------------------------------------------------------------
\* Chunks, mailbox and wait/notify are invisible to the caller: every step is
\* a step of the remote call of Rpc, or changes nothing in it.
THEOREM Refinement == PromptSpec => ImplementsRpc
<1>1. Init => R!Init
  BY DEF Init, R!Init
<1>2. ASSUME IInv, [PromptNext]_vars
      PROVE  [R!Next]_R!rpcVars
  <2> USE DEF R!rpcVars, callerVars, buffer, pageVars
  <2>1. ASSUME NEW r \in Requests, Call(r) PROVE R!Ask(r)
    BY <2>1 DEF Call, R!Ask
  <2>2. ASSUME NEW rep \in Replies, Answer(rep) PROVE R!Answer(rep)
    <3>1. Waiting /\ Held
      BY <1>2, <2>2 DEF IInv, PhaseInv, Answer, Waiting, Posted, Held, Flushing, Answered, Quiet, Settled
    <3>2. Asking /\ turn # More
      BY <3>1 DEF Asking, Held
    <3>3. given = None /\ turn = request /\ callerPc # "idle"
      BY <1>2, <3>1, <3>2 DEF IInv, TurnInv, Waiting
    <3>4. rep.to = request
      BY <2>2, <3>1, <3>3 DEF Answer, Held
    <3> QED
      BY <2>2, <3>3, <3>4 DEF Answer, R!Answer
  <2>3. CASE Return
    <3>1. given \in Replies /\ outcome' = given
      BY <1>2, <2>3, WholeReply DEF Return
    <3>2. given # None
      BY <3>1, ReplyAssumption
    <3>3. callerPc = "parse" /\ callerPc' = "idle" /\ UNCHANGED <<request, given>>
      BY <2>3 DEF Return
    <3>4. (callerPc # "idle") = TRUE /\ (callerPc' # "idle") = FALSE
      BY <3>3
    <3>5. R!Take
      BY <3>1, <3>2, <3>3, <3>4 DEF R!Take
    <3> QED
      BY <3>5 DEF R!Next
  <2>4. CASE StoreWaiting \/ Send \/ Sleep \/ SkipWait \/ LoadLength \/ CopyPiece \/ AskForMore \/ LastPiece
    BY <2>4 DEF StoreWaiting, Send, Sleep, SkipWait, LoadLength, CopyPiece, AskForMore, LastPiece
  <2>5. CASE ReceiveCall \/ ReceiveMore \/ FillPayload \/ StoreLength \/ StoreRemaining \/ StoreDone
    BY <2>5 DEF ReceiveCall, ReceiveMore, FillPayload, StoreLength, StoreRemaining, StoreDone
  <2>6. CASE Notify
    BY <2>6 DEF Notify
  <2>7. CASE UNCHANGED vars
    BY <2>7 DEF vars
  <2>8. Replies = R!Replies
    BY DEF Replies, R!Replies
  <2> QED
    BY <1>2, <2>1, <2>2, <2>3, <2>4, <2>5, <2>6, <2>7, <2>8
       DEF PromptNext, Next, Worker, Page, R!Next
<1> QED
  BY <1>1, <1>2, Inductive, PTL DEF PromptSpec, ImplementsRpc, R!Spec

=============================================================================
