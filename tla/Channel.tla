------------------------------ MODULE Channel ------------------------------
(***************************************************************************)
(* kxbox/web/channel.js: one synchronous call across two threads.          *)
(*                                                                         *)
(* The worker (Caller) posts a request and blocks in Atomics.wait; the     *)
(* page (Answerer) puts the encoded reply into a shared buffer one chunk   *)
(* at a time.  The two threads run in parallel, so every shared load,      *)
(* store, wait and notify is a step of its own.  A byte of an encoded      *)
(* reply is the pair <<reply, position>>, which is enough to tell a torn,  *)
(* repeated or foreign piece from the right one.                           *)
(***************************************************************************)
EXTENDS Naturals, Sequences

CONSTANTS
  Requests,   \* what a worker may ask for
  Chunk,      \* payload bytes in the shared buffer (CHUNK in the code)
  MaxSize,    \* bound: the longest encoded reply, in bytes
  MailBound,  \* bound: messages posted to the page and not yet received
  More,       \* the request for the rest of an answer
  None,
  Garbled     \* what parsing anything but one whole encoded reply comes to

ASSUME ChannelAssumption ==
  /\ Chunk \in Nat \ {0}
  /\ MaxSize \in Nat \ {0}
  /\ MailBound \in Nat \ {0}
  /\ More \notin Requests
  /\ None \notin Requests \cup {More}

WAITING == 0
DONE == 1

Replies == [to : Requests, ok : BOOLEAN, size : 1..MaxSize]

ASSUME ReplyAssumption == None \notin Replies /\ Garbled \notin Replies

VARIABLES
  callerPc,   \* where the worker is in Caller.call
  request,    \* the call it was made for
  turn,       \* the message of this turn: the call itself, then More
  pieces,     \* the bytes copied out so far, joined
  got,        \* the local `length` of this turn
  outcome,    \* what the last call returned or threw
  state, length, remaining, payload,      \* the SharedArrayBuffer
  mailbox,    \* postMessage queue from the worker to the page
  inHand,     \* calls the page's handler has taken and not answered yet
  pagePc,     \* where the page is in Answerer.flush
  tail,       \* the part of the encoded reply not yet flushed
  flushed,    \* the local `length` of flush
  given       \* history: the reply the page made for the call in progress

callerVars == <<request, turn, pieces, got, outcome>>
buffer == <<state, length, remaining, payload>>
pageVars == <<inHand, pagePc, tail, flushed, given>>
vars == <<callerPc, callerVars, buffer, mailbox, pageVars>>

Encode(rep) == [i \in 1..rep.size |-> <<rep, i>>]

Decode(bytes) ==
  IF \E rep \in Replies : bytes = Encode(rep)
  THEN CHOOSE rep \in Replies : bytes = Encode(rep)
  ELSE Garbled

Least(a, b) == IF a <= b THEN a ELSE b

Init ==
  /\ callerPc = "idle"
  /\ request = None
  /\ turn = None
  /\ pieces = <<>>
  /\ got = 0
  /\ outcome = None
  /\ state = WAITING
  /\ length = 0
  /\ remaining = 0
  /\ payload = [i \in 1..Chunk |-> None]
  /\ mailbox = <<>>
  /\ inHand = <<>>
  /\ pagePc = "idle"
  /\ tail = <<>>
  /\ flushed = 0
  /\ given = None

-----------------------------------------------------------------------------
(* The worker: Caller.call.                                                *)

Call(r) ==
  /\ callerPc = "idle"
  /\ callerPc' = "store"
  /\ request' = r
  /\ turn' = r
  /\ pieces' = <<>>
  /\ outcome' = None
  /\ given' = None
  /\ UNCHANGED <<got, buffer, mailbox, inHand, pagePc, tail, flushed>>

\* Mutant of StoreWaiting: the state word is not reset before a turn.
StoreWaiting_NoReset ==
  /\ callerPc = "store"
  /\ callerPc' = "send"
  /\ UNCHANGED <<callerVars, buffer, mailbox, pageVars>>

StoreWaiting ==
  /\ callerPc = "store"
  /\ callerPc' = "send"
  /\ state' = WAITING
  /\ UNCHANGED <<callerVars, length, remaining, payload, mailbox, pageVars>>

Send ==
  /\ callerPc = "send"
  /\ Len(mailbox) < MailBound
  /\ callerPc' = "wait"
  /\ mailbox' = Append(mailbox, turn)
  /\ UNCHANGED <<callerVars, buffer, pageVars>>

\* Atomics.wait compares and goes to sleep in one step.
Sleep ==
  /\ callerPc = "wait"
  /\ state = WAITING
  /\ callerPc' = "asleep"
  /\ UNCHANGED <<callerVars, buffer, mailbox, pageVars>>

\* The answer is already there: Atomics.wait returns "not-equal".
SkipWait ==
  /\ callerPc = "wait"
  /\ state # WAITING
  /\ callerPc' = "length"
  /\ UNCHANGED <<callerVars, buffer, mailbox, pageVars>>

LoadLength ==
  /\ callerPc = "length"
  /\ callerPc' = "copy"
  /\ got' = length
  /\ UNCHANGED <<request, turn, pieces, outcome, buffer, mailbox, pageVars>>

CopyPiece ==
  /\ callerPc = "copy"
  /\ callerPc' = "more"
  /\ pieces' = pieces \o SubSeq(payload, 1, got)
  /\ UNCHANGED <<request, turn, got, outcome, buffer, mailbox, pageVars>>

AskForMore ==
  /\ callerPc = "more"
  /\ remaining # 0
  /\ callerPc' = "store"
  /\ turn' = More
  /\ UNCHANGED <<request, pieces, got, outcome, buffer, mailbox, pageVars>>

\* Mutant of LastPiece: does not look at what remains.
LastPiece_Early ==
  /\ callerPc = "more"
  /\ callerPc' = "parse"
  /\ UNCHANGED <<callerVars, buffer, mailbox, pageVars>>

LastPiece ==
  /\ callerPc = "more"
  /\ remaining = 0
  /\ callerPc' = "parse"
  /\ UNCHANGED <<callerVars, buffer, mailbox, pageVars>>

\* The reply is returned, or thrown when it is not `ok`; either ends the call.
Return ==
  /\ callerPc = "parse"
  /\ callerPc' = "idle"
  /\ outcome' = Decode(pieces)
  /\ UNCHANGED <<request, turn, pieces, got, buffer, mailbox, pageVars>>

-----------------------------------------------------------------------------
(* The page: a message handler, then Answerer.answer and flush.            *)

ReceiveCall ==
  /\ pagePc = "idle"
  /\ mailbox # <<>>
  /\ Head(mailbox) # More
  /\ mailbox' = Tail(mailbox)
  /\ inHand' = Append(inHand, Head(mailbox))
  /\ UNCHANGED <<callerPc, callerVars, buffer, pagePc, tail, flushed, given>>

ReceiveMore ==
  /\ pagePc = "idle"
  /\ mailbox # <<>>
  /\ Head(mailbox) = More
  /\ mailbox' = Tail(mailbox)
  /\ pagePc' = "fill"
  /\ UNCHANGED <<callerPc, callerVars, buffer, inHand, tail, flushed, given>>

Answer(rep) ==
  /\ pagePc = "idle"
  /\ inHand # <<>>
  /\ rep.to = Head(inHand)
  /\ inHand' = Tail(inHand)
  /\ given' = rep
  /\ tail' = Encode(rep)
  /\ pagePc' = "fill"
  /\ UNCHANGED <<callerPc, callerVars, buffer, mailbox, flushed>>

FillPayload ==
  /\ pagePc = "fill"
  /\ pagePc' = "length"
  /\ flushed' = Least(Len(tail), Chunk)
  /\ payload' = [i \in 1..Chunk |-> IF i <= flushed' THEN tail[i] ELSE payload[i]]
  /\ tail' = SubSeq(tail, flushed' + 1, Len(tail))
  /\ UNCHANGED <<callerPc, callerVars, state, length, remaining, mailbox, inHand, given>>

StoreLength ==
  /\ pagePc = "length"
  /\ pagePc' = "remaining"
  /\ length' = flushed
  /\ UNCHANGED <<callerPc, callerVars, state, remaining, payload, mailbox,
                 inHand, tail, flushed, given>>

\* Mutant of StoreRemaining: counts the whole chunks that remain.
StoreRemaining_WholeChunks ==
  /\ pagePc = "remaining"
  /\ pagePc' = "done"
  /\ remaining' = Len(tail) \div Chunk
  /\ UNCHANGED <<callerPc, callerVars, state, length, payload, mailbox,
                 inHand, tail, flushed, given>>

StoreRemaining ==
  /\ pagePc = "remaining"
  /\ pagePc' = "done"
  /\ remaining' = Len(tail)
  /\ UNCHANGED <<callerPc, callerVars, state, length, payload, mailbox,
                 inHand, tail, flushed, given>>

StoreDone ==
  /\ pagePc = "done"
  /\ pagePc' = "notify"
  /\ state' = DONE
  /\ UNCHANGED <<callerPc, callerVars, length, remaining, payload, mailbox,
                 inHand, tail, flushed, given>>

\* Mutant of Notify: wakes nobody.
Notify_Nobody ==
  /\ pagePc = "notify"
  /\ pagePc' = "idle"
  /\ UNCHANGED <<callerPc, callerVars, buffer, mailbox, inHand, tail, flushed, given>>

\* Wakes a sleeper whatever the state word says by now.
Notify ==
  /\ pagePc = "notify"
  /\ pagePc' = "idle"
  /\ callerPc' = IF callerPc = "asleep" THEN "length" ELSE callerPc
  /\ UNCHANGED <<callerVars, buffer, mailbox, inHand, tail, flushed, given>>

-----------------------------------------------------------------------------
Worker ==
  \/ StoreWaiting \/ Send \/ Sleep \/ SkipWait
  \/ LoadLength \/ CopyPiece \/ AskForMore \/ LastPiece \/ Return

Page ==
  \/ ReceiveCall \/ ReceiveMore
  \/ \E rep \in Replies : Answer(rep)
  \/ FillPayload \/ StoreLength \/ StoreRemaining \/ StoreDone \/ Notify

Next ==
  \/ \E r \in Requests : Call(r)
  \/ Worker
  \/ Page

\* The code as it is, under any scheduling of the two threads.
Spec == Init /\ [][Next]_vars

\* The worker does not get through a whole further turn and back to sleep in
\* the gap between the page's last two instructions, the store of DONE and the
\* notify.  The code does not enforce this; it is a fact about timing.
Overtakes == pagePc = "notify" /\ callerPc = "wait" /\ callerPc' = "asleep"

PromptNext == Next /\ ~Overtakes
PromptSpec == Init /\ [][PromptNext]_vars

\* Both threads keep running, and the page's handler settles every call it
\* takes (host.js puts a deadline on each command for exactly this).
Fairness == WF_vars(Worker) /\ WF_vars(Page)

FairSpec == Spec /\ Fairness
FairPromptSpec == PromptSpec /\ Fairness

-----------------------------------------------------------------------------
CallerPcs == {"idle", "store", "send", "wait", "asleep", "length", "copy", "more", "parse"}
PagePcs == {"idle", "fill", "length", "remaining", "done", "notify"}
Bytes == Replies \X (1..MaxSize)

\* Every variable holds a value the code could put there.
TypeOK ==
  /\ callerPc \in CallerPcs
  /\ request \in Requests \cup {None}
  /\ turn \in Requests \cup {None, More}
  /\ turn = None => callerPc = "idle"
  /\ pieces \in Seq(Bytes \cup {None})
  /\ got \in 0..Chunk
  /\ outcome \in Replies \cup {None, Garbled}
  /\ state \in {WAITING, DONE}
  /\ length \in 0..Chunk
  /\ remaining \in 0..MaxSize
  /\ payload \in [1..Chunk -> Bytes \cup {None}]
  /\ mailbox \in Seq(Requests \cup {More})
  /\ Len(mailbox) <= MailBound
  /\ inHand \in Seq(Requests)
  /\ pagePc \in PagePcs
  /\ tail \in Seq(Bytes)
  /\ Len(tail) <= MaxSize
  /\ flushed \in 0..Chunk
  /\ given \in Replies \cup {None}

\* A call that returns gives back the reply the page made for that very call,
\* with every byte of it in place (the "arrives whole" of channel.test.js).
AnswerArrivesWhole ==
  callerPc = "idle" /\ outcome # None =>
    /\ outcome = given
    /\ outcome.to = request

\* The worker never reads the buffer while the page is writing it: it has copied
\* its piece out before it asks for the next (channel.js:71).
NoTornRead ==
  pagePc \in {"fill", "length", "remaining", "done"} =>
    callerPc \notin {"length", "copy", "more"}

\* Nobody stays blocked: a call that was made comes back.
EveryCallReturns == (callerPc # "idle") ~> (callerPc = "idle")

R == INSTANCE Rpc WITH open <- (callerPc # "idle")

\* Seen through the calls alone, the channel is a plain remote call.
ImplementsRpc == R!Spec

=============================================================================
