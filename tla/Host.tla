-------------------------------- MODULE Host --------------------------------
(***************************************************************************)
(* The Host class of kxbox/web/host.js over a guest that settles commands  *)
(* one at a time (ShellCalls): requests become lists of shell commands,    *)
(* and a write becomes several of them that share two scratch files.       *)
(*                                                                         *)
(* A command whose deadline passed is still in the shell's input and may   *)
(* run later, which is the reason the order of things matters here.        *)
(***************************************************************************)
EXTENDS Naturals, Sequences, FiniteSets

CONSTANTS
  Requesters,  \* who calls Host: the worker's messages, and the page itself
  Writers,     \* those of them that write files
  Texts,       \* what may be written
  PieceCount,  \* per text, how many printf commands its base64 takes
  MaxTyped,    \* bound: no new request while this many commands are unread
  None

ASSUME HostAssumption ==
  /\ Writers \subseteq Requesters
  /\ PieceCount \in [Texts -> Nat]
  /\ MaxTyped \in Nat \ {0}
  /\ None \notin Requesters

\* The allow list of host.js:18, and a request that is not on it.
CALLS == {"sh", "read", "write", "insmod"}
Requests ==
  [call : {"write"}, text : Texts] \cup [call : {"sh", "read", "insmod", "bogus"}]

VARIABLES
  request,   \* per requester: the request being handled, or the last one
  answers,   \* per requester: what Host.handle has answered it with
  todo,      \* per requester: commands of its request not settled yet
  chain,     \* commands chained on Guest.queue and not yet sent
  flight,    \* the command in flight, or None
  result,    \* what has come back for it: "none", "ok" or "failed"
  typed,     \* commands in the shell's input, oldest first
  staging,   \* /tmp/.kx.b64
  decoded,   \* /tmp/.kx.raw
  target,    \* the file the writers write
  faults     \* history: "copy" while the target is what a copy that failed left of a text,
             \* "decode" once base64 has failed and exited 0

askVars == <<request, answers, todo>>
guestVars == <<chain, flight, result, typed>>
fileVars == <<staging, decoded, target, faults>>
vars == <<askVars, guestVars, fileVars>>

-----------------------------------------------------------------------------
Whole(t) == [i \in 1..PieceCount[t] |-> <<t, i>>]
Original == <<None>>

Op(op) == [op |-> op, piece |-> None]

\* Mutant of writeCommands: the staging file is not emptied first.
writeCommands_NoClear(t) ==
  [i \in 1..PieceCount[t] |-> [op |-> "append", piece |-> <<t, i>>]]
  \o <<Op("decode"), Op("copy")>>

\* writeCommands of guest.js.
writeCommands(t) ==
  <<Op("clear")>>
  \o [i \in 1..PieceCount[t] |-> [op |-> "append", piece |-> <<t, i>>]]
  \o <<Op("decode"), Op("copy")>>

Script(q) == IF q.call = "write" THEN writeCommands(q.text) ELSE <<Op(q.call)>>

Busy(r) == request[r] # None /\ answers[r] = <<>>

\* Mutant of Insists: a write does not look at the status of its commands.
Insists_OnReadsOnly(r) == request[r].call = "read"

\* `sh` and `insmod` hand a bad status back; the others insist on a good one.
Insists(r) == request[r].call \in {"read", "write"}

-----------------------------------------------------------------------------
Init ==
  /\ request = [r \in Requesters |-> None]
  /\ answers = [r \in Requesters |-> <<>>]
  /\ todo = [r \in Requesters |-> <<>>]
  /\ chain = <<>>
  /\ flight = None
  /\ result = "none"
  /\ typed = <<>>
  /\ staging = <<>>
  /\ decoded = <<>>
  /\ target = Original
  /\ faults = {}

(* Host.handle up to its first await. *)
Handle(r, q) ==
  /\ ~Busy(r)
  /\ q.call \in CALLS
  /\ q.call = "write" => r \in Writers
  /\ Len(typed) + Cardinality({b \in Requesters : Busy(b)}) < MaxTyped
  /\ request' = [request EXCEPT ![r] = q]
  /\ answers' = [answers EXCEPT ![r] = <<>>]
  /\ todo' = [todo EXCEPT ![r] = Script(q)]
  /\ chain' = Append(chain, [by |-> r, cmd |-> Head(Script(q))])
  /\ UNCHANGED <<flight, result, typed, fileVars>>

\* Not on the allow list: answered without troubling the guest.
HandleUnknown(r, q) ==
  /\ ~Busy(r)
  /\ q.call \notin CALLS
  /\ request' = [request EXCEPT ![r] = q]
  /\ answers' = [answers EXCEPT ![r] = <<"failed">>]
  /\ UNCHANGED <<todo, guestVars, fileVars>>

(* Guest.send of the next command in the chain. *)
Send ==
  /\ flight = None
  /\ chain # <<>>
  /\ flight' = Head(chain)
  /\ chain' = Tail(chain)
  /\ typed' = Append(typed, Head(chain).cmd)
  /\ UNCHANGED <<askVars, result, fileVars>>

\* Mutant of Answer: the loop goes on with the commands after the one that failed.
Answer_GoesOn(r, how) ==
  /\ answers' = [answers EXCEPT ![r] = Append(@, how)]
  /\ todo' = [todo EXCEPT ![r] = Tail(@)]
  /\ chain' = IF Len(todo[r]) > 1 THEN Append(chain, [by |-> r, cmd |-> todo[r][2]]) ELSE chain

\* The request of r is over.
Answer(r, how) ==
  /\ answers' = [answers EXCEPT ![r] = Append(@, how)]
  /\ todo' = [todo EXCEPT ![r] = <<>>]
  /\ UNCHANGED chain

\* The loop of Host.write goes round.
NextCommand(r) ==
  /\ todo' = [todo EXCEPT ![r] = Tail(@)]
  /\ chain' = Append(chain, [by |-> r, cmd |-> todo[r][2]])
  /\ UNCHANGED answers

(* The promise of the command in flight resolves. *)
Resolve ==
  /\ flight # None
  /\ result # "none"
  /\ LET r == flight.by
     IN  \/ result = "failed" /\ Insists(r) /\ Answer(r, "failed")
         \/ ~(result = "failed" /\ Insists(r)) /\ Len(todo[r]) > 1 /\ NextCommand(r)
         \/ ~(result = "failed" /\ Insists(r)) /\ Len(todo[r]) = 1 /\ Answer(r, "value")
  /\ flight' = None
  /\ result' = "none"
  /\ UNCHANGED <<request, typed, fileVars>>

\* Mutant of Expire: the promise of the command is never settled.
Expire_Silently ==
  /\ flight # None
  /\ flight' = None
  /\ result' = "none"
  /\ UNCHANGED <<askVars, chain, typed, fileVars>>

(* Its deadline passes first, whether or not the shell has run it. *)
Expire ==
  /\ flight # None
  /\ Answer(flight.by, "failed")
  /\ flight' = None
  /\ result' = "none"
  /\ UNCHANGED <<request, typed, fileVars>>

-----------------------------------------------------------------------------
(* The shell runs the oldest command it was sent.                          *)

Effect(c) ==
  \/ c.op = "clear" /\ staging' = <<>> /\ UNCHANGED <<decoded, target, faults>>
  \/ c.op = "append" /\ staging' = Append(staging, c.piece) /\ UNCHANGED <<decoded, target, faults>>
  \/ c.op = "decode" /\ decoded' = staging /\ UNCHANGED <<staging, target, faults>>
  \/ c.op = "copy" /\ target' = decoded /\ faults' = faults \ {"copy"} /\ UNCHANGED <<staging, decoded>>
  \/ c.op \in CALLS /\ UNCHANGED fileVars

\* What there is of a text that was not written to its end, to the precision of its pieces.
Starts(text) == {SubSeq(text, 1, n) : n \in 0..Len(text)}

\* A command that fails may have opened its file: the redirect has truncated it, if it is one that
\* can be truncated, and what was written before the failure is in it.
Fails(c) ==
  \/ UNCHANGED fileVars
  \/ c.op = "append" /\ staging' = Append(staging, c.piece) /\ UNCHANGED <<decoded, target, faults>>
  \/ c.op = "decode" /\ decoded' \in Starts(staging) /\ UNCHANGED <<staging, target, faults>>
  \/ /\ c.op = "copy"
     /\ target' \in Starts(decoded) /\ faults' = faults \cup {"copy"}
     /\ UNCHANGED <<staging, decoded>>

\* base64 exits 0 when a write of its output fails (guest.js:111-113).
FailsSilently(c) ==
  /\ c.op = "decode"
  /\ decoded' \in Starts(staging) /\ faults' = faults \cup {"decode"}
  /\ UNCHANGED <<staging, target>>

\* Only the last command sent can still be in flight.
Reply(how) ==
  result' = IF Len(typed) = 1 /\ flight # None THEN how ELSE result

Execute ==
  /\ typed # <<>>
  /\ typed' = Tail(typed)
  /\ \/ Effect(Head(typed)) /\ Reply("ok")
     \/ Fails(Head(typed)) /\ Reply("failed")
     \/ FailsSilently(Head(typed)) /\ Reply("ok")
  /\ UNCHANGED <<askVars, chain, flight>>

-----------------------------------------------------------------------------
Next ==
  \/ \E r \in Requesters, q \in Requests : Handle(r, q)
  \/ \E r \in Requesters, q \in Requests : HandleUnknown(r, q)
  \/ Send \/ Resolve \/ Expire \/ Execute

Spec == Init /\ [][Next]_vars

\* The page's event loop runs and its timers fire; the guest may wedge.
FairSpec == Spec /\ WF_vars(Send) /\ WF_vars(Resolve \/ Expire)

-----------------------------------------------------------------------------
Commands == [op : CALLS \cup {"clear", "decode", "copy"}, piece : {None}]
            \cup [op : {"append"}, piece : Texts \X Nat]

\* None is neither a request nor a command on its way.
ASSUME NoneAssumption == None \notin Requests \cup [by : Requesters, cmd : Commands]

\* Every variable holds a value the code could put there.
TypeOK ==
  /\ request \in [Requesters -> Requests \cup {None}]
  /\ answers \in [Requesters -> Seq({"value", "failed"})]
  /\ todo \in [Requesters -> Seq(Commands)]
  /\ chain \in Seq([by : Requesters, cmd : Commands])
  /\ flight \in [by : Requesters, cmd : Commands] \cup {None}
  /\ result \in {"none", "ok", "failed"}
  /\ typed \in Seq(Commands)
  /\ staging \in Seq(Texts \X Nat)
  /\ decoded \in Seq(Texts \X Nat)
  /\ target \in Seq(Texts \X Nat) \cup {Original}
  /\ faults \subseteq {"decode", "copy"}

\* Whatever failed, expired or ran late on the way, the file a write goes to
\* never holds a mixture of two texts or pieces out of order, and it holds part
\* of one only when the copy itself failed, or base64 did without saying so
\* (guest.js:104-114).
TargetWhole ==
  /\ target \in {Original} \cup UNION {Starts(Whole(t)) : t \in Texts}
  /\ faults = {} => target \in {Original} \cup {Whole(t) : t \in Texts}

\* A write that was answered with success has landed whole, and nothing left
\* over from an earlier one lands on top of it, as long as base64 has not failed
\* without saying so.
WriteLands ==
  \A r \in Writers :
    /\ request[r] # None /\ request[r].call = "write" /\ answers[r] = <<"value">>
    /\ "decode" \notin faults
    => target = Whole(request[r].text)

\* A request is answered no more than once, and nothing of it is left in the
\* guest's queue when it has been: the next request would get the wrong answer
\* (host.js:112-114).
AnswersOnce ==
  \A r \in Requesters :
    /\ Len(answers[r]) <= 1
    /\ ~Busy(r) => \A i \in DOMAIN chain : chain[i].by # r

\* The worker is blocked on its answer, so there always is one, even from a
\* guest that has wedged.
EveryRequestAnswered == \A r \in Requesters : Busy(r) ~> ~Busy(r)

=============================================================================
