------------------------------- MODULE Guest -------------------------------
(***************************************************************************)
(* kxbox/web/guest.js and the Guest class of kxbox/web/host.js: commands   *)
(* sent to a busybox shell over a serial line, and their answers read back *)
(* out of a stream that also carries the echo and the kernel's console.    *)
(*                                                                         *)
(* The stream is a sequence of tokens: a marker, a digit of a status, a    *)
(* piece of text or a newline.  Tokens arrive one at a time, as bytes do.  *)
(* The shell, the terminal and the kernel's console are outside src/ and   *)
(* modelled from what guest.js sends and expects.                          *)
(***************************************************************************)
EXTENDS Naturals, Sequences, FiniteSets, FiniteSetsExt

CONSTANTS
  MaxCalls,   \* bound: how many commands are ever asked for
  MaxNoise,   \* bound: how many console lines the kernel prints
  Commands    \* what callers may ask for: how the command behaves, its status

ASSUME GuestAssumption ==
  /\ MaxCalls \in Nat \ {0}
  /\ MaxNoise \in Nat
  /\ Commands \subseteq [kind : {"ends", "hangs", "eats"}, status : Seq(0..9)]
  /\ \A c \in Commands :
       /\ c.status # <<>>
       /\ c.status[1] = 0 => c.status = <<0>>   \* %d prints no leading zero

Pending == [kind |-> "pending"]
TimedOut == [kind |-> "timeout"]

VARIABLES
  cmd,      \* per call, in the order asked for: its command
  outcome,  \* per call: pending, timed out, or the reply
  queue,    \* calls chained on Guest.queue and not yet sent
  waiting,  \* the call in flight, or 0 (Guest.waiting)
  stream,   \* what has arrived for it so far
  typed,    \* commands in the terminal's input buffer
  shell,    \* the command the shell is running, or 0
  ran,      \* the calls whose command ran to the end
  wire,     \* tokens on their way to the page
  noise     \* console lines still to come

hostVars == <<outcome, queue, waiting, stream>>
guestVars == <<typed, shell, ran, wire, noise>>
vars == <<cmd, hostVars, guestVars>>

Calls == 1..Len(outcome)

-----------------------------------------------------------------------------
(* The stream.                                                             *)

Tok(what, id) == [what |-> what, id |-> id]
Newline == Tok("newline", 0)
Echo == Tok("echo", 0)
Console == Tok("console", 0)
Torn == Tok("torn", 0)
Out(id) == Tok("stdout", id)
Err(id) == Tok("stderr", id)
Digits(status) == [i \in 1..Len(status) |-> Tok("digit", status[i])]

\* A marker is printed with a newline on each side, so that it has a line of
\* its own whatever was printed before it.
Marker(what, id) == <<Newline, Tok(what, id), Newline>>

BegPart(id) == Marker("BEG", id)
ErrPart(id) == Marker("ERR", id)
EndPart(id, status) == <<Newline, Tok("END", id)>> \o Digits(status) \o <<Newline>>

\* The terminal echoes what is typed; none of it is a marker on its own line.
EchoPart == <<Echo, Newline>>

StderrPart(id) == IF cmd[id].status = <<0>> THEN <<>> ELSE <<Err(id)>>

-----------------------------------------------------------------------------
(* parseReply: reading an answer out of the stream.                        *)

StartsLine(s, p) == p = 1 \/ s[p - 1] = Newline

\* The line that starts at p has all arrived.
Finished(s, p) == \E q \in (p + 1)..Len(s) : s[q] = Newline

\* Mutant of LinesOf: takes the marker of any command.
LinesOf_AnyCommand(s, what, id) ==
  {p \in 1..Len(s) : s[p].what = what /\ StartsLine(s, p) /\ Finished(s, p)}

\* Mutant of LinesOf: takes a line that has not all arrived.
LinesOf_Partial(s, what, id) ==
  {p \in 1..(Len(s) - 1) : s[p] = Tok(what, id) /\ StartsLine(s, p)}

\* Positions of complete lines that are exactly, or start with, this marker.
LinesOf(s, what, id) ==
  {p \in 1..Len(s) : s[p] = Tok(what, id) /\ StartsLine(s, p) /\ Finished(s, p)}

MarkerLines(s, what, id) == {p \in LinesOf(s, what, id) : s[p + 1] = Newline}

FirstOf(S) == IF S = {} THEN 0 ELSE Min(S)

\* parseInt: the digits up to the first thing that is not one.
StatusAt(s, p) ==
  LET stops == {q \in (p + 1)..Len(s) : s[q].what # "digit"} \cup {Len(s) + 1}
  IN  [i \in 1..(Min(stops) - p - 1) |-> s[p + i].id]

NotYet == [kind |-> "not yet"]
Unreadable == [kind |-> "unreadable"]

\* Mutant of parseReply: a status that cannot be read is a success.
parseReply_DefaultsToZero(id, s) ==
  LET beg == FirstOf(MarkerLines(s, "BEG", id))
      err == FirstOf(MarkerLines(s, "ERR", id))
      end == FirstOf(LinesOf(s, "END", id))
  IN  IF beg = 0 \/ err < beg \/ end < err THEN NotYet
      ELSE [kind |-> "reply",
            status |-> IF StatusAt(s, end) = <<>> THEN <<0>> ELSE StatusAt(s, end),
            stdout |-> SubSeq(s, beg + 2, err - 2),
            stderr |-> SubSeq(s, err + 2, end - 2)]

parseReply(id, s) ==
  LET beg == FirstOf(MarkerLines(s, "BEG", id))
      err == FirstOf(MarkerLines(s, "ERR", id))
      end == FirstOf(LinesOf(s, "END", id))
  IN  IF beg = 0 \/ err < beg \/ end < err THEN NotYet
      ELSE IF StatusAt(s, end) = <<>> THEN Unreadable
      ELSE [kind |-> "reply",
            status |-> StatusAt(s, end),
            stdout |-> SubSeq(s, beg + 2, err - 2),
            stderr |-> SubSeq(s, err + 2, end - 2)]

-----------------------------------------------------------------------------
Init ==
  /\ cmd = <<>>
  /\ outcome = <<>>
  /\ queue = <<>>
  /\ waiting = 0
  /\ stream = <<>>
  /\ typed = <<>>
  /\ shell = 0
  /\ ran = {}
  /\ wire = <<>>
  /\ noise = MaxNoise

(* Guest.run: chain the command on the ones before it. *)
Run(c) ==
  /\ Len(outcome) < MaxCalls
  /\ cmd' = Append(cmd, c)
  /\ outcome' = Append(outcome, Pending)
  /\ queue' = Append(queue, Len(outcome) + 1)
  /\ UNCHANGED <<waiting, stream, guestVars>>

\* Mutant of Send: does not wait for the command before it.
Send_AtOnce ==
  /\ queue # <<>>
  /\ waiting' = Head(queue)
  /\ queue' = Tail(queue)
  /\ stream' = <<>>
  /\ typed' = Append(typed, Head(queue))
  /\ wire' = wire \o EchoPart
  /\ UNCHANGED <<cmd, outcome, shell, ran, noise>>

(* Guest.send, once the promise before it has settled either way. *)
Send ==
  /\ waiting = 0
  /\ queue # <<>>
  /\ waiting' = Head(queue)
  /\ queue' = Tail(queue)
  /\ stream' = <<>>
  /\ typed' = Append(typed, Head(queue))
  /\ wire' = wire \o EchoPart
  /\ UNCHANGED <<cmd, outcome, shell, ran, noise>>

\* Mutant of Expire: leaves the guest waiting for a call nobody waits for.
Expire_StillWaiting ==
  /\ waiting # 0
  /\ outcome' = [outcome EXCEPT ![waiting] = TimedOut]
  /\ UNCHANGED <<cmd, queue, waiting, stream, guestVars>>

(* The deadline passes first. *)
Expire ==
  /\ waiting # 0
  /\ outcome' = [outcome EXCEPT ![waiting] = TimedOut]
  /\ waiting' = 0
  /\ stream' = <<>>
  /\ UNCHANGED <<cmd, queue, guestVars>>

(* Guest.arrived with nobody waiting: whatever it is, it is dropped. *)
Drop ==
  /\ wire # <<>>
  /\ waiting = 0
  /\ wire' = Tail(wire)
  /\ UNCHANGED <<cmd, hostVars, typed, shell, ran, noise>>

(* Guest.arrived, and the answer is not complete.  A status that cannot be *)
(* read throws out of the listener, which leaves the call waiting as well. *)
Collect ==
  /\ wire # <<>>
  /\ waiting # 0
  /\ stream' = Append(stream, Head(wire))
  /\ parseReply(waiting, stream').kind # "reply"
  /\ wire' = Tail(wire)
  /\ UNCHANGED <<cmd, outcome, queue, waiting, typed, shell, ran, noise>>

(* Guest.arrived with the token that completes the answer. *)
Complete ==
  /\ wire # <<>>
  /\ waiting # 0
  /\ LET reply == parseReply(waiting, Append(stream, Head(wire)))
     IN  /\ reply.kind = "reply"
         /\ outcome' = [outcome EXCEPT ![waiting] = reply]
  /\ waiting' = 0
  /\ stream' = <<>>
  /\ wire' = Tail(wire)
  /\ UNCHANGED <<cmd, queue, typed, shell, ran, noise>>

-----------------------------------------------------------------------------
(* The far end.                                                            *)

\* The shell reads the next command, prints its first marker and its output.
ShellStart ==
  /\ shell = 0
  /\ typed # <<>>
  /\ shell' = Head(typed)
  /\ typed' = Tail(typed)
  /\ wire' = wire \o BegPart(Head(typed)) \o <<Out(Head(typed))>>
  /\ UNCHANGED <<cmd, hostVars, ran, noise>>

\* The command ends: the other two markers, its stderr and its status.
ShellFinish ==
  /\ shell # 0
  /\ cmd[shell].kind = "ends"
  /\ wire' = wire \o ErrPart(shell) \o StderrPart(shell) \o EndPart(shell, cmd[shell].status)
  /\ ran' = ran \cup {shell}
  /\ shell' = 0
  /\ UNCHANGED <<cmd, hostVars, typed, noise>>

\* A command that reads its standard input reads the next command typed, and
\* then ends; the half line left over is a syntax error on the console.
ShellEats ==
  /\ shell # 0
  /\ cmd[shell].kind = "eats"
  /\ typed # <<>>
  /\ typed' = Tail(typed)
  /\ wire' = wire \o ErrPart(shell) \o StderrPart(shell)
                  \o EndPart(shell, cmd[shell].status) \o <<Console, Newline>>
  /\ ran' = ran \cup {shell}
  /\ shell' = 0
  /\ UNCHANGED <<cmd, hostVars, noise>>

\* A kernel message goes out ahead of the next token.
Printk ==
  /\ noise > 0
  /\ noise' = noise - 1
  /\ wire' = <<Console, Newline>> \o wire
  /\ UNCHANGED <<cmd, hostVars, typed, shell, ran>>

\* The same, in the middle of a marker's own characters.
PrintkTearsMarker ==
  /\ noise > 0
  /\ wire # <<>>
  /\ Head(wire).what \in {"BEG", "ERR", "END"}
  /\ noise' = noise - 1
  /\ wire' = <<Torn, Console, Newline, Torn>> \o Tail(wire)
  /\ UNCHANGED <<cmd, hostVars, typed, shell, ran>>

-----------------------------------------------------------------------------
Next ==
  \/ \E c \in Commands : Run(c)
  \/ Send \/ Expire \/ Drop \/ Collect \/ Complete
  \/ ShellStart \/ ShellFinish \/ ShellEats
  \/ Printk \/ PrintkTearsMarker

Spec == Init /\ [][Next]_vars

\* The page's event loop runs and its timers fire.  Nothing is assumed of the
\* guest, which may wedge.
FairSpec == Spec /\ WF_vars(Send) /\ WF_vars(Expire)

-----------------------------------------------------------------------------
Replies(id) == outcome[id].kind = "reply"

TokenKinds == {"newline", "echo", "console", "torn", "stdout", "stderr",
               "BEG", "ERR", "END"}
Tokens == [what : TokenKinds, id : Nat] \cup [what : {"digit"}, id : 0..9]
Outcomes ==
  {Pending, TimedOut} \cup
  [kind : {"reply"}, status : Seq(0..9), stdout : Seq(Tokens), stderr : Seq(Tokens)]

\* Every variable holds a value the code could put there.
TypeOK ==
  /\ cmd \in Seq(Commands)
  /\ Len(cmd) = Len(outcome)
  /\ outcome \in Seq(Outcomes)
  /\ queue \in Seq(Calls)
  /\ waiting \in Calls \cup {0}
  /\ stream \in Seq(Tokens)
  /\ typed \in Seq(Calls)
  /\ shell \in Calls \cup {0}
  /\ ran \subseteq Calls
  /\ wire \in Seq(Tokens)
  /\ noise \in 0..MaxNoise

\* A failed command is never reported as a success nor the reverse, whatever
\* the console prints and however late an answer comes (guest.js:59-63, 73-75).
NoFalseVerdict ==
  \A id \in Calls : Replies(id) =>
    (outcome[id].status = <<0>> <=> cmd[id].status = <<0>>)

\* The output in a reply is that of its own command, all of it, never that of
\* a command that was given up on earlier (guest.js:13-14).
OwnOutputOnly ==
  \A id \in Calls : Replies(id) =>
    /\ \E i \in DOMAIN outcome[id].stdout : outcome[id].stdout[i] = Out(id)
    /\ \A i \in DOMAIN outcome[id].stdout :
         outcome[id].stdout[i].what \in {"stdout", "stderr"} => outcome[id].stdout[i] = Out(id)
    /\ \A i \in DOMAIN outcome[id].stderr :
         outcome[id].stderr[i].what \in {"stdout", "stderr"} => outcome[id].stderr[i] = Err(id)

\* With a quiet console the reply is exact to the newline, and an answer that
\* has all arrived has been recognised (guest.js:86-89).
ExactWhenQuiet ==
  noise = MaxNoise =>
    /\ \A id \in Calls : Replies(id) =>
         /\ outcome[id].status = cmd[id].status
         /\ outcome[id].stdout = <<Out(id)>>
         /\ outcome[id].stderr = StderrPart(id)
    /\ ~(waiting \in ran /\ wire = <<>>)

\* Every command that was asked for is settled, even by a guest that wedged.
EveryCallSettles ==
  \A id \in 1..MaxCalls :
    (id \in Calls) ~> (id \in Calls /\ outcome[id] # Pending)

\* Seen from its callers the guest is a queue of commands settled in order.
Verdict(o) ==
  IF o.kind # "reply" THEN o.kind
  ELSE IF o.status = <<0>> THEN "ok" ELSE "failed"

S == INSTANCE ShellCalls WITH
       works <- [id \in 1..Len(cmd) |-> cmd[id].status = <<0>>],
       outcome <- [id \in 1..Len(outcome) |-> Verdict(outcome[id])]

ImplementsShellCalls == S!Spec

=============================================================================
