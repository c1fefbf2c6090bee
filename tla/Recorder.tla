------------------------------ MODULE Recorder ------------------------------
(***************************************************************************)
(* kxray/replay/record.py feeds commands to a shell behind a pseudo        *)
(* terminal and keeps what the terminal prints; kxray/replay/session.py    *)
(* cuts the recording into steps at the OSC 133 marks the shell prints.    *)
(*                                                                         *)
(* The terminal's bytes are tokens: the four marks, a line as it was       *)
(* typed, and output.  Mark B is two tokens, because a read may end inside *)
(* it.  A read may also end inside a character of a line or of output: it  *)
(* is decoded alone, and the recording has replacement characters there.   *)
(* The shell and the terminal are external.                                *)
(***************************************************************************)
EXTENDS Naturals, Sequences

CONSTANTS
  Commands,   \* how many commands are recorded
  MaxPrinted  \* bound: how many pieces of output a command prints

ASSUME RecorderAssumption ==
  Commands \in Nat /\ MaxPrinted \in Nat

VARIABLES
  ps0,      \* whether this shell prints mark C (bash has since 4.4)
  shell,    \* "start", "done", "drawing", "ready" or "running"
  gone,     \* whether it has exited, or was killed, where it stood
  last,     \* the command the shell ran last, or runs
  input,    \* lines typed at the terminal that the shell has not read
  pipe,     \* what the terminal printed that the recorder has not read
  rec,      \* the recorder: "draining", "sending", "ended" or "failed"
  sent,     \* how many commands it has sent
  cast,     \* what it has read and decoded: its events, joined
  orderly,  \* history: no wait has ended before what it waits for was there
  printed   \* per command, how many pieces of output it has printed

shellVars == <<ps0, shell, gone, last, printed>>
recVars == <<rec, sent, cast, orderly>>
vars == <<shellVars, input, pipe, recVars>>

Kinds == {"A", "B1", "B2", "C", "D", "typed", "out"}
Token(kind, n) == [kind |-> kind, n |-> n]
Mark(kind) == Token(kind, 0)

\* A token as it is in the recording: whole, or with a character replaced.
Decoded(t, whole) == [kind |-> t.kind, n |-> t.n, whole |-> whole]

-----------------------------------------------------------------------------
(* Cutting the recording: steps_of of session.py.                          *)

\* `ran_at`: where mark C ended or, without one, the first newline that was
\* typed, or the end of the text.
RanAt(text, typedAt, ranAt) ==
  IF ranAt > 0 THEN ranAt
  ELSE LET lines == {i \in DOMAIN text : i > typedAt /\ text[i].kind = "typed"}
       IN  IF lines = {} THEN Len(text) ELSE CHOOSE i \in lines : \A j \in lines : i <= j

\* Marks draw nothing.
Visible(t) == t.kind \in {"typed", "out"}

\* What shows of a text, up to each place of it; the provers know nothing of SelectSeq.
ShownUpto(text) ==
  LET shown[i \in 0..Len(text)] ==
        IF i = 0 THEN <<>> ELSE IF Visible(text[i]) THEN Append(shown[i - 1], text[i]) ELSE shown[i - 1]
  IN  shown

Shown(text) == ShownUpto(text)[Len(text)]

\* One step.  The command is what shows of the text before ran_at.
StepOf(text, typedAt, ranAt, doneAt, code, complete) ==
  LET ran == RanAt(text, typedAt, ranAt)
  IN  [command |-> Shown(SubSeq(text, typedAt + 1, ran)),
       output |-> SubSeq(text, ran + 1, doneAt - 1),
       code |-> code,
       complete |-> complete]

\* Mutant of AtMark: a mark D ends a step even where none has begun.
AtMark_AnyDone(text, cut, i) ==
  CASE text[i].kind = "B2" -> [cut EXCEPT !.typedAt = i, !.ranAt = 0]
    [] text[i].kind = "C" /\ cut.typedAt > 0 -> [cut EXCEPT !.ranAt = i]
    [] text[i].kind = "D" ->
         [steps |-> Append(cut.steps,
                      StepOf(text, cut.typedAt, cut.ranAt, i, text[i].n, TRUE)),
          typedAt |-> 0, ranAt |-> 0]
    [] OTHER -> cut

\* The body of the loop over the marks; 0 stands for a position that is None.
AtMark(text, cut, i) ==
  CASE text[i].kind = "B2" -> [cut EXCEPT !.typedAt = i, !.ranAt = 0]
    [] text[i].kind = "C" /\ cut.typedAt > 0 -> [cut EXCEPT !.ranAt = i]
    [] text[i].kind = "D" /\ cut.typedAt > 0 ->
         [steps |-> Append(cut.steps,
                      StepOf(text, cut.typedAt, cut.ranAt, i, text[i].n, TRUE)),
          typedAt |-> 0, ranAt |-> 0]
    [] OTHER -> cut

NoneYet == [steps |-> <<>>, typedAt |-> 0, ranAt |-> 0]

\* What the loop knows at each place of the text.
Cuts(text) ==
  LET cut[i \in 0..Len(text)] == IF i = 0 THEN NoneYet ELSE AtMark(text, cut[i - 1], i)
  IN  cut

HasPrompt(text) == \E i \in DOMAIN text : text[i].kind = "B2"

\* `_whole`: a recording without a prompt in it is one step.
WholeOf(text) == [command |-> <<>>, output |-> text, code |-> 0, complete |-> TRUE]

StepsOf(text) ==
  LET cut  == Cuts(text)[Len(text)]
      rest == StepOf(text, cut.typedAt, cut.ranAt, Len(text) + 1, 0, FALSE)
  IN  IF ~HasPrompt(text) THEN <<WholeOf(text)>>
      ELSE IF cut.typedAt > 0 /\ rest.command # <<>> THEN Append(cut.steps, rest)
      ELSE cut.steps

-----------------------------------------------------------------------------
Init ==
  /\ ps0 \in BOOLEAN
  /\ shell = "start"
  /\ gone = FALSE
  /\ last = 0
  /\ input = <<>>
  /\ pipe = <<>>
  /\ rec = "draining"
  /\ sent = 0
  /\ cast = <<>>
  /\ orderly = TRUE
  /\ printed = [c \in 1..Commands |-> 0]

(* The shell.                                                              *)

\* PROMPT_COMMAND: the status of what ran last.
PrintDone ==
  /\ ~gone
  /\ shell \in {"start", "done"}
  /\ shell' = "drawing"
  /\ pipe' = Append(pipe, Token("D", last))
  /\ UNCHANGED <<ps0, gone, last, printed, input, recVars>>

\* PS1, between its two marks.
DrawPrompt ==
  /\ ~gone
  /\ shell = "drawing"
  /\ shell' = "ready"
  /\ pipe' = pipe \o <<Mark("A"), Mark("B1"), Mark("B2")>>
  /\ UNCHANGED <<ps0, gone, last, printed, input, recVars>>

\* The line editor echoes the line it reads, and PS0 follows.
ReadLine ==
  /\ ~gone
  /\ shell = "ready"
  /\ input # <<>>
  /\ shell' = "running"
  /\ last' = Head(input)
  /\ input' = Tail(input)
  /\ pipe' = pipe \o <<Token("typed", Head(input))>> \o (IF ps0 THEN <<Mark("C")>> ELSE <<>>)
  /\ UNCHANGED <<ps0, gone, printed, recVars>>

PrintOutput ==
  /\ ~gone
  /\ shell = "running"
  /\ printed[last] < MaxPrinted
  /\ printed' = [printed EXCEPT ![last] = @ + 1]
  /\ pipe' = Append(pipe, Token("out", last))
  /\ UNCHANGED <<ps0, shell, gone, last, input, recVars>>

Finish ==
  /\ ~gone
  /\ shell = "running"
  /\ shell' = "done"
  /\ UNCHANGED <<ps0, gone, last, printed, input, pipe, recVars>>

\* A command is `exit`, or the shell is killed.
Leave ==
  /\ ~gone
  /\ gone' = TRUE
  /\ UNCHANGED <<ps0, shell, last, printed, input, pipe, recVars>>

-----------------------------------------------------------------------------
(* The recorder.                                                           *)

\* Mutant of Prompt: waits for the end of the command, not for the prompt.
Prompt_AtDone(chunk) == \E i \in 1..Len(chunk) : chunk[i].kind = "D"

\* _prompt: looks for mark B in one chunk.
Prompt(chunk) ==
  \E i \in 1..(Len(chunk) - 1) : chunk[i].kind = "B1" /\ chunk[i + 1].kind = "B2"

\* A chunk decoded alone: its last character may have been cut in two.  What is
\* left of the token then counts as read with it.
DecodedChunk(chunk, whole) ==
  [i \in 1..Len(chunk) |-> Decoded(chunk[i], i < Len(chunk) \/ whole)]

\* One read of _drain, which returns whatever has arrived by then.
Drain ==
  /\ rec = "draining"
  /\ \E k \in 1..Len(pipe), whole \in BOOLEAN :
       LET chunk == SubSeq(pipe, 1, k)
       IN  /\ ~whole => Visible(pipe[k])
           /\ cast' = cast \o DecodedChunk(chunk, whole)
           /\ pipe' = SubSeq(pipe, k + 1, Len(pipe))
           /\ rec' = IF Prompt(chunk) THEN "sending" ELSE rec
  /\ UNCHANGED <<shellVars, input, sent, orderly>>

\* The shell waits at its prompt, and all it printed has been read.
Still == shell = "ready" /\ input = <<>> /\ pipe = <<>>

\* Mutant of GiveUp: the deadline starts again.
GiveUp_Never ==
  /\ rec = "draining"
  /\ UNCHANGED vars

\* _drain gives up: the deadline passes (30 seconds for the first prompt, four
\* hours for a command), and its caller goes on regardless.
GiveUp ==
  /\ rec = "draining"
  /\ rec' = "sending"
  /\ orderly' = (orderly /\ Still)
  /\ UNCHANGED <<shellVars, input, pipe, sent, cast>>

\* _drain returns: there is nobody at the other end, and its caller goes on.
HangUp ==
  /\ rec = "draining"
  /\ gone /\ pipe = <<>>
  /\ rec' = "sending"
  /\ orderly' = FALSE
  /\ UNCHANGED <<shellVars, input, pipe, sent, cast>>

\* The next command; outside its line editor the terminal echoes it at once,
\* and with nobody there it goes nowhere.
SendNext ==
  /\ rec = "sending"
  /\ sent < Commands
  /\ sent' = sent + 1
  /\ input' = Append(input, sent + 1)
  /\ pipe' = IF shell = "ready" \/ gone THEN pipe ELSE Append(pipe, Token("typed", sent + 1))
  /\ rec' = "draining"
  /\ UNCHANGED <<shellVars, cast, orderly>>

\* No more of them.  What the shell prints from here on is thrown away, and when
\* it does not exit in time nothing is saved.
End ==
  /\ rec = "sending"
  /\ sent = Commands
  /\ rec' = "ended" \/ (~gone /\ rec' = "failed")
  /\ UNCHANGED <<shellVars, input, pipe, sent, cast, orderly>>

-----------------------------------------------------------------------------
Shell == PrintDone \/ DrawPrompt \/ ReadLine \/ PrintOutput \/ Finish

Next == Shell \/ Leave \/ Drain \/ GiveUp \/ HangUp \/ SendNext \/ End

Spec == Init /\ [][Next]_vars

\* The recorder's loop goes round; nothing is assumed of the shell.
FairSpec ==
  /\ Spec
  /\ WF_vars(Drain) /\ WF_vars(GiveUp \/ HangUp) /\ WF_vars(SendNext) /\ WF_vars(End)

-----------------------------------------------------------------------------
Tokens == [kind : Kinds, n : 0..Commands]
DecodedTokens == [kind : Kinds, n : 0..Commands, whole : BOOLEAN]

\* Every variable holds a value the code could put there.
TypeOK ==
  /\ ps0 \in BOOLEAN
  /\ shell \in {"start", "done", "drawing", "ready", "running"}
  /\ gone \in BOOLEAN
  /\ last \in 0..Commands
  /\ input \in Seq(1..Commands)
  /\ pipe \in Seq(Tokens)
  /\ rec \in {"draining", "sending", "ended", "failed"}
  /\ sent \in 0..Commands
  /\ cast \in Seq(DecodedTokens)
  /\ orderly \in BOOLEAN
  /\ printed \in [1..Commands -> 0..MaxPrinted]

\* Nothing is sent before the shell waits at its prompt, with everything sent
\* before read and done (record.py:89-92); unless a wait ended early, at its
\* deadline or because the shell was gone.
SentOnlyAfterFinished == orderly /\ rec = "sending" => shell = "ready" /\ input = <<>>

\* The step a command makes: what was typed, what it printed and its own status.
StepFor(c) ==
  [command |-> <<Token("typed", c)>>, output |-> [i \in 1..printed[c] |-> Token("out", c)],
   code |-> c, complete |-> TRUE]

\* What was printed, for what was recorded: the replaced characters put back.
Restored(text) == [i \in 1..Len(text) |-> Token(text[i].kind, text[i].n)]

RestoredStep(step) ==
  [command |-> Restored(step.command), output |-> Restored(step.output),
   code |-> step.code, complete |-> step.complete]

\* Wherever the reads happened to cut the stream, once a prompt was read a step
\* of the session is one command: what was typed, what it printed and its own
\* status, in order, but for the characters a read ended inside of
\* (record.py:191); and at the end there is one for each command.  So long as no
\* wait ended early.
StepsAreCommands ==
  LET steps == StepsOf(cast)
  IN  orderly =>
        /\ HasPrompt(cast) =>
             \A c \in 1..Len(steps) : steps[c].complete => RestoredStep(steps[c]) = StepFor(c)
        /\ rec = "ended" =>
             /\ Len(steps) = Commands
             /\ \A c \in 1..Commands : RestoredStep(steps[c]) = StepFor(c)

\* The recorder comes to its end, whatever the shell does: when a mark was cut in
\* two, when a command never finishes and when the shell is gone.
RecordingEnds == <>(rec \in {"ended", "failed"})

\* "The next one is not sent until the shell says the last one finished"
\* (record.py:109-110).
LastOneFinished ==
  orderly /\ rec = "sending" /\ sent > 0 => last = sent /\ shell # "running"

\* "Whether a prompt has been drawn and the shell is ready to be typed at"
\* (record.py:87): with the prompt read to its end, nobody waits for it.
PromptIsSeen == orderly /\ Still => rec # "draining"
=============================================================================
