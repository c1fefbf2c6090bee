------------------------------- MODULE Replay -------------------------------
(***************************************************************************)
(* A recorded session, kxray/replay: the cast file as record.py writes it  *)
(* and cast.py reads it, the screen terminal.py draws from it, the steps   *)
(* session.py cuts it into, and the notes beside it.  Text is a sequence   *)
(* of tokens: [k |-> "char", v |-> ...], the controls among them being     *)
(* "nl", "cr", "bs" and "tab"; [k |-> "mark", v |-> letter, code |-> ...]  *)
(* for the shell's marks; and [k |-> "escape"].  Positions count from 0.   *)
(***************************************************************************)
EXTENDS Lines

-----------------------------------------------------------------------------
(* terminal.py                                                             *)

TAB == 8

\* strip: the characters, without marks and other escape sequences.
Strip(text) == LET chars == SelectSeq(text, LAMBDA t : t.k = "char")
               IN  [i \in DOMAIN chars |-> chars[i].v]

Blanks(n) == [i \in 1..n |-> " "]
Joined(rows) == FlattenSeq(rows)
Split(chars) ==
    LET Put(rows, c) == IF c = "nl" THEN Append(rows, <<>>)
                        ELSE Append(Front(rows), Append(Last(rows), c))
    IN  FoldLeft(Put, <<<<>>>>, chars)
Trim(row) ==
    LET dark == {i \in DOMAIN row : row[i] # " "}
    IN  IF dark = {} THEN <<>> ELSE SubSeq(row, Min(dark), Max(dark))
TrimEnd(row) ==
    LET dark == {i \in DOMAIN row : row[i] # " "}
    IN  IF dark = {} THEN <<>> ELSE SubSeq(row, 1, Max(dark))

\* _rows: one written line as the rows it took up; at is the column of the cursor.
DrawnRows(chars, width, start) ==
    LET Draw(s, c) ==
          LET padded == s.row \o Blanks(s.at - Len(s.row))
              row    == IF s.at < Len(padded) THEN [padded EXCEPT ![s.at + 1] = c] ELSE Append(padded, c)
          IN  CASE c = "cr"  -> [s EXCEPT !.at = 0]
                [] c = "bs"  -> [s EXCEPT !.at = IF @ = 0 THEN 0 ELSE @ - 1]
                [] c = "tab" -> [s EXCEPT !.at = @ + TAB - (@ % TAB)]
                [] OTHER -> IF width > 0 /\ s.at + 1 >= width
                            THEN [out |-> Append(s.out, row \o Blanks(width - Len(row))), row |-> <<>>, at |-> 0]
                            ELSE [s EXCEPT !.row = row, !.at = @ + 1]
        drawn == FoldLeft(Draw, [out |-> <<>>, row |-> Blanks(start), at |-> start], chars)
    IN  Append(drawn.out, drawn.row)

\* render, lines: the screen, and the screen without the blank rows at its end.
Screen(text, width) ==
    LET lines == Split(Strip(text))
        rows  == FlattenSeq([i \in DOMAIN lines |-> DrawnRows(lines[i], width, 0)])
    IN  [i \in DOMAIN rows |-> TrimEnd(rows[i])]
WithoutBlankEnd(rows) ==
    LET full == {i \in DOMAIN rows : rows[i] # <<>>}
    IN  IF full = {} THEN <<>> ELSE SubSeq(rows, 1, Max(full))
ScreenLines(text, width) == WithoutBlankEnd(Screen(text, width))

\* typed: a line with its wrapping undone.  column: where the cursor is left.
Typed(text, width, start) == Trim(Joined(DrawnRows(Split(Strip(text))[1], width, start)))
Column(text, width) == Len(Last(DrawnRows(Last(Split(Strip(text))), width, 0)))

-----------------------------------------------------------------------------
(* record.py and cast.py.  A row of a cast is a header, a moment, blank,   *)
(* or neither; a moment is output, input or of a kind that is not known.   *)

VERSION == 2
DefaultWidth == 80

\* The end of record: a header and one row for each chunk that was read.
Written(width, events) ==
    <<[k |-> "header", version |-> VERSION, width |-> width]>>
    \o [i \in DOMAIN events |-> [k |-> "moment", at |-> events[i].at, kind |-> "o", text |-> events[i].text]]

\* parse
NoHeader(row) == row.k # "header" \/ row.version # VERSION
RowVerdict(row) ==
    CASE row.k = "blank" \/ (row.k = "moment" /\ row.kind = "i") -> "skipped"
      [] row.k = "moment" /\ row.kind = "o" -> "read"
      [] OTHER -> "unparsed"
ParseCast(rows) ==
    LET body    == Tail(rows)
        account == [i \in DOMAIN body |-> RowVerdict(body[i])]
        read    == SelectSeq(body, LAMBDA r : RowVerdict(r) = "read")
    IN  CASE rows = <<>> -> [error |-> FALSE, width |-> DefaultWidth, moments |-> <<>>, account |-> <<>>]
          [] rows # <<>> /\ NoHeader(rows[1]) -> [error |-> TRUE]
          [] OTHER -> [error |-> FALSE, width |-> rows[1].width, account |-> <<"read">> \o account,
                       moments |-> [i \in DOMAIN read |-> [at |-> read[i].at, text |-> read[i].text]]]

\* Cast.seconds, Cast.text, Cast.at: when the character at an offset was printed.
Seconds(cast) == IF cast.moments = <<>> THEN 0 ELSE Last(cast.moments).at
TextOf(cast) == FlattenSeq([i \in DOMAIN cast.moments |-> cast.moments[i].text])
TimeAt(cast, offset) ==
    LET Upto(n) == FlattenSeq([i \in 1..n |-> cast.moments[i].text])
        after == {n \in DOMAIN cast.moments : offset < Len(Upto(n))}
    IN  IF after = {} THEN Seconds(cast) ELSE cast.moments[Min(after)].at

-----------------------------------------------------------------------------
(* session.py                                                              *)

\* _code: the status a mark D was printed with, when it is a number.
Code(argument) == IF argument \in {<<n>> : n \in 0..255} THEN argument ELSE <<>>

\* A step of a session, before it has a note.
Step(number, command, output, started, seconds, code, complete, width) ==
    [number |-> number, command |-> command, output |-> output, started |-> started, seconds |-> seconds,
     code |-> code, complete |-> complete, note |-> "", width |-> width]

\* Mutant of StepAt: the command is read as if it began in the first column.
StepAt_FirstColumn(cast, s, done, code, complete) ==
    LET text  == TextOf(cast)
        newlines == {i \in s.typed..Len(text) - 1 : text[i + 1].k = "char" /\ text[i + 1].v = "nl"}
        ran   == CASE s.ran # <<>> -> s.ran[1]
                   [] s.ran = <<>> /\ newlines # {} -> Min(newlines) + 1
                   [] OTHER -> Len(text)
        began == TimeAt(cast, Max({0, ran - 1}))
    IN  Step(Len(s.steps), Typed(SubSeq(text, s.typed + 1, ran), cast.width, 0), SubSeq(text, ran + 1, done),
             began, Max({0, TimeAt(cast, done) - began}), Code(code), complete, cast.width)

\* _step: from where the prompt ended to where the command was said to be over.  ran is where
\* the command was said to begin, or else after the first newline that was typed.
StepAt(cast, s, done, code, complete) ==
    LET text     == TextOf(cast)
        newlines == {i \in s.typed..Len(text) - 1 : text[i + 1].k = "char" /\ text[i + 1].v = "nl"}
        ran      == CASE s.ran # <<>> -> s.ran[1]
                      [] s.ran = <<>> /\ newlines # {} -> Min(newlines) + 1
                      [] OTHER -> Len(text)
        Cut(a, b) == SubSeq(text, a + 1, b)
        began    == TimeAt(cast, Max({0, ran - 1}))
        command  == Typed(Cut(s.typed, ran), cast.width, Column(Cut(s.prompt, s.typed), cast.width))
        seconds  == Max({0, TimeAt(cast, done) - began})
    IN  Step(Len(s.steps), command, Cut(ran, done), began, seconds, Code(code), complete, cast.width)

\* One turn of the loop over the marks; the mark is the token at place i, at offset i - 1.
AtMark(cast, s, i) ==
    LET mark == TextOf(cast)[i]
    IN  CASE mark.v = "A" -> [s EXCEPT !.prompt = i]
          [] mark.v = "B" -> [s EXCEPT !.typed = i, !.ran = <<>>]
          [] mark.v = "C" /\ s.typed >= 0 -> [s EXCEPT !.ran = <<i>>]
          [] mark.v = "D" /\ s.typed >= 0 ->
                [s EXCEPT !.steps = Append(@, StepAt(cast, s, i - 1, mark.code, TRUE)), !.typed = -1, !.ran = <<>>]
          [] OTHER -> s

\* _whole: a recording without marks is one step.
Whole(cast) ==
    Step(0, <<>>, TextOf(cast), 0, Seconds(cast), <<>>, TRUE, cast.width)

\* The end of steps_of: a command that was typed and never said to be over is the last step.
WithLast(cast, s) ==
    IF s.typed < 0 THEN s.steps
    ELSE s.steps \o SelectSeq(<<StepAt(cast, s, Len(TextOf(cast)), <<>>, FALSE)>>, LAMBDA step : step.command # <<>>)

\* steps_of
StepsOf(cast) ==
    LET text  == TextOf(cast)
        marks == {i \in DOMAIN text : text[i].k = "mark"}
        Turn(s, i) == IF i \in marks THEN AtMark(cast, s, i) ELSE s
    IN  IF \A i \in marks : text[i].v # "B" THEN <<Whole(cast)>>
        ELSE WithLast(cast, FoldLeftDomain(Turn, [steps |-> <<>>, prompt |-> 0, typed |-> -1, ran |-> <<>>], text))

\* Step.worked, Step.status; Session.marked, failures, slowest.
Worked(step) == step.code = <<0>>
Status(step) == CASE ~step.complete -> "never finished"
                  [] step.complete /\ step.code = <<>> -> "status not recorded"
                  [] OTHER -> IF Worked(step) THEN "ok" ELSE "failed"
Marked(steps) == \E i \in DOMAIN steps : steps[i].command # <<>>
Failures(steps) == SelectSeq(steps, LAMBDA s : ~Worked(s))
Slowest(steps) ==
    LET most == {i \in DOMAIN steps : \A j \in DOMAIN steps : steps[i].seconds >= steps[j].seconds}
    IN  IF most = {} THEN <<>> ELSE <<steps[Min(most)]>>

-----------------------------------------------------------------------------
(* notes.py: a note says its step's number and command, and has a text.    *)

Problems(notes, steps) ==
    LET Of(note) == {s \in ToSet(steps) : s.number = note.number}
        Wrong(note) ==
          CASE Of(note) = {} -> {"no such step"}
            [] Of(note) # {} /\ note.command = <<>> -> {"no command"}
            [] OTHER -> (IF \E s \in Of(note) : s.command # note.command THEN {"another command"} ELSE {})
                        \cup (IF note.note = "" THEN {"empty"} ELSE {})
    IN  UNION {Wrong(notes[i]) : i \in DOMAIN notes}

\* for_steps: the notes of a file that does not match are refused, and of two notes on one step
\* the later is kept.
ForSteps(beside, steps) ==
    LET NoteOf(step) == LET at == {i \in DOMAIN beside : beside[i].number = step.number}
                        IN  IF at = {} THEN step.note ELSE beside[Max(at)].note
    IN  IF Problems(beside, steps) # {} THEN <<[error |-> "does not match"]>>
        ELSE [i \in DOMAIN steps |-> [steps[i] EXCEPT !.note = NoteOf(steps[i])]]

\* load, of: the notes of the file beside the cast, on its steps.
Load(cast, beside) == ForSteps(beside, StepsOf(cast))
=============================================================================
