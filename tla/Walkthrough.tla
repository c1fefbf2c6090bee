---------------------------- MODULE Walkthrough ----------------------------
(***************************************************************************)
(* A session recorded, written and read back: what bash prints under the   *)
(* startup file of kxray/replay/record.py, character by character and mark *)
(* by mark, the cast that is written of it, and the steps that             *)
(* kxray/replay/session.py cuts it into, notes included.                   *)
(***************************************************************************)
EXTENDS Integers, Sequences, SequencesExt, FiniteSetsExt

CONSTANTS
    Commands,    \* what is typed, as characters
    Printouts,   \* what a command prints, as characters
    Widths,      \* widths of the terminal
    ReadSizes,      \* the sizes of the pieces it is read in
    MaxCommands  \* the most commands of a session

VARIABLES
    terminal,    \* its width, and whether the shell prints mark C; nothing before it is opened
    printed,     \* the tokens printed so far
    typed,       \* the command at the prompt or running, if there is one
    ran          \* the commands that have finished

walkthroughVars == <<terminal, printed, typed, ran>>

RP == INSTANCE Replay

Chars(s) == [i \in DOMAIN s |-> [k |-> "char", v |-> s[i]]]
Mark(letter, code) == [k |-> "mark", v |-> letter, code |-> code]
Escape == [k |-> "escape"]

\* PROMPT_COMMAND and PS1: the status of the last command, and the prompt between its marks.
Prompt(code) == <<Mark("D", <<code>>), Mark("A", <<>>)>> \o Chars(<<"$", " ">>) \o <<Mark("B", <<>>)>>

\* The echo of a command: after the character in the last column comes a carriage return.
Echo(command, width) ==
    LET Put(s, c) == LET at == (s.at + 1) % width
                     IN  [at |-> at, out |-> s.out \o (IF at = 0 THEN <<c, "cr">> ELSE <<c>>)]
    IN  FoldLeft(Put, [at |-> 2, out |-> <<>>], command).out \o <<"cr", "nl">>

WalkthroughInit == terminal = <<>> /\ printed = <<>> /\ typed = <<>> /\ ran = <<>>

Begin == /\ terminal = <<>>
         /\ \E width \in Widths, marksC \in BOOLEAN : terminal' = <<[width |-> width, marksC |-> marksC]>>
         /\ printed' = Prompt(0)
         /\ UNCHANGED <<typed, ran>>

\* A command is typed and sent, and the shell says that it runs when it is one that does.
Enter == /\ terminal # <<>> /\ typed = <<>> /\ Len(ran) < MaxCommands
         /\ \E command \in Commands :
               /\ typed' = <<[command |-> command, output |-> <<>>]>>
               /\ printed' = printed \o Chars(Echo(command, terminal[1].width))
                             \o (IF terminal[1].marksC THEN <<Mark("C", <<>>)>> ELSE <<>>)
         /\ UNCHANGED <<terminal, ran>>

Emit == /\ typed # <<>> /\ typed[1].output = <<>>
        /\ \E output \in Printouts :
              /\ typed' = <<[typed[1] EXCEPT !.output = output]>>
              /\ printed' = printed \o <<Escape>> \o Chars(output)
        /\ UNCHANGED <<terminal, ran>>

Exit == /\ typed # <<>>
        /\ \E code \in {0, 1} :
              /\ ran' = Append(ran, [command |-> typed[1].command, output |-> typed[1].output, code |-> code])
              /\ printed' = printed \o Prompt(code)
        /\ typed' = <<>>
        /\ UNCHANGED terminal

WalkthroughNext == Begin \/ Enter \/ Emit \/ Exit

-----------------------------------------------------------------------------
\* What is read of the terminal in pieces of n tokens, each at its time.
Events(n) ==
    [i \in 1..(Len(printed) + n - 1) \div n |->
        [at |-> i, text |-> SubSeq(printed, n * (i - 1) + 1, Min({n * i, Len(printed)}))]]
CastOf(n) == RP!ParseCast(RP!Written(terminal[1].width, Events(n)))

\* Every command of a session is a step of its recording, as it was typed though the terminal
\* broke it over rows, with its own output and status and after the step before; the last, still
\* running, is a step too.  A note is on the step of its own command or its file is refused: a
\* file written for another recording does not put it on whatever has its number.
StepsAreWhatWasTyped ==
    terminal # <<>> =>
        \A cast \in {CastOf(n) : n \in ReadSizes} : \A steps \in {RP!StepsOf(cast)} :
            LET Is(step, run) == step.command = run.command /\ RP!Strip(step.output) = run.output
                note(i, command) == [number |-> i, command |-> command, note |-> "why"]
            IN  /\ Len(steps) = Len(ran) + Len(typed)
                /\ \A i \in DOMAIN ran : Is(steps[i], ran[i]) /\ steps[i].code = <<ran[i].code>> /\ steps[i].complete
                /\ typed # <<>> => Is(Last(steps), typed[1]) /\ RP!Status(Last(steps)) = "never finished"
                /\ \A i \in 1..Len(steps) - 1 : steps[i].started + steps[i].seconds <= steps[i + 1].started
                /\ \A i \in DOMAIN steps : \A row \in ToSet(RP!ScreenLines(steps[i].output, terminal[1].width)) :
                       Len(row) <= terminal[1].width
                /\ \A i \in 0..1, command \in Commands :
                       \A noted \in {RP!Load(cast, <<note(i, command)>>)} :
                           IF i < Len(steps) /\ steps[i + 1].command = command
                           THEN [j \in DOMAIN noted |-> noted[j].note] = [j \in DOMAIN steps |-> IF j = i + 1 THEN "why" ELSE ""]
                           ELSE "error" \in DOMAIN noted[1]
                /\ Len(RP!Failures(steps)) = Cardinality({i \in DOMAIN ran : ran[i].code # 0}) + Len(typed)
                /\ RP!Marked(steps) = (steps # <<>>)
                /\ (RP!Slowest(steps) = <<>>) = (steps = <<>>)
============================================================================
