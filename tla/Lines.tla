------------------------------- MODULE Lines -------------------------------
(***************************************************************************)
(* What became of each line of a text a reader was given (models/lines.py):*)
(* read, skipped on purpose, or not understood.  A reader's account is the *)
(* sequence of its verdicts, and the three counts are taken from it.       *)
(***************************************************************************)
EXTENDS Integers, Sequences, SequencesExt, FiniteSetsExt

\* Lines: the counts, and their sum.
Counted(account) ==
    LET Of(v) == Cardinality({i \in DOMAIN account : account[i] = v})
    IN  [read |-> Of("read"), skipped |-> Of("skipped"), unparsed |-> Of("unparsed"),
         total |-> Len(account)]

\* The verdict of a reader that looks at one line at a time.
EachLine(lines, skipped, read) ==
    [i \in DOMAIN lines |-> CASE lines[i].k \in skipped -> "skipped"
                              [] lines[i].k \in read    -> "read"
                              [] OTHER                  -> "unparsed"]

\* The members of a sequence that are of a set, in their order: a list that a loop appends to.
Only(s, chosen) == FoldLeft(LAMBDA kept, one : IF one \in chosen THEN Append(kept, one) ELSE kept, <<>>, s)

\* A dictionary with another put into it: what the new one has replaces what the old one had.
Laid(new, old) == [name \in DOMAIN new \cup DOMAIN old |-> IF name \in DOMAIN new THEN new[name] ELSE old[name]]

\* A record with a value added to one of its sequences.
AddTo(f, field, value) == [f EXCEPT ![field] = Append(@, value)]
============================================================================
