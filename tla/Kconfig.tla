------------------------------ MODULE Kconfig ------------------------------
(***************************************************************************)
(* The reader of the kernel's Kconfig files (kxray/source/kconfig.py) and  *)
(* the check of the pinned kernel's config fragments (tools/kconfig.py).   *)
(* A line is a record: k says which pattern it matches, v is what the      *)
(* pattern captures, cond the condition of a select, indented whether it   *)
(* starts with a space.  An optional value is a sequence of at most one.   *)
(***************************************************************************)
EXTENDS Lines

-----------------------------------------------------------------------------
(* kxray/source/kconfig.py                                                 *)

\* What the patterns tell apart; a line that matches none of them is another.
LineKinds == {"blank", "comment", "config", "menuconfig", "type", "depends", "select", "imply", "default",
              "prompt", "choice", "endchoice", "help", "range", "if", "endif", "source", "other"}

\* The field of a Symbol that a line adds to.
Field == [depends |-> "depends", select |-> "selects", imply |-> "implies",
          default |-> "defaults", range |-> "ranges"]

NewSymbol(line, n, s) ==
    [name |-> line.v, kind |-> line.k, type |-> "", prompt |-> "", depends |-> <<>>,
     selects |-> <<>>, implies |-> <<>>, defaults |-> <<>>, ranges |-> <<>>,
     within |-> s.within, help |-> <<>>, line |-> n,
     choice |-> IF s.choice = 0 THEN "" ELSE s.choices[s.choice].prompt]
NewChoice == [prompt |-> "", defaults |-> <<>>, depends |-> <<>>, members |-> <<>>]

\* close(): the symbol being read is finished, and is a member of the choice around it.
CloseSymbol(s) ==
    LET one == [s.current[1] EXCEPT !.help = s.help]
    IN  IF s.current = <<>> THEN [s EXCEPT !.inHelp = FALSE, !.help = <<>>]
        ELSE [s EXCEPT !.symbols = Append(@, one), !.current = <<>>, !.inHelp = FALSE, !.help = <<>>,
                       !.choices = IF s.choice = 0 THEN @
                                   ELSE [@ EXCEPT ![s.choice].members = Append(@, one.name)]]

Told(s, verdict) == [s EXCEPT !.account = Append(@, verdict)]

\* A line inside a help text: taken by its indentation, whatever it says.
InHelp(s, line) == s.inHelp /\ (line.k = "blank" \/ line.indented)

\* The lines that open and close blocks.
Block(s, line, n) ==
    LET closed == CloseSymbol(s)
    IN  CASE line.k = "if"    -> [closed EXCEPT !.within = Append(@, line.v)]
          [] line.k = "endif" -> [closed EXCEPT !.within = IF @ = <<>> THEN @ ELSE Front(@)]
          [] line.k \in {"config", "menuconfig"} -> [closed EXCEPT !.current = <<NewSymbol(line, n, s)>>]
          [] line.k = "choice" -> [closed EXCEPT !.choices = Append(@, NewChoice),
                                                 !.choice = Len(closed.choices) + 1]
          [] line.k = "endchoice" -> [closed EXCEPT !.choice = 0]
          [] line.k = "source" -> [s EXCEPT !.sourced = Append(@, line.v)]
Blocks == {"if", "endif", "config", "menuconfig", "choice", "endchoice", "source"}

\* A line before any symbol of a choice belongs to the choice.
OfChoice(s, line) ==
    [s EXCEPT !.choices[s.choice] = IF line.k = "prompt" THEN [@ EXCEPT !.prompt = line.v]
                                    ELSE AddTo(@, Field[line.k], line.v)]

\* A line under a symbol belongs to the symbol.
OfSymbol(s, line) ==
    LET entry == IF line.k \in {"select", "imply"} THEN [symbol |-> line.v, cond |-> line.cond] ELSE line.v
    IN  CASE line.k = "type"   -> [s EXCEPT !.current[1].type = line.type, !.current[1].prompt = line.v]
          [] line.k = "prompt" -> [s EXCEPT !.current[1].prompt = line.v]
          [] line.k = "help"   -> [s EXCEPT !.inHelp = TRUE, !.help = <<>>]
          [] OTHER             -> [s EXCEPT !.current = <<AddTo(@[1], Field[line.k], entry)>>]

\* One turn of the loop of parse.
KconfigLine(before, line, n) ==
    LET s == [before EXCEPT !.inHelp = FALSE] IN
    IF InHelp(before, line) THEN Told([before EXCEPT !.help = Append(@, line.v)], "skipped")
    ELSE CASE line.k \in {"blank", "comment"} -> Told(s, "skipped")
           [] line.k \in Blocks -> Told(Block(s, line, n), "read")
           [] s.current = <<>> /\ s.choice # 0 /\ line.k \in {"prompt", "default", "depends"} ->
                  Told(OfChoice(s, line), "read")
           [] s.current # <<>> /\ line.k \in DOMAIN Field \cup {"type", "prompt", "help"} ->
                  Told(OfSymbol(s, line), "read")
           [] OTHER -> Told(s, "unparsed")

\* parse
ParseKconfig(lines) ==
    LET Turn(s, i) == KconfigLine(s, lines[i], i)
        start == [symbols |-> <<>>, sourced |-> <<>>, account |-> <<>>, current |-> <<>>,
                  within |-> <<>>, choices |-> <<>>, choice |-> 0, inHelp |-> FALSE, help |-> <<>>]
    IN  CloseSymbol(FoldLeftDomain(Turn, start, lines))

\* KconfigFile.get, hidden, selected_by; Symbol.conditions.
GetSymbol(file, name) == SelectSeq(file.symbols, LAMBDA s : s.name = name)
Hidden(file) == SelectSeq(file.symbols, LAMBDA s : s.type # "" /\ s.prompt = "")
SelectedBy(file, name) ==
    SelectSeq(file.symbols, LAMBDA s : \E i \in DOMAIN s.selects : s.selects[i].symbol = name)
Conditions(symbol) == symbol.within \o symbol.depends

\* why: whether somebody could have chosen a symbol, and who selects it.
Why(file, name) ==
    LET found == GetSymbol(file, name)
    IN  IF found = <<>> THEN <<>>
        ELSE <<[chosen |-> found[1].prompt # "", by |-> SelectedBy(file, name)]>>

-----------------------------------------------------------------------------
(* tools/kconfig.py                                                        *)

\* parse_fragment and merge: the last setting of a symbol wins, across the fragments in order.
\* A setting is [k |-> "set", v |-> symbol, value |-> ...]; "is not set" has the value "off".
Settings(fragment) == SelectSeq(fragment, LAMBDA l : l.k = "set")
NotConfigLines(fragment) == {i \in DOMAIN fragment : fragment[i].k \notin {"set", "blank"}}
Merge(fragments) ==
    LET Put(merged, setting) == (setting.v :> setting.value) @@ merged
    IN  FoldLeft(Put, <<>>, FlattenSeq([i \in DOMAIN fragments |-> Settings(fragments[i])]))
IsOn(merged, symbol) == symbol \in DOMAIN merged /\ merged[symbol] \notin {"off", "n"}

\* read_config: a built config, the lines it has besides ignored.
ReadConfig(lines) == Merge(<<lines>>)

\* is_32bit: said by either symbol.
Is32Bit(merged) ==
    \/ "CONFIG_64BIT" \in DOMAIN merged /\ ~IsOn(merged, "CONFIG_64BIT")
    \/ IsOn(merged, "CONFIG_X86_32")

\* gates: the condition each symbol is selected under, the last one when it is selected twice.
Gates(file) ==
    LET arch == GetSymbol(file, "X86")
        Put(conditions, select) == (select.symbol :> select.cond) @@ conditions
    IN  IF arch = <<>> THEN <<>> ELSE FoldLeft(Put, <<>>, arch[1].selects)

\* check_arch: what a 32 bit profile sets and the architecture only has on a condition.
ArchFindings(merged, file, gated) ==
    LET conditions == Gates(file)
    IN  IF ~Is32Bit(merged) THEN {}
        ELSE {symbol \in DOMAIN gated : /\ IsOn(merged, symbol)
                                        /\ gated[symbol] \in DOMAIN conditions
                                        /\ conditions[gated[symbol]] # ""}

\* check_profile, of a profile whose fragments are all there; kernels are the blocks of the pin.
ProfileFindings(profile, kernels, required, file, gated) ==
    LET fragments == profile.fragments
        bad    == (UNION {{<<"not a config line", i, n>> : n \in NotConfigLines(fragments[i])} : i \in DOMAIN fragments})
                  \cup (IF profile.kernel \in kernels THEN {} ELSE {<<"no such kernel">>})
        merged == Merge(fragments)
    IN  IF bad # {} THEN bad
        ELSE {<<"arch", s>> : s \in ArchFindings(merged, file, gated)}
             \cup (IF profile.drops # {} /\ ~profile.reason THEN {<<"dropped without a reason">>} ELSE {})
             \cup {<<"stale drop", s>> : s \in {r \in required \cap profile.drops : IsOn(merged, r)}}
             \cup {<<"missing", s>> : s \in {r \in required \ profile.drops : ~IsOn(merged, r)}}
             \cup {<<"never required", s>> : s \in profile.drops \ required}

\* check: the blocks of the pin file, that its profiles have an order and one of them counts, and
\* every profile.  A pin is a sequence of at most one; a block has the fields that are there.
PinFindings(pin, required, file, gated) ==
    LET blocks   == pin[1].blocks
        profiles == pin[1].profiles
        Holds(finding, condition) == IF condition THEN {<<finding>>} ELSE {}
        PinBlock(key) ==
            {<<"missing", key, field>> : field \in {"version", "url", "sha256", "recorded"} \ DOMAIN blocks[key]}
            \cup Holds("not a digest", "sha256" \in DOMAIN blocks[key] /\ ~blocks[key].sha256)
    IN  IF pin = <<>> THEN {<<"no pin file">>}
        ELSE Holds("schema", pin[1].schema # 1)
             \cup {<<"no block", key>> : key \in {"kernel", "fallback"} \ DOMAIN blocks}
             \cup (UNION {PinBlock(key) : key \in {"kernel", "fallback"} \cap DOMAIN blocks})
             \cup Holds("no profiles", profiles = <<>>)
             \cup Holds("two of one order", \E i, j \in DOMAIN profiles : i # j /\ profiles[i].order = profiles[j].order)
             \cup Holds("none counts", \A i \in DOMAIN profiles : ~profiles[i].kill)
             \cup UNION {ProfileFindings(profiles[i], DOMAIN blocks, required, file, gated) : i \in DOMAIN profiles}

\* verify: what was asked for or is required, and the built config does not have on.
Verify(profile, built, required) ==
    LET asked  == Merge(profile.fragments)
        wanted == {s \in DOMAIN asked : IsOn(asked, s)} \cup required
    IN  {s \in wanted \ profile.drops : ~IsOn(built, s)}
============================================================================
