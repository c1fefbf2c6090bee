------------------------------- MODULE Typing -------------------------------
(***************************************************************************)
(* A BTF blob built a type at a time, as tests and lessons build one with  *)
(* kxray/btf/writer.py, written, read back and asked about.                *)
(***************************************************************************)
EXTENDS Integers, Sequences, SequencesExt, FiniteSetsExt

CONSTANTS
    Declarations,  \* the types that can be added, each once
    MaxTypes,      \* the most types of a blob
    WordBits, PointerSize

ASSUME WidthAssumption == WordBits \in 2..15 /\ PointerSize \in {4, 8}

VARIABLES types, told

typingVars == <<types, told>>

BL == INSTANCE Btf

\* The types a declaration refers to.
Refers(t) ==
    LET Of(s) == {s[i].type : i \in DOMAIN s}
    IN  CASE t.kind \in {"struct", "union"} -> Of(t.members)
          [] t.kind = "func_proto" -> {t.type} \cup Of(t.params)
          [] t.kind = "datasec" -> Of(t.variables)
          [] t.kind = "array" -> {t.element, t.index}
          [] t.kind \in BL!Wrappers \cup {"ptr", "func", "var", "decl_tag"} -> {t.type}
          [] OTHER -> {}

\* The builder hands out a number for each type it adds, so a type refers to earlier ones; the
\* compiler gives a struct room for what it has in it, and its members do not overlap.
Room(t) ==
    t.kind \in {"struct", "union"} =>
        LET Size(m) == BL!SizeOf(types, m.type)
        IN  /\ \A i \in DOMAIN t.members : Size(t.members[i]) \notin {<<>>, <<0>>}
            /\ \A i \in DOMAIN t.members : t.members[i].bit \div 8 + Size(t.members[i])[1] <= t.size
            /\ t.kind = "struct" => \A i, j \in DOMAIN t.members :
                   t.members[i].bit < t.members[j].bit =>
                       \/ t.members[i].width # 0
                       \/ t.members[i].bit \div 8 + Size(t.members[i])[1] <= t.members[j].bit \div 8
Fits(t) == Refers(t) \subseteq 0..Len(types) /\ ~Contains(types, t) /\ Room(t)

Structs == {i \in DOMAIN types : types[i].kind \in {"struct", "union"}}

\* What a lesson asks of a blob.
About(i) ==
    LET table == SetToSeq({BL!Slot(m.name) : m \in BL!Slots(types, i)})
        filled == BL!WithImplementations(table, "read" :> "ext4_read")
        TagsOf(fields) == [f \in DOMAIN fields |-> fields[f].tags]
    IN  [declared |-> BL!Layout(types, i, FALSE).fields, tags |-> TagsOf(BL!Layout(types, i, TRUE).fields),
         user |-> BL!Annotated(types, "user", i, {"user", "rcu"}),
         filled |-> [k \in DOMAIN filled |-> BL!Filled(filled[k])],
         named |-> BL!Named(types, types[i].name)]
Values == [i \in {j \in DOMAIN types : types[j].kind \in {"enum", "enum64"}} |-> BL!EnumName(types[i], 3)]

\* What a linker makes of a blob: an image with the names of its sections first, the sections
\* it has beside the blob (.BTF.ext describes programs in the same format) and the blob, or not.
Images(blob) ==
    LET Section(name, bytes) == [name |-> name, bytes |-> bytes]
        names == Section(".shstrtab", [BL!Build(<<>>) EXCEPT !.magic = FALSE])
        ext   == Section(".BTF.ext", BL!Build(<<>>))
        btf   == Section(".BTF", blob)
    IN  {[elf |-> TRUE, table |-> 1, names |-> 0, sections |-> s] :
            s \in {<<names, ext, btf>>, <<names, btf, ext>>, <<names, ext>>}}

TypingInit == types = <<>> /\ told = <<>>

Declare == /\ Len(types) < MaxTypes
           /\ \E t \in Declarations : Fits(t) /\ types' = Append(types, t)
           /\ told' = <<>>

Consult == /\ told = <<>> /\ types # <<>>
           /\ told' = <<[i \in Structs |-> About(i)], Values, BL!Kinds(types), BL!TagCounts(types)>>
           /\ UNCHANGED types

TypingNext == Declare \/ Consult

-----------------------------------------------------------------------------
\* What is written is what is read, with every name, number and reference, negative constants
\* and bit fields among them, whether the blob is the file or a section of a kernel image beside
\* others; a blob that stops anywhere before its end, or an image without the section, is
\* refused rather than read as fewer types.
WrittenIsRead ==
    types # <<>> =>
        \A kept \in {SubSeq(types, 1, n) : n \in 0..Len(types)} : \A blob \in {BL!Build(kept)} :
            /\ BL!Parse(blob) = kept
            /\ kept = types => \A n \in 0..blob.length - 1 : BL!Parse(BL!CutTo(blob, n)) = <<BL!Error>>
            /\ kept = types => \A image \in Images(blob) :
                  BL!ParseFile(image) = IF \E i \in DOMAIN image.sections : image.sections[i].bytes = blob
                                        THEN types ELSE <<BL!Error>>

\* The holes of a struct are its bytes that no field is in, each byte in one hole, with anonymous
\* structs and unions taken apart and the fields of a union over one another; a field is where
\* the offset of its path says.
HolesAreUncovered ==
    \A id \in {i \in Structs : types[i].kind = "struct"} :
        \A layout \in {BL!Layout(types, id, TRUE)} :
        LET Bytes(at, size) == at..(at + size - 1)
            In(f) == Bytes(f.byte, f.size[1])
            Holed(h) == Bytes(h.byte, h.size)
        IN  /\ UNION {Holed(layout.holes[i]) : i \in DOMAIN layout.holes}
                 = (0..layout.size - 1) \ UNION {In(layout.fields[i]) : i \in DOMAIN layout.fields}
            /\ BL!Padding(layout) = Cardinality(UNION {Holed(layout.holes[i]) : i \in DOMAIN layout.holes})
            /\ \A i, j \in DOMAIN layout.holes : i # j => Holed(layout.holes[i]) \cap Holed(layout.holes[j]) = {}
            /\ \A i \in DOMAIN layout.fields :
                  (BL!Named(types, types[id].name) = id /\ \A j \in DOMAIN layout.fields : layout.fields[j].path = layout.fields[i].path => j = i)
                  => BL!OffsetOf(types, types[id].name, layout.fields[i].path) = <<layout.fields[i].byte>>
============================================================================
