-------------------------------- MODULE Btf --------------------------------
(***************************************************************************)
(* BTF, the kernel's description of its own types: the writer              *)
(* (kxray/btf/writer.py), the reader (kxray/btf/reader.py) and what the    *)
(* reader answers about a struct.  A blob is a header, the type section    *)
(* as a sequence of 32-bit words, and the string table as a sequence of    *)
(* names (a name's offset is its place, the empty name at 0); the length   *)
(* of a blob is counted in words, and a name stands for one.  A word that  *)
(* packs several numbers is the tuple of them, each cut to its width.      *)
(* WordBits is the width of a word that carries an enum's value.           *)
(***************************************************************************)
EXTENDS Integers, Sequences, SequencesExt, FiniteSetsExt

CONSTANTS WordBits, PointerSize

Sized == {"int", "struct", "union", "enum", "float", "enum64"}
Wrappers == {"typedef", "volatile", "const", "restrict", "type_tag"}
Known == Sized \cup Wrappers \cup
         {"void", "ptr", "array", "fwd", "func", "func_proto", "var", "datasec", "decl_tag"}
Error == [kind |-> "BtfError"]
Void == [kind |-> "void", name |-> "", size |-> 0]

-----------------------------------------------------------------------------
(* Builder.  A type to be written is a record of the arguments its method  *)
(* takes, and is known by its place in the list.                           *)

Composite(t) == t.kind \in {"struct", "union"}
\* Mutant of Flagged: a declaration of a union is written as one of a struct.
Flagged_BitFields(t) == Composite(t) /\ \E i \in DOMAIN t.members : t.members[i].width # 0

Flagged(t) == \/ Composite(t) /\ \E i \in DOMAIN t.members : t.members[i].width # 0
              \/ t.kind = "fwd" /\ t.union

\* The tail of a record, with off the place of a name in the string table.
RecordTail(t, off) ==
    LET Each(s, Words(_)) == FlattenSeq([i \in DOMAIN s |-> Words(s[i])])
        MemberOffset(m) == IF Flagged(t) THEN <<m.width % 256, m.bit % 16777216>> ELSE m.bit
        Top == 2^WordBits
    IN  CASE t.kind = "int"        -> <<<<t.encoding, t.offset % 256, t.bits % 256>>>>
          [] t.kind = "array"      -> <<t.element, t.index, t.nelems>>
          [] Composite(t)          -> Each(t.members, LAMBDA m : <<off[m.name], m.type, MemberOffset(m)>>)
          [] t.kind = "enum"       -> Each(t.values, LAMBDA v : <<off[v.name], v.value % Top>>)
          [] t.kind = "enum64"     -> Each(t.values, LAMBDA v : <<off[v.name], v.value % Top, v.value \div Top>>)
          [] t.kind = "func_proto" -> Each(t.params, LAMBDA p : <<off[p.name], p.type>>)
          [] t.kind = "datasec"    -> Each(t.variables, LAMBDA v : <<v.type, v.offset, v.size>>)
          [] t.kind = "var"        -> <<t.linkage>>
          [] t.kind = "decl_tag"   -> <<t.component>>
          [] OTHER                 -> <<>>

\* What is counted in the info word: the entries of the tail, or a function's linkage.
Count(t) ==
    CASE Composite(t) -> Len(t.members)
      [] t.kind \in {"enum", "enum64"} -> Len(t.values)
      [] t.kind = "func_proto" -> Len(t.params)
      [] t.kind = "datasec" -> Len(t.variables)
      [] t.kind = "func" -> t.linkage
      [] OTHER -> 0

\* The third word: a size, or the type the record refers to, or nothing.
SizeOrType(t) ==
    CASE t.kind \in Sized \cup {"datasec"} -> t.size
      [] t.kind \in {"array", "fwd"} -> 0
      [] OTHER -> t.type

\* Every name a list of types mentions, each once, the empty one first.
NamesOf(t) ==
    LET Of(s) == [i \in DOMAIN s |-> s[i].name]
    IN  (CASE Composite(t) -> Of(t.members)
           [] t.kind \in {"enum", "enum64"} -> Of(t.values)
           [] t.kind = "func_proto" -> Of(t.params)
           [] OTHER -> <<>>) \o <<t.name>>
StringTable(types) ==
    LET Put(table, name) == IF Contains(table, name) THEN table ELSE Append(table, name)
    IN  FoldLeft(Put, <<"">>, FlattenSeq([i \in DOMAIN types |-> NamesOf(types[i])]))

\* Builder.build
Build(types) ==
    LET table   == StringTable(types)
        off == [name \in ToSet(table) |-> (CHOOSE i \in DOMAIN table : table[i] = name) - 1]
        Record(t) == <<off[t.name], <<Count(t) % 65536, t.kind, Flagged(t)>>, SizeOrType(t)>>
                     \o RecordTail(t, off)
        words   == FlattenSeq([i \in DOMAIN types |-> Record(types[i])])
    IN  [magic |-> TRUE, version |-> 1, header |-> 6, type_length |-> Len(words),
         string_length |-> Len(table), words |-> words, strings |-> table,
         length |-> 6 + Len(words) + Len(table)]

-----------------------------------------------------------------------------
(* parse.                                                                  *)

\* _string: offset 0 and an offset past the end are the empty name.
NameAt(strings, offset) ==
    IF offset = 0 \/ offset >= Len(strings) THEN "" ELSE strings[offset + 1]

\* _tail_length, in words.
TailLength(kind, vlen) ==
    CASE kind \in {"int", "var", "decl_tag"} -> 1
      [] kind = "array" -> 3
      [] kind \in {"struct", "union", "enum64", "datasec"} -> 3 * vlen
      [] kind \in {"enum", "func_proto"} -> 2 * vlen
      [] OTHER -> 0

Member(name, type, bit, width) == [name |-> name, type |-> type, bit |-> bit, width |-> width]

\* _read_type: the record at word c.  An enum's value is read as a signed word, an enum64's
\* as two unsigned ones, whatever the kind flag says.
ReadType(words, strings, c) ==
    LET info == words[c + 2]
        vlen == info[1]
        kind == info[2]
        third == words[c + 3]
        Name(w) == NameAt(strings, w)
        W(i) == words[c + 3 + i]
        Each(n, Entry(_)) == [i \in 1..vlen |-> Entry(n * (i - 1))]
        Signed(w) == IF w >= 2^(WordBits - 1) THEN w - 2^WordBits ELSE w
        plain == [kind |-> kind, name |-> Name(words[c + 1])]
        MemberAt(i) == IF info[3] THEN Member(Name(W(i + 1)), W(i + 2), W(i + 3)[2], W(i + 3)[1])
                       ELSE Member(Name(W(i + 1)), W(i + 2), W(i + 3), 0)
    IN  plain @@
        (CASE kind = "int" -> [size |-> third, encoding |-> W(1)[1], offset |-> W(1)[2], bits |-> W(1)[3]]
           [] kind = "array" -> [element |-> W(1), index |-> W(2), nelems |-> W(3)]
           [] kind \in {"struct", "union"} -> [size |-> third, members |-> Each(3, MemberAt)]
           [] kind = "enum" -> [size |-> third, values |->
                 Each(2, LAMBDA i : [name |-> Name(W(i + 1)), value |-> Signed(W(i + 2))])]
           [] kind = "enum64" -> [size |-> third, values |->
                 Each(3, LAMBDA i : [name |-> Name(W(i + 1)), value |-> W(i + 3) * 2^WordBits + W(i + 2)])]
           [] kind = "func_proto" -> [type |-> third, params |->
                 Each(2, LAMBDA i : [name |-> Name(W(i + 1)), type |-> W(i + 2)])]
           [] kind = "datasec" -> [size |-> third, variables |->
                 Each(3, LAMBDA i : [type |-> W(i + 1), offset |-> W(i + 2), size |-> W(i + 3)])]
           [] kind = "var" -> [type |-> third, linkage |-> W(1)]
           [] kind = "decl_tag" -> [type |-> third, component |-> W(1)]
           [] kind = "func" -> [type |-> third, linkage |-> vlen]
           [] kind = "fwd" -> [union |-> info[3]]
           [] kind = "float" -> [size |-> third]
           [] OTHER -> [type |-> third])

\* read_header and parse: the types of a blob, or an error.
Parse(blob) ==
    LET end == blob.header + blob.type_length
        Read[c \in 0..Len(blob.words)] ==
            IF c >= blob.type_length THEN <<>>
            ELSE IF blob.words[c + 2][2] \notin Known THEN <<Error>>
            ELSE <<ReadType(blob.words, blob.strings, c)>>
                 \o Read[c + 3 + TailLength(blob.words[c + 2][2], blob.words[c + 2][1])]
    IN  IF \/ blob.length < 6 \/ ~blob.magic \/ blob.version # 1
           \/ end > blob.length \/ end + blob.string_length > blob.length
        THEN <<Error>>
        ELSE Read[0]

\* elf_section: the contents of the first section called .BTF, of an image that is whole.
ElfSection(image) ==
    LET found == {i \in DOMAIN image.sections : image.sections[i].name = ".BTF"}
        unreadable == image.table = 0 \/ image.names >= Len(image.sections)
    IN  IF unreadable \/ found = {} THEN <<>> ELSE <<image.sections[Min(found)].bytes>>

\* parse_file: a file is a blob, or an image that carries one.
ParseFile(file) ==
    CASE ~file.elf                            -> Parse(file.bytes)
      [] file.elf /\ ElfSection(file) = <<>> -> <<Error>>
      [] OTHER                                -> Parse(ElfSection(file)[1])

\* A blob of which only the first n words are there.
CutTo(blob, n) == [blob EXCEPT !.length = n]

-----------------------------------------------------------------------------
(* The questions reader.py answers about parsed types: sizes, annotations, *)
(* the layout of a struct with its holes, and the slots of an ops table.   *)
(* types[i] is type i, and what is not in types is void.  A size the file  *)
(* does not give is an empty sequence.                                     *)

Get(types, id) == IF id \in DOMAIN types THEN types[id] ELSE Void
Has(types, id, kinds) == Get(types, id).kind \in kinds

\* The types passed on the way from id through the given kinds, and where the way ends; it
\* is an error when it comes back to a type it has passed (the loops of resolve and tags).
RECURSIVE Way(_, _, _, _)
Way(types, id, kinds, seen) ==
    IF ~Has(types, id, kinds) THEN [at |-> id, seen |-> seen, error |-> FALSE]
    ELSE IF Contains(seen, id) THEN [at |-> id, seen |-> seen, error |-> TRUE]
    ELSE Way(types, types[id].type, kinds, Append(seen, id))

Resolve(types, id) == Way(types, id, Wrappers, <<>>).at

\* tags: the annotations met through wrappers and pointers.
Tags(types, id) ==
    LET seen == Way(types, id, Wrappers \cup {"ptr"}, <<>>).seen
    IN  {types[i].name : i \in {j \in ToSet(seen) : types[j].kind = "type_tag"}}

RECURSIVE SizeOf(_, _)
SizeOf(types, id) ==
    LET one == Get(types, Resolve(types, id))
        element == SizeOf(types, one.element)
    IN  CASE one.kind = "ptr"   -> <<PointerSize>>
          [] one.kind = "array" -> IF element = <<>> THEN <<>> ELSE <<element[1] * one.nelems>>
          [] one.kind \in Sized -> <<one.size>>
          [] one.kind = "void"  -> <<0>>
          [] OTHER              -> <<>>

\* _bitfield_size: the width in the member, or the one its int was narrowed to.
BitfieldSize(types, member) ==
    LET int == Get(types, Resolve(types, member.type))
    IN  CASE member.width # 0 -> member.width
          [] member.width = 0 /\ int.kind = "int" /\ int.bits # int.size * 8 -> int.bits
          [] OTHER -> 0

\* A field of a layout, where it ends when its size is known, and a hole.
Field(path, bit, size, width, tags) ==
    [path |-> path, bit |-> bit, byte |-> bit \div 8, size |-> size, width |-> width, tags |-> tags]
End(field) == [i \in DOMAIN field.size |-> field.byte + field.size[i]]
Hole(after, byte, size) == [after |-> after, byte |-> byte, size |-> size]

\* _collect: an anonymous struct or union gives its members to the one around it; a named one
\* is a field itself and its members are fields under its name.
RECURSIVE Collect(_, _, _, _, _)
Collect(types, id, prefix, base, flatten) ==
    LET Of(member) ==
          LET bit   == base + member.bit
              inner == Resolve(types, member.type)
              deep  == flatten /\ Has(types, inner, {"struct", "union"})
              path  == Append(prefix, IF member.name = "" THEN "<anonymous>" ELSE member.name)
              field == Field(path, bit, SizeOf(types, member.type),
                             BitfieldSize(types, member), Tags(types, member.type))
          IN  CASE deep /\ member.name = "" -> Collect(types, inner, prefix, bit, flatten)
                [] deep /\ member.name # "" -> <<field>> \o Collect(types, inner, path, bit, flatten)
                [] OTHER -> <<field>>
        members == types[id].members
    IN  FlattenSeq([i \in DOMAIN members |-> Of(members[i])])

\* The fields in the order of their offsets, those at one offset in the order collected.
InOrder(fields) ==
    LET Before(i, j) == fields[i].bit < fields[j].bit \/ (fields[i].bit = fields[j].bit /\ i < j)
        order == SortSeq([i \in DOMAIN fields |-> i], Before)
    IN  [n \in DOMAIN order |-> fields[order[n]]]

\* Mutant of Holes: the cursor goes back to the end of the last field.
Holes_FromTheLast(fields, size, isUnion) ==
    LET Gap(s, upto) == IF upto > s.cursor
                        THEN Append(s.holes, Hole(s.previous, s.cursor, upto - s.cursor))
                        ELSE s.holes
        Sweep(s, f) == [holes |-> Gap(s, f.byte), cursor |-> f.byte + f.size[1], previous |-> f.path]
    IN  IF isUnion THEN <<>>
        ELSE Gap(FoldLeft(Sweep, [holes |-> <<>>, cursor |-> 0, previous |-> <<>>], fields), size)

\* _holes: one sweep over the fields in order.
Holes(fields, size, isUnion) ==
    LET Gap(s, upto) == IF upto > s.cursor
                        THEN Append(s.holes, Hole(s.previous, s.cursor, upto - s.cursor))
                        ELSE s.holes
        Sweep(s, f) == [holes    |-> Gap(s, f.byte),
                        cursor   |-> Max({s.cursor} \cup ToSet(End(f))),
                        previous |-> f.path]
        swept == FoldLeft(Sweep, [holes |-> <<>>, cursor |-> 0, previous |-> <<>>], fields)
    IN  IF isUnion THEN <<>> ELSE Gap(swept, size)

\* layout
Layout(types, id, flatten) ==
    LET Of(fields) == [size |-> types[id].size, fields |-> fields,
                       holes |-> Holes(fields, types[id].size, types[id].kind = "union")]
    IN  Of(InOrder(Collect(types, id, <<>>, 0, flatten)))

\* Layout.padding
Padding(layout) == FoldLeft(LAMBDA sum, hole : sum + hole.size, 0, layout.holes)

\* ops: a member is a slot when it is a pointer to a function, and data otherwise.
Slots(types, id) ==
    {m \in ToSet(types[id].members) :
        LET pointer == Get(types, Resolve(types, m.type))
        IN  pointer.kind = "ptr" /\ Has(types, Resolve(types, pointer.type), {"func_proto"})}

\* A slot nothing fills yet; OpsTable.filled: the slots of a table that something fills.
Slot(name) == [name |-> name, by |-> <<>>]
Filled(table) == SelectSeq(table, LAMBDA slot : slot.by # <<>>)

\* OpsTable.with_implementations: a new table, or a KeyError for a slot there is none of.
WithImplementations(table, filled) ==
    LET names == {table[i].name : i \in DOMAIN table}
    IN  IF DOMAIN filled \subseteq names
        THEN <<[i \in DOMAIN table |-> IF table[i].name \in DOMAIN filled
                                       THEN [table[i] EXCEPT !.by = <<filled[table[i].name]>>]
                                       ELSE table[i]]>>
        ELSE <<>>

\* annotated: refused for an annotation BTF does not record and for a blob with no tags at all.
Annotated(types, tag, id, recorded) ==
    IF tag \notin recorded \/ \A i \in DOMAIN types : types[i].kind # "type_tag" THEN <<Error>>
    ELSE SelectSeq(Layout(types, id, TRUE).fields, LAMBDA f : tag \in f.tags)

\* kinds: how many types of each kind; tag_counts: how many annotations of each name.
Kinds(types) ==
    [kind \in {types[i].kind : i \in DOMAIN types} |->
        Cardinality({i \in DOMAIN types : types[i].kind = kind})]
TagCounts(types) ==
    LET tags == {i \in DOMAIN types : types[i].kind = "type_tag"}
    IN  [name \in {types[i].name : i \in tags} |-> Cardinality({i \in tags : types[i].name = name})]

\* struct: the first struct of a name, or else the first union, or else nothing.
Named(types, name) ==
    LET Of(kind) == {i \in DOMAIN types : types[i].kind = kind /\ types[i].name = name}
    IN  CASE Of("struct") # {} -> Min(Of("struct"))
          [] Of("struct") = {} /\ Of("union") # {} -> Min(Of("union"))
          [] OTHER -> 0

\* offset_of: the offset of the first field with this path, or nothing.
OffsetOf(types, name, path) ==
    LET found == SelectSeq(Layout(types, Named(types, name), TRUE).fields, LAMBDA f : f.path = path)
    IN  [i \in 1..Min({1, Len(found)}) |-> found[i].byte]

\* enum, enum_name: the first constant declared with a value.
EnumName(type, value) ==
    LET at == {i \in DOMAIN type.values : type.values[i].value = value}
    IN  IF at = {} THEN <<>> ELSE <<type.values[Min(at)].name>>
=============================================================================
