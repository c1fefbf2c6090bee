--------------------------- MODULE RecorderProofs ---------------------------
(***************************************************************************)
(* Proofs about Recorder, for any number of commands, any amount of output *)
(* and reads that cut the stream anywhere, as long as no wait has ended    *)
(* early (`orderly`).                                                      *)
(*                                                                         *)
(* What a prompt promises depends on what can still be on its way when it  *)
(* is seen.  The invariant is that mark B is the last thing the terminal   *)
(* printed, that the shell has then read all that was typed, and that the  *)
(* recorder has read everything when it sends.                             *)
(*                                                                         *)
(* What the recording is cut into is the second half: the invariant says   *)
(* how far the loop over the marks is at every place of what was printed.  *)
(* What was recorded differs from that in characters a read ended inside   *)
(* of; both are cut at the same places, by induction over the text.        *)
(***************************************************************************)
EXTENDS Recorder, SequenceTheorems, WellFoundedInduction, TLAPS

PromptInv ==
  /\ Len(input) <= 1
  /\ shell # "ready" => input = <<>>
  /\ \A i \in 1..Len(pipe) :
       pipe[i].kind = "B2" => i = Len(pipe) /\ shell = "ready" /\ input = <<>>
  /\ rec # "draining" => shell = "ready" /\ input = <<>> /\ pipe = <<>>

\* The commands are run one by one, in the order they are sent.
TurnInv ==
  /\ last \in {sent, sent - 1}
  /\ input = IF last = sent THEN <<>> ELSE <<sent>>

RInv == TypeOK /\ PromptInv /\ TurnInv

\* What is sent or typed is a token of the terminal.
LEMMA TokenTyped ==
  ASSUME NEW n \in 0..Commands, NEW kind \in Kinds
  PROVE  Token(kind, n) \in Tokens /\ Token(kind, n).kind = kind
         /\ Mark(kind) \in Tokens /\ Mark(kind).kind = kind
  BY RecorderAssumption DEF Token, Mark, Tokens

LEMMA InitR == Init => RInv
  <1> SUFFICES ASSUME Init PROVE RInv
    OBVIOUS
  <1>1. 0 \in 0..Commands /\ 0 \in 0..MaxPrinted
    BY RecorderAssumption
  <1>2. <<>> \in Seq(1..Commands) /\ <<>> \in Seq(Tokens) /\ <<>> \in Seq(DecodedTokens)
    OBVIOUS
  <1>3. [c \in 1..Commands |-> 0] \in [1..Commands -> 0..MaxPrinted]
    BY <1>1
  <1>4. TypeOK
    BY <1>1, <1>2, <1>3, Zenon DEF Init, TypeOK
  <1>5. PromptInv /\ TurnInv
    BY DEF Init, PromptInv, TurnInv
  <1>6. QED  BY <1>4, <1>5 DEF RInv

-----------------------------------------------------------------------------
(* Decoding.                                                               *)

\* A token is what is in it.
LEMMA TokenIs ==
  ASSUME NEW t \in Tokens
  PROVE  Token(t.kind, t.n) = t
  BY DEF Tokens, Token

\* A part of a sequence, place by place.
LEMMA Part ==
  ASSUME NEW S, NEW s \in Seq(S), NEW m \in Nat \ {0}, NEW n \in 0..Len(s)
  PROVE  \E part \in Seq(S) :
           /\ part = SubSeq(s, m, n)
           /\ Len(part) = IF m <= n THEN n - m + 1 ELSE 0
           /\ \A i \in 1..Len(part) : part[i] = s[m + i - 1] /\ m + i - 1 \in 1..Len(s)
  <1>1. m \in Int /\ n \in Int /\ Len(s) \in Nat /\ \A i \in m..n : s[i] \in S
    OBVIOUS
  <1>2. PICK part : part = SubSeq(s, m, n)
    OBVIOUS
  <1>3. /\ part \in Seq(S) /\ Len(part) = IF m <= n THEN n - m + 1 ELSE 0
        /\ \A i \in 1..(n - m + 1) : part[i] = s[m + i - 1]
    BY <1>1, <1>2, SubSeqProperties
  <1>4. \A i \in 1..Len(part) : i \in 1..(n - m + 1) /\ m + i - 1 \in 1..Len(s)
    BY <1>1, <1>3
  <1>5. QED  BY <1>2, <1>3, <1>4, Zenon

\* What was printed, for what was recorded, token by token.
LEMMA RestoredIs ==
  ASSUME NEW text \in Seq(DecodedTokens)
  PROVE  /\ Restored(text) \in Seq(Tokens) /\ Len(Restored(text)) = Len(text) /\ Len(text) \in Nat
         /\ \A i \in 1..Len(text) :
              /\ Restored(text)[i] = Token(text[i].kind, text[i].n)
              /\ Restored(text)[i].kind = text[i].kind /\ Restored(text)[i].n = text[i].n
  <1>1. \A t \in DecodedTokens : /\ Token(t.kind, t.n) \in Tokens
                                 /\ Token(t.kind, t.n).kind = t.kind /\ Token(t.kind, t.n).n = t.n
    BY DEF DecodedTokens, Tokens, Token
  <1>2. \A i \in 1..Len(text) : text[i] \in DecodedTokens
    OBVIOUS
  <1>3. PICK r : r = [i \in 1..Len(text) |-> Token(text[i].kind, text[i].n)]
    OBVIOUS
  <1>4. r \in [1..Len(text) -> Tokens] /\ \A i \in 1..Len(text) : r[i] = Token(text[i].kind, text[i].n)
    BY <1>1, <1>2, <1>3
  <1>5. r \in Seq(Tokens) /\ Len(r) = Len(text) /\ Len(text) \in Nat
    BY <1>4
  <1>6. QED  BY <1>1, <1>2, <1>3, <1>4, <1>5 DEF Restored

\* Two recordings one behind the other are restored each.
LEMMA RestoredJoins ==
  ASSUME NEW a \in Seq(DecodedTokens), NEW b \in Seq(DecodedTokens)
  PROVE  Restored(a \o b) = Restored(a) \o Restored(b)
  <1>1. PICK ab \in Seq(DecodedTokens) :
           /\ ab = a \o b /\ Len(ab) = Len(a) + Len(b)
           /\ \A i \in 1..Len(ab) : ab[i] = IF i <= Len(a) THEN a[i] ELSE b[i - Len(a)]
    <2>1. a \o b \in Seq(DecodedTokens) /\ Len(a \o b) = Len(a) + Len(b)
      BY ConcatProperties
    <2>2. \A i \in 1..Len(a \o b) : (a \o b)[i] = IF i <= Len(a) THEN a[i] ELSE b[i - Len(a)]
      BY <2>1, ConcatProperties
    <2>3. QED  BY <2>1, <2>2, Zenon
  <1>2. PICK p \in Seq(Tokens) : p = Restored(a) /\ Len(p) = Len(a)
                                 /\ \A i \in 1..Len(a) : p[i] = Token(a[i].kind, a[i].n)
    BY RestoredIs
  <1>3. PICK q \in Seq(Tokens) : q = Restored(b) /\ Len(q) = Len(b)
                                 /\ \A i \in 1..Len(b) : q[i] = Token(b[i].kind, b[i].n)
    BY RestoredIs
  <1>4. PICK r \in Seq(Tokens) : r = Restored(ab) /\ Len(r) = Len(ab)
                                 /\ \A i \in 1..Len(ab) : r[i] = Token(ab[i].kind, ab[i].n)
    BY RestoredIs
  <1>5. PICK pq \in Seq(Tokens) :
           /\ pq = p \o q /\ Len(pq) = Len(p) + Len(q)
           /\ \A i \in 1..Len(pq) : pq[i] = IF i <= Len(p) THEN p[i] ELSE q[i - Len(p)]
    <2>1. p \o q \in Seq(Tokens) /\ Len(p \o q) = Len(p) + Len(q)
      BY ConcatProperties
    <2>2. \A i \in 1..Len(p \o q) : (p \o q)[i] = IF i <= Len(p) THEN p[i] ELSE q[i - Len(p)]
      BY <2>1, ConcatProperties
    <2>3. QED  BY <2>1, <2>2, Zenon
  <1>6. Len(a) \in Nat /\ Len(b) \in Nat
    OBVIOUS
  <1>7. ASSUME NEW i \in 1..Len(r) PROVE r[i] = pq[i]
    <2>1. CASE i <= Len(a)
      <3>1. i \in 1..Len(a) /\ i \in 1..Len(ab) /\ i \in 1..Len(pq)
        BY <1>1, <1>2, <1>3, <1>4, <1>5, <1>6, <1>7, <2>1
      <3>2. ab[i] = a[i] /\ pq[i] = p[i]
        BY <1>1, <1>2, <1>5, <2>1, <3>1
      <3>3. QED  BY <1>2, <1>4, <3>1, <3>2
    <2>2. CASE ~(i <= Len(a))
      <3>1. i - Len(a) \in 1..Len(b) /\ i \in 1..Len(ab) /\ i \in 1..Len(pq)
        BY <1>1, <1>2, <1>3, <1>4, <1>5, <1>6, <1>7, <2>2
      <3>2. ab[i] = b[i - Len(a)] /\ pq[i] = q[i - Len(a)]
        BY <1>1, <1>2, <1>5, <2>2, <3>1
      <3>3. QED  BY <1>3, <1>4, <3>1, <3>2
    <2>3. QED  BY <2>1, <2>2
  <1>8. Len(r) = Len(pq)
    BY <1>1, <1>2, <1>3, <1>4, <1>5
  <1>9. r = pq
    BY <1>7, <1>8, SeqEqual
  <1>10. QED  BY <1>1, <1>2, <1>3, <1>4, <1>5, <1>9

\* Decoding a chunk loses nothing but characters.
LEMMA DecodedIs ==
  ASSUME NEW chunk \in Seq(Tokens), NEW whole \in BOOLEAN
  PROVE  /\ DecodedChunk(chunk, whole) \in Seq(DecodedTokens)
         /\ Restored(DecodedChunk(chunk, whole)) = chunk
  <1>1. ASSUME NEW t \in Tokens, NEW w \in BOOLEAN
        PROVE  Decoded(t, w) \in DecodedTokens /\ Token(Decoded(t, w).kind, Decoded(t, w).n) = t
    BY DEF Decoded, DecodedTokens, Tokens, Token
  <1>2. PICK d : d = DecodedChunk(chunk, whole)
    OBVIOUS
  <1>3. Len(chunk) \in Nat /\ \A i \in 1..Len(chunk) : chunk[i] \in Tokens /\ (i < Len(chunk) \/ whole) \in BOOLEAN
    OBVIOUS
  <1>4. /\ d \in [1..Len(chunk) -> DecodedTokens]
        /\ \A i \in 1..Len(chunk) : d[i] = Decoded(chunk[i], i < Len(chunk) \/ whole)
    BY <1>1, <1>2, <1>3 DEF DecodedChunk
  <1>5. d \in Seq(DecodedTokens) /\ Len(d) = Len(chunk)
    BY <1>3, <1>4
  <1>6. \A i \in 1..Len(chunk) : Token(d[i].kind, d[i].n) = chunk[i]
    BY <1>1, <1>3, <1>4
  <1>7. PICK r \in Seq(Tokens) : r = Restored(d) /\ Len(r) = Len(d)
                                 /\ \A i \in 1..Len(d) : r[i] = Token(d[i].kind, d[i].n)
    BY <1>5, RestoredIs
  <1>8. r = chunk
    BY <1>5, <1>6, <1>7, SeqEqual
  <1>9. QED  BY <1>2, <1>5, <1>7, <1>8

-----------------------------------------------------------------------------
(* Order.                                                                  *)

\* Every action keeps the types, whatever the order.
LEMMA NextTyped ==
  ASSUME TypeOK, [Next]_vars
  PROVE  TypeOK'
  <1>1. /\ ps0 \in BOOLEAN /\ shell \in {"start", "done", "drawing", "ready", "running"}
        /\ gone \in BOOLEAN /\ last \in 0..Commands /\ input \in Seq(1..Commands) /\ pipe \in Seq(Tokens)
        /\ rec \in {"draining", "sending", "ended", "failed"} /\ sent \in 0..Commands
        /\ cast \in Seq(DecodedTokens) /\ orderly \in BOOLEAN
        /\ printed \in [1..Commands -> 0..MaxPrinted] /\ Commands \in Nat /\ MaxPrinted \in Nat
    BY RecorderAssumption DEF TypeOK
  <1>2. \A kind \in Kinds, n \in 0..Commands : Token(kind, n) \in Tokens /\ Mark(kind) \in Tokens
    BY TokenTyped
  <1>3. {"A", "B1", "B2", "C", "D", "typed", "out"} \subseteq Kinds
    BY DEF Kinds
  <1>4. CASE PrintDone
    <2>1. pipe' \in Seq(Tokens)
      BY <1>1, <1>2, <1>3, <1>4 DEF PrintDone
    <2>2. QED  BY <1>1, <1>4, <2>1 DEF PrintDone, recVars, TypeOK
  <1>5. CASE DrawPrompt
    <2>1. <<Mark("A"), Mark("B1"), Mark("B2")>> \in Seq(Tokens)
      BY <1>1, <1>2, <1>3
    <2>2. pipe' \in Seq(Tokens)
      BY <1>1, <1>5, <2>1, ConcatProperties DEF DrawPrompt
    <2>3. QED  BY <1>1, <1>5, <2>2 DEF DrawPrompt, recVars, TypeOK
  <1>6. CASE ReadLine
    <2>1. Head(input) \in 1..Commands /\ Tail(input) \in Seq(1..Commands)
      BY <1>1, <1>6, HeadTailProperties DEF ReadLine
    <2>2. PICK t \in Tokens : t = Token("typed", Head(input))
      BY <1>2, <1>3, <2>1
    <2>3. PICK m \in Seq(Tokens) : m = IF ps0 THEN <<Mark("C")>> ELSE <<>>
      <3>1. <<Mark("C")>> \in Seq(Tokens) /\ <<>> \in Seq(Tokens)
        BY <1>1, <1>2, <1>3
      <3>2. QED  BY <3>1
    <2>4. pipe' = (pipe \o <<t>>) \o m
      BY <1>6, <2>2, <2>3 DEF ReadLine
    <2>5. pipe' \in Seq(Tokens)
      BY <1>1, <2>4
    <2>6. QED  BY <1>1, <1>6, <2>1, <2>5 DEF ReadLine, recVars, TypeOK
  <1>7. CASE PrintOutput
    <2>1. pipe' \in Seq(Tokens)
      BY <1>1, <1>2, <1>3, <1>7 DEF PrintOutput
    <2>2. printed' \in [1..Commands -> 0..MaxPrinted]
      <3>1. printed' = [printed EXCEPT ![last] = printed[last] + 1] /\ printed[last] < MaxPrinted
        BY <1>7 DEF PrintOutput
      <3>2. CASE last \in 1..Commands
        BY <1>1, <3>1, <3>2
      <3>3. CASE last = 0
        <4>1. last \notin DOMAIN printed
          BY <1>1, <3>3
        <4>2. printed' = printed
          BY <1>1, <3>1, <4>1
        <4>3. QED  BY <1>1, <4>2
      <3>4. QED  BY <1>1, <3>2, <3>3
    <2>3. QED  BY <1>1, <1>7, <2>1, <2>2 DEF PrintOutput, recVars, TypeOK
  <1>8. CASE Finish \/ Leave
    BY <1>1, <1>8 DEF Finish, Leave, recVars, TypeOK
  <1>9. CASE Drain
    <2>1. PICK k \in 1..Len(pipe), whole \in BOOLEAN :
             /\ cast' = cast \o DecodedChunk(SubSeq(pipe, 1, k), whole)
             /\ pipe' = SubSeq(pipe, k + 1, Len(pipe))
      BY <1>9 DEF Drain
    <2>2. SubSeq(pipe, 1, k) \in Seq(Tokens) /\ pipe' \in Seq(Tokens)
      BY <1>1, <2>1
    <2>3. DecodedChunk(SubSeq(pipe, 1, k), whole) \in Seq(DecodedTokens)
      BY <2>2, DecodedIs
    <2>4. cast' \in Seq(DecodedTokens)
      BY <1>1, <2>1, <2>3, ConcatProperties
    <2>5. rec' \in {"draining", "sending"}
      BY <1>9 DEF Drain
    <2>6. QED  BY <1>1, <1>9, <2>2, <2>4, <2>5 DEF Drain, shellVars, TypeOK
  <1>10. CASE GiveUp \/ HangUp
    BY <1>1, <1>10 DEF GiveUp, HangUp, Still, shellVars, TypeOK
  <1>11. CASE SendNext
    <2>1. sent + 1 \in 1..Commands /\ input' \in Seq(1..Commands)
      BY <1>1, <1>11 DEF SendNext
    <2>2. pipe' \in Seq(Tokens)
      <3>1. Token("typed", sent + 1) \in Tokens
        BY <1>1, <1>2, <1>3, <2>1
      <3>2. QED  BY <1>1, <1>11, <3>1 DEF SendNext
    <2>3. QED  BY <1>1, <1>11, <2>1, <2>2 DEF SendNext, shellVars, TypeOK
  <1>12. CASE End
    BY <1>1, <1>12 DEF End, shellVars, TypeOK
  <1>13. CASE UNCHANGED vars
    BY <1>1, <1>13 DEF vars, shellVars, recVars, TypeOK
  <1>14. QED  BY <1>4, <1>5, <1>6, <1>7, <1>8, <1>9, <1>10, <1>11, <1>12, <1>13 DEF Next, Shell

\* A token that is no end of a prompt goes out, while the shell is not at one.
LEMMA Printed ==
  ASSUME NEW p \in Seq(Tokens), NEW t \in Tokens, t.kind # "B2",
         \A i \in 1..Len(p) : p[i].kind # "B2"
  PROVE  /\ Append(p, t) \in Seq(Tokens)
         /\ \A i \in 1..Len(Append(p, t)) : Append(p, t)[i].kind # "B2"
  OBVIOUS

LEMMA PrintDoneR ==
  ASSUME RInv, PrintDone, TypeOK'
  PROVE  RInv'
  <1>1. /\ shell \in {"start", "done"} /\ shell' = "drawing"
        /\ pipe' = Append(pipe, Token("D", last))
        /\ UNCHANGED <<ps0, last, printed, input, rec, sent, cast>>
    BY DEF PrintDone, recVars
  <1>2. TypeOK /\ PromptInv /\ TurnInv
    BY DEF RInv
  <1>3. Token("D", last) \in Tokens /\ Token("D", last).kind = "D"
    BY <1>2, TokenTyped DEF TypeOK, Kinds
  <1>4. pipe \in Seq(Tokens) /\ \A i \in 1..Len(pipe) : pipe[i].kind # "B2"
    BY <1>1, <1>2 DEF TypeOK, PromptInv
  <1>5. pipe' \in Seq(Tokens) /\ \A i \in 1..Len(pipe') : pipe'[i].kind # "B2"
    BY <1>1, <1>3, <1>4, Printed
  <1>7. PromptInv'
    BY <1>1, <1>2, <1>5 DEF PromptInv
  <1>8. TurnInv'
    BY <1>1, <1>2 DEF TurnInv
  <1>9. QED  BY <1>7, <1>8 DEF RInv

LEMMA DrawPromptR ==
  ASSUME RInv, DrawPrompt, TypeOK'
  PROVE  RInv'
  <1>1. /\ shell = "drawing" /\ shell' = "ready"
        /\ pipe' = pipe \o <<Mark("A"), Mark("B1"), Mark("B2")>>
        /\ UNCHANGED <<ps0, last, printed, input, rec, sent, cast>>
    BY DEF DrawPrompt, recVars
  <1>2. TypeOK /\ PromptInv /\ TurnInv
    BY DEF RInv
  <1>3. PICK m : m = <<Mark("A"), Mark("B1"), Mark("B2")>>
    OBVIOUS
  <1>4. m \in Seq(Tokens) /\ Len(m) = 3 /\ m[1].kind # "B2" /\ m[2].kind # "B2"
    <2>1. \A kind \in Kinds : Mark(kind) \in Tokens /\ Mark(kind).kind = kind
      BY RecorderAssumption, TokenTyped
    <2>2. {"A", "B1", "B2"} \subseteq Kinds
      BY DEF Kinds
    <2>3. QED  BY <2>1, <2>2, <1>3
  <1>5. pipe \in Seq(Tokens) /\ \A i \in 1..Len(pipe) : pipe[i].kind # "B2"
    BY <1>1, <1>2 DEF TypeOK, PromptInv
  <1>6. pipe' \in Seq(Tokens) /\ Len(pipe') = Len(pipe) + 3
        /\ \A i \in 1..Len(pipe') : pipe'[i].kind = "B2" => i = Len(pipe')
    <2>1. pipe' = pipe \o m
      BY <1>1, <1>3
    <2>2. pipe' \in Seq(Tokens) /\ Len(pipe') = Len(pipe) + 3 /\ Len(pipe) \in Nat
      <3>1. Len(pipe) \in Nat /\ pipe \in Seq(Tokens) /\ m \in Seq(Tokens)
        BY <1>4, <1>5
      <3>2. pipe \o m \in Seq(Tokens) /\ Len(pipe \o m) = Len(pipe) + Len(m)
        BY <3>1, ConcatProperties, Zenon
      <3>3. QED  BY <3>1, <3>2, <2>1, <1>4
    <2>3. \A i \in 1..Len(pipe') :
            pipe'[i] = IF i <= Len(pipe) THEN pipe[i] ELSE m[i - Len(pipe)]
      BY <2>1, <1>4, <1>5, ConcatProperties
    <2>4. ASSUME NEW i \in 1..Len(pipe'), i # Len(pipe')
          PROVE  pipe'[i].kind # "B2"
      <3>1. CASE i <= Len(pipe)
        BY <3>1, <2>2, <2>3, <1>5
      <3>2. CASE i > Len(pipe)
        <4>1. i - Len(pipe) = 1 \/ i - Len(pipe) = 2
          BY <3>2, <2>2, <2>4
        <4>2. pipe'[i] = m[i - Len(pipe)]
          BY <3>2, <2>2, <2>3
        <4>3. QED  BY <4>1, <4>2, <1>4
      <3>3. QED  BY <3>1, <3>2, <2>2
    <2>5. QED  BY <2>2, <2>4
  <1>8. PromptInv'
    BY <1>1, <1>2, <1>6 DEF PromptInv
  <1>9. TurnInv'
    BY <1>1, <1>2 DEF TurnInv
  <1>10. QED  BY <1>8, <1>9 DEF RInv

LEMMA ReadLineR ==
  ASSUME RInv, ReadLine, TypeOK'
  PROVE  RInv'
  <1>1. /\ shell = "ready" /\ input # <<>> /\ shell' = "running"
        /\ last' = Head(input) /\ input' = Tail(input)
        /\ pipe' = (pipe \o <<Token("typed", Head(input))>>)
                     \o (IF ps0 THEN <<Mark("C")>> ELSE <<>>)
        /\ UNCHANGED <<ps0, printed, rec, sent, cast>>
    BY DEF ReadLine, recVars
  <1>2. TypeOK /\ PromptInv /\ TurnInv
    BY DEF RInv
  <1>3. input = <<sent>> /\ Head(input) = sent /\ Tail(input) = <<>> /\ sent \in 1..Commands
    <2>1. input = <<sent>>
      BY <1>1, <1>2 DEF TurnInv
    <2>2. Head(input) = sent /\ Tail(input) = <<>>
      BY <2>1
    <2>3. sent \in 1..Commands
      BY <2>1, <2>2, <1>2 DEF TypeOK
    <2>4. QED  BY <2>1, <2>2, <2>3
  <1>4. pipe \in Seq(Tokens) /\ \A i \in 1..Len(pipe) : pipe[i].kind # "B2"
    BY <1>1, <1>2 DEF TypeOK, PromptInv
  <1>5. PICK t : t = Token("typed", sent)
    OBVIOUS
  <1>6. t \in Tokens /\ t.kind # "B2" /\ Mark("C") \in Tokens /\ Mark("C").kind # "B2"
    <2>1. sent \in 0..Commands /\ "typed" \in Kinds /\ "C" \in Kinds
      BY <1>3 DEF Kinds
    <2>2. QED  BY <2>1, <1>5, TokenTyped
  <1>7. PICK q : q = Append(pipe, t)
    OBVIOUS
  <1>8. q \in Seq(Tokens) /\ \A i \in 1..Len(q) : q[i].kind # "B2"
    BY <1>4, <1>6, <1>7, Printed
  <1>9. pipe' \in Seq(Tokens) /\ \A i \in 1..Len(pipe') : pipe'[i].kind # "B2"
    <2>1. pipe \o <<t>> = q
      BY <1>4, <1>6, <1>7
    <2>2. CASE ps0
      <3>1. pipe' = q \o <<Mark("C")>>
        BY <2>1, <2>2, <1>1, <1>3, <1>5
      <3>2. q \o <<Mark("C")>> = Append(q, Mark("C"))
        BY <1>6, <1>8
      <3>3. QED  BY <3>1, <3>2, <1>6, <1>8, Printed
    <2>3. CASE ~ps0
      <3>1. pipe' = q \o <<>>
        BY <2>1, <2>3, <1>1, <1>3, <1>5
      <3>2. q \o <<>> = q
        BY <1>8
      <3>3. QED  BY <3>1, <3>2, <1>8
    <2>4. QED  BY <2>2, <2>3
  <1>10. rec = "draining"
    BY <1>1, <1>2 DEF PromptInv
  <1>12. PromptInv'
    BY <1>1, <1>3, <1>9, <1>10 DEF PromptInv
  <1>13. TurnInv'
    BY <1>1, <1>2, <1>3 DEF TurnInv
  <1>14. QED  BY <1>12, <1>13 DEF RInv

LEMMA PrintOutputR ==
  ASSUME RInv, PrintOutput, TypeOK'
  PROVE  RInv'
  <1>1. /\ shell = "running" /\ printed[last] < MaxPrinted
        /\ printed' = [printed EXCEPT ![last] = printed[last] + 1]
        /\ pipe' = Append(pipe, Token("out", last))
        /\ UNCHANGED <<ps0, shell, last, input, rec, sent, cast>>
    BY DEF PrintOutput, recVars
  <1>2. TypeOK /\ PromptInv /\ TurnInv
    BY DEF RInv
  <1>3. Token("out", last) \in Tokens /\ Token("out", last).kind # "B2"
    <2>1. last \in 0..Commands /\ "out" \in Kinds
      BY <1>2 DEF TypeOK, Kinds
    <2>2. QED  BY <2>1, TokenTyped
  <1>4. pipe \in Seq(Tokens) /\ \A i \in 1..Len(pipe) : pipe[i].kind # "B2"
    BY <1>1, <1>2 DEF TypeOK, PromptInv
  <1>5. pipe' \in Seq(Tokens) /\ \A i \in 1..Len(pipe') : pipe'[i].kind # "B2"
    BY <1>1, <1>3, <1>4, Printed
  <1>8. PromptInv'
    BY <1>1, <1>2, <1>5 DEF PromptInv
  <1>9. TurnInv'
    BY <1>1, <1>2 DEF TurnInv
  <1>10. QED  BY <1>8, <1>9 DEF RInv

LEMMA FinishR ==
  ASSUME RInv, Finish, TypeOK'
  PROVE  RInv'
  <1>1. /\ shell = "running" /\ shell' = "done"
        /\ UNCHANGED <<last, input, pipe, rec, sent>>
    BY DEF Finish, recVars
  <1>2. PromptInv' /\ TurnInv'
    BY <1>1 DEF RInv, PromptInv, TurnInv
  <1>3. QED  BY <1>2 DEF RInv

\* A read that shows a prompt has taken all that was on its way.
LEMMA DrainR ==
  ASSUME RInv, Drain, TypeOK'
  PROVE  RInv'
  <1>1. PICK k \in 1..Len(pipe) :
           /\ pipe' = SubSeq(pipe, k + 1, Len(pipe))
           /\ rec' = IF Prompt(SubSeq(pipe, 1, k)) THEN "sending" ELSE rec
    BY DEF Drain
  <1>2. rec = "draining" /\ UNCHANGED <<ps0, shell, last, printed, input, sent>>
    BY DEF Drain, shellVars
  <1>3. TypeOK /\ PromptInv /\ TurnInv
    BY DEF RInv
  <1>4. pipe \in Seq(Tokens) /\ Len(pipe) \in Nat /\ k \in Nat
    BY <1>3 DEF TypeOK
  <1>5. PICK chunk : chunk = SubSeq(pipe, 1, k)
    OBVIOUS
  <1>6. chunk \in Seq(Tokens) /\ Len(chunk) = k /\ \A i \in 1..k : chunk[i] = pipe[i]
    BY <1>4, <1>5
  <1>7. /\ pipe' \in Seq(Tokens) /\ Len(pipe') = Len(pipe) - k
        /\ \A i \in 1..Len(pipe') : pipe'[i] = pipe[k + i] /\ k + i \in 1..Len(pipe)
    BY <1>1, <1>4
  <1>9. rec' # "draining" => shell = "ready" /\ input = <<>> /\ pipe' = <<>>
    <2>1. SUFFICES ASSUME rec' # "draining"
                   PROVE  shell = "ready" /\ input = <<>> /\ pipe' = <<>>
      OBVIOUS
    <2>2. Prompt(chunk)
      BY <2>1, <1>1, <1>2, <1>5
    <2>3. PICK i \in 1..(k - 1) : chunk[i + 1].kind = "B2"
      BY <2>2, <1>6 DEF Prompt
    <2>4. i + 1 \in 1..Len(pipe) /\ i + 1 \in 1..k /\ pipe[i + 1].kind = "B2"
      BY <2>3, <1>1, <1>4, <1>6
    <2>5. i + 1 = Len(pipe) /\ shell = "ready" /\ input = <<>>
      BY <2>4, <1>3 DEF PromptInv
    <2>6. Len(pipe') = 0
      BY <2>4, <2>5, <1>1, <1>4, <1>7
    <2>7. QED  BY <2>5, <2>6, <1>7
  <1>11. PromptInv'
    <2>1. ASSUME NEW i \in 1..Len(pipe'), pipe'[i].kind = "B2"
          PROVE  i = Len(pipe') /\ shell = "ready" /\ input = <<>>
      <3>1. k + i \in 1..Len(pipe) /\ pipe[k + i].kind = "B2"
        BY <2>1, <1>7
      <3>2. k + i = Len(pipe) /\ shell = "ready" /\ input = <<>>
        BY <3>1, <1>3 DEF PromptInv
      <3>3. QED  BY <3>2, <1>4, <1>7
    <2>2. QED  BY <2>1, <1>2, <1>3, <1>9 DEF PromptInv
  <1>12. TurnInv'
    BY <1>2, <1>3 DEF TurnInv
  <1>13. QED  BY <1>11, <1>12 DEF RInv

\* A wait that ends at its deadline ends in order only where the prompt was read in two.
LEMMA GiveUpR ==
  ASSUME RInv, GiveUp, orderly', TypeOK'
  PROVE  RInv'
  <1>1. /\ shell = "ready" /\ input = <<>> /\ pipe = <<>> /\ rec' = "sending"
        /\ UNCHANGED <<shell, last, input, pipe, sent>>
    BY DEF GiveUp, Still, shellVars
  <1>2. PromptInv' /\ TurnInv'
    BY <1>1 DEF RInv, PromptInv, TurnInv
  <1>3. QED  BY <1>2 DEF RInv

LEMMA LeaveR ==
  ASSUME RInv, Leave, TypeOK'
  PROVE  RInv'
  <1>1. UNCHANGED <<shell, last, input, pipe, rec, sent>>
    BY DEF Leave, recVars
  <1>2. PromptInv' /\ TurnInv'
    BY <1>1 DEF RInv, PromptInv, TurnInv
  <1>3. QED  BY <1>2 DEF RInv

LEMMA SendNextR ==
  ASSUME RInv, SendNext, TypeOK'
  PROVE  RInv'
  <1>1. /\ rec = "sending" /\ sent < Commands /\ sent' = sent + 1
        /\ input' = Append(input, sent + 1)
        /\ pipe' = IF shell = "ready" \/ gone THEN pipe ELSE Append(pipe, Token("typed", sent + 1))
        /\ rec' = "draining" /\ UNCHANGED <<ps0, shell, last, printed, cast>>
    BY DEF SendNext, shellVars
  <1>2. TypeOK /\ PromptInv /\ TurnInv
    BY DEF RInv
  <1>3. shell = "ready" /\ input = <<>> /\ pipe = <<>> /\ pipe' = pipe
    BY <1>1, <1>2 DEF PromptInv
  <1>4. input' = <<sent'>> /\ last = sent /\ sent \in Nat /\ sent' \in 1..Commands
    <2>1. sent \in 0..Commands /\ Commands \in Nat
      BY <1>2, RecorderAssumption DEF TypeOK
    <2>2. sent \in Nat /\ sent' \in 1..Commands
      BY <2>1, <1>1
    <2>3. last = sent
      BY <1>2, <1>3 DEF TurnInv
    <2>4. input' = <<sent'>>
      BY <1>1, <1>3
    <2>5. QED  BY <2>2, <2>3, <2>4
  <1>6. PromptInv'
    BY <1>1, <1>3, <1>4 DEF PromptInv
  <1>7. TurnInv'
    BY <1>1, <1>4, SMTT(30) DEF TurnInv
  <1>8. QED  BY <1>6, <1>7 DEF RInv

LEMMA EndR ==
  ASSUME RInv, End, TypeOK'
  PROVE  RInv'
  <1>1. /\ rec = "sending" /\ rec' \in {"ended", "failed"}
        /\ UNCHANGED <<ps0, shell, last, printed, input, pipe, sent, cast>>
    BY DEF End, shellVars
  <1>2. PromptInv' /\ TurnInv'
    BY <1>1 DEF RInv, PromptInv, TurnInv
  <1>3. QED  BY <1>2 DEF RInv

\* No wait that has not been in order is again, and what is in order stays so.
LEMMA NextR ==
  ASSUME TypeOK', [Next]_vars, orderly', orderly => RInv
  PROVE  orderly /\ RInv'
  <1>1. orderly /\ ~HangUp
    BY DEF Next, Shell, PrintDone, DrawPrompt, ReadLine, PrintOutput, Finish, Leave, Drain, GiveUp, HangUp,
           SendNext, End, recVars, vars
  <1>2. RInv
    BY <1>1
  <1>3. CASE Shell
    BY <1>1, <1>2, <1>3, PrintDoneR, DrawPromptR, ReadLineR, PrintOutputR, FinishR DEF Shell
  <1>4. CASE Drain \/ Leave
    BY <1>1, <1>2, <1>4, DrainR, LeaveR
  <1>5. CASE GiveUp
    BY <1>1, <1>2, <1>5, GiveUpR
  <1>6. CASE SendNext
    BY <1>1, <1>2, <1>6, SendNextR
  <1>7. CASE End
    BY <1>1, <1>2, <1>7, EndR
  <1>8. CASE UNCHANGED vars
    <2>1. UNCHANGED <<shell, last, input, pipe, rec, sent>>
      BY <1>8 DEF vars, shellVars, recVars
    <2>2. PromptInv' /\ TurnInv'
      BY <1>2, <2>1 DEF RInv, PromptInv, TurnInv
    <2>3. QED  BY <1>1, <2>2 DEF RInv
  <1>9. QED  BY <1>1, <1>3, <1>4, <1>5, <1>6, <1>7, <1>8 DEF Next

\* The inductive invariant, as long as no wait has ended early: a prompt is the last
\* thing printed, and is seen only once all is read.
THEOREM RecorderInv == Spec => [](TypeOK /\ (orderly => RInv))
  <1>1. Init => TypeOK /\ (orderly => RInv)
    BY InitR DEF RInv
  <1>2. (TypeOK /\ (orderly => RInv)) /\ [Next]_vars => (TypeOK /\ (orderly => RInv))'
    BY NextTyped, NextR
  <1>3. QED  BY <1>1, <1>2, PTL DEF Spec

\* Nothing is sent before the shell is back at its prompt, with everything
\* typed before read and done, however the reads cut the stream and even when
\* a mark is cut in two (record.py:89-92): as long as no wait ended at its
\* deadline (record.py:138, 141) or because the shell was gone (record.py:187-190).
THEOREM SentInTurn == Spec => []SentOnlyAfterFinished
  <1>1. (TypeOK /\ (orderly => RInv)) => SentOnlyAfterFinished
    BY DEF RInv, PromptInv, SentOnlyAfterFinished
  <1>2. QED  BY <1>1, RecorderInv, PTL

\* "The next one is not sent until the shell says the last one finished"
\* (record.py:109-110): true of as long as no wait ended early.
THEOREM TheLastOneFinished == Spec => []LastOneFinished
  <1>1. (TypeOK /\ (orderly => RInv)) => LastOneFinished
    BY DEF RInv, PromptInv, TurnInv, TypeOK, LastOneFinished
  <1>2. QED  BY <1>1, RecorderInv, PTL

-----------------------------------------------------------------------------
(* Cutting the recording.                                                  *)

\* The loop over the marks is a recursive function, and there is one.
LEMMA CutsAre ==
  ASSUME NEW text, Len(text) \in Nat
  PROVE  Cuts(text) = [i \in 0..Len(text) |->
                         IF i = 0 THEN NoneYet ELSE AtMark(text, Cuts(text)[i - 1], i)]
  <1> DEFINE Def(g, i) == IF i = 0 THEN NoneYet ELSE AtMark(text, g[i - 1], i)
             Upto(n) == \E g : g = [i \in 0..n |-> Def(g, i)]
             Not == {n \in Nat : ~Upto(n)}
  <1>1. Upto(0)
    <2>1. [i \in 0..0 |-> NoneYet] = [i \in 0..0 |-> Def([j \in 0..0 |-> NoneYet], i)]
      OBVIOUS
    <2>2. QED  BY <2>1
  <1>2. ASSUME NEW n \in Nat, Upto(n) PROVE Upto(n + 1)
    <2>1. PICK g : g = [i \in 0..n |-> Def(g, i)]
      BY <1>2
    <2> DEFINE h == [i \in 0..(n + 1) |-> IF i = n + 1 THEN AtMark(text, g[n], n + 1) ELSE g[i]]
    <2>2. \A i \in 0..(n + 1) : h[i] = Def(h, i)
      <3>1. TAKE i \in 0..(n + 1)
      <3>2. CASE i = 0
        <4>1. h[0] = g[0]
          OBVIOUS
        <4>2. g[0] = NoneYet
          BY <2>1
        <4>3. QED  BY <3>2, <4>1, <4>2
      <3>3. CASE i \in 1..n
        <4>1. h[i] = g[i] /\ h[i - 1] = g[i - 1] /\ i # 0
          BY <3>3
        <4>2. g[i] = AtMark(text, g[i - 1], i)
          BY <2>1, <3>3
        <4> HIDE DEF h
        <4>3. QED  BY <4>1, <4>2
      <3>4. CASE i = n + 1
        <4>1. h[i] = AtMark(text, g[n], n + 1) /\ h[i - 1] = g[n] /\ i # 0
          BY <3>4
        <4> HIDE DEF h
        <4>2. QED  BY <3>4, <4>1
      <3>5. QED  BY <3>2, <3>3, <3>4
    <2>3. h = [i \in 0..(n + 1) |-> h[i]]
      OBVIOUS
    <2> HIDE DEF h
    <2>4. h = [i \in 0..(n + 1) |-> Def(h, i)]
      <3> HIDE DEF Def
      <3>1. QED  BY <2>2, <2>3
    <2>5. QED  BY <2>4
  <1>3. Not = {}
    <2>1. SUFFICES ASSUME Not # {} PROVE FALSE
      OBVIOUS
    <2>2. PICK m \in Not : \A n \in Not : ~(<<n, m>> \in OpToRel(<, Nat))
      BY <2>1, NatLessThanWellFounded, WFMin
    <2>3. m \in Nat /\ ~Upto(m) /\ m # 0
      BY <1>1
    <2>4. m - 1 \in Nat /\ m - 1 < m
      BY <2>3
    <2>5. m - 1 \notin Not
      <3> HIDE DEF Not
      <3>1. QED  BY <2>2, <2>3, <2>4 DEF OpToRel
    <2>6. Upto(m - 1)
      BY <2>4, <2>5
    <2> HIDE DEF Upto
    <2>7. Upto((m - 1) + 1)
      BY <1>2, <2>4, <2>6
    <2>8. (m - 1) + 1 = m
      BY <2>3
    <2>9. QED  BY <2>3, <2>7, <2>8
  <1>4. Len(text) \in Nat
    OBVIOUS
  <1>5. Upto(Len(text))
    <2> HIDE DEF Upto
    <2>1. QED  BY <1>3, <1>4
  <1>6. Cuts(text) = CHOOSE g : g = [i \in 0..Len(text) |-> Def(g, i)]
    BY DEF Cuts
  <1>7. QED
    <2> HIDE DEF Def
    <2>1. Cuts(text) = [i \in 0..Len(text) |-> Def(Cuts(text), i)]
      BY <1>5, <1>6
    <2>2. QED  BY <2>1 DEF Def

\* So a place is what the loop makes of the place before.
LEMMA CutAt ==
  ASSUME NEW text, Len(text) \in Nat
  PROVE  /\ Cuts(text)[0] = NoneYet
         /\ \A i \in 1..Len(text) : Cuts(text)[i] = AtMark(text, Cuts(text)[i - 1], i)
  <1> DEFINE cuts == Cuts(text)
  <1>1. cuts = [i \in 0..Len(text) |-> IF i = 0 THEN NoneYet ELSE AtMark(text, cuts[i - 1], i)]
    BY CutsAre
  <1> HIDE DEF cuts
  <1>2. /\ cuts[0] = NoneYet
        /\ \A i \in 1..Len(text) : cuts[i] = AtMark(text, cuts[i - 1], i)
    BY <1>1
  <1>3. QED  BY <1>2 DEF cuts

\* A step that ends at i has begun before, with the line that was typed.
Begun(text, cut, i) ==
  text[i].kind = "D" /\ cut.typedAt > 0 =>
    /\ cut.typedAt \in 1..(i - 2) /\ cut.ranAt \in 0..(i - 1)
    /\ text[cut.typedAt + 1].kind = "typed"

Sane(text) == \A i \in 1..Len(text) : Begun(text, Cuts(text)[i - 1], i)

\* Without a mark C the command ends with the line that was typed, when there is one.
LEMMA RanWith ==
  ASSUME NEW text \in Seq(Tokens), NEW at \in Nat, at + 1 \in 1..Len(text),
         text[at + 1].kind = "typed"
  PROVE  RanAt(text, at, 0) = at + 1
  <1> DEFINE lines == {i \in DOMAIN text : i > at /\ text[i].kind = "typed"}
  <1>1. at + 1 \in lines /\ \A j \in lines : at + 1 <= j
    OBVIOUS
  <1>2. \A i \in lines : i \in Nat
    OBVIOUS
  <1>3. \A i \in lines : (\A j \in lines : i <= j) => i = at + 1
    <2> HIDE DEF lines
    <2>1. TAKE i \in lines
    <2>2. HAVE \A j \in lines : i <= j
    <2>3. i <= at + 1 /\ at + 1 <= i
      BY <1>1, <2>2
    <2>4. QED  BY <2>3, <1>2
  <1>4. RanAt(text, at, 0) = CHOOSE i \in lines : \A j \in lines : i <= j
    BY <1>1 DEF RanAt
  <1> HIDE DEF lines
  <1>5. QED  BY <1>1, <1>3, <1>4

LEMMA SameSub ==
  ASSUME NEW short \in Seq(Tokens), NEW long \in Seq(Tokens), Len(short) <= Len(long),
         \A j \in 1..Len(short) : short[j] = long[j],
         NEW m \in Nat, m > 0, NEW n \in Nat, n <= Len(short)
  PROVE  SubSeq(short, m, n) = SubSeq(long, m, n)
  <1>1. SubSeq(short, m, n) = [i \in 1..(1 + n - m) |-> short[i + m - 1]]
    BY DEF SubSeq
  <1>2. SubSeq(long, m, n) = [i \in 1..(1 + n - m) |-> long[i + m - 1]]
    BY DEF SubSeq
  <1>3. \A i \in 1..(1 + n - m) : short[i + m - 1] = long[i + m - 1]
    OBVIOUS
  <1>4. QED  BY <1>1, <1>2, <1>3

\* A mark is read the same in two texts that begin alike.
LEMMA SameMark ==
  ASSUME NEW short \in Seq(Tokens), NEW long \in Seq(Tokens), Len(short) <= Len(long),
         \A j \in 1..Len(short) : short[j] = long[j],
         NEW i \in 1..Len(short), NEW cut, Begun(short, cut, i)
  PROVE  AtMark(short, cut, i) = AtMark(long, cut, i)
  <1>1. short[i] = long[i]
    OBVIOUS
  <1>2. CASE ~(short[i].kind = "D" /\ cut.typedAt > 0)
    BY <1>1, <1>2 DEF AtMark
  <1>3. CASE short[i].kind = "D" /\ cut.typedAt > 0
    <2> DEFINE at == cut.typedAt
               ran == IF cut.ranAt > 0 THEN cut.ranAt ELSE at + 1
    <2>1. /\ at \in Nat /\ at >= 1 /\ at + 1 < i /\ cut.ranAt \in 0..(i - 1)
          /\ short[at + 1].kind = "typed"
      BY <1>3 DEF Begun
    <2> HIDE DEF at
    <2>2. at + 1 \in 1..Len(short) /\ at + 1 \in 1..Len(long)
      BY <2>1
    <2>3. at + 1 \in 1..Len(short) /\ at + 1 \in 1..Len(long) /\ long[at + 1].kind = "typed"
      BY <2>1, <2>2
    <2>4. RanAt(short, at, 0) = at + 1 /\ RanAt(long, at, 0) = at + 1
      BY <2>1, <2>3, RanWith
    <2>5. RanAt(short, at, cut.ranAt) = ran /\ RanAt(long, at, cut.ranAt) = ran
      <3>1. CASE cut.ranAt = 0
        BY <2>4, <3>1
      <3>2. CASE cut.ranAt > 0
        BY <3>2 DEF RanAt
      <3>3. QED  BY <2>1, <3>1, <3>2
    <2>6. ran \in 0..(i - 1)
      BY <2>1
    <2> HIDE DEF ran
    <2>7. SubSeq(short, at + 1, ran) = SubSeq(long, at + 1, ran)
      <3>1. at + 1 \in Nat /\ at + 1 > 0 /\ ran \in Nat /\ ran <= Len(short)
        BY <2>1, <2>6
      <3>2. QED  BY <3>1, SameSub
    <2>8. SubSeq(short, ran + 1, i - 1) = SubSeq(long, ran + 1, i - 1)
      <3>1. ran + 1 \in Nat /\ ran + 1 > 0 /\ i - 1 \in Nat /\ i - 1 <= Len(short)
        BY <2>6
      <3>2. QED  BY <3>1, SameSub
    <2>9. StepOf(short, at, cut.ranAt, i, short[i].n, TRUE) = StepOf(long, at, cut.ranAt, i, long[i].n, TRUE)
      BY <1>1, <2>5, <2>7, <2>8 DEF StepOf
    <2>10. QED  BY <1>1, <1>3, <2>9 DEF AtMark, at
  <1>4. QED  BY <1>2, <1>3

\* The loop over the beginning of a text does what it does there in the whole.
LEMMA Agree ==
  ASSUME NEW short \in Seq(Tokens), NEW long \in Seq(Tokens), Len(short) <= Len(long),
         \A j \in 1..Len(short) : short[j] = long[j],
         Sane(short) \/ \A i \in 1..Len(short) : Begun(long, Cuts(long)[i - 1], i)
  PROVE  \A i \in 0..Len(short) : Cuts(short)[i] = Cuts(long)[i]
  <1> DEFINE Not == {i \in 0..Len(short) : Cuts(short)[i] # Cuts(long)[i]}
  <1>1. SUFFICES ASSUME Not # {} PROVE FALSE
    OBVIOUS
  <1>2. Not \subseteq Nat
    OBVIOUS
  <1>3. PICK m \in Not : \A n \in Not : ~(<<n, m>> \in OpToRel(<, Nat))
    BY <1>1, <1>2, NatLessThanWellFounded, WFMin
  <1>4. m \in 1..Len(short)
    <2>1. Cuts(short)[0] = Cuts(long)[0]
      BY CutAt
    <2>2. QED  BY <2>1
  <1>5. m - 1 \in 0..Len(short) /\ m - 1 \in Nat /\ m - 1 < m /\ m \in Nat
    BY <1>4
  <1>6. m - 1 \notin Not
    <2> HIDE DEF Not
    <2>1. QED  BY <1>3, <1>5 DEF OpToRel
  <1>7. Cuts(short)[m - 1] = Cuts(long)[m - 1]
    BY <1>5, <1>6
  <1> DEFINE cut == Cuts(short)[m - 1]
  <1>8. Begun(short, cut, m)
    <2>1. CASE Sane(short)
      BY <1>4, <2>1 DEF Sane
    <2>2. CASE \A i \in 1..Len(short) : Begun(long, Cuts(long)[i - 1], i)
      <3>1. Begun(long, cut, m)
        BY <1>4, <1>7, <2>2
      <3> HIDE DEF cut
      <3>2. short[m] = long[m]
        BY <1>4
      <3>3. short[m].kind = "D" /\ cut.typedAt > 0 => cut.typedAt \in 1..(m - 2)
        BY <3>1, <3>2 DEF Begun
      <3>4. cut.typedAt \in 1..(m - 2) => short[cut.typedAt + 1] = long[cut.typedAt + 1]
        BY <1>4
      <3>5. QED  BY <3>1, <3>2, <3>3, <3>4 DEF Begun
    <2>3. QED  BY <2>1, <2>2
  <1>9. AtMark(short, cut, m) = AtMark(long, cut, m)
    <2> HIDE DEF cut
    <2>1. QED  BY <1>4, <1>8, SameMark
  <1>10. Cuts(short)[m] = AtMark(short, cut, m)
    BY <1>4, CutAt
  <1>11. Cuts(long)[m] = AtMark(long, cut, m)
    <2>1. m \in 1..Len(long)
      BY <1>4
    <2>2. Cuts(long)[m] = AtMark(long, Cuts(long)[m - 1], m)
      BY <2>1, CutAt
    <2>3. QED  BY <1>7, <2>2
  <1>12. QED
    <2>1. Cuts(short)[m] = Cuts(long)[m]
      BY <1>9, <1>10, <1>11
    <2>2. QED  BY <1>3, <2>1

\* One token more.
LEMMA OneMore ==
  ASSUME NEW text \in Seq(Tokens), NEW t \in Tokens, Sane(text)
  PROVE  LET more == Append(text, t)
             last1 == Len(text) + 1
         IN  /\ more \in Seq(Tokens) /\ Len(more) = last1 /\ more[last1] = t
             /\ \A i \in 1..Len(text) : more[i] = text[i]
             /\ \A i \in 0..Len(text) : Cuts(more)[i] = Cuts(text)[i]
             /\ Cuts(more)[last1] = AtMark(more, Cuts(text)[Len(text)], last1)
             /\ Begun(more, Cuts(text)[Len(text)], last1) => Sane(more)
  <1> DEFINE more == Append(text, t)
             n == Len(text)
  <1>1. more \in Seq(Tokens) /\ Len(more) = n + 1 /\ more[n + 1] = t /\ n \in Nat
    OBVIOUS
  <1>2. \A i \in 1..n : more[i] = text[i]
    OBVIOUS
  <1> HIDE DEF more
  <1>3. \A i \in 0..n : Cuts(text)[i] = Cuts(more)[i]
    BY <1>1, <1>2, Agree
  <1>4. Cuts(more)[n + 1] = AtMark(more, Cuts(text)[n], n + 1)
    <2>1. n + 1 \in 1..Len(more) /\ (n + 1) - 1 = n /\ n \in 0..n
      BY <1>1
    <2>2. Cuts(more)[n + 1] = AtMark(more, Cuts(more)[(n + 1) - 1], n + 1)
      BY <1>1, <2>1, CutAt
    <2>3. Cuts(more)[n] = Cuts(text)[n]
      BY <1>3, <2>1
    <2>4. QED  BY <2>1, <2>2, <2>3
  <1>5. ASSUME Begun(more, Cuts(text)[n], n + 1) PROVE Sane(more)
    <2>1. SUFFICES ASSUME NEW i \in 1..(n + 1) PROVE Begun(more, Cuts(more)[i - 1], i)
      BY <1>1 DEF Sane
    <2>2. i - 1 \in 0..n /\ Cuts(more)[i - 1] = Cuts(text)[i - 1]
      BY <1>1, <1>3
    <2>3. CASE i = n + 1
      <3>1. i - 1 = n
        BY <1>1, <2>3
      <3>2. Begun(more, Cuts(text)[i - 1], i)
        BY <1>5, <2>3, <3>1
      <3>3. QED  BY <2>2, <3>2
    <2>4. CASE i \in 1..n
      <3> DEFINE cut == Cuts(text)[i - 1]
      <3>1. Begun(text, cut, i)
        BY <2>4 DEF Sane
      <3> HIDE DEF cut
      <3>2. more[i] = text[i]
        BY <1>2, <2>4
      <3>3. cut.typedAt \in 1..(i - 2) => more[cut.typedAt + 1] = text[cut.typedAt + 1]
        BY <1>1, <1>2, <2>4
      <3>4. Begun(more, cut, i)
        BY <3>1, <3>2, <3>3 DEF Begun
      <3>5. QED  BY <2>2, <3>4 DEF cut
    <2>5. QED  BY <1>1, <2>3, <2>4
  <1>6. QED  BY <1>1, <1>2, <1>3, <1>4, <1>5 DEF more

\* A line shows, and the mark behind it does not.
LEMMA LineShows ==
  ASSUME NEW t, Visible(t), NEW u, ~Visible(u)
  PROVE  Shown(<<>>) = <<>> /\ Shown(<<t>>) = <<t>> /\ Shown(<<t, u>>) = <<t>>
  <1> DEFINE Def(text, g, i) ==
               IF i = 0 THEN <<>> ELSE IF Visible(text[i]) THEN Append(g[i - 1], text[i]) ELSE g[i - 1]
             Is(text, g) == g = [i \in 0..Len(text) |-> Def(text, g, i)]
             Of(text) == CHOOSE g : Is(text, g)
  <1>1. \A text : Shown(text) = Of(text)[Len(text)]
    BY DEF Shown, ShownUpto
  <1>2. \A text, g : Is(text, g) => Is(text, Of(text))
    <2> HIDE DEF Is
    <2>1. QED  OBVIOUS
  <1>3. Shown(<<>>) = <<>>
    <2> DEFINE g == [i \in 0..0 |-> <<>>]
    <2>1. Is(<<>>, g)
      OBVIOUS
    <2>2. Is(<<>>, Of(<<>>))
      BY <1>2, <2>1
    <2>3. Of(<<>>)[0] = <<>>
      <3> HIDE DEF Of
      <3>1. QED  BY <2>2
    <2> HIDE DEF Of
    <2>4. QED  BY <1>1, <2>3
  <1>4. Shown(<<t>>) = <<t>>
    <2> DEFINE g == [i \in 0..1 |-> IF i = 0 THEN <<>> ELSE <<t>>]
    <2>1. Is(<<t>>, g)
      OBVIOUS
    <2>2. Is(<<t>>, Of(<<t>>))
      BY <1>2, <2>1
    <2>3. Of(<<t>>)[1] = <<t>>
      <3> DEFINE h == Of(<<t>>)
      <3>1. Is(<<t>>, h)
        BY <2>2
      <3> HIDE DEF h
      <3>2. h[0] = <<>>
        BY <3>1
      <3>3. h[1] = Append(h[0], t)
        BY <3>1
      <3>4. h[1] = <<t>>
        BY <3>2, <3>3
      <3>5. QED  BY <3>4 DEF h
    <2> HIDE DEF Of
    <2>4. QED  BY <1>1, <2>3
  <1>5. Shown(<<t, u>>) = <<t>>
    <2> DEFINE g == [i \in 0..2 |-> IF i = 0 THEN <<>> ELSE <<t>>]
    <2>1. Is(<<t, u>>, g)
      OBVIOUS
    <2>2. Is(<<t, u>>, Of(<<t, u>>))
      BY <1>2, <2>1
    <2>3. Of(<<t, u>>)[2] = <<t>>
      <3> DEFINE h == Of(<<t, u>>)
      <3>1. Is(<<t, u>>, h)
        BY <2>2
      <3> HIDE DEF h
      <3>2. h[0] = <<>>
        BY <3>1
      <3>3. h[1] = Append(h[0], t)
        BY <3>1
      <3>4. h[2] = h[1]
        <4>1. h[2] = Def(<<t, u>>, h, 2)
          <5> HIDE DEF Def
          <5>1. 2 \in 0..Len(<<t, u>>)
            OBVIOUS
          <5>2. QED  BY <3>1, <5>1
        <4>2. <<t, u>>[2] = u
          OBVIOUS
        <4>3. QED  BY <4>1, <4>2
      <3>5. h[2] = <<t>>
        BY <3>2, <3>3, <3>4
      <3>6. QED  BY <3>5 DEF h
    <2> HIDE DEF Of
    <2>4. QED  BY <1>1, <2>3
  <1>6. QED  BY <1>3, <1>4, <1>5

\* What the terminal has printed, read or not, and how many commands have been
\* cut out of it as steps.
Read == Restored(cast)
Whole == Read \o pipe
Over == IF shell \in {"running", "done"} THEN last - 1 ELSE last

IsCut(cut) == cut = [steps |-> cut.steps, typedAt |-> cut.typedAt, ranAt |-> cut.ranAt]

\* At every place there are whole steps, one per command, and no others.
WholeSteps(text) ==
  /\ \A i \in 0..Len(text) :
       /\ IsCut(Cuts(text)[i])
       /\ \E n \in 0..Over : Cuts(text)[i].steps = [c \in 1..n |-> StepFor(c)]
  /\ Sane(text)

StepsInv == WholeSteps(Whole)

\* The last place, by where the shell is: between two steps, at a prompt, or in
\* the output of a command that was typed right behind it.
EndInv ==
  LET end == Cuts(Whole)[Len(Whole)]
      at  == end.typedAt
      ran == at + (IF ps0 THEN 2 ELSE 1)
  IN  /\ end.steps = [c \in 1..Over |-> StepFor(c)]
      /\ shell = "start" => last = 0
      /\ shell \in {"start", "drawing"} => at = 0 /\ end.ranAt = 0
      /\ shell = "ready" =>
           at = Len(Whole) /\ at > 0 /\ end.ranAt = 0 /\ Whole[at].kind = "B2"
      /\ shell \in {"running", "done"} =>
           /\ last > 0 /\ at \in Nat \ {0}
           /\ end.ranAt = IF ps0 THEN ran ELSE 0
           /\ Len(Whole) = ran + printed[last]
           /\ Whole[at + 1] = Token("typed", last)
           /\ ps0 => Whole[at + 2] = Mark("C")
           /\ \A i \in 1..printed[last] : Whole[ran + i] = Token("out", last)
      /\ \A c \in (last + 1)..Commands : printed[c] = 0

CInv == RInv /\ StepsInv /\ EndInv /\ (rec = "ended" => sent = Commands)

LEMMA WholeTyped ==
  ASSUME TypeOK
  PROVE  Whole \in Seq(Tokens) /\ Len(Whole) \in Nat
  <1>1. Read \in Seq(Tokens) /\ pipe \in Seq(Tokens)
    BY RestoredIs DEF TypeOK, Read
  <1>2. QED  BY <1>1 DEF Whole

\* A text stays cut as it is while no step that is over prints more.
LEMMA StepsStay ==
  ASSUME NEW text, WholeSteps(text), Over' = Over,
         \A c \in 1..Over : StepFor(c)' = StepFor(c), Over \in Int
  PROVE  /\ \A i \in 0..Len(text) :
              /\ IsCut(Cuts(text)[i])
              /\ \E n \in 0..Over' : Cuts(text)[i].steps = [c \in 1..n |-> StepFor(c)']
         /\ Sane(text)
  <1>1. ASSUME NEW i \in 0..Len(text)
        PROVE  \E n \in 0..Over' : Cuts(text)[i].steps = [c \in 1..n |-> StepFor(c)']
    <2>1. PICK n \in 0..Over : Cuts(text)[i].steps = [c \in 1..n |-> StepFor(c)]
      BY DEF WholeSteps
    <2>2. \A c \in 1..n : StepFor(c)' = StepFor(c)
      <3>1. \A c \in 1..n : c \in 1..Over
        OBVIOUS
      <3>2. QED  BY <3>1
    <2>3. [c \in 1..n |-> StepFor(c)'] = [c \in 1..n |-> StepFor(c)]
      BY <2>2
    <2>4. QED  BY <2>1, <2>3
  <1>2. QED  BY <1>1 DEF WholeSteps

LEMMA OverTyped ==
  ASSUME TypeOK
  PROVE  Over \in Int
  BY RecorderAssumption DEF TypeOK, Over

\* Nothing is cut anew when nothing is printed.
LEMMA SameCut ==
  ASSUME CInv, Whole' = Whole, UNCHANGED <<ps0, last, printed>>,
         shell' = shell \/ (shell = "running" /\ shell' = "done")
  PROVE  StepsInv' /\ EndInv'
  <1>1. Over' = Over /\ Over \in Int
    BY OverTyped DEF Over, CInv, RInv
  <1>2. \A c : StepFor(c)' = StepFor(c)
    BY DEF StepFor
  <1>3. StepsInv'
    <2>1. WholeSteps(Whole)
      BY DEF CInv, StepsInv
    <2>2. /\ \A i \in 0..Len(Whole) :
               /\ IsCut(Cuts(Whole)[i])
               /\ \E n \in 0..Over' : Cuts(Whole)[i].steps = [c \in 1..n |-> StepFor(c)']
          /\ Sane(Whole)
      BY <1>1, <1>2, <2>1, StepsStay
    <2>3. QED  BY <2>2 DEF StepsInv, WholeSteps, StepFor
  <1>4. EndInv'
    <2>1. EndInv
      BY DEF CInv
    <2>2. [c \in 1..Over' |-> StepFor(c)'] = [c \in 1..Over |-> StepFor(c)]
      BY <1>1, <1>2
    <2>3. QED  BY <2>1, <2>2 DEF EndInv, StepFor
  <1>5. QED  BY <1>3, <1>4

\* A token that ends no command leaves the steps as they are.
LEMMA NoStepEnds ==
  ASSUME NEW text \in Seq(Tokens), WholeSteps(text), NEW t \in Tokens, t.kind # "D"
  PROVE  LET more == Append(text, t)
             end  == Cuts(text)[Len(text)]
             now  == Cuts(more)[Len(text) + 1]
         IN  /\ more \in Seq(Tokens) /\ Len(more) = Len(text) + 1
             /\ WholeSteps(more)
             /\ now.steps = end.steps
             /\ now.typedAt = IF t.kind = "B2" THEN Len(text) + 1 ELSE end.typedAt
             /\ now.ranAt = IF t.kind = "B2" THEN 0
                            ELSE IF t.kind = "C" /\ end.typedAt > 0 THEN Len(text) + 1 ELSE end.ranAt
  <1> DEFINE more == Append(text, t)
             n == Len(text)
             end == Cuts(text)[n]
             now == Cuts(more)[n + 1]
  <1>1. Sane(text)
    BY DEF WholeSteps
  <1>2. n \in Nat
    OBVIOUS
  <1>3. /\ more \in Seq(Tokens) /\ Len(more) = n + 1 /\ more[n + 1] = t
        /\ \A i \in 0..n : Cuts(more)[i] = Cuts(text)[i]
        /\ now = AtMark(more, end, n + 1)
        /\ Begun(more, end, n + 1) => Sane(more)
    BY <1>1, OneMore
  <1>4. IsCut(end)
    BY <1>2 DEF WholeSteps
  <1>5. PICK k \in 0..Over : end.steps = [c \in 1..k |-> StepFor(c)]
    <2>1. \A i \in 0..n : \E k \in 0..Over : Cuts(text)[i].steps = [c \in 1..k |-> StepFor(c)]
      BY DEF WholeSteps
    <2>2. n \in 0..n
      BY <1>2
    <2> HIDE DEF n
    <2>3. \E k \in 0..Over : Cuts(text)[n].steps = [c \in 1..k |-> StepFor(c)]
      BY <2>1, <2>2
    <2>4. QED  BY <2>3
  <1> HIDE DEF more, end
  <1>6. /\ now = [steps |-> now.steps, typedAt |-> now.typedAt, ranAt |-> now.ranAt]
        /\ now.steps = end.steps
        /\ now.typedAt = IF t.kind = "B2" THEN n + 1 ELSE end.typedAt
        /\ now.ranAt = IF t.kind = "B2" THEN 0
                       ELSE IF t.kind = "C" /\ end.typedAt > 0 THEN n + 1 ELSE end.ranAt
    <2> HIDE DEF n, now
    <2>1. CASE t.kind = "B2"
      BY <1>3, <1>4, <2>1 DEF AtMark, IsCut
    <2>2. CASE t.kind = "C" /\ end.typedAt > 0
      BY <1>3, <1>4, <2>2 DEF AtMark, IsCut
    <2>3. CASE t.kind # "B2" /\ ~(t.kind = "C" /\ end.typedAt > 0)
      <3>1. now = end
        BY <1>3, <2>3 DEF AtMark
      <3>2. QED  BY <1>4, <2>3, <3>1 DEF IsCut
    <2>4. QED  BY <2>1, <2>2, <2>3
  <1>7. Sane(more)
    BY <1>3 DEF Begun
  <1>8. WholeSteps(more)
    <2>1. ASSUME NEW i \in 0..(n + 1)
          PROVE  /\ IsCut(Cuts(more)[i])
                 /\ \E m \in 0..Over : Cuts(more)[i].steps = [c \in 1..m |-> StepFor(c)]
      <3>1. CASE i = n + 1
        BY <1>5, <1>6, <3>1 DEF IsCut
      <3>2. CASE i \in 0..n
        BY <1>3, <3>2 DEF WholeSteps
      <3>3. i = n + 1 \/ i \in 0..n
        BY <1>2
      <3> HIDE DEF n
      <3>4. QED  BY <3>1, <3>2, <3>3
    <2>2. QED  BY <1>3, <1>7, <2>1 DEF WholeSteps
  <1>9. QED  BY <1>3, <1>6, <1>8 DEF more, end

-----------------------------------------------------------------------------
(* The steps, action by action.                                            *)

LEMMA InitC == Init => CInv
  <1> SUFFICES ASSUME Init PROVE CInv
    OBVIOUS
  <1>1. RInv
    BY InitR
  <1>2. Whole = <<>> /\ Whole \in Seq(Tokens) /\ Len(Whole) = 0 /\ Over = 0 /\ shell = "start" /\ last = 0
    BY DEF Init, Whole, Read, Restored, Over
  <1>3. Cuts(Whole)[0] = NoneYet
    BY <1>2, CutAt
  <1>4. NoneYet.steps = [c \in 1..0 |-> StepFor(c)]
    BY DEF NoneYet
  <1>5. StepsInv
    BY <1>2, <1>3, <1>4 DEF StepsInv, WholeSteps, IsCut, NoneYet, Sane
  <1>6. EndInv
    BY <1>2, <1>3, <1>4, RecorderAssumption DEF EndInv, NoneYet, Init
  <1>7. QED  BY <1>1, <1>5, <1>6 DEF CInv, Init

LEMMA Grows ==
  ASSUME TypeOK, cast' = cast, NEW s \in Seq(Tokens), pipe' = pipe \o s
  PROVE  Whole' = Whole \o s
  <1>1. Read \in Seq(Tokens) /\ pipe \in Seq(Tokens) /\ Read' = Read
    BY RestoredIs DEF TypeOK, Read
  <1>2. QED  BY <1>1 DEF Whole

\* The steps that are over print no more.
LEMMA StepsKept ==
  ASSUME CInv, Over' = Over, \A c \in 1..Over : printed'[c] = printed[c],
         WholeSteps(Whole')
  PROVE  StepsInv' /\ [c \in 1..Over' |-> StepFor(c)'] = [c \in 1..Over |-> StepFor(c)]
  <1>1. Over \in Int
    BY OverTyped DEF CInv, RInv
  <1>2. \A c \in 1..Over : StepFor(c)' = StepFor(c)
    BY DEF StepFor
  <1>3. /\ \A i \in 0..Len(Whole') :
             /\ IsCut(Cuts(Whole')[i])
             /\ \E n \in 0..Over' : Cuts(Whole')[i].steps = [c \in 1..n |-> StepFor(c)']
        /\ Sane(Whole')
    BY <1>1, <1>2, StepsStay
  <1>4. QED  BY <1>2, <1>3 DEF StepsInv, WholeSteps, StepFor

LEMMA DrawPromptC ==
  ASSUME CInv, DrawPrompt, RInv'
  PROVE  CInv'
  <1>1. /\ shell = "drawing" /\ shell' = "ready"
        /\ pipe' = pipe \o <<Mark("A"), Mark("B1"), Mark("B2")>>
        /\ UNCHANGED <<ps0, last, printed, input, rec, sent, cast>>
    BY DEF DrawPrompt, recVars
  <1>2. TypeOK /\ StepsInv /\ EndInv
    BY DEF CInv, RInv
  <1>3. Whole \in Seq(Tokens) /\ Len(Whole) \in Nat
    BY <1>2, WholeTyped
  <1>4. /\ Mark("A") \in Tokens /\ Mark("A").kind = "A"
        /\ Mark("B1") \in Tokens /\ Mark("B1").kind = "B1"
        /\ Mark("B2") \in Tokens /\ Mark("B2").kind = "B2"
    BY RecorderAssumption DEF Mark, Token, Tokens, Kinds
  <1> DEFINE one == Append(Whole, Mark("A"))
             two == Append(one, Mark("B1"))
             three == Append(two, Mark("B2"))
             N == Len(Whole)
  <1>5. Whole' = three
    <2>1. <<Mark("A"), Mark("B1"), Mark("B2")>> \in Seq(Tokens)
      BY <1>4
    <2>2. Whole' = Whole \o <<Mark("A"), Mark("B1"), Mark("B2")>>
      BY <1>1, <1>2, <2>1, Grows
    <2>3. QED  BY <1>3, <1>4, <2>2
  <1>6. /\ one \in Seq(Tokens) /\ Len(one) = N + 1 /\ WholeSteps(one)
        /\ Cuts(one)[N + 1].steps = Cuts(Whole)[N].steps
    BY <1>2, <1>3, <1>4, NoStepEnds DEF StepsInv
  <1> HIDE DEF one
  <1>7. /\ two \in Seq(Tokens) /\ Len(two) = N + 1 + 1 /\ WholeSteps(two)
        /\ Cuts(two)[N + 1 + 1].steps = Cuts(one)[N + 1].steps
    BY <1>4, <1>6, NoStepEnds
  <1> HIDE DEF two
  <1>8. /\ three \in Seq(Tokens) /\ Len(three) = N + 1 + 1 + 1 /\ WholeSteps(three)
        /\ Cuts(three)[N + 1 + 1 + 1].steps = Cuts(two)[N + 1 + 1].steps
        /\ Cuts(three)[N + 1 + 1 + 1].typedAt = N + 1 + 1 + 1
        /\ Cuts(three)[N + 1 + 1 + 1].ranAt = 0
    BY <1>4, <1>7, NoStepEnds
  <1> HIDE DEF three
  <1>9. Over' = Over
    BY <1>1 DEF Over
  <1>10. StepsInv' /\ [c \in 1..Over' |-> StepFor(c)'] = [c \in 1..Over |-> StepFor(c)]
    BY <1>1, <1>5, <1>8, <1>9, StepsKept
  <1>11. EndInv'
    <2> DEFINE end == Cuts(Whole')[Len(Whole')]
    <2>1. end.steps = [c \in 1..Over |-> StepFor(c)]
      BY <1>2, <1>5, <1>6, <1>7, <1>8 DEF EndInv
    <2>2. end.typedAt = Len(Whole') /\ end.typedAt > 0 /\ end.ranAt = 0
      BY <1>3, <1>5, <1>8
    <2>3. Whole'[Len(Whole')].kind = "B2"
      BY <1>4, <1>5, <1>7, <1>8 DEF three
    <2>4. \A c \in (last' + 1)..Commands : printed'[c] = 0
      BY <1>1, <1>2 DEF EndInv
    <2>5. end.steps = [c \in 1..Over' |-> StepFor(c)']
      BY <1>10, <2>1
    <2> HIDE DEF end
    <2>6. QED  BY <1>1, <2>2, <2>3, <2>4, <2>5 DEF EndInv, end
  <1>12. QED  BY <1>1, <1>10, <1>11 DEF CInv

LEMMA ReadLineC ==
  ASSUME CInv, ReadLine, RInv'
  PROVE  CInv'
  <1>1. /\ shell = "ready" /\ input # <<>> /\ shell' = "running"
        /\ last' = Head(input)
        /\ pipe' = pipe \o <<Token("typed", Head(input))>> \o (IF ps0 THEN <<Mark("C")>> ELSE <<>>)
        /\ UNCHANGED <<ps0, printed, rec, sent, cast>>
    BY DEF ReadLine, recVars
  <1>2. TypeOK /\ StepsInv /\ EndInv /\ TurnInv
    BY DEF CInv, RInv
  <1>3. Whole \in Seq(Tokens) /\ Len(Whole) \in Nat
    BY <1>2, WholeTyped
  <1>4. last' = last + 1 /\ last' \in 1..Commands /\ Head(input) = last' /\ last \in Nat
    BY <1>1, <1>2, RecorderAssumption DEF TurnInv, TypeOK
  <1> DEFINE t == Token("typed", last')
             one == Append(Whole, t)
             two == Append(one, Mark("C"))
             N == Len(Whole)
  <1>5. /\ t \in Tokens /\ t.kind = "typed"
        /\ Mark("C") \in Tokens /\ Mark("C").kind = "C"
    BY <1>4, RecorderAssumption DEF Mark, Token, Tokens, Kinds
  <1> HIDE DEF t
  <1>6. Whole' = IF ps0 THEN two ELSE one
    <2> DEFINE s == IF ps0 THEN <<t, Mark("C")>> ELSE <<t>>
    <2>1. s \in Seq(Tokens)
      BY <1>5
    <2>2. pipe' = pipe \o s
      <3>1. pipe' = pipe \o <<t>> \o (IF ps0 THEN <<Mark("C")>> ELSE <<>>)
        BY <1>1, <1>4 DEF t
      <3>2. pipe \in Seq(Tokens)
        BY <1>2 DEF TypeOK
      <3>3. QED  BY <1>5, <3>1, <3>2
    <2>3. Whole' = Whole \o s
      BY <1>1, <1>2, <2>1, <2>2, Grows
    <2>4. QED  BY <1>3, <1>5, <2>3
  <1>7. /\ one \in Seq(Tokens) /\ Len(one) = N + 1 /\ WholeSteps(one)
        /\ Cuts(one)[N + 1].steps = Cuts(Whole)[N].steps
        /\ Cuts(one)[N + 1].typedAt = Cuts(Whole)[N].typedAt
        /\ Cuts(one)[N + 1].ranAt = Cuts(Whole)[N].ranAt
    BY <1>2, <1>3, <1>5, NoStepEnds DEF StepsInv
  <1>8. one[N + 1] = t /\ \A i \in 1..N : one[i] = Whole[i]
    BY <1>3
  <1> HIDE DEF one
  <1>9. /\ two \in Seq(Tokens) /\ Len(two) = N + 1 + 1 /\ WholeSteps(two)
        /\ Cuts(two)[N + 1 + 1].steps = Cuts(one)[N + 1].steps
        /\ Cuts(two)[N + 1 + 1].typedAt = Cuts(one)[N + 1].typedAt
        /\ Cuts(two)[N + 1 + 1].ranAt =
             IF Cuts(one)[N + 1].typedAt > 0 THEN N + 1 + 1 ELSE Cuts(one)[N + 1].ranAt
    BY <1>5, <1>7, NoStepEnds
  <1>10. two[N + 2] = Mark("C") /\ two[N + 1] = t
    BY <1>3, <1>7, <1>8
  <1> HIDE DEF two
  <1>11. Over' = Over /\ Over = last
    BY <1>1, <1>4 DEF Over
  <1>12. StepsInv' /\ [c \in 1..Over' |-> StepFor(c)'] = [c \in 1..Over |-> StepFor(c)]
    BY <1>1, <1>6, <1>7, <1>9, <1>11, StepsKept
  <1>13. EndInv'
    <2> DEFINE end == Cuts(Whole')[Len(Whole')]
               was == Cuts(Whole)[N]
               ran == N + (IF ps0 THEN 2 ELSE 1)
    <2>1. /\ was.steps = [c \in 1..Over |-> StepFor(c)]
          /\ was.typedAt = N /\ N > 0 /\ was.ranAt = 0
          /\ \A c \in (last + 1)..Commands : printed[c] = 0
      BY <1>1, <1>2 DEF EndInv
    <2> HIDE DEF was
    <2>2. end.steps = was.steps /\ end.typedAt = N /\ end.ranAt = IF ps0 THEN ran ELSE 0
      <3>1. CASE ps0
        BY <1>3, <1>6, <1>7, <1>9, <2>1, <3>1 DEF was
      <3>2. CASE ~ps0
        BY <1>3, <1>6, <1>7, <2>1, <3>2 DEF was
      <3>3. QED  BY <3>1, <3>2
    <2>3. printed'[last'] = 0
      BY <1>1, <1>4, <2>1
    <2>4. Len(Whole') = ran + printed'[last']
      BY <1>3, <1>6, <1>7, <1>9, <2>3
    <2>5. Whole'[N + 1] = Token("typed", last') /\ (ps0 => Whole'[N + 2] = Mark("C"))
      BY <1>3, <1>6, <1>8, <1>10 DEF t
    <2>6. end.steps = [c \in 1..Over' |-> StepFor(c)']
      BY <1>12, <2>1, <2>2
    <2>7. \A c \in (last' + 1)..Commands : printed'[c] = 0
      BY <1>1, <1>4, <2>1
    <2>8. \A i \in 1..printed'[last'] : Whole'[ran + i] = Token("out", last')
      BY <2>3
    <2>9. last' > 0 /\ N \in Nat \ {0} /\ ps0' = ps0
      BY <1>1, <1>3, <1>4, <2>1
    <2> HIDE DEF end, N
    <2>10. QED  BY <1>1, <2>2, <2>4, <2>5, <2>6, <2>7, <2>8, <2>9 DEF EndInv, end
  <1>14. QED  BY <1>1, <1>12, <1>13 DEF CInv

LEMMA PrintOutputC ==
  ASSUME CInv, PrintOutput, RInv'
  PROVE  CInv'
  <1>1. /\ shell = "running" /\ shell' = "running"
        /\ printed' = [printed EXCEPT ![last] = @ + 1]
        /\ pipe' = Append(pipe, Token("out", last))
        /\ UNCHANGED <<ps0, last, rec, sent, cast>>
    BY DEF PrintOutput, recVars
  <1>2. TypeOK /\ StepsInv /\ EndInv
    BY DEF CInv, RInv
  <1>3. Whole \in Seq(Tokens) /\ Len(Whole) \in Nat
    BY <1>2, WholeTyped
  <1> DEFINE t == Token("out", last)
             one == Append(Whole, t)
             N == Len(Whole)
             was == Cuts(Whole)[N]
             at == was.typedAt
             ran == at + (IF ps0 THEN 2 ELSE 1)
  <1>4. /\ was.steps = [c \in 1..Over |-> StepFor(c)]
        /\ last > 0 /\ at \in Nat \ {0}
        /\ was.ranAt = IF ps0 THEN ran ELSE 0
        /\ N = ran + printed[last]
        /\ Whole[at + 1] = Token("typed", last)
        /\ ps0 => Whole[at + 2] = Mark("C")
        /\ \A i \in 1..printed[last] : Whole[ran + i] = Token("out", last)
        /\ \A c \in (last + 1)..Commands : printed[c] = 0
    BY <1>1, <1>2 DEF EndInv
  <1>5. last \in 1..Commands /\ printed[last] \in Nat
    BY <1>2, <1>4 DEF TypeOK
  <1>6. t \in Tokens /\ t.kind = "out"
    BY <1>5, RecorderAssumption DEF Token, Tokens, Kinds
  <1> HIDE DEF t
  <1>7. Whole' = one
    <2>1. <<t>> \in Seq(Tokens) /\ pipe' = pipe \o <<t>>
      <3>1. pipe \in Seq(Tokens)
        BY <1>2 DEF TypeOK
      <3>2. pipe' = Append(pipe, t)
        BY <1>1 DEF t
      <3>3. QED  BY <1>6, <3>1, <3>2
    <2>2. Whole' = Whole \o <<t>>
      BY <1>1, <1>2, <2>1, Grows
    <2>3. QED  BY <1>3, <1>6, <2>2
  <1>8. /\ one \in Seq(Tokens) /\ Len(one) = N + 1 /\ WholeSteps(one)
        /\ Cuts(one)[N + 1].steps = Cuts(Whole)[N].steps
        /\ Cuts(one)[N + 1].typedAt = Cuts(Whole)[N].typedAt
        /\ Cuts(one)[N + 1].ranAt = Cuts(Whole)[N].ranAt
    BY <1>2, <1>3, <1>6, NoStepEnds DEF StepsInv
  <1>9. one[N + 1] = t /\ \A i \in 1..N : one[i] = Whole[i]
    BY <1>3
  <1> HIDE DEF one
  <1>10. /\ Over' = Over /\ Over = last - 1
         /\ printed'[last] = printed[last] + 1
         /\ \A c \in 1..Commands : c # last => printed'[c] = printed[c]
    BY <1>1, <1>2, <1>5 DEF Over, TypeOK
  <1>11. StepsInv' /\ [c \in 1..Over' |-> StepFor(c)'] = [c \in 1..Over |-> StepFor(c)]
    <2>1. \A c \in 1..Over : printed'[c] = printed[c]
      <3>1. TAKE c \in 1..Over
      <3>2. c \in 1..Commands /\ c # last
        <4>1. c \in 1..(last - 1) /\ last \in Nat /\ Commands \in Nat /\ last <= Commands
          BY <1>5, <1>10, RecorderAssumption
        <4>2. QED  BY <4>1
      <3>3. QED  BY <1>10, <3>2
    <2>2. QED  BY <1>7, <1>8, <1>10, <2>1, StepsKept
  <1>12. EndInv'
    <2> DEFINE end == Cuts(Whole')[Len(Whole')]
    <2>1. end.steps = was.steps /\ end.typedAt = at /\ end.ranAt = was.ranAt
      BY <1>7, <1>8
    <2>2. end.steps = [c \in 1..Over' |-> StepFor(c)']
      BY <1>4, <1>11, <2>1
    <2> HIDE DEF was
    <2>3. at + 1 \in 1..N /\ (ps0 => at + 2 \in 1..N) /\ ran \in Nat
      BY <1>3, <1>4, <1>5
    <2>4. Len(Whole') = ran + printed'[last']
      BY <1>1, <1>4, <1>5, <1>7, <1>8, <1>10, <2>3
    <2>5. /\ Whole'[at + 1] = Token("typed", last')
          /\ ps0 => Whole'[at + 2] = Mark("C")
      BY <1>1, <1>4, <1>7, <1>9, <2>3
    <2>6. \A i \in 1..printed'[last'] : Whole'[ran + i] = Token("out", last')
      <3>1. TAKE i \in 1..printed'[last']
      <3>2. CASE i = printed[last] + 1
        <4>1. ran + i = N + 1
          BY <1>4, <1>5, <2>3, <3>2
        <4>2. QED  BY <1>1, <1>7, <1>9, <4>1 DEF t
      <3>3. CASE i \in 1..printed[last]
        <4>1. ran + i \in 1..N
          BY <1>4, <1>5, <2>3, <3>3
        <4>2. QED  BY <1>1, <1>4, <1>7, <1>9, <3>3, <4>1
      <3>4. QED  BY <1>1, <1>5, <1>10, <3>2, <3>3
    <2>7. \A c \in (last' + 1)..Commands : printed'[c] = 0
      BY <1>1, <1>4, <1>5, <1>10
    <2>8. end.ranAt = IF ps0 THEN ran ELSE 0
      BY <1>4, <2>1
    <2> HIDE DEF end, N
    <2>9. QED  BY <1>1, <1>4, <2>1, <2>2, <2>4, <2>5, <2>6, <2>7, <2>8 DEF EndInv, end
  <1>13. QED  BY <1>1, <1>11, <1>12 DEF CInv

LEMMA OneLonger ==
  ASSUME NEW S, NEW n \in Nat \ {0}, NEW all \in [1..n -> S]
  PROVE  Append([c \in 1..(n - 1) |-> all[c]], all[n]) = all
  <1> DEFINE before == [c \in 1..(n - 1) |-> all[c]]
  <1>1. before \in [1..(n - 1) -> S] /\ n - 1 \in Nat /\ all[n] \in S
    OBVIOUS
  <1> HIDE DEF before
  <1>2. before \in Seq(S) /\ Len(before) = n - 1 /\ all \in Seq(S) /\ Len(all) = n
    BY <1>1
  <1>3. PICK s : s = Append(before, all[n])
    OBVIOUS
  <1>4. s \in Seq(S) /\ Len(s) = n /\ s[n] = all[n]
        /\ \A i \in 1..(n - 1) : s[i] = before[i]
    <2>1. /\ s \in Seq(S) /\ Len(s) = Len(before) + 1 /\ s[Len(before) + 1] = all[n]
          /\ \A i \in 1..Len(before) : s[i] = before[i]
      BY <1>1, <1>2, <1>3
    <2>2. QED  BY <1>2, <2>1
  <1>5. \A i \in 1..(n - 1) : before[i] = all[i]
    BY DEF before
  <1>6. \A i \in 1..Len(s) : s[i] = all[i]
    BY <1>4, <1>5
  <1>7. s = all
    BY <1>2, <1>4, <1>6, SeqEqual
  <1>8. QED  BY <1>3, <1>7 DEF before

LEMMA FirstOfIt ==
  ASSUME NEW text \in Seq(Tokens), NEW at \in Nat
  PROVE  /\ at + 1 <= Len(text) => SubSeq(text, at + 1, at + 1) = <<text[at + 1]>>
         /\ at + 2 <= Len(text) => SubSeq(text, at + 1, at + 2) = <<text[at + 1], text[at + 2]>>
  <1>1. ASSUME at + 1 <= Len(text) PROVE SubSeq(text, at + 1, at + 1) = <<text[at + 1]>>
    <2>1. PICK s : s = SubSeq(text, at + 1, at + 1)
      OBVIOUS
    <2>2. s = [j \in 1..1 |-> text[j + at]]
      <3>1. s = [j \in 1..(1 + (at + 1) - (at + 1)) |-> text[j + (at + 1) - 1]]
        BY <2>1 DEF SubSeq
      <3>2. 1 + (at + 1) - (at + 1) = 1 /\ \A j \in 1..1 : j + (at + 1) - 1 = j + at
        OBVIOUS
      <3>3. QED  BY <3>1, <3>2
    <2>3. <<text[at + 1]>> = [j \in 1..1 |-> text[j + at]]
      OBVIOUS
    <2>4. QED  BY <2>1, <2>2, <2>3
  <1>2. ASSUME at + 2 <= Len(text) PROVE SubSeq(text, at + 1, at + 2) = <<text[at + 1], text[at + 2]>>
    <2>1. PICK s : s = SubSeq(text, at + 1, at + 2)
      OBVIOUS
    <2>2. s = [j \in 1..2 |-> text[j + at]]
      <3>1. s = [j \in 1..(1 + (at + 2) - (at + 1)) |-> text[j + (at + 1) - 1]]
        BY <2>1 DEF SubSeq
      <3>2. 1 + (at + 2) - (at + 1) = 2 /\ \A j \in 1..2 : j + (at + 1) - 1 = j + at
        OBVIOUS
      <3>3. QED  BY <3>1, <3>2
    <2>3. <<text[at + 1], text[at + 2]>> = [j \in 1..2 |-> text[j + at]]
      OBVIOUS
    <2>4. QED  BY <2>1, <2>2, <2>3
  <1>3. QED  BY <1>1, <1>2

\* From `at` to `i` a text holds what command c makes of it: the line, a mark C
\* where there are any, and its output.
HoldsRun(text, at, ran, ranAt, c, i) ==
  /\ text \in Seq(Tokens) /\ at \in Nat \ {0} /\ ran \in Nat /\ printed[c] \in Nat
  /\ \/ ran = at + 1 /\ ranAt = 0
     \/ ran = at + 2 /\ ranAt = ran /\ text[at + 2] = Mark("C")
  /\ i = ran + printed[c] + 1 /\ i <= Len(text)
  /\ text[at + 1] = Token("typed", c)
  /\ \A j \in 1..printed[c] : text[ran + j] = Token("out", c)

LEMMA LessAndMore ==
  ASSUME NEW m \in Nat, NEW n \in Nat
  PROVE  1 + ((m + n + 1) - 1) - (m + 1) = n
  OBVIOUS

\* The step that the mark D ends is that of the command that ran.
LEMMA StepIs ==
  ASSUME NEW text, NEW at, NEW ran, NEW ranAt, NEW c, NEW i, HoldsRun(text, at, ran, ranAt, c, i)
  PROVE  StepOf(text, at, ranAt, i, c, TRUE) = StepFor(c)
  <1> DEFINE size == printed[c]
  <1>0. /\ text \in Seq(Tokens) /\ at \in Nat \ {0} /\ ran \in Nat /\ size \in Nat
        /\ \/ ran = at + 1 /\ ranAt = 0
           \/ ran = at + 2 /\ ranAt = ran /\ text[at + 2] = Mark("C")
        /\ i = ran + size + 1 /\ i <= Len(text)
        /\ text[at + 1] = Token("typed", c)
        /\ \A j \in 1..size : text[ran + j] = Token("out", c)
    BY DEF HoldsRun
  <1> HIDE DEF size
  <1>1. at + 1 \in 1..Len(text) /\ ran \in Nat /\ i \in Nat /\ i - 1 = ran + size
    BY <1>0
  <1>2. text[at + 1].kind = "typed" /\ Mark("C").kind = "C" /\ Token("typed", c).kind = "typed"
    BY <1>0 DEF Token, Mark
  <1>3. RanAt(text, at, ranAt) = ran
    <2>1. CASE ran = at + 2 /\ ranAt = ran /\ text[at + 2] = Mark("C")
      BY <1>0, <1>1, <2>1 DEF RanAt
    <2>2. CASE ran = at + 1 /\ ranAt = 0
      BY <1>0, <1>1, <1>2, <2>2, RanWith
    <2>3. QED  BY <1>0, <2>1, <2>2
  <1>4. Shown(SubSeq(text, at + 1, ran)) = <<Token("typed", c)>>
    <2>1. Visible(Token("typed", c)) /\ ~Visible(Mark("C"))
      BY <1>2 DEF Visible
    <2>2. CASE ran = at + 2 /\ ranAt = ran /\ text[at + 2] = Mark("C")
      <3>1. SubSeq(text, at + 1, ran) = <<text[at + 1], text[at + 2]>>
        <4>1. ran = at + 2 /\ at + 2 <= Len(text)
          BY <1>0, <1>1, <2>2
        <4>2. QED  BY <1>0, <4>1, FirstOfIt
      <3>2. QED  BY <1>0, <2>1, <2>2, <3>1, LineShows
    <2>3. CASE ran = at + 1 /\ ranAt = 0
      <3>1. SubSeq(text, at + 1, ran) = <<text[at + 1]>>
        <4>1. ran = at + 1 /\ at + 1 <= Len(text)
          BY <1>0, <1>1, <2>3
        <4>2. QED  BY <1>0, <4>1, FirstOfIt
      <3>2. QED  BY <1>0, <2>1, <3>1, LineShows
    <2>4. QED  BY <1>0, <2>2, <2>3
  <1>5. SubSeq(text, ran + 1, i - 1) = [j \in 1..size |-> Token("out", c)]
    <2>1. SubSeq(text, ran + 1, i - 1) = [j \in 1..(1 + (i - 1) - (ran + 1)) |-> text[j + (ran + 1) - 1]]
      BY <1>0, <1>1 DEF SubSeq
    <2>2. 1 + (i - 1) - (ran + 1) = size
      BY <1>0, LessAndMore
    <2>3. \A j \in 1..size : text[j + (ran + 1) - 1] = Token("out", c)
      <3>1. TAKE j \in 1..size
      <3>2. j + (ran + 1) - 1 = ran + j
        BY <1>0
      <3>3. QED  BY <1>0, <3>2
    <2>4. QED  BY <2>1, <2>2, <2>3
  <1>6. QED  BY <1>3, <1>4, <1>5 DEF StepOf, StepFor, size

LEMMA PrintDoneC ==
  ASSUME CInv, PrintDone, RInv'
  PROVE  CInv'
  <1>1. /\ shell \in {"start", "done"} /\ shell' = "drawing"
        /\ pipe' = Append(pipe, Token("D", last))
        /\ UNCHANGED <<ps0, last, printed, input, rec, sent, cast>>
    BY DEF PrintDone, recVars
  <1>2. TypeOK /\ StepsInv /\ EndInv
    BY DEF CInv, RInv
  <1>3. Whole \in Seq(Tokens) /\ Len(Whole) \in Nat
    BY <1>2, WholeTyped
  <1> DEFINE t == Token("D", last)
             one == Append(Whole, t)
             N == Len(Whole)
             was == Cuts(Whole)[N]
             now == Cuts(one)[N + 1]
  <1>4. t \in Tokens /\ t.kind = "D" /\ t.n = last
    BY <1>2, RecorderAssumption DEF Token, Tokens, Kinds, TypeOK
  <1> HIDE DEF t
  <1>5. Whole' = one
    <2>1. <<t>> \in Seq(Tokens) /\ pipe' = pipe \o <<t>>
      <3>1. pipe \in Seq(Tokens)
        BY <1>2 DEF TypeOK
      <3>2. pipe' = Append(pipe, t)
        BY <1>1 DEF t
      <3>3. QED  BY <1>4, <3>1, <3>2
    <2>2. Whole' = Whole \o <<t>>
      BY <1>1, <1>2, <2>1, Grows
    <2>3. QED  BY <1>3, <1>4, <2>2
  <1>6. /\ one \in Seq(Tokens) /\ Len(one) = N + 1 /\ one[N + 1] = t
        /\ \A i \in 1..N : one[i] = Whole[i]
        /\ \A i \in 0..N : Cuts(one)[i] = Cuts(Whole)[i]
        /\ now = AtMark(one, was, N + 1)
        /\ Begun(one, was, N + 1) => Sane(one)
    BY <1>2, <1>3, <1>4, OneMore DEF StepsInv, WholeSteps
  <1>7. IsCut(was) /\ was.steps = [c \in 1..Over |-> StepFor(c)]
    BY <1>2, <1>3 DEF StepsInv, WholeSteps, EndInv
  <1>8. \A c : StepFor(c)' = StepFor(c)
    BY <1>1 DEF StepFor
  <1>9. Over' = last /\ Over \in Int /\ Over <= last /\ last \in Nat /\ Over \in 0..last
    BY <1>1, <1>2, RecorderAssumption DEF Over, TypeOK, EndInv
  <1> HIDE DEF one
  <1>10. /\ IsCut(now) /\ Begun(one, was, N + 1)
         /\ now.typedAt = 0 /\ now.ranAt = 0
         /\ now.steps = [c \in 1..last |-> StepFor(c)]
    <2>1. CASE shell = "start"
      <3>1. was.typedAt = 0 /\ was.ranAt = 0 /\ last = 0 /\ Over = last
        BY <1>2, <2>1 DEF EndInv, Over
      <3>2. now = was
        BY <1>4, <1>6, <3>1 DEF AtMark
      <3>3. Begun(one, was, N + 1)
        BY <3>1 DEF Begun
      <3>4. QED  BY <1>7, <3>1, <3>2, <3>3
    <2>2. CASE shell = "done"
      <3> DEFINE at == was.typedAt
                 ran == at + (IF ps0 THEN 2 ELSE 1)
      <3>1. /\ last > 0 /\ at \in Nat \ {0}
            /\ was.ranAt = IF ps0 THEN ran ELSE 0
            /\ N = ran + printed[last]
            /\ Whole[at + 1] = Token("typed", last)
            /\ ps0 => Whole[at + 2] = Mark("C")
            /\ \A i \in 1..printed[last] : Whole[ran + i] = Token("out", last)
        BY <1>2, <2>2 DEF EndInv
      <3> HIDE DEF was
      <3>2. printed[last] \in Nat /\ ps0 \in BOOLEAN /\ Over = last - 1
        BY <1>2, <1>9, <2>2, <3>1 DEF TypeOK, Over
      <3>3. at + 1 \in 1..N /\ (ps0 => at + 2 \in 1..N) /\ ran \in Nat /\ ran <= N
        BY <1>3, <3>1, <3>2
      <3>4. one[at + 1] = Token("typed", last) /\ (ps0 => one[at + 2] = Mark("C"))
        BY <1>6, <3>1, <3>3
      <3>5. \A j \in 1..printed[last] : one[ran + j] = Token("out", last)
        <4>1. TAKE j \in 1..printed[last]
        <4>2. ran + j \in 1..N
          BY <3>1, <3>2, <3>3
        <4>3. QED  BY <1>6, <3>1, <4>2
      <3>6. StepOf(one, at, was.ranAt, N + 1, last, TRUE) = StepFor(last)
        <4>1. N + 1 = ran + printed[last] + 1 /\ N + 1 <= Len(one)
          BY <1>3, <1>6, <3>1
        <4>2. was.ranAt = (IF ps0 THEN ran ELSE 0) /\ at \in Nat \ {0}
          BY <3>1
        <4>3. ran = at + (IF ps0 THEN 2 ELSE 1) /\ one \in Seq(Tokens)
          BY <1>6
        <4> HIDE DEF at, ran, N, now
        <4>4. \/ ran = at + 1 /\ was.ranAt = 0
              \/ ran = at + 2 /\ was.ranAt = ran /\ one[at + 2] = Mark("C")
          BY <3>4, <4>2, <4>3
        <4>5. HoldsRun(one, at, ran, was.ranAt, last, N + 1)
          BY <3>2, <3>3, <3>4, <3>5, <4>1, <4>2, <4>3, <4>4 DEF HoldsRun
        <4>6. QED  BY <4>5, StepIs, Zenon
      <3>7. now = [steps |-> Append(was.steps, StepFor(last)), typedAt |-> 0, ranAt |-> 0]
        <4>1. now = AtMark(one, was, N + 1) /\ one[N + 1].kind = "D" /\ one[N + 1].n = last
          BY <1>4, <1>6
        <4>2. at > 0
          BY <3>1
        <4>3. was = [steps |-> was.steps, typedAt |-> at, ranAt |-> was.ranAt]
          BY <1>7 DEF IsCut
        <4> HIDE DEF N, now
        <4>4. now = [steps |-> Append(was.steps, StepOf(one, was.typedAt, was.ranAt, N + 1, one[N + 1].n, TRUE)),
                     typedAt |-> 0, ranAt |-> 0]
          BY <4>1, <4>2 DEF AtMark
        <4>5. QED  BY <3>6, <4>1, <4>4
      <3>8. Append(was.steps, StepFor(last)) = [c \in 1..last |-> StepFor(c)]
        <4> DEFINE all == [c \in 1..last |-> StepFor(c)]
        <4>1. was.steps = [c \in 1..(last - 1) |-> StepFor(c)]
          BY <1>7, <3>2
        <4>2. [c \in 1..(last - 1) |-> StepFor(c)] = [c \in 1..(last - 1) |-> all[c]]
          <5>1. \A c \in 1..(last - 1) : c \in 1..last
            BY <1>9
          <5>2. QED  BY <5>1
        <4>3. all[last] = StepFor(last) /\ all \in [1..last -> {StepFor(c) : c \in 1..last}]
          BY <1>9, <3>1
        <4>4. last \in Nat \ {0}
          BY <1>9, <3>1
        <4> HIDE DEF all
        <4>5. Append([c \in 1..(last - 1) |-> all[c]], all[last]) = all
          BY <4>3, <4>4, OneLonger
        <4>6. QED  BY <4>1, <4>2, <4>3, <4>5 DEF all
      <3>9. one[at + 1].kind = "typed"
        BY <3>4 DEF Token
      <3>10. Begun(one, was, N + 1)
        BY <1>3, <3>1, <3>2, <3>3, <3>9 DEF Begun
      <3>11. QED  BY <3>7, <3>8, <3>10 DEF IsCut
    <2>3. QED  BY <1>1, <2>1, <2>2
  <1>11. StepsInv'
    <2> HIDE DEF now, was
    <2>1. ASSUME NEW i \in 0..(N + 1)
          PROVE  /\ IsCut(Cuts(one)[i])
                 /\ \E n \in 0..last : Cuts(one)[i].steps = [c \in 1..n |-> StepFor(c)']
      <3>1. CASE i = N + 1
        <4>1. now.steps = [c \in 1..last |-> StepFor(c)']
          BY <1>8, <1>10
        <4>2. last \in 0..last
          BY <1>9
        <4>3. QED  BY <1>10, <3>1, <4>1, <4>2 DEF now
      <3>2. CASE i \in 0..N
        <4>1. IsCut(Cuts(Whole)[i]) /\ \E n \in 0..Over : Cuts(Whole)[i].steps = [c \in 1..n |-> StepFor(c)]
          BY <1>2, <3>2 DEF StepsInv, WholeSteps
        <4>2. PICK n \in 0..Over : Cuts(Whole)[i].steps = [c \in 1..n |-> StepFor(c)]
          BY <4>1
        <4>3. n \in 0..last
          BY <1>9
        <4>4. Cuts(Whole)[i].steps = [c \in 1..n |-> StepFor(c)']
          BY <1>8, <4>2
        <4>5. QED  BY <1>6, <3>2, <4>1, <4>3, <4>4
      <3>3. i = N + 1 \/ i \in 0..N
        BY <1>3
      <3>4. QED  BY <3>1, <3>2, <3>3
    <2>2. Sane(one)
      BY <1>6, <1>10
    <2> HIDE DEF N
    <2>3. QED  BY <1>5, <1>6, <1>9, <2>1, <2>2 DEF StepsInv, WholeSteps, StepFor
  <1>12. EndInv'
    <2> DEFINE end == Cuts(Whole')[Len(Whole')]
    <2>1. end = now
      BY <1>5, <1>6
    <2>2. \A c \in (last' + 1)..Commands : printed'[c] = 0
      BY <1>1, <1>2 DEF EndInv
    <2>3. end.steps = [c \in 1..Over' |-> StepFor(c)']
      BY <1>8, <1>9, <1>10, <2>1
    <2>4. end.typedAt = 0 /\ end.ranAt = 0
      BY <1>10, <2>1
    <2> HIDE DEF end
    <2>5. QED  BY <1>1, <2>2, <2>3, <2>4 DEF EndInv, end
  <1>13. QED  BY <1>1, <1>11, <1>12 DEF CInv

LEMMA FinishC ==
  ASSUME CInv, Finish, RInv'
  PROVE  CInv'
  <1>1. /\ shell = "running" /\ shell' = "done"
        /\ UNCHANGED <<ps0, last, printed, input, pipe, rec, sent, cast>>
    BY DEF Finish, recVars
  <1>2. Whole' = Whole
    BY <1>1 DEF Whole, Read
  <1>3. StepsInv' /\ EndInv'
    BY <1>1, <1>2, SameCut
  <1>4. QED  BY <1>1, <1>3 DEF CInv

\* What is read moves from the pipe to the recording, and nothing is lost.
LEMMA DrainC ==
  ASSUME CInv, Drain, RInv'
  PROVE  CInv'
  <1>1. PICK k \in 1..Len(pipe) :
           /\ \E whole \in BOOLEAN : cast' = cast \o DecodedChunk(SubSeq(pipe, 1, k), whole)
           /\ pipe' = SubSeq(pipe, k + 1, Len(pipe))
           /\ rec' = IF Prompt(SubSeq(pipe, 1, k)) THEN "sending" ELSE rec
    BY DEF Drain
  <1>2. rec = "draining" /\ UNCHANGED <<ps0, shell, last, printed, input, sent>>
    BY DEF Drain, shellVars
  <1>3. /\ pipe \in Seq(Tokens) /\ cast \in Seq(DecodedTokens) /\ Len(pipe) \in Nat /\ k \in Nat
        /\ Read \in Seq(Tokens)
    BY RestoredIs DEF CInv, RInv, TypeOK, Read
  <1>4. PICK chunk : chunk = SubSeq(pipe, 1, k)
    OBVIOUS
  <1>5. PICK left : left = SubSeq(pipe, k + 1, Len(pipe))
    OBVIOUS
  <1>6. chunk \in Seq(Tokens) /\ Len(chunk) = k /\ \A i \in 1..k : chunk[i] = pipe[i]
    BY <1>3, <1>4
  <1>7. /\ left \in Seq(Tokens) /\ Len(left) = Len(pipe) - k
        /\ \A i \in 1..Len(left) : left[i] = pipe[k + i]
    BY <1>3, <1>5
  <1>8. chunk \o left = pipe
    <2>1. PICK both : both = chunk \o left
      OBVIOUS
    <2>2. /\ both \in Seq(Tokens) /\ Len(both) = Len(chunk) + Len(left)
          /\ \A i \in 1..(Len(chunk) + Len(left)) :
               both[i] = IF i <= Len(chunk) THEN chunk[i] ELSE left[i - Len(chunk)]
      BY <1>6, <1>7, <2>1, ConcatProperties, Zenon
    <2>3. Len(both) = Len(pipe)
      BY <1>3, <1>6, <1>7, <2>2
    <2>4. ASSUME NEW i \in 1..Len(pipe) PROVE both[i] = pipe[i]
      <3>1. CASE i <= k
        BY <1>3, <1>6, <1>7, <2>2, <3>1
      <3>2. CASE i > k
        <4>1. i - k \in 1..Len(left) /\ k + (i - k) = i
          BY <1>3, <1>7, <3>2
        <4>2. both[i] = left[i - k]
          BY <1>3, <1>6, <1>7, <2>2, <3>2
        <4>3. QED  BY <1>7, <4>1, <4>2
      <3>3. QED  BY <1>3, <3>1, <3>2
    <2>5. QED  BY <1>3, <2>1, <2>2, <2>3, <2>4, SeqEqual
  <1>9. (Read \o chunk) \o left = Read \o (chunk \o left)
    <2>1. Read \in Seq(Tokens) /\ chunk \in Seq(Tokens) /\ left \in Seq(Tokens)
      BY <1>3, <1>6, <1>7
    <2>2. QED  BY <2>1, ConcatAssociative
  <1>10. Whole' = Whole
    <2>1. PICK whole \in BOOLEAN : cast' = cast \o DecodedChunk(chunk, whole)
      BY <1>1, <1>4
    <2>2. /\ DecodedChunk(chunk, whole) \in Seq(DecodedTokens)
          /\ Restored(DecodedChunk(chunk, whole)) = chunk
      BY <1>6, DecodedIs
    <2>3. Read' = Read \o chunk
      BY <1>3, <2>1, <2>2, RestoredJoins DEF Read
    <2>4. QED  BY <1>1, <1>5, <1>8, <1>9, <2>3 DEF Whole
  <1>11. StepsInv' /\ EndInv'
    BY <1>2, <1>10, SameCut
  <1>12. rec' # "ended"
    BY <1>1, <1>2
  <1>13. QED  BY <1>11, <1>12 DEF CInv

LEMMA GiveUpC ==
  ASSUME CInv, GiveUp, RInv'
  PROVE  CInv'
  <1>1. /\ rec' = "sending"
        /\ UNCHANGED <<ps0, shell, last, printed, input, pipe, sent, cast>>
    BY DEF GiveUp, shellVars
  <1>2. Whole' = Whole
    BY <1>1 DEF Whole, Read
  <1>3. StepsInv' /\ EndInv'
    BY <1>1, <1>2, SameCut
  <1>4. QED  BY <1>1, <1>3 DEF CInv

LEMMA SendNextC ==
  ASSUME CInv, SendNext, RInv'
  PROVE  CInv'
  <1>1. /\ rec = "sending" /\ rec' = "draining"
        /\ pipe' = IF shell = "ready" \/ gone THEN pipe ELSE Append(pipe, Token("typed", sent + 1))
        /\ UNCHANGED <<ps0, shell, last, printed, cast>>
    BY DEF SendNext, shellVars
  <1>2. shell = "ready"
    BY <1>1 DEF CInv, RInv, PromptInv
  <1>3. Whole' = Whole
    BY <1>1, <1>2 DEF Whole, Read
  <1>4. StepsInv' /\ EndInv'
    BY <1>1, <1>3, SameCut
  <1>5. QED  BY <1>1, <1>4 DEF CInv

LEMMA EndC ==
  ASSUME CInv, End, RInv'
  PROVE  CInv'
  <1>1. /\ sent = Commands
        /\ UNCHANGED <<ps0, shell, last, printed, input, pipe, sent, cast>>
    BY DEF End, shellVars
  <1>2. Whole' = Whole
    BY <1>1 DEF Whole, Read
  <1>3. StepsInv' /\ EndInv'
    BY <1>1, <1>2, SameCut
  <1>4. QED  BY <1>1, <1>3 DEF CInv

LEMMA LeaveC ==
  ASSUME CInv, Leave, RInv'
  PROVE  CInv'
  <1>1. UNCHANGED <<ps0, shell, last, printed, input, pipe, rec, sent, cast>>
    BY DEF Leave, recVars
  <1>2. Whole' = Whole
    BY <1>1 DEF Whole, Read
  <1>3. StepsInv' /\ EndInv'
    BY <1>1, <1>2, SameCut
  <1>4. QED  BY <1>1, <1>3 DEF CInv

LEMMA NextC ==
  ASSUME TypeOK', [Next]_vars, orderly', orderly => CInv
  PROVE  CInv'
  <1>1. CInv /\ RInv' /\ ~HangUp
    <2>1. orderly => RInv
      BY DEF CInv
    <2>2. orderly /\ RInv'
      BY <2>1, NextR
    <2>3. QED  BY <2>2 DEF HangUp
  <1>2. CASE Shell
    BY <1>1, <1>2, PrintDoneC, DrawPromptC, ReadLineC, PrintOutputC, FinishC DEF Shell
  <1>3. CASE Drain \/ Leave
    BY <1>1, <1>3, DrainC, LeaveC
  <1>4. CASE GiveUp
    BY <1>1, <1>4, GiveUpC
  <1>5. CASE SendNext
    BY <1>1, <1>5, SendNextC
  <1>6. CASE End
    BY <1>1, <1>6, EndC
  <1>7. CASE UNCHANGED vars
    <2>1. UNCHANGED <<ps0, shell, last, printed, input, pipe, rec, sent, cast>>
      BY <1>7 DEF vars, shellVars, recVars
    <2>2. Whole' = Whole
      BY <2>1 DEF Whole, Read
    <2>3. StepsInv' /\ EndInv'
      BY <1>1, <2>1, <2>2, SameCut
    <2>4. QED  BY <1>1, <2>1, <2>3 DEF CInv
  <1>8. QED  BY <1>1, <1>2, <1>3, <1>4, <1>5, <1>6, <1>7 DEF Next

\* What the terminal prints is cut into one whole step per command that is
\* over, at every place of it and wherever the shell is, as long as no wait has
\* ended early: what it prints, as it was before the reads decoded it.
THEOREM CutInv == Spec => [](TypeOK /\ (orderly => CInv))
  <1>1. Init => TypeOK /\ (orderly => CInv)
    BY InitC DEF CInv, RInv
  <1>2. (TypeOK /\ (orderly => CInv)) /\ [Next]_vars => (TypeOK /\ (orderly => CInv))'
    BY NextTyped, NextC
  <1>3. QED  BY <1>1, <1>2, PTL DEF Spec

\* What has been read is cut as the same place of all that was printed.
LEMMA ReadIsCut ==
  ASSUME CInv
  PROVE  /\ Read \in Seq(Tokens) /\ Len(Read) \in Nat
         /\ \E n \in 0..Over : Cuts(Read)[Len(Read)].steps = [c \in 1..n |-> StepFor(c)]
  <1>1. /\ Read \in Seq(Tokens) /\ pipe \in Seq(Tokens) /\ Len(Read) \in Nat
        /\ WholeSteps(Whole)
    BY RestoredIs DEF CInv, RInv, TypeOK, StepsInv, Read
  <1>2. Whole \in Seq(Tokens) /\ Len(Read) <= Len(Whole) /\ Len(Whole) \in Nat
        /\ \A j \in 1..Len(Read) : Read[j] = Whole[j]
    BY <1>1 DEF Whole
  <1>3. \A i \in 1..Len(Read) : Begun(Whole, Cuts(Whole)[i - 1], i)
    BY <1>1, <1>2 DEF WholeSteps, Sane
  <1>4. \A i \in 0..Len(Read) : Cuts(Read)[i] = Cuts(Whole)[i]
    BY <1>1, <1>2, <1>3, Agree
  <1>5. Len(Read) \in 0..Len(Read) /\ Len(Read) \in 0..Len(Whole)
    BY <1>1, <1>2
  <1>6. \E n \in 0..Over : Cuts(Whole)[Len(Read)].steps = [c \in 1..n |-> StepFor(c)]
    BY <1>1, <1>5 DEF WholeSteps
  <1>7. QED  BY <1>1, <1>4, <1>5, <1>6

\* A step that is cut out of what was read is complete only as one command's.
LEMMA EachIsOne ==
  ASSUME CInv, HasPrompt(Read), NEW c \in 1..Len(StepsOf(Read)), StepsOf(Read)[c].complete
  PROVE  StepsOf(Read)[c] = StepFor(c)
  <1> DEFINE cut == Cuts(Read)[Len(Read)]
             rest == StepOf(Read, cut.typedAt, cut.ranAt, Len(Read) + 1, 0, FALSE)
  <1>1. PICK n \in 0..Over : cut.steps = [d \in 1..n |-> StepFor(d)]
    BY ReadIsCut
  <1>2. n \in Nat
    BY OverTyped DEF CInv, RInv
  <1>3. StepsOf(Read) = IF cut.typedAt > 0 /\ rest.command # <<>> THEN Append(cut.steps, rest) ELSE cut.steps
    BY DEF StepsOf
  <1>4. rest.complete = FALSE
    BY DEF StepOf
  <1> HIDE DEF cut, rest
  <1> DEFINE S == {StepFor(d) : d \in 1..n} \cup {rest}
  <1>5. cut.steps \in Seq(S) /\ Len(cut.steps) = n /\ \A d \in 1..n : cut.steps[d] = StepFor(d)
    <2>1. PICK done : done = [d \in 1..n |-> StepFor(d)]
      OBVIOUS
    <2>2. done \in [1..n -> S]
      BY <2>1
    <2> HIDE DEF S
    <2>3. done \in Seq(S) /\ Len(done) = n
      BY <1>2, <2>2
    <2>4. QED  BY <1>1, <2>1, <2>3
  <1>6. CASE StepsOf(Read) = cut.steps
    BY <1>5, <1>6
  <1>7. CASE StepsOf(Read) = Append(cut.steps, rest)
    <2>1. PICK steps : steps = StepsOf(Read)
      OBVIOUS
    <2>2. PICK done : done = cut.steps
      OBVIOUS
    <2>3. done \in Seq(S) /\ rest \in S /\ Len(done) = n /\ steps = Append(done, rest)
      BY <1>5, <1>7, <2>1, <2>2
    <2> HIDE DEF S
    <2>4. Len(steps) = n + 1 /\ steps[n + 1] = rest /\ \A d \in 1..n : steps[d] = done[d]
      BY <1>2, <2>3
    <2>5. c \in 1..(n + 1) /\ steps[c].complete
      BY <2>1, <2>4
    <2>6. c # n + 1
      BY <1>4, <2>4, <2>5
    <2>7. c \in 1..n
      BY <1>2, <2>5, <2>6
    <2>8. QED  BY <1>5, <2>1, <2>2, <2>4, <2>7
  <1>8. QED  BY <1>3, <1>6, <1>7

\* At the end the recording stops at a prompt, behind the step of the last command.
LEMMA AllAreThere ==
  ASSUME CInv, rec = "ended"
  PROVE  StepsOf(Read) = [c \in 1..Commands |-> StepFor(c)] /\ HasPrompt(Read)
  <1>1. shell = "ready" /\ input = <<>> /\ pipe = <<>> /\ sent = Commands /\ last = Commands
    BY DEF CInv, RInv, PromptInv, TurnInv
  <1>2. Read \in Seq(Tokens) /\ Len(Read) \in Nat /\ Whole = Read
    <2>1. Read \in Seq(Tokens)
      BY RestoredIs DEF CInv, RInv, TypeOK, Read
    <2>2. QED  BY <1>1, <2>1 DEF Whole
  <1> DEFINE cut == Cuts(Read)[Len(Read)]
             N == Len(Read)
             rest == StepOf(Read, cut.typedAt, cut.ranAt, Len(Read) + 1, 0, FALSE)
  <1>3. cut.steps = [c \in 1..Commands |-> StepFor(c)] /\ cut.typedAt = N /\ cut.ranAt = 0
    BY <1>1, <1>2 DEF CInv, EndInv, Over
  <1>4. RanAt(Read, N, 0) = N
    <2>1. {i \in DOMAIN Read : i > N /\ Read[i].kind = "typed"} = {}
      BY <1>2
    <2>2. QED  BY <2>1 DEF RanAt
  <1>5. SubSeq(Read, N + 1, N) = <<>>
    BY <1>2
  <1>6. Shown(<<>>) = <<>>
    <2>1. Visible(Token("typed", 0)) /\ ~Visible(Mark("C"))
      BY DEF Visible, Token, Mark
    <2>2. QED  BY <2>1, LineShows
  <1>7. HasPrompt(Read)
    <2>1. N \in DOMAIN Read /\ Read[N].kind = "B2"
      BY <1>1, <1>2 DEF CInv, EndInv
    <2>2. QED  BY <2>1 DEF HasPrompt
  <1>8. rest.command = <<>>
    <2> HIDE DEF cut, N
    <2>1. rest.command = Shown(SubSeq(Read, N + 1, N))
      BY <1>3, <1>4 DEF StepOf, N
    <2>2. QED  BY <1>5, <1>6, <2>1
  <1>9. StepsOf(Read) = IF cut.typedAt > 0 /\ rest.command # <<>> THEN Append(cut.steps, rest) ELSE cut.steps
    BY <1>7 DEF StepsOf
  <1> HIDE DEF cut, rest
  <1>10. QED  BY <1>3, <1>7, <1>8, <1>9

-----------------------------------------------------------------------------
(* The recording is cut as what was printed is.                            *)

LEMMA RestoredLonger ==
  ASSUME NEW text \in Seq(DecodedTokens), NEW t \in DecodedTokens
  PROVE  Restored(Append(text, t)) = Append(Restored(text), Token(t.kind, t.n))
  <1>1. PICK more \in Seq(DecodedTokens) :
           /\ more = Append(text, t) /\ Len(more) = Len(text) + 1 /\ more[Len(text) + 1] = t
           /\ \A i \in 1..Len(text) : more[i] = text[i]
    <2>1. text \in Seq(DecodedTokens) /\ t \in DecodedTokens
      OBVIOUS
    <2>2. /\ Append(text, t) \in Seq(DecodedTokens)
          /\ Len(Append(text, t)) = Len(text) + 1 /\ Append(text, t)[Len(text) + 1] = t
          /\ \A i \in 1..Len(text) : Append(text, t)[i] = text[i]
      BY <2>1, AppendProperties
    <2>3. QED  BY <2>2, Zenon
  <1>2. PICK r \in Seq(Tokens) : r = Restored(text) /\ Len(r) = Len(text)
                                 /\ \A i \in 1..Len(text) : r[i] = Token(text[i].kind, text[i].n)
    BY RestoredIs
  <1>3. PICK q \in Seq(Tokens) : q = Restored(more) /\ Len(q) = Len(more)
                                 /\ \A i \in 1..Len(more) : q[i] = Token(more[i].kind, more[i].n)
    BY RestoredIs
  <1>4. Token(t.kind, t.n) \in Tokens
    BY DEF DecodedTokens, Tokens, Token
  <1>5. PICK u \in Tokens : u = Token(t.kind, t.n)
    BY <1>4
  <1>6. PICK a \in Seq(Tokens) :
           /\ a = Append(r, u) /\ Len(a) = Len(r) + 1 /\ a[Len(r) + 1] = u
           /\ \A i \in 1..Len(r) : a[i] = r[i]
    <2>1. r \in Seq(Tokens) /\ u \in Tokens
      OBVIOUS
    <2>2. /\ Append(r, u) \in Seq(Tokens)
          /\ Len(Append(r, u)) = Len(r) + 1 /\ Append(r, u)[Len(r) + 1] = u
          /\ \A i \in 1..Len(r) : Append(r, u)[i] = r[i]
      BY <2>1, AppendProperties
    <2>3. QED  BY <2>2, Zenon
  <1>7. Len(text) \in Nat
    OBVIOUS
  <1>8. ASSUME NEW i \in 1..Len(q) PROVE q[i] = a[i]
    <2>1. CASE i = Len(text) + 1
      <3>1. i \in 1..Len(more) /\ more[i] = t
        BY <1>1, <1>3, <1>8, <2>1
      <3>2. q[i] = Token(t.kind, t.n)
        BY <1>3, <3>1
      <3>3. QED  BY <1>2, <1>5, <1>6, <2>1, <3>2
    <2>2. CASE i # Len(text) + 1
      <3>1. i \in 1..Len(text) /\ i \in 1..Len(more)
        BY <1>1, <1>3, <1>7, <1>8, <2>2
      <3>2. more[i] = text[i] /\ a[i] = r[i]
        BY <1>1, <1>2, <1>6, <3>1
      <3>3. QED  BY <1>2, <1>3, <3>1, <3>2
    <2>3. QED  BY <2>1, <2>2
  <1>9. q = a
    BY <1>1, <1>2, <1>3, <1>6, <1>8, SeqEqual
  <1>10. QED  BY <1>1, <1>2, <1>3, <1>5, <1>6, <1>9

LEMMA RestoredPart ==
  ASSUME NEW text \in Seq(DecodedTokens), NEW m \in Nat \ {0}, NEW n \in 0..Len(text)
  PROVE  /\ SubSeq(text, m, n) \in Seq(DecodedTokens)
         /\ Restored(SubSeq(text, m, n)) = SubSeq(Restored(text), m, n)
  <1>1. Len(text) \in Nat /\ n \in Nat
    OBVIOUS
  <1>2. PICK part \in Seq(DecodedTokens) :
           /\ part = SubSeq(text, m, n)
           /\ Len(part) = IF m <= n THEN n - m + 1 ELSE 0
           /\ \A i \in 1..Len(part) : part[i] = text[m + i - 1] /\ m + i - 1 \in 1..Len(text)
    BY Part, Zenon
  <1>3. PICK r \in Seq(Tokens) : r = Restored(text) /\ Len(r) = Len(text)
                                 /\ \A i \in 1..Len(text) : r[i] = Token(text[i].kind, text[i].n)
    BY RestoredIs
  <1>4. PICK sub \in Seq(Tokens) :
           /\ sub = SubSeq(r, m, n)
           /\ Len(sub) = IF m <= n THEN n - m + 1 ELSE 0
           /\ \A i \in 1..Len(sub) : sub[i] = r[m + i - 1] /\ m + i - 1 \in 1..Len(r)
    <2>1. n \in 0..Len(r)
      BY <1>3
    <2>2. QED  BY <2>1, Part, Zenon
  <1>5. PICK q \in Seq(Tokens) : q = Restored(part) /\ Len(q) = Len(part)
                                 /\ \A i \in 1..Len(part) : q[i] = Token(part[i].kind, part[i].n)
    BY RestoredIs
  <1>6. ASSUME NEW i \in 1..Len(q) PROVE q[i] = sub[i]
    <2>1. i \in 1..Len(part) /\ i \in 1..Len(sub)
      BY <1>2, <1>4, <1>5, <1>6
    <2>2. PICK j \in 1..Len(text) : j = m + i - 1 /\ part[i] = text[j] /\ sub[i] = r[j]
      BY <1>2, <1>4, <2>1
    <2>3. QED  BY <1>3, <1>5, <2>1, <2>2
  <1>7. q = sub
    BY <1>2, <1>4, <1>5, <1>6, SeqEqual
  <1>8. QED  BY <1>2, <1>3, <1>4, <1>5, <1>7

\* What shows of a text is a recursive function, and there is one.
LEMMA ShownAre ==
  ASSUME NEW text, Len(text) \in Nat
  PROVE  ShownUpto(text) = [i \in 0..Len(text) |->
           IF i = 0 THEN <<>>
           ELSE IF Visible(text[i]) THEN Append(ShownUpto(text)[i - 1], text[i]) ELSE ShownUpto(text)[i - 1]]
  <1> DEFINE More(g, i) == IF Visible(text[i]) THEN Append(g, text[i]) ELSE g
             Def(g, i) == IF i = 0 THEN <<>> ELSE More(g[i - 1], i)
             Upto(n) == \E g : g = [i \in 0..n |-> Def(g, i)]
             Not == {n \in Nat : ~Upto(n)}
  <1>1. Upto(0)
    <2>1. [i \in 0..0 |-> <<>>] = [i \in 0..0 |-> Def([j \in 0..0 |-> <<>>], i)]
      OBVIOUS
    <2>2. QED  BY <2>1
  <1> HIDE DEF More
  <1>2. ASSUME NEW n \in Nat, Upto(n) PROVE Upto(n + 1)
    <2>1. PICK g : g = [i \in 0..n |-> Def(g, i)]
      BY <1>2
    <2> DEFINE h == [i \in 0..(n + 1) |-> IF i = n + 1 THEN More(g[n], n + 1) ELSE g[i]]
    <2>2. \A i \in 0..(n + 1) : h[i] = Def(h, i)
      <3>1. TAKE i \in 0..(n + 1)
      <3>2. CASE i = 0
        <4>1. h[0] = g[0]
          OBVIOUS
        <4>2. g[0] = <<>>
          BY <2>1
        <4>3. QED  BY <3>2, <4>1, <4>2
      <3>3. CASE i \in 1..n
        <4>1. h[i] = g[i] /\ h[i - 1] = g[i - 1] /\ i # 0
          BY <3>3
        <4>2. g[i] = More(g[i - 1], i)
          BY <2>1, <3>3
        <4> HIDE DEF h
        <4>3. QED  BY <4>1, <4>2
      <3>4. CASE i = n + 1
        <4>1. h[i] = More(g[n], n + 1) /\ h[i - 1] = g[n] /\ i # 0
          BY <3>4
        <4> HIDE DEF h
        <4>2. QED  BY <3>4, <4>1
      <3>5. QED  BY <3>2, <3>3, <3>4
    <2>3. h = [i \in 0..(n + 1) |-> h[i]]
      OBVIOUS
    <2> HIDE DEF h
    <2>4. h = [i \in 0..(n + 1) |-> Def(h, i)]
      <3> HIDE DEF Def
      <3>1. QED  BY <2>2, <2>3
    <2>5. QED  BY <2>4
  <1>3. Not = {}
    <2>1. SUFFICES ASSUME Not # {} PROVE FALSE
      OBVIOUS
    <2>2. PICK m \in Not : \A n \in Not : ~(<<n, m>> \in OpToRel(<, Nat))
      BY <2>1, NatLessThanWellFounded, WFMin
    <2>3. m \in Nat /\ ~Upto(m) /\ m # 0
      BY <1>1
    <2>4. m - 1 \in Nat /\ m - 1 < m
      BY <2>3
    <2>5. m - 1 \notin Not
      <3> HIDE DEF Not
      <3>1. QED  BY <2>2, <2>3, <2>4 DEF OpToRel
    <2>6. Upto(m - 1)
      BY <2>4, <2>5
    <2> HIDE DEF Upto
    <2>7. Upto((m - 1) + 1)
      BY <1>2, <2>4, <2>6
    <2>8. (m - 1) + 1 = m
      BY <2>3
    <2>9. QED  BY <2>3, <2>7, <2>8
  <1>4. Upto(Len(text))
    <2> HIDE DEF Upto
    <2>1. QED  BY <1>3
  <1>5. ShownUpto(text) = CHOOSE g : g = [i \in 0..Len(text) |-> Def(g, i)]
    BY DEF ShownUpto, More
  <1>6. QED
    <2> HIDE DEF Def
    <2>1. ShownUpto(text) = [i \in 0..Len(text) |-> Def(ShownUpto(text), i)]
      BY <1>4, <1>5
    <2>2. QED  BY <2>1 DEF Def, More

\* So a place shows what the place before did, and its own token if it draws anything.
LEMMA ShownAt ==
  ASSUME NEW text, Len(text) \in Nat
  PROVE  /\ ShownUpto(text)[0] = <<>>
         /\ \A i \in 1..Len(text) :
              ShownUpto(text)[i] = IF Visible(text[i]) THEN Append(ShownUpto(text)[i - 1], text[i])
                                   ELSE ShownUpto(text)[i - 1]
  <1> DEFINE shown == ShownUpto(text)
             More(g, i) == IF Visible(text[i]) THEN Append(g, text[i]) ELSE g
  <1>1. shown = [i \in 0..Len(text) |-> IF i = 0 THEN <<>> ELSE More(shown[i - 1], i)]
    BY ShownAre
  <1> HIDE DEF shown, More
  <1>2. /\ shown[0] = <<>>
        /\ \A i \in 1..Len(text) : shown[i] = More(shown[i - 1], i)
    BY <1>1
  <1>3. QED  BY <1>2 DEF shown, More

LEMMA ShownRestored ==
  ASSUME NEW text \in Seq(DecodedTokens)
  PROVE  Shown(text) \in Seq(DecodedTokens) /\ Shown(Restored(text)) = Restored(Shown(text))
  <1>1. PICK r \in Seq(Tokens) :
           /\ r = Restored(text) /\ Len(r) = Len(text) /\ Len(text) \in Nat
           /\ \A i \in 1..Len(text) : r[i] = Token(text[i].kind, text[i].n) /\ r[i].kind = text[i].kind
    BY RestoredIs
  <1>2. PICK u : u = ShownUpto(text)
    OBVIOUS
  <1>3. PICK v : v = ShownUpto(r)
    OBVIOUS
  <1>4. /\ u[0] = <<>>
        /\ \A i \in 1..Len(text) : u[i] = IF Visible(text[i]) THEN Append(u[i - 1], text[i]) ELSE u[i - 1]
    BY <1>1, <1>2, ShownAt
  <1>5. /\ v[0] = <<>>
        /\ \A i \in 1..Len(text) : v[i] = IF Visible(r[i]) THEN Append(v[i - 1], r[i]) ELSE v[i - 1]
    BY <1>1, <1>3, ShownAt
  <1> DEFINE Same(i) == u[i] \in Seq(DecodedTokens) /\ v[i] = Restored(u[i])
             Not == {i \in 0..Len(text) : ~Same(i)}
  <1>6. Same(0)
    <2>1. <<>> \in Seq(DecodedTokens) /\ Restored(<<>>) = <<>>
      BY DEF Restored
    <2>2. QED  BY <1>4, <1>5, <2>1
  <1>7. ASSUME NEW i \in 1..Len(text), Same(i - 1) PROVE Same(i)
    <2>1. /\ text[i] \in DecodedTokens /\ r[i] = Token(text[i].kind, text[i].n)
          /\ Visible(r[i]) <=> Visible(text[i])
      BY <1>1 DEF Visible
    <2>2. PICK w \in Seq(DecodedTokens) : w = u[i - 1] /\ v[i - 1] = Restored(w)
      BY <1>7
    <2>3. CASE Visible(text[i])
      <3>1. u[i] = Append(w, text[i]) /\ v[i] = Append(Restored(w), r[i])
        BY <1>4, <1>5, <2>1, <2>2, <2>3
      <3>2. Append(w, text[i]) \in Seq(DecodedTokens)
        BY <2>1
      <3>3. QED  BY <2>1, <3>1, <3>2, RestoredLonger
    <2>4. CASE ~Visible(text[i])
      <3>1. u[i] = w /\ v[i] = Restored(w)
        BY <1>4, <1>5, <2>1, <2>2, <2>4
      <3>2. QED  BY <3>1
    <2>5. QED  BY <2>3, <2>4
  <1> HIDE DEF Same
  <1>8. Not = {}
    <2>1. SUFFICES ASSUME Not # {} PROVE FALSE
      OBVIOUS
    <2>2. Not \subseteq Nat
      OBVIOUS
    <2>3. PICK m \in Not : \A n \in Not : ~(<<n, m>> \in OpToRel(<, Nat))
      BY <2>1, <2>2, NatLessThanWellFounded, WFMin
    <2>4. m \in 1..Len(text) /\ ~Same(m)
      BY <1>1, <1>6
    <2>5. m - 1 \in 0..Len(text) /\ m - 1 \in Nat /\ m - 1 < m /\ m \in Nat
      BY <1>1, <2>4
    <2>6. m - 1 \notin Not
      <3> HIDE DEF Not
      <3>1. QED  BY <2>3, <2>5 DEF OpToRel
    <2>7. Same(m - 1)
      BY <2>5, <2>6
    <2>8. QED  BY <1>7, <2>4, <2>7
  <1>9. Same(Len(text))
    <2>1. Len(text) \in 0..Len(text)
      BY <1>1
    <2>2. QED  BY <1>8, <2>1
  <1>10. QED  BY <1>1, <1>2, <1>3, <1>9 DEF Same, Shown

LEMMA RanRestored ==
  ASSUME NEW text \in Seq(DecodedTokens), NEW at \in 0..Len(text), NEW ran \in 0..Len(text)
  PROVE  /\ RanAt(Restored(text), at, ran) = RanAt(text, at, ran)
         /\ RanAt(text, at, ran) \in 0..Len(text)
  <1>1. PICK r \in Seq(Tokens) :
           /\ r = Restored(text) /\ Len(r) = Len(text) /\ Len(text) \in Nat
           /\ \A i \in 1..Len(text) : r[i].kind = text[i].kind
    BY RestoredIs
  <1> DEFINE Lines(s) == {i \in DOMAIN s : i > at /\ s[i].kind = "typed"}
             First(L) == CHOOSE i \in L : \A j \in L : i <= j
  <1>2. Lines(r) = Lines(text) /\ Lines(text) \subseteq 1..Len(text)
    BY <1>1
  <1>3. PICK L : L = Lines(text)
    OBVIOUS
  <1>4. /\ RanAt(text, at, ran) = IF ran > 0 THEN ran ELSE IF L = {} THEN Len(text) ELSE First(L)
        /\ RanAt(r, at, ran) = IF ran > 0 THEN ran ELSE IF L = {} THEN Len(text) ELSE First(L)
    <2>1. RanAt(text, at, ran) = IF ran > 0 THEN ran ELSE IF Lines(text) = {} THEN Len(text) ELSE First(Lines(text))
      BY DEF RanAt
    <2>2. RanAt(r, at, ran) = IF ran > 0 THEN ran ELSE IF Lines(r) = {} THEN Len(r) ELSE First(Lines(r))
      BY DEF RanAt
    <2> HIDE DEF Lines, First
    <2>3. QED  BY <1>1, <1>2, <1>3, <2>1, <2>2
  <1>5. L # {} => First(L) \in 1..Len(text)
    <2>1. SUFFICES ASSUME L # {} PROVE First(L) \in 1..Len(text)
      OBVIOUS
    <2> HIDE DEF Lines
    <2>2. L \subseteq 1..Len(text) /\ L \subseteq Nat
      BY <1>1, <1>2, <1>3
    <2>3. PICK m \in L : \A n \in L : ~(<<n, m>> \in OpToRel(<, Nat))
      BY <2>1, <2>2, NatLessThanWellFounded, WFMin
    <2>4. \A n \in L : m <= n
      <3>1. SUFFICES ASSUME NEW n \in L PROVE m <= n
        OBVIOUS
      <3>2. n \in Nat /\ m \in Nat
        BY <2>2
      <3>3. ~(n < m)
        BY <2>3, <3>2 DEF OpToRel
      <3>4. QED  BY <3>2, <3>3
    <2>5. First(L) \in L
      BY <2>4
    <2>6. QED  BY <2>2, <2>5
  <1> HIDE DEF First
  <1>6. QED  BY <1>1, <1>4, <1>5

IsRestored(text, at, ran, doneAt, code, complete, step) ==
  /\ StepOf(Restored(text), at, ran, doneAt, code, complete) = RestoredStep(step)
  /\ step.complete = complete /\ step.command \in Seq(DecodedTokens)
  /\ RestoredStep(step).complete = complete
  /\ RestoredStep(step).command = Restored(step.command)

LEMMA StepRestored ==
  ASSUME NEW text \in Seq(DecodedTokens), NEW at \in 0..Len(text), NEW ran \in 0..Len(text),
         NEW doneAt \in 1..(Len(text) + 1), NEW code, NEW complete,
         NEW step, step = StepOf(text, at, ran, doneAt, code, complete)
  PROVE  IsRestored(text, at, ran, doneAt, code, complete, step)
  <1>1. PICK r : r = Restored(text)
    OBVIOUS
  <1>2. PICK k \in 0..Len(text) : k = RanAt(text, at, ran) /\ k = RanAt(r, at, ran)
    BY <1>1, RanRestored
  <1>3. Len(text) \in Nat /\ at + 1 \in Nat \ {0} /\ k + 1 \in Nat \ {0} /\ doneAt - 1 \in 0..Len(text)
    OBVIOUS
  <1>4. PICK line \in Seq(DecodedTokens) : line = SubSeq(text, at + 1, k) /\ Restored(line) = SubSeq(r, at + 1, k)
    BY <1>1, <1>3, RestoredPart
  <1>5. PICK out \in Seq(DecodedTokens) :
           out = SubSeq(text, k + 1, doneAt - 1) /\ Restored(out) = SubSeq(r, k + 1, doneAt - 1)
    BY <1>1, <1>3, RestoredPart
  <1>6. PICK command \in Seq(DecodedTokens) : command = Shown(line) /\ Restored(command) = Shown(Restored(line))
    BY ShownRestored
  <1>7. StepOf(text, at, ran, doneAt, code, complete)
          = [command |-> command, output |-> out, code |-> code, complete |-> complete]
    BY <1>2, <1>4, <1>5, <1>6 DEF StepOf
  <1>8. StepOf(r, at, ran, doneAt, code, complete)
          = [command |-> Restored(command), output |-> Restored(out), code |-> code, complete |-> complete]
    BY <1>2, <1>4, <1>5, <1>6 DEF StepOf
  <1>9. step = [command |-> command, output |-> out, code |-> code, complete |-> complete]
    BY <1>7
  <1>10. RestoredStep(step)
          = [command |-> Restored(command), output |-> Restored(out), code |-> code, complete |-> complete]
    <2>1. step.command = command /\ step.output = out /\ step.code = code /\ step.complete = complete
      BY <1>9
    <2>2. QED  BY <2>1 DEF RestoredStep
  <1>11. QED  BY <1>1, <1>7, <1>8, <1>9, <1>10 DEF IsRestored

\* The loop over the marks is at the same place in the recording and in what was printed.
SameCuts(one, two, i, Steps) ==
  /\ IsCut(one) /\ IsCut(two)
  /\ one.typedAt \in 0..i /\ one.ranAt \in 0..i
  /\ two.typedAt = one.typedAt /\ two.ranAt = one.ranAt
  /\ one.steps \in Seq(Steps) /\ two.steps \in Seq({RestoredStep(step) : step \in Steps})
  /\ Len(two.steps) = Len(one.steps)
  /\ \A c \in 1..Len(one.steps) : two.steps[c] = RestoredStep(one.steps[c])

Cuttings(text) == (0..Len(text)) \X (0..Len(text)) \X (1..(Len(text) + 1)) \X (0..Commands) \X BOOLEAN

AnyStep(text) == {StepOf(text, x[1], x[2], x[3], x[4], x[5]) : x \in Cuttings(text)}

LEMMA AnyStepHas ==
  ASSUME NEW text, NEW at \in 0..Len(text), NEW ran \in 0..Len(text), NEW i \in 1..(Len(text) + 1),
         NEW code \in 0..Commands, NEW complete \in BOOLEAN
  PROVE  StepOf(text, at, ran, i, code, complete) \in AnyStep(text)
  <1>1. PICK x \in Cuttings(text) : x[1] = at /\ x[2] = ran /\ x[3] = i /\ x[4] = code /\ x[5] = complete
    <2>1. <<at, ran, i, code, complete>> \in Cuttings(text)
      BY DEF Cuttings
    <2>2. QED  BY <2>1
  <1>2. StepOf(text, x[1], x[2], x[3], x[4], x[5]) \in AnyStep(text)
    BY DEF AnyStep
  <1>3. QED  BY <1>1, <1>2

\* One step more in both.
LEMMA SameLonger ==
  ASSUME NEW S, NEW a \in Seq(S), NEW b \in Seq({RestoredStep(step) : step \in S}), Len(a) = Len(b),
         \A c \in 1..Len(a) : b[c] = RestoredStep(a[c]), NEW step \in S
  PROVE  /\ Append(a, step) \in Seq(S)
         /\ Append(b, RestoredStep(step)) \in Seq({RestoredStep(one) : one \in S})
         /\ Len(Append(b, RestoredStep(step))) = Len(Append(a, step))
         /\ \A c \in 1..Len(Append(a, step)) : Append(b, RestoredStep(step))[c] = RestoredStep(Append(a, step)[c])
  <1>1. PICK R : R = {RestoredStep(one) : one \in S}
    OBVIOUS
  <1>2. PICK r \in R : r = RestoredStep(step)
    BY <1>1
  <1>3. b \in Seq(R)
    BY <1>1
  <1>4. PICK p \in Seq(S) : p = Append(a, step) /\ Len(p) = Len(a) + 1 /\ p[Len(a) + 1] = step
                            /\ \A c \in 1..Len(a) : p[c] = a[c]
    <2>1. /\ Append(a, step) \in Seq(S)
          /\ Len(Append(a, step)) = Len(a) + 1 /\ Append(a, step)[Len(a) + 1] = step
          /\ \A c \in 1..Len(a) : Append(a, step)[c] = a[c]
      BY AppendProperties
    <2>2. QED  BY <2>1, Zenon
  <1>5. PICK q \in Seq(R) : q = Append(b, r) /\ Len(q) = Len(b) + 1 /\ q[Len(b) + 1] = r
                            /\ \A c \in 1..Len(b) : q[c] = b[c]
    <2>1. /\ Append(b, r) \in Seq(R)
          /\ Len(Append(b, r)) = Len(b) + 1 /\ Append(b, r)[Len(b) + 1] = r
          /\ \A c \in 1..Len(b) : Append(b, r)[c] = b[c]
      BY <1>3, AppendProperties
    <2>2. QED  BY <2>1, Zenon
  <1>6. ASSUME NEW c \in 1..Len(p) PROVE q[c] = RestoredStep(p[c])
    <2>1. CASE c = Len(a) + 1
      BY <1>2, <1>4, <1>5, <2>1
    <2>2. CASE c # Len(a) + 1
      <3>1. c \in 1..Len(a) /\ c \in 1..Len(b)
        BY <1>4, <2>2
      <3>2. p[c] = a[c] /\ q[c] = b[c] /\ b[c] = RestoredStep(a[c])
        BY <1>4, <1>5, <3>1
      <3>3. QED  BY <3>2
    <2>3. QED  BY <2>1, <2>2
  <1>7. QED  BY <1>1, <1>2, <1>4, <1>5, <1>6

LEMMA CutsRestored ==
  ASSUME NEW text \in Seq(DecodedTokens)
  PROVE  SameCuts(Cuts(text)[Len(text)], Cuts(Restored(text))[Len(text)], Len(text), AnyStep(text))
  <1>1. PICK r \in Seq(Tokens) :
           /\ r = Restored(text) /\ Len(r) = Len(text) /\ Len(text) \in Nat
           /\ \A i \in 1..Len(text) : r[i].kind = text[i].kind /\ r[i].n = text[i].n
    BY RestoredIs
  <1>2. PICK u : u = Cuts(text)
    OBVIOUS
  <1>3. PICK v : v = Cuts(r)
    OBVIOUS
  <1>4. u[0] = NoneYet /\ \A i \in 1..Len(text) : u[i] = AtMark(text, u[i - 1], i)
    BY <1>1, <1>2, CutAt
  <1>5. v[0] = NoneYet /\ \A i \in 1..Len(text) : v[i] = AtMark(r, v[i - 1], i)
    BY <1>1, <1>3, CutAt
  <1> DEFINE Same(i) == SameCuts(u[i], v[i], i, AnyStep(text))
             Not == {i \in 0..Len(text) : ~Same(i)}
  <1>6. Same(0)
    <2>1. \A T : <<>> \in Seq(T) /\ Len(<<>>) = 0
      OBVIOUS
    <2>2. QED  BY <1>4, <1>5, <2>1 DEF SameCuts, IsCut, NoneYet
  <1>7. ASSUME NEW i \in 1..Len(text), Same(i - 1) PROVE Same(i)
    <2>1. PICK one : one = u[i - 1] /\ u[i] = AtMark(text, one, i)
      BY <1>4
    <2>2. PICK two : two = v[i - 1] /\ v[i] = AtMark(r, two, i)
      BY <1>5
    <2>3. SameCuts(one, two, i - 1, AnyStep(text))
      BY <1>7, <2>1, <2>2
    <2>4. r[i].kind = text[i].kind /\ r[i].n = text[i].n /\ i \in Nat /\ i >= 1 /\ i <= Len(text)
      BY <1>1
    <2>5. /\ one = [steps |-> one.steps, typedAt |-> one.typedAt, ranAt |-> one.ranAt]
          /\ two = [steps |-> two.steps, typedAt |-> two.typedAt, ranAt |-> two.ranAt]
          /\ one.typedAt \in 0..i /\ one.ranAt \in 0..i
          /\ two.typedAt = one.typedAt /\ two.ranAt = one.ranAt
      BY <2>3, <2>4 DEF SameCuts, IsCut
    <2>6. CASE text[i].kind = "B2"
      <3>1. /\ u[i] = [steps |-> one.steps, typedAt |-> i, ranAt |-> 0]
            /\ v[i] = [steps |-> two.steps, typedAt |-> i, ranAt |-> 0]
        BY <2>1, <2>2, <2>4, <2>5, <2>6 DEF AtMark
      <3>2. QED  BY <2>3, <2>4, <3>1 DEF SameCuts, IsCut
    <2>7. CASE text[i].kind = "C" /\ one.typedAt > 0
      <3>1. /\ u[i] = [steps |-> one.steps, typedAt |-> one.typedAt, ranAt |-> i]
            /\ v[i] = [steps |-> two.steps, typedAt |-> two.typedAt, ranAt |-> i]
        BY <2>1, <2>2, <2>4, <2>5, <2>7 DEF AtMark
      <3>2. QED  BY <2>3, <2>4, <2>5, <3>1 DEF SameCuts, IsCut
    <2>8. CASE text[i].kind = "D" /\ one.typedAt > 0
      <3>1. PICK at \in 0..Len(text) : at = one.typedAt /\ at = two.typedAt
        BY <1>1, <2>4, <2>5
      <3>2. PICK ran \in 0..Len(text) : ran = one.ranAt /\ ran = two.ranAt
        BY <1>1, <2>4, <2>5
      <3>3. PICK code \in 0..Commands : code = text[i].n /\ code = r[i].n
        <4>1. text[i] \in DecodedTokens
          OBVIOUS
        <4>2. QED  BY <2>4, <4>1 DEF DecodedTokens
      <3>4. PICK step : step = StepOf(text, at, ran, i, code, TRUE)
        OBVIOUS
      <3>5. i \in 1..(Len(text) + 1)
        BY <1>1, <2>4
      <3>6. step \in AnyStep(text)
        BY <3>4, <3>5, AnyStepHas
      <3>7. StepOf(r, at, ran, i, code, TRUE) = RestoredStep(step)
        <4>1. StepOf(Restored(text), at, ran, i, code, TRUE) = RestoredStep(step)
          <5>1. IsRestored(text, at, ran, i, code, TRUE, step)
            BY <3>4, <3>5, StepRestored, Zenon
          <5>2. QED  BY <5>1 DEF IsRestored
        <4>2. QED  BY <1>1, <4>1
      <3>8. /\ u[i] = [steps |-> Append(one.steps, step), typedAt |-> 0, ranAt |-> 0]
            /\ v[i] = [steps |-> Append(two.steps, RestoredStep(step)), typedAt |-> 0, ranAt |-> 0]
        BY <2>1, <2>2, <2>4, <2>8, <3>1, <3>2, <3>3, <3>4, <3>7 DEF AtMark
      <3>9. PICK a : a = one.steps
        OBVIOUS
      <3>10. PICK b : b = two.steps
        OBVIOUS
      <3>11. PICK S : S = AnyStep(text)
        OBVIOUS
      <3>12. /\ a \in Seq(S) /\ b \in Seq({RestoredStep(any) : any \in S}) /\ Len(a) = Len(b)
             /\ \A c \in 1..Len(a) : b[c] = RestoredStep(a[c])
        BY <2>3, <3>9, <3>10, <3>11 DEF SameCuts
      <3>13. /\ Append(a, step) \in Seq(S)
             /\ Append(b, RestoredStep(step)) \in Seq({RestoredStep(any) : any \in S})
             /\ Len(Append(b, RestoredStep(step))) = Len(Append(a, step))
             /\ \A c \in 1..Len(Append(a, step)) :
                   Append(b, RestoredStep(step))[c] = RestoredStep(Append(a, step)[c])
        BY <3>6, <3>11, <3>12, SameLonger
      <3>14. PICK p : p = Append(a, step)
        OBVIOUS
      <3>15. PICK q : q = Append(b, RestoredStep(step))
        OBVIOUS
      <3>16. /\ u[i] = [steps |-> p, typedAt |-> 0, ranAt |-> 0]
             /\ v[i] = [steps |-> q, typedAt |-> 0, ranAt |-> 0]
        BY <3>8, <3>9, <3>10, <3>14, <3>15
      <3>17. 0 \in 0..i
        BY <2>4
      <3>18. QED  BY <3>11, <3>13, <3>14, <3>15, <3>16, <3>17 DEF SameCuts, IsCut
    <2>9. CASE ~(text[i].kind = "B2") /\ ~(text[i].kind \in {"C", "D"} /\ one.typedAt > 0)
      <3>1. u[i] = one /\ v[i] = two
        BY <2>1, <2>2, <2>4, <2>5, <2>9 DEF AtMark
      <3>2. QED  BY <2>3, <2>5, <3>1 DEF SameCuts
    <2>10. QED  BY <2>6, <2>7, <2>8, <2>9
  <1> HIDE DEF Same
  <1>8. Not = {}
    <2>1. SUFFICES ASSUME Not # {} PROVE FALSE
      OBVIOUS
    <2>2. Not \subseteq Nat
      OBVIOUS
    <2>3. PICK m \in Not : \A n \in Not : ~(<<n, m>> \in OpToRel(<, Nat))
      BY <2>1, <2>2, NatLessThanWellFounded, WFMin
    <2>4. m \in 1..Len(text) /\ ~Same(m)
      BY <1>1, <1>6
    <2>5. m - 1 \in 0..Len(text) /\ m - 1 \in Nat /\ m - 1 < m /\ m \in Nat
      BY <1>1, <2>4
    <2>6. m - 1 \notin Not
      <3> HIDE DEF Not
      <3>1. QED  BY <2>3, <2>5 DEF OpToRel
    <2>7. Same(m - 1)
      BY <2>5, <2>6
    <2>8. QED  BY <1>7, <2>4, <2>7
  <1>9. Same(Len(text))
    <2>1. Len(text) \in 0..Len(text)
      BY <1>1
    <2>2. QED  BY <1>8, <2>1
  <1>10. QED  BY <1>1, <1>2, <1>3, <1>9 DEF Same

\* The steps of the recording are those of what was printed, but for replaced characters.
LEMMA StepsRestored ==
  ASSUME NEW text \in Seq(DecodedTokens), HasPrompt(text)
  PROVE  /\ HasPrompt(Restored(text))
         /\ Len(StepsOf(Restored(text))) = Len(StepsOf(text))
         /\ \A c \in 1..Len(StepsOf(text)) :
              /\ StepsOf(Restored(text))[c] = RestoredStep(StepsOf(text)[c])
              /\ StepsOf(Restored(text))[c].complete = StepsOf(text)[c].complete
  <1>1. PICK r \in Seq(Tokens) :
           /\ r = Restored(text) /\ Len(r) = Len(text) /\ Len(text) \in Nat
           /\ \A i \in 1..Len(text) : r[i].kind = text[i].kind
    BY RestoredIs
  <1>2. HasPrompt(r)
    BY <1>1 DEF HasPrompt
  <1>3. PICK S : S = AnyStep(text)
    OBVIOUS
  <1>4. PICK one : one = Cuts(text)[Len(text)]
    OBVIOUS
  <1>5. PICK two : two = Cuts(r)[Len(text)]
    OBVIOUS
  <1>6. SameCuts(one, two, Len(text), S)
    BY <1>1, <1>3, <1>4, <1>5, CutsRestored
  <1>7. PICK at \in 0..Len(text) : at = one.typedAt /\ at = two.typedAt
    BY <1>6 DEF SameCuts
  <1>8. PICK ran \in 0..Len(text) : ran = one.ranAt /\ ran = two.ranAt
    BY <1>6 DEF SameCuts
  <1>9. PICK rest : rest = StepOf(text, at, ran, Len(text) + 1, 0, FALSE)
    OBVIOUS
  <1>10. Len(text) + 1 \in 1..(Len(text) + 1) /\ 0 \in 0..Commands
    BY <1>1, RecorderAssumption
  <1>11. /\ StepOf(r, at, ran, Len(text) + 1, 0, FALSE) = RestoredStep(rest)
         /\ rest.command \in Seq(DecodedTokens) /\ RestoredStep(rest).command = Restored(rest.command)
    <2>1. /\ StepOf(Restored(text), at, ran, Len(text) + 1, 0, FALSE) = RestoredStep(rest)
          /\ rest.command \in Seq(DecodedTokens) /\ RestoredStep(rest).command = Restored(rest.command)
      <3>1. IsRestored(text, at, ran, Len(text) + 1, 0, FALSE, rest)
        BY <1>9, <1>10, StepRestored, Zenon
      <3>2. QED  BY <3>1 DEF IsRestored
    <2>2. QED  BY <1>1, <2>1
  <1>12. rest \in S
    BY <1>3, <1>9, <1>10, AnyStepHas
  <1>13. RestoredStep(rest).command # <<>> <=> rest.command # <<>>
    <2>1. PICK command \in Seq(DecodedTokens) : command = rest.command
      BY <1>11
    <2>2. Restored(command) \in Seq(Tokens) /\ Len(Restored(command)) = Len(command)
      BY RestoredIs
    <2>3. Restored(command) = <<>> <=> command = <<>>
      BY <2>2
    <2>4. QED  BY <1>11, <2>1, <2>3
  <1>14. StepsOf(text) = IF at > 0 /\ rest.command # <<>> THEN Append(one.steps, rest) ELSE one.steps
    BY <1>4, <1>7, <1>8, <1>9 DEF StepsOf
  <1>15. StepsOf(r) = IF at > 0 /\ rest.command # <<>> THEN Append(two.steps, RestoredStep(rest)) ELSE two.steps
    BY <1>1, <1>2, <1>5, <1>7, <1>8, <1>11, <1>13 DEF StepsOf
  <1>16. PICK a \in Seq(S) : a = one.steps
    BY <1>6 DEF SameCuts
  <1>17. PICK b : b = two.steps /\ b \in Seq({RestoredStep(any) : any \in S}) /\ Len(a) = Len(b)
                  /\ \A c \in 1..Len(a) : b[c] = RestoredStep(a[c])
    BY <1>6, <1>16 DEF SameCuts
  <1>18. PICK p \in Seq(S) : p = StepsOf(text)
    <2>1. Append(a, rest) \in Seq(S)
      BY <1>12, <1>16
    <2>2. QED  BY <1>14, <1>16, <2>1
  <1>19. Len(StepsOf(r)) = Len(p) /\ \A c \in 1..Len(p) : StepsOf(r)[c] = RestoredStep(p[c])
    <2>1. CASE at > 0 /\ rest.command # <<>>
      <3>1. p = Append(a, rest) /\ StepsOf(r) = Append(b, RestoredStep(rest))
        BY <1>14, <1>15, <1>16, <1>17, <1>18, <2>1
      <3>2. /\ Len(Append(b, RestoredStep(rest))) = Len(Append(a, rest))
            /\ \A c \in 1..Len(Append(a, rest)) :
                  Append(b, RestoredStep(rest))[c] = RestoredStep(Append(a, rest)[c])
        <4>1. /\ a \in Seq(S) /\ b \in Seq({RestoredStep(any) : any \in S}) /\ Len(a) = Len(b)
              /\ \A c \in 1..Len(a) : b[c] = RestoredStep(a[c])
          BY <1>17
        <4>2. QED  BY <1>12, <4>1, SameLonger
      <3>3. QED  BY <3>1, <3>2
    <2>2. CASE ~(at > 0 /\ rest.command # <<>>)
      BY <1>14, <1>15, <1>16, <1>17, <1>18, <2>2
    <2>3. QED  BY <2>1, <2>2
  <1>20. \A step \in S : RestoredStep(step).complete = step.complete
    <2>1. SUFFICES ASSUME NEW step \in S PROVE RestoredStep(step).complete = step.complete
      OBVIOUS
    <2>2. PICK x \in Cuttings(text) : step = StepOf(text, x[1], x[2], x[3], x[4], x[5])
      BY <1>3 DEF AnyStep
    <2>3. x[1] \in 0..Len(text) /\ x[2] \in 0..Len(text) /\ x[3] \in 1..(Len(text) + 1)
      BY DEF Cuttings
    <2>4. IsRestored(text, x[1], x[2], x[3], x[4], x[5], step)
      BY <2>2, <2>3, StepRestored, Zenon
    <2>5. QED  BY <2>4 DEF IsRestored
  <1>21. \A c \in 1..Len(p) : p[c] \in S
    OBVIOUS
  <1>22. QED  BY <1>1, <1>2, <1>18, <1>19, <1>20, <1>21

\* Wherever the reads cut the stream, a step of the session is one command: what was
\* typed, what it printed and its own status, but for the characters a read ended inside
\* of (record.py:191); and when the recording ends there is one such step for every
\* command (session.py:170-219).  As long as no wait has ended early.
THEOREM OneStepEach == Spec => []StepsAreCommands
  <1>1. ASSUME TypeOK, orderly => CInv PROVE StepsAreCommands
    <2>1. SUFFICES ASSUME orderly
                   PROVE  /\ HasPrompt(cast) =>
                               \A c \in 1..Len(StepsOf(cast)) :
                                 StepsOf(cast)[c].complete => RestoredStep(StepsOf(cast)[c]) = StepFor(c)
                          /\ rec = "ended" =>
                               /\ Len(StepsOf(cast)) = Commands
                               /\ \A c \in 1..Commands : RestoredStep(StepsOf(cast)[c]) = StepFor(c)
      BY DEF StepsAreCommands
    <2>2. CInv /\ cast \in Seq(DecodedTokens)
      BY <1>1, <2>1 DEF TypeOK
    <2>3. HasPrompt(cast) => /\ HasPrompt(Read) /\ Len(StepsOf(Read)) = Len(StepsOf(cast))
                             /\ \A c \in 1..Len(StepsOf(cast)) :
                                  /\ StepsOf(Read)[c] = RestoredStep(StepsOf(cast)[c])
                                  /\ StepsOf(Read)[c].complete = StepsOf(cast)[c].complete
      BY <2>2, StepsRestored DEF Read
    <2>4. HasPrompt(cast) => \A c \in 1..Len(StepsOf(cast)) :
                               StepsOf(cast)[c].complete => RestoredStep(StepsOf(cast)[c]) = StepFor(c)
      BY <2>2, <2>3, EachIsOne
    <2>5. ASSUME rec = "ended"
          PROVE  /\ Len(StepsOf(cast)) = Commands
                 /\ \A c \in 1..Commands : RestoredStep(StepsOf(cast)[c]) = StepFor(c)
      <3>1. StepsOf(Read) = [c \in 1..Commands |-> StepFor(c)] /\ HasPrompt(Read)
        BY <2>2, <2>5, AllAreThere
      <3>2. HasPrompt(cast)
        BY <2>2, <3>1, RestoredIs DEF HasPrompt, Read
      <3>3. Len(StepsOf(Read)) = Commands /\ \A c \in 1..Commands : StepsOf(Read)[c] = StepFor(c)
        BY <3>1, RecorderAssumption
      <3>4. QED  BY <2>3, <3>2, <3>3
    <2>6. QED  BY <2>4, <2>5
  <1>2. (TypeOK /\ (orderly => CInv)) => StepsAreCommands
    BY <1>1
  <1>3. QED  BY <1>2, CutInv, PTL
=============================================================================
