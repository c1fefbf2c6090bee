---------------------------- MODULE GuestProofs ----------------------------
(***************************************************************************)
(* Proofs about Guest, for any number of commands, of console lines, and   *)
(* for statuses of any number of digits.                                   *)
(*                                                                         *)
(* The line of the invariants is what has arrived for the call in flight   *)
(* and what is still on its way, as one sequence: a reply is read out of   *)
(* the first part, while the shell appends to the second, the console      *)
(* breaks in between the two, and a deadline throws the first part away.   *)
(***************************************************************************)
EXTENDS Guest, TLAPS, SequenceTheorems, WellFoundedInduction

Line == stream \o wire

\* What belongs to one call, and the order in which a shell prints it.
Owned(t) == t.what \in {"BEG", "stdout", "ERR", "stderr", "END"}

Rank(t) ==
  CASE t.what = "BEG" -> 1 [] t.what = "stdout" -> 2 [] t.what = "ERR" -> 3
    [] t.what = "stderr" -> 4 [] OTHER -> 5

Before(a, b) == a.id < b.id \/ (a.id = b.id /\ Rank(a) < Rank(b))

\* Calls follow one another on the line, and so do the parts of each.
Ordered(s) ==
  \A p, q \in 1..Len(s) : p < q /\ Owned(s[p]) /\ Owned(s[q]) => Before(s[p], s[q])

\* After the first marker of a call comes its output.
OutputFollows(s) ==
  \A p \in 1..Len(s) : s[p].what = "BEG" =>
    \E q \in (p + 1)..Len(s) : s[q] = Out(s[p].id)

\* Behind a last marker comes the first digit of the status, unless the
\* console got in between; a zero stands alone.
StatusFollows(s, of) ==
  \A p \in 1..Len(s) : s[p].what = "END" =>
    /\ p + 1 \in 1..Len(s)
    /\ s[p + 1].what = "digit" => s[p + 1].id = of[s[p].id].status[1]
    /\ s[p + 1] = Tok("digit", 0) => p + 2 \in 1..Len(s) /\ s[p + 2].what # "digit"

Good(s, of) == Ordered(s) /\ OutputFollows(s) /\ StatusFollows(s, of)

-----------------------------------------------------------------------------
(* Sequences and numbers.                                                  *)

LEMMA MinOfSome ==
  ASSUME NEW T, T \subseteq Nat, T # {}
  PROVE  Min(T) \in T /\ \A y \in T : Min(T) <= y
  <1>1. \E x \in T : \A y \in T : ~ (<<y, x>> \in OpToRel(<, Nat))
    BY NatLessThanWellFounded, WFMin
  <1>2. PICK x \in T : \A y \in T : ~ (<<y, x>> \in OpToRel(<, Nat))
    BY <1>1
  <1>3. \A y \in T : x <= y
    <2>1. TAKE y \in T
    <2>2. ~(y < x)
      BY <1>2 DEF OpToRel
    <2>3. QED  BY <2>2
  <1>4. QED  BY <1>3 DEF Min

LEMMA Parts ==
  ASSUME NEW K, NEW a \in Seq(K), NEW b \in Seq(K), NEW c \in Seq(K)
  PROVE  /\ a \o (b \o c) \in Seq(K)
         /\ Len(a \o (b \o c)) = Len(a) + Len(b) + Len(c)
         /\ Len(a) \in Nat /\ Len(b) \in Nat /\ Len(c) \in Nat
         /\ \A i \in 1..Len(a) : (a \o (b \o c))[i] = a[i]
         /\ \A i \in 1..Len(b) : (a \o (b \o c))[Len(a) + i] = b[i]
         /\ \A i \in 1..Len(c) : (a \o (b \o c))[Len(a) + Len(b) + i] = c[i]
  <1> DEFINE r == b \o c
  <1>1. /\ r \in Seq(K) /\ Len(r) = Len(b) + Len(c)
        /\ Len(a) \in Nat /\ Len(b) \in Nat /\ Len(c) \in Nat
        /\ \A i \in 1..Len(b) : r[i] = b[i]
        /\ \A i \in 1..Len(c) : r[Len(b) + i] = c[i]
    OBVIOUS
  <1> HIDE DEF r
  <1>2. /\ a \o r \in Seq(K) /\ Len(a \o r) = Len(a) + Len(r)
        /\ \A i \in 1..Len(a) : (a \o r)[i] = a[i]
        /\ \A i \in 1..Len(r) : (a \o r)[Len(a) + i] = r[i]
    <2>1. /\ a \o r \in Seq(K) /\ Len(a \o r) = Len(a) + Len(r)
          /\ \A i \in 1..Len(a) + Len(r) : (a \o r)[i] =
                 IF i <= Len(a) THEN a[i] ELSE r[i - Len(a)]
      <3>1. r \in Seq(K)
        BY <1>1
      <3>2. QED  BY <3>1, ConcatProperties, Zenon
    <2>2. \A i \in 1..Len(a) : i \in 1..Len(a) + Len(r) /\ i <= Len(a)
      BY <1>1
    <2>3. \A i \in 1..Len(r) :
             /\ Len(a) + i \in 1..Len(a) + Len(r) /\ ~(Len(a) + i <= Len(a))
             /\ (Len(a) + i) - Len(a) = i
      BY <1>1
    <2>4. \A i \in 1..Len(a) : (a \o r)[i] = a[i]
      BY <2>1, <2>2
    <2>5. \A i \in 1..Len(r) : (a \o r)[Len(a) + i] = r[i]
      BY <2>1, <2>3
    <2>6. QED  BY <2>1, <2>4, <2>5
  <1>3. \A i \in 1..Len(b) : (a \o r)[Len(a) + i] = b[i]
    BY <1>1, <1>2
  <1>4. \A i \in 1..Len(c) : (a \o r)[Len(a) + Len(b) + i] = c[i]
    <2>1. TAKE i \in 1..Len(c)
    <2>2. Len(b) + i \in 1..Len(r) /\ Len(a) + (Len(b) + i) = Len(a) + Len(b) + i
      BY <1>1
    <2>3. (a \o r)[Len(a) + (Len(b) + i)] = r[Len(b) + i]
      BY <1>2, <2>2
    <2>4. QED  BY <1>1, <2>2, <2>3
  <1>5. QED  BY <1>1, <1>2, <1>3, <1>4 DEF r

\* Appending in one go or piece by piece comes to the same.
OneByOne(a, b, c) == a \o (b \o c) = (a \o b) \o c

AllAtOnce(s, a, b, c, d) ==
  s \o (((a \o b) \o c) \o d) = (((s \o a) \o b) \o c) \o d

LEMMA Appended ==
  ASSUME NEW K, NEW a \in Seq(K), NEW b \in Seq(K), NEW c \in Seq(K)
  PROVE  OneByOne(a, b, c) /\ a \o b \in Seq(K)
  BY ConcatAssociative, ConcatProperties DEF OneByOne

LEMMA GroupedThrice ==
  ASSUME NEW K, NEW s \in Seq(K), NEW v \in Seq(K), NEW e \in Seq(K), NEW r \in Seq(K),
         NEW n \in Seq(K)
  PROVE  /\ ((v \o e) \o r) \o n \in Seq(K)
         /\ AllAtOnce(s, v, e, r, n)
  <1>1. PICK f : f = v \o e
    OBVIOUS
  <1>2. PICK g : g = f \o r
    OBVIOUS
  <1>3. f \in Seq(K) /\ OneByOne(s, v, e)
    BY <1>1, Appended
  <1>4. g \in Seq(K) /\ OneByOne(s, f, r)
    BY <1>2, <1>3, Appended
  <1>5. g \o n \in Seq(K) /\ OneByOne(s, g, n)
    BY <1>4, Appended
  <1>6. QED  BY <1>1, <1>2, <1>3, <1>4, <1>5 DEF OneByOne, AllAtOnce

\* A piece of a line is replaced by one that belongs to nobody.
LEMMA SpliceOrdered ==
  ASSUME NEW a \in Seq(Tokens), NEW x \in Seq(Tokens), NEW y \in Seq(Tokens),
         NEW c \in Seq(Tokens),
         \A i \in 1..Len(x) : ~Owned(x[i]),
         Ordered(a \o (y \o c))
  PROVE  Ordered(a \o (x \o c))
  <1> DEFINE L == a \o (y \o c)
             M == a \o (x \o c)
             At(p) == IF p <= Len(a) THEN p ELSE p - Len(x) + Len(y)
  <1>1. /\ Len(M) = Len(a) + Len(x) + Len(c) /\ Len(L) = Len(a) + Len(y) + Len(c)
        /\ Len(a) \in Nat /\ Len(x) \in Nat /\ Len(y) \in Nat /\ Len(c) \in Nat
    OBVIOUS
  <1>2. ASSUME NEW p \in 1..Len(M), Owned(M[p])
        PROVE  At(p) \in 1..Len(L) /\ M[p] = L[At(p)] /\ (p <= Len(a) \/ p > Len(a) + Len(x))
    <2>1. CASE p <= Len(a)
      <3>1. M[p] = a[p] /\ L[p] = a[p]
        BY <2>1, <1>1
      <3>2. QED  BY <3>1, <2>1, <1>1
    <2>2. CASE p > Len(a) /\ p <= Len(a) + Len(x)
      <3>1. M[p] = x[p - Len(a)] /\ p - Len(a) \in 1..Len(x)
        BY <2>2, <1>1
      <3>2. QED  BY <3>1, <1>2
    <2>3. CASE p > Len(a) + Len(x)
      <3>1. M[p] = c[p - Len(a) - Len(x)]
        BY <2>3, <1>1
      <3>2. At(p) > Len(a) + Len(y) /\ At(p) <= Len(L)
        BY <2>3, <1>1
      <3>3. L[At(p)] = c[At(p) - Len(a) - Len(y)]
        BY <3>2, <1>1, SMTT(30)
      <3>4. QED  BY <3>1, <3>2, <3>3, <2>3, <1>1
    <2>4. p <= Len(a) \/ (p > Len(a) /\ p <= Len(a) + Len(x)) \/ p > Len(a) + Len(x)
      BY <1>1
    <2> HIDE DEF L, M, At
    <2>5. QED  BY <2>1, <2>2, <2>3, <2>4
  <1>3. ASSUME NEW p \in 1..Len(M), NEW q \in 1..Len(M), p < q, Owned(M[p]), Owned(M[q])
        PROVE  Before(M[p], M[q])
    <2>1. At(p) \in 1..Len(L) /\ M[p] = L[At(p)] /\ (p <= Len(a) \/ p > Len(a) + Len(x))
      BY <1>2, <1>3
    <2>2. At(q) \in 1..Len(L) /\ M[q] = L[At(q)] /\ (q <= Len(a) \/ q > Len(a) + Len(x))
      BY <1>2, <1>3
    <2>3. At(p) < At(q)
      BY <2>1, <2>2, <1>3, <1>1, SMTT(30)
    <2> HIDE DEF L, M, At
    <2>4. Ordered(L)
      BY DEF L
    <2>5. QED  BY <2>1, <2>2, <2>3, <2>4, <1>3 DEF Ordered
  <1>4. QED  BY <1>3 DEF Ordered

LEMMA SpliceOutput ==
  ASSUME NEW a \in Seq(Tokens), NEW x \in Seq(Tokens), NEW y \in Seq(Tokens),
         NEW c \in Seq(Tokens),
         \A i \in 1..Len(x) : ~Owned(x[i]),
         a = <<>> \/ \A i \in 1..Len(y) : y[i].what # "stdout",
         OutputFollows(a \o (y \o c))
  PROVE  OutputFollows(a \o (x \o c))
  <1> DEFINE L == a \o (y \o c)
             M == a \o (x \o c)
  <1>1. /\ Len(M) = Len(a) + Len(x) + Len(c) /\ Len(L) = Len(a) + Len(y) + Len(c)
        /\ Len(a) \in Nat /\ Len(x) \in Nat /\ Len(y) \in Nat /\ Len(c) \in Nat
    OBVIOUS
  <1>2. \A i \in 1..Len(a) : L[i] = a[i] /\ M[i] = a[i]
    BY Parts
  <1>3. \A i \in 1..Len(c) :
           L[Len(a) + Len(y) + i] = c[i] /\ M[Len(a) + Len(x) + i] = c[i]
    BY Parts
  <1>4. \A i \in 1..Len(x) : M[Len(a) + i] = x[i]
    BY Parts
  <1>5. \A i \in 1..Len(y) : L[Len(a) + i] = y[i]
    BY Parts
  <1> HIDE DEF L, M
  <1>6. OutputFollows(L)
    BY DEF L
  <1>7. ASSUME NEW p \in 1..Len(M), M[p].what = "BEG"
        PROVE  \E q \in (p + 1)..Len(M) : M[q] = Out(M[p].id)
    <2>1. CASE p <= Len(a)
      <3>1. p \in 1..Len(L) /\ L[p] = M[p]
        BY <2>1, <1>1, <1>2
      <3>2. PICK q \in (p + 1)..Len(L) : L[q] = Out(M[p].id)
        BY <3>1, <1>6, <1>7 DEF OutputFollows
      <3>3. CASE q <= Len(a)
        <4>1. q \in (p + 1)..Len(M) /\ M[q] = L[q]
          BY <3>2, <3>3, <1>1, <1>2, <2>1
        <4>2. QED  BY <4>1, <3>2
      <3>4. CASE q > Len(a) /\ q <= Len(a) + Len(y)
        <4>1. PICK i \in 1..Len(y) : q = Len(a) + i
          <5>1. q - Len(a) \in 1..Len(y) /\ q = Len(a) + (q - Len(a))
            BY <3>2, <3>4, <1>1, <2>1
          <5>2. QED  BY <5>1
        <4>2. y[i] = Out(M[p].id) /\ a # <<>>
          BY <4>1, <3>2, <2>1, <1>1, <1>5
        <4>3. y[i].what = "stdout"
          BY <4>2 DEF Out, Tok
        <4>4. QED  BY <4>2, <4>3
      <3>5. CASE q > Len(a) + Len(y)
        <4>1. PICK i \in 1..Len(c) : q = Len(a) + Len(y) + i
          <5>1. q - Len(a) - Len(y) \in 1..Len(c)
            BY <3>2, <3>5, <1>1, <2>1
          <5>2. q = Len(a) + Len(y) + (q - Len(a) - Len(y))
            BY <3>2, <1>1, <2>1
          <5>3. QED  BY <5>1, <5>2
        <4>2. /\ Len(a) + Len(x) + i \in (p + 1)..Len(M)
              /\ M[Len(a) + Len(x) + i] = L[q]
          BY <4>1, <1>1, <1>3, <2>1
        <4>3. QED  BY <4>2, <3>2
      <3>6. QED  BY <3>2, <3>3, <3>4, <3>5, <1>1, <2>1
    <2>2. CASE p > Len(a) /\ p <= Len(a) + Len(x)
      <3>1. p - Len(a) \in 1..Len(x) /\ M[p] = x[p - Len(a)]
        <4>1. p - Len(a) \in 1..Len(x) /\ Len(a) + (p - Len(a)) = p
          BY <2>2, <1>1
        <4>2. QED  BY <4>1, <1>4
      <3>2. QED  BY <3>1, <1>7 DEF Owned
    <2>3. CASE p > Len(a) + Len(x)
      <3>1. PICK i \in 1..Len(c) : p = Len(a) + Len(x) + i
        <4>1. p - Len(a) - Len(x) \in 1..Len(c)
          BY <2>3, <1>1
        <4>2. p = Len(a) + Len(x) + (p - Len(a) - Len(x))
          BY <1>1
        <4>3. QED  BY <4>1, <4>2
      <3>2. Len(a) + Len(y) + i \in 1..Len(L) /\ L[Len(a) + Len(y) + i] = M[p]
        BY <3>1, <1>1, <1>3
      <3>3. PICK q \in (Len(a) + Len(y) + i + 1)..Len(L) : L[q] = Out(M[p].id)
        BY <3>2, <1>6, <1>7 DEF OutputFollows
      <3>4. PICK j \in 1..Len(c) : q = Len(a) + Len(y) + j
        <4>1. q - Len(a) - Len(y) \in 1..Len(c)
          BY <3>3, <1>1
        <4>2. q = Len(a) + Len(y) + (q - Len(a) - Len(y))
          BY <3>3, <1>1
        <4>3. QED  BY <4>1, <4>2
      <3>5. /\ Len(a) + Len(x) + j \in (p + 1)..Len(M)
            /\ M[Len(a) + Len(x) + j] = L[q]
        BY <3>1, <3>3, <3>4, <1>1, <1>3
      <3>6. QED  BY <3>5, <3>3
    <2>4. QED  BY <2>1, <2>2, <2>3, <1>1
  <1>8. QED  BY <1>7 DEF OutputFollows, M

LEMMA SpliceStatus ==
  ASSUME NEW of,
         NEW a \in Seq(Tokens), NEW x \in Seq(Tokens), NEW y \in Seq(Tokens),
         NEW c \in Seq(Tokens),
         \A i \in 1..Len(x) : ~Owned(x[i]),
         a = <<>> \/ (Len(x) > 0 /\ x[1].what # "digit"),
         StatusFollows(a \o (y \o c), of)
  PROVE  StatusFollows(a \o (x \o c), of)
  <1> DEFINE L == a \o (y \o c)
             M == a \o (x \o c)
  <1>1. /\ Len(M) = Len(a) + Len(x) + Len(c) /\ Len(L) = Len(a) + Len(y) + Len(c)
        /\ Len(a) \in Nat /\ Len(x) \in Nat /\ Len(y) \in Nat /\ Len(c) \in Nat
    OBVIOUS
  <1>2. \A i \in 1..Len(a) : L[i] = a[i] /\ M[i] = a[i]
    BY Parts
  <1>3. \A i \in 1..Len(c) :
           L[Len(a) + Len(y) + i] = c[i] /\ M[Len(a) + Len(x) + i] = c[i]
    BY Parts
  <1>4. \A i \in 1..Len(x) : M[Len(a) + i] = x[i]
    BY Parts
  <1> HIDE DEF L, M
  <1>6. StatusFollows(L, of)
    BY DEF L
  <1>7. ASSUME NEW p \in 1..Len(M), M[p].what = "END"
        PROVE  /\ p + 1 \in 1..Len(M)
               /\ M[p + 1].what = "digit" => M[p + 1].id = of[M[p].id].status[1]
               /\ M[p + 1] = Tok("digit", 0) => p + 2 \in 1..Len(M) /\ M[p + 2].what # "digit"
    <2>1. CASE p <= Len(a)
      <3>0. Len(x) > 0 /\ x[1].what # "digit"
        BY <2>1, <1>1
      <3>1. p \in 1..Len(L) /\ L[p] = M[p]
        BY <2>1, <1>1, <1>2
      <3>2. /\ p + 1 \in 1..Len(L)
            /\ L[p + 1].what = "digit" => L[p + 1].id = of[M[p].id].status[1]
            /\ L[p + 1] = Tok("digit", 0) => p + 2 \in 1..Len(L) /\ L[p + 2].what # "digit"
        BY <3>1, <1>6, <1>7 DEF StatusFollows
      <3>3. M[Len(a) + 1] = x[1] /\ Len(a) + 1 \in 1..Len(M)
        BY <3>0, <1>1, <1>4
      <3>4. CASE p = Len(a)
        BY <3>0, <3>3, <3>4 DEF Tok
      <3>5. CASE p + 1 = Len(a)
        <4>1. M[p + 1] = L[p + 1] /\ M[p + 2] = x[1] /\ p + 2 \in 1..Len(M)
          BY <3>3, <3>5, <1>1, <1>2, SMTT(30)
        <4>2. QED  BY <4>1, <3>2, <3>0, <1>1
      <3>6. CASE p + 2 <= Len(a)
        <4>1. /\ M[p + 1] = L[p + 1] /\ M[p + 2] = L[p + 2]
              /\ p + 1 \in 1..Len(M) /\ p + 2 \in 1..Len(M)
          <5>1. /\ p + 1 \in 1..Len(a) /\ p + 2 \in 1..Len(a)
                /\ p + 1 \in 1..Len(M) /\ p + 2 \in 1..Len(M)
            BY <3>6, <1>1, SMTT(30)
          <5>2. QED  BY <5>1, <1>2, Zenon
        <4>2. QED  BY <4>1, <3>2
      <3>7. QED  BY <3>4, <3>5, <3>6, <2>1, <1>1
    <2>2. CASE p > Len(a) /\ p <= Len(a) + Len(x)
      <3>1. p - Len(a) \in 1..Len(x) /\ M[p] = x[p - Len(a)]
        <4>1. p - Len(a) \in 1..Len(x) /\ Len(a) + (p - Len(a)) = p
          BY <2>2, <1>1
        <4>2. QED  BY <4>1, <1>4
      <3>2. QED  BY <3>1, <1>7 DEF Owned
    <2>3. CASE p > Len(a) + Len(x)
      <3>1. PICK i \in 1..Len(c) : p = Len(a) + Len(x) + i
        <4>1. p - Len(a) - Len(x) \in 1..Len(c)
          BY <2>3, <1>1
        <4>2. p = Len(a) + Len(x) + (p - Len(a) - Len(x))
          BY <1>1
        <4>3. QED  BY <4>1, <4>2
      <3> DEFINE r == Len(a) + Len(y) + i
      <3>2. r \in 1..Len(L) /\ L[r] = M[p]
        BY <3>1, <1>1, <1>3
      <3>3. /\ r + 1 \in 1..Len(L)
            /\ L[r + 1].what = "digit" => L[r + 1].id = of[M[p].id].status[1]
            /\ L[r + 1] = Tok("digit", 0) => r + 2 \in 1..Len(L) /\ L[r + 2].what # "digit"
        BY <3>2, <1>6, <1>7 DEF StatusFollows
      <3>4. i + 1 \in 1..Len(c) /\ p + 1 \in 1..Len(M) /\ M[p + 1] = L[r + 1]
        <4>1. i + 1 \in 1..Len(c)
          BY <3>3, <1>1
        <4>2. r + 1 = Len(a) + Len(y) + (i + 1) /\ p + 1 = Len(a) + Len(x) + (i + 1)
          BY <3>1, <1>1
        <4>3. L[r + 1] = c[i + 1] /\ M[p + 1] = c[i + 1]
          BY <4>1, <4>2, <1>3
        <4>4. p + 1 \in 1..Len(M)
          BY <4>1, <4>2, <1>1
        <4>5. QED  BY <4>1, <4>3, <4>4
      <3>5. r + 2 \in 1..Len(L) => p + 2 \in 1..Len(M) /\ M[p + 2] = L[r + 2]
        <4>1. HAVE r + 2 \in 1..Len(L)
        <4>2. i + 2 \in 1..Len(c)
          BY <4>1, <1>1
        <4>3. r + 2 = Len(a) + Len(y) + (i + 2) /\ p + 2 = Len(a) + Len(x) + (i + 2)
          BY <3>1, <1>1
        <4>4. QED  BY <4>2, <4>3, <1>1, <1>3, SMTT(30)
      <3> HIDE DEF r
      <3>6. QED  BY <3>3, <3>4, <3>5
    <2>4. QED  BY <2>1, <2>2, <2>3, <1>1
  <1>8. QED  BY <1>7 DEF StatusFollows, M

LEMMA Splice ==
  ASSUME NEW of,
         NEW a \in Seq(Tokens), NEW x \in Seq(Tokens), NEW y \in Seq(Tokens),
         NEW c \in Seq(Tokens),
         \A i \in 1..Len(x) : ~Owned(x[i]),
         \/ a = <<>>
         \/ /\ Len(x) > 0 /\ x[1].what # "digit"
            /\ \A i \in 1..Len(y) : y[i].what # "stdout",
         Good(a \o (y \o c), of)
  PROVE  Good(a \o (x \o c), of)
  BY SpliceOrdered, SpliceOutput, SpliceStatus DEF Good

-----------------------------------------------------------------------------
(* What the shell appends.                                                 *)

\* What of a line belongs to anybody is among these tokens.
Belongs(s, T) == \A p \in 1..Len(s) : Owned(s[p]) => s[p] \in T

LEMMA Joined ==
  ASSUME NEW K, NEW a \in Seq(K), NEW b \in Seq(K)
  PROVE  /\ a \o b \in Seq(K)
         /\ Len(a \o b) = Len(a) + Len(b)
         /\ Len(a) \in Nat /\ Len(b) \in Nat
         /\ \A i \in 1..Len(a) : (a \o b)[i] = a[i]
         /\ \A i \in 1..Len(b) : (a \o b)[Len(a) + i] = b[i]
  <1>1. /\ a \o b \in Seq(K) /\ Len(a \o b) = Len(a) + Len(b)
        /\ \A i \in 1..Len(a) + Len(b) : (a \o b)[i] =
               IF i <= Len(a) THEN a[i] ELSE b[i - Len(a)]
    BY ConcatProperties, Zenon
  <1>2. Len(a) \in Nat /\ Len(b) \in Nat
    OBVIOUS
  <1>3. \A i \in 1..Len(a) : i \in 1..Len(a) + Len(b) /\ i <= Len(a)
    BY <1>2
  <1>4. \A i \in 1..Len(b) :
           /\ Len(a) + i \in 1..Len(a) + Len(b) /\ ~(Len(a) + i <= Len(a))
           /\ (Len(a) + i) - Len(a) = i
    BY <1>2
  <1>5. QED  BY <1>1, <1>2, <1>3, <1>4

LEMMA BelongsJoined ==
  ASSUME NEW a \in Seq(Tokens), NEW b \in Seq(Tokens), NEW T, NEW U,
         Belongs(a, T), Belongs(b, U)
  PROVE  Belongs(a \o b, T \cup U)
  <1> DEFINE M == a \o b
  <1>1. /\ Len(M) = Len(a) + Len(b) /\ Len(a) \in Nat /\ Len(b) \in Nat
        /\ \A i \in 1..Len(a) : M[i] = a[i]
        /\ \A i \in 1..Len(b) : M[Len(a) + i] = b[i]
    BY Joined
  <1> HIDE DEF M
  <1>2. ASSUME NEW p \in 1..Len(M), Owned(M[p])
        PROVE  M[p] \in T \cup U
    <2>1. CASE p <= Len(a)
      <3>1. p \in 1..Len(a) /\ M[p] = a[p]
        BY <2>1, <1>1
      <3>2. QED  BY <3>1, <1>2 DEF Belongs
    <2>2. CASE p > Len(a)
      <3>1. PICK i \in 1..Len(b) : p = Len(a) + i
        <4>1. p - Len(a) \in 1..Len(b) /\ p = Len(a) + (p - Len(a))
          BY <2>2, <1>1
        <4>2. QED  BY <4>1
      <3>2. M[p] = b[i]
        BY <3>1, <1>1
      <3>3. QED  BY <3>2, <1>2 DEF Belongs
    <2>3. QED  BY <2>1, <2>2, <1>1
  <1>3. QED  BY <1>2 DEF Belongs, M

\* What is appended comes after all that is there.
LEMMA GoodJoined ==
  ASSUME NEW of, NEW a \in Seq(Tokens), NEW b \in Seq(Tokens), NEW T, NEW U,
         Good(a, of), Good(b, of), Belongs(a, T), Belongs(b, U),
         \A t \in T, u \in U : Before(t, u)
  PROVE  Good(a \o b, of)
  <1> DEFINE M == a \o b
  <1>1. /\ Len(M) = Len(a) + Len(b) /\ Len(a) \in Nat /\ Len(b) \in Nat
        /\ \A i \in 1..Len(a) : M[i] = a[i]
        /\ \A i \in 1..Len(b) : M[Len(a) + i] = b[i]
    BY Joined
  <1> HIDE DEF M
  <1>2. ASSUME NEW p \in 1..Len(M), p > Len(a)
        PROVE  \E i \in 1..Len(b) : p = Len(a) + i
    <2>1. p - Len(a) \in 1..Len(b) /\ p = Len(a) + (p - Len(a))
      BY <1>1, <1>2
    <2>2. QED  BY <2>1
  <1>3. Ordered(M)
    <2>1. ASSUME NEW p \in 1..Len(M), NEW q \in 1..Len(M), p < q, Owned(M[p]), Owned(M[q])
          PROVE  Before(M[p], M[q])
      <3>1. CASE q <= Len(a)
        <4>1. p \in 1..Len(a) /\ q \in 1..Len(a) /\ M[p] = a[p] /\ M[q] = a[q]
          BY <3>1, <2>1, <1>1
        <4>2. QED  BY <4>1, <2>1 DEF Good, Ordered
      <3>2. CASE p <= Len(a) /\ q > Len(a)
        <4>1. PICK j \in 1..Len(b) : q = Len(a) + j
          BY <3>2, <1>2
        <4>2. p \in 1..Len(a) /\ M[p] = a[p] /\ M[q] = b[j]
          BY <3>2, <4>1, <1>1
        <4>3. M[p] \in T /\ M[q] \in U
          BY <4>2, <2>1 DEF Belongs
        <4>4. QED  BY <4>3
      <3>3. CASE p > Len(a)
        <4>1. PICK i \in 1..Len(b) : p = Len(a) + i
          BY <3>3, <1>2
        <4>2. q > Len(a)
          BY <3>3, <2>1, <1>1
        <4>3. PICK j \in 1..Len(b) : q = Len(a) + j
          BY <4>2, <1>2
        <4>4. i < j
          BY <4>1, <4>3, <2>1, <1>1
        <4>5. M[p] = b[i] /\ M[q] = b[j]
          BY <4>1, <4>3, <1>1
        <4>6. QED  BY <4>4, <4>5, <2>1 DEF Good, Ordered
      <3>4. QED  BY <3>1, <3>2, <3>3, <1>1
    <2>2. QED  BY <2>1 DEF Ordered
  <1>4. OutputFollows(M)
    <2>1. ASSUME NEW p \in 1..Len(M), M[p].what = "BEG"
          PROVE  \E q \in (p + 1)..Len(M) : M[q] = Out(M[p].id)
      <3>1. CASE p <= Len(a)
        <4>1. p \in 1..Len(a) /\ M[p] = a[p]
          BY <3>1, <1>1
        <4>2. PICK q \in (p + 1)..Len(a) : a[q] = Out(M[p].id)
          BY <4>1, <2>1 DEF Good, OutputFollows
        <4>3. q \in (p + 1)..Len(M) /\ M[q] = a[q]
          BY <4>1, <4>2, <1>1
        <4>4. QED  BY <4>2, <4>3
      <3>2. CASE p > Len(a)
        <4>1. PICK i \in 1..Len(b) : p = Len(a) + i
          BY <3>2, <1>2
        <4>2. M[p] = b[i]
          BY <4>1, <1>1
        <4>3. PICK j \in (i + 1)..Len(b) : b[j] = Out(M[p].id)
          BY <4>2, <2>1 DEF Good, OutputFollows
        <4>4. Len(a) + j \in (p + 1)..Len(M) /\ M[Len(a) + j] = b[j]
          BY <4>1, <4>3, <1>1
        <4>5. QED  BY <4>3, <4>4
      <3>3. QED  BY <3>1, <3>2, <1>1
    <2>2. QED  BY <2>1 DEF OutputFollows
  <1>5. StatusFollows(M, of)
    <2>1. ASSUME NEW p \in 1..Len(M), M[p].what = "END"
          PROVE  /\ p + 1 \in 1..Len(M)
                 /\ M[p + 1].what = "digit" => M[p + 1].id = of[M[p].id].status[1]
                 /\ M[p + 1] = Tok("digit", 0) => p + 2 \in 1..Len(M) /\ M[p + 2].what # "digit"
      <3>1. CASE p <= Len(a)
        <4>1. p \in 1..Len(a) /\ M[p] = a[p]
          BY <3>1, <1>1
        <4>2. /\ p + 1 \in 1..Len(a)
              /\ a[p + 1].what = "digit" => a[p + 1].id = of[M[p].id].status[1]
              /\ a[p + 1] = Tok("digit", 0) => p + 2 \in 1..Len(a) /\ a[p + 2].what # "digit"
          BY <4>1, <2>1 DEF Good, StatusFollows
        <4>3. M[p + 1] = a[p + 1] /\ p + 1 \in 1..Len(M)
          BY <4>2, <1>1
        <4>4. p + 2 \in 1..Len(a) => p + 2 \in 1..Len(M) /\ M[p + 2] = a[p + 2]
          BY <1>1
        <4>5. QED  BY <4>2, <4>3, <4>4
      <3>2. CASE p > Len(a)
        <4>1. PICK i \in 1..Len(b) : p = Len(a) + i
          BY <3>2, <1>2
        <4>2. M[p] = b[i]
          BY <4>1, <1>1
        <4>3. /\ i + 1 \in 1..Len(b)
              /\ b[i + 1].what = "digit" => b[i + 1].id = of[M[p].id].status[1]
              /\ b[i + 1] = Tok("digit", 0) => i + 2 \in 1..Len(b) /\ b[i + 2].what # "digit"
          BY <4>2, <2>1 DEF Good, StatusFollows
        <4>4. p + 1 = Len(a) + (i + 1) /\ p + 2 = Len(a) + (i + 2)
          BY <4>1, <1>1
        <4>5. M[p + 1] = b[i + 1] /\ p + 1 \in 1..Len(M)
          BY <4>3, <4>4, <1>1
        <4>6. i + 2 \in 1..Len(b) => p + 2 \in 1..Len(M) /\ M[p + 2] = b[i + 2]
          BY <4>4, <1>1, SMTT(30)
        <4>7. QED  BY <4>3, <4>5, <4>6
      <3>3. QED  BY <3>1, <3>2, <1>1
    <2>2. QED  BY <2>1 DEF StatusFollows
  <1>6. QED  BY <1>3, <1>4, <1>5 DEF Good, M

\* What the shell prints when it begins, and what it prints when it is done.
StartPart(id) == BegPart(id) \o <<Out(id)>>
FinishPart(id, err, status) == (ErrPart(id) \o err) \o EndPart(id, status)

LEMMA TokensOf ==
  ASSUME NEW id \in Nat
  PROVE  /\ Newline \in Tokens /\ Echo \in Tokens /\ Console \in Tokens /\ Torn \in Tokens
         /\ Out(id) \in Tokens /\ Err(id) \in Tokens
         /\ Tok("BEG", id) \in Tokens /\ Tok("ERR", id) \in Tokens /\ Tok("END", id) \in Tokens
         /\ ~Owned(Newline) /\ ~Owned(Echo) /\ ~Owned(Console) /\ ~Owned(Torn)
         /\ ~Owned(Tok("digit", id)) /\ (id <= 9 => Tok("digit", id) \in Tokens)
  BY DEF Newline, Echo, Console, Torn, Out, Err, Tok, Tokens, TokenKinds, Owned

\* A line on which nothing belongs to anybody, and one of one token.
LEMMA NobodysLine ==
  ASSUME NEW of, NEW s \in Seq(Tokens), \A p \in 1..Len(s) : ~Owned(s[p])
  PROVE  Good(s, of) /\ Belongs(s, {})
  <1>1. Ordered(s)
    BY DEF Ordered
  <1>2. OutputFollows(s)
    BY DEF OutputFollows, Owned
  <1>3. StatusFollows(s, of)
    BY DEF StatusFollows, Owned
  <1>4. QED  BY <1>1, <1>2, <1>3 DEF Good, Belongs

LEMMA StartPartGood ==
  ASSUME NEW of, NEW id \in Nat
  PROVE  /\ StartPart(id) \in Seq(Tokens)
         /\ Good(StartPart(id), of)
         /\ Belongs(StartPart(id), {Tok("BEG", id), Out(id)})
  <1> DEFINE a == <<Newline, Tok("BEG", id), Newline>>
             b == <<Out(id)>>
             z == a \o b
  <1>1. a \in Seq(Tokens) /\ b \in Seq(Tokens)
    BY TokensOf
  <1>2. /\ z \in Seq(Tokens) /\ Len(z) = 4
        /\ z[1] = Newline /\ z[2] = Tok("BEG", id) /\ z[3] = Newline /\ z[4] = Out(id)
    <2>1. /\ Len(a) = 3 /\ Len(b) = 1
          /\ a[1] = Newline /\ a[2] = Tok("BEG", id) /\ a[3] = Newline /\ b[1] = Out(id)
      OBVIOUS
    <2> HIDE DEF a, b
    <2>2. /\ z \in Seq(Tokens) /\ Len(z) = Len(a) + Len(b)
          /\ \A i \in 1..Len(a) : z[i] = a[i]
          /\ \A i \in 1..Len(b) : z[Len(a) + i] = b[i]
      BY <1>1, Joined
    <2>3. QED  BY <2>1, <2>2
  <1> HIDE DEF z
  <1>3. \A p \in 1..Len(z) : Owned(z[p]) => p \in {2, 4}
    BY <1>2, TokensOf
  <1>4. Ordered(z)
    <2>1. ASSUME NEW p \in 1..Len(z), NEW q \in 1..Len(z), p < q, Owned(z[p]), Owned(z[q])
          PROVE  Before(z[p], z[q])
      <3>1. p = 2 /\ q = 4
        BY <2>1, <1>2, <1>3
      <3>2. QED  BY <3>1, <1>2 DEF Before, Rank, Tok, Out
    <2>2. QED  BY <2>1 DEF Ordered
  <1>5. OutputFollows(z)
    <2>1. ASSUME NEW p \in 1..Len(z), z[p].what = "BEG"
          PROVE  \E q \in (p + 1)..Len(z) : z[q] = Out(z[p].id)
      <3>1. p \in {2, 4}
        BY <2>1, <1>3 DEF Owned
      <3>2. p = 2
        BY <3>1, <2>1, <1>2 DEF Out, Tok
      <3>3. z[p].id = id
        BY <3>2, <1>2 DEF Tok
      <3>4. QED  BY <3>2, <3>3, <1>2
    <2>2. QED  BY <2>1 DEF OutputFollows
  <1>6. StatusFollows(z, of)
    <2>1. ASSUME NEW p \in 1..Len(z), z[p].what = "END"
          PROVE  FALSE
      <3>1. p \in {2, 4}
        BY <2>1, <1>3 DEF Owned
      <3>2. QED  BY <3>1, <2>1, <1>2 DEF Out, Tok
    <2>2. QED  BY <2>1 DEF StatusFollows
  <1>7. Belongs(z, {Tok("BEG", id), Out(id)})
    BY <1>2, <1>3 DEF Belongs
  <1>8. z = StartPart(id)
    BY DEF z, StartPart, BegPart, Marker
  <1>9. QED  BY <1>2, <1>4, <1>5, <1>6, <1>7, <1>8 DEF Good

LEMMA ErrPartGood ==
  ASSUME NEW of, NEW id \in Nat
  PROVE  /\ ErrPart(id) \in Seq(Tokens)
         /\ Good(ErrPart(id), of)
         /\ Belongs(ErrPart(id), {Tok("ERR", id)})
  <1> DEFINE z == <<Newline, Tok("ERR", id), Newline>>
  <1>1. z \in Seq(Tokens)
    BY TokensOf
  <1>2. Len(z) = 3 /\ z[1] = Newline /\ z[2] = Tok("ERR", id) /\ z[3] = Newline
    OBVIOUS
  <1> HIDE DEF z
  <1>3. \A p \in 1..Len(z) : Owned(z[p]) => p = 2
    BY <1>2, TokensOf
  <1>4. Ordered(z)
    BY <1>2, <1>3 DEF Ordered
  <1>5. ASSUME NEW p \in 1..Len(z) PROVE z[p].what # "BEG" /\ z[p].what # "END"
    BY <1>2, <1>3 DEF Owned, Tok
  <1>6. OutputFollows(z) /\ StatusFollows(z, of)
    BY <1>5 DEF OutputFollows, StatusFollows
  <1>7. Belongs(z, {Tok("ERR", id)})
    BY <1>2, <1>3 DEF Belongs
  <1>8. z = ErrPart(id)
    BY DEF z, ErrPart, Marker
  <1>9. QED  BY <1>1, <1>4, <1>6, <1>7, <1>8 DEF Good

\* What a command prints to its standard error, if anything.
LEMMA StderrGood ==
  ASSUME NEW of, NEW id \in Nat, NEW err \in {<<>>, <<Err(id)>>}
  PROVE  /\ err \in Seq(Tokens)
         /\ Good(err, of)
         /\ Belongs(err, {Err(id)})
  <1>1. CASE err = <<>>
    <2>1. err \in Seq(Tokens) /\ Len(err) = 0
      BY <1>1
    <2>2. QED  BY <2>1 DEF Good, Ordered, OutputFollows, StatusFollows, Belongs
  <1>2. CASE err = <<Err(id)>>
    <2>1. err \in Seq(Tokens) /\ Len(err) = 1 /\ err[1] = Err(id)
      BY <1>2, TokensOf
    <2>2. \A p \in 1..Len(err) : p = 1
      BY <2>1
    <2>3. err[1].what # "BEG" /\ err[1].what # "END"
      BY <2>1 DEF Err, Tok
    <2>4. QED  BY <2>1, <2>2, <2>3 DEF Good, Ordered, OutputFollows, StatusFollows, Belongs
  <1>3. QED  BY <1>1, <1>2

\* Where the last marker of a command and its status are.
LEMMA EndIs ==
  ASSUME NEW id \in Nat, NEW status \in Seq(0..9), status # <<>>
  PROVE  LET z == EndPart(id, status)
         IN  /\ z \in Seq(Tokens) /\ Len(z) = Len(status) + 3
             /\ z[1] = Newline /\ z[2] = Tok("END", id)
             /\ \A i \in 1..Len(status) : z[2 + i] = Tok("digit", status[i])
             /\ z[Len(status) + 3] = Newline
  <1> DEFINE a == <<Newline, Tok("END", id)>>
             d == Digits(status)
             n == <<Newline>>
             z == a \o (d \o n)
  <1>1. a \in Seq(Tokens) /\ n \in Seq(Tokens)
    BY TokensOf
  <1>2. /\ d \in Seq(Tokens) /\ Len(d) = Len(status)
        /\ \A i \in 1..Len(d) : d[i] = Tok("digit", status[i])
    <2>1. ASSUME NEW i \in 1..Len(status) PROVE Tok("digit", status[i]) \in Tokens
      <3>1. status[i] \in Nat /\ status[i] <= 9
        OBVIOUS
      <3>2. QED  BY <3>1, TokensOf
    <2>2. Len(status) \in Nat
      OBVIOUS
    <2>3. QED  BY <2>1, <2>2 DEF Digits
  <1>3. Len(status) >= 1
    OBVIOUS
  <1>4. /\ Len(a) = 2 /\ a[1] = Newline /\ a[2] = Tok("END", id)
        /\ Len(n) = 1 /\ n[1] = Newline
    OBVIOUS
  <1> HIDE DEF a, d, n
  <1>5. /\ z \in Seq(Tokens) /\ Len(z) = Len(a) + Len(d) + Len(n)
        /\ \A i \in 1..Len(a) : z[i] = a[i]
        /\ \A i \in 1..Len(d) : z[Len(a) + i] = d[i]
        /\ \A i \in 1..Len(n) : z[Len(a) + Len(d) + i] = n[i]
    <2>1. d \in Seq(Tokens)
      BY <1>2
    <2>2. QED  BY <2>1, <1>1, Parts
  <1>6. z = (a \o d) \o n
    <2>1. d \in Seq(Tokens)
      BY <1>2
    <2>2. QED  BY <2>1, <1>1, ConcatAssociative, SMTT(40)
  <1> HIDE DEF z
  <1>7. /\ Len(z) = Len(status) + 3 /\ z[1] = Newline /\ z[2] = Tok("END", id)
        /\ \A i \in 1..Len(status) : z[2 + i] = Tok("digit", status[i])
        /\ z[Len(status) + 3] = Newline
    BY <1>2, <1>4, <1>5
  <1>8. z = EndPart(id, status)
    BY <1>6 DEF a, d, n, EndPart
  <1>9. QED  BY <1>5, <1>7, <1>8

\* The last marker with its status.
LEMMA EndPartGood ==
  ASSUME NEW of, NEW id \in Nat, NEW status \in Seq(0..9), status # <<>>,
         status[1] = 0 => status = << 0 >>,
         of[id].status = status
  PROVE  /\ EndPart(id, status) \in Seq(Tokens)
         /\ Good(EndPart(id, status), of)
         /\ Belongs(EndPart(id, status), {Tok("END", id)})
  <1>1. PICK z : z = EndPart(id, status)
    OBVIOUS
  <1>2. z \in Seq(Tokens)
    BY <1>1, EndIs
  <1>3. Len(status) >= 1
    OBVIOUS
  <1>4. /\ Len(z) = Len(status) + 3 /\ z[1] = Newline /\ z[2] = Tok("END", id)
        /\ \A i \in 1..Len(status) : z[2 + i] = Tok("digit", status[i])
        /\ z[Len(status) + 3] = Newline
    BY <1>1, EndIs
  <1>5. \A p \in 1..Len(z) : Owned(z[p]) => p = 2
    <2>1. ASSUME NEW p \in 1..Len(z), p # 2 PROVE ~Owned(z[p])
      <3>1. CASE p = 1 \/ p = Len(status) + 3
        BY <3>1, <1>4, TokensOf
      <3>2. CASE p \in 3..(Len(status) + 2)
        <4>1. p - 2 \in 1..Len(status) /\ p = 2 + (p - 2)
          BY <3>2
        <4>2. z[p] = Tok("digit", status[p - 2]) /\ status[p - 2] \in Nat
          BY <4>1, <1>4, SMTT(30)
        <4>3. QED  BY <4>2, TokensOf
      <3>3. QED  BY <3>1, <3>2, <2>1, <1>4
    <2>2. QED  BY <2>1
  <1>6. Ordered(z)
    BY <1>4, <1>5 DEF Ordered
  <1>7. OutputFollows(z)
    <2>1. ASSUME NEW p \in 1..Len(z) PROVE z[p].what # "BEG"
      BY <1>4, <1>5 DEF Owned, Tok
    <2>2. QED  BY <2>1 DEF OutputFollows
  <1>8. StatusFollows(z, of)
    <2>1. ASSUME NEW p \in 1..Len(z), z[p].what = "END"
          PROVE  /\ p + 1 \in 1..Len(z)
                 /\ z[p + 1].what = "digit" => z[p + 1].id = of[z[p].id].status[1]
                 /\ z[p + 1] = Tok("digit", 0) => p + 2 \in 1..Len(z) /\ z[p + 2].what # "digit"
      <3>1. p = 2 /\ z[p].id = id
        BY <2>1, <1>4, <1>5 DEF Owned, Tok
      <3>2. 1 \in 1..Len(status) /\ 2 + 1 = 3
        BY <1>3
      <3>3. z[3] = Tok("digit", status[1]) /\ 3 \in 1..Len(z)
        BY <3>2, <1>4
      <3>4. ASSUME status[1] = 0
            PROVE  4 \in 1..Len(z) /\ z[4].what # "digit"
        <4>1. Len(status) = 1
          BY <3>4
        <4>2. z[4] = Newline /\ Len(z) = 4
          BY <4>1, <1>4
        <4>3. QED  BY <4>2 DEF Newline, Tok
      <3>5. z[3].id = status[1] /\ (z[3] = Tok("digit", 0) => status[1] = 0)
        BY <3>3 DEF Tok
      <3>6. QED  BY <3>1, <3>3, <3>4, <3>5
    <2>2. QED  BY <2>1 DEF StatusFollows
  <1>9. Belongs(z, {Tok("END", id)})
    BY <1>4, <1>5 DEF Belongs
  <1>10. QED  BY <1>1, <1>2, <1>6, <1>7, <1>8, <1>9 DEF Good

-----------------------------------------------------------------------------
(* What parseReply reads.                                                  *)

LEMMA FirstOfSome ==
  ASSUME NEW T, T \subseteq Nat, FirstOf(T) # 0
  PROVE  FirstOf(T) \in T
  <1>1. T # {}
    BY DEF FirstOf
  <1>2. QED  BY <1>1, MinOfSome DEF FirstOf

\* Where a reply was read: the three markers, each on a line of its own.
ReadAt(id, s, b, e, n) ==
  /\ b < e /\ e < n
  /\ s[b] = Tok("BEG", id) /\ s[b + 1] = Newline
  /\ s[e] = Tok("ERR", id) /\ s[e - 1] = Newline
  /\ s[n] = Tok("END", id) /\ s[n - 1] = Newline
  /\ Finished(s, n)
  /\ StatusAt(s, n) # <<>>
  /\ parseReply(id, s) = [kind |-> "reply",
                          status |-> StatusAt(s, n),
                          stdout |-> SubSeq(s, b + 2, e - 2),
                          stderr |-> SubSeq(s, e + 2, n - 2)]

LEMMA ReplyRead ==
  ASSUME NEW s \in Seq(Tokens), NEW id \in Nat, parseReply(id, s).kind = "reply"
  PROVE  \E b, e, n \in 1..Len(s) : ReadAt(id, s, b, e, n)
  <1> DEFINE b == FirstOf(MarkerLines(s, "BEG", id))
             e == FirstOf(MarkerLines(s, "ERR", id))
             n == FirstOf(LinesOf(s, "END", id))
  <1>1. /\ MarkerLines(s, "BEG", id) \subseteq Nat /\ MarkerLines(s, "ERR", id) \subseteq Nat
        /\ LinesOf(s, "END", id) \subseteq Nat
    BY DEF MarkerLines, LinesOf
  <1>2. /\ b \in Nat /\ e \in Nat /\ n \in Nat
    BY <1>1, FirstOfSome
  <1>3. ~(b = 0 \/ e < b \/ n < e) /\ StatusAt(s, n) # <<>>
    BY DEF parseReply, NotYet, Unreadable
  <1>4. parseReply(id, s) = [kind |-> "reply",
                             status |-> StatusAt(s, n),
                             stdout |-> SubSeq(s, b + 2, e - 2),
                             stderr |-> SubSeq(s, e + 2, n - 2)]
    BY <1>3 DEF parseReply
  <1>5. b # 0 /\ e # 0 /\ n # 0
    BY <1>2, <1>3
  <1>6. b \in MarkerLines(s, "BEG", id) /\ e \in MarkerLines(s, "ERR", id) /\ n \in LinesOf(s, "END", id)
    BY <1>1, <1>5, FirstOfSome
  <1> HIDE DEF b, e, n
  <1>7. /\ b \in 1..Len(s) /\ s[b] = Tok("BEG", id) /\ s[b + 1] = Newline
        /\ e \in 1..Len(s) /\ s[e] = Tok("ERR", id) /\ (e = 1 \/ s[e - 1] = Newline)
        /\ n \in 1..Len(s) /\ s[n] = Tok("END", id) /\ (n = 1 \/ s[n - 1] = Newline)
        /\ Finished(s, n)
    BY <1>6 DEF MarkerLines, LinesOf, StartsLine
  <1>8. b # e /\ e # n
    BY <1>7 DEF Tok
  <1>9. b < e /\ e < n
    BY <1>2, <1>3, <1>8
  <1>10. e # 1 /\ n # 1
    BY <1>7, <1>9
  <1>11. ReadAt(id, s, b, e, n)
    BY <1>3, <1>4, <1>7, <1>9, <1>10 DEF ReadAt
  <1>12. QED  BY <1>7, <1>11

LEMMA StatusRead ==
  ASSUME NEW s \in Seq(Tokens), NEW n \in 1..Len(s), StatusAt(s, n) # <<>>
  PROVE  \E k \in Nat :
           /\ k >= 1 /\ n + k <= Len(s)
           /\ \A i \in 1..k : s[n + i].what = "digit"
           /\ StatusAt(s, n) = [i \in 1..k |-> s[n + i].id]
  <1> DEFINE stops == {q \in (n + 1)..Len(s) : s[q].what # "digit"} \cup {Len(s) + 1}
             k == Min(stops) - n - 1
  <1>1. Len(s) \in Nat
    OBVIOUS
  <1>2. stops \subseteq Nat /\ stops # {} /\ Len(s) + 1 \in stops /\ \A q \in stops : q > n
    BY <1>1
  <1>3. Min(stops) \in stops /\ \A q \in stops : Min(stops) <= q
    <2> HIDE DEF stops
    <2>1. QED  BY <1>2, MinOfSome
  <1>4. k \in Nat /\ n + k <= Len(s)
    <2> HIDE DEF stops
    <2>1. Min(stops) \in Nat /\ Min(stops) > n /\ Min(stops) <= Len(s) + 1
      BY <1>2, <1>3
    <2>2. QED  BY <2>1, <1>1
  <1>5. StatusAt(s, n) = [i \in 1..k |-> s[n + i].id]
    BY DEF StatusAt
  <1>6. k # 0
    <2>1. ASSUME k = 0 PROVE FALSE
      <3> HIDE DEF stops, k
      <3>1. 1..k = {}
        BY <2>1
      <3>2. [i \in 1..k |-> s[n + i].id] = <<>>
        BY <3>1
      <3>3. QED  BY <3>2, <1>5
    <2>2. QED  BY <2>1
  <1>7. ASSUME NEW i \in 1..k PROVE s[n + i].what = "digit"
    <2>1. n + i < Min(stops) /\ n + i \in (n + 1)..Len(s)
      <3> HIDE DEF stops
      <3>1. Min(stops) \in Nat
        BY <1>2, <1>3
      <3>2. QED  BY <3>1, <1>1, <1>4, <1>7
    <2>2. n + i \notin stops
      <3>1. Min(stops) \in Nat
        <4> HIDE DEF stops
        <4>1. QED  BY <1>2, <1>3
      <3> HIDE DEF stops
      <3>2. QED  BY <3>1, <2>1, <1>3
    <2>3. QED  BY <2>1, <2>2
  <1> HIDE DEF k
  <1>8. QED  BY <1>4, <1>5, <1>6, <1>7

\* The status that is read is a success just when the command's is.
LEMMA VerdictRead ==
  ASSUME NEW of, NEW s \in Seq(Tokens), NEW c \in Seq(Tokens), NEW id \in Nat,
         NEW n \in 1..Len(s), s[n] = Tok("END", id), StatusAt(s, n) # <<>>,
         of[id].status \in Seq(0..9),
         of[id].status # <<>>,
         of[id].status[1] = 0 => of[id].status = << 0 >>,
         StatusFollows(s \o c, of)
  PROVE  /\ StatusAt(s, n) \in Seq(0..9)
         /\ StatusAt(s, n) = << 0 >> <=> of[id].status = << 0 >>
  <1> DEFINE L == s \o c
  <1>1. PICK k \in Nat : /\ k >= 1 /\ n + k <= Len(s)
                         /\ \A i \in 1..k : s[n + i].what = "digit"
                         /\ StatusAt(s, n) = [i \in 1..k |-> s[n + i].id]
    BY StatusRead
  <1>2. Len(s) \in Nat /\ Len(L) >= Len(s) /\ \A i \in 1..Len(s) : L[i] = s[i]
    BY Joined
  <1> HIDE DEF L
  <1>3. ASSUME NEW i \in 1..k PROVE n + i \in 1..Len(s) /\ s[n + i] \in Tokens /\ s[n + i].id \in 0..9
    <2>1. n + i \in 1..Len(s)
      BY <1>1, <1>2
    <2>2. s[n + i] \in Tokens
      BY <2>1
    <2>4. s[n + i].what = "digit"
      BY <1>1
    <2>5. QED  BY <2>1, <2>2, <2>4 DEF Tokens, TokenKinds
  <1>4. StatusAt(s, n) \in Seq(0..9) /\ Len(StatusAt(s, n)) = k
    <2> DEFINE f == [i \in 1..k |-> s[n + i].id]
    <2>1. f \in [1..k -> 0..9]
      BY <1>3
    <2> HIDE DEF f
    <2>2. f \in Seq(0..9) /\ Len(f) = k
      BY <2>1
    <2>3. StatusAt(s, n) = f
      BY <1>1 DEF f
    <2>4. QED  BY <2>2, <2>3
  <1>5. /\ n \in 1..Len(L) /\ L[n].what = "END" /\ L[n].id = id
    BY <1>2 DEF Tok
  <1>6. /\ L[n + 1].what = "digit" => L[n + 1].id = of[id].status[1]
        /\ L[n + 1] = Tok("digit", 0) => n + 2 \in 1..Len(L) /\ L[n + 2].what # "digit"
    <2>1. StatusFollows(L, of)
      BY DEF L
    <2>2. QED  BY <2>1, <1>5 DEF StatusFollows
  <1>7. 1 \in 1..k /\ L[n + 1] = s[n + 1] /\ s[n + 1].what = "digit"
    BY <1>1, <1>2, <1>3
  <1>8. s[n + 1].id = of[id].status[1]
    BY <1>6, <1>7
  <1>9. StatusAt(s, n)[1] = s[n + 1].id
    BY <1>1, <1>7
  <1>10. ASSUME StatusAt(s, n) = << 0 >> PROVE of[id].status = << 0 >>
    <2>1. StatusAt(s, n)[1] = 0
      BY <1>10
    <2>2. QED  BY <2>1, <1>8, <1>9
  <1>11. ASSUME of[id].status = << 0 >> PROVE StatusAt(s, n) = << 0 >>
    <2>1. s[n + 1].id = 0
      BY <1>11, <1>8
    <2>2. s[n + 1] = Tok("digit", 0)
      BY <2>1, <1>3, <1>7 DEF Tok, Tokens
    <2>3. L[n + 2].what # "digit"
      BY <2>2, <1>6, <1>7
    <2>4. k = 1
      <3>1. ASSUME k >= 2 PROVE FALSE
        <4>1. 2 \in 1..k
          BY <3>1
        <4>2. s[n + 2].what = "digit" /\ n + 2 \in 1..Len(s)
          BY <4>1, <1>1, <1>3
        <4>3. QED  BY <4>2, <2>3, <1>2
      <3>2. QED  BY <3>1, <1>1
    <2>5. Len(StatusAt(s, n)) = 1 /\ StatusAt(s, n)[1] = 0
      BY <2>1, <2>4, <1>4, <1>9
    <2>6. << 0 >> \in Seq(0..9) /\ Len(<< 0 >>) = 1 /\ << 0 >>[1] = 0
      OBVIOUS
    <2>7. QED  BY <2>5, <2>6, <1>4, SeqEqual
  <1>12. QED  BY <1>4, <1>10, <1>11

\* Output that is the call's own, all of it.
OwnOutput(id, stdout, stderr) ==
  /\ stdout \in Seq(Tokens) /\ stderr \in Seq(Tokens)
  /\ \E i \in DOMAIN stdout : stdout[i] = Out(id)
  /\ \A i \in DOMAIN stdout :
       stdout[i].what \in {"stdout", "stderr"} => stdout[i] = Out(id)
  /\ \A i \in DOMAIN stderr :
       stderr[i].what \in {"stdout", "stderr"} => stderr[i] = Err(id)

\* What is read between the markers is just that.
LEMMA OutputRead ==
  ASSUME NEW of, NEW s \in Seq(Tokens), NEW c \in Seq(Tokens), NEW id \in Nat,
         NEW b \in 1..Len(s), NEW e \in 1..Len(s), NEW n \in 1..Len(s),
         ReadAt(id, s, b, e, n), Good(s \o c, of)
  PROVE  OwnOutput(id, SubSeq(s, b + 2, e - 2), SubSeq(s, e + 2, n - 2))
  <1> DEFINE L == s \o c
             stdout == SubSeq(s, b + 2, e - 2)
             stderr == SubSeq(s, e + 2, n - 2)
  <1>1. Len(s) \in Nat /\ Len(L) >= Len(s) /\ Len(L) \in Nat /\ \A i \in 1..Len(s) : L[i] = s[i]
    BY Joined
  <1>2. Ordered(L) /\ OutputFollows(L)
    BY DEF Good
  <1> HIDE DEF L
  <1>3. /\ b < e /\ e < n
        /\ s[b] = Tok("BEG", id) /\ s[b + 1] = Newline
        /\ s[e] = Tok("ERR", id) /\ s[e - 1] = Newline
        /\ s[n] = Tok("END", id)
    BY DEF ReadAt
  <1>4. ASSUME NEW i \in 1..Len(s), NEW j \in 1..Len(s), i < j, Owned(s[i]), Owned(s[j])
        PROVE  Before(s[i], s[j])
    <2>1. i \in 1..Len(L) /\ j \in 1..Len(L) /\ L[i] = s[i] /\ L[j] = s[j]
      BY <1>1
    <2>2. QED  BY <2>1, <1>2, <1>4 DEF Ordered
  <1>5. Owned(s[b]) /\ Owned(s[e]) /\ Owned(s[n])
    BY <1>3 DEF Owned, Tok
  <1>6. \A i \in 1..Len(s) : s[i] \in Tokens /\ s[i].id \in Nat
    <2>1. TAKE i \in 1..Len(s)
    <2>2. s[i] \in Tokens
      OBVIOUS
    <2>3. QED  BY <2>2, SMTT(30) DEF Tokens
  <1>7. /\ stdout \in Seq(Tokens)
        /\ \A i \in DOMAIN stdout : /\ stdout[i] = s[b + 1 + i]
                                    /\ b + 1 + i \in (b + 2)..(e - 2)
    <2>1. \A i \in (b + 2)..(e - 2) : s[i] \in Tokens
      BY <1>1, <1>6
    <2>2. /\ stdout \in Seq(Tokens)
          /\ Len(stdout) = IF b + 2 <= e - 2 THEN (e - 2) - (b + 2) + 1 ELSE 0
          /\ \A i \in 1..(e - 2) - (b + 2) + 1 : stdout[i] = s[(b + 2) + i - 1]
      <3>1. b + 2 \in Int /\ e - 2 \in Int
        OBVIOUS
      <3>2. QED  BY <2>1, <3>1, SubSeqProperties
    <2> HIDE DEF stdout
    <2>3. DOMAIN stdout = 1..Len(stdout)
      BY <2>2
    <2>4. ASSUME NEW i \in 1..Len(stdout)
          PROVE  stdout[i] = s[b + 1 + i] /\ b + 1 + i \in (b + 2)..(e - 2)
      <3>1. i \in 1..(e - 2) - (b + 2) + 1
        BY <2>2
      <3>2. (b + 2) + i - 1 = b + 1 + i /\ b + 1 + i \in (b + 2)..(e - 2)
        BY <3>1
      <3>3. QED  BY <3>1, <3>2, <2>2
    <2>5. QED  BY <2>2, <2>3, <2>4
  <1>8. /\ stderr \in Seq(Tokens)
        /\ \A i \in DOMAIN stderr : /\ stderr[i] = s[e + 1 + i]
                                    /\ e + 1 + i \in (e + 2)..(n - 2)
    <2>1. \A i \in (e + 2)..(n - 2) : s[i] \in Tokens
      BY <1>1, <1>6
    <2>2. /\ stderr \in Seq(Tokens)
          /\ Len(stderr) = IF e + 2 <= n - 2 THEN (n - 2) - (e + 2) + 1 ELSE 0
          /\ \A i \in 1..(n - 2) - (e + 2) + 1 : stderr[i] = s[(e + 2) + i - 1]
      <3>1. e + 2 \in Int /\ n - 2 \in Int
        OBVIOUS
      <3>2. QED  BY <2>1, <3>1, SubSeqProperties
    <2> HIDE DEF stderr
    <2>3. DOMAIN stderr = 1..Len(stderr)
      BY <2>2
    <2>4. ASSUME NEW i \in 1..Len(stderr)
          PROVE  stderr[i] = s[e + 1 + i] /\ e + 1 + i \in (e + 2)..(n - 2)
      <3>1. i \in 1..(n - 2) - (e + 2) + 1
        BY <2>2
      <3>2. (e + 2) + i - 1 = e + 1 + i /\ e + 1 + i \in (e + 2)..(n - 2)
        BY <3>1
      <3>3. QED  BY <3>1, <3>2, <2>2
    <2>5. QED  BY <2>2, <2>3, <2>4
  <1>9. \E i \in DOMAIN stdout : stdout[i] = Out(id)
    <2>1. b \in 1..Len(L) /\ L[b].what = "BEG" /\ L[b].id = id
      BY <1>1, <1>3 DEF Tok
    <2>2. PICK q \in (b + 1)..Len(L) : L[q] = Out(id)
      BY <2>1, <1>2 DEF OutputFollows
    <2>3. q < e
      <3>1. ASSUME q >= e PROVE FALSE
        <4>1. e \in 1..Len(L) /\ L[e] = Tok("ERR", id) /\ Owned(L[e]) /\ Owned(L[q]) /\ q \in 1..Len(L)
          BY <1>1, <1>3, <1>5, <2>2 DEF Owned, Out, Tok
        <4>2. q # e
          BY <4>1, <2>2 DEF Out, Tok
        <4>3. Before(L[e], L[q])
          BY <4>1, <4>2, <3>1, <1>2 DEF Ordered
        <4>4. QED  BY <4>1, <4>3, <2>2 DEF Before, Rank, Out, Tok
      <3>2. QED  BY <3>1
    <2>4. q \in 1..Len(s) /\ s[q] = Out(id)
      BY <2>2, <2>3, <1>1
    <2>5. q # b + 1 /\ q # e - 1
      BY <2>4, <1>3 DEF Out, Tok, Newline
    <2>6. q \in (b + 2)..(e - 2)
      BY <2>2, <2>3, <2>5
    <2>7. q - b - 1 \in 1..((e - 2) - (b + 2) + 1) /\ b + 1 + (q - b - 1) = q
      BY <2>6
    <2>8. DOMAIN stdout = 1..((e - 2) - (b + 2) + 1)
      <3>1. b + 2 <= e - 2
        BY <2>6
      <3>2. \A i \in (b + 2)..(e - 2) : s[i] \in Tokens
        BY <1>1, <1>6
      <3>3. b + 2 \in Int /\ e - 2 \in Int
        OBVIOUS
      <3>4. Len(stdout) = (e - 2) - (b + 2) + 1
        BY <3>1, <3>2, <3>3, SubSeqProperties
      <3> HIDE DEF stdout
      <3>5. QED  BY <3>4, <1>7
    <2> HIDE DEF stdout
    <2>9. stdout[q - b - 1] = Out(id)
      BY <2>4, <2>7, <2>8, <1>7
    <2>10. QED  BY <2>7, <2>8, <2>9
  <1> HIDE DEF stdout, stderr
  <1>10. ASSUME NEW i \in DOMAIN stdout, stdout[i].what \in {"stdout", "stderr"}
         PROVE  stdout[i] = Out(id)
    <2>1. PICK p \in 1..Len(s) : stdout[i] = s[p] /\ b < p /\ p < e
      <3>1. b + 1 + i \in (b + 2)..(e - 2) /\ stdout[i] = s[b + 1 + i]
        BY <1>7
      <3>2. \A p \in (b + 2)..(e - 2) : p \in 1..Len(s) /\ b < p /\ p < e
        BY <1>1
      <3>3. QED  BY <3>1, <3>2
    <2>2. Owned(s[p])
      BY <2>1, <1>10 DEF Owned
    <2>3. Before(Tok("BEG", id), s[p]) /\ Before(s[p], Tok("ERR", id))
      BY <2>1, <2>2, <1>3, <1>4, <1>5
    <2>4. s[p].id \in Nat /\ s[p] \in Tokens
      BY <1>6
    <2>5. s[p].id = id
      BY <2>3, <2>4 DEF Before, Tok
    <2>6. s[p].what # "stderr"
      BY <2>3, <2>5 DEF Before, Rank, Tok
    <2>7. QED  BY <2>1, <2>4, <2>5, <2>6, <1>10 DEF Tokens, Out, Tok
  <1>11. ASSUME NEW i \in DOMAIN stderr, stderr[i].what \in {"stdout", "stderr"}
         PROVE  stderr[i] = Err(id)
    <2>1. PICK p \in 1..Len(s) : stderr[i] = s[p] /\ e < p /\ p < n
      <3>1. e + 1 + i \in (e + 2)..(n - 2) /\ stderr[i] = s[e + 1 + i]
        BY <1>8
      <3>2. \A p \in (e + 2)..(n - 2) : p \in 1..Len(s) /\ e < p /\ p < n
        BY <1>1
      <3>3. QED  BY <3>1, <3>2
    <2>2. Owned(s[p])
      BY <2>1, <1>11 DEF Owned
    <2>3. Before(Tok("ERR", id), s[p]) /\ Before(s[p], Tok("END", id))
      BY <2>1, <2>2, <1>3, <1>4, <1>5
    <2>4. s[p].id \in Nat /\ s[p] \in Tokens
      BY <1>6
    <2>5. s[p].id = id
      BY <2>3, <2>4 DEF Before, Tok
    <2>6. s[p].what # "stdout"
      BY <2>3, <2>5 DEF Before, Rank, Tok
    <2>7. QED  BY <2>1, <2>4, <2>5, <2>6, <1>11 DEF Tokens, Err, Tok
  <1>12. OwnOutput(id, stdout, stderr)
    BY <1>7, <1>8, <1>9, <1>10, <1>11 DEF OwnOutput
  <1>13. QED  BY <1>12 DEF stdout, stderr

-----------------------------------------------------------------------------
(* The invariant.                                                          *)

\* How many commands have been typed.
Sent == Len(outcome) - Len(queue)

\* Commands are sent in the order they were asked for, and only the last one
\* sent can be in flight.
QueueInv ==
  /\ Len(queue) <= Len(outcome)
  /\ \A i \in 1..Len(queue) : queue[i] = Sent + i
  /\ waiting \in {0, Sent}
  /\ \A id \in Calls : outcome[id] = Pending <=> (waiting = id \/ id > Sent)

\* The shell runs them in that order, however late.
ShellInv ==
  /\ shell <= Sent /\ shell \notin ran
  /\ \A j \in ran : j <= Sent /\ (shell # 0 => j < shell)
  /\ \A i \in 1..Len(typed) :
       typed[i] <= Sent /\ shell < typed[i] /\ \A j \in ran : j < typed[i]
  /\ \A i, k \in 1..Len(typed) : i < k => typed[i] < typed[k]

\* What the shell can have printed.
Printed ==
  {t \in Tokens : \/ t.id \in ran
                  \/ t.id = shell /\ shell # 0 /\ t.what \in {"BEG", "stdout"}}

LineInv ==
  /\ waiting = 0 => stream = <<>>
  /\ Good(Line, cmd)
  /\ Belongs(Line, Printed)

ReplyInv == NoFalseVerdict /\ OwnOutputOnly

GInv == TypeOK /\ QueueInv /\ ShellInv /\ LineInv /\ ReplyInv

LEMMA EmptyIsGood ==
  ASSUME NEW of
  PROVE  Good(<<>>, of) /\ Belongs(<<>>, {})
  BY DEF Good, Ordered, OutputFollows, StatusFollows, Belongs

LEMMA InitG == Init => GInv
  <1> SUFFICES ASSUME Init PROVE GInv
    OBVIOUS
  <1>1. /\ cmd = <<>> /\ outcome = <<>> /\ queue = <<>> /\ waiting = 0 /\ stream = <<>>
        /\ typed = <<>> /\ shell = 0 /\ ran = {} /\ wire = <<>> /\ noise = MaxNoise
    BY DEF Init
  <1>2. Len(outcome) = 0 /\ Len(queue) = 0 /\ Len(cmd) = 0 /\ Len(typed) = 0
    BY <1>1
  <1>3. TypeOK
    <2>1. Calls = {}
      BY <1>2 DEF Calls
    <2>2. noise \in 0..MaxNoise
      BY <1>1, GuestAssumption
    <2>3. /\ cmd \in Seq(Commands) /\ queue \in Seq(Calls) /\ stream \in Seq(Tokens)
          /\ typed \in Seq(Calls) /\ wire \in Seq(Tokens)
      BY <1>1
    <2>4. QED  BY <1>1, <1>2, <2>1, <2>2, <2>3 DEF TypeOK
  <1>4. QueueInv
    BY <1>1, <1>2 DEF QueueInv, Sent, Calls
  <1>5. ShellInv
    BY <1>1, <1>2 DEF ShellInv, Sent
  <1>6. LineInv
    <2>1. Line = <<>>
      BY <1>1 DEF Line
    <2>2. Good(<<>>, cmd) /\ Belongs(<<>>, Printed)
      BY EmptyIsGood DEF Belongs
    <2>3. QED  BY <1>1, <2>1, <2>2 DEF LineInv
  <1>7. ReplyInv
    BY <1>2 DEF ReplyInv, NoFalseVerdict, OwnOutputOnly, Calls
  <1>8. QED  BY <1>3, <1>4, <1>5, <1>6, <1>7 DEF GInv

\* A status that a command may have.
LEMMA StatusOf ==
  ASSUME TypeOK, NEW id \in Calls
  PROVE  /\ cmd[id] \in Commands
         /\ cmd[id].status \in Seq(0..9) /\ cmd[id].status # <<>>
         /\ cmd[id].status[1] = 0 => cmd[id].status = << 0 >>
  <1>1. cmd[id] \in Commands
    BY DEF TypeOK, Calls
  <1>2. QED  BY <1>1, GuestAssumption

LEMMA PartsTyped ==
  ASSUME TypeOK, NEW id \in Calls
  PROVE  /\ BegPart(id) \in Seq(Tokens) /\ ErrPart(id) \in Seq(Tokens)
         /\ StderrPart(id) \in {<<>>, <<Err(id)>>} /\ StderrPart(id) \in Seq(Tokens)
         /\ EndPart(id, cmd[id].status) \in Seq(Tokens)
         /\ <<Out(id)>> \in Seq(Tokens)
         /\ EchoPart \in Seq(Tokens) /\ <<Console, Newline>> \in Seq(Tokens)
         /\ <<Torn, Console, Newline, Torn>> \in Seq(Tokens)
  <1>1. id \in Nat
    BY DEF Calls
  <1>2. BegPart(id) \in Seq(Tokens)
    BY <1>1, TokensOf DEF BegPart, Marker
  <1>3. ErrPart(id) \in Seq(Tokens)
    BY <1>1, ErrPartGood
  <1>4. StderrPart(id) \in {<<>>, <<Err(id)>>}
    BY DEF StderrPart
  <1>5. StderrPart(id) \in Seq(Tokens)
    BY <1>1, <1>4, StderrGood
  <1>6. EndPart(id, cmd[id].status) \in Seq(Tokens)
    BY <1>1, StatusOf, EndPartGood
  <1>7. <<Out(id)>> \in Seq(Tokens) /\ <<Console, Newline>> \in Seq(Tokens)
        /\ <<Torn, Console, Newline, Torn>> \in Seq(Tokens)
    BY <1>1, TokensOf
  <1>8. EchoPart \in Seq(Tokens)
    BY <1>1, TokensOf DEF EchoPart
  <1>9. QED  BY <1>2, <1>3, <1>4, <1>5, <1>6, <1>7, <1>8

\* What parseReply makes of the part that has arrived.
LEMMA ReplyOfCall ==
  ASSUME TypeOK, LineInv, waiting \in Calls, wire # <<>>,
         NEW reply, reply = parseReply(waiting, Append(stream, Head(wire))),
         reply.kind = "reply"
  PROVE  /\ reply.status \in Seq(0..9)
         /\ reply.status = << 0 >> <=> cmd[waiting].status = << 0 >>
         /\ OwnOutput(waiting, reply.stdout, reply.stderr)
         /\ waiting \in ran
  <1>1. PICK s : s = Append(stream, Head(wire))
    OBVIOUS
  <1>2. PICK c : c = Tail(wire)
    OBVIOUS
  <1>3. PICK id : id = waiting
    OBVIOUS
  <1>4. /\ stream \in Seq(Tokens) /\ wire \in Seq(Tokens) /\ s \in Seq(Tokens) /\ c \in Seq(Tokens)
        /\ id \in Nat /\ id \in Calls
    BY <1>1, <1>2, <1>3 DEF TypeOK, Calls
  <1>5. s \o c = Line
    <2>1. Head(wire) \in Tokens /\ wire = <<Head(wire)>> \o c
      BY <1>2, <1>4
    <2>2. s = stream \o <<Head(wire)>> /\ <<Head(wire)>> \in Seq(Tokens)
      BY <1>1, <1>4, <2>1
    <2>3. (stream \o <<Head(wire)>>) \o c = stream \o (<<Head(wire)>> \o c)
      BY <1>4, <2>2, ConcatAssociative
    <2>4. QED  BY <2>1, <2>2, <2>3 DEF Line
  <1>6. Good(s \o c, cmd) /\ Belongs(s \o c, Printed)
    BY <1>5 DEF LineInv
  <1>7. parseReply(id, s).kind = "reply" /\ reply = parseReply(id, s)
    BY <1>1, <1>3
  <1>8. PICK b, e, n \in 1..Len(s) : ReadAt(id, s, b, e, n)
    BY <1>4, <1>7, ReplyRead
  <1>9. reply = [kind |-> "reply",
                 status |-> StatusAt(s, n),
                 stdout |-> SubSeq(s, b + 2, e - 2),
                 stderr |-> SubSeq(s, e + 2, n - 2)]
        /\ s[n] = Tok("END", id) /\ StatusAt(s, n) # <<>>
    BY <1>7, <1>8 DEF ReadAt
  <1>10. /\ StatusAt(s, n) \in Seq(0..9)
         /\ StatusAt(s, n) = << 0 >> <=> cmd[id].status = << 0 >>
    <2>1. /\ cmd[id].status \in Seq(0..9) /\ cmd[id].status # <<>>
          /\ cmd[id].status[1] = 0 => cmd[id].status = << 0 >>
      BY <1>4, StatusOf
    <2>2. StatusFollows(s \o c, cmd)
      BY <1>6 DEF Good
    <2>3. QED  BY <1>4, <1>9, <2>1, <2>2, VerdictRead
  <1>11. OwnOutput(id, SubSeq(s, b + 2, e - 2), SubSeq(s, e + 2, n - 2))
    BY <1>4, <1>6, <1>8, OutputRead
  <1>12. id \in ran
    <2>1. n \in 1..Len(s \o c) /\ (s \o c)[n] = s[n]
      BY <1>4, Joined
    <2>2. Owned((s \o c)[n])
      BY <2>1, <1>9 DEF Owned, Tok
    <2>3. Tok("END", id) \in Printed
      BY <2>1, <2>2, <1>6, <1>9 DEF Belongs
    <2>4. QED  BY <2>3 DEF Printed, Tok
  <1>13. /\ reply.status = StatusAt(s, n) /\ reply.stdout = SubSeq(s, b + 2, e - 2)
         /\ reply.stderr = SubSeq(s, e + 2, n - 2)
    BY <1>9
  <1>14. QED  BY <1>3, <1>10, <1>11, <1>12, <1>13

-----------------------------------------------------------------------------
(* Every action preserves the invariant.                                   *)

LEMMA Typed ==
  ASSUME TypeOK
  PROVE  /\ stream \in Seq(Tokens) /\ wire \in Seq(Tokens) /\ Line \in Seq(Tokens)
         /\ Len(outcome) \in Nat /\ Len(queue) \in Nat /\ Sent \in Int
         /\ DOMAIN outcome = Calls
         /\ \A id \in Calls : outcome[id] \in Outcomes
  BY DEF TypeOK, Line, Calls, Sent

\* Of the commands, a line depends only on those whose status it carries.
LEMMA GoodOf ==
  ASSUME NEW s \in Seq(Tokens), NEW of, NEW to, NEW T,
         Good(s, of), Belongs(s, T),
         \A t \in T : of[t.id] = to[t.id]
  PROVE  Good(s, to)
  <1>1. ASSUME NEW p \in 1..Len(s), s[p].what = "END"
        PROVE  of[s[p].id] = to[s[p].id]
    BY <1>1 DEF Belongs, Owned
  <1>2. StatusFollows(s, to)
    BY <1>1 DEF Good, StatusFollows
  <1>3. QED  BY <1>2 DEF Good

LEMMA RunG ==
  ASSUME GInv, NEW c \in Commands, Run(c)
  PROVE  GInv'
  <1>1. /\ cmd' = Append(cmd, c) /\ outcome' = Append(outcome, Pending)
        /\ queue' = Append(queue, Len(outcome) + 1)
        /\ UNCHANGED <<waiting, stream, typed, shell, ran, wire, noise>>
    BY DEF Run, guestVars
  <1>2. PICK n \in Nat : n = Len(outcome)
    BY DEF GInv, TypeOK
  <1>3. /\ outcome \in Seq(Outcomes) /\ outcome' \in Seq(Outcomes) /\ Len(outcome') = n + 1
        /\ \A id \in 1..n : outcome'[id] = outcome[id]
        /\ outcome'[n + 1] = Pending
    <2>1. outcome \in Seq(Outcomes) /\ Pending \in Outcomes
      BY DEF GInv, TypeOK, Outcomes
    <2>2. QED  BY <1>1, <1>2, <2>1, AppendProperties
  <1>4. /\ cmd' \in Seq(Commands) /\ Len(cmd') = n + 1
        /\ \A id \in 1..n : cmd'[id] = cmd[id]
    <2>1. cmd \in Seq(Commands) /\ Len(cmd) = n
      BY <1>2 DEF GInv, TypeOK
    <2>2. QED  BY <1>1, <2>1, AppendProperties
  <1>5. Calls = 1..n /\ Calls' = 1..(n + 1) /\ Calls \subseteq Calls'
    BY <1>2, <1>3 DEF Calls
  <1>6. PICK m \in Nat : m = Len(queue)
    BY DEF GInv, TypeOK
  <1>7. /\ queue' \in Seq(Calls') /\ Len(queue') = m + 1
        /\ \A i \in 1..m : queue'[i] = queue[i]
        /\ queue'[m + 1] = n + 1
    <2>1. queue \in Seq(Calls') /\ n + 1 \in Calls'
      BY <1>5, SeqMonotonic DEF GInv, TypeOK
    <2>2. QED  BY <1>1, <1>2, <1>6, <2>1, AppendProperties
  <1>8. TypeOK'
    <2>1. typed' \in Seq(Calls')
      BY <1>1, <1>5, SeqMonotonic DEF GInv, TypeOK
    <2>2. /\ waiting' \in Calls' \cup {0} /\ shell' \in Calls' \cup {0} /\ ran' \subseteq Calls'
          /\ stream' \in Seq(Tokens) /\ wire' \in Seq(Tokens) /\ noise' \in 0..MaxNoise
      BY <1>1, <1>5 DEF GInv, TypeOK
    <2>3. QED  BY <1>3, <1>4, <1>7, <2>1, <2>2 DEF TypeOK
  <1>9. Sent = n - m /\ Sent' = n - m /\ m <= n
    BY <1>2, <1>3, <1>6, <1>7 DEF Sent, GInv, QueueInv
  <1>10. QueueInv'
    <2>1. \A i \in 1..Len(queue') : queue'[i] = Sent' + i
      <3>1. ASSUME NEW i \in 1..(m + 1) PROVE queue'[i] = Sent' + i
        <4>1. CASE i = m + 1
          BY <4>1, <1>7, <1>9
        <4>2. CASE i \in 1..m
          BY <4>2, <1>6, <1>7, <1>9 DEF GInv, QueueInv
        <4>3. QED  BY <4>1, <4>2
      <3>2. QED  BY <3>1, <1>7
    <2>2. waiting' \in {0, Sent'}
      BY <1>1, <1>9 DEF GInv, QueueInv
    <2>3. ASSUME NEW id \in Calls'
          PROVE  outcome'[id] = Pending <=> (waiting' = id \/ id > Sent')
      <3>1. CASE id = n + 1
        BY <3>1, <1>3, <1>9
      <3>2. CASE id \in 1..n
        <4>1. outcome[id] = Pending <=> (waiting = id \/ id > Sent)
          BY <3>2, <1>5 DEF GInv, QueueInv
        <4>2. QED  BY <4>1, <3>2, <1>1, <1>3, <1>9
      <3>3. QED  BY <3>1, <3>2, <1>5
    <2>4. Len(queue') <= Len(outcome')
      BY <1>3, <1>7, <1>9
    <2>5. QED  BY <2>1, <2>2, <2>3, <2>4 DEF QueueInv
  <1>11. ShellInv'
    BY <1>1, <1>9 DEF GInv, ShellInv
  <1>12. LineInv'
    <2>1. Line' = Line /\ Printed' = Printed /\ Line \in Seq(Tokens)
      BY <1>1, Typed DEF Line, Printed, GInv
    <2>2. \A t \in Printed : t.id \in 1..n
      BY <1>5 DEF Printed, GInv, TypeOK
    <2>3. \A t \in Printed : cmd[t.id] = cmd'[t.id]
      BY <2>2, <1>4
    <2>4. Good(Line, cmd) /\ Belongs(Line, Printed)
      BY DEF GInv, LineInv
    <2>5. Good(Line, cmd')
      <3>1. PICK to : to = cmd'
        OBVIOUS
      <3>2. QED  BY <3>1, <2>1, <2>3, <2>4, GoodOf
    <2>6. waiting' = 0 => stream' = <<>>
      BY <1>1 DEF GInv, LineInv
    <2>7. QED  BY <2>1, <2>4, <2>5, <2>6 DEF LineInv
  <1>13. ReplyInv'
    <2>1. ASSUME NEW id \in Calls', Replies(id)'
          PROVE  id \in Calls /\ Replies(id) /\ outcome'[id] = outcome[id] /\ cmd'[id] = cmd[id]
      <3>1. outcome'[id] # Pending
        BY <2>1 DEF Replies, Pending
      <3>2. id \in 1..n
        BY <3>1, <1>3, <1>5
      <3>3. QED  BY <3>2, <2>1, <1>3, <1>4, <1>5 DEF Replies
    <2>2. QED  BY <2>1 DEF GInv, ReplyInv, NoFalseVerdict, OwnOutputOnly
  <1>14. QED  BY <1>8, <1>10, <1>11, <1>12, <1>13 DEF GInv

LEMMA BelongsSplice ==
  ASSUME NEW T, NEW a \in Seq(Tokens), NEW x \in Seq(Tokens), NEW y \in Seq(Tokens),
         NEW c \in Seq(Tokens),
         \A i \in 1..Len(x) : ~Owned(x[i]),
         Belongs(a \o (y \o c), T)
  PROVE  Belongs(a \o (x \o c), T)
  <1> DEFINE L == a \o (y \o c)
             M == a \o (x \o c)
  <1>1. /\ Len(M) = Len(a) + Len(x) + Len(c) /\ Len(L) = Len(a) + Len(y) + Len(c)
        /\ Len(a) \in Nat /\ Len(x) \in Nat /\ Len(y) \in Nat /\ Len(c) \in Nat
    OBVIOUS
  <1>2. \A i \in 1..Len(a) : L[i] = a[i] /\ M[i] = a[i]
    BY Parts
  <1>3. \A i \in 1..Len(c) :
           L[Len(a) + Len(y) + i] = c[i] /\ M[Len(a) + Len(x) + i] = c[i]
    BY Parts
  <1>4. \A i \in 1..Len(x) : M[Len(a) + i] = x[i]
    BY Parts
  <1> HIDE DEF L, M
  <1>5. Belongs(L, T)
    BY DEF L
  <1>6. ASSUME NEW p \in 1..Len(M), Owned(M[p]) PROVE M[p] \in T
    <2>1. CASE p <= Len(a)
      <3>1. p \in 1..Len(L) /\ L[p] = M[p]
        BY <2>1, <1>1, <1>2
      <3>2. QED  BY <3>1, <1>5, <1>6 DEF Belongs
    <2>2. CASE p > Len(a) /\ p <= Len(a) + Len(x)
      <3>1. p - Len(a) \in 1..Len(x) /\ Len(a) + (p - Len(a)) = p
        BY <2>2, <1>1
      <3>2. M[p] = x[p - Len(a)]
        BY <3>1, <1>4
      <3>3. QED  BY <3>1, <3>2, <1>6
    <2>3. CASE p > Len(a) + Len(x)
      <3>1. PICK i \in 1..Len(c) : p = Len(a) + Len(x) + i
        <4>1. p - Len(a) - Len(x) \in 1..Len(c)
          BY <2>3, <1>1
        <4>2. p = Len(a) + Len(x) + (p - Len(a) - Len(x))
          BY <1>1
        <4>3. QED  BY <4>1, <4>2
      <3>2. Len(a) + Len(y) + i \in 1..Len(L) /\ L[Len(a) + Len(y) + i] = M[p]
        BY <3>1, <1>1, <1>3
      <3>3. QED  BY <3>2, <1>5, <1>6 DEF Belongs
    <2>4. QED  BY <2>1, <2>2, <2>3, <1>1
  <1>7. QED  BY <1>6 DEF Belongs, M

\* What is left of a line of which the first part is gone.
LEMMA Rest ==
  ASSUME NEW of, NEW T, NEW a \in Seq(Tokens), NEW c \in Seq(Tokens),
         Good(a \o c, of), Belongs(a \o c, T)
  PROVE  Good(<<>> \o c, of) /\ Belongs(<<>> \o c, T)
  <1>1. PICK z \in Seq(Tokens) : z = <<>>
    <2>1. <<>> \in Seq(Tokens)
      BY EmptySeq, Zenon
    <2>2. QED  BY <2>1
  <1>2. z \o (a \o c) = a \o c /\ z \o (z \o c) = z \o c
    <2>1. a \o c \in Seq(Tokens) /\ z \o c \in Seq(Tokens)
      BY Joined
    <2>2. QED  BY <1>1, <2>1, ConcatEmptySeq
  <1>3. \A i \in 1..Len(z) : ~Owned(z[i])
    BY <1>1
  <1>4. Good(z \o (a \o c), of) /\ Belongs(z \o (a \o c), T)
    BY <1>2
  <1>5. Good(z \o (z \o c), of)
    BY <1>1, <1>3, <1>4, Splice
  <1>6. Belongs(z \o (z \o c), T)
    BY <1>3, <1>4, BelongsSplice
  <1>7. QED  BY <1>1, <1>2, <1>5, <1>6

LEMMA SendG ==
  ASSUME GInv, Send
  PROVE  GInv'
  <1>1. /\ waiting = 0 /\ queue # <<>> /\ waiting' = Head(queue) /\ queue' = Tail(queue)
        /\ stream' = <<>> /\ typed' = Append(typed, Head(queue)) /\ wire' = wire \o EchoPart
        /\ UNCHANGED <<cmd, outcome, shell, ran, noise>>
    BY DEF Send
  <1>2. /\ queue \in Seq(Calls) /\ typed \in Seq(Calls) /\ wire \in Seq(Tokens)
        /\ Len(outcome) \in Nat /\ Len(queue) \in Nat /\ Calls' = Calls /\ ran \subseteq Calls
        /\ shell \in Calls \cup {0}
    BY <1>1 DEF GInv, TypeOK, Calls
  <1>3. /\ Head(queue) = queue[1] /\ Head(queue) \in Calls /\ queue' \in Seq(Calls)
        /\ Len(queue') = Len(queue) - 1 /\ Len(queue) >= 1
        /\ \A i \in 1..Len(queue') : queue'[i] = queue[i + 1]
    <2>1. Len(queue) >= 1 /\ Head(queue) = queue[1] /\ Head(queue) \in Calls
      BY <1>1, <1>2
    <2>2. QED  BY <1>1, <1>2, <2>1, HeadTailProperties
  <1>4. Head(queue) = Sent + 1 /\ Sent \in Int
    BY <1>2, <1>3 DEF GInv, QueueInv, Sent
  <1>5. Sent' = Sent + 1
    BY <1>1, <1>2, <1>3 DEF Sent
  <1>6. /\ typed' \in Seq(Calls) /\ Len(typed') = Len(typed) + 1 /\ Len(typed) \in Nat
        /\ \A i \in 1..Len(typed) : typed'[i] = typed[i]
        /\ typed'[Len(typed) + 1] = Sent + 1
    <2>1. Len(typed) \in Nat
      BY <1>2
    <2>2. QED  BY <1>1, <1>2, <1>3, <1>4, <2>1, AppendProperties
  <1>7. EchoPart \in Seq(Tokens) /\ \A p \in 1..Len(EchoPart) : ~Owned(EchoPart[p])
    <2>1. Echo \in Tokens /\ Newline \in Tokens /\ ~Owned(Echo) /\ ~Owned(Newline)
      BY TokensOf
    <2>2. QED  BY <2>1 DEF EchoPart
  <1>8. wire' \in Seq(Tokens)
    BY <1>1, <1>2, <1>7
  <1>9. TypeOK'
    <2>1. /\ waiting' \in Calls' \cup {0} /\ stream' \in Seq(Tokens)
          /\ queue' \in Seq(Calls') /\ typed' \in Seq(Calls')
      BY <1>1, <1>2, <1>3, <1>6
    <2>2. QED  BY <1>1, <1>2, <1>8, <2>1 DEF GInv, TypeOK
  <1>10. QueueInv'
    <2>1. \A i \in 1..Len(queue') : queue'[i] = Sent' + i
      <3>1. ASSUME NEW i \in 1..Len(queue') PROVE queue'[i] = Sent' + i
        <4>1. i + 1 \in 1..Len(queue) /\ queue'[i] = queue[i + 1]
          BY <1>2, <1>3
        <4>2. queue[i + 1] = Sent + (i + 1)
          BY <4>1 DEF GInv, QueueInv
        <4>3. QED  BY <4>1, <4>2, <1>4, <1>5
      <3>2. QED  BY <3>1
    <2>2. waiting' \in {0, Sent'} /\ Len(queue') <= Len(outcome')
      BY <1>1, <1>2, <1>3, <1>4, <1>5 DEF GInv, QueueInv
    <2>3. ASSUME NEW id \in Calls'
          PROVE  outcome'[id] = Pending <=> (waiting' = id \/ id > Sent')
      <3>1. id \in Calls /\ id \in Nat /\ id # 0
        BY <1>2 DEF Calls
      <3>2. outcome[id] = Pending <=> (waiting = id \/ id > Sent)
        BY <3>1 DEF GInv, QueueInv
      <3>3. QED  BY <3>1, <3>2, <1>1, <1>4, <1>5
    <2>4. QED  BY <2>1, <2>2, <2>3 DEF QueueInv
  <1>11. ShellInv'
    <2>1. /\ shell <= Sent /\ shell \notin ran /\ shell \in Int
          /\ \A j \in ran : j \in Int /\ j <= Sent /\ (shell # 0 => j < shell)
      BY <1>2 DEF GInv, ShellInv, Calls
    <2>2. ASSUME NEW i \in 1..Len(typed')
          PROVE  typed'[i] <= Sent' /\ shell < typed'[i] /\ \A j \in ran : j < typed'[i]
      <3>1. CASE i = Len(typed) + 1
        BY <3>1, <2>1, <1>4, <1>5, <1>6
      <3>2. CASE i \in 1..Len(typed)
        <4>1. typed[i] <= Sent /\ shell < typed[i] /\ \A j \in ran : j < typed[i]
          BY <3>2 DEF GInv, ShellInv
        <4>2. typed[i] \in Int
          BY <3>2, <1>2 DEF Calls
        <4>3. QED  BY <4>1, <4>2, <3>2, <1>4, <1>5, <1>6
      <3>3. QED  BY <3>1, <3>2, <1>6
    <2>3. ASSUME NEW i \in 1..Len(typed'), NEW k \in 1..Len(typed'), i < k
          PROVE  typed'[i] < typed'[k]
      <3>1. CASE k = Len(typed) + 1
        <4>1. i \in 1..Len(typed) /\ typed[i] <= Sent /\ typed[i] \in Int
          BY <3>1, <2>3, <1>2, <1>6, SMTT(30) DEF GInv, ShellInv, Calls
        <4>2. QED  BY <4>1, <3>1, <1>4, <1>6
      <3>2. CASE k \in 1..Len(typed)
        <4>1. i \in 1..Len(typed)
          BY <3>2, <2>3
        <4>2. typed[i] < typed[k]
          BY <3>2, <4>1, <2>3 DEF GInv, ShellInv
        <4>3. QED  BY <3>2, <4>1, <4>2, <1>6
      <3>3. QED  BY <3>1, <3>2, <1>6
    <2>4. shell <= Sent' /\ \A j \in ran : j <= Sent'
      BY <2>1, <1>4, <1>5
    <2>5. UNCHANGED <<shell, ran>>
      BY <1>1
    <2>6. QED  BY <2>1, <2>2, <2>3, <2>4, <2>5 DEF ShellInv
  <1>12. LineInv'
    <2>1. Line = wire
      <3>1. stream = <<>>
        BY <1>1 DEF GInv, LineInv
      <3>2. QED  BY <3>1, <1>2, ConcatEmptySeq DEF Line
    <2>2. Line' = wire \o EchoPart
      BY <1>1, <1>8, ConcatEmptySeq DEF Line
    <2>3. Good(wire, cmd) /\ Belongs(wire, Printed)
      BY <2>1 DEF GInv, LineInv
    <2>4. Good(EchoPart, cmd) /\ Belongs(EchoPart, {})
      BY <1>7, NobodysLine
    <2>5. Good(wire \o EchoPart, cmd)
      BY <2>3, <2>4, <1>2, <1>7, GoodJoined
    <2>6. Belongs(wire \o EchoPart, Printed \cup {})
      BY <2>3, <2>4, <1>2, <1>7, BelongsJoined
    <2>7. Printed' = Printed \cup {} /\ cmd' = cmd
      BY <1>1 DEF Printed
    <2>8. QED  BY <2>2, <2>5, <2>6, <2>7, <1>1 DEF LineInv
  <1>13. ReplyInv'
    BY <1>1, <1>2 DEF GInv, ReplyInv, NoFalseVerdict, OwnOutputOnly, Replies
  <1>14. QED  BY <1>9, <1>10, <1>11, <1>12, <1>13 DEF GInv

\* A token arrives.
LEMMA Arrives ==
  ASSUME TypeOK, wire # <<>>
  PROVE  /\ Append(stream, Head(wire)) \in Seq(Tokens) /\ Tail(wire) \in Seq(Tokens)
         /\ Append(stream, Head(wire)) \o Tail(wire) = Line
  <1>1. stream \in Seq(Tokens) /\ wire \in Seq(Tokens)
    BY DEF TypeOK
  <1>2. Head(wire) \in Tokens /\ Tail(wire) \in Seq(Tokens) /\ wire = <<Head(wire)>> \o Tail(wire)
    BY <1>1
  <1>3. Append(stream, Head(wire)) = stream \o <<Head(wire)>> /\ <<Head(wire)>> \in Seq(Tokens)
    BY <1>1, <1>2
  <1>4. (stream \o <<Head(wire)>>) \o Tail(wire) = stream \o (<<Head(wire)>> \o Tail(wire))
    BY <1>1, <1>2, <1>3, ConcatAssociative
  <1>5. Append(stream, Head(wire)) \in Seq(Tokens)
    BY <1>1, <1>2
  <1>6. QED  BY <1>2, <1>3, <1>4, <1>5 DEF Line

\* A call in flight is settled.
LEMMA Settled ==
  ASSUME TypeOK, QueueInv, waiting \in Calls, NEW o \in Outcomes, o # Pending,
         outcome' = [outcome EXCEPT ![waiting] = o], waiting' = 0,
         UNCHANGED queue
  PROVE  /\ outcome' \in Seq(Outcomes) /\ Calls' = Calls /\ Len(outcome') = Len(outcome)
         /\ Sent' = Sent
         /\ outcome'[waiting] = o
         /\ \A id \in Calls : id # waiting => outcome'[id] = outcome[id]
         /\ QueueInv'
  <1>1. outcome \in Seq(Outcomes) /\ waiting \in 1..Len(outcome) /\ Len(outcome) \in Nat
    BY DEF TypeOK, Calls
  <1>2. /\ outcome' \in Seq(Outcomes) /\ Len(outcome') = Len(outcome)
        /\ \A id \in 1..Len(outcome) :
              outcome'[id] = IF id = waiting THEN o ELSE outcome[id]
    BY <1>1, ExceptSeq
  <1>3. Calls' = Calls /\ Sent' = Sent
    BY <1>2 DEF Calls, Sent
  <1>4. /\ outcome'[waiting] = o
        /\ \A id \in Calls : id # waiting => outcome'[id] = outcome[id]
    BY <1>1, <1>2 DEF Calls
  <1>5. QueueInv'
    <2>1. ASSUME NEW id \in Calls'
          PROVE  outcome'[id] = Pending <=> (waiting' = id \/ id > Sent')
      <3>1. id \in Calls /\ id \in Nat /\ id # 0 /\ Sent \in Int
        BY <1>3 DEF Calls, Sent, TypeOK
      <3>2. waiting = Sent
        BY <1>1 DEF QueueInv
      <3>3. outcome[id] = Pending <=> (waiting = id \/ id > Sent)
        BY <3>1 DEF QueueInv
      <3>4. CASE id = waiting
        <4>1. outcome'[id] # Pending /\ ~(id > Sent)
          BY <3>1, <3>2, <3>4, <1>4
        <4>2. QED  BY <4>1, <3>1, <1>3
      <3>5. CASE id # waiting
        BY <3>1, <3>3, <3>5, <1>3, <1>4
      <3>6. QED  BY <3>4, <3>5
    <2>2. Len(queue') <= Len(outcome') /\ waiting' \in {0, Sent'}
          /\ \A i \in 1..Len(queue') : queue'[i] = Sent' + i
      BY <1>2, <1>3 DEF QueueInv
    <2>3. QED  BY <2>1, <2>2 DEF QueueInv
  <1>6. QED  BY <1>2, <1>3, <1>4, <1>5

LEMMA ExpireG ==
  ASSUME GInv, Expire
  PROVE  GInv'
  <1>1. /\ waiting # 0 /\ outcome' = [outcome EXCEPT ![waiting] = TimedOut]
        /\ waiting' = 0 /\ stream' = <<>>
        /\ UNCHANGED <<cmd, queue, typed, shell, ran, wire, noise>>
    BY DEF Expire, guestVars
  <1>2. TypeOK /\ QueueInv /\ ShellInv /\ LineInv /\ ReplyInv /\ waiting \in Calls
    BY <1>1 DEF GInv, TypeOK
  <1>3. TimedOut \in Outcomes /\ TimedOut # Pending /\ TimedOut.kind # "reply"
    BY DEF Outcomes, TimedOut, Pending
  <1>4. /\ outcome' \in Seq(Outcomes) /\ Calls' = Calls /\ Len(outcome') = Len(outcome)
        /\ Sent' = Sent /\ outcome'[waiting] = TimedOut
        /\ \A id \in Calls : id # waiting => outcome'[id] = outcome[id]
        /\ QueueInv'
    <2>1. PICK o : o = TimedOut
      OBVIOUS
    <2>2. QED  BY <1>1, <1>2, <1>3, <2>1, Settled
  <1>5. TypeOK'
    <2>1. stream' \in Seq(Tokens)
      BY <1>1
    <2>2. QED  BY <1>1, <1>2, <1>4, <2>1 DEF TypeOK
  <1>6. ShellInv'
    BY <1>1, <1>2, <1>4 DEF ShellInv
  <1>7. LineInv'
    <2>1. stream \in Seq(Tokens) /\ wire \in Seq(Tokens)
          /\ Good(stream \o wire, cmd) /\ Belongs(stream \o wire, Printed)
      BY <1>2 DEF TypeOK, LineInv, Line
    <2>2. Good(<<>> \o wire, cmd) /\ Belongs(<<>> \o wire, Printed)
      BY <2>1, Rest
    <2>3. Line' = <<>> \o wire /\ Printed' = Printed /\ cmd' = cmd
      BY <1>1 DEF Line, Printed
    <2>4. QED  BY <2>2, <2>3, <1>1 DEF LineInv
  <1>8. ReplyInv'
    <2>1. ASSUME NEW id \in Calls', Replies(id)'
          PROVE  id \in Calls /\ Replies(id) /\ outcome'[id] = outcome[id] /\ cmd'[id] = cmd[id]
      <3>1. id # waiting /\ id \in Calls
        BY <2>1, <1>3, <1>4 DEF Replies
      <3>2. QED  BY <3>1, <2>1, <1>1, <1>4 DEF Replies
    <2>2. QED  BY <2>1, <1>2 DEF ReplyInv, NoFalseVerdict, OwnOutputOnly
  <1>9. QED  BY <1>4, <1>5, <1>6, <1>7, <1>8 DEF GInv

LEMMA DropG ==
  ASSUME GInv, Drop
  PROVE  GInv'
  <1>1. /\ wire # <<>> /\ waiting = 0 /\ wire' = Tail(wire)
        /\ UNCHANGED <<cmd, outcome, queue, waiting, stream, typed, shell, ran, noise>>
    BY DEF Drop, hostVars
  <1>2. TypeOK /\ QueueInv /\ ShellInv /\ LineInv /\ ReplyInv
    BY DEF GInv
  <1>3. PICK a : a = Append(stream, Head(wire))
    OBVIOUS
  <1>4. PICK c : c = Tail(wire)
    OBVIOUS
  <1>5. a \in Seq(Tokens) /\ c \in Seq(Tokens) /\ a \o c = Line
    BY <1>1, <1>2, <1>3, <1>4, Arrives
  <1>6. Calls' = Calls /\ Sent' = Sent
    BY <1>1 DEF Calls, Sent
  <1>7. TypeOK'
    BY <1>1, <1>2, <1>4, <1>5, <1>6 DEF TypeOK
  <1>8. QueueInv' /\ ShellInv' /\ ReplyInv'
    BY <1>1, <1>2, <1>6 DEF QueueInv, ShellInv, ReplyInv, NoFalseVerdict, OwnOutputOnly, Replies
  <1>9. LineInv'
    <2>1. Good(a \o c, cmd) /\ Belongs(a \o c, Printed) /\ stream = <<>>
      BY <1>1, <1>2, <1>5 DEF LineInv
    <2>2. Good(<<>> \o c, cmd) /\ Belongs(<<>> \o c, Printed)
      BY <2>1, <1>5, Rest
    <2>3. Line' = <<>> \o c /\ Printed' = Printed /\ cmd' = cmd /\ stream' = <<>>
      BY <1>1, <1>4, <2>1 DEF Line, Printed
    <2>4. QED  BY <2>2, <2>3 DEF LineInv
  <1>10. QED  BY <1>7, <1>8, <1>9 DEF GInv

LEMMA CollectG ==
  ASSUME GInv, Collect
  PROVE  GInv'
  <1>1. /\ wire # <<>> /\ waiting # 0
        /\ stream' = Append(stream, Head(wire)) /\ wire' = Tail(wire)
        /\ UNCHANGED <<cmd, outcome, queue, waiting, typed, shell, ran, noise>>
    BY DEF Collect
  <1>2. TypeOK /\ QueueInv /\ ShellInv /\ LineInv /\ ReplyInv
    BY DEF GInv
  <1>3. stream' \in Seq(Tokens) /\ wire' \in Seq(Tokens) /\ Line' = Line
    BY <1>1, <1>2, Arrives DEF Line
  <1>4. Calls' = Calls /\ Sent' = Sent /\ Printed' = Printed
    BY <1>1 DEF Calls, Sent, Printed
  <1>5. TypeOK'
    BY <1>1, <1>2, <1>3, <1>4 DEF TypeOK
  <1>6. QueueInv' /\ ShellInv' /\ ReplyInv'
    BY <1>1, <1>2, <1>4 DEF QueueInv, ShellInv, ReplyInv, NoFalseVerdict, OwnOutputOnly, Replies
  <1>7. LineInv'
    <2>1. waiting' # 0 /\ cmd' = cmd
      BY <1>1
    <2>2. QED  BY <2>1, <1>2, <1>3, <1>4 DEF LineInv
  <1>8. QED  BY <1>5, <1>6, <1>7 DEF GInv

LEMMA CompleteG ==
  ASSUME GInv, Complete
  PROVE  /\ GInv' /\ waiting \in ran
         /\ outcome'[waiting].kind = "reply"
         /\ outcome'[waiting].status = << 0 >> <=> cmd[waiting].status = << 0 >>
  <1>1. PICK reply : reply = parseReply(waiting, Append(stream, Head(wire)))
    OBVIOUS
  <1>2. /\ wire # <<>> /\ waiting # 0 /\ reply.kind = "reply"
        /\ outcome' = [outcome EXCEPT ![waiting] = reply]
        /\ waiting' = 0 /\ stream' = <<>> /\ wire' = Tail(wire)
        /\ UNCHANGED <<cmd, queue, typed, shell, ran, noise>>
    BY <1>1 DEF Complete
  <1>3. TypeOK /\ QueueInv /\ ShellInv /\ LineInv /\ ReplyInv /\ waiting \in Calls
    BY <1>2 DEF GInv, TypeOK
  <1>4. /\ reply.status \in Seq(0..9)
        /\ reply.status = << 0 >> <=> cmd[waiting].status = << 0 >>
        /\ OwnOutput(waiting, reply.stdout, reply.stderr)
        /\ waiting \in ran
    BY <1>1, <1>2, <1>3, ReplyOfCall
  <1>5. reply \in Outcomes /\ reply # Pending
    <2>1. PICK stdout, stderr, status : reply = [kind |-> "reply", status |-> status,
                                         stdout |-> stdout, stderr |-> stderr]
      BY <1>1, <1>2 DEF parseReply, NotYet, Unreadable
    <2>2. stdout \in Seq(Tokens) /\ stderr \in Seq(Tokens) /\ status \in Seq(0..9)
      BY <2>1, <1>4 DEF OwnOutput
    <2>3. reply # Pending
      BY <2>1 DEF Pending
    <2>4. QED  BY <2>1, <2>2, <2>3 DEF Outcomes
  <1>6. /\ outcome' \in Seq(Outcomes) /\ Calls' = Calls /\ Len(outcome') = Len(outcome)
        /\ Sent' = Sent /\ outcome'[waiting] = reply
        /\ \A id \in Calls : id # waiting => outcome'[id] = outcome[id]
        /\ QueueInv'
    BY <1>2, <1>3, <1>5, Settled
  <1>7. PICK a : a = Append(stream, Head(wire))
    OBVIOUS
  <1>8. PICK c : c = Tail(wire)
    OBVIOUS
  <1>9. a \in Seq(Tokens) /\ c \in Seq(Tokens) /\ a \o c = Line
    BY <1>2, <1>3, <1>7, <1>8, Arrives
  <1>10. TypeOK'
    <2>1. stream' \in Seq(Tokens)
      BY <1>2
    <2>2. QED  BY <1>2, <1>3, <1>6, <1>8, <1>9, <2>1 DEF TypeOK
  <1>11. ShellInv'
    BY <1>2, <1>3, <1>6 DEF ShellInv
  <1>12. LineInv'
    <2>1. Good(a \o c, cmd) /\ Belongs(a \o c, Printed)
      BY <1>3, <1>9 DEF LineInv
    <2>2. Good(<<>> \o c, cmd) /\ Belongs(<<>> \o c, Printed)
      BY <2>1, <1>9, Rest
    <2>3. Line' = <<>> \o c /\ Printed' = Printed /\ cmd' = cmd /\ stream' = <<>>
      BY <1>2, <1>8 DEF Line, Printed
    <2>4. QED  BY <2>2, <2>3 DEF LineInv
  <1>13. ReplyInv'
    <2>1. NoFalseVerdict'
      <3>1. ASSUME NEW id \in Calls, Replies(id)'
            PROVE  outcome'[id].status = << 0 >> <=> cmd'[id].status = << 0 >>
        <4>1. CASE id = waiting
          BY <4>1, <1>2, <1>4, <1>6
        <4>2. CASE id # waiting
          BY <3>1, <4>2, <1>2, <1>3, <1>6 DEF Replies, ReplyInv, NoFalseVerdict
        <4>3. QED  BY <4>1, <4>2
      <3>2. QED  BY <3>1, <1>6 DEF NoFalseVerdict
    <2>2. OwnOutputOnly'
      <3>1. ASSUME NEW id \in Calls, Replies(id)'
            PROVE  /\ \E i \in DOMAIN outcome'[id].stdout : outcome'[id].stdout[i] = Out(id)
                   /\ \A i \in DOMAIN outcome'[id].stdout :
                        outcome'[id].stdout[i].what \in {"stdout", "stderr"}
                          => outcome'[id].stdout[i] = Out(id)
                   /\ \A i \in DOMAIN outcome'[id].stderr :
                        outcome'[id].stderr[i].what \in {"stdout", "stderr"}
                          => outcome'[id].stderr[i] = Err(id)
        <4>1. CASE id = waiting
          BY <4>1, <1>4, <1>6 DEF OwnOutput
        <4>2. CASE id # waiting
          <5>1. outcome'[id] = outcome[id] /\ Replies(id)
            BY <3>1, <4>2, <1>6 DEF Replies
          <5>2. QED  BY <5>1, <1>3 DEF ReplyInv, OwnOutputOnly
        <4>3. QED  BY <4>1, <4>2
      <3>2. QED  BY <3>1, <1>6 DEF OwnOutputOnly
    <2>3. QED  BY <2>1, <2>2 DEF ReplyInv
  <1>14. QED  BY <1>2, <1>4, <1>6, <1>10, <1>11, <1>12, <1>13 DEF GInv

LEMMA Grouped ==
  ASSUME NEW a \in Seq(Tokens), NEW b \in Seq(Tokens), NEW c \in Seq(Tokens)
  PROVE  a \o (b \o c) = (a \o b) \o c
  BY ConcatAssociative, SMTT(40)

\* What is appended comes after all that is there.
LEMMA Followed ==
  ASSUME NEW of, NEW a \in Seq(Tokens), NEW b \in Seq(Tokens), NEW T, NEW u,
         Good(a, of), Good(b, of), Belongs(a, T), Belongs(b, {u}),
         \A t \in T : Before(t, u)
  PROVE  /\ a \o b \in Seq(Tokens) /\ Good(a \o b, of)
         /\ Belongs(a \o b, T \cup {u})
  <1>1. a \o b \in Seq(Tokens)
    OBVIOUS
  <1>2. PICK U : U = {u}
    OBVIOUS
  <1>3. Belongs(b, U) /\ \A t \in T, v \in U : Before(t, v)
    BY <1>2
  <1>4. Good(a \o b, of)
    BY <1>3, GoodJoined
  <1>5. Belongs(a \o b, T \cup U)
    BY <1>3, BelongsJoined
  <1>6. QED  BY <1>1, <1>2, <1>4, <1>5

LEMMA BelongsMore ==
  ASSUME NEW s, NEW T, NEW U, Belongs(s, T), T \subseteq U
  PROVE  Belongs(s, U)
  BY DEF Belongs

\* Nothing changes on the page's side.
LEMMA FarEnd ==
  ASSUME GInv, UNCHANGED <<cmd, hostVars>>
  PROVE  QueueInv' /\ ReplyInv' /\ Calls' = Calls /\ Sent' = Sent
  <1>1. UNCHANGED <<cmd, outcome, queue, waiting, stream>>
    BY DEF hostVars
  <1>2. Calls' = Calls /\ Sent' = Sent
    BY <1>1 DEF Calls, Sent
  <1>3. QED  BY <1>1, <1>2 DEF GInv, QueueInv, ReplyInv, NoFalseVerdict, OwnOutputOnly, Replies

\* The shell takes the first of the lines typed.
LEMMA FirstTyped ==
  ASSUME TypeOK, ShellInv, typed # <<>>
  PROVE  /\ Len(typed) >= 1 /\ Head(typed) = typed[1] /\ Head(typed) \in Calls
         /\ Tail(typed) \in Seq(Calls) /\ Len(Tail(typed)) = Len(typed) - 1
         /\ \A i \in 1..Len(Tail(typed)) :
              /\ Tail(typed)[i] = typed[i + 1] /\ i + 1 \in 1..Len(typed)
              /\ Head(typed) < Tail(typed)[i]
         /\ Head(typed) <= Sent /\ shell < Head(typed) /\ \A j \in ran : j < Head(typed)
  <1>1. typed \in Seq(Calls)
    BY DEF TypeOK
  <1>2. Len(typed) >= 1 /\ Len(typed) \in Nat /\ Head(typed) = typed[1] /\ Head(typed) \in Calls
    BY <1>1
  <1>3. /\ Tail(typed) \in Seq(Calls) /\ Len(Tail(typed)) = Len(typed) - 1
        /\ \A i \in 1..Len(Tail(typed)) : Tail(typed)[i] = typed[i + 1]
    BY <1>1, HeadTailProperties
  <1>4. ASSUME NEW i \in 1..Len(Tail(typed))
        PROVE  i + 1 \in 1..Len(typed) /\ Head(typed) < Tail(typed)[i]
    <2>1. i + 1 \in 1..Len(typed) /\ 1 \in 1..Len(typed) /\ 1 < i + 1
      BY <1>2, <1>3
    <2>2. QED  BY <2>1, <1>2, <1>3 DEF ShellInv
  <1>5. 1 \in 1..Len(typed)
    BY <1>2
  <1>6. QED  BY <1>2, <1>3, <1>4, <1>5 DEF ShellInv

LEMMA ShellStartG ==
  ASSUME GInv, ShellStart
  PROVE  GInv'
  <1>1. PICK h : h = Head(typed)
    OBVIOUS
  <1>2. /\ shell = 0 /\ typed # <<>> /\ shell' = h /\ typed' = Tail(typed)
        /\ wire' = (wire \o BegPart(h)) \o <<Out(h)>>
        /\ UNCHANGED <<cmd, hostVars, ran, noise>>
    BY <1>1 DEF ShellStart
  <1>3. TypeOK /\ QueueInv /\ ShellInv /\ LineInv /\ ReplyInv
    BY DEF GInv
  <1>4. QueueInv' /\ ReplyInv' /\ Calls' = Calls /\ Sent' = Sent
    BY <1>2, FarEnd
  <1>5. /\ h \in Calls /\ h \in Nat /\ h # 0 /\ Tail(typed) \in Seq(Calls)
        /\ \A i \in 1..Len(Tail(typed)) : Tail(typed)[i] = typed[i + 1]
                                          /\ i + 1 \in 1..Len(typed) /\ h < Tail(typed)[i]
        /\ h <= Sent /\ \A j \in ran : j < h
    BY <1>1, <1>2, <1>3, FirstTyped DEF Calls
  <1>6. StartPart(h) \in Seq(Tokens) /\ Good(StartPart(h), cmd)
        /\ Belongs(StartPart(h), {Tok("BEG", h), Out(h)})
    BY <1>5, StartPartGood
  <1>7. stream \in Seq(Tokens) /\ wire \in Seq(Tokens) /\ Line \in Seq(Tokens)
    BY <1>3, Typed
  <1>8. wire' = wire \o StartPart(h) /\ wire' \in Seq(Tokens)
    <2>1. BegPart(h) \in Seq(Tokens) /\ <<Out(h)>> \in Seq(Tokens)
      BY <1>3, <1>5, PartsTyped
    <2>2. wire \o (BegPart(h) \o <<Out(h)>>) = (wire \o BegPart(h)) \o <<Out(h)>>
      <3>1. wire \in Seq(Tokens)
        BY <1>7
      <3>2. QED  BY <2>1, <3>1, Grouped
    <2>3. wire' = wire \o StartPart(h)
      BY <2>2, <1>2 DEF StartPart
    <2>4. QED  BY <2>3, <1>6, <1>7, ConcatProperties
  <1>9. TypeOK'
    BY <1>2, <1>3, <1>4, <1>5, <1>8 DEF TypeOK, hostVars
  <1>10. ShellInv'
    <2>1. ASSUME NEW i \in 1..Len(typed')
          PROVE  typed'[i] <= Sent' /\ shell' < typed'[i] /\ \A j \in ran' : j < typed'[i]
      <3>1. /\ typed'[i] = typed[i + 1] /\ i + 1 \in 1..Len(typed) /\ h < typed'[i]
        BY <1>2, <1>5
      <3>2. QED  BY <3>1, <1>2, <1>3, <1>4 DEF ShellInv
    <2>2. ASSUME NEW i \in 1..Len(typed'), NEW k \in 1..Len(typed'), i < k
          PROVE  typed'[i] < typed'[k]
      <3>1. /\ typed'[i] = typed[i + 1] /\ i + 1 \in 1..Len(typed)
            /\ typed'[k] = typed[k + 1] /\ k + 1 \in 1..Len(typed) /\ i + 1 < k + 1
        BY <1>2, <1>5, <2>2
      <3>2. QED  BY <3>1, <1>3 DEF ShellInv
    <2>3. shell' <= Sent' /\ shell' \notin ran'
          /\ \A j \in ran' : j <= Sent' /\ (shell' # 0 => j < shell')
      BY <1>2, <1>3, <1>4, <1>5 DEF ShellInv
    <2>4. QED  BY <2>1, <2>2, <2>3 DEF ShellInv
  <1>11. LineInv'
    <2>1. Line' = Line \o StartPart(h)
      <3>1. StartPart(h) \in Seq(Tokens) /\ stream \in Seq(Tokens) /\ wire \in Seq(Tokens)
        BY <1>6, <1>7
      <3>2. stream \o (wire \o StartPart(h)) = (stream \o wire) \o StartPart(h)
        BY <3>1, Grouped
      <3>3. QED  BY <3>2, <1>2, <1>8 DEF Line, hostVars
    <2>2. Good(Line, cmd) /\ Belongs(Line, Printed)
      BY <1>3 DEF LineInv
    <2>3. \A t \in Printed, u \in {Tok("BEG", h), Out(h)} : Before(t, u)
      BY <1>2, <1>5 DEF Printed, Before, Tok, Out
    <2>4. Good(Line \o StartPart(h), cmd)
      BY <2>2, <2>3, <1>6, <1>7, GoodJoined
    <2>5. Belongs(Line \o StartPart(h), Printed \cup {Tok("BEG", h), Out(h)})
      BY <2>2, <1>6, <1>7, BelongsJoined
    <2>6. Printed \cup {Tok("BEG", h), Out(h)} \subseteq Printed'
      <3>1. Tok("BEG", h) \in Tokens /\ Out(h) \in Tokens
        BY <1>5, TokensOf
      <3>2. QED  BY <3>1, <1>2, <1>5 DEF Printed, Tok, Out
    <2>7. PICK T : T = Printed'
      OBVIOUS
    <2>8. Belongs(Line \o StartPart(h), T)
      BY <2>5, <2>6, <2>7, BelongsMore
    <2>9. QED  BY <2>1, <2>4, <2>7, <2>8, <1>2, <1>3 DEF LineInv, hostVars
  <1>12. QED  BY <1>4, <1>9, <1>10, <1>11 DEF GInv

\* The line once a command has ended.
LEMMA FinishLine ==
  ASSUME TypeOK, ShellInv, LineInv, shell # 0,
         NEW w, w = wire \o ErrPart(shell) \o StderrPart(shell)
                         \o EndPart(shell, cmd[shell].status)
  PROVE  /\ w \in Seq(Tokens)
         /\ Good(stream \o w, cmd)
         /\ Belongs(stream \o w, {t \in Tokens : t.id \in ran \cup {shell}})
  <1>1. PICK id \in Calls : id = shell
    BY DEF TypeOK
  <1>2. id \in Nat /\ id # 0
    BY <1>1 DEF Calls
  <1>3. PICK e : e = ErrPart(id)
    OBVIOUS
  <1>4. PICK r : r = StderrPart(id)
    OBVIOUS
  <1>5. PICK n : n = EndPart(id, cmd[id].status)
    OBVIOUS
  <1>6. e \in Seq(Tokens) /\ Good(e, cmd) /\ Belongs(e, {Tok("ERR", id)})
    BY <1>2, <1>3, ErrPartGood
  <1>7. r \in Seq(Tokens) /\ Good(r, cmd) /\ Belongs(r, {Err(id)})
    <2>1. r \in {<<>>, <<Err(id)>>}
      BY <1>4, PartsTyped
    <2>2. QED  BY <1>2, <2>1, StderrGood
  <1>8. n \in Seq(Tokens) /\ Good(n, cmd) /\ Belongs(n, {Tok("END", id)})
    <2>1. /\ cmd[id].status \in Seq(0..9) /\ cmd[id].status # <<>>
          /\ cmd[id].status[1] = 0 => cmd[id].status = << 0 >>
      BY StatusOf
    <2>2. QED  BY <1>2, <1>5, <2>1, EndPartGood
  <1>9. stream \in Seq(Tokens) /\ wire \in Seq(Tokens) /\ Line \in Seq(Tokens)
        /\ Line = stream \o wire /\ Good(Line, cmd) /\ Belongs(Line, Printed)
    BY Typed DEF LineInv, Line
  <1>10. \A t \in Printed : t.id \in Nat /\ Before(t, Tok("ERR", id))
    <2>1. ASSUME NEW t \in Printed PROVE t.id \in Nat /\ Before(t, Tok("ERR", id))
      <3>1. t.id \in Nat
        BY DEF Printed, Tokens
      <3>2. CASE t.id \in ran
        BY <3>1, <3>2, <1>1, <1>2 DEF ShellInv, Before, Tok
      <3>3. CASE t.id = shell /\ t.what \in {"BEG", "stdout"}
        BY <3>1, <3>3, <1>1 DEF Before, Rank, Tok
      <3>4. QED  BY <3>1, <3>2, <3>3 DEF Printed
    <2>2. QED  BY <2>1
  <1>11. /\ stream \in Seq(Tokens) /\ wire \in Seq(Tokens) /\ Line \in Seq(Tokens)
         /\ e \in Seq(Tokens) /\ r \in Seq(Tokens) /\ n \in Seq(Tokens)
    BY <1>6, <1>7, <1>8, <1>9
  <1>12. PICK a \in Seq(Tokens) : a = Line \o e
    BY <1>11, Joined
  <1>13. Good(a, cmd) /\ Belongs(a, Printed \cup {Tok("ERR", id)})
    <2>1. PICK u, T : u = Tok("ERR", id) /\ T = Printed
      OBVIOUS
    <2>2. Good(e, cmd) /\ Belongs(e, {u}) /\ \A t \in T : Before(t, u)
      BY <2>1, <1>6, <1>10
    <2>3. Good(Line, cmd) /\ Belongs(Line, T) /\ Line \in Seq(Tokens) /\ e \in Seq(Tokens)
      BY <2>1, <1>6, <1>9
    <2>4. Good(Line \o e, cmd) /\ Belongs(Line \o e, T \cup {u})
      BY <2>2, <2>3, Followed
    <2>5. QED  BY <2>1, <2>4, <1>12
  <1>14. PICK b \in Seq(Tokens) : b = a \o r
    BY <1>11, Joined
  <1>15. Good(b, cmd) /\ Belongs(b, Printed \cup {Tok("ERR", id)} \cup {Err(id)})
    <2>1. PICK u, T : u = Err(id) /\ T = Printed \cup {Tok("ERR", id)}
      OBVIOUS
    <2>2. \A t \in T : Before(t, u)
      BY <2>1, <1>2, <1>10 DEF Before, Rank, Tok, Err
    <2>3. Good(r, cmd) /\ Belongs(r, {u}) /\ r \in Seq(Tokens)
      BY <2>1, <1>7
    <2>4. Good(a, cmd) /\ Belongs(a, T)
      BY <2>1, <1>13
    <2>5. Good(a \o r, cmd) /\ Belongs(a \o r, T \cup {u})
      BY <2>2, <2>3, <2>4, Followed
    <2>6. QED  BY <2>1, <2>5, <1>14
  <1>16. PICK c \in Seq(Tokens) : c = b \o n
    BY <1>11, Joined
  <1>17. Good(c, cmd)
         /\ Belongs(c, Printed \cup {Tok("ERR", id)} \cup {Err(id)} \cup {Tok("END", id)})
    <2>1. PICK u, T : u = Tok("END", id) /\ T = Printed \cup {Tok("ERR", id)} \cup {Err(id)}
      OBVIOUS
    <2>2. \A t \in T : Before(t, u)
      BY <2>1, <1>2, <1>10 DEF Before, Rank, Tok, Err
    <2>3. Good(n, cmd) /\ Belongs(n, {u}) /\ n \in Seq(Tokens)
      BY <2>1, <1>8
    <2>4. Good(b, cmd) /\ Belongs(b, T)
      BY <2>1, <1>15
    <2>5. Good(b \o n, cmd) /\ Belongs(b \o n, T \cup {u})
      BY <2>2, <2>3, <2>4, Followed
    <2>6. QED  BY <2>1, <2>5, <1>16
  <1>18. w = ((wire \o e) \o r) \o n
    BY <1>1, <1>3, <1>4, <1>5
  <1>19. w \in Seq(Tokens) /\ stream \o w = c
    <2>1. /\ ((wire \o e) \o r) \o n \in Seq(Tokens)
          /\ AllAtOnce(stream, wire, e, r, n)
      BY <1>11, GroupedThrice
    <2>2. QED  BY <2>1, <1>9, <1>12, <1>14, <1>16, <1>18 DEF AllAtOnce
  <1>20. Printed \cup {Tok("ERR", id)} \cup {Err(id)} \cup {Tok("END", id)}
           \subseteq {t \in Tokens : t.id \in ran \cup {shell}}
    <2>1. Tok("ERR", id) \in Tokens /\ Err(id) \in Tokens /\ Tok("END", id) \in Tokens
      BY <1>2, TokensOf
    <2>2. QED  BY <2>1, <1>1 DEF Printed, Tok, Err
  <1>21. QED  BY <1>17, <1>19, <1>20, BelongsMore

\* What the shell has printed, once it is back at its prompt.
LEMMA BackAtPrompt ==
  ASSUME shell' = 0, ran' = ran \cup {shell}
  PROVE  Printed' = {t \in Tokens : t.id \in ran \cup {shell}}
  BY DEF Printed

LEMMA ShellFinishG ==
  ASSUME GInv, ShellFinish
  PROVE  GInv'
  <1>1. /\ shell # 0 /\ shell' = 0 /\ ran' = ran \cup {shell}
        /\ wire' = wire \o ErrPart(shell) \o StderrPart(shell)
                        \o EndPart(shell, cmd[shell].status)
        /\ UNCHANGED <<cmd, hostVars, typed, noise>>
    BY DEF ShellFinish
  <1>2. TypeOK /\ QueueInv /\ ShellInv /\ LineInv /\ ReplyInv
    BY DEF GInv
  <1>3. QueueInv' /\ ReplyInv' /\ Calls' = Calls /\ Sent' = Sent
    BY <1>1, FarEnd
  <1>4. /\ wire' \in Seq(Tokens) /\ Good(stream \o wire', cmd)
        /\ Belongs(stream \o wire', {t \in Tokens : t.id \in ran \cup {shell}})
    <2>1. PICK w : w = wire \o ErrPart(shell) \o StderrPart(shell)
                            \o EndPart(shell, cmd[shell].status)
      OBVIOUS
    <2>2. /\ w \in Seq(Tokens) /\ Good(stream \o w, cmd)
          /\ Belongs(stream \o w, {t \in Tokens : t.id \in ran \cup {shell}})
      BY <2>1, <1>1, <1>2, FinishLine
    <2>3. wire' = w
      BY <2>1, <1>1
    <2>4. QED  BY <2>2, <2>3
  <1>5. shell \in Calls /\ ran \subseteq Calls
    BY <1>1, <1>2 DEF TypeOK
  <1>6. TypeOK'
    BY <1>1, <1>2, <1>3, <1>4, <1>5 DEF TypeOK, hostVars
  <1>7. ShellInv'
    <2>1. Sent \in Int /\ shell \in Nat /\ shell <= Sent /\ \A j \in ran : j <= Sent
      BY <1>2, <1>5, Typed DEF ShellInv, Calls
    <2>2. shell' <= Sent' /\ shell' \notin ran'
          /\ \A j \in ran' : j <= Sent' /\ (shell' # 0 => j < shell')
      BY <2>1, <1>1, <1>3, <1>5 DEF Calls
    <2>3. ASSUME NEW i \in 1..Len(typed')
          PROVE  typed'[i] <= Sent' /\ shell' < typed'[i] /\ \A j \in ran' : j < typed'[i]
      <3>1. typed' = typed /\ typed[i] \in Calls
        BY <1>1, <1>2 DEF TypeOK
      <3>2. typed[i] <= Sent /\ shell < typed[i] /\ \A j \in ran : j < typed[i]
        BY <3>1, <1>2 DEF ShellInv
      <3>3. QED  BY <3>1, <3>2, <1>1, <1>3 DEF Calls
    <2>4. \A i, k \in 1..Len(typed') : i < k => typed'[i] < typed'[k]
      BY <1>1, <1>2 DEF ShellInv
    <2>5. QED  BY <2>2, <2>3, <2>4 DEF ShellInv
  <1>8. LineInv'
    <2>1. PICK T : T = Printed'
      OBVIOUS
    <2>2. T = {t \in Tokens : t.id \in ran \cup {shell}}
      BY <2>1, <1>1, BackAtPrompt
    <2>3. Belongs(stream \o wire', T) /\ Good(stream \o wire', cmd)
      BY <2>2, <1>4
    <2>4. stream' = stream /\ waiting' = waiting /\ cmd' = cmd
      BY <1>1 DEF hostVars
    <2>5. QED  BY <2>1, <2>3, <2>4, <1>2 DEF LineInv, Line
  <1>9. QED  BY <1>3, <1>6, <1>7, <1>8 DEF GInv

\* The console's line about the half command that was left over.
LEMMA ConsoleLine ==
  /\ <<Console, Newline>> \in Seq(Tokens)
  /\ \A p \in 1..Len(<<Console, Newline>>) : ~Owned(<<Console, Newline>>[p])
  <1>1. Console \in Tokens /\ Newline \in Tokens /\ ~Owned(Console) /\ ~Owned(Newline)
    BY TokensOf
  <1>2. QED  BY <1>1

LEMMA ShellEatsG ==
  ASSUME GInv, ShellEats
  PROVE  GInv'
  <1>1. /\ shell # 0 /\ typed # <<>> /\ shell' = 0 /\ ran' = ran \cup {shell}
        /\ typed' = Tail(typed)
        /\ wire' = (wire \o ErrPart(shell) \o StderrPart(shell)
                         \o EndPart(shell, cmd[shell].status)) \o <<Console, Newline>>
        /\ UNCHANGED <<cmd, hostVars, noise>>
    BY DEF ShellEats
  <1>2. TypeOK /\ QueueInv /\ ShellInv /\ LineInv /\ ReplyInv
    BY DEF GInv
  <1>3. QueueInv' /\ ReplyInv' /\ Calls' = Calls /\ Sent' = Sent
    BY <1>1, FarEnd
  <1>4. /\ wire' \in Seq(Tokens) /\ Good(stream \o wire', cmd)
        /\ Belongs(stream \o wire', {t \in Tokens : t.id \in ran \cup {shell}})
    <2>1. PICK w : w = wire \o ErrPart(shell) \o StderrPart(shell)
                            \o EndPart(shell, cmd[shell].status)
      OBVIOUS
    <2>2. PICK T : T = {t \in Tokens : t.id \in ran \cup {shell}}
      OBVIOUS
    <2>3. w \in Seq(Tokens) /\ Good(stream \o w, cmd) /\ Belongs(stream \o w, T)
      BY <2>1, <2>2, <1>1, <1>2, FinishLine
    <2>4. PICK n : n = <<Console, Newline>>
      OBVIOUS
    <2>5. n \in Seq(Tokens) /\ Good(n, cmd) /\ Belongs(n, {})
      BY <2>4, ConsoleLine, NobodysLine
    <2>6. stream \in Seq(Tokens)
      BY <1>2, Typed
    <2>7. OneByOne(stream, w, n) /\ w \o n \in Seq(Tokens) /\ stream \o w \in Seq(Tokens)
      BY <2>3, <2>5, <2>6, Appended
    <2>8. PICK a \in Seq(Tokens) : a = stream \o w
      BY <2>7
    <2>9. Good(a \o n, cmd) /\ Belongs(a \o n, T \cup {})
      <3>1. Good(a, cmd) /\ Belongs(a, T)
        BY <2>3, <2>8
      <3>2. Good(a \o n, cmd)
        BY <3>1, <2>5, GoodJoined
      <3>3. QED  BY <3>1, <3>2, <2>5, BelongsJoined
    <2>10. wire' = w \o n
      BY <2>1, <2>4, <1>1
    <2>11. stream \o (w \o n) = a \o n
      BY <2>7, <2>8 DEF OneByOne
    <2>12. T \cup {} = T
      OBVIOUS
    <2>13. QED  BY <2>2, <2>7, <2>9, <2>10, <2>11, <2>12
  <1>5. shell \in Calls /\ ran \subseteq Calls
    BY <1>1, <1>2 DEF TypeOK
  <1>6. /\ Tail(typed) \in Seq(Calls) /\ Len(Tail(typed)) = Len(typed) - 1
        /\ \A i \in 1..Len(Tail(typed)) :
             Tail(typed)[i] = typed[i + 1] /\ i + 1 \in 1..Len(typed)
    BY <1>1, <1>2, FirstTyped
  <1>7. TypeOK'
    BY <1>1, <1>2, <1>3, <1>4, <1>5, <1>6 DEF TypeOK, hostVars
  <1>8. ShellInv'
    <2>1. Sent \in Int /\ shell \in Nat /\ shell <= Sent /\ \A j \in ran : j <= Sent
      BY <1>2, <1>5, Typed DEF ShellInv, Calls
    <2>2. shell' <= Sent' /\ shell' \notin ran'
          /\ \A j \in ran' : j <= Sent' /\ (shell' # 0 => j < shell')
      BY <2>1, <1>1, <1>3, <1>5 DEF Calls
    <2>3. ASSUME NEW i \in 1..Len(typed')
          PROVE  typed'[i] <= Sent' /\ shell' < typed'[i] /\ \A j \in ran' : j < typed'[i]
      <3>1. typed'[i] = typed[i + 1] /\ i + 1 \in 1..Len(typed)
        BY <1>1, <1>6
      <3>2. typed[i + 1] \in Calls
        BY <3>1, <1>2 DEF TypeOK
      <3>3. typed[i + 1] <= Sent /\ shell < typed[i + 1] /\ \A j \in ran : j < typed[i + 1]
        BY <3>1, <1>2 DEF ShellInv
      <3>4. QED  BY <3>1, <3>2, <3>3, <1>1, <1>3 DEF Calls
    <2>4. ASSUME NEW i \in 1..Len(typed'), NEW k \in 1..Len(typed'), i < k
          PROVE  typed'[i] < typed'[k]
      <3>1. /\ typed'[i] = typed[i + 1] /\ i + 1 \in 1..Len(typed)
            /\ typed'[k] = typed[k + 1] /\ k + 1 \in 1..Len(typed) /\ i + 1 < k + 1
        BY <1>1, <1>6, <2>4
      <3>2. QED  BY <3>1, <1>2 DEF ShellInv
    <2>5. QED  BY <2>2, <2>3, <2>4 DEF ShellInv
  <1>9. LineInv'
    <2>1. PICK T : T = Printed'
      OBVIOUS
    <2>2. T = {t \in Tokens : t.id \in ran \cup {shell}}
      BY <2>1, <1>1, BackAtPrompt
    <2>3. Belongs(stream \o wire', T) /\ Good(stream \o wire', cmd)
      BY <2>2, <1>4
    <2>4. stream' = stream /\ waiting' = waiting /\ cmd' = cmd
      BY <1>1 DEF hostVars
    <2>5. QED  BY <2>1, <2>3, <2>4, <1>2 DEF LineInv, Line
  <1>10. QED  BY <1>3, <1>7, <1>8, <1>9 DEF GInv

\* A console line between what has arrived and what has not.
LEMMA PrintkG ==
  ASSUME GInv, Printk
  PROVE  GInv'
  <1>1. /\ noise > 0 /\ noise' = noise - 1 /\ wire' = <<Console, Newline>> \o wire
        /\ UNCHANGED <<cmd, hostVars, typed, shell, ran>>
    BY DEF Printk
  <1>2. TypeOK /\ QueueInv /\ ShellInv /\ LineInv /\ ReplyInv
    BY DEF GInv
  <1>3. QueueInv' /\ ReplyInv' /\ Calls' = Calls /\ Sent' = Sent
    BY <1>1, FarEnd
  <1>4. stream \in Seq(Tokens) /\ wire \in Seq(Tokens)
        /\ Good(stream \o wire, cmd) /\ Belongs(stream \o wire, Printed)
    BY <1>2, Typed DEF LineInv, Line
  <1>5. PICK x : x = <<Console, Newline>>
    OBVIOUS
  <1>6. /\ x \in Seq(Tokens) /\ \A i \in 1..Len(x) : ~Owned(x[i])
        /\ Len(x) > 0 /\ x[1].what # "digit"
    <2>1. x \in Seq(Tokens) /\ \A i \in 1..Len(x) : ~Owned(x[i])
      BY <1>5, ConsoleLine
    <2>2. Len(x) > 0 /\ x[1].what # "digit"
      BY <1>5 DEF Console, Tok
    <2>3. QED  BY <2>1, <2>2
  <1>7. PICK y : y = <<>>
    OBVIOUS
  <1>8. /\ y \in Seq(Tokens) /\ y \o wire = wire
        /\ \A i \in 1..Len(y) : y[i].what # "stdout"
    BY <1>4, <1>7, ConcatEmptySeq
  <1>9. wire' = x \o wire /\ wire' \in Seq(Tokens)
    BY <1>1, <1>4, <1>5, <1>6, ConcatProperties
  <1>10. Good(stream \o (x \o wire), cmd)
    <2>1. Good(stream \o (y \o wire), cmd)
      BY <1>4, <1>8
    <2>2. QED  BY <2>1, <1>4, <1>6, <1>8, Splice
  <1>11. PICK T : T = Printed
    OBVIOUS
  <1>12. Belongs(stream \o (x \o wire), T)
    <2>1. Belongs(stream \o (y \o wire), T)
      BY <1>4, <1>8, <1>11
    <2>2. QED  BY <2>1, <1>4, <1>6, <1>8, BelongsSplice
  <1>13. TypeOK'
    <2>1. noise' \in 0..MaxNoise
      BY <1>1, <1>2, GuestAssumption DEF TypeOK
    <2>2. QED  BY <2>1, <1>1, <1>2, <1>3, <1>9 DEF TypeOK, hostVars
  <1>14. ShellInv'
    BY <1>1, <1>2, <1>3 DEF ShellInv
  <1>15. LineInv'
    <2>1. stream' = stream /\ waiting' = waiting /\ cmd' = cmd /\ Printed' = T
      BY <1>1, <1>11 DEF hostVars, Printed
    <2>2. QED  BY <2>1, <1>2, <1>9, <1>10, <1>12 DEF LineInv, Line
  <1>16. QED  BY <1>3, <1>13, <1>14, <1>15 DEF GInv

\* A marker torn in two by a console line is a marker no more.
LEMMA PrintkTearsMarkerG ==
  ASSUME GInv, PrintkTearsMarker
  PROVE  GInv'
  <1>1. /\ noise > 0 /\ noise' = noise - 1 /\ wire # <<>>
        /\ Head(wire).what \in {"BEG", "ERR", "END"}
        /\ wire' = <<Torn, Console, Newline, Torn>> \o Tail(wire)
        /\ UNCHANGED <<cmd, hostVars, typed, shell, ran>>
    BY DEF PrintkTearsMarker
  <1>2. TypeOK /\ QueueInv /\ ShellInv /\ LineInv /\ ReplyInv
    BY DEF GInv
  <1>3. QueueInv' /\ ReplyInv' /\ Calls' = Calls /\ Sent' = Sent
    BY <1>1, FarEnd
  <1>4. stream \in Seq(Tokens) /\ wire \in Seq(Tokens)
        /\ Good(stream \o wire, cmd) /\ Belongs(stream \o wire, Printed)
    BY <1>2, Typed DEF LineInv, Line
  <1>5. PICK x : x = <<Torn, Console, Newline, Torn>>
    OBVIOUS
  <1>6. /\ x \in Seq(Tokens) /\ \A i \in 1..Len(x) : ~Owned(x[i])
        /\ Len(x) > 0 /\ x[1].what # "digit"
    <2>1. /\ Console \in Tokens /\ Newline \in Tokens /\ Torn \in Tokens
          /\ ~Owned(Console) /\ ~Owned(Newline) /\ ~Owned(Torn)
      BY TokensOf
    <2>2. Torn.what # "digit"
      BY DEF Torn, Tok
    <2>3. QED  BY <2>1, <2>2, <1>5
  <1>7. PICK y : y = <<Head(wire)>>
    OBVIOUS
  <1>8. PICK c : c = Tail(wire)
    OBVIOUS
  <1>9. /\ y \in Seq(Tokens) /\ c \in Seq(Tokens) /\ y \o c = wire
        /\ \A i \in 1..Len(y) : y[i].what # "stdout"
    <2>1. Head(wire) \in Tokens
      BY <1>1, <1>4
    <2>2. y \in Seq(Tokens) /\ \A i \in 1..Len(y) : y[i].what # "stdout"
      BY <2>1, <1>1, <1>7
    <2>3. c \in Seq(Tokens) /\ y \o c = wire
      BY <1>1, <1>4, <1>7, <1>8, HeadTailProperties
    <2>4. QED  BY <2>2, <2>3
  <1>10. wire' = x \o c /\ wire' \in Seq(Tokens)
    BY <1>1, <1>5, <1>6, <1>8, <1>9, ConcatProperties
  <1>11. Good(stream \o (x \o c), cmd)
    <2>1. Good(stream \o (y \o c), cmd)
      BY <1>4, <1>9
    <2>2. QED  BY <2>1, <1>4, <1>6, <1>9, Splice
  <1>12. PICK T : T = Printed
    OBVIOUS
  <1>13. Belongs(stream \o (x \o c), T)
    <2>1. Belongs(stream \o (y \o c), T)
      BY <1>4, <1>9, <1>12
    <2>2. QED  BY <2>1, <1>4, <1>6, <1>9, BelongsSplice
  <1>14. TypeOK'
    <2>1. noise' \in 0..MaxNoise
      BY <1>1, <1>2, GuestAssumption DEF TypeOK
    <2>2. QED  BY <2>1, <1>1, <1>2, <1>3, <1>10 DEF TypeOK, hostVars
  <1>15. ShellInv'
    BY <1>1, <1>2, <1>3 DEF ShellInv
  <1>16. LineInv'
    <2>1. stream' = stream /\ waiting' = waiting /\ cmd' = cmd /\ Printed' = T
      BY <1>1, <1>12 DEF hostVars, Printed
    <2>2. QED  BY <2>1, <1>2, <1>10, <1>11, <1>13 DEF LineInv, Line
  <1>17. QED  BY <1>3, <1>14, <1>15, <1>16 DEF GInv

LEMMA StutterG ==
  ASSUME GInv, UNCHANGED vars
  PROVE  GInv'
  <1>1. UNCHANGED <<cmd, outcome, queue, waiting, stream, typed, shell, ran, wire, noise>>
    BY DEF vars, hostVars, guestVars
  <1>2. Calls' = Calls /\ Sent' = Sent /\ Printed' = Printed /\ Line' = Line
    BY <1>1 DEF Calls, Sent, Printed, Line
  <1>3. TypeOK' /\ QueueInv' /\ ShellInv' /\ LineInv' /\ ReplyInv'
    BY <1>1, <1>2 DEF GInv, TypeOK, QueueInv, ShellInv, LineInv, ReplyInv,
                      NoFalseVerdict, OwnOutputOnly, Replies
  <1>4. QED  BY <1>3 DEF GInv

LEMMA NextG ==
  ASSUME GInv, [Next]_vars
  PROVE  GInv'
  <1>1. CASE \E c \in Commands : Run(c)
    BY <1>1, RunG
  <1>2. CASE Send
    BY <1>2, SendG
  <1>3. CASE Expire
    BY <1>3, ExpireG
  <1>4. CASE Drop
    BY <1>4, DropG
  <1>5. CASE Collect
    BY <1>5, CollectG
  <1>6. CASE Complete
    BY <1>6, CompleteG
  <1>7. CASE ShellStart
    BY <1>7, ShellStartG
  <1>8. CASE ShellFinish
    BY <1>8, ShellFinishG
  <1>9. CASE ShellEats
    BY <1>9, ShellEatsG
  <1>10. CASE Printk
    BY <1>10, PrintkG
  <1>11. CASE PrintkTearsMarker
    BY <1>11, PrintkTearsMarkerG
  <1>12. CASE UNCHANGED vars
    BY <1>12, StutterG
  <1>13. QED
    BY <1>1, <1>2, <1>3, <1>4, <1>5, <1>6, <1>7, <1>8, <1>9, <1>10, <1>11, <1>12 DEF Next

\* The inductive invariant: the calls are taken in order by the page and by
\* the shell, the line carries in that order what the shell printed for each,
\* and every reply read out of it so far was its own.
THEOREM GuestInv == Spec => []GInv
  <1>1. Init => GInv
    BY InitG
  <1>2. GInv /\ [Next]_vars => GInv'
    BY NextG
  <1>3. QED  BY <1>1, <1>2, PTL DEF Spec

\* However many commands, with statuses of however many digits, however the
\* console breaks in and however late an answer comes, no failed command is
\* reported as a success nor the reverse (guest.js:59-63, 73-75).
THEOREM NeverAFalseVerdict == Spec => []NoFalseVerdict
  <1>1. GInv => NoFalseVerdict
    BY DEF GInv, ReplyInv
  <1>2. QED  BY <1>1, GuestInv, PTL

\* A reply holds the output of its own command, and no output of another one,
\* given up on or not (guest.js:13-14).
THEOREM OnlyItsOutput == Spec => []OwnOutputOnly
  <1>1. GInv => OwnOutputOnly
    BY DEF GInv, ReplyInv
  <1>2. QED  BY <1>1, GuestInv, PTL

-----------------------------------------------------------------------------
(* A quiet console.                                                        *)

\* The answer to a call has begun behind the first k tokens of a line.
Begun(L, k, id) ==
  /\ k \in Nat /\ Len(L) = k + 4
  /\ L[k + 1] = Newline /\ L[k + 2] = Tok("BEG", id) /\ L[k + 3] = Newline
  /\ L[k + 4] = Out(id)

\* It is all there, with its standard error and its status, and nothing else.
Answered(L, k, id, err, status) ==
  /\ k \in Nat /\ Len(L) = k + 10 + Len(err) + Len(status)
  /\ L[k + 1] = Newline /\ L[k + 2] = Tok("BEG", id) /\ L[k + 3] = Newline
  /\ L[k + 4] = Out(id)
  /\ L[k + 5] = Newline /\ L[k + 6] = Tok("ERR", id) /\ L[k + 7] = Newline
  /\ \A i \in 1..Len(err) : L[k + 7 + i] = err[i]
  /\ L[k + 8 + Len(err)] = Newline
  /\ L[k + 9 + Len(err)] = Tok("END", id)
  /\ \A i \in 1..Len(status) : L[k + 9 + Len(err) + i] = Tok("digit", status[i])
  /\ L[k + 10 + Len(err) + Len(status)] = Newline

\* What is printed for a call is printed once.
LEMMA OnlyOnce ==
  ASSUME NEW L \in Seq(Tokens), Ordered(L), NEW p \in 1..Len(L), NEW q \in 1..Len(L),
         L[p] = L[q], Owned(L[p])
  PROVE  p = q
  <1>1. L[p].id \in Nat
    <2>1. L[p] \in Tokens
      OBVIOUS
    <2>2. QED  BY <2>1, SMTT(30) DEF Tokens
  <1>2. ~Before(L[p], L[p])
    BY <1>1 DEF Before, Rank
  <1>3. ASSUME p < q PROVE FALSE
    BY <1>2, <1>3 DEF Ordered
  <1>4. ASSUME q < p PROVE FALSE
    BY <1>2, <1>4 DEF Ordered
  <1>5. QED  BY <1>3, <1>4

\* A status is its digits, up to the end of their line.
LEMMA StatusIs ==
  ASSUME NEW s \in Seq(Tokens), NEW n \in 1..Len(s), NEW status \in Seq(0..9),
         n + Len(status) + 1 <= Len(s),
         \A i \in 1..Len(status) : s[n + i] = Tok("digit", status[i]),
         s[n + Len(status) + 1] = Newline
  PROVE  StatusAt(s, n) = status
  <1> DEFINE stops == {q \in (n + 1)..Len(s) : s[q].what # "digit"} \cup {Len(s) + 1}
  <1>1. Len(s) \in Nat /\ Len(status) \in Nat
    OBVIOUS
  <1>2. PICK d \in Nat : d = Len(status)
    BY <1>1
  <1>3. n + d + 1 \in stops
    BY <1>1, <1>2 DEF Newline, Tok
  <1>4. ASSUME NEW q \in stops PROVE n + d + 1 <= q
    <2>1. ASSUME q < n + d + 1 PROVE FALSE
      <3>1. q \in (n + 1)..Len(s) /\ s[q].what # "digit"
        BY <1>1, <1>2, <1>4, <2>1
      <3>2. q - n \in 1..Len(status) /\ n + (q - n) = q
        BY <3>1, <2>1, <1>1, <1>2
      <3>3. s[q] = Tok("digit", status[q - n])
        BY <3>2
      <3>4. QED  BY <3>1, <3>3 DEF Tok
    <2>2. q \in Nat
      BY <1>1
    <2>3. QED  BY <2>1, <2>2, <1>1, <1>2
  <1>5. stops \subseteq Nat
    BY <1>1
  <1>6. StatusAt(s, n) = [i \in 1..(Min(stops) - n - 1) |-> s[n + i].id]
    BY DEF StatusAt
  <1> HIDE DEF stops
  <1>7. Min(stops) \in stops /\ \A y \in stops : Min(stops) <= y
    BY <1>3, <1>5, MinOfSome
  <1>8. Min(stops) = n + d + 1
    <2>1. Min(stops) <= n + d + 1 /\ n + d + 1 <= Min(stops) /\ Min(stops) \in Nat
      BY <1>3, <1>4, <1>5, <1>7
    <2>2. QED  BY <2>1, <1>2
  <1>9. StatusAt(s, n) = [i \in 1..Len(status) |-> s[n + i].id]
    <2>1. Min(stops) - n - 1 = Len(status)
      BY <1>1, <1>2, <1>8
    <2>2. QED  BY <2>1, <1>6
  <1>10. ASSUME NEW i \in 1..Len(status) PROVE s[n + i].id = status[i]
    <2>1. s[n + i] = Tok("digit", status[i])
      OBVIOUS
    <2>2. QED  BY <2>1 DEF Tok
  <1>11. status = [i \in 1..Len(status) |-> status[i]]
    OBVIOUS
  <1>12. QED  BY <1>9, <1>10, <1>11

\* Of a set of one position the first is that one.
LEMMA FirstOfOne ==
  ASSUME NEW T, NEW x \in Nat, T = {x}
  PROVE  FirstOf(T) = x
  <1>1. T \subseteq Nat /\ T # {}
    OBVIOUS
  <1>2. Min(T) \in T
    BY <1>1, MinOfSome
  <1>3. QED  BY <1>1, <1>2 DEF FirstOf

\* One token of a line.
LEMMA OneToken ==
  ASSUME NEW s \in Seq(Tokens), NEW p \in 1..Len(s)
  PROVE  SubSeq(s, p, p) = <<s[p]>>
  <1>1. p \in Int /\ (\A i \in p..p : s[i] \in Tokens)
    OBVIOUS
  <1>2. PICK x : x = SubSeq(s, p, p)
    OBVIOUS
  <1>3. x \in Seq(Tokens) /\ Len(x) = 1 /\ x[1] = s[p]
    <2>1. /\ x \in Seq(Tokens)
          /\ Len(x) = IF p <= p THEN p - p + 1 ELSE 0
          /\ \A i \in 1..p - p + 1 : x[i] = s[p + i - 1]
      BY <1>1, <1>2, SubSeqProperties
    <2>2. p <= p /\ p - p + 1 = 1 /\ p + 1 - 1 = p /\ 1 \in 1..1
      BY <1>1
    <2>3. QED  BY <2>1, <2>2
  <1>4. PICK y : y = <<s[p]>>
    OBVIOUS
  <1>5. y \in Seq(Tokens) /\ Len(y) = 1 /\ y[1] = s[p]
    BY <1>4
  <1>6. x = y
    <2>1. \A i \in 1..Len(x) : x[i] = y[i]
      BY <1>3, <1>5
    <2>2. QED  BY <2>1, <1>3, <1>5, SeqEqual
  <1>7. QED  BY <1>2, <1>4, <1>6

\* A reply can be read of the part s of a line that ends with an answer.
Readable(s, c, k, id, err, status) ==
  /\ s \in Seq(Tokens) /\ c \in Seq(Tokens) /\ id \in Nat
  /\ err \in {<<>>, <<Err(id)>>} /\ status \in Seq(0..9)
  /\ Ordered(s \o c) /\ Answered(s \o c, k, id, err, status)
  /\ parseReply(id, s).kind = "reply"

\* What is read of it is exact.
LEMMA ExactRead ==
  ASSUME NEW s, NEW c, NEW k, NEW id, NEW err, NEW status,
         Readable(s, c, k, id, err, status)
  PROVE  /\ parseReply(id, s).status = status
         /\ parseReply(id, s).stdout = <<Out(id)>>
         /\ parseReply(id, s).stderr = err
  <1>0. /\ s \in Seq(Tokens) /\ c \in Seq(Tokens) /\ id \in Nat
        /\ err \in {<<>>, <<Err(id)>>} /\ status \in Seq(0..9)
        /\ Ordered(s \o c) /\ Answered(s \o c, k, id, err, status)
        /\ parseReply(id, s).kind = "reply"
    BY Zenon DEF Readable
  <1>1. PICK L : L = s \o c
    OBVIOUS
  <1>2. /\ L \in Seq(Tokens) /\ Len(s) \in Nat /\ Len(L) \in Nat /\ Len(L) >= Len(s)
        /\ \A i \in 1..Len(s) : L[i] = s[i]
    BY <1>0, <1>1, Joined
  <1>3. Ordered(L) /\ Answered(L, k, id, err, status)
    BY <1>0, <1>1
  <1>4. PICK b, e, n \in 1..Len(s) : ReadAt(id, s, b, e, n)
    BY <1>0, ReplyRead
  <1>5. PICK r \in Nat : r = Len(err)
    BY <1>0
  <1>6. PICK d \in Nat : d = Len(status)
    BY <1>0
  <1>7. k \in Nat /\ Len(L) = k + 10 + r + d
    BY <1>3, <1>5, <1>6 DEF Answered
  <1>8. /\ L[k + 2] = Tok("BEG", id) /\ L[k + 6] = Tok("ERR", id)
        /\ L[k + 9 + r] = Tok("END", id)
        /\ L[k + 4] = Out(id)
        /\ \A i \in 1..r : L[k + 7 + i] = err[i]
        /\ \A i \in 1..d : L[k + 9 + r + i] = Tok("digit", status[i])
        /\ L[k + 10 + r + d] = Newline
    BY <1>3, <1>5, <1>6 DEF Answered
  <1>9. /\ k + 2 \in 1..Len(L) /\ k + 6 \in 1..Len(L) /\ k + 9 + r \in 1..Len(L)
    BY <1>7
  <1>10. /\ L[b] = Tok("BEG", id) /\ L[e] = Tok("ERR", id) /\ L[n] = Tok("END", id)
         /\ b \in 1..Len(L) /\ e \in 1..Len(L) /\ n \in 1..Len(L)
    <2>1. s[b] = Tok("BEG", id) /\ s[e] = Tok("ERR", id) /\ s[n] = Tok("END", id)
      BY <1>4 DEF ReadAt
    <2>2. b \in 1..Len(L) /\ e \in 1..Len(L) /\ n \in 1..Len(L)
      BY <1>2
    <2>3. L[b] = s[b] /\ L[e] = s[e] /\ L[n] = s[n]
      BY <1>2
    <2>4. QED  BY <2>1, <2>2, <2>3
  <1>11. Owned(Tok("BEG", id)) /\ Owned(Tok("ERR", id)) /\ Owned(Tok("END", id))
    BY DEF Owned, Tok
  <1>12. b = k + 2
    BY <1>2, <1>3, <1>8, <1>9, <1>10, <1>11, OnlyOnce
  <1>13. e = k + 6
    BY <1>2, <1>3, <1>8, <1>9, <1>10, <1>11, OnlyOnce
  <1>14. n = k + 9 + r
    <2>1. PICK m \in 1..Len(L) : m = k + 9 + r
      BY <1>9
    <2>2. L[m] = L[n] /\ Owned(L[n])
      BY <2>1, <1>8, <1>10, <1>11
    <2>3. QED  BY <2>1, <2>2, <1>2, <1>3, <1>10, OnlyOnce
  <1>15. n + d + 1 <= Len(s)
    <2>1. PICK q \in (n + 1)..Len(s) : s[q] = Newline
      BY <1>4 DEF ReadAt, Finished
    <2>2. ASSUME q <= n + d PROVE FALSE
      <3>1. q - n \in 1..d /\ k + 9 + r + (q - n) = q
        <4>1. q - n \in 1..d /\ q \in Int /\ n \in Int
          BY <2>1, <2>2, <1>2
        <4>2. QED  BY <4>1, <1>14
      <3>2. L[q] = Tok("digit", status[q - n])
        BY <3>1, <1>8
      <3>3. L[q] = Newline
        BY <2>1, <1>2
      <3>4. QED  BY <3>2, <3>3 DEF Newline, Tok
    <2>3. QED  BY <2>1, <2>2, <1>2
  <1>16. StatusAt(s, n) = status
    <2>1. \A i \in 1..Len(status) : s[n + i] = Tok("digit", status[i])
      <3>1. TAKE i \in 1..Len(status)
      <3>2. n + i \in 1..Len(s) /\ i \in 1..d /\ k + 9 + r + i = n + i
        BY <1>2, <1>6, <1>7, <1>14, <1>15
      <3>3. QED  BY <3>2, <1>2, <1>8
    <2>2. s[n + Len(status) + 1] = Newline /\ n + Len(status) + 1 <= Len(s)
      <3>1. n + d + 1 \in 1..Len(s) /\ n + d + 1 = k + 10 + r + d
        BY <1>2, <1>7, <1>14, <1>15
      <3>2. QED  BY <3>1, <1>2, <1>6, <1>8
    <2>3. QED  BY <2>1, <2>2, <1>0, StatusIs
  <1>17. /\ s[k + 4] = Out(id) /\ k + 4 \in 1..Len(s)
         /\ \A i \in 1..r : s[k + 7 + i] = err[i] /\ k + 7 + i \in 1..Len(s)
    <2>1. k + 10 + r + d <= Len(s)
      BY <1>2, <1>7, <1>14, <1>15
    <2>2. k + 4 \in 1..Len(s)
      BY <2>1, <1>2, <1>7
    <2>3. ASSUME NEW i \in 1..r PROVE k + 7 + i \in 1..Len(s)
      BY <2>1, <1>2, <1>7
    <2>4. QED  BY <2>2, <2>3, <1>2, <1>8
  <1>18. SubSeq(s, b + 2, e - 2) = <<Out(id)>>
    <2>1. b + 2 = k + 4 /\ e - 2 = k + 4
      BY <1>7, <1>12, <1>13
    <2>2. SubSeq(s, k + 4, k + 4) = <<s[k + 4]>>
      BY <1>0, <1>17, OneToken
    <2>3. QED  BY <2>1, <2>2, <1>17
  <1>19. SubSeq(s, e + 2, n - 2) = err
    <2>1. e + 2 = k + 8 /\ n - 2 = k + 7 + r
      BY <1>7, <1>13, <1>14
    <2>2. CASE err = <<>>
      <3>1. r = 0
        BY <2>2, <1>5
      <3>2. SubSeq(s, k + 8, k + 7) = <<>>
        BY <1>7 DEF SubSeq
      <3>3. QED  BY <2>1, <2>2, <3>1, <3>2, <1>7
    <2>3. CASE err = <<Err(id)>>
      <3>1. r = 1 /\ err[1] = Err(id)
        BY <2>3, <1>5
      <3>2. s[k + 8] = Err(id) /\ k + 8 \in 1..Len(s)
        <4>1. 1 \in 1..r /\ k + 7 + 1 = k + 8
          BY <3>1, <1>7
        <4>2. QED  BY <3>1, <4>1, <1>17
      <3>3. SubSeq(s, k + 8, k + 8) = <<s[k + 8]>>
        BY <3>2, <1>0, OneToken
      <3>4. n - 2 = k + 8
        BY <2>1, <3>1, <1>7
      <3>5. QED  BY <2>1, <2>3, <3>2, <3>3, <3>4
    <2>4. QED  BY <2>2, <2>3, <1>0
  <1>20. parseReply(id, s) =
           [kind |-> "reply", status |-> StatusAt(s, n),
            stdout |-> SubSeq(s, b + 2, e - 2), stderr |-> SubSeq(s, e + 2, n - 2)]
    BY <1>4 DEF ReadAt
  <1>21. QED  BY <1>16, <1>18, <1>19, <1>20

\* The one line that is a marker is found.
LEMMA LineFound ==
  ASSUME NEW L \in Seq(Tokens), Ordered(L), NEW id \in Nat, NEW what \in {"BEG", "ERR", "END"},
         NEW p \in 1..Len(L), L[p] = Tok(what, id), p > 1, L[p - 1] = Newline,
         NEW q \in (p + 1)..Len(L), L[q] = Newline
  PROVE  /\ FirstOf(LinesOf(L, what, id)) = p
         /\ L[p + 1] = Newline => FirstOf(MarkerLines(L, what, id)) = p
  <1>1. Owned(L[p]) /\ p \in Nat
    BY DEF Owned, Tok
  <1>2. p \in LinesOf(L, what, id)
    BY DEF LinesOf, StartsLine, Finished
  <1>3. ASSUME NEW m \in LinesOf(L, what, id) PROVE m = p
    <2>1. m \in 1..Len(L) /\ L[m] = Tok(what, id)
      BY DEF LinesOf
    <2>2. QED  BY <2>1, <1>1, OnlyOnce
  <1>4. LinesOf(L, what, id) = {p}
    BY <1>2, <1>3
  <1>5. L[p + 1] = Newline => MarkerLines(L, what, id) = {p}
    BY <1>4 DEF MarkerLines
  <1>6. QED  BY <1>1, <1>4, <1>5, FirstOfOne

\* An answer that has all arrived is a reply.
LEMMA ReadWhole ==
  ASSUME NEW L \in Seq(Tokens), Ordered(L), NEW id \in Nat, NEW k,
         NEW err \in Seq(Tokens), NEW status \in Seq(0..9), status # <<>>,
         Answered(L, k, id, err, status)
  PROVE  parseReply(id, L).kind = "reply"
  <1>1. PICK r \in Nat : r = Len(err)
    OBVIOUS
  <1>2. PICK d \in Nat : d = Len(status)
    OBVIOUS
  <1>3. k \in Nat /\ Len(L) = k + 10 + r + d
    BY <1>1, <1>2 DEF Answered
  <1>4. /\ L[k + 1] = Newline /\ L[k + 2] = Tok("BEG", id) /\ L[k + 3] = Newline
        /\ L[k + 5] = Newline /\ L[k + 6] = Tok("ERR", id) /\ L[k + 7] = Newline
        /\ L[k + 8 + r] = Newline /\ L[k + 9 + r] = Tok("END", id)
        /\ \A i \in 1..d : L[k + 9 + r + i] = Tok("digit", status[i])
        /\ L[k + 10 + r + d] = Newline
    BY <1>1, <1>2 DEF Answered
  <1>5. FirstOf(MarkerLines(L, "BEG", id)) = k + 2
    <2>1. /\ k + 2 \in 1..Len(L) /\ k + 2 > 1 /\ (k + 2) - 1 = k + 1 /\ (k + 2) + 1 = k + 3
          /\ k + 3 \in ((k + 2) + 1)..Len(L)
      BY <1>3
    <2>2. PICK p, q : p = k + 2 /\ q = k + 3
      OBVIOUS
    <2>3. /\ p \in 1..Len(L) /\ p > 1 /\ L[p] = Tok("BEG", id) /\ L[p - 1] = Newline
          /\ q \in (p + 1)..Len(L) /\ L[q] = Newline /\ L[p + 1] = Newline
      BY <2>1, <2>2, <1>4
    <2>4. QED  BY <2>2, <2>3, LineFound
  <1>6. FirstOf(MarkerLines(L, "ERR", id)) = k + 6
    <2>1. /\ k + 6 \in 1..Len(L) /\ k + 6 > 1 /\ (k + 6) - 1 = k + 5 /\ (k + 6) + 1 = k + 7
          /\ k + 7 \in ((k + 6) + 1)..Len(L)
      BY <1>3
    <2>2. PICK p, q : p = k + 6 /\ q = k + 7
      OBVIOUS
    <2>3. /\ p \in 1..Len(L) /\ p > 1 /\ L[p] = Tok("ERR", id) /\ L[p - 1] = Newline
          /\ q \in (p + 1)..Len(L) /\ L[q] = Newline /\ L[p + 1] = Newline
      BY <2>1, <2>2, <1>4
    <2>4. QED  BY <2>2, <2>3, LineFound
  <1>7. PICK n : n = k + 9 + r
    OBVIOUS
  <1>8. /\ n \in 1..Len(L) /\ n > 1 /\ n - 1 = k + 8 + r
        /\ k + 10 + r + d \in (n + 1)..Len(L) /\ n + d + 1 = k + 10 + r + d
    BY <1>3, <1>7
  <1>9. FirstOf(LinesOf(L, "END", id)) = n
    <2>1. PICK q : q = k + 10 + r + d
      OBVIOUS
    <2>2. /\ L[n] = Tok("END", id) /\ L[n - 1] = Newline
          /\ q \in (n + 1)..Len(L) /\ L[q] = Newline
      BY <2>1, <1>4, <1>7, <1>8
    <2>3. QED  BY <2>2, <1>8, LineFound
  <1>10. StatusAt(L, n) = status
    <2>1. n + Len(status) + 1 <= Len(L) /\ L[n + Len(status) + 1] = Newline
      BY <1>2, <1>3, <1>4, <1>8
    <2>2. \A i \in 1..Len(status) : L[n + i] = Tok("digit", status[i])
      BY <1>2, <1>4, <1>7
    <2>3. QED  BY <2>1, <2>2, <1>8, StatusIs
  <1>11. ~(k + 2 = 0 \/ k + 6 < k + 2 \/ n < k + 6)
    BY <1>3, <1>7
  <1>12. QED  BY <1>5, <1>6, <1>9, <1>10, <1>11 DEF parseReply

LEMMA NothingRead ==
  ASSUME NEW id
  PROVE  parseReply(id, <<>>).kind # "reply"
  <1>1. MarkerLines(<<>>, "BEG", id) = {}
    <2>1. LinesOf(<<>>, "BEG", id) = {}
      BY DEF LinesOf
    <2>2. QED  BY <2>1 DEF MarkerLines
  <1>2. FirstOf(MarkerLines(<<>>, "BEG", id)) = 0
    BY <1>1 DEF FirstOf
  <1>3. parseReply(id, <<>>) = NotYet
    BY <1>2 DEF parseReply
  <1>4. NotYet.kind # "reply"
    BY DEF NotYet
  <1>5. QED  BY <1>3, <1>4, Zenon

\* The shell prints the first marker and the output.
LEMMA StartIs ==
  ASSUME NEW L \in Seq(Tokens), NEW id \in Nat
  PROVE  Begun(L \o StartPart(id), Len(L), id)
  <1> DEFINE a == <<Newline, Tok("BEG", id), Newline>>
             b == <<Out(id)>>
             z == L \o (a \o b)
  <1>1. a \in Seq(Tokens) /\ b \in Seq(Tokens)
    BY TokensOf
  <1>2. /\ Len(a) = 3 /\ Len(b) = 1
        /\ a[1] = Newline /\ a[2] = Tok("BEG", id) /\ a[3] = Newline /\ b[1] = Out(id)
    OBVIOUS
  <1>3. StartPart(id) = a \o b
    BY DEF StartPart, BegPart, Marker
  <1> HIDE DEF a, b
  <1>4. /\ Len(z) = Len(L) + Len(a) + Len(b) /\ Len(L) \in Nat
        /\ \A i \in 1..Len(a) : z[Len(L) + i] = a[i]
        /\ \A i \in 1..Len(b) : z[Len(L) + Len(a) + i] = b[i]
    BY <1>1, Parts
  <1> HIDE DEF z
  <1>5. z[Len(L) + 3 + 1] = Out(id)
    <2>1. 1 \in 1..Len(b)
      BY <1>2
    <2>2. QED  BY <2>1, <1>2, <1>4
  <1>6. Begun(z, Len(L), id)
    <2>1. /\ z[Len(L) + 1] = Newline /\ z[Len(L) + 2] = Tok("BEG", id)
          /\ z[Len(L) + 3] = Newline
      BY <1>2, <1>4
    <2>2. Len(z) = Len(L) + 4 /\ Len(L) + 3 + 1 = Len(L) + 4
      BY <1>2, <1>4
    <2>3. QED  BY <2>1, <2>2, <1>4, <1>5 DEF Begun
  <1>7. QED  BY <1>3, <1>6 DEF z

\* The command ends, and its answer is all there.
LEMMA AnswerIs ==
  ASSUME NEW L \in Seq(Tokens), NEW k, NEW id \in Nat, Begun(L, k, id),
         NEW err \in Seq(Tokens), NEW status \in Seq(0..9), status # <<>>
  PROVE  Answered(((L \o ErrPart(id)) \o err) \o EndPart(id, status), k, id, err, status)
  <1>1. PICK a \in Seq(Tokens) : a = ErrPart(id)
    BY ErrPartGood
  <1>2. Len(a) = 3 /\ a[1] = Newline /\ a[2] = Tok("ERR", id) /\ a[3] = Newline
    BY <1>1 DEF ErrPart, Marker
  <1>3. PICK z : z = EndPart(id, status)
    OBVIOUS
  <1>4. /\ z \in Seq(Tokens) /\ Len(z) = Len(status) + 3
        /\ z[1] = Newline /\ z[2] = Tok("END", id)
        /\ \A i \in 1..Len(status) : z[2 + i] = Tok("digit", status[i])
        /\ z[Len(status) + 3] = Newline
    BY <1>3, EndIs
  <1>5. PICK r, d \in Nat : r = Len(err) /\ d = Len(status)
    OBVIOUS
  <1>6. /\ k \in Nat /\ Len(L) = k + 4
        /\ L[k + 1] = Newline /\ L[k + 2] = Tok("BEG", id) /\ L[k + 3] = Newline
        /\ L[k + 4] = Out(id)
    BY DEF Begun
  <1>7. PICK u : u = L \o a
    OBVIOUS
  <1>8. /\ u \in Seq(Tokens) /\ Len(u) = Len(L) + Len(a)
        /\ \A i \in 1..Len(L) : u[i] = L[i]
        /\ \A i \in 1..Len(a) : u[Len(L) + i] = a[i]
    BY <1>1, <1>7, Joined
  <1>9. PICK v : v = u \o err
    OBVIOUS
  <1>10. /\ v \in Seq(Tokens) /\ Len(v) = Len(u) + Len(err)
         /\ \A i \in 1..Len(u) : v[i] = u[i]
         /\ \A i \in 1..Len(err) : v[Len(u) + i] = err[i]
    <2>1. u \in Seq(Tokens)
      BY <1>8
    <2>2. QED  BY <2>1, <1>9, Joined
  <1>11. PICK w : w = v \o z
    OBVIOUS
  <1>12. /\ Len(w) = Len(v) + Len(z)
         /\ \A i \in 1..Len(v) : w[i] = v[i]
         /\ \A i \in 1..Len(z) : w[Len(v) + i] = z[i]
    <2>1. v \in Seq(Tokens) /\ z \in Seq(Tokens)
      BY <1>4, <1>10
    <2>2. QED  BY <2>1, <1>11, Joined
  <1>13. /\ Len(u) = k + 7 /\ Len(v) = k + 7 + r /\ Len(w) = k + 10 + r + d
    BY <1>2, <1>4, <1>5, <1>6, <1>8, <1>10, <1>12
  <1>14. ASSUME NEW i \in 1..(k + 4) PROVE w[i] = L[i]
    <2>1. i \in 1..Len(L) /\ i \in 1..Len(u) /\ i \in 1..Len(v)
      BY <1>5, <1>6, <1>13
    <2>2. QED  BY <2>1, <1>8, <1>10, <1>12
  <1>15. ASSUME NEW i \in 1..3 PROVE w[k + 4 + i] = a[i]
    <2>1. i \in 1..Len(a) /\ k + 4 + i \in 1..Len(u) /\ k + 4 + i \in 1..Len(v)
      BY <1>2, <1>5, <1>6, <1>13
    <2>2. u[k + 4 + i] = a[i]
      BY <2>1, <1>6, <1>8
    <2>3. QED  BY <2>1, <2>2, <1>10, <1>12
  <1>16. ASSUME NEW i \in 1..Len(err) PROVE w[k + 7 + i] = err[i]
    <2>1. k + 7 + i \in 1..Len(v)
      BY <1>5, <1>6, <1>13
    <2>2. QED  BY <2>1, <1>10, <1>12, <1>13
  <1>17. ASSUME NEW i \in 1..Len(z) PROVE w[k + 7 + r + i] = z[i]
    BY <1>12, <1>13
  <1>18. /\ w[k + 1] = Newline /\ w[k + 2] = Tok("BEG", id) /\ w[k + 3] = Newline
         /\ w[k + 4] = Out(id)
    <2>1. k + 1 \in 1..(k + 4) /\ k + 2 \in 1..(k + 4) /\ k + 3 \in 1..(k + 4) /\ k + 4 \in 1..(k + 4)
      BY <1>6
    <2>2. QED  BY <2>1, <1>6, <1>14
  <1>19. w[k + 5] = Newline /\ w[k + 6] = Tok("ERR", id) /\ w[k + 7] = Newline
    <2>1. w[k + 4 + 1] = a[1] /\ w[k + 4 + 2] = a[2] /\ w[k + 4 + 3] = a[3]
      <3>1. 1 \in 1..3 /\ 2 \in 1..3 /\ 3 \in 1..3
        OBVIOUS
      <3>2. QED  BY <3>1, <1>15
    <2>2. k + 4 + 1 = k + 5 /\ k + 4 + 2 = k + 6 /\ k + 4 + 3 = k + 7
      BY <1>6
    <2>3. QED  BY <2>1, <2>2, <1>2
  <1>20. /\ w[k + 8 + r] = Newline /\ w[k + 9 + r] = Tok("END", id)
         /\ w[k + 10 + r + d] = Newline
    <2>1. 1 \in 1..Len(z) /\ 2 \in 1..Len(z) /\ d + 3 \in 1..Len(z)
      BY <1>4, <1>5
    <2>2. w[k + 7 + r + 1] = z[1] /\ w[k + 7 + r + 2] = z[2] /\ w[k + 7 + r + (d + 3)] = z[d + 3]
      BY <2>1, <1>17
    <2>3. /\ k + 7 + r + 1 = k + 8 + r /\ k + 7 + r + 2 = k + 9 + r
          /\ k + 7 + r + (d + 3) = k + 10 + r + d
      BY <1>5, <1>6
    <2>4. QED  BY <2>2, <2>3, <1>4, <1>5
  <1>21. ASSUME NEW i \in 1..Len(status) PROVE w[k + 9 + r + i] = Tok("digit", status[i])
    <2>1. 2 + i \in 1..Len(z) /\ k + 7 + r + (2 + i) = k + 9 + r + i
      BY <1>4, <1>5, <1>6
    <2>2. QED  BY <2>1, <1>4, <1>17
  <1>22. Answered(w, k, id, err, status)
    BY <1>5, <1>6, <1>13, <1>16, <1>18, <1>19, <1>20, <1>21 DEF Answered
  <1>23. QED  BY <1>1, <1>3, <1>7, <1>9, <1>11, <1>22

\* What has arrived for the call in flight is not a reply yet.
ReadInv == waiting # 0 => parseReply(waiting, stream).kind # "reply"

AnsweredFor(L, id) == \E k : Answered(L, k, id, StderrPart(id), cmd[id].status)

\* While the console has kept quiet the answer to the call in flight is at the
\* end of the line, as much of it as the shell has printed.
AnswerInv ==
  noise = MaxNoise /\ waiting # 0 =>
    /\ waiting = shell => \E k : Begun(Line, k, waiting)
    /\ waiting \in ran => AnsweredFor(Line, waiting)

Exact(id) ==
  /\ outcome[id].status = cmd[id].status
  /\ outcome[id].stdout = <<Out(id)>>
  /\ outcome[id].stderr = StderrPart(id)

ExactInv == noise = MaxNoise => \A id \in Calls : Replies(id) => Exact(id)

QuietInv == ReadInv /\ AnswerInv /\ ExactInv

LEMMA InitQ == Init => QuietInv
  <1> SUFFICES ASSUME Init PROVE QuietInv
    OBVIOUS
  <1>1. waiting = 0 /\ Len(outcome) = 0
    BY DEF Init
  <1>2. Calls = {}
    BY <1>1 DEF Calls
  <1>3. QED  BY <1>1, <1>2 DEF QuietInv, ReadInv, AnswerInv, ExactInv

\* The call in flight is the last one typed.
LEMMA LastSent ==
  ASSUME GInv, waiting # 0
  PROVE  waiting = Sent /\ waiting \in Calls /\ waiting \in Nat
  BY DEF GInv, TypeOK, QueueInv, Calls

LEMMA RunQ ==
  ASSUME GInv, QuietInv, NEW c \in Commands, Run(c)
  PROVE  QuietInv'
  <1>1. /\ cmd' = Append(cmd, c) /\ outcome' = Append(outcome, Pending)
        /\ UNCHANGED <<waiting, stream, shell, ran, wire, noise>>
    BY DEF Run, guestVars
  <1>2. PICK n \in Nat : n = Len(outcome)
    BY DEF GInv, TypeOK
  <1>3. /\ cmd \in Seq(Commands) /\ outcome \in Seq(Outcomes) /\ waiting \in 0..n
        /\ Len(cmd) = n
    BY <1>2 DEF GInv, TypeOK, Calls
  <1>4. /\ \A id \in 1..n : cmd'[id] = cmd[id] /\ outcome'[id] = outcome[id]
        /\ outcome'[n + 1] = Pending /\ Len(outcome') = n + 1
    <2>1. outcome \in Seq(Outcomes) /\ Pending \in Outcomes
      BY <1>3 DEF Outcomes
    <2>2. \A id \in 1..n : cmd'[id] = cmd[id]
      BY <1>1, <1>2, <1>3, AppendProperties
    <2>3. /\ \A id \in 1..n : outcome'[id] = outcome[id]
          /\ outcome'[n + 1] = Pending /\ Len(outcome') = n + 1
      BY <2>1, <1>1, <1>2, AppendProperties
    <2>4. QED  BY <2>2, <2>3
  <1>5. Calls = 1..n /\ Calls' = 1..(n + 1)
    BY <1>2, <1>4 DEF Calls
  <1>6. \A id \in 1..n : StderrPart(id)' = StderrPart(id)
    BY <1>4 DEF StderrPart
  <1>7. Line' = Line
    BY <1>1 DEF Line
  <1>8. ReadInv'
    BY <1>1 DEF QuietInv, ReadInv
  <1>9. AnswerInv'
    <2>1. ASSUME noise = MaxNoise, waiting # 0
          PROVE  /\ waiting = shell => \E k : Begun(Line', k, waiting)
                 /\ waiting \in ran => AnsweredFor(Line, waiting)'
      <3>1. waiting \in 1..n
        BY <2>1, <1>3
      <3>2. cmd'[waiting].status = cmd[waiting].status /\ StderrPart(waiting)' = StderrPart(waiting)
        BY <3>1, <1>1, <1>4, <1>6
      <3>3. AnsweredFor(Line, waiting) => AnsweredFor(Line, waiting)'
        BY <3>2, <1>1, <1>7, Zenon DEF AnsweredFor
      <3>4. QED  BY <2>1, <3>3, <1>7 DEF QuietInv, AnswerInv
    <2>2. QED  BY <2>1, <1>1 DEF AnswerInv
  <1>10. ExactInv'
    <2>1. ASSUME noise = MaxNoise, NEW id \in Calls', Replies(id)'
          PROVE  Exact(id)'
      <3>1. id \in 1..n
        <4>1. id # n + 1
          BY <2>1, <1>4 DEF Replies, Pending
        <4>2. QED  BY <4>1, <1>5
      <3>2. Replies(id) /\ Exact(id)
        BY <2>1, <3>1, <1>4, <1>5 DEF Replies, QuietInv, ExactInv
      <3>3. QED  BY <3>1, <3>2, <1>4, <1>6 DEF Exact
    <2>2. QED  BY <2>1, <1>1 DEF ExactInv
  <1>11. QED  BY <1>8, <1>9, <1>10 DEF QuietInv

\* The replies stay as they are.
LEMMA ExactStays ==
  ASSUME QuietInv, UNCHANGED <<cmd, outcome, noise>>
  PROVE  ExactInv'
  BY DEF QuietInv, ExactInv, Exact, Replies, StderrPart, Calls

\* A console line ends the quiet.
LEMMA Noisy ==
  ASSUME GInv, QuietInv, noise' = noise - 1, UNCHANGED <<waiting, stream>>
  PROVE  QuietInv'
  <1>1. noise' # MaxNoise
    BY GuestAssumption DEF GInv, TypeOK
  <1>2. ReadInv'
    BY DEF QuietInv, ReadInv
  <1>3. QED  BY <1>1, <1>2 DEF QuietInv, AnswerInv, ExactInv

LEMMA SendQ ==
  ASSUME GInv, QuietInv, Send
  PROVE  QuietInv'
  <1>1. /\ queue # <<>> /\ waiting' = Head(queue) /\ stream' = <<>>
        /\ UNCHANGED <<cmd, outcome, shell, ran, noise>>
    BY DEF Send
  <1>2. Head(queue) = Sent + 1 /\ Sent \in Int
    <2>1. queue \in Seq(Calls) /\ Len(queue) \in Nat /\ Len(outcome) \in Nat
      BY DEF GInv, TypeOK
    <2>2. 1 \in 1..Len(queue) /\ Head(queue) = queue[1]
      BY <2>1, <1>1
    <2>3. QED  BY <2>1, <2>2 DEF GInv, QueueInv, Sent
  <1>3. ReadInv'
    <2>1. PICK id : id = waiting'
      OBVIOUS
    <2>2. parseReply(id, <<>>).kind # "reply"
      BY NothingRead
    <2>3. parseReply(waiting', stream').kind # "reply"
      BY <2>1, <2>2, <1>1
    <2>4. QED  BY <2>3 DEF ReadInv
  <1>4. waiting' # shell' /\ waiting' \notin ran'
    <2>1. shell <= Sent /\ shell \in Int
      BY DEF GInv, TypeOK, ShellInv, Calls
    <2>2. \A j \in ran : j \in Int /\ j <= Sent
      BY DEF GInv, TypeOK, ShellInv, Calls
    <2>3. QED  BY <2>1, <2>2, <1>1, <1>2
  <1>5. QED  BY <1>1, <1>3, <1>4, ExactStays DEF AnswerInv, QuietInv

LEMMA ExpireQ ==
  ASSUME GInv, QuietInv, Expire
  PROVE  QuietInv'
  <1>1. /\ waiting # 0 /\ waiting' = 0 /\ outcome' = [outcome EXCEPT ![waiting] = TimedOut]
        /\ UNCHANGED <<cmd, noise>>
    BY DEF Expire, guestVars
  <1>2. /\ waiting \in Calls /\ outcome \in Seq(Outcomes) /\ Calls' = Calls
        /\ \A id \in Calls : outcome'[id] = IF id = waiting THEN TimedOut ELSE outcome[id]
    <2>1. waiting \in 1..Len(outcome) /\ outcome \in Seq(Outcomes)
      BY <1>1 DEF GInv, TypeOK, Calls
    <2>2. TimedOut \in Outcomes
      BY DEF Outcomes
    <2>3. /\ Len(outcome') = Len(outcome)
          /\ \A id \in 1..Len(outcome) :
               outcome'[id] = IF id = waiting THEN TimedOut ELSE outcome[id]
      BY <2>1, <2>2, <1>1, ExceptSeq
    <2>4. QED  BY <2>1, <2>3 DEF Calls
  <1>3. ASSUME noise = MaxNoise, NEW id \in Calls, Replies(id)'
        PROVE  Exact(id)'
    <2>1. outcome'[id] = outcome[id]
      BY <1>2, <1>3 DEF Replies, TimedOut
    <2>2. Replies(id) /\ Exact(id)
      BY <2>1, <1>3 DEF Replies, QuietInv, ExactInv
    <2>3. QED  BY <2>1, <2>2, <1>1 DEF Exact, StderrPart
  <1>4. QED  BY <1>1, <1>2, <1>3 DEF QuietInv, ReadInv, AnswerInv, ExactInv

LEMMA DropQ ==
  ASSUME QuietInv, Drop
  PROVE  QuietInv'
  <1>1. waiting = 0 /\ UNCHANGED <<cmd, outcome, waiting, stream, noise>>
    BY DEF Drop, hostVars
  <1>2. ExactInv'
    BY <1>1, ExactStays
  <1>3. QED  BY <1>1, <1>2 DEF QuietInv, ReadInv, AnswerInv

LEMMA CollectQ ==
  ASSUME GInv, QuietInv, Collect
  PROVE  QuietInv'
  <1>1. /\ wire # <<>> /\ stream' = Append(stream, Head(wire)) /\ wire' = Tail(wire)
        /\ parseReply(waiting, stream').kind # "reply"
        /\ UNCHANGED <<cmd, outcome, waiting, shell, ran, noise>>
    BY DEF Collect
  <1>2. Line' = Line
    BY <1>1, Arrives DEF GInv, Line
  <1>3. ReadInv'
    BY <1>1 DEF ReadInv
  <1>4. AnswerInv'
    BY <1>1, <1>2 DEF QuietInv, AnswerInv, AnsweredFor, StderrPart
  <1>5. QED  BY <1>1, <1>3, <1>4, ExactStays DEF QuietInv

LEMMA CompleteQ ==
  ASSUME GInv, QuietInv, Complete
  PROVE  QuietInv'
  <1>1. PICK reply : reply = parseReply(waiting, Append(stream, Head(wire)))
    OBVIOUS
  <1>2. /\ wire # <<>> /\ waiting # 0 /\ reply.kind = "reply"
        /\ outcome' = [outcome EXCEPT ![waiting] = reply]
        /\ waiting' = 0 /\ UNCHANGED <<cmd, noise>>
    BY <1>1 DEF Complete
  <1>3. waiting \in ran
    BY CompleteG
  <1>4. waiting \in Calls /\ Calls' = Calls
        /\ outcome'[waiting] = reply
        /\ \A id \in Calls : id # waiting => outcome'[id] = outcome[id]
    <2>1. outcome \in Seq(Outcomes) /\ waiting \in 1..Len(outcome)
      BY <1>2 DEF GInv, TypeOK, Calls
    <2>2. Len(outcome') = Len(outcome)
      BY <2>1, <1>2
    <2>3. outcome'[waiting] = reply /\ \A id \in 1..Len(outcome) :
             id # waiting => outcome'[id] = outcome[id]
      BY <2>1, <1>2
    <2>4. QED  BY <2>1, <2>2, <2>3 DEF Calls
  <1>5. ASSUME noise = MaxNoise
        PROVE  /\ reply.status = cmd[waiting].status
               /\ reply.stdout = <<Out(waiting)>>
               /\ reply.stderr = StderrPart(waiting)
    <2>1. PICK s, c \in Seq(Tokens) : /\ s = Append(stream, Head(wire)) /\ c = Tail(wire)
                                      /\ s \o c = Line
      BY <1>2, Arrives DEF GInv
    <2>2. PICK k : Answered(Line, k, waiting, StderrPart(waiting), cmd[waiting].status)
      BY <1>2, <1>3, <1>5 DEF QuietInv, AnswerInv, AnsweredFor
    <2>3. PICK id, err, status : /\ id = waiting /\ err = StderrPart(waiting)
                                 /\ status = cmd[waiting].status
      OBVIOUS
    <2>4. id \in Nat /\ err \in {<<>>, <<Err(id)>>} /\ status \in Seq(0..9)
      <3>1. id \in Calls /\ id \in Nat /\ TypeOK
        BY <2>3, <1>4 DEF GInv, Calls
      <3>2. StderrPart(id) \in {<<>>, <<Err(id)>>}
        BY <3>1, PartsTyped
      <3>3. cmd[id].status \in Seq(0..9)
        BY <3>1, StatusOf
      <3>4. QED  BY <2>3, <3>1, <3>2, <3>3
    <2>5. Ordered(s \o c) /\ Answered(s \o c, k, id, err, status)
      BY <2>1, <2>2, <2>3 DEF GInv, LineInv, Good
    <2>6. reply = parseReply(id, s) /\ reply.kind = "reply"
      BY <2>1, <2>3, <1>1, <1>2
    <2>7. /\ parseReply(id, s).status = status
          /\ parseReply(id, s).stdout = <<Out(id)>>
          /\ parseReply(id, s).stderr = err
      <3>1. Readable(s, c, k, id, err, status)
        BY <2>4, <2>5, <2>6, Zenon DEF Readable
      <3>2. QED  BY <3>1, ExactRead, Zenon
    <2>8. QED  BY <2>3, <2>6, <2>7
  <1>6. ASSUME noise = MaxNoise, NEW id \in Calls, Replies(id)'
        PROVE  Exact(id)'
    <2>1. StderrPart(id)' = StderrPart(id) /\ cmd' = cmd
      BY <1>2 DEF StderrPart
    <2>2. CASE id = waiting
      BY <2>1, <2>2, <1>4, <1>5, <1>6 DEF Exact
    <2>3. CASE id # waiting
      <3>1. outcome'[id] = outcome[id] /\ Replies(id)
        BY <2>3, <1>4, <1>6 DEF Replies
      <3>2. Exact(id)
        BY <3>1, <1>6 DEF QuietInv, ExactInv
      <3>3. QED  BY <3>1, <3>2, <2>1 DEF Exact
    <2>4. QED  BY <2>2, <2>3
  <1>7. QED  BY <1>2, <1>4, <1>6 DEF QuietInv, ReadInv, AnswerInv, ExactInv

LEMMA ShellStartQ ==
  ASSUME GInv, QuietInv, ShellStart
  PROVE  QuietInv'
  <1>1. PICK h : h = Head(typed)
    OBVIOUS
  <1>2. /\ typed # <<>> /\ shell' = h
        /\ wire' = (wire \o BegPart(h)) \o <<Out(h)>>
        /\ UNCHANGED <<cmd, outcome, waiting, stream, ran, noise>>
    BY <1>1 DEF ShellStart, hostVars
  <1>3. h \in Calls /\ h \in Nat /\ h <= Sent /\ \A j \in ran : j < h /\ j \in Nat
    BY <1>1, <1>2, FirstTyped DEF GInv, TypeOK, Calls
  <1>4. ReadInv'
    BY <1>2 DEF QuietInv, ReadInv
  <1>5. ASSUME waiting # 0, waiting \in ran PROVE FALSE
    BY <1>3, <1>5, LastSent
  <1>6. ASSUME waiting = h PROVE \E k : Begun(Line', k, waiting)
    <2>1. /\ stream \in Seq(Tokens) /\ wire \in Seq(Tokens) /\ Line \in Seq(Tokens)
          /\ BegPart(h) \in Seq(Tokens) /\ <<Out(h)>> \in Seq(Tokens)
          /\ StartPart(h) \in Seq(Tokens)
      BY <1>3, Typed, PartsTyped, StartPartGood DEF GInv
    <2>2. wire' = wire \o StartPart(h)
      <3>1. wire \o (BegPart(h) \o <<Out(h)>>) = (wire \o BegPart(h)) \o <<Out(h)>>
        BY <2>1, Grouped
      <3>2. QED  BY <3>1, <1>2 DEF StartPart
    <2>3. stream \o (wire \o StartPart(h)) = (stream \o wire) \o StartPart(h)
      BY <2>1, Grouped
    <2>4. Line' = Line \o StartPart(h)
      BY <2>2, <2>3, <1>2 DEF Line
    <2>5. Begun(Line \o StartPart(h), Len(Line), h)
      BY <2>1, <1>3, StartIs
    <2>6. QED  BY <2>4, <2>5, <1>6
  <1>7. AnswerInv'
    BY <1>2, <1>5, <1>6 DEF AnswerInv
  <1>8. QED  BY <1>2, <1>4, <1>7, ExactStays DEF QuietInv

LEMMA ShellFinishQ ==
  ASSUME GInv, QuietInv, ShellFinish
  PROVE  QuietInv'
  <1>1. /\ shell # 0 /\ shell' = 0 /\ ran' = ran \cup {shell}
        /\ wire' = wire \o ErrPart(shell) \o StderrPart(shell)
                        \o EndPart(shell, cmd[shell].status)
        /\ UNCHANGED <<cmd, outcome, waiting, stream, noise>>
    BY DEF ShellFinish, hostVars
  <1>2. /\ shell \in Calls /\ shell \in Nat /\ shell <= Sent
        /\ \A j \in ran : j < shell /\ j \in Nat
    BY <1>1 DEF GInv, TypeOK, ShellInv, Calls
  <1>3. ReadInv'
    BY <1>1 DEF QuietInv, ReadInv
  <1>4. ASSUME waiting # 0, waiting \in ran PROVE FALSE
    BY <1>2, <1>4, LastSent
  <1>5. ASSUME noise = MaxNoise, waiting # 0, waiting = shell
        PROVE  AnsweredFor(Line', waiting)
    <2>1. PICK k : Begun(Line, k, waiting)
      BY <1>5 DEF QuietInv, AnswerInv
    <2>2. PICK id, e, err, status, n :
             /\ id = waiting /\ e = ErrPart(id) /\ err = StderrPart(id)
             /\ status = cmd[id].status /\ n = EndPart(id, status)
      OBVIOUS
    <2>3. id \in Calls /\ id \in Nat
      BY <2>2, <1>2, <1>5
    <2>4. status \in Seq(0..9) /\ status # <<>>
      BY <2>2, <2>3, StatusOf DEF GInv
    <2>5. /\ e \in Seq(Tokens) /\ err \in Seq(Tokens) /\ n \in Seq(Tokens)
          /\ stream \in Seq(Tokens) /\ wire \in Seq(Tokens) /\ Line \in Seq(Tokens)
      BY <2>2, <2>3, PartsTyped, Typed DEF GInv
    <2>6. AllAtOnce(stream, wire, e, err, n)
      BY <2>5, GroupedThrice
    <2>7. Line' = ((Line \o e) \o err) \o n
      BY <2>2, <2>6, <1>1, <1>5 DEF AllAtOnce, Line
    <2>8. Answered(((Line \o ErrPart(id)) \o err) \o EndPart(id, status), k, id, err, status)
      BY <2>1, <2>2, <2>3, <2>4, <2>5, AnswerIs
    <2>9. QED  BY <2>2, <2>7, <2>8 DEF AnsweredFor
  <1>6. AnswerInv'
    <2>1. ASSUME noise = MaxNoise, waiting # 0, waiting \in ran \cup {shell}
          PROVE  AnsweredFor(Line, waiting)'
      <3>1. AnsweredFor(Line', waiting)
        BY <2>1, <1>4, <1>5
      <3>2. QED  BY <3>1, <1>1 DEF AnsweredFor, StderrPart
    <2>2. QED  BY <2>1, <1>1 DEF AnswerInv
  <1>7. QED  BY <1>1, <1>3, <1>6, ExactStays DEF QuietInv

LEMMA ShellEatsQ ==
  ASSUME GInv, QuietInv, ShellEats
  PROVE  QuietInv'
  <1>1. /\ shell # 0 /\ typed # <<>> /\ ran' = ran \cup {shell} /\ shell' = 0
        /\ UNCHANGED <<cmd, outcome, waiting, stream, noise>>
    BY DEF ShellEats, hostVars
  <1>2. ReadInv'
    BY <1>1 DEF QuietInv, ReadInv
  <1>3. PICK h \in Calls : h \in Nat /\ h <= Sent /\ shell < h /\ \A j \in ran : j < h
    BY <1>1, FirstTyped DEF GInv, Calls
  <1>4. ASSUME waiting # 0 PROVE waiting # shell /\ waiting \notin ran
    BY <1>3, <1>4, LastSent DEF GInv, TypeOK, Calls
  <1>5. AnswerInv'
    BY <1>1, <1>4 DEF AnswerInv
  <1>6. QED  BY <1>1, <1>2, <1>5, ExactStays DEF QuietInv

LEMMA NextQ ==
  ASSUME GInv, QuietInv, [Next]_vars
  PROVE  QuietInv'
  <1>1. CASE \E c \in Commands : Run(c)
    BY <1>1, RunQ
  <1>2. CASE Send
    BY <1>2, SendQ
  <1>3. CASE Expire
    BY <1>3, ExpireQ
  <1>4. CASE Drop
    BY <1>4, DropQ
  <1>5. CASE Collect
    BY <1>5, CollectQ
  <1>6. CASE Complete
    BY <1>6, CompleteQ
  <1>7. CASE ShellStart
    BY <1>7, ShellStartQ
  <1>8. CASE ShellFinish
    BY <1>8, ShellFinishQ
  <1>9. CASE ShellEats
    BY <1>9, ShellEatsQ
  <1>10. CASE Printk
    BY <1>10, Noisy DEF Printk, hostVars
  <1>11. CASE PrintkTearsMarker
    BY <1>11, Noisy DEF PrintkTearsMarker, hostVars
  <1>12. CASE UNCHANGED vars
    <2>1. UNCHANGED <<cmd, outcome, waiting, stream, shell, ran, wire, noise>>
      BY <1>12 DEF vars, hostVars, guestVars
    <2>2. ReadInv' /\ AnswerInv'
      BY <2>1 DEF QuietInv, ReadInv, AnswerInv, AnsweredFor, StderrPart, Line
    <2>3. QED  BY <2>1, <2>2, ExactStays DEF QuietInv
  <1>13. QED
    BY <1>1, <1>2, <1>3, <1>4, <1>5, <1>6, <1>7, <1>8, <1>9, <1>10, <1>11, <1>12 DEF Next

\* With a quiet console the reply is exact to the newline, and an answer that
\* has all arrived has been recognised, of however many lines and digits
\* (guest.js:86-89).
THEOREM ExactOnAQuietLine == Spec => []ExactWhenQuiet
  <1>1. Init => GInv /\ QuietInv
    BY InitG, InitQ
  <1>2. GInv /\ QuietInv /\ [Next]_vars => GInv' /\ QuietInv'
    BY NextG, NextQ
  <1>3. ASSUME GInv, QuietInv PROVE ExactWhenQuiet
    <2>1. ASSUME noise = MaxNoise, waiting \in ran, wire = <<>> PROVE FALSE
      <3>1. waiting \in Calls /\ waiting \in Nat /\ waiting # 0
        BY <2>1, <1>3 DEF GInv, TypeOK, Calls
      <3>2. Line = stream /\ stream \in Seq(Tokens) /\ Ordered(stream)
        <4>1. stream \in Seq(Tokens)
          BY <1>3 DEF GInv, TypeOK
        <4>2. Line = stream
          BY <4>1, <2>1, ConcatEmptySeq DEF Line
        <4>3. QED  BY <4>1, <4>2, <1>3 DEF GInv, LineInv, Good
      <3>3. PICK k : Answered(stream, k, waiting, StderrPart(waiting), cmd[waiting].status)
        BY <2>1, <3>1, <3>2, <1>3 DEF QuietInv, AnswerInv, AnsweredFor
      <3>4. /\ StderrPart(waiting) \in Seq(Tokens)
            /\ cmd[waiting].status \in Seq(0..9) /\ cmd[waiting].status # <<>>
        BY <3>1, <1>3, PartsTyped, StatusOf DEF GInv
      <3>5. PICK err, status : err = StderrPart(waiting) /\ status = cmd[waiting].status
        OBVIOUS
      <3>6. err \in Seq(Tokens) /\ status \in Seq(0..9) /\ status # <<>>
            /\ Answered(stream, k, waiting, err, status)
        BY <3>3, <3>4, <3>5
      <3>7. parseReply(waiting, stream).kind = "reply"
        BY <3>1, <3>2, <3>6, ReadWhole
      <3>8. QED  BY <3>1, <3>7, <1>3 DEF QuietInv, ReadInv
    <2>2. QED  BY <2>1, <1>3 DEF QuietInv, ExactInv, Exact, ExactWhenQuiet
  <1>4. QED  BY <1>1, <1>2, <1>3, PTL DEF Spec

-----------------------------------------------------------------------------
(* The queue its callers see.                                              *)

Works == [id \in 1..Len(cmd) |-> cmd[id].status = << 0 >>]
Verdicts == [id \in 1..Len(outcome) |-> Verdict(outcome[id])]
Hows == {"pending", "timeout", "ok", "failed"}

LEMMA VerdictOf ==
  /\ Verdict(Pending) = "pending" /\ Verdict(TimedOut) = "timeout"
  /\ \A o \in Outcomes : Verdict(o) \in Hows /\ (Verdict(o) = "pending" => o = Pending)
  /\ \A o : o.kind = "reply" => Verdict(o) = IF o.status = << 0 >> THEN "ok" ELSE "failed"
  <1>1. Verdict(Pending) = "pending" /\ Verdict(TimedOut) = "timeout"
    BY DEF Verdict, Pending, TimedOut
  <1>2. \A o : o.kind = "reply" => Verdict(o) = IF o.status = << 0 >> THEN "ok" ELSE "failed"
    BY DEF Verdict
  <1>3. ASSUME NEW o \in Outcomes
        PROVE  Verdict(o) \in Hows /\ (Verdict(o) = "pending" => o = Pending)
    <2>1. CASE o \in {Pending, TimedOut}
      BY <2>1, <1>1 DEF Hows
    <2>2. CASE o.kind = "reply"
      BY <2>2, <1>2 DEF Hows
    <2>3. QED  BY <2>1, <2>2 DEF Outcomes
  <1>4. QED  BY <1>1, <1>2, <1>3

LEMMA SeenTyped ==
  ASSUME TypeOK
  PROVE  /\ Works \in Seq(BOOLEAN) /\ Len(Works) = Len(cmd)
         /\ Verdicts \in Seq(Hows) /\ Len(Verdicts) = Len(outcome)
         /\ \A id \in Calls : Verdicts[id] = Verdict(outcome[id])
         /\ \A id \in Calls : Works[id] = (cmd[id].status = << 0 >>)
  <1>1. Len(cmd) \in Nat /\ Len(outcome) \in Nat /\ Len(cmd) = Len(outcome)
    BY DEF TypeOK
  <1>2. Works \in Seq(BOOLEAN) /\ Len(Works) = Len(cmd)
    BY <1>1 DEF Works
  <1>3. \A id \in 1..Len(outcome) : Verdict(outcome[id]) \in Hows
    BY Typed, VerdictOf DEF Calls
  <1>4. Verdicts \in Seq(Hows) /\ Len(Verdicts) = Len(outcome)
    BY <1>1, <1>3 DEF Verdicts
  <1>5. QED  BY <1>1, <1>2, <1>4 DEF Works, Verdicts, Calls

\* Nobody before the call being run, or waited for, is still waiting.
LEMMA AllBefore ==
  ASSUME TypeOK, QueueInv, NEW k \in Calls, k <= Sent
  PROVE  S!Reached(k)
  <1>1. ASSUME NEW j \in 1..(k - 1) PROVE Verdicts[j] # "pending"
    <2>1. j \in Calls /\ j < Sent /\ j \in Nat /\ j # 0 /\ Sent \in Int
      BY Typed DEF Calls
    <2>2. outcome[j] # Pending
      BY <2>1 DEF QueueInv
    <2>3. outcome[j] \in Outcomes
      BY <2>1, Typed
    <2>4. Verdict(outcome[j]) # "pending"
      BY <2>2, <2>3, VerdictOf
    <2>5. QED  BY <2>1, <2>4, SeenTyped
  <1>2. QED  BY <1>1 DEF S!Reached, Verdicts

LEMMA InitSeen == Init => S!Init
  <1>1. ASSUME Init PROVE S!Init
    <2>1. Len(cmd) = 0 /\ Len(outcome) = 0 /\ ran = {}
      BY <1>1 DEF Init
    <2>2. QED  BY <2>1 DEF S!Init
  <1>2. QED  BY <1>1

LEMMA RunSeen ==
  ASSUME GInv, GInv', NEW c \in Commands, Run(c)
  PROVE  S!Ask(c.status = << 0 >>)
  <1>1. /\ Len(outcome) < MaxCalls /\ cmd' = Append(cmd, c)
        /\ outcome' = Append(outcome, Pending) /\ ran' = ran
    BY DEF Run, guestVars
  <1>2. TypeOK /\ TypeOK'
    BY DEF GInv
  <1>3. /\ Works \in Seq(BOOLEAN) /\ Len(Works) = Len(cmd)
        /\ Verdicts \in Seq(Hows) /\ Len(Verdicts) = Len(outcome)
        /\ Len(cmd) \in Nat /\ Len(cmd) = Len(outcome)
    BY <1>2, SeenTyped DEF TypeOK
  <1>4. /\ Len(cmd') = Len(cmd) + 1 /\ Len(outcome') = Len(outcome) + 1
        /\ \A i \in 1..Len(cmd) : cmd'[i] = cmd[i] /\ outcome'[i] = outcome[i]
        /\ cmd'[Len(cmd) + 1] = c /\ outcome'[Len(cmd) + 1] = Pending
    BY <1>1, <1>2, <1>3 DEF TypeOK
  <1>5. PICK b \in BOOLEAN : b = (c.status = << 0 >>)
    OBVIOUS
  <1>6. Works' = Append(Works, b)
    <2>1. \A i \in 1..Len(cmd') : (cmd'[i].status = << 0 >>)
            = IF i <= Len(cmd) THEN cmd[i].status = << 0 >> ELSE b
      BY <1>3, <1>4, <1>5
    <2>2. Append(Works, b) = [i \in 1..Len(cmd') |->
                                IF i <= Len(cmd) THEN cmd[i].status = << 0 >> ELSE b]
      BY <1>3, <1>4 DEF Works
    <2>3. QED  BY <2>1, <2>2 DEF Works
  <1>7. Verdicts' = Append(Verdicts, "pending")
    <2>1. \A i \in 1..Len(outcome') : Verdict(outcome'[i])
            = IF i <= Len(outcome) THEN Verdict(outcome[i]) ELSE "pending"
      BY <1>3, <1>4, VerdictOf
    <2>2. Append(Verdicts, "pending") = [i \in 1..Len(outcome') |->
                          IF i <= Len(outcome) THEN Verdict(outcome[i]) ELSE "pending"]
      BY <1>3, <1>4 DEF Verdicts
    <2>3. QED  BY <2>1, <2>2 DEF Verdicts
  <1>8. QED  BY <1>1, <1>3, <1>5, <1>6, <1>7 DEF S!Ask, Works, Verdicts
\* The call in flight is settled, one way or the other.
LEMMA SettledSeen ==
  ASSUME GInv, waiting # 0, NEW o \in Outcomes, o # Pending,
         outcome' = [outcome EXCEPT ![waiting] = o], cmd' = cmd, ran' = ran,
         Verdict(o) = "timeout" \/ (waiting \in ran /\ Verdict(o) = IF Works[waiting]
                                                                    THEN "ok" ELSE "failed")
  PROVE  S!Next
  <1>1. TypeOK /\ QueueInv
    BY DEF GInv
  <1>2. PICK k \in Calls : k = waiting
    BY <1>1 DEF TypeOK
  <1>3. k <= Sent /\ outcome[k] = Pending
    <2>1. k = Sent /\ k \in Int
      BY <1>1, <1>2 DEF QueueInv, Calls
    <2>2. outcome[k] = Pending
      BY <1>1, <1>2 DEF QueueInv
    <2>3. QED  BY <2>1, <2>2
  <1>4. S!Reached(k)
    BY <1>1, <1>3, AllBefore
  <1>5. Verdicts[k] = "pending"
    BY <1>1, <1>3, SeenTyped, VerdictOf
  <1>6. PICK how : how = Verdict(o)
    OBVIOUS
  <1>7. how \in {"ok", "failed", "timeout"}
    BY <1>6, VerdictOf DEF Hows
  <1>8. Verdicts' = [Verdicts EXCEPT ![k] = how]
    <2>1. /\ DOMAIN outcome = 1..Len(outcome) /\ Len(outcome') = Len(outcome)
          /\ \A i \in 1..Len(outcome) : outcome'[i] = IF i = k THEN o ELSE outcome[i]
      BY <1>1, <1>2 DEF TypeOK, Calls
    <2>2. \A i \in 1..Len(outcome) :
            Verdict(outcome'[i]) = IF i = k THEN how ELSE Verdict(outcome[i])
      BY <2>1, <1>6
    <2>3. [Verdicts EXCEPT ![k] = how]
            = [i \in 1..Len(outcome) |-> IF i = k THEN how ELSE Verdict(outcome[i])]
      BY <1>2 DEF Verdicts, Calls
    <2>4. QED  BY <2>1, <2>2, <2>3 DEF Verdicts
  <1>9. how = "timeout" \/ (k \in ran /\ how = IF Works[k] THEN "ok" ELSE "failed")
    BY <1>2, <1>6
  <1>10. Works' = Works
    BY DEF Works
  <1>11. S!Settle(k, how)
    BY <1>4, <1>5, <1>8, <1>9, <1>10 DEF S!Settle, Works, Verdicts
  <1>12. k \in S!Calls
    <2>1. k \in 1..Len(Verdicts)
      BY <1>1, SeenTyped DEF Calls
    <2>2. QED  BY <2>1 DEF S!Calls, Verdicts
  <1>13. QED  BY <1>7, <1>11, <1>12 DEF S!Next

LEMMA ExpireSeen ==
  ASSUME GInv, Expire
  PROVE  S!Next
  <1>1. /\ waiting # 0 /\ outcome' = [outcome EXCEPT ![waiting] = TimedOut]
        /\ cmd' = cmd /\ ran' = ran
    BY DEF Expire, guestVars
  <1>2. TimedOut \in Outcomes /\ TimedOut # Pending
    BY DEF Outcomes, TimedOut, Pending
  <1>3. Verdict(TimedOut) = "timeout"
    BY VerdictOf
  <1>4. QED  BY <1>1, <1>2, <1>3, SettledSeen

LEMMA CompleteSeen ==
  ASSUME GInv, Complete
  PROVE  S!Next
  <1>1. PICK o : o = parseReply(waiting, Append(stream, Head(wire)))
    OBVIOUS
  <1>2. /\ waiting # 0 /\ o.kind = "reply"
        /\ outcome' = [outcome EXCEPT ![waiting] = o] /\ cmd' = cmd /\ ran' = ran
    BY <1>1 DEF Complete
  <1>3. TypeOK /\ waiting \in Calls
    BY <1>2 DEF GInv, TypeOK
  <1>4. outcome'[waiting] = o
    BY <1>2, <1>3, Typed
  <1>5. GInv' /\ waiting \in ran /\ (o.status = << 0 >> <=> cmd[waiting].status = << 0 >>)
    BY <1>4, CompleteG
  <1>6. o \in Outcomes /\ o # Pending
    <2>1. o \in Outcomes
      <3>1. Calls' = Calls
        BY <1>2, <1>3 DEF Calls, TypeOK
      <3>2. TypeOK' => \A id \in Calls' : outcome'[id] \in Outcomes
        BY DEF TypeOK, Calls
      <3>3. QED  BY <3>1, <3>2, <1>3, <1>4, <1>5 DEF GInv
    <2>2. QED  BY <2>1, <1>2 DEF Pending
  <1>7. Verdict(o) = IF Works[waiting] THEN "ok" ELSE "failed"
    <2>1. Works[waiting] <=> cmd[waiting].status = << 0 >>
      BY <1>3, SeenTyped
    <2>2. Verdict(o) = IF o.status = << 0 >> THEN "ok" ELSE "failed"
      BY <1>2, VerdictOf
    <2>3. QED  BY <2>1, <2>2, <1>5
  <1>8. QED  BY <1>2, <1>5, <1>6, <1>7, SettledSeen

\* A command ends in the shell, perhaps long after its caller gave it up.
LEMMA EndsSeen ==
  ASSUME GInv, shell # 0, ran' = ran \cup {shell}, UNCHANGED <<cmd, hostVars>>
  PROVE  S!Next
  <1>1. TypeOK /\ QueueInv /\ ShellInv
    BY DEF GInv
  <1>2. PICK k \in Calls : k = shell
    BY <1>1 DEF TypeOK
  <1>3. S!Reached(k)
    BY <1>1, <1>2, AllBefore DEF ShellInv
  <1>4. \A j \in ran : j < k
    BY <1>1, <1>2 DEF ShellInv
  <1>5. Works' = Works /\ Verdicts' = Verdicts
    BY DEF Works, Verdicts, hostVars
  <1>6. S!Execute(k)
    BY <1>2, <1>3, <1>4, <1>5 DEF S!Execute, Works, Verdicts
  <1>7. k \in S!Calls
    <2>1. k \in 1..Len(Verdicts)
      BY <1>1, SeenTyped DEF Calls
    <2>2. QED  BY <2>1 DEF S!Calls, Verdicts
  <1>8. QED  BY <1>6, <1>7 DEF S!Next

\* Whatever else moves, its callers see nothing of it.
LEMMA Unseen ==
  ASSUME UNCHANGED <<cmd, outcome, ran>>
  PROVE  UNCHANGED S!callVars
  BY DEF S!callVars

LEMMA NextSeen ==
  ASSUME GInv, GInv', [Next]_vars
  PROVE  [S!Next]_(S!callVars)
  <1>1. ASSUME NEW c \in Commands, Run(c) PROVE S!Next
    <2>1. S!Ask(c.status = << 0 >>)
      BY <1>1, RunSeen
    <2>2. (c.status = << 0 >>) \in BOOLEAN
      OBVIOUS
    <2>3. QED  BY <2>1, <2>2 DEF S!Next
  <1>2. CASE Expire
    BY <1>2, ExpireSeen
  <1>3. CASE Complete
    BY <1>3, CompleteSeen
  <1>4. CASE ShellFinish \/ ShellEats
    <2>1. shell # 0 /\ ran' = ran \cup {shell} /\ UNCHANGED <<cmd, hostVars>>
      BY <1>4 DEF ShellFinish, ShellEats
    <2>2. QED  BY <2>1, EndsSeen
  <1>5. CASE Send \/ Drop \/ Collect
    <2>1. UNCHANGED <<cmd, outcome, ran>>
      BY <1>5 DEF Send, Drop, Collect, hostVars
    <2>2. QED  BY <2>1, Unseen
  <1>6. CASE ShellStart \/ Printk \/ PrintkTearsMarker
    <2>1. UNCHANGED <<cmd, outcome, ran>>
      BY <1>6 DEF ShellStart, Printk, PrintkTearsMarker, hostVars
    <2>2. QED  BY <2>1, Unseen
  <1>7. CASE UNCHANGED vars
    <2>1. UNCHANGED <<cmd, outcome, ran>>
      BY <1>7 DEF vars, hostVars, guestVars
    <2>2. QED  BY <2>1, Unseen
  <1>8. QED  BY <1>1, <1>2, <1>3, <1>4, <1>5, <1>6, <1>7 DEF Next

\* Seen from its callers the guest is a queue of commands, settled one at a
\* time in the order they were asked for, each once, by its own verdict or by
\* its deadline: guest.js behind Guest.run of host.js implements ShellCalls.
THEOREM ImplementsCalls == Spec => ImplementsShellCalls
  <1>1. Init => S!Init
    BY InitSeen
  <1>2. GInv /\ GInv' /\ [Next]_vars => [S!Next]_(S!callVars)
    BY NextSeen
  <1>3. QED  BY <1>1, <1>2, GuestInv, PTL DEF Spec, ImplementsShellCalls, S!Spec
=============================================================================
