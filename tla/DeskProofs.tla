----------------------------- MODULE DeskProofs -----------------------------
(***************************************************************************)
(* Proofs about three of the desks.                                        *)
(*                                                                         *)
(* Comparing: the levels of kxdiff are a chain, for tapes of any length    *)
(* made of any frames.  Each level has a loop of its own.  What the loop   *)
(* of a level finds nothing in is said of the frames first, a lemma a      *)
(* level (ExactIs, SequenceIs, CountersAre, SetIs, DistributionIs); the    *)
(* chain is between those.                                                 *)
(*                                                                         *)
(* Publishing: what a check passes is what a build would make, for any     *)
(* lesson, pin, server, site and corpus.  One lemma a part of the property *)
(* (LessonHolds, LintHolds, EmulatorHolds, SiteHolds, BaselineHolds) says  *)
(* that the states of PublishingTypes have it; those are kept by every     *)
(* action.                                                                 *)
(*                                                                         *)
(* Citing: a claim that nothing is wrong with is supported, and a          *)
(* confirmation never takes a drift for read, for any entries, claims and  *)
(* trees.  What makes it true is the form of the file: it is whole entries *)
(* (Files, the least set of them), whose ids are apart.  Reading,          *)
(* rewriting and confirming it are folds, and a lemma for each says what   *)
(* it makes of an entry wherever in the file that is (FileRewritten,       *)
(* FileConfirmed, FileReread).                                             *)
(*                                                                         *)
(* Under them are what the operators give: a set put in order, sequences   *)
(* compared place by place or one behind the other, and the loops, which   *)
(* are folds.  A fold is a function chosen by its equation: that there is  *)
(* one (FoldExists), and what it gives, is by induction on how many        *)
(* elements a set has (AllSubsets).                                        *)
(***************************************************************************)
EXTENDS Comparing, Publishing, Citing, FiniteSetTheorems, SequenceTheorems, WellFoundedInduction, TLAPS

\* What holds 0, and with a number the next, holds every number.
LEMMA AllOfNat ==
  ASSUME NEW T, 0 \in T, \A n \in Nat : n \in T => n + 1 \in T
  PROVE  Nat \subseteq T
  <1>1. SUFFICES ASSUME Nat \ T # {} PROVE FALSE
    OBVIOUS
  <1>2. PICK m \in Nat \ T : \A n \in Nat \ T : ~(<<n, m>> \in OpToRel(<, Nat))
    <2>1. Nat \ T \subseteq Nat
      OBVIOUS
    <2>2. QED  BY <2>1, <1>1, NatLessThanWellFounded, WFMin
  <1>3. m - 1 \in Nat /\ m - 1 < m /\ (m - 1) + 1 = m /\ m \in Nat
    <2>1. m \in Nat /\ m # 0
      OBVIOUS
    <2>2. QED  BY <2>1
  <1>4. m - 1 \in T
    BY <1>2, <1>3 DEF OpToRel
  <1>5. QED  BY <1>2, <1>3, <1>4

\* A sequence of some things is one of more things.
LEMMA Wider ==
  ASSUME NEW X, NEW s \in Seq(X), NEW Y, X \subseteq Y
  PROVE  s \in Seq(Y)
  <1>1. \A i \in 1..Len(s) : s[i] \in Y
    OBVIOUS
  <1>2. s = [i \in 1..Len(s) |-> s[i]] /\ Len(s) \in Nat
    OBVIOUS
  <1>3. QED  BY <1>1, <1>2

\* What is found is cut, but never to nothing.
LEMMA CutIs ==
  ASSUME NEW X, NEW found \in Seq(X)
  PROVE  KD!Capped(found) = <<>> <=> found = <<>>
  <1>1. CASE Len(found) <= KD!SHOWN
    BY <1>1 DEF KD!Capped
  <1>2. CASE ~(Len(found) <= KD!SHOWN)
    <2>1. Len(found) \in Nat /\ Len(found) > 8
      BY <1>2 DEF KD!SHOWN
    <2>2. PICK Y : Y = X \cup {"and more"}
      OBVIOUS
    <2>3. PICK s \in Seq(Y) : s = SubSeq(found, 1, 8)
      <3>1. found \in Seq(Y)
        BY <2>2, Wider
      <3>2. SubSeq(found, 1, 8) \in Seq(Y)
        BY <3>1, <2>1
      <3>3. QED  BY <3>2
    <2>4. Append(s, "and more") # <<>>
      <3>1. "and more" \in Y
        BY <2>2
      <3>2. QED  BY <3>1, <2>3, AppendProperties, ZenonT(40)
    <2>5. KD!Capped(found) = Append(s, "and more")
      BY <1>2, <2>3 DEF KD!Capped, KD!SHOWN
    <2>6. found # <<>>
      BY <2>1
    <2>7. QED  BY <2>4, <2>5, <2>6
  <1>3. QED  BY <1>1, <1>2

\* Two sequences one behind the other are nothing when both are.
LEMMA NoneOfBoth ==
  ASSUME NEW X, NEW s \in Seq(X), NEW t \in Seq(X)
  PROVE  s \o t \in Seq(X) /\ (s \o t = <<>> <=> s = <<>> /\ t = <<>>)
  <1>1. s \o t \in Seq(X) /\ Len(s \o t) = Len(s) + Len(t)
    OBVIOUS
  <1>2. /\ Len(s) \in Nat /\ (s = <<>> <=> Len(s) = 0)
        /\ Len(t) \in Nat /\ (t = <<>> <=> Len(t) = 0)
    BY EmptySeq
  <1>3. s \o t = <<>> <=> Len(s \o t) = 0
    BY <1>1, EmptySeq
  <1>4. QED  BY <1>1, <1>2, <1>3

\* A list as long as a finite set is empty when the set is.
LEMMA ListIs ==
  ASSUME NEW S, NEW n \in Nat, n = Cardinality(S), IsFiniteSet(S), NEW s \in [1..n -> S]
  PROVE  s \in Seq(S) /\ (s = <<>> <=> S = {})
  <1>1. s \in Seq(S) /\ Len(s) = n
    OBVIOUS
  <1>2. n = 0 <=> S = {}
    BY FS_EmptySet
  <1>3. s = <<>> <=> Len(s) = 0
    BY <1>1, EmptySeq
  <1>4. QED  BY <1>1, <1>2, <1>3

\* The count that Diff knows is this one.
LEMMA SameCount ==
  ASSUME NEW S
  PROVE  KD!Cardinality(S) = Cardinality(S)
  BY DEF KD!Cardinality, Cardinality

\* A set put in any order.
LEMMA AnyOrder ==
  ASSUME NEW S, IsFiniteSet(S)
  PROVE  KD!SetToSeq(S) \in Seq(S) /\ (KD!SetToSeq(S) = <<>> <=> S = {})
  <1>1. PICK n \in Nat : n = Cardinality(S) /\ ExistsBijection(1..n, S)
    BY FS_CardinalityType
  <1>2. PICK f \in [1..n -> S] : IsInjective(f)
    BY <1>1 DEF ExistsBijection, Bijection, Injection
  <1>3. KD!SetToSeq(S) \in [1..n -> S]
    <2>1. KD!IsInjective(f)
      BY <1>2 DEF KD!IsInjective, IsInjective
    <2>2. KD!SetToSeq(S) = CHOOSE g \in [1..n -> S] : KD!IsInjective(g)
      BY <1>1, SameCount DEF KD!SetToSeq
    <2>3. QED  BY <2>1, <2>2
  <1>4. QED  BY <1>1, <1>3, ListIs

\* A set of numbers can be put in order.
Sorted(s, S) ==
  /\ s \in [1..Cardinality(S) -> S]
  /\ \A m, n \in DOMAIN s : m < n => s[m] < s[n]

\* There is such an order.
LEMMA SortedIs ==
  ASSUME NEW N \in Nat, NEW S \in SUBSET (1..N)
  PROVE  \E s : Sorted(s, S)
  <1> DEFINE T == {n \in Nat : \A U \in SUBSET (1..n) : \E s : Sorted(s, U)}
  <1>1. 0 \in T
    <2>1. ASSUME NEW U \in SUBSET (1..0) PROVE \E s : Sorted(s, U)
      <3>1. U = {} /\ Cardinality(U) = 0
        <4>1. 1..0 = {}
          OBVIOUS
        <4>2. U = {}
          BY <4>1
        <4>3. QED  BY <4>2, FS_EmptySet
      <3>2. Sorted([i \in 1..0 |-> 0], U)
        BY <3>1 DEF Sorted
      <3>3. QED  BY <3>2
    <2>2. QED  BY <2>1
  <1>2. ASSUME NEW n \in Nat, n \in T PROVE n + 1 \in T
    <2>1. ASSUME NEW U \in SUBSET (1..(n + 1)) PROVE \E s : Sorted(s, U)
      <3>1. CASE n + 1 \notin U
        <4>1. U \in SUBSET (1..n)
          BY <3>1
        <4>2. QED  BY <4>1, <1>2
      <3>2. CASE n + 1 \in U
        <4>1. PICK V : V = U \ {n + 1}
          OBVIOUS
        <4>2. V \in SUBSET (1..n) /\ U = V \cup {n + 1} /\ n + 1 \notin V
          BY <4>1, <3>2
        <4>3. PICK s : Sorted(s, V)
          BY <4>2, <1>2
        <4>4. IsFiniteSet(V)
          <5>1. IsFiniteSet(1..n)
            BY FS_Interval
          <5>2. QED  BY <5>1, <4>2, FS_Subset
        <4>5. PICK k \in Nat : k = Cardinality(V)
          BY <4>4, FS_CardinalityType
        <4>6. Cardinality(U) = k + 1
          BY <4>2, <4>4, <4>5, FS_AddElement
        <4>7. s \in [1..k -> V] /\ \A a, b \in 1..k : a < b => s[a] < s[b]
          BY <4>3, <4>5 DEF Sorted
        <4>8. PICK u : u = [i \in 1..(k + 1) |-> IF i = k + 1 THEN n + 1 ELSE s[i]]
          OBVIOUS
        <4>9. u[k + 1] = n + 1 /\ \A i \in 1..k : u[i] = s[i] /\ s[i] \in V
          BY <4>7, <4>8
        <4>10. DOMAIN u = 1..(k + 1)
          BY <4>8
        <4>11. u \in [1..(k + 1) -> U]
          <5>1. \A i \in 1..(k + 1) : u[i] \in U
            BY <4>2, <4>9
          <5>2. QED  BY <5>1, <4>8
        <4>12. ASSUME NEW a \in 1..(k + 1), NEW b \in 1..(k + 1), a < b PROVE u[a] < u[b]
          <5>1. a \in 1..k
            BY <4>12
          <5>2. CASE b = k + 1
            <6>1. s[a] \in V /\ u[a] = s[a] /\ u[b] = n + 1
              BY <5>1, <5>2, <4>9
            <6>2. s[a] \in 1..n
              BY <6>1, <4>2
            <6>3. QED  BY <6>1, <6>2
          <5>3. CASE b \in 1..k
            BY <5>1, <5>3, <4>7, <4>9, <4>12
          <5>4. QED  BY <5>2, <5>3
        <4>13. Sorted(u, U)
          BY <4>6, <4>10, <4>11, <4>12 DEF Sorted
        <4>14. QED  BY <4>13
      <3>3. QED  BY <3>1, <3>2
    <2>2. QED  BY <2>1
  <1>3. N \in T
    <2> HIDE DEF T
    <2>1. QED  BY <1>1, <1>2, AllOfNat
  <1>4. QED  BY <1>3

\* And InOrder gives it.
LEMMA InOrderIs ==
  ASSUME NEW N \in Nat, NEW S \in SUBSET (1..N)
  PROVE  KD!InOrder(S) \in Seq(S) /\ (KD!InOrder(S) = <<>> <=> S = {})
  <1>1. IsFiniteSet(S)
    <2>1. IsFiniteSet(1..N)
      BY FS_Interval
    <2>2. QED  BY <2>1, FS_Subset
  <1>2. PICK n \in Nat : n = Cardinality(S)
    BY <1>1, FS_CardinalityType
  <1>3. PICK s : Sorted(s, S)
    BY SortedIs
  <1>4. KD!InOrder(S) \in [1..n -> S]
    BY <1>2, <1>3, SameCount DEF KD!InOrder, Sorted
  <1>5. QED  BY <1>1, <1>2, <1>4, ListIs

\* The smaller of two lengths.
LEMMA SmallerOf ==
  ASSUME NEW n \in Nat, NEW m \in Nat
  PROVE  KD!Min({n, m}) \in Nat /\ KD!Min({n, m}) <= n /\ KD!Min({n, m}) <= m /\ (n = m => KD!Min({n, m}) = n)
  <1>1. \E x \in {n, m} : \A y \in {n, m} : x =< y
    OBVIOUS
  <1>2. QED  BY <1>1 DEF KD!Min

\* Nothing is found in two sequences compared place by place exactly when they are one.
LEMMA InPlaceIs ==
  ASSUME NEW X, NEW s \in Seq(X), NEW t \in Seq(X)
  PROVE  KD!InPlace(s, t) \in Seq(Nat) /\ (KD!InPlace(s, t) = <<>> <=> s = t)
  <1>1. PICK n \in Nat, m \in Nat : n = Len(s) /\ m = Len(t)
    OBVIOUS
  <1>2. PICK both \in Nat : both = KD!Min({n, m}) /\ both <= n /\ both <= m /\ (n = m => both = n)
    BY SmallerOf
  <1>3. PICK S : S = {i \in 1..both : s[i] # t[i]}
    OBVIOUS
  <1>4. PICK u : u = KD!InOrder(S)
    OBVIOUS
  <1>5. u \in Seq(Nat) /\ (u = <<>> <=> S = {})
    <2>1. u \in Seq(S) /\ (u = <<>> <=> S = {})
      BY <1>3, <1>4, InOrderIs
    <2>2. S \subseteq Nat
      BY <1>3
    <2>3. QED  BY <2>1, <2>2, Wider
  <1>6. PICK v : v = IF n = m THEN <<>> ELSE <<both + 1>>
    OBVIOUS
  <1>7. v \in Seq(Nat) /\ (v = <<>> <=> n = m)
    BY <1>6
  <1>8. KD!InPlace(s, t) = u \o v
    BY <1>1, <1>2, <1>3, <1>4, <1>6 DEF KD!InPlace
  <1>9. KD!InPlace(s, t) \in Seq(Nat) /\ (KD!InPlace(s, t) = <<>> <=> S = {} /\ n = m)
    BY <1>5, <1>7, <1>8, NoneOfBoth
  <1>10. S = {} /\ n = m => s = t
    <2>1. ASSUME S = {}, n = m PROVE s = t
      <3>1. \A i \in 1..n : s[i] = t[i]
        <4>1. both = n
          BY <2>1, <1>2
        <4>2. QED  BY <4>1, <2>1, <1>3
      <3>2. s = [i \in 1..n |-> s[i]]
        BY <1>1
      <3>3. t = [i \in 1..m |-> t[i]]
        BY <1>1
      <3>4. QED  BY <3>1, <3>2, <3>3, <2>1
    <2>2. QED  BY <2>1
  <1>11. s = t => S = {} /\ n = m
    BY <1>1, <1>3
  <1>12. QED  BY <1>9, <1>10, <1>11

\* The same, a place at a time.
LEMMA PlaceByPlace ==
  ASSUME NEW X, NEW s \in Seq(X), NEW t \in Seq(X)
  PROVE  /\ KD!InPlace(s, t) \in Seq(Nat)
         /\ KD!InPlace(s, t) = <<>> <=> Len(s) = Len(t) /\ \A i \in 1..Len(s) : s[i] = t[i]
  <1>1. KD!InPlace(s, t) \in Seq(Nat) /\ (KD!InPlace(s, t) = <<>> <=> s = t)
    BY InPlaceIs, Zenon
  <1>2. s = [i \in 1..Len(s) |-> s[i]]
    OBVIOUS
  <1>3. t = [i \in 1..Len(t) |-> t[i]]
    OBVIOUS
  <1>4. ASSUME Len(s) = Len(t), \A i \in 1..Len(s) : s[i] = t[i] PROVE s = t
    BY <1>2, <1>3, <1>4
  <1>5. s = t => Len(s) = Len(t) /\ \A i \in 1..Len(s) : s[i] = t[i]
    OBVIOUS
  <1>6. QED  BY <1>1, <1>4, <1>5

-----------------------------------------------------------------------------
(* What each level finds in the frames a and b of two tapes.               *)

Found(level, a, aTape, b, bTape) ==
  KD!Differences(level, KD!Read(level, a, aTape), KD!Read(level, b, bTape), 2)

\* The frames, one by one, as far as a level looks at them.
SameSequence(a, b) ==
  Len(a) = Len(b) /\ \A i \in 1..Len(a) : a[i].depth = b[i].depth /\ a[i].name = b[i].name
SameExactly(a, b) ==
  /\ SameSequence(a, b)
  /\ \A i \in 1..Len(a) : /\ a[i].cpu = b[i].cpu /\ a[i].task = b[i].task
                          /\ a[i].complete = b[i].complete /\ a[i].time = b[i].time
Incomplete(a) == KD!InOrder({i \in DOMAIN a : ~a[i].complete})
NamesOf(a, places) == [j \in DOMAIN places |-> a[places[j]].name]
SameInSequence(a, b) == SameSequence(a, b) /\ NamesOf(a, Incomplete(a)) = NamesOf(b, Incomplete(b))

\* A difference that is there or not.
LEMMA OneOrNone ==
  ASSUME NEW X, NEW x, NEW y, NEW what \in X, NEW c, c = IF x = y THEN <<>> ELSE <<what>>
  PROVE  c \in Seq(X) /\ (c = <<>> <=> x = y)
  <1>1. <<>> \in Seq(X)
    OBVIOUS
  <1>2. <<what>> \in Seq(X) /\ <<what>> # <<>>
    OBVIOUS
  <1>3. QED  BY <1>1, <1>2

\* At the level exact nothing is found when every frame is the same in all that is looked at.
LEMMA ExactIs ==
  ASSUME NEW a \in Seq(Frames), NEW b \in Seq(Frames), NEW aTape, NEW bTape
  PROVE  /\ Found("exact", a, aTape, b, bTape) \in Seq(Nat \cup {"CPUs", "not complete"})
         /\ Found("exact", a, aTape, b, bTape) = <<>> <=> aTape.cpus = bTape.cpus /\ SameExactly(a, b)
  <1>1. PICK As : As = [i \in 1..Len(a) |-> <<a[i].depth, a[i].name, a[i].cpu, a[i].task, a[i].complete, a[i].time>>]
    OBVIOUS
  <1>2. PICK Bs : Bs = [i \in 1..Len(b) |-> <<b[i].depth, b[i].name, b[i].cpu, b[i].task, b[i].complete, b[i].time>>]
    OBVIOUS
  <1>3. PICK cpus : cpus = IF aTape.cpus = bTape.cpus THEN <<>> ELSE <<"CPUs">>
    OBVIOUS
  <1>4. PICK X : X = Nat \cup {"CPUs", "not complete"}
    OBVIOUS
  <1>5. DOMAIN a = 1..Len(a) /\ DOMAIN b = 1..Len(b) /\ Len(a) \in Nat /\ Len(b) \in Nat
    OBVIOUS
  <1>6. "CPUs" \in X /\ "not complete" \in X
    BY <1>4
  <1>7. As = [i \in 1..Len(a) |-> As[i]] /\ Bs = [i \in 1..Len(b) |-> Bs[i]]
    BY <1>1, <1>2
  <1>8. KD!Read("exact", a, aTape) = <<As, aTape.cpus>> /\ KD!Read("exact", b, bTape) = <<Bs, bTape.cpus>>
    <2>1. KD!Read("exact", a, aTape) = <<As, aTape.cpus>>
      BY <1>1, <1>5 DEF KD!Read, KD!EachFrame
    <2>2. KD!Read("exact", b, bTape) = <<Bs, bTape.cpus>>
      BY <1>2, <1>5 DEF KD!Read, KD!EachFrame
    <2>3. QED  BY <2>1, <2>2
  <1>9. \A x, y : KD!Differences("exact", x, y, 2) =
          (IF x[2] = y[2] THEN <<>> ELSE <<"CPUs">>) \o KD!InPlace(x[1], y[1])
    BY DEF KD!Differences
  <1>10. Found("exact", a, aTape, b, bTape) = cpus \o KD!InPlace(As, Bs)
    BY <1>3, <1>8, <1>9 DEF Found
  <1>11. KD!InPlace(As, Bs) \in Seq(Nat)
        /\ (KD!InPlace(As, Bs) = <<>> <=> Len(a) = Len(b) /\ \A i \in 1..Len(a) : As[i] = Bs[i])
    <2>1. PICK Y : Y = {As[i] : i \in 1..Len(a)} \cup {Bs[i] : i \in 1..Len(b)}
      OBVIOUS
    <2>2. As \in Seq(Y) /\ Len(As) = Len(a)
      <3>1. As \in [1..Len(a) -> Y]
        BY <1>7, <2>1
      <3>2. QED  BY <3>1, <1>5
    <2>3. Bs \in Seq(Y) /\ Len(Bs) = Len(b)
      <3>1. Bs \in [1..Len(b) -> Y]
        BY <1>7, <2>1
      <3>2. QED  BY <3>1, <1>5
    <2>4. /\ KD!InPlace(As, Bs) \in Seq(Nat)
          /\ KD!InPlace(As, Bs) = <<>> <=> Len(As) = Len(Bs) /\ \A i \in 1..Len(As) : As[i] = Bs[i]
      BY <2>2, <2>3, PlaceByPlace, Zenon
    <2>5. QED  BY <2>2, <2>3, <2>4
  <1>12. SameExactly(a, b) <=> Len(a) = Len(b) /\ \A i \in 1..Len(a) : As[i] = Bs[i]
    BY <1>1, <1>2 DEF SameExactly, SameSequence
  <1>13. KD!InPlace(As, Bs) \in Seq(X)
    BY <1>4, <1>11, Wider
  <1>14. cpus \in Seq(X) /\ (cpus = <<>> <=> aTape.cpus = bTape.cpus)
    BY <1>3, <1>6, OneOrNone, Zenon
  <1>15. /\ cpus \o KD!InPlace(As, Bs) \in Seq(X)
         /\ cpus \o KD!InPlace(As, Bs) = <<>> <=> cpus = <<>> /\ KD!InPlace(As, Bs) = <<>>
    BY <1>13, <1>14, NoneOfBoth, Zenon
  <1>16. QED  BY <1>4, <1>10, <1>11, <1>12, <1>14, <1>15

\* At the level sequence: when depths, names and the names of what is not complete are the same.
LEMMA SequenceIs ==
  ASSUME NEW a \in Seq(Frames), NEW b \in Seq(Frames), NEW aTape, NEW bTape
  PROVE  /\ Found("sequence", a, aTape, b, bTape) \in Seq(Nat \cup {"CPUs", "not complete"})
         /\ Found("sequence", a, aTape, b, bTape) = <<>> <=> aTape.cpus = bTape.cpus /\ SameInSequence(a, b)
  <1>1. PICK As : As = [i \in 1..Len(a) |-> <<a[i].depth, a[i].name>>]
    OBVIOUS
  <1>2. PICK Bs : Bs = [i \in 1..Len(b) |-> <<b[i].depth, b[i].name>>]
    OBVIOUS
  <1>3. PICK an, bn : an = NamesOf(a, Incomplete(a)) /\ bn = NamesOf(b, Incomplete(b))
    OBVIOUS
  <1>4. PICK X : X = Nat \cup {"CPUs", "not complete"}
    OBVIOUS
  <1>5. DOMAIN a = 1..Len(a) /\ DOMAIN b = 1..Len(b) /\ Len(a) \in Nat /\ Len(b) \in Nat
    OBVIOUS
  <1>6. "CPUs" \in X /\ "not complete" \in X
    BY <1>4
  <1>7. As = [i \in 1..Len(a) |-> As[i]] /\ Bs = [i \in 1..Len(b) |-> Bs[i]]
    BY <1>1, <1>2
  <1>8. PICK cpus : cpus = IF aTape.cpus = bTape.cpus THEN <<>> ELSE <<"CPUs">>
    OBVIOUS
  <1>9. PICK ends : ends = IF an = bn THEN <<>> ELSE <<"not complete">>
    OBVIOUS
  <1>10. /\ KD!Read("sequence", a, aTape) = <<As, aTape.cpus, an>>
        /\ KD!Read("sequence", b, bTape) = <<Bs, bTape.cpus, bn>>
    <2>1. \A c, t : KD!Read("sequence", c, t) =
            <<[i \in DOMAIN c |-> <<c[i].depth, c[i].name>>], t.cpus, NamesOf(c, Incomplete(c))>>
      BY DEF KD!Read, KD!EachFrame, NamesOf, Incomplete
    <2>2. QED  BY <2>1, <1>1, <1>2, <1>3, <1>5
  <1>11. \A x, y : KD!Differences("sequence", x, y, 2) =
          (IF x[2] = y[2] THEN <<>> ELSE <<"CPUs">>)
          \o (IF x[3] = y[3] THEN <<>> ELSE <<"not complete">>) \o KD!InPlace(x[1], y[1])
    BY DEF KD!Differences
  <1>12. Found("sequence", a, aTape, b, bTape) = (cpus \o ends) \o KD!InPlace(As, Bs)
    <2>1. PICK x, y : x = <<As, aTape.cpus, an>> /\ y = <<Bs, bTape.cpus, bn>>
      OBVIOUS
    <2>2. /\ x[1] = As /\ x[2] = aTape.cpus /\ x[3] = an
          /\ y[1] = Bs /\ y[2] = bTape.cpus /\ y[3] = bn
      BY <2>1
    <2>3. Found("sequence", a, aTape, b, bTape) = KD!Differences("sequence", x, y, 2)
      BY <1>10, <2>1 DEF Found
    <2>4. KD!Differences("sequence", x, y, 2) = (cpus \o ends) \o KD!InPlace(As, Bs)
      BY <1>8, <1>9, <1>11, <2>2
    <2>5. QED  BY <2>3, <2>4
  <1>13. KD!InPlace(As, Bs) \in Seq(Nat)
        /\ (KD!InPlace(As, Bs) = <<>> <=> Len(a) = Len(b) /\ \A i \in 1..Len(a) : As[i] = Bs[i])
    <2>1. PICK Y : Y = {As[i] : i \in 1..Len(a)} \cup {Bs[i] : i \in 1..Len(b)}
      OBVIOUS
    <2>2. As \in Seq(Y) /\ Len(As) = Len(a)
      <3>1. As \in [1..Len(a) -> Y]
        BY <1>7, <2>1
      <3>2. QED  BY <3>1, <1>5
    <2>3. Bs \in Seq(Y) /\ Len(Bs) = Len(b)
      <3>1. Bs \in [1..Len(b) -> Y]
        BY <1>7, <2>1
      <3>2. QED  BY <3>1, <1>5
    <2>4. /\ KD!InPlace(As, Bs) \in Seq(Nat)
          /\ KD!InPlace(As, Bs) = <<>> <=> Len(As) = Len(Bs) /\ \A i \in 1..Len(As) : As[i] = Bs[i]
      BY <2>2, <2>3, PlaceByPlace, Zenon
    <2>5. QED  BY <2>2, <2>3, <2>4
  <1>14. SameSequence(a, b) <=> Len(a) = Len(b) /\ \A i \in 1..Len(a) : As[i] = Bs[i]
    BY <1>1, <1>2 DEF SameSequence
  <1>15. KD!InPlace(As, Bs) \in Seq(X)
    BY <1>4, <1>13, Wider
  <1>16. cpus \in Seq(X) /\ (cpus = <<>> <=> aTape.cpus = bTape.cpus)
    BY <1>8, <1>6, OneOrNone, Zenon
  <1>17. ends \in Seq(X) /\ (ends = <<>> <=> an = bn)
    BY <1>9, <1>6, OneOrNone, Zenon
  <1>18. cpus \o ends \in Seq(X) /\ (cpus \o ends = <<>> <=> cpus = <<>> /\ ends = <<>>)
    BY <1>16, <1>17, NoneOfBoth
  <1>19. PICK ce \in Seq(X) : ce = cpus \o ends
    BY <1>18
  <1>20. Found("sequence", a, aTape, b, bTape) \in Seq(X)
        /\ (Found("sequence", a, aTape, b, bTape) = <<>> <=> ce = <<>> /\ KD!InPlace(As, Bs) = <<>>)
    <2>1. /\ ce \o KD!InPlace(As, Bs) \in Seq(X)
          /\ ce \o KD!InPlace(As, Bs) = <<>> <=> ce = <<>> /\ KD!InPlace(As, Bs) = <<>>
      BY <1>15, NoneOfBoth, Zenon
    <2>2. Found("sequence", a, aTape, b, bTape) = ce \o KD!InPlace(As, Bs)
      BY <1>12, <1>19
    <2>3. QED  BY <2>1, <2>2
  <1>21. SameInSequence(a, b) <=> SameSequence(a, b) /\ an = bn
    BY <1>3 DEF SameInSequence
  <1>22. QED  BY <1>21, <1>4, <1>13, <1>14, <1>16, <1>17, <1>18, <1>19, <1>20

\* The names there are, and how often each is there.
LEMMA NamesAre ==
  ASSUME NEW a \in Seq(Frames)
  PROVE  IsFiniteSet(KD!Names(a)) /\ \A name : name \in KD!Names(a) <=> \E i \in 1..Len(a) : a[i].name = name
  <1>1. PICK n \in Nat : n = Len(a) /\ DOMAIN a = 1..n
    OBVIOUS
  <1>2. PICK S : S = {a[i].name : i \in 1..n}
    OBVIOUS
  <1>3. PICK f : f = [i \in 1..n |-> a[i].name]
    OBVIOUS
  <1>4. f \in [1..n -> S] /\ \A x \in S : \E i \in 1..n : f[i] = x
    BY <1>2, <1>3
  <1>5. f \in Surjection(1..n, S)
    BY <1>4 DEF Surjection
  <1>6. IsFiniteSet(S)
    <2>1. IsFiniteSet(1..n)
      BY FS_Interval
    <2>2. QED  BY <2>1, <1>5, FS_Surjection
  <1>7. KD!Names(a) = S
    BY <1>1, <1>2 DEF KD!Names
  <1>8. QED  BY <1>1, <1>2, <1>6, <1>7

\* A name is there as often as it is met, and never when it is not.
LEMMA TimesAre ==
  ASSUME NEW a \in Seq(Frames), NEW name
  PROVE  KD!Times(a, name) \in Nat /\ (KD!Times(a, name) = 0 <=> name \notin KD!Names(a))
  <1>1. PICK n \in Nat : n = Len(a) /\ DOMAIN a = 1..n
    OBVIOUS
  <1>2. PICK S : S = {i \in 1..n : a[i].name = name}
    OBVIOUS
  <1>3. IsFiniteSet(S)
    <2>1. IsFiniteSet(1..n)
      BY FS_Interval
    <2>2. S \in SUBSET (1..n)
      BY <1>2
    <2>3. QED  BY <2>1, <2>2, FS_Subset
  <1>4. KD!Times(a, name) = Cardinality(S)
    BY <1>1, <1>2, SameCount DEF KD!Times
  <1>5. Cardinality(S) \in Nat /\ (Cardinality(S) = 0 <=> S = {})
    BY <1>3, FS_CardinalityType, FS_EmptySet
  <1>6. S = {} <=> name \notin KD!Names(a)
    BY <1>1, <1>2, NamesAre
  <1>7. QED  BY <1>4, <1>5, <1>6

\* Where a function on names and another one say what differs, a name that one has not being none.
At(f, name) == IF name \in DOMAIN f THEN f[name] ELSE 0
\* The names that the loop of the counters lists.
LEMMA CountersDiffer ==
  ASSUME NEW f, NEW g, NEW z
  PROVE  KD!Differences("counters", f, g, z) = KD!SetToSeq({name \in DOMAIN f \cup DOMAIN g : At(f, name) # At(g, name)})
  <1>1. KD!Differences("counters", f, g, z) = KD!ByName(f, g, LAMBDA a, b : a # b, 0)
    BY DEF KD!Differences
  <1>2. QED  BY <1>1 DEF KD!ByName, At

\* The names that the loop of the distribution lists.
LEMMA SharesDiffer ==
  ASSUME NEW f, NEW g, NEW z, DOMAIN f # {}, DOMAIN g # {}
  PROVE  KD!Differences("distribution", f, g, z) =
           KD!SetToSeq({name \in DOMAIN f \cup DOMAIN g : At(f, name) - At(g, name) > z \/ At(g, name) - At(f, name) > z})
  <1>1. KD!Differences("distribution", f, g, z) = KD!ByName(f, g, LAMBDA a, b : a - b > z \/ b - a > z, 0)
    BY DEF KD!Differences
  <1>2. QED  BY <1>1 DEF KD!ByName, At

\* At the level counters: when the names are the same, and each is there as often.
LEMMA CountersAre ==
  ASSUME NEW a \in Seq(Frames), NEW b \in Seq(Frames), NEW aTape, NEW bTape
  PROVE  /\ \E X : Found("counters", a, aTape, b, bTape) \in Seq(X)
         /\ Found("counters", a, aTape, b, bTape) = <<>> <=>
              /\ KD!Names(a) = KD!Names(b)
              /\ \A name \in KD!Names(a) : KD!Times(a, name) = KD!Times(b, name)
  <1>1. PICK A, B : A = KD!Names(a) /\ B = KD!Names(b)
    OBVIOUS
  <1>2. PICK f, g : f = [name \in A |-> KD!Times(a, name)] /\ g = [name \in B |-> KD!Times(b, name)]
    OBVIOUS
  <1>3. DOMAIN f = A /\ DOMAIN g = B
    BY <1>2
  <1>4. KD!Read("counters", a, aTape) = f /\ KD!Read("counters", b, bTape) = g
    <2>1. \A c, t : KD!Read("counters", c, t) = [name \in KD!Names(c) |-> KD!Times(c, name)]
      BY DEF KD!Read
    <2>2. QED  BY <2>1, <1>1, <1>2
  <1>5. PICK S \in SUBSET (A \cup B) :
          /\ KD!Differences("counters", f, g, 2) = KD!SetToSeq(S)
          /\ \A name \in A \cup B : name \in S <=> At(f, name) # At(g, name)
    <2>1. PICK S : S = {name \in A \cup B : At(f, name) # At(g, name)}
      OBVIOUS
    <2>2. KD!Differences("counters", f, g, 2) = KD!SetToSeq({name \in A \cup B : At(f, name) # At(g, name)})
      BY <1>3, CountersDiffer
    <2>3. S \in SUBSET (A \cup B) /\ \A name \in A \cup B : name \in S <=> At(f, name) # At(g, name)
      BY <2>1
    <2>4. QED  BY <2>1, <2>2, <2>3
  <1>6. IsFiniteSet(S)
    <2>1. IsFiniteSet(A) /\ IsFiniteSet(B)
      BY <1>1, NamesAre
    <2>2. IsFiniteSet(A \cup B)
      BY <2>1, FS_Union
    <2>3. QED  BY <2>2, FS_Subset
  <1>7. PICK found : found = Found("counters", a, aTape, b, bTape)
    OBVIOUS
  <1>8. found \in Seq(S) /\ (found = <<>> <=> S = {})
    <2>1. found = KD!SetToSeq(S)
      BY <1>4, <1>5, <1>7 DEF Found
    <2>2. KD!SetToSeq(S) \in Seq(S) /\ (KD!SetToSeq(S) = <<>> <=> S = {})
      BY <1>6, AnyOrder
    <2>3. QED  BY <2>1, <2>2
  <1>9. \A name \in A : f[name] = KD!Times(a, name) /\ f[name] # 0
    BY <1>1, <1>2, TimesAre
  <1>10. \A name \in B : g[name] = KD!Times(b, name) /\ g[name] # 0
    BY <1>1, <1>2, TimesAre
  <1>11. ASSUME S = {} PROVE A = B /\ \A name \in A : f[name] = g[name]
    <2>1. \A name \in A : name \in B /\ f[name] = g[name]
      BY <1>3, <1>5, <1>9, <1>11 DEF At
    <2>2. \A name \in B : name \in A
      BY <1>3, <1>5, <1>10, <1>11 DEF At
    <2>3. QED  BY <2>1, <2>2
  <1>12. ASSUME A = B, \A name \in A : f[name] = g[name] PROVE S = {}
    BY <1>3, <1>5, <1>12 DEF At
  <1>13. QED  BY <1>1, <1>7, <1>8, <1>9, <1>10, <1>11, <1>12

\* At the level set: when the names are the same.
LEMMA SetIs ==
  ASSUME NEW a \in Seq(Frames), NEW b \in Seq(Frames), NEW aTape, NEW bTape
  PROVE  /\ \E X : Found("set", a, aTape, b, bTape) \in Seq(X)
         /\ Found("set", a, aTape, b, bTape) = <<>> <=> KD!Names(a) = KD!Names(b)
  <1>1. PICK A, B : A = KD!Names(a) /\ B = KD!Names(b)
    OBVIOUS
  <1>2. IsFiniteSet(A \ B) /\ IsFiniteSet(B \ A)
    <2>1. IsFiniteSet(A) /\ IsFiniteSet(B)
      BY <1>1, NamesAre
    <2>2. A \ B \in SUBSET A /\ B \ A \in SUBSET B
      OBVIOUS
    <2>3. QED  BY <2>1, <2>2, FS_Subset
  <1>3. PICK s, t : s = KD!SetToSeq(A \ B) /\ t = KD!SetToSeq(B \ A)
    OBVIOUS
  <1>4. s \in Seq(A \ B) /\ (s = <<>> <=> A \ B = {})
    BY <1>2, <1>3, AnyOrder
  <1>5. t \in Seq(B \ A) /\ (t = <<>> <=> B \ A = {})
    BY <1>2, <1>3, AnyOrder
  <1>6. s \in Seq(A \cup B)
    <2>1. A \ B \subseteq A \cup B
      OBVIOUS
    <2>2. QED  BY <2>1, <1>4, Wider
  <1>7. t \in Seq(A \cup B)
    <2>1. B \ A \subseteq A \cup B
      OBVIOUS
    <2>2. QED  BY <2>1, <1>5, Wider
  <1>8. s \o t \in Seq(A \cup B) /\ (s \o t = <<>> <=> s = <<>> /\ t = <<>>)
    BY <1>6, <1>7, NoneOfBoth, Zenon
  <1>9. Found("set", a, aTape, b, bTape) = s \o t
    <2>1. KD!Read("set", a, aTape) = A /\ KD!Read("set", b, bTape) = B
      BY <1>1 DEF KD!Read
    <2>2. KD!Differences("set", A, B, 2) = KD!SetToSeq(A \ B) \o KD!SetToSeq(B \ A)
      BY DEF KD!Differences
    <2>3. QED  BY <2>1, <2>2, <1>3 DEF Found
  <1>10. s = <<>> /\ t = <<>> <=> A = B
    BY <1>4, <1>5
  <1>11. QED  BY <1>1, <1>8, <1>9, <1>10

-----------------------------------------------------------------------------
(* What a fold gives: a set of results that holds the base and is closed   *)
(* under the operation holds the result of the fold.                       *)

\* What holds a set once it holds the set without any one of its elements holds a finite set.
LEMMA AllSubsets ==
  ASSUME NEW S, IsFiniteSet(S), NEW T,
         \A U \in SUBSET S : (\A x \in U : U \ {x} \in T) => U \in T
  PROVE  S \in T
  <1>1. PICK C : C = {n \in Nat : \A U \in SUBSET S : Cardinality(U) = n => U \in T}
    OBVIOUS
  <1>2. \A U \in SUBSET S : IsFiniteSet(U) /\ Cardinality(U) \in Nat
    BY FS_Subset, FS_CardinalityType
  <1>3. 0 \in C
    <2>1. \A U \in SUBSET S : Cardinality(U) = 0 => U = {}
      BY <1>2, FS_EmptySet
    <2>2. {} \in T
      OBVIOUS
    <2>3. QED  BY <2>1, <2>2, <1>1
  <1>4. ASSUME NEW n \in Nat, n \in C PROVE n + 1 \in C
    <2>1. ASSUME NEW U \in SUBSET S, Cardinality(U) = n + 1 PROVE U \in T
      <3>1. ASSUME NEW x \in U PROVE U \ {x} \in T
        <4>1. Cardinality(U \ {x}) = Cardinality(U) - 1
          BY <1>2, FS_RemoveElement
        <4>2. Cardinality(U \ {x}) = n
          BY <4>1, <2>1
        <4>3. U \ {x} \in SUBSET S
          OBVIOUS
        <4>4. QED  BY <4>2, <4>3, <1>1, <1>4
      <3>2. QED  BY <3>1
    <2>2. QED  BY <2>1, <1>1
  <1>5. Nat \subseteq C
    BY <1>3, <1>4, AllOfNat
  <1>6. QED  BY <1>1, <1>2, <1>5

\* g is what folding op over the subsets of S gives, each taken apart where c says.
IsFold(g, op, base, c, S) ==
  \A U \in SUBSET S : g[U] = IF U = {} THEN base ELSE op[<<c[U], g[U \ {c[U]}]>>]

\* There is one, as long as an element and a result give a result.
LEMMA FoldExists ==
  ASSUME NEW S, IsFiniteSet(S), NEW V, NEW base \in V, NEW op \in [S \X V -> V],
         NEW c, \A U \in SUBSET S : U # {} => c[U] \in U
  PROVE  \E g \in [SUBSET S -> V] : IsFold(g, op, base, c, S)
  <1> DEFINE Upto(n) == {U \in SUBSET S : Cardinality(U) <= n}
             C == {n \in Nat : \E g \in [SUBSET S -> V] : 
                     \A U \in Upto(n) : g[U] = IF U = {} THEN base ELSE op[<<c[U], g[U \ {c[U]}]>>]}
  <1>1. \A U \in SUBSET S : IsFiniteSet(U) /\ Cardinality(U) \in Nat
    BY FS_Subset, FS_CardinalityType
  <1>2. 0 \in C
    <2>1. \A U \in SUBSET S : Cardinality(U) = 0 => U = {}
      BY <1>1, FS_EmptySet
    <2>2. \A U \in Upto(0) : U = {}
      BY <2>1, <1>1
    <2>3. [U \in SUBSET S |-> base] \in [SUBSET S -> V]
      OBVIOUS
    <2>4. QED  BY <2>2, <2>3
  <1>3. ASSUME NEW n \in Nat, n \in C PROVE n + 1 \in C
    <2>1. PICK g \in [SUBSET S -> V] : 
            \A U \in Upto(n) : g[U] = IF U = {} THEN base ELSE op[<<c[U], g[U \ {c[U]}]>>]
      BY <1>3
    <2>2. PICK h : h = [U \in SUBSET S |-> IF U = {} THEN base ELSE op[<<c[U], g[U \ {c[U]}]>>]]
      OBVIOUS
    <2>3. \A U \in SUBSET S : U # {} => c[U] \in U /\ c[U] \in S /\ U \ {c[U]} \in SUBSET S
      OBVIOUS
    <2>4. h \in [SUBSET S -> V]
      <3>1. ASSUME NEW U \in SUBSET S PROVE h[U] \in V
        <4>1. CASE U = {}
          BY <4>1, <2>2
        <4>2. CASE U # {}
          <5>1. c[U] \in S /\ g[U \ {c[U]}] \in V
            BY <4>2, <2>3, <2>1
          <5>2. <<c[U], g[U \ {c[U]}]>> \in S \X V
            BY <5>1
          <5>3. op[<<c[U], g[U \ {c[U]}]>>] \in V
            BY <5>2
          <5>4. QED  BY <4>2, <5>3, <2>2
        <4>3. QED  BY <4>1, <4>2
      <3>2. QED  BY <3>1, <2>2
    <2>5. \A U \in Upto(n) : h[U] = g[U]
      BY <2>1, <2>2
    <2>6. ASSUME NEW U \in Upto(n + 1), U # {} PROVE h[U \ {c[U]}] = g[U \ {c[U]}]
      <3>1. Cardinality(U \ {c[U]}) = Cardinality(U) - 1
        BY <1>1, <2>3, <2>6, FS_RemoveElement
      <3>2. U \ {c[U]} \in Upto(n)
        BY <3>1, <1>1, <2>3
      <3>3. QED  BY <3>2, <2>5
    <2>7. \A U \in Upto(n + 1) : h[U] = IF U = {} THEN base ELSE op[<<c[U], h[U \ {c[U]}]>>]
      BY <2>2, <2>6
    <2>8. QED  BY <2>4, <2>7, n + 1 \in Nat
  <1>4. Nat \subseteq C
    <2> HIDE DEF C
    <2>1. QED  BY <1>2, <1>3, AllOfNat
  <1>5. PICK n \in Nat : n = Cardinality(S)
    BY FS_CardinalityType
  <1>6. \A U \in SUBSET S : U \in Upto(n)
    BY <1>1, <1>5, FS_Subset
  <1>7. n \in C
    BY <1>4
  <1>8. QED  BY <1>6, <1>7 DEF IsFold

\* The time that frames ran themselves.
Taken(s) == CHOOSE x \in s : TRUE
OwnOf(a, S) == CHOOSE iter : iter = [s \in SUBSET S |-> IF s = {} THEN 0 ELSE iter[s \ {Taken(s)}] + a[Taken(s)].own]

\* It is a whole number when every time is one.
LEMMA OwnIs ==
  ASSUME NEW S, IsFiniteSet(S), NEW a, \A i \in S : a[i].own \in Int
  PROVE  OwnOf(a, S)[S] \in Int
  <1>1. PICK own \in [S -> Int] : \A i \in S : own[i] = a[i].own
    <2>1. [i \in S |-> a[i].own] \in [S -> Int]
      OBVIOUS
    <2>2. QED  BY <2>1
  <1>2. PICK op \in [S \X Int -> Int] : \A i \in S : \A x \in Int : op[<<i, x>>] = x + own[i]
    <2>1. PICK op : op = [p \in S \X Int |-> p[2] + own[p[1]]]
      OBVIOUS
    <2>2. op \in [S \X Int -> Int]
      <3>1. ASSUME NEW p \in S \X Int PROVE p[2] + own[p[1]] \in Int
        OBVIOUS
      <3>2. QED  BY <3>1, <2>1
    <2>3. \A i \in S : \A x \in Int : op[<<i, x>>] = x + own[i]
      BY <2>1
    <2>4. QED  BY <2>2, <2>3
  <1>3. PICK c : c = [U \in SUBSET S |-> Taken(U)]
    OBVIOUS
  <1>4. \A U \in SUBSET S : c[U] = Taken(U) /\ (U # {} => c[U] \in U)
    BY <1>3 DEF Taken
  <1>5. 0 \in Int
    OBVIOUS
  <1>6. PICK g \in [SUBSET S -> Int] : IsFold(g, op, 0, c, S)
    BY <1>4, FoldExists, <1>5, Zenon
  <1>7. g = [s \in SUBSET S |-> IF s = {} THEN 0 ELSE g[s \ {Taken(s)}] + a[Taken(s)].own]
    <2>1. ASSUME NEW s \in SUBSET S PROVE g[s] = IF s = {} THEN 0 ELSE g[s \ {Taken(s)}] + a[Taken(s)].own
      <3>1. CASE s = {}
        BY <3>1, <1>6 DEF IsFold
      <3>2. CASE s # {}
        <4>1. PICK x \in S : x = Taken(s) /\ x = c[s]
          BY <3>2, <1>4
        <4>2. g[s \ {x}] \in Int
          BY <1>6
        <4>3. g[s] = op[<<x, g[s \ {x}]>>]
          BY <3>2, <4>1, <1>6 DEF IsFold
        <4>4. g[s] = g[s \ {x}] + a[x].own
          BY <4>2, <4>3, <1>1, <1>2
        <4>5. QED  BY <3>2, <4>1, <4>4
      <3>3. QED  BY <3>1, <3>2
    <2>2. g = [s \in SUBSET S |-> g[s]]
      BY <1>6
    <2>3. QED  BY <2>1, <2>2
  <1>8. PICK h : h = OwnOf(a, S)
    OBVIOUS
  <1>9. h = [s \in SUBSET S |-> IF s = {} THEN 0 ELSE h[s \ {Taken(s)}] + a[Taken(s)].own]
    BY <1>7, <1>8, Zenon DEF OwnOf
  <1>10. PICK T : T = {U \in SUBSET S : h[U] \in Int}
    OBVIOUS
  <1>11. ASSUME NEW U \in SUBSET S, \A x \in U : U \ {x} \in T PROVE U \in T
    <2>1. CASE U = {}
      <3>1. h[U] = 0
        BY <2>1, <1>9
      <3>2. QED  BY <3>1, <1>10
    <2>2. CASE U # {}
      <3>1. Taken(U) \in U
        BY <2>2 DEF Taken
      <3>2. h[U] = h[U \ {Taken(U)}] + a[Taken(U)].own
        BY <1>9, <2>2
      <3>3. h[U \ {Taken(U)}] \in Int
        BY <3>1, <1>10, <1>11
      <3>4. a[Taken(U)].own \in Int
        BY <3>1, <1>1
      <3>5. QED  BY <3>2, <3>3, <3>4, <1>10
    <2>3. QED  BY <2>1, <2>2
  <1>12. S \in T
    <2>1. \A U \in SUBSET S : (\A x \in U : U \ {x} \in T) => U \in T
      BY <1>11
    <2>2. QED  BY <2>1, AllSubsets, Zenon
  <1>13. QED  BY <1>8, <1>10, <1>12

\* The shares, with the sum named.
LEMMA SharesOf ==
  ASSUME NEW a
  PROVE  KD!Shares(a) =
           LET Own(S) == OwnOf(a, S)[S]
               total  == Own(DOMAIN a)
               Share(name) == (100 * Own({i \in DOMAIN a : a[i].name = name})) \div total
           IN  IF total <= 0 THEN <<>>
               ELSE [name \in {m \in KD!Names(a) : Share(m) >= 5} |-> Share(name)]
  BY DEF KD!Shares, KD!FLOOR, KD!FoldSet, KD!MapThenFoldSet, OwnOf, Taken

\* The shares are whole numbers.
LEMMA SharesAre ==
  ASSUME NEW a \in Seq(Frames)
  PROVE  \A name \in DOMAIN KD!Shares(a) : KD!Shares(a)[name] \in Int
  <1>1. PICK n \in Nat : n = Len(a) /\ DOMAIN a = 1..n
    OBVIOUS
  <1>2. ASSUME NEW S \in SUBSET (1..n) PROVE OwnOf(a, S)[S] \in Int
    <2>1. IsFiniteSet(S)
      <3>1. IsFiniteSet(1..n)
        BY FS_Interval
      <3>2. QED  BY <3>1, FS_Subset
    <2>2. \A i \in S : a[i].own \in Int
      BY <1>1, FramesAssumption
    <2>3. QED  BY <2>1, <2>2, OwnIs
  <1>3. PICK total \in Int : total = OwnOf(a, 1..n)[1..n]
    BY <1>2
  <1>4. PICK own : own = [name \in KD!Names(a) |->
                           OwnOf(a, {i \in 1..n : a[i].name = name})[{i \in 1..n : a[i].name = name}]]
    OBVIOUS
  <1>5. \A name \in KD!Names(a) : own[name] \in Int
    BY <1>2, <1>4
  <1>6. \/ KD!Shares(a) = <<>>
        \/ /\ total > 0
           /\ KD!Shares(a) = [name \in {m \in KD!Names(a) : (100 * own[m]) \div total >= 5} |-> (100 * own[name]) \div total]
    <2>1. KD!Shares(a) = IF total <= 0 THEN <<>>
            ELSE [name \in {m \in KD!Names(a) : (100 * own[m]) \div total >= 5} |-> (100 * own[name]) \div total]
      BY <1>1, <1>3, <1>4, SharesOf
    <2>2. QED  BY <2>1, <1>3
  <1>7. QED
    <2>1. CASE KD!Shares(a) = <<>>
      BY <2>1
    <2>2. CASE /\ total > 0
               /\ KD!Shares(a) = [name \in {m \in KD!Names(a) : (100 * own[m]) \div total >= 5} |-> (100 * own[name]) \div total]
      <3>1. \A name \in KD!Names(a) : (100 * own[name]) \div total \in Int
        BY <1>3, <1>5, <2>2
      <3>2. QED  BY <3>1, <2>2
    <2>3. QED  BY <1>6, <2>1, <2>2

\* Nothing is found between the shares of a tape and its own.
LEMMA DistributionIs ==
  ASSUME NEW a \in Seq(Frames), NEW aTape, NEW bTape
  PROVE  Found("distribution", a, aTape, a, bTape) = <<>>
  <1>1. PICK x : x = KD!Shares(a)
    OBVIOUS
  <1>2. \A c, t : KD!Read("distribution", c, t) = KD!Shares(c)
    BY DEF KD!Read
  <1>3. Found("distribution", a, aTape, a, bTape) = KD!Differences("distribution", x, x, 2)
    BY <1>1, <1>2 DEF Found
  <1>4. CASE DOMAIN x = {}
    BY <1>3, <1>4 DEF KD!Differences
  <1>5. CASE DOMAIN x # {}
    <2>1. PICK S : S = {name \in DOMAIN x \cup DOMAIN x : At(x, name) - At(x, name) > 2 \/ At(x, name) - At(x, name) > 2}
      OBVIOUS
    <2>2. KD!Differences("distribution", x, x, 2) = KD!SetToSeq(S)
      BY <1>5, <2>1, SharesDiffer
    <2>3. \A name \in DOMAIN x : At(x, name) \in Int
      BY <1>1, SharesAre DEF At
    <2>4. S = {}
      BY <2>1, <2>3
    <2>5. KD!SetToSeq({}) = <<>>
      BY FS_EmptySet, AnyOrder
    <2>6. QED  BY <1>3, <2>4, <2>5, <2>2
  <1>6. QED  BY <1>4, <1>5

-----------------------------------------------------------------------------
(* What is kept of a tape are frames of it.                                *)

\* The greatest number of a finite set is in it.
LEMMA GreatestOf ==
  ASSUME NEW S, IsFiniteSet(S), S \subseteq Int
  PROVE  S # {} => KD!Max(S) \in S
  <1>1. PICK T : T = {U \in SUBSET S : U # {} => \E x \in U : \A y \in U : x >= y}
    OBVIOUS
  <1>2. ASSUME NEW U \in SUBSET S, \A x \in U : U \ {x} \in T PROVE U \in T
    <2>1. ASSUME NEW x \in U PROVE \E m \in U : \A y \in U : m >= y
      <3>1. x \in Int /\ \A y \in U : y \in Int
        OBVIOUS
      <3>2. CASE U \ {x} = {}
        BY <3>1, <3>2
      <3>3. CASE U \ {x} # {}
        <4>1. PICK m \in U \ {x} : \A y \in U \ {x} : m >= y
          BY <3>3, <1>1, <1>2
        <4>2. CASE m >= x
          BY <4>1, <4>2
        <4>3. CASE x > m
          BY <4>1, <4>3, <3>1
        <4>4. QED  BY <4>2, <4>3, <3>1, <4>1
      <3>4. QED  BY <3>2, <3>3
    <2>2. QED  BY <2>1, <1>1
  <1>3. \A U \in SUBSET S : (\A x \in U : U \ {x} \in T) => U \in T
    BY <1>2
  <1>4. S \in T
    BY <1>3, AllSubsets, Zenon
  <1>5. QED  BY <1>1, <1>4 DEF KD!Max

\* One turn of the loop of keep, and the loop.
IsOut(policy, a, f) ==
  LET whose == IF policy.oneTask THEN KD!Owner(a) ELSE ""
  IN  f.name \in policy.ignore \/ (whose # "" /\ f.task # "" /\ f.task # whose)
Turn(out, s, f) ==
  CASE s.inside # <<>> /\ f.depth > s.inside[1] -> s
    [] ~(s.inside # <<>> /\ f.depth > s.inside[1]) /\ out -> [s EXCEPT !.inside = <<f.depth>>]
    [] OTHER -> [kept |-> Append(s.kept, f), inside |-> <<>>]
Start == [kept |-> <<>>, inside |-> <<>>]
KeptOf(policy, a, S) ==
  CHOOSE iter : iter = [s \in SUBSET S |->
    IF s = {} THEN Start ELSE Turn(IsOut(policy, a, a[KD!Max(s)]), iter[s \ {KD!Max(s)}], a[KD!Max(s)])]

\* Keep is the last state of that loop.
LEMMA KeepOf ==
  ASSUME NEW policy, NEW a
  PROVE  KD!Keep(policy, a) = KeptOf(policy, a, DOMAIN a)[DOMAIN a].kept
  BY DEF KD!Keep, KD!FoldLeft, KD!MapThenFoldSet, KeptOf, IsOut, Turn, Start

Turns == [kept : Seq(Frames), inside : Seq({f.depth : f \in Frames})]

\* A turn leaves frames of the tape kept.
LEMMA TurnIs ==
  ASSUME NEW out, NEW s \in Turns, NEW f \in Frames
  PROVE  Turn(out, s, f) \in Turns
  <1>1. s.kept \in Seq(Frames) /\ s.inside \in Seq({g.depth : g \in Frames})
    BY DEF Turns
  <1>2. [s EXCEPT !.inside = <<f.depth>>] \in Turns
    <2>1. <<f.depth>> \in Seq({g.depth : g \in Frames})
      OBVIOUS
    <2>2. QED  BY <1>1, <2>1 DEF Turns
  <1>3. [kept |-> Append(s.kept, f), inside |-> <<>>] \in Turns
    BY <1>1 DEF Turns
  <1>4. QED  BY <1>2, <1>3 DEF Turn

\* So what is kept of a tape are frames of it.
LEMMA KeepIs ==
  ASSUME NEW policy, NEW a \in Seq(Frames)
  PROVE  KD!Keep(policy, a) \in Seq(Frames)
  <1>1. PICK S : S = DOMAIN a
    OBVIOUS
  <1>2. IsFiniteSet(S) /\ S \subseteq Int /\ \A i \in S : a[i] \in Frames
    <2>1. S = 1..Len(a) /\ Len(a) \in Nat
      BY <1>1
    <2>2. QED  BY <2>1, FS_Interval
  <1>3. ASSUME NEW U \in SUBSET S, U # {} PROVE KD!Max(U) \in U
    <2>1. IsFiniteSet(U)
      BY <1>2, FS_Subset
    <2>2. QED  BY <2>1, <1>2, <1>3, GreatestOf
  <1>4. PICK c : c = [U \in SUBSET S |-> KD!Max(U)]
    OBVIOUS
  <1>5. \A U \in SUBSET S : U # {} => c[U] \in U
    BY <1>3, <1>4
  <1>6. PICK out : out = [i \in S |-> IsOut(policy, a, a[i])]
    OBVIOUS
  <1>7. PICK op \in [S \X Turns -> Turns] : \A i \in S : \A s \in Turns : op[<<i, s>>] = Turn(out[i], s, a[i])
    <2>1. PICK op : op = [p \in S \X Turns |-> Turn(out[p[1]], p[2], a[p[1]])]
      OBVIOUS
    <2>2. op \in [S \X Turns -> Turns]
      <3>1. ASSUME NEW p \in S \X Turns PROVE Turn(out[p[1]], p[2], a[p[1]]) \in Turns
        BY <1>2, TurnIs
      <3>2. QED  BY <3>1, <2>1
    <2>3. \A i \in S : \A s \in Turns : op[<<i, s>>] = Turn(out[i], s, a[i])
      BY <2>1
    <2>4. QED  BY <2>2, <2>3
  <1>8. Start \in Turns
    BY DEF Start, Turns
  <1>9. PICK g \in [SUBSET S -> Turns] : IsFold(g, op, Start, c, S)
    <2>1. IsFiniteSet(S)
      BY <1>2
    <2>2. QED  BY <2>1, <1>5, <1>8, FoldExists, Zenon
  <1>10. g = [s \in SUBSET S |->
                IF s = {} THEN Start ELSE Turn(IsOut(policy, a, a[KD!Max(s)]), g[s \ {KD!Max(s)}], a[KD!Max(s)])]
    <2>1. ASSUME NEW s \in SUBSET S
          PROVE  g[s] = IF s = {} THEN Start
                        ELSE Turn(IsOut(policy, a, a[KD!Max(s)]), g[s \ {KD!Max(s)}], a[KD!Max(s)])
      <3>1. CASE s = {}
        BY <3>1, <1>9 DEF IsFold
      <3>2. CASE s # {}
        <4>1. PICK x \in S : x = KD!Max(s) /\ x = c[s]
          BY <3>2, <1>3, <1>4
        <4>2. g[s \ {x}] \in Turns
          BY <1>9
        <4>3. g[s] = op[<<x, g[s \ {x}]>>]
          BY <3>2, <4>1, <1>9 DEF IsFold
        <4>4. g[s] = Turn(out[x], g[s \ {x}], a[x])
          BY <4>2, <4>3, <1>7
        <4>5. out[x] = IsOut(policy, a, a[x])
          BY <1>6
        <4>6. QED  BY <3>2, <4>1, <4>4, <4>5
      <3>3. QED  BY <3>1, <3>2
    <2>2. g = [s \in SUBSET S |-> g[s]]
      BY <1>9
    <2>3. QED  BY <2>1, <2>2
  <1>11. PICK h : h = KeptOf(policy, a, S)
    OBVIOUS
  <1>12. h = [s \in SUBSET S |->
                IF s = {} THEN Start ELSE Turn(IsOut(policy, a, a[KD!Max(s)]), h[s \ {KD!Max(s)}], a[KD!Max(s)])]
    BY <1>10, <1>11, Zenon DEF KeptOf
  <1>13. PICK T : T = {U \in SUBSET S : h[U] \in Turns}
    OBVIOUS
  <1>14. ASSUME NEW U \in SUBSET S, \A x \in U : U \ {x} \in T PROVE U \in T
    <2>1. CASE U = {}
      <3>1. h[U] = Start
        BY <2>1, <1>12
      <3>2. QED  BY <3>1, <1>8, <1>13
    <2>2. CASE U # {}
      <3>1. PICK x \in U : x = KD!Max(U)
        BY <2>2, <1>3
      <3>2. h[U] = Turn(IsOut(policy, a, a[x]), h[U \ {x}], a[x])
        BY <1>12, <2>2, <3>1
      <3>3. h[U \ {x}] \in Turns
        BY <1>13, <1>14
      <3>4. a[x] \in Frames
        BY <1>2
      <3>5. h[U] \in Turns
        BY <3>2, <3>3, <3>4, TurnIs
      <3>6. QED  BY <3>5, <1>13
    <2>3. QED  BY <2>1, <2>2
  <1>15. S \in T
    <2>1. \A U \in SUBSET S : (\A x \in U : U \ {x} \in T) => U \in T
      BY <1>14
    <2>2. IsFiniteSet(S)
      BY <1>2
    <2>3. QED  BY <2>1, <2>2, AllSubsets, Zenon
  <1>16. KD!Keep(policy, a) = h[S].kept
    BY <1>1, <1>11, KeepOf
  <1>17. QED  BY <1>13, <1>15, <1>16 DEF Turns

-----------------------------------------------------------------------------
(* The chain of the levels.                                                *)

\* What is the same at the level exact is the same in sequence.
LEMMA ExactlyInSequence ==
  ASSUME NEW a \in Seq(Frames), NEW b \in Seq(Frames), SameExactly(a, b)
  PROVE  SameInSequence(a, b)
  <1>1. PICK n \in Nat : n = Len(a) /\ n = Len(b) /\ DOMAIN a = 1..n /\ DOMAIN b = 1..n
    BY DEF SameExactly, SameSequence
  <1>2. \A i \in 1..n : a[i].complete = b[i].complete /\ a[i].name = b[i].name
    BY <1>1 DEF SameExactly, SameSequence
  <1>3. PICK S \in SUBSET (1..n) : S = {i \in 1..n : ~a[i].complete}
    OBVIOUS
  <1>4. S = {i \in 1..n : ~b[i].complete}
    BY <1>2, <1>3
  <1>5. PICK places : places = KD!InOrder(S)
    OBVIOUS
  <1>6. Incomplete(a) = places /\ Incomplete(b) = places
    BY <1>1, <1>3, <1>4, <1>5 DEF Incomplete
  <1>7. places \in Seq(S)
    BY <1>5, InOrderIs
  <1>8. \A j \in DOMAIN places : places[j] \in 1..n
    BY <1>3, <1>7
  <1>9. NamesOf(a, places) = NamesOf(b, places)
    BY <1>2, <1>8 DEF NamesOf
  <1>10. QED  BY <1>6, <1>9 DEF SameExactly, SameInSequence

\* What is the same in sequence has the same names, each as often.
LEMMA SequenceByName ==
  ASSUME NEW a \in Seq(Frames), NEW b \in Seq(Frames), SameSequence(a, b)
  PROVE  KD!Names(a) = KD!Names(b) /\ \A name : KD!Times(a, name) = KD!Times(b, name)
  <1>1. PICK n \in Nat : n = Len(a) /\ n = Len(b) /\ DOMAIN a = 1..n /\ DOMAIN b = 1..n
    BY DEF SameSequence
  <1>2. \A i \in 1..n : a[i].name = b[i].name
    BY <1>1 DEF SameSequence
  <1>3. KD!Names(a) = KD!Names(b)
    BY <1>1, <1>2 DEF KD!Names
  <1>4. ASSUME NEW name PROVE KD!Times(a, name) = KD!Times(b, name)
    <2>1. {i \in 1..n : a[i].name = name} = {i \in 1..n : b[i].name = name}
      BY <1>2
    <2>2. QED  BY <1>1, <2>1 DEF KD!Times
  <1>5. QED  BY <1>3, <1>4

\* What a comparison says of two tapes.
LEMMA SameIs ==
  ASSUME NEW level, NEW policy, NEW x, NEW y, NEW a, NEW b,
         a = KD!Keep(policy, x.frames), b = KD!Keep(policy, y.frames),
         NEW X, Found(level, a, x, b, y) \in Seq(X)
  PROVE  KD!DiffOf(x, y, level, policy, 2).same <=> Found(level, a, x, b, y) = <<>>
  <1>1. KD!DiffOf(x, y, level, policy, 2).same <=> KD!Capped(Found(level, a, x, b, y)) = <<>>
    BY DEF KD!DiffOf, Found
  <1>2. PICK found \in Seq(X) : found = Found(level, a, x, b, y)
    OBVIOUS
  <1>3. KD!Capped(found) = <<>> <=> found = <<>>
    BY CutIs
  <1>4. QED  BY <1>1, <1>2, <1>3

\* Two tapes of frames and a policy: the four levels, and the one that stands beside them.
LEMMA Chain ==
  ASSUME NEW x, NEW y, x.frames \in Seq(Frames), y.frames \in Seq(Frames), NEW policy,
         NEW same, same = [level \in {"exact", "sequence", "counters", "set", "distribution"} |->
                             KD!DiffOf(x, y, level, policy, 2).same]
  PROVE  /\ same["exact"] => same["sequence"]
         /\ same["sequence"] => same["counters"]
         /\ same["counters"] => same["set"]
         /\ x = y => same["distribution"]
  <1>1. PICK a \in Seq(Frames) : a = KD!Keep(policy, x.frames)
    BY KeepIs
  <1>2. PICK b \in Seq(Frames) : b = KD!Keep(policy, y.frames)
    BY KeepIs
  <1>3. same["exact"] <=> x.cpus = y.cpus /\ SameExactly(a, b)
    <2>1. PICK X : Found("exact", a, x, b, y) \in Seq(X)
      BY ExactIs
    <2>2. KD!DiffOf(x, y, "exact", policy, 2).same <=> Found("exact", a, x, b, y) = <<>>
      BY <1>1, <1>2, <2>1, SameIs, Zenon
    <2>3. Found("exact", a, x, b, y) = <<>> <=> x.cpus = y.cpus /\ SameExactly(a, b)
      BY ExactIs
    <2>4. same["exact"] <=> KD!DiffOf(x, y, "exact", policy, 2).same
      OBVIOUS
    <2>5. QED  BY <2>2, <2>3, <2>4, Zenon
  <1>4. same["sequence"] <=> x.cpus = y.cpus /\ SameInSequence(a, b)
    <2>1. PICK X : Found("sequence", a, x, b, y) \in Seq(X)
      BY SequenceIs
    <2>2. KD!DiffOf(x, y, "sequence", policy, 2).same <=> Found("sequence", a, x, b, y) = <<>>
      BY <1>1, <1>2, <2>1, SameIs, Zenon
    <2>3. Found("sequence", a, x, b, y) = <<>> <=> x.cpus = y.cpus /\ SameInSequence(a, b)
      BY SequenceIs
    <2>4. same["sequence"] <=> KD!DiffOf(x, y, "sequence", policy, 2).same
      OBVIOUS
    <2>5. QED  BY <2>2, <2>3, <2>4, Zenon
  <1>5. same["counters"] <=> /\ KD!Names(a) = KD!Names(b)
                             /\ \A name \in KD!Names(a) : KD!Times(a, name) = KD!Times(b, name)
    <2>1. PICK X : Found("counters", a, x, b, y) \in Seq(X)
      BY CountersAre
    <2>2. KD!DiffOf(x, y, "counters", policy, 2).same <=> Found("counters", a, x, b, y) = <<>>
      BY <1>1, <1>2, <2>1, SameIs, Zenon
    <2>3. QED  BY <2>2, CountersAre
  <1>6. same["set"] <=> KD!Names(a) = KD!Names(b)
    <2>1. PICK X : Found("set", a, x, b, y) \in Seq(X)
      BY SetIs
    <2>2. KD!DiffOf(x, y, "set", policy, 2).same <=> Found("set", a, x, b, y) = <<>>
      BY <1>1, <1>2, <2>1, SameIs, Zenon
    <2>3. QED  BY <2>2, SetIs
  <1>7. ASSUME x = y PROVE same["distribution"]
    <2>1. b = a
      BY <1>1, <1>2, <1>7
    <2>2. Found("distribution", a, x, b, y) = <<>>
      BY <2>1, DistributionIs
    <2>3. Found("distribution", a, x, b, y) \in Seq(Nat)
      <3>1. <<>> \in Seq(Nat)
        OBVIOUS
      <3>2. QED  BY <2>2, <3>1, Zenon
    <2>4. KD!DiffOf(x, y, "distribution", policy, 2).same <=> Found("distribution", a, x, b, y) = <<>>
      BY <1>1, <1>2, <2>3, SameIs, Zenon
    <2>5. QED  BY <2>2, <2>4
  <1>8. same["exact"] => same["sequence"]
    BY <1>3, <1>4, ExactlyInSequence
  <1>9. same["sequence"] => same["counters"]
    BY <1>4, <1>5, SequenceByName DEF SameInSequence
  <1>10. QED  BY <1>5, <1>6, <1>7, <1>8, <1>9

-----------------------------------------------------------------------------
\* Until it is chosen what is compared there is nothing, and tapes are of frames.
TapesOfFrames ==
  /\ comparing = "" => one = <<>> /\ other = <<>>
  /\ comparing = "tapes" => one \in Seq(Frames) /\ other \in Seq(Frames)

\* Tapes are only ever made of frames.
LEMMA TapesStay == ComparingSpec => []TapesOfFrames
  <1>1. ComparingInit => TapesOfFrames
    BY DEF ComparingInit, TapesOfFrames
  <1>2. TapesOfFrames /\ [ComparingNext]_comparingVars => TapesOfFrames'
    <2> SUFFICES ASSUME TapesOfFrames, [ComparingNext]_comparingVars PROVE TapesOfFrames'
      OBVIOUS
    <2>1. CASE Choose
      <3>1. <<>> \in Seq(Frames)
        OBVIOUS
      <3>2. one' = <<>> /\ other' = <<>> /\ comparing' # ""
        BY <2>1 DEF TapesOfFrames, Choose
      <3>3. QED  BY <3>1, <3>2, Zenon DEF TapesOfFrames
    <2>2. CASE Trace
      <3>1. one \in Seq(Frames) /\ other \in Seq(Frames)
        BY <2>2 DEF Trace, TapesOfFrames
      <3>2. one' \in Seq(Frames) /\ other' \in Seq(Frames)
        <4>1. PICK frame \in Frames : \/ one' = Append(one, frame) /\ other' = other
                                      \/ other' = Append(other, frame) /\ one' = one
          BY <2>2, Zenon DEF Trace
        <4>2. Append(one, frame) \in Seq(Frames) /\ Append(other, frame) \in Seq(Frames)
          BY <3>1
        <4>3. QED  BY <3>1, <4>1, <4>2, Zenon
      <3>3. comparing' # ""
        BY <2>2 DEF Trace
      <3>4. QED  BY <3>2, <3>3 DEF TapesOfFrames
    <2>3. CASE Capture
      BY <2>3 DEF TapesOfFrames, Capture
    <2>4. CASE UNCHANGED comparingVars
      BY <2>4 DEF TapesOfFrames, comparingVars
    <2>5. QED  BY <2>1, <2>2, <2>3, <2>4 DEF ComparingNext
  <1>3. QED  BY <1>1, <1>2, PTL DEF ComparingSpec

\* Whatever the frames, and however long the tapes: two tapes that are the same at a level are the
\* same at every looser one of the chain, under each policy, and a tape is the same as itself at
\* the level beside the chain.
THEOREM LevelsAreChained == ComparingSpec => []LevelsAreAChain
  <1>1. ASSUME TapesOfFrames PROVE LevelsAreAChain
    <2>1. SUFFICES ASSUME comparing = "tapes", NEW policy \in Policies
                   PROVE  \A same \in {[level \in ToSet(LEVELS) \cup {"distribution"} |-> Compared(level, policy).same]} :
                            /\ \A i \in 1..3 : same[LEVELS[i]] => same[LEVELS[i + 1]]
                            /\ one = other => same["distribution"]
      BY DEF LevelsAreAChain
    <2>2. PICK x, y : x = AsTape(one) /\ y = AsTape(other)
      OBVIOUS
    <2>3. x.frames \in Seq(Frames) /\ y.frames \in Seq(Frames) /\ (one = other => x = y)
      BY <1>1, <2>1, <2>2 DEF TapesOfFrames, AsTape
    <2>4. ToSet(LEVELS) \cup {"distribution"} = {"exact", "sequence", "counters", "set", "distribution"}
      BY DEF LEVELS, ToSet
    <2>5. PICK same : same = [level \in {"exact", "sequence", "counters", "set", "distribution"} |->
                                KD!DiffOf(x, y, level, policy, 2).same]
      OBVIOUS
    <2>6. same = [level \in ToSet(LEVELS) \cup {"distribution"} |-> Compared(level, policy).same]
      BY <2>2, <2>4, <2>5 DEF Compared
    <2>7. /\ same["exact"] => same["sequence"]
          /\ same["sequence"] => same["counters"]
          /\ same["counters"] => same["set"]
          /\ x = y => same["distribution"]
      BY <2>3, <2>5, Chain, Zenon
    <2>8. \A i \in 1..3 : same[LEVELS[i]] => same[LEVELS[i + 1]]
      BY <2>7 DEF LEVELS
    <2>9. QED  BY <2>3, <2>6, <2>7, <2>8
  <1>2. QED  BY <1>1, TapesStay, PTL
-----------------------------------------------------------------------------
(* What a loop keeps of a sequence.                                        *)

\* The greatest number that Release knows is this one.
LEMMA SameGreatest ==
  ASSUME NEW S
  PROVE  RL!Max(S) = KD!Max(S)
  BY DEF RL!Max, KD!Max

\* The loop of Only, over some of the places of a sequence.
OnlyOf(s, chosen, S) ==
  CHOOSE iter : iter = [U \in SUBSET S |->
    IF U = {} THEN <<>>
    ELSE IF s[RL!Max(U)] \in chosen THEN Append(iter[U \ {RL!Max(U)}], s[RL!Max(U)]) ELSE iter[U \ {RL!Max(U)}]]

\* Only is the last state of that loop.
LEMMA OnlyIsLast ==
  ASSUME NEW s, NEW chosen
  PROVE  RL!Only(s, chosen) = OnlyOf(s, chosen, DOMAIN s)[DOMAIN s]
  BY DEF RL!Only, RL!FoldLeft, RL!MapThenFoldSet, OnlyOf

\* h is a state of the loop for any of the places, with one place dealt with last.
Loops(h, s, chosen, S) ==
  /\ h[{}] = <<>>
  /\ \A U \in SUBSET S : U # {} =>
       \E x \in U : h[U] = IF s[x] \in chosen THEN Append(h[U \ {x}], s[x]) ELSE h[U \ {x}]

\* The loop has such states.
LEMMA OnlyTurns ==
  ASSUME NEW X, NEW s, NEW chosen, NEW S, IsFiniteSet(S), S \subseteq Int, \A i \in S : s[i] \in X
  PROVE  Loops(OnlyOf(s, chosen, S), s, chosen, S)
  <1>1. IsFiniteSet(S) /\ S \subseteq Int /\ \A i \in S : s[i] \in X
    OBVIOUS
  <1>2. ASSUME NEW U \in SUBSET S, U # {} PROVE RL!Max(U) \in U
    <2>1. IsFiniteSet(U)
      BY <1>1, FS_Subset
    <2>2. KD!Max(U) \in U
      BY <2>1, <1>1, <1>2, GreatestOf
    <2>3. QED  BY <2>2, SameGreatest
  <1>3. PICK c : c = [U \in SUBSET S |-> RL!Max(U)]
    OBVIOUS
  <1>4. \A U \in SUBSET S : U # {} => c[U] \in U
    BY <1>2, <1>3
  <1>5. PICK op : op = [p \in S \X Seq(X) |-> IF s[p[1]] \in chosen THEN Append(p[2], s[p[1]]) ELSE p[2]]
    OBVIOUS
  <1>6. op \in [S \X Seq(X) -> Seq(X)]
    <2>1. ASSUME NEW p \in S \X Seq(X)
          PROVE  (IF s[p[1]] \in chosen THEN Append(p[2], s[p[1]]) ELSE p[2]) \in Seq(X)
      <3>1. s[p[1]] \in X /\ p[2] \in Seq(X)
        BY <1>1
      <3>2. Append(p[2], s[p[1]]) \in Seq(X)
        BY <3>1
      <3>3. QED  BY <3>1, <3>2
    <2>2. QED  BY <2>1, <1>5
  <1>7. <<>> \in Seq(X)
    OBVIOUS
  <1>8. PICK g \in [SUBSET S -> Seq(X)] : IsFold(g, op, <<>>, c, S)
    <2>1. IsFiniteSet(S)
      BY <1>1
    <2>2. PICK V : V = Seq(X)
      OBVIOUS
    <2>3. op \in [S \X V -> V]
      BY <2>2, <1>6
    <2>4. PICK base \in V : base = <<>>
      BY <2>2, <1>7
    <2>5. PICK turn \in [S \X V -> V] : turn = op
      BY <2>3
    <2>6. \E g \in [SUBSET S -> V] : IsFold(g, turn, base, c, S)
      BY <2>1, <1>4, FoldExists, Zenon
    <2>7. QED  BY <2>2, <2>4, <2>5, <2>6
  <1>9. g = [U \in SUBSET S |->
              IF U = {} THEN <<>>
              ELSE IF s[RL!Max(U)] \in chosen THEN Append(g[U \ {RL!Max(U)}], s[RL!Max(U)]) ELSE g[U \ {RL!Max(U)}]]
    <2>1. ASSUME NEW U \in SUBSET S
          PROVE  g[U] = IF U = {} THEN <<>>
                        ELSE IF s[RL!Max(U)] \in chosen THEN Append(g[U \ {RL!Max(U)}], s[RL!Max(U)])
                        ELSE g[U \ {RL!Max(U)}]
      <3>1. CASE U = {}
        BY <3>1, <1>8 DEF IsFold
      <3>2. CASE U # {}
        <4>1. PICK x \in S : x = RL!Max(U) /\ x = c[U]
          BY <3>2, <1>2, <1>3
        <4>2. g[U \ {x}] \in Seq(X)
          BY <1>8
        <4>3. g[U] = op[<<x, g[U \ {x}]>>]
          BY <3>2, <4>1, <1>8 DEF IsFold
        <4>4. g[U] = IF s[x] \in chosen THEN Append(g[U \ {x}], s[x]) ELSE g[U \ {x}]
          BY <4>2, <4>3, <1>5
        <4>5. QED  BY <3>2, <4>1, <4>4
      <3>3. QED  BY <3>1, <3>2
    <2>2. g = [U \in SUBSET S |-> g[U]]
      BY <1>8
    <2>3. QED  BY <2>1, <2>2
  <1>10. PICK h : h = OnlyOf(s, chosen, S)
    OBVIOUS
  <1>11. h = [U \in SUBSET S |->
               IF U = {} THEN <<>>
               ELSE IF s[RL!Max(U)] \in chosen THEN Append(h[U \ {RL!Max(U)}], s[RL!Max(U)]) ELSE h[U \ {RL!Max(U)}]]
    BY <1>9, <1>10, Zenon DEF OnlyOf
  <1>12. h[{}] = <<>>
    BY <1>11
  <1>13. ASSUME NEW U \in SUBSET S, U # {}
         PROVE  \E x \in U : h[U] = IF s[x] \in chosen THEN Append(h[U \ {x}], s[x]) ELSE h[U \ {x}]
    <2>1. h[U] = IF s[RL!Max(U)] \in chosen THEN Append(h[U \ {RL!Max(U)}], s[RL!Max(U)]) ELSE h[U \ {RL!Max(U)}]
      BY <1>11, <1>13
    <2>2. QED  BY <2>1, <1>2, <1>13
  <1>14. QED  BY <1>10, <1>12, <1>13 DEF Loops

\* What is kept of a sequence: members of it that are chosen, each from a place of its own.
ComesFrom(at, kept, s, chosen, places) ==
  /\ at \in [1..Len(kept) -> places]
  /\ \A i \in 1..Len(kept) : kept[i] = s[at[i]] /\ kept[i] \in chosen
  /\ \A i, j \in 1..Len(kept) : at[i] = at[j] => i = j
IsOf(kept, s, chosen, places) == \E at : ComesFrom(at, kept, s, chosen, places)

\* And that is what Only gives.
LEMMA OnlyIs ==
  ASSUME NEW X, NEW s \in Seq(X), NEW chosen
  PROVE  RL!Only(s, chosen) \in Seq(X) /\ IsOf(RL!Only(s, chosen), s, chosen, DOMAIN s)
  <1>1. PICK S : S = DOMAIN s
    OBVIOUS
  <1>2. PICK h : h = OnlyOf(s, chosen, S)
    OBVIOUS
  <1>3. IsFiniteSet(S) /\ S \subseteq Int /\ \A i \in S : s[i] \in X
    <2>1. S = 1..Len(s) /\ Len(s) \in Nat
      BY <1>1
    <2>2. IsFiniteSet(S) /\ S \subseteq Int
      BY <2>1, FS_Interval
    <2>3. \A i \in S : s[i] \in X
      BY <1>1
    <2>4. QED  BY <2>2, <2>3
  <1>4. /\ h[{}] = <<>>
        /\ \A U \in SUBSET S : U # {} =>
             \E x \in U : h[U] = IF s[x] \in chosen THEN Append(h[U \ {x}], s[x]) ELSE h[U \ {x}]
    <2>1. Loops(OnlyOf(s, chosen, S), s, chosen, S)
      BY <1>3, OnlyTurns, Zenon
    <2>2. QED  BY <2>1, <1>2 DEF Loops
  <1>5. PICK T : T = {U \in SUBSET S : h[U] \in Seq(X) /\ IsOf(h[U], s, chosen, U)}
    OBVIOUS
  <1>6. ASSUME NEW U \in SUBSET S, \A x \in U : U \ {x} \in T PROVE U \in T
    <2>1. CASE U = {}
      <3>1. h[U] = <<>> /\ h[U] \in Seq(X) /\ Len(h[U]) = 0
        BY <2>1, <1>4
      <3>2. PICK at : at = [i \in 1..0 |-> 0]
        OBVIOUS
      <3>3. at \in [1..0 -> U]
        BY <3>2
      <3>4. ComesFrom(at, h[U], s, chosen, U)
        BY <3>1, <3>3 DEF ComesFrom
      <3>5. QED  BY <3>1, <3>4, <1>5 DEF IsOf
    <2>2. CASE U # {}
      <3>1. PICK x \in U : h[U] = IF s[x] \in chosen THEN Append(h[U \ {x}], s[x]) ELSE h[U \ {x}]
        BY <2>2, <1>4
      <3>2. h[U \ {x}] \in Seq(X) /\ IsOf(h[U \ {x}], s, chosen, U \ {x})
        BY <1>5, <1>6
      <3>3. PICK kept \in Seq(X) : kept = h[U \ {x}]
        BY <3>2
      <3>4. PICK n \in Nat : n = Len(kept)
        OBVIOUS
      <3>5. PICK at : ComesFrom(at, kept, s, chosen, U \ {x})
        BY <3>2, <3>3 DEF IsOf
      <3>6. /\ at \in [1..n -> U \ {x}]
            /\ \A i \in 1..n : kept[i] = s[at[i]] /\ kept[i] \in chosen
            /\ \A i, j \in 1..n : at[i] = at[j] => i = j
        BY <3>4, <3>5 DEF ComesFrom
      <3>7. CASE s[x] \in chosen
        <4>1. PICK more : more = Append(kept, s[x])
          OBVIOUS
        <4>2. s[x] \in X
          BY <1>3
        <4>3. more \in Seq(X) /\ Len(more) = n + 1 /\ (\A i \in 1..n : more[i] = kept[i]) /\ more[n + 1] = s[x]
          BY <4>1, <4>2, <3>4
        <4>4. PICK to : to = [i \in 1..(n + 1) |-> IF i = n + 1 THEN x ELSE at[i]]
          OBVIOUS
        <4>5. to[n + 1] = x /\ \A i \in 1..n : to[i] = at[i] /\ to[i] \in U \ {x}
          <5>1. n + 1 \in 1..(n + 1) /\ \A i \in 1..n : i \in 1..(n + 1) /\ i # n + 1
            OBVIOUS
          <5>2. \A i \in 1..n : at[i] \in U \ {x}
            BY <3>6
          <5>3. QED  BY <5>1, <5>2, <4>4
        <4>6. to \in [1..(n + 1) -> U]
          <5>1. \A i \in 1..(n + 1) : to[i] \in U
            BY <4>5
          <5>2. QED  BY <5>1, <4>4
        <4>7. \A i \in 1..(n + 1) : more[i] = s[to[i]] /\ more[i] \in chosen
          BY <4>3, <4>5, <3>6, <3>7
        <4>8. ASSUME NEW i \in 1..(n + 1), NEW j \in 1..(n + 1), to[i] = to[j] PROVE i = j
          <5>1. CASE i \in 1..n /\ j \in 1..n
            BY <5>1, <4>5, <4>8, <3>6
          <5>2. CASE i = n + 1 /\ j \in 1..n
            BY <5>2, <4>5, <4>8
          <5>3. CASE i \in 1..n /\ j = n + 1
            BY <5>3, <4>5, <4>8
          <5>4. CASE i = n + 1 /\ j = n + 1
            BY <5>4
          <5>5. QED  BY <5>1, <5>2, <5>3, <5>4
        <4>9. ComesFrom(to, more, s, chosen, U)
          BY <4>3, <4>6, <4>7, <4>8 DEF ComesFrom
        <4>10. h[U] = more
          BY <3>1, <3>3, <3>7, <4>1
        <4>11. QED  BY <4>3, <4>9, <4>10, <1>5 DEF IsOf
      <3>8. CASE s[x] \notin chosen
        <4>1. h[U] = kept
          BY <3>1, <3>3, <3>8
        <4>2. at \in [1..n -> U]
          BY <3>6
        <4>3. ComesFrom(at, kept, s, chosen, U)
          BY <3>4, <3>6, <4>2 DEF ComesFrom
        <4>4. QED  BY <4>1, <4>3, <1>5 DEF IsOf
      <3>9. QED  BY <3>7, <3>8
    <2>3. QED  BY <2>1, <2>2
  <1>7. S \in T
    <2>1. \A U \in SUBSET S : (\A x \in U : U \ {x} \in T) => U \in T
      BY <1>6
    <2>2. QED  BY <2>1, <1>3, AllSubsets, Zenon
  <1>8. RL!Only(s, chosen) = h[S]
    BY <1>1, <1>2, OnlyIsLast
  <1>9. QED  BY <1>1, <1>5, <1>7, <1>8

-----------------------------------------------------------------------------
(* The emulator's directory.                                               *)

\* The count that Release knows is this one.
LEMMA SameSize ==
  ASSUME NEW S
  PROVE  RL!Cardinality(S) = Cardinality(S)
  BY DEF RL!Cardinality, Cardinality

\* The files of a set, one by one in any order: each of them comes.
EachOnce(names, S) ==
  /\ DOMAIN names = 1..Cardinality(S)
  /\ \A i \in DOMAIN names : names[i] \in S
  /\ \A single \in S : \E i \in DOMAIN names : names[i] = single

\* There is such an order, and it is the one that is taken.
LEMMA AnyTurn ==
  ASSUME NEW S, IsFiniteSet(S)
  PROVE  EachOnce(RL!SetToSeq(S), S)
  <1>1. PICK n \in Nat : n = Cardinality(S) /\ ExistsBijection(1..n, S)
    BY FS_CardinalityType
  <1>2. PICK f \in [1..n -> S] : IsInjective(f)
    BY <1>1 DEF ExistsBijection, Bijection, Injection
  <1>3. PICK names : names = RL!SetToSeq(S)
    OBVIOUS
  <1>4. names \in [1..n -> S] /\ RL!IsInjective(names)
    <2>1. RL!IsInjective(f)
      BY <1>2 DEF RL!IsInjective, IsInjective
    <2>2. RL!SetToSeq(S) = CHOOSE g \in [1..n -> S] : RL!IsInjective(g)
      BY <1>1, SameSize DEF RL!SetToSeq
    <2>3. QED  BY <1>3, <2>1, <2>2
  <1>5. names \in Injection(1..n, S)
    BY <1>4 DEF Injection, IsInjective, RL!IsInjective
  <1>6. IsFiniteSet(1..n) /\ Cardinality(1..n) = n
    <2>1. IsFiniteSet(1..n) /\ Cardinality(1..n) = IF 1 > n THEN 0 ELSE n - 1 + 1
      BY FS_Interval
    <2>2. QED  BY <2>1
  <1>7. names \in Surjection(1..n, S)
    BY <1>1, <1>5, <1>6, FS_Injection
  <1>8. \A single \in S : \E i \in 1..n : names[i] = single
    BY <1>7 DEF Surjection
  <1>9. QED  BY <1>1, <1>3, <1>4, <1>8 DEF EachOnce

\* The directories there can be: some of the pinned files, each of them right or wrong.
Names == DOMAIN RL!Wanted(Pin)
Contents == {"half"} \cup {RL!Wanted(Pin)[n] : n \in Names}
Directories == UNION {[D -> Contents] : D \in SUBSET Names}
Downloads == [into : Directories, stopped : BOOLEAN]

\* What is pinned is what one of the two parts of the pin says.
LEMMA PinnedIs ==
  /\ Names = DOMAIN Pin.members \cup DOMAIN Pin.bios
  /\ \A n \in DOMAIN Pin.members : RL!Wanted(Pin)[n] = Pin.members[n]
  /\ \A n \in DOMAIN Pin.bios : RL!Wanted(Pin)[n] = Pin.bios[n]
  BY PinAssumption DEF Names, RL!Wanted, RL!Laid

\* A directory with some more files in it, each right.
Grown(new, old, more) ==
  /\ new \in Directories
  /\ DOMAIN new = DOMAIN old \cup more
  /\ \A n \in more : new[n] = RL!Wanted(Pin)[n]
  /\ \A n \in DOMAIN old \ more : new[n] = old[n]

\* A directory is one of the functions there can be.
LEMMA DirectoryIs ==
  ASSUME NEW d
  PROVE  d \in Directories <=> d = [n \in DOMAIN d |-> d[n]] /\ DOMAIN d \subseteq Names /\ \A n \in DOMAIN d : d[n] \in Contents
  BY DEF Directories

\* Right files laid over a directory leave it grown.
LEMMA LaidIs ==
  ASSUME NEW old \in Directories, NEW new, DOMAIN new \subseteq Names,
         \A n \in DOMAIN new : new[n] = RL!Wanted(Pin)[n]
  PROVE  Grown(RL!Laid(new, old), old, DOMAIN new)
  <1>1. PICK d : d = RL!Laid(new, old)
    OBVIOUS
  <1>2. d = [n \in DOMAIN new \cup DOMAIN old |-> IF n \in DOMAIN new THEN new[n] ELSE old[n]]
    BY <1>1 DEF RL!Laid
  <1>3. DOMAIN old \subseteq Names /\ \A n \in DOMAIN old : old[n] \in Contents
    BY DirectoryIs
  <1>4. DOMAIN d = DOMAIN old \cup DOMAIN new /\ d = [n \in DOMAIN d |-> d[n]]
    BY <1>2
  <1>5. /\ \A n \in DOMAIN new : d[n] = RL!Wanted(Pin)[n]
        /\ \A n \in DOMAIN old \ DOMAIN new : d[n] = old[n]
    BY <1>2
  <1>6. \A n \in DOMAIN new : RL!Wanted(Pin)[n] \in Contents
    BY DEF Contents
  <1>7. \A n \in DOMAIN d : d[n] \in Contents
    BY <1>3, <1>4, <1>5, <1>6
  <1>8. d \in Directories
    BY <1>3, <1>4, <1>7, DirectoryIs
  <1>9. QED  BY <1>1, <1>4, <1>5, <1>8 DEF Grown

\* A grown directory has nothing wrong that was right or was not there.
LEMMA GrownIs ==
  ASSUME NEW old, NEW new, NEW more, Grown(new, old, more)
  PROVE  Wrong(new) \subseteq Wrong(old) \ more /\ DOMAIN old \subseteq DOMAIN new /\ more \subseteq DOMAIN new
  BY DEF Grown, Wrong

\* One turn of the loop of the files that are fetched one by one.
TurnOf(s, name, served, force) ==
  CASE s.stopped \/ (~force /\ name \in DOMAIN s.into) -> s
    [] ~s.stopped /\ (force \/ name \notin DOMAIN s.into) /\ served.bios[name] # Pin.bios[name] -> [s EXCEPT !.stopped = TRUE]
    [] OTHER -> [s EXCEPT !.into = RL!Put(@, name, served.bios[name])]

\* What a state of the download may be after another: the files of a set have been dealt with.
Honest(served) == served.members = Pin.members /\ served.bios = Pin.bios
Fetched(s, was, names, served, force) ==
  /\ s \in Downloads
  /\ Wrong(s.into) \subseteq Wrong(was.into)
  /\ DOMAIN was.into \subseteq DOMAIN s.into
  /\ Honest(served) /\ ~was.stopped =>
       ~s.stopped /\ names \subseteq DOMAIN s.into /\ (force => Wrong(s.into) \cap names = {})

\* A turn deals with one more file.
LEMMA FetchTurnIs ==
  ASSUME NEW s \in Downloads, NEW name \in DOMAIN Pin.bios, NEW served, NEW force \in BOOLEAN
  PROVE  Fetched(TurnOf(s, name, served, force), s, {name}, served, force)
  <1>1. s.into \in Directories /\ s.stopped \in BOOLEAN /\ s = [into |-> s.into, stopped |-> s.stopped]
    BY DEF Downloads
  <1>2. PICK new : new = TurnOf(s, name, served, force)
    OBVIOUS
  <1>3. CASE s.stopped \/ (~force /\ name \in DOMAIN s.into)
    <2>1. new = s
      BY <1>2, <1>3 DEF TurnOf
    <2>2. QED  BY <1>2, <1>3, <2>1 DEF Fetched
  <1>4. CASE ~s.stopped /\ (force \/ name \notin DOMAIN s.into) /\ served.bios[name] # Pin.bios[name]
    <2>1. new = [into |-> s.into, stopped |-> TRUE]
      BY <1>1, <1>2, <1>4 DEF TurnOf
    <2>2. new \in Downloads /\ new.into = s.into
      BY <1>1, <2>1 DEF Downloads
    <2>3. ~Honest(served)
      BY <1>4 DEF Honest
    <2>4. QED  BY <1>2, <2>2, <2>3 DEF Fetched
  <1>5. CASE ~s.stopped /\ (force \/ name \notin DOMAIN s.into) /\ served.bios[name] = Pin.bios[name]
    <2>1. new = [into |-> RL!Put(s.into, name, served.bios[name]), stopped |-> s.stopped]
      BY <1>1, <1>2, <1>5 DEF TurnOf
    <2>2. PICK single : single = [n \in {name} |-> served.bios[name]]
      OBVIOUS
    <2>3. DOMAIN single = {name} /\ single[name] = RL!Wanted(Pin)[name] /\ DOMAIN single \subseteq Names
      BY <1>5, <2>2, PinnedIs
    <2>4. Grown(RL!Laid(single, s.into), s.into, DOMAIN single)
      BY <1>1, <2>3, LaidIs
    <2>5. new.into = RL!Laid(single, s.into)
      BY <2>1, <2>2 DEF RL!Put
    <2>6. Grown(new.into, s.into, {name})
      BY <2>3, <2>4, <2>5
    <2>7. new \in Downloads /\ ~new.stopped
      BY <1>1, <1>5, <2>1, <2>6 DEF Downloads, Grown
    <2>8. Wrong(new.into) \subseteq Wrong(s.into) \ {name} /\ DOMAIN s.into \subseteq DOMAIN new.into /\ {name} \subseteq DOMAIN new.into
      BY <2>6, GrownIs
    <2>9. QED  BY <1>2, <2>7, <2>8 DEF Fetched
  <1>6. QED  BY <1>1, <1>3, <1>4, <1>5

\* The tarball: all of its files, or none.
LEMMA MembersAre ==
  ASSUME NEW into \in Directories, NEW served, NEW force \in BOOLEAN
  PROVE  Fetched(RL!DownloadMembers(Pin, into, served, force), [into |-> into, stopped |-> FALSE], DOMAIN Pin.members, served, force)
  <1>1. PICK new : new = RL!DownloadMembers(Pin, into, served, force)
    OBVIOUS
  <1>2. PICK was : was = [into |-> into, stopped |-> FALSE]
    OBVIOUS
  <1>3. was.into = into /\ ~was.stopped /\ was \in Downloads
    BY <1>2 DEF Downloads
  <1>4. CASE ~force /\ DOMAIN Pin.members \subseteq DOMAIN into
    <2>1. new = was
      BY <1>1, <1>2, <1>4 DEF RL!DownloadMembers
    <2>2. QED  BY <1>1, <1>2, <1>3, <1>4, <2>1 DEF Fetched
  <1>5. CASE (force \/ ~(DOMAIN Pin.members \subseteq DOMAIN into)) /\ served.members # Pin.members
    <2>1. new = [into |-> into, stopped |-> TRUE]
      BY <1>1, <1>5 DEF RL!DownloadMembers
    <2>2. new \in Downloads /\ new.into = into /\ ~Honest(served)
      BY <1>5, <2>1 DEF Downloads, Honest
    <2>3. QED  BY <1>1, <1>2, <1>3, <2>2 DEF Fetched
  <1>6. CASE (force \/ ~(DOMAIN Pin.members \subseteq DOMAIN into)) /\ served.members = Pin.members
    <2>1. new = [into |-> RL!Laid(Pin.members, into), stopped |-> FALSE]
      BY <1>1, <1>6 DEF RL!DownloadMembers
    <2>2. new.into = RL!Laid(Pin.members, into) /\ ~new.stopped
      BY <2>1
    <2>3. DOMAIN Pin.members \subseteq Names /\ \A n \in DOMAIN Pin.members : Pin.members[n] = RL!Wanted(Pin)[n]
      BY PinnedIs
    <2>4. Grown(new.into, into, DOMAIN Pin.members)
      BY <2>2, <2>3, LaidIs
    <2>5. new \in Downloads
      BY <2>1, <2>2, <2>4 DEF Downloads, Grown
    <2>6. /\ Wrong(new.into) \subseteq Wrong(into) \ DOMAIN Pin.members
          /\ DOMAIN into \subseteq DOMAIN new.into /\ DOMAIN Pin.members \subseteq DOMAIN new.into
      BY <2>4, GrownIs
    <2>7. QED  BY <1>1, <1>2, <1>3, <2>2, <2>5, <2>6 DEF Fetched
  <1>7. QED  BY <1>4, <1>5, <1>6

\* The loop of the download, over some of the places of a sequence of files.
DownloadOf(start, names, served, force, S) ==
  CHOOSE iter : iter = [U \in SUBSET S |->
    IF U = {} THEN start ELSE TurnOf(iter[U \ {RL!Max(U)}], names[RL!Max(U)], served, force)]

\* A download is the last state of that loop.
LEMMA DownloadIsLast ==
  ASSUME NEW into, NEW served, NEW force, NEW names, names = RL!SetToSeq(DOMAIN Pin.bios)
  PROVE  RL!Download(Pin, into, served, force) =
           DownloadOf(RL!DownloadMembers(Pin, into, served, force), names, served, force, DOMAIN names)[DOMAIN names]
  BY DEF RL!Download, RL!FoldLeft, RL!MapThenFoldSet, DownloadOf, TurnOf

\* h is a state of the loop for any of the places, with one place dealt with last.
Downloading(h, start, names, served, force, S) ==
  /\ h[{}] = start
  /\ \A U \in SUBSET S : U # {} =>
       \E x \in U : h[U] = TurnOf(h[U \ {x}], names[x], served, force)

\* The loop has such states.
LEMMA DownloadTurns ==
  ASSUME NEW S, IsFiniteSet(S), S \subseteq Int, NEW names, \A i \in S : names[i] \in DOMAIN Pin.bios,
         NEW start \in Downloads, NEW served, NEW force \in BOOLEAN
  PROVE  Downloading(DownloadOf(start, names, served, force, S), start, names, served, force, S)
  <1>1. IsFiniteSet(S) /\ S \subseteq Int /\ \A i \in S : names[i] \in DOMAIN Pin.bios
    OBVIOUS
  <1>2. ASSUME NEW U \in SUBSET S, U # {} PROVE RL!Max(U) \in U
    <2>1. IsFiniteSet(U)
      BY <1>1, FS_Subset
    <2>2. KD!Max(U) \in U
      BY <2>1, <1>1, <1>2, GreatestOf
    <2>3. QED  BY <2>2, SameGreatest
  <1>3. PICK c : c = [U \in SUBSET S |-> RL!Max(U)]
    OBVIOUS
  <1>4. \A U \in SUBSET S : U # {} => c[U] \in U
    BY <1>2, <1>3
  <1>5. PICK op : op = [p \in S \X Downloads |-> TurnOf(p[2], names[p[1]], served, force)]
    OBVIOUS
  <1>6. op \in [S \X Downloads -> Downloads]
    <2>1. ASSUME NEW p \in S \X Downloads PROVE TurnOf(p[2], names[p[1]], served, force) \in Downloads
      <3>1. PICK s \in Downloads : s = p[2]
        OBVIOUS
      <3>2. PICK name \in DOMAIN Pin.bios : name = names[p[1]]
        BY <1>1
      <3>3. Fetched(TurnOf(s, name, served, force), s, {name}, served, force)
        BY FetchTurnIs
      <3>4. QED  BY <3>1, <3>2, <3>3 DEF Fetched
    <2>2. QED  BY <2>1, <1>5
  <1>7. PICK g \in [SUBSET S -> Downloads] : IsFold(g, op, start, c, S)
    <2>1. PICK V : V = Downloads
      OBVIOUS
    <2>2. PICK base \in V : base = start
      BY <2>1
    <2>3. PICK turn \in [S \X V -> V] : turn = op
      BY <1>6, <2>1
    <2>4. \E g \in [SUBSET S -> V] : IsFold(g, turn, base, c, S)
      BY <1>1, <1>4, FoldExists, Zenon
    <2>5. QED  BY <2>1, <2>2, <2>3, <2>4
  <1>8. g = [U \in SUBSET S |->
              IF U = {} THEN start ELSE TurnOf(g[U \ {RL!Max(U)}], names[RL!Max(U)], served, force)]
    <2>1. ASSUME NEW U \in SUBSET S
          PROVE  g[U] = IF U = {} THEN start ELSE TurnOf(g[U \ {RL!Max(U)}], names[RL!Max(U)], served, force)
      <3>1. CASE U = {}
        BY <3>1, <1>7 DEF IsFold
      <3>2. CASE U # {}
        <4>1. PICK x \in S : x = RL!Max(U) /\ x = c[U]
          BY <3>2, <1>2, <1>3
        <4>2. g[U \ {x}] \in Downloads
          BY <1>7
        <4>3. g[U] = op[<<x, g[U \ {x}]>>]
          BY <3>2, <4>1, <1>7 DEF IsFold
        <4>4. g[U] = TurnOf(g[U \ {x}], names[x], served, force)
          BY <4>2, <4>3, <1>5
        <4>5. QED  BY <3>2, <4>1, <4>4
      <3>3. QED  BY <3>1, <3>2
    <2>2. g = [U \in SUBSET S |-> g[U]]
      BY <1>7
    <2>3. QED  BY <2>1, <2>2
  <1>9. PICK h : h = DownloadOf(start, names, served, force, S)
    OBVIOUS
  <1>10. h = [U \in SUBSET S |->
               IF U = {} THEN start ELSE TurnOf(h[U \ {RL!Max(U)}], names[RL!Max(U)], served, force)]
    BY <1>8, <1>9, Zenon DEF DownloadOf
  <1>11. h[{}] = start
    BY <1>10
  <1>12. ASSUME NEW U \in SUBSET S, U # {}
         PROVE  \E x \in U : h[U] = TurnOf(h[U \ {x}], names[x], served, force)
    <2>1. h[U] = TurnOf(h[U \ {RL!Max(U)}], names[RL!Max(U)], served, force)
      BY <1>10, <1>12
    <2>2. QED  BY <2>1, <1>2, <1>12
  <1>13. QED  BY <1>9, <1>11, <1>12 DEF Downloading

\* A download of whatever is served, into whatever is there.
LEMMA DownloadIs ==
  ASSUME NEW into \in Directories, NEW served, NEW force \in BOOLEAN
  PROVE  Fetched(RL!Download(Pin, into, served, force), [into |-> into, stopped |-> FALSE], Names, served, force)
  <1>1. PICK names : names = RL!SetToSeq(DOMAIN Pin.bios)
    OBVIOUS
  <1>2. PICK start : start = RL!DownloadMembers(Pin, into, served, force)
    OBVIOUS
  <1>3. PICK was : was = [into |-> into, stopped |-> FALSE]
    OBVIOUS
  <1>4. PICK S : S = DOMAIN names
    OBVIOUS
  <1>5. /\ IsFiniteSet(S) /\ S \subseteq Int /\ \A i \in S : names[i] \in DOMAIN Pin.bios
        /\ \A n \in DOMAIN Pin.bios : \E i \in S : names[i] = n
    <2>1. IsFiniteSet(DOMAIN Pin.bios)
      BY PinAssumption
    <2>2. EachOnce(RL!SetToSeq(DOMAIN Pin.bios), DOMAIN Pin.bios)
      BY <2>1, AnyTurn
    <2>3. Cardinality(DOMAIN Pin.bios) \in Nat
      BY <2>1, FS_CardinalityType
    <2>4. S = 1..Cardinality(DOMAIN Pin.bios)
      BY <1>1, <1>4, <2>2 DEF EachOnce
    <2>5. IsFiniteSet(S) /\ S \subseteq Int
      BY <2>3, <2>4, FS_Interval
    <2>6. QED  BY <1>1, <1>4, <2>2, <2>5 DEF EachOnce
  <1>6. Fetched(start, was, DOMAIN Pin.members, served, force)
    BY <1>2, <1>3, MembersAre
  <1>7. PICK h : h = DownloadOf(start, names, served, force, S)
    OBVIOUS
  <1>8. /\ h[{}] = start
        /\ \A U \in SUBSET S : U # {} => \E x \in U : h[U] = TurnOf(h[U \ {x}], names[x], served, force)
    <2>1. start \in Downloads
      BY <1>6 DEF Fetched
    <2>2. Downloading(DownloadOf(start, names, served, force, S), start, names, served, force, S)
      BY <1>5, <2>1, DownloadTurns, Zenon
    <2>3. QED  BY <2>2, <1>7 DEF Downloading
  <1>9. PICK T : T = {U \in SUBSET S : Fetched(h[U], was, DOMAIN Pin.members \cup {names[i] : i \in U}, served, force)}
    OBVIOUS
  <1>10. ASSUME NEW U \in SUBSET S, \A x \in U : U \ {x} \in T PROVE U \in T
    <2>1. CASE U = {}
      <3>1. DOMAIN Pin.members \cup {names[i] : i \in U} = DOMAIN Pin.members
        BY <2>1
      <3>2. QED  BY <2>1, <3>1, <1>6, <1>8, <1>9
    <2>2. CASE U # {}
      <3>1. PICK x \in U : h[U] = TurnOf(h[U \ {x}], names[x], served, force)
        BY <2>2, <1>8
      <3>2. PICK done : done = DOMAIN Pin.members \cup {names[i] : i \in U \ {x}}
        OBVIOUS
      <3>3. Fetched(h[U \ {x}], was, done, served, force)
        BY <1>9, <1>10, <3>2
      <3>4. PICK s \in Downloads : s = h[U \ {x}]
        BY <3>3 DEF Fetched
      <3>5. PICK name \in DOMAIN Pin.bios : name = names[x]
        BY <1>5
      <3>6. Fetched(h[U], s, {name}, served, force)
        BY <3>1, <3>4, <3>5, FetchTurnIs
      <3>7. Fetched(s, was, done, served, force)
        BY <3>3, <3>4
      <3>8. Fetched(h[U], was, done \cup {name}, served, force)
        BY <3>6, <3>7 DEF Fetched
      <3>9. DOMAIN Pin.members \cup {names[i] : i \in U} = done \cup {name}
        BY <3>2, <3>5
      <3>10. QED  BY <3>8, <3>9, <1>9
    <2>3. QED  BY <2>1, <2>2
  <1>11. S \in T
    <2>1. \A U \in SUBSET S : (\A x \in U : U \ {x} \in T) => U \in T
      BY <1>10
    <2>2. QED  BY <2>1, <1>5, AllSubsets, Zenon
  <1>12. RL!Download(Pin, into, served, force) = h[S]
    BY <1>1, <1>2, <1>4, <1>7, DownloadIsLast
  <1>13. DOMAIN Pin.members \cup {names[i] : i \in S} = Names
    BY <1>5, PinnedIs
  <1>14. QED  BY <1>3, <1>9, <1>11, <1>12, <1>13

\* What the check of the emulator's files finds.
LEMMA CheckVendorIs ==
  ASSUME NEW d \in Directories
  PROVE  RL!CheckVendor(Pin, d) = {} <=> Wrong(d) = {} /\ DOMAIN d = Names
  <1>1. DOMAIN d \subseteq Names
    BY DirectoryIs
  <1>2. RL!CheckVendor(Pin, d) = {} <=> DOMAIN RL!Wanted(Pin) \ DOMAIN d = {}
                                       /\ {n \in DOMAIN RL!Wanted(Pin) \cap DOMAIN d : d[n] # RL!Wanted(Pin)[n]} = {}
    BY DEF RL!CheckVendor
  <1>3. QED  BY <1>1, <1>2 DEF Names, Wrong

\* The emulator's files are as the property says whenever the directory is one there can be.
LEMMA EmulatorHolds ==
  ASSUME emulator \in Directories
  PROVE  EmulatorIsPinned
  <1>1. ASSUME NEW served \in Served, NEW force \in BOOLEAN
        PROVE  LET after == RL!Download(Pin, emulator, served, force)
                   honest == served.members = Pin.members /\ served.bios = Pin.bios
               IN  /\ Wrong(after.into) \subseteq Wrong(emulator)
                   /\ honest => ~after.stopped /\ DOMAIN RL!Wanted(Pin) \subseteq DOMAIN after.into
                   /\ honest /\ (force \/ Wrong(emulator) = {}) => RL!CheckVendor(Pin, after.into) = {}
    <2>1. PICK after : after = RL!Download(Pin, emulator, served, force)
      OBVIOUS
    <2>2. Fetched(after, [into |-> emulator, stopped |-> FALSE], Names, served, force)
      BY <2>1, DownloadIs
    <2>3. after.into \in Directories /\ DOMAIN after.into \subseteq Names
      BY <2>2, DirectoryIs DEF Fetched, Downloads
    <2>4. Wrong(after.into) \subseteq Wrong(emulator)
      BY <2>2 DEF Fetched
    <2>5. ASSUME Honest(served)
          PROVE  ~after.stopped /\ Names \subseteq DOMAIN after.into /\ (force => Wrong(after.into) \cap Names = {})
      BY <2>2, <2>5 DEF Fetched
    <2>6. ASSUME Honest(served), force \/ Wrong(emulator) = {}
          PROVE  RL!CheckVendor(Pin, after.into) = {}
      <3>1. DOMAIN after.into = Names
        BY <2>3, <2>5, <2>6
      <3>2. Wrong(after.into) \subseteq Names
        BY <3>1 DEF Wrong
      <3>3. Wrong(after.into) = {}
        BY <2>4, <2>5, <2>6, <3>2
      <3>4. QED  BY <2>3, <3>1, <3>3, CheckVendorIs
    <2>7. QED  BY <2>1, <2>4, <2>5, <2>6 DEF Honest, Names
  <1>2. RL!CheckVendor(Pin, emulator) = {} => Wrong(emulator) = {} /\ DOMAIN emulator = DOMAIN RL!Wanted(Pin)
    BY CheckVendorIs DEF Names
  <1>3. QED  BY <1>1, <1>2 DEF EmulatorIsPinned

-----------------------------------------------------------------------------
(* The lesson.                                                             *)

\* The lessons and the files there can be.
Made == [id : DOMAIN Stated, cell : Nat]
Lessons == [claims : {Stated}, cells : Seq(Cells), made : Seq(Made), blocks : Seq([at : Nat, name : {"why"}])]
TwoFiles(pair) == pair = [notebook |-> pair.notebook, page |-> pair.page]

\* What a check of a lesson passes is what its builder has, its claims made and shown.
LEMMA LessonHolds ==
  ASSUME lesson \in Lessons, TwoFiles(files)
  PROVE  LessonIsBuilt
  <1>1. SUFFICES ASSUME RL!Save(lesson, files, TRUE).code = 0
                 PROVE  /\ files = RL!Outputs(lesson)
                        /\ \A id \in DOMAIN Stated : \E i \in DOMAIN lesson.made :
                             /\ lesson.made[i].id = id
                             /\ Stated[id] \in RL!RUNNABLEKINDS => ShownBefore(lesson, lesson.made[i])
    BY DEF LessonIsBuilt
  <1>2. RL!LessonProblems(lesson) = {} /\ RL!Stale(lesson, files) = {}
    BY <1>1 DEF RL!Save
  <1>3. files = RL!Outputs(lesson)
    <2>1. \A name \in {"notebook", "page"} : files[name] = RL!Outputs(lesson)[name]
      BY <1>2 DEF RL!Stale
    <2>2. files["notebook"] = RL!Outputs(lesson)["notebook"] /\ files["page"] = RL!Outputs(lesson)["page"]
      BY <2>1
    <2>3. RL!Outputs(lesson) = [notebook |-> RL!Outputs(lesson).notebook, page |-> RL!Outputs(lesson).page]
      BY DEF RL!Outputs
    <2>4. files.notebook = RL!Outputs(lesson).notebook /\ files.page = RL!Outputs(lesson).page
      BY <2>2
    <2>5. QED  BY <2>3, <2>4 DEF TwoFiles
  <1>4. lesson.claims = Stated /\ lesson.cells \in Seq(Cells) /\ lesson.made \in Seq(Made)
    BY DEF Lessons
  <1>5. ASSUME NEW id \in DOMAIN Stated
        PROVE  \E i \in DOMAIN lesson.made :
                 /\ lesson.made[i].id = id
                 /\ Stated[id] \in RL!RUNNABLEKINDS => ShownBefore(lesson, lesson.made[i])
    <2>1. id \in {lesson.made[i].id : i \in DOMAIN lesson.made}
      BY <1>2, <1>4 DEF RL!LessonProblems
    <2>2. PICK i \in DOMAIN lesson.made : lesson.made[i].id = id
      BY <2>1
    <2>3. ASSUME Stated[id] \in RL!RUNNABLEKINDS PROVE ShownBefore(lesson, lesson.made[i])
      <3>1. RL!Shown(lesson, lesson.made[i])
        BY <1>2, <1>4, <2>2, <2>3 DEF RL!LessonProblems
      <3>2. PICK claim \in Made : claim = lesson.made[i]
        BY <1>4
      <3>3. claim.cell \in Nat
        BY DEF Made
      <3>4. PICK k \in DOMAIN lesson.cells :
              /\ k > claim.cell /\ lesson.cells[k].kind = "code"
              /\ \A j \in DOMAIN lesson.cells : j > claim.cell /\ j < k =>
                   lesson.cells[j].kind = "markdown" /\ ~lesson.cells[j].heading
        BY <3>1, <3>2 DEF RL!Shown
      <3>5. ASSUME NEW j \in claim.cell + 1..k
            PROVE  ~(lesson.cells[j].kind = "markdown" /\ lesson.cells[j].heading)
        <4>1. DOMAIN lesson.cells = 1..Len(lesson.cells) /\ Len(lesson.cells) \in Nat
          BY <1>4
        <4>2. j \in DOMAIN lesson.cells /\ j > claim.cell /\ (j < k \/ j = k)
          BY <3>3, <4>1
        <4>3. QED  BY <3>4, <4>2
      <3>6. QED  BY <3>2, <3>4, <3>5 DEF ShownBefore
    <2>4. QED  BY <2>2, <2>3
  <1>6. QED  BY <1>3, <1>5

-----------------------------------------------------------------------------
(* The rules a notebook is held to.                                        *)

\* The code of a notebook: cells of it, each of them code.
LEMMA CodeIs ==
  ASSUME NEW cells \in Seq(Cells)
  PROVE  RL!Code(cells) \in Seq(Cells) /\ \A i \in DOMAIN RL!Code(cells) : RL!Code(cells)[i].kind = "code"
  <1>1. PICK chosen : chosen = {cell \in RL!ToSet(cells) : cell.kind = "code"}
    OBVIOUS
  <1>2. PICK code : code = RL!Only(cells, chosen)
    OBVIOUS
  <1>3. code \in Seq(Cells) /\ IsOf(code, cells, chosen, DOMAIN cells)
    BY <1>2, OnlyIs
  <1>4. \A i \in 1..Len(code) : code[i] \in chosen
    BY <1>3 DEF IsOf, ComesFrom
  <1>5. DOMAIN code = 1..Len(code)
    BY <1>3
  <1>6. RL!Code(cells) = code
    BY <1>1, <1>2 DEF RL!Code
  <1>7. QED  BY <1>1, <1>3, <1>4, <1>5, <1>6

\* The least of the places from one on.
LEMMA LeastIs ==
  ASSUME NEW m \in Int, NEW n \in Int, m <= n
  PROVE  RL!Min(m..n) = m
  <1>1. m \in m..n /\ \A y \in m..n : m <= y
    OBVIOUS
  <1>2. \A x \in m..n : (\A y \in m..n : x <= y) => x = m
    OBVIOUS
  <1>3. QED  BY <1>1, <1>2 DEF RL!Min

\* A set with one member at the most.
LEMMA OneOfIt ==
  ASSUME NEW S, IsFiniteSet(S), ~(Cardinality(S) > 1), NEW x \in S
  PROVE  S = {x}
  <1>1. Cardinality(S \ {x}) = Cardinality(S) - 1 /\ IsFiniteSet(S \ {x})
    BY FS_RemoveElement
  <1>2. Cardinality(S) \in Nat /\ Cardinality(S \ {x}) \in Nat
    BY <1>1, FS_CardinalityType
  <1>3. Cardinality(S \ {x}) = 0
    BY <1>1, <1>2
  <1>4. S \ {x} = {}
    BY <1>1, <1>3, FS_EmptySet
  <1>5. QED  BY <1>4

\* The cell that has to print the banner.
FirstOf(code) == IF code[1].setup /\ Len(code) > 1 THEN 2 ELSE 1

\* The calls of a cell are those that can be seen.
LEMMA CallsAre ==
  ASSUME NEW cell \in Cells, cell.kind = "code"
  PROVE  RL!CallsOf(cell) = ToSet(cell.calls) /\ (~cell.tree => ToSet(cell.calls) = {})
  <1>1. ~cell.tree => cell.calls = <<>>
    BY CellsAssumption
  <1>2. ToSet(<<>>) = {}
    BY DEF ToSet
  <1>3. RL!ToSet(cell.calls) = ToSet(cell.calls)
    BY DEF RL!ToSet, ToSet
  <1>4. QED  BY <1>1, <1>2, <1>3 DEF RL!CallsOf

\* When nothing is found of the banner, that cell prints it and no other.
LEMMA BannerIs ==
  ASSUME NEW code \in Seq(Cells), \A i \in DOMAIN code : code[i].kind = "code", RL!CheckBanner(code) = {}
  PROVE  \A i \in DOMAIN code : Prints(code[i]) <=> i = FirstOf(code)
  <1>1. PICK printed : printed = {i \in DOMAIN code : \E call \in RL!CallsOf(code[i]) : call.last = "banner"}
    OBVIOUS
  <1>2. PICK real : real = DOMAIN code \ RL!SetupOf(code)
    OBVIOUS
  <1>3. PICK n \in Nat : n = Len(code) /\ DOMAIN code = 1..n
    OBVIOUS
  <1>4. IsFiniteSet(printed) /\ printed \subseteq 1..n
    <2>1. IsFiniteSet(1..n)
      BY FS_Interval
    <2>2. printed \subseteq 1..n
      BY <1>1, <1>3
    <2>3. QED  BY <2>1, <2>2, FS_Subset
  <1>5. CASE printed = {}
    <2>1. RL!CheckBanner(code) = {"no banner"}
      <3>1. Cardinality(printed) = 0
        BY <1>5, FS_EmptySet
      <3>2. QED  BY <1>1, <1>5, <3>1, SameSize DEF RL!CheckBanner
    <2>2. QED  BY <2>1
  <1>6. CASE printed # {}
    <2>1. ~(Cardinality(printed) > 1)
      BY <1>1, <1>6, SameSize DEF RL!CheckBanner
    <2>2. real = {} \/ RL!Min(real) \in printed
      BY <1>1, <1>2, <1>6, <2>1, SameSize DEF RL!CheckBanner
    <2>3. FirstOf(code) \in printed
      <3>1. n >= 1
        BY <1>4, <1>6
      <3>2. CASE code[1].setup /\ n > 1
        <4>1. RL!SetupOf(code) = {1}
          BY <1>3, <3>2 DEF RL!SetupOf
        <4>2. real = 2..n
          BY <1>2, <1>3, <4>1
        <4>3. RL!Min(2..n) = 2 /\ 2 \in 2..n
          BY <3>2, LeastIs
        <4>4. FirstOf(code) = 2
          BY <1>3, <3>2 DEF FirstOf
        <4>5. QED  BY <2>2, <4>2, <4>3, <4>4
      <3>3. CASE code[1].setup /\ n = 1
        <4>1. FirstOf(code) = 1
          BY <1>3, <3>3 DEF FirstOf
        <4>2. printed \subseteq {1}
          BY <1>4, <3>3
        <4>3. QED  BY <1>6, <4>1, <4>2
      <3>4. CASE ~code[1].setup
        <4>1. RL!SetupOf(code) = {}
          BY <3>4 DEF RL!SetupOf
        <4>2. real = 1..n
          BY <1>2, <1>3, <4>1
        <4>3. RL!Min(1..n) = 1 /\ 1 \in 1..n
          BY <3>1, LeastIs
        <4>4. FirstOf(code) = 1
          BY <3>4 DEF FirstOf
        <4>5. QED  BY <2>2, <4>2, <4>3, <4>4
      <3>5. QED  BY <3>1, <3>2, <3>3, <3>4
    <2>4. printed = {FirstOf(code)}
      BY <1>4, <2>1, <2>3, OneOfIt
    <2>5. ASSUME NEW i \in DOMAIN code PROVE Prints(code[i]) <=> i \in printed
      <3>1. code[i] \in Cells /\ code[i].kind = "code"
        OBVIOUS
      <3>2. RL!CallsOf(code[i]) = ToSet(code[i].calls)
        BY <3>1, CallsAre
      <3>3. QED  BY <1>1, <3>2 DEF Prints
    <2>6. QED  BY <2>4, <2>5
  <1>7. QED  BY <1>5, <1>6

\* A cell the rules find nothing wrong with has a note, installs only as the setup cell, and
\* writes in its scratch directory.
LEMMA CellIs ==
  ASSUME NEW cell \in Cells, cell.kind = "code", NEW setup,
         ~RL!CheckCell(cell, setup).installs, RL!CheckCell(cell, setup).caption = {}, RL!CheckCell(cell, setup).scratch = {}
  PROVE  /\ cell.note > 0 /\ (cell.pip => setup)
         /\ \A call \in ToSet(cell.calls) : call.last \in RL!WRITES /\ call.on # {} => RL!SCRATCH \in From(cell, call)
  <1>1. cell.pip => setup
    BY DEF RL!CheckCell
  <1>2. cell.note > 0
    <2>1. RL!CheckCaption(cell) = {}
      BY DEF RL!CheckCell
    <2>2. cell.note \in Nat
      BY CellsAssumption
    <2>3. cell.note # 0
      BY <2>1 DEF RL!CheckCaption
    <2>4. QED  BY <2>2, <2>3
  <1>3. ASSUME NEW call \in ToSet(cell.calls), call.last \in RL!WRITES, call.on # {}
        PROVE  RL!SCRATCH \in From(cell, call)
    <2>1. cell.tree /\ call \in RL!CallsOf(cell)
      BY <1>3, CallsAre
    <2>2. RL!CheckScratch(cell) = {}
      BY <2>1 DEF RL!CheckCell
    <2>3. RL!SCRATCH \in call.on \/ call.on \cap {a.name : a \in {b \in RL!ToSet(cell.assigns) : RL!SCRATCH \in b.within}} # {}
      BY <1>3, <2>1, <2>2 DEF RL!CheckScratch
    <2>4. RL!ToSet(cell.assigns) = ToSet(cell.assigns)
      BY DEF RL!ToSet, ToSet
    <2>5. QED  BY <2>3, <2>4 DEF From
  <1>4. QED  BY <1>1, <1>2, <1>3

\* So the rules keep what the property says of a notebook.
LEMMA LintHolds ==
  ASSUME lesson \in Lessons
  PROVE  NotebookIsLinted
  <1>1. SUFFICES ASSUME Linted
                 PROVE  \A i \in DOMAIN RL!Code(lesson.cells) :
                          LET code == RL!Code(lesson.cells) IN
                          /\ Prints(code[i]) <=> i = FirstOf(code)
                          /\ code[i].note > 0 /\ (code[i].pip => code[i].setup /\ i = 1)
                          /\ \A call \in ToSet(code[i].calls) :
                               call.last \in RL!WRITES /\ call.on # {} => RL!SCRATCH \in From(code[i], call)
    BY DEF NotebookIsLinted, FirstOf
  <1>2. PICK code : code = RL!Code(lesson.cells)
    OBVIOUS
  <1>3. lesson.cells \in Seq(Cells)
    BY DEF Lessons
  <1>4. code \in Seq(Cells) /\ \A i \in DOMAIN code : code[i].kind = "code"
    BY <1>2, <1>3, CodeIs
  <1>5. /\ RL!CheckBanner(code) = {}
        /\ \A i \in DOMAIN code : LET c == RL!CheckCell(code[i], i \in RL!SetupOf(code)) IN
             ~c.installs /\ c.caption = {} /\ c.scratch = {}
    BY <1>1, <1>2 DEF Linted, RL!CheckNotebook
  <1>6. \A i \in DOMAIN code : Prints(code[i]) <=> i = FirstOf(code)
    BY <1>4, <1>5, BannerIs
  <1>7. ASSUME NEW i \in DOMAIN code
        PROVE  /\ code[i].note > 0 /\ (code[i].pip => code[i].setup /\ i = 1)
               /\ \A call \in ToSet(code[i].calls) :
                    call.last \in RL!WRITES /\ call.on # {} => RL!SCRATCH \in From(code[i], call)
    <2>1. PICK cell \in Cells : cell = code[i] /\ cell.kind = "code"
      BY <1>4
    <2>2. PICK setup : setup = (i \in RL!SetupOf(code))
      OBVIOUS
    <2>3. /\ ~RL!CheckCell(cell, setup).installs /\ RL!CheckCell(cell, setup).caption = {}
          /\ RL!CheckCell(cell, setup).scratch = {}
      BY <1>5, <2>1, <2>2
    <2>4. /\ cell.note > 0 /\ (cell.pip => setup)
          /\ \A call \in ToSet(cell.calls) : call.last \in RL!WRITES /\ call.on # {} => RL!SCRATCH \in From(cell, call)
      BY <2>1, <2>3, CellIs
    <2>5. setup => code[i].setup /\ i = 1
      BY <2>2 DEF RL!SetupOf
    <2>6. QED  BY <2>1, <2>4, <2>5
  <1>8. QED  BY <1>2, <1>6, <1>7

-----------------------------------------------------------------------------
(* The site.                                                               *)

\* One sequence behind another.
Joins(s, a, b, m, k) ==
  /\ DOMAIN s = 1..(m + k) /\ Len(s) = m + k
  /\ \A i \in 1..m : s[i] = a[i]
  /\ \A i \in 1..(m + k) : i > m => i - m \in 1..k /\ s[i] = b[i - m]

\* That is what is one behind the other.
LEMMA JoinedIs ==
  ASSUME NEW m \in Nat, NEW k \in Nat, NEW a, NEW b, a = [i \in 1..m |-> a[i]], b = [i \in 1..k |-> b[i]]
  PROVE  Joins(a \o b, a, b, m, k)
  <1>1. PICK Y : Y = {a[i] : i \in 1..m} \cup {b[i] : i \in 1..k}
    OBVIOUS
  <1>2. PICK x \in Seq(Y) : x = a /\ Len(x) = m
    <2>1. a \in [1..m -> Y]
      BY <1>1
    <2>2. QED  BY <2>1
  <1>3. PICK y \in Seq(Y) : y = b /\ Len(y) = k
    <2>1. b \in [1..k -> Y]
      BY <1>1
    <2>2. QED  BY <2>1
  <1>4. PICK s : s = x \o y
    OBVIOUS
  <1>5. s \in Seq(Y) /\ Len(s) = m + k
    BY <1>2, <1>3, <1>4
  <1>6. \A i \in 1..(m + k) : s[i] = IF i <= m THEN x[i] ELSE y[i - m]
    BY <1>2, <1>3, <1>4
  <1>7. \A i \in 1..m : i \in 1..(m + k) /\ i <= m
    OBVIOUS
  <1>8. \A i \in 1..(m + k) : i > m => i - m \in 1..k /\ ~(i <= m)
    OBVIOUS
  <1>9. QED  BY <1>2, <1>3, <1>4, <1>5, <1>6, <1>7, <1>8 DEF Joins

\* The blueprints that are found are a sequence.
LEMMA BlueprintsAre ==
  ASSUME NEW f \in Blueprints \cup {<<>>}
  PROVE  \E found : found = RL!FindBlueprints(f) /\ Len(found) \in Nat /\ DOMAIN found = 1..Len(found)
  <1>1. PICK X : X = ToSet(f)
    OBVIOUS
  <1>2. f \in Seq(X)
    <2>1. CASE f \in Blueprints
      BY <1>1, <2>1, SiteAssumption
    <2>2. CASE f = <<>>
      BY <2>2
    <2>3. QED  BY <2>1, <2>2
  <1>3. PICK chosen : chosen = {x \in RL!ToSet(f) : x.file \notin RL!NOTPUBLISHED}
    OBVIOUS
  <1>4. PICK found : found = RL!Only(f, chosen)
    OBVIOUS
  <1>5. found \in Seq(X)
    BY <1>2, <1>4, OnlyIs
  <1>6. Len(found) \in Nat /\ DOMAIN found = 1..Len(found)
    BY <1>5
  <1>7. found = RL!FindBlueprints(f)
    BY <1>3, <1>4 DEF RL!FindBlueprints
  <1>8. QED  BY <1>6, <1>7

\* The pages a navigation names.
NavPages(nav) == {nav[i][2] : i \in DOMAIN nav}

\* They are the lessons' and the blueprints'.
LEMMA EntriesAre ==
  ASSUME NEW found, Len(found) \in Nat, DOMAIN found = 1..Len(found)
  PROVE  NavPages(RL!Navigation(SiteLessons, found))
           = {RL!LessonPage(SiteLessons[i]) : i \in DOMAIN SiteLessons} \cup {RL!BlueprintPage(found[i]) : i \in DOMAIN found}
  <1>1. PICK m \in Nat : m = Len(SiteLessons) /\ DOMAIN SiteLessons = 1..m
    BY SiteAssumption
  <1>2. PICK k \in Nat : k = Len(found) /\ DOMAIN found = 1..k
    OBVIOUS
  <1>3. PICK a : a = [i \in 1..m |-> <<SiteLessons[i].title, RL!LessonPage(SiteLessons[i])>>]
    OBVIOUS
  <1>4. PICK b : b = [i \in 1..k |-> <<found[i].title, RL!BlueprintPage(found[i])>>]
    OBVIOUS
  <1>5. PICK nav : nav = a \o b
    OBVIOUS
  <1>6. nav = RL!Navigation(SiteLessons, found)
    BY <1>1, <1>2, <1>3, <1>4, <1>5 DEF RL!Navigation
  <1>7. Joins(nav, a, b, m, k)
    <2>1. a = [i \in 1..m |-> a[i]] /\ b = [i \in 1..k |-> b[i]]
      BY <1>3, <1>4
    <2>2. QED  BY <2>1, <1>5, JoinedIs
  <1>8. DOMAIN nav = 1..(m + k)
    BY <1>7 DEF Joins
  <1>9. \A i \in 1..m : i \in 1..(m + k) /\ nav[i][2] = RL!LessonPage(SiteLessons[i])
    <2>1. ASSUME NEW i \in 1..m
          PROVE  i \in 1..(m + k) /\ nav[i][2] = RL!LessonPage(SiteLessons[i])
      <3>1. nav[i] = a[i] /\ a[i][2] = RL!LessonPage(SiteLessons[i])
        BY <1>3, <1>7 DEF Joins
      <3>2. QED  BY <3>1
    <2>2. QED  BY <2>1
  <1>10. \A j \in 1..k : m + j \in 1..(m + k) /\ nav[m + j][2] = RL!BlueprintPage(found[j])
    <2>1. ASSUME NEW j \in 1..k
          PROVE  m + j \in 1..(m + k) /\ nav[m + j][2] = RL!BlueprintPage(found[j])
      <3>1. PICK i \in 1..(m + k) : i = m + j /\ i > m /\ i - m = j
        OBVIOUS
      <3>2. nav[i] = b[j]
        BY <3>1, <1>7 DEF Joins
      <3>3. b[j][2] = RL!BlueprintPage(found[j])
        BY <1>4
      <3>4. QED  BY <3>1, <3>2, <3>3
    <2>2. QED  BY <2>1
  <1>11. \A i \in 1..(m + k) : i \in 1..m \/ \E j \in 1..k : i = m + j
    <2>1. ASSUME NEW i \in 1..(m + k), ~(i \in 1..m) PROVE \E j \in 1..k : i = m + j
      <3>1. i - m \in 1..k /\ i = m + (i - m)
        BY <2>1
      <3>2. QED  BY <3>1
    <2>2. QED  BY <2>1
  <1>12. PICK S : S = {nav[i][2] : i \in 1..(m + k)}
    OBVIOUS
  <1>13. PICK T : T = {RL!LessonPage(SiteLessons[i]) : i \in 1..m}
    OBVIOUS
  <1>14. PICK U : U = {RL!BlueprintPage(found[i]) : i \in 1..k}
    OBVIOUS
  <1>15. S \subseteq T \cup U
    <2>1. ASSUME NEW i \in 1..(m + k) PROVE nav[i][2] \in T \cup U
      <3>1. CASE i \in 1..m
        <4>1. nav[i][2] = RL!LessonPage(SiteLessons[i])
          BY <1>9, <3>1
        <4>2. QED  BY <4>1, <3>1, <1>13
      <3>2. CASE ~(i \in 1..m)
        <4>1. PICK j \in 1..k : i = m + j
          BY <1>11, <3>2
        <4>2. nav[i][2] = RL!BlueprintPage(found[j])
          BY <1>10, <4>1
        <4>3. QED  BY <4>2, <1>14
      <3>3. QED  BY <3>1, <3>2
    <2>2. QED  BY <2>1, <1>12
  <1>16. T \cup U \subseteq S
    <2>1. ASSUME NEW i \in 1..m PROVE RL!LessonPage(SiteLessons[i]) \in S
      <3>1. i \in 1..(m + k) /\ nav[i][2] = RL!LessonPage(SiteLessons[i])
        BY <1>9
      <3>2. nav[i][2] \in S
        BY <3>1, <1>12
      <3>3. QED  BY <3>1, <3>2
    <2>2. ASSUME NEW j \in 1..k PROVE RL!BlueprintPage(found[j]) \in S
      <3>1. m + j \in 1..(m + k) /\ nav[m + j][2] = RL!BlueprintPage(found[j])
        BY <1>10
      <3>2. nav[m + j][2] \in S
        BY <3>1, <1>12, Zenon
      <3>3. QED  BY <3>1, <3>2
    <2>3. QED  BY <2>1, <2>2, <1>13, <1>14, Zenon
  <1>17. S = T \cup U
    BY <1>15, <1>16
  <1>18. NavPages(nav) = {RL!LessonPage(SiteLessons[i]) : i \in DOMAIN SiteLessons}
                           \cup {RL!BlueprintPage(found[i]) : i \in DOMAIN found}
    BY <1>1, <1>2, <1>8, <1>12, <1>13, <1>14, <1>17 DEF NavPages
  <1>19. QED  BY <1>6, <1>18

\* What a build that ran to its end makes of the blueprints there are.
SiteOf(f) ==
  [config |-> <<RL!Config("head", SiteLessons, RL!FindBlueprints(f))>>, stylesheet |-> <<"colours">>,
   docs |-> RL!Stage(SiteLessons, RL!FindBlueprints(f)), of |-> <<f>>]

\* A site is of the build it is marked with, if that ran to its end.
KnownSite == site.of = <<>> \/ \E f \in Blueprints \cup {<<>>} : site = SiteOf(f)

\* What a check of the site passes is staged.
LEMMA SiteHolds ==
  ASSUME KnownSite
  PROVE  SiteIsStaged
  <1> DEFINE Misnamed(i) == {bp \in RL!ToSet(RL!FindBlueprints(site.of[i])) : bp.name # bp.file}
             Named == NavPages(site.config[1].nav)
             Paged == DOMAIN site.docs.lessons.pages \cup DOMAIN site.docs.blueprints.pages
  <1>1. SUFFICES ASSUME RL!Build(site, "head", "colours", SiteLessons, inputs, TRUE).stale = {}
                 PROVE  /\ site.config[1].nav = RL!Navigation(SiteLessons, RL!FindBlueprints(inputs))
                        /\ \A i \in DOMAIN site.of :
                             /\ Named \ {RL!BlueprintPage(bp) : bp \in Misnamed(i)} \subseteq Paged
                             /\ Paged \ {RL!BlueprintFile(bp) : bp \in Misnamed(i)} \subseteq Named
    BY DEF SiteIsStaged, NavPages
  <1>2. PICK wanted : wanted = [config |-> <<RL!Config("head", SiteLessons, RL!FindBlueprints(inputs))>>, stylesheet |-> <<"colours">>]
    OBVIOUS
  <1>3. \A name \in DOMAIN wanted : site[name] = wanted[name]
    BY <1>1, <1>2 DEF RL!Build
  <1>4. site.config = <<RL!Config("head", SiteLessons, RL!FindBlueprints(inputs))>>
    <2>1. "config" \in DOMAIN wanted /\ wanted["config"] = <<RL!Config("head", SiteLessons, RL!FindBlueprints(inputs))>>
      BY <1>2
    <2>2. site["config"] = site.config
      OBVIOUS
    <2>3. QED  BY <1>3, <2>1, <2>2
  <1>5. site.config[1].nav = RL!Navigation(SiteLessons, RL!FindBlueprints(inputs))
    BY <1>4 DEF RL!Config
  <1>6. ASSUME NEW i \in DOMAIN site.of
        PROVE  /\ Named \ {RL!BlueprintPage(bp) : bp \in Misnamed(i)} \subseteq Paged
               /\ Paged \ {RL!BlueprintFile(bp) : bp \in Misnamed(i)} \subseteq Named
    <2>1. PICK f \in Blueprints \cup {<<>>} : site = SiteOf(f)
      <3>1. site.of # <<>>
        BY <1>6
      <3>2. QED  BY <3>1 DEF KnownSite
    <2>2. PICK found : found = RL!FindBlueprints(f) /\ Len(found) \in Nat /\ DOMAIN found = 1..Len(found)
      BY BlueprintsAre
    <2>3. i = 1 /\ site.of[i] = f
      BY <1>6, <2>1 DEF SiteOf
    <2>4. PICK misnamed : misnamed = {bp \in {found[j] : j \in DOMAIN found} : bp.name # bp.file}
      OBVIOUS
    <2>5. Misnamed(i) = misnamed
      BY <2>2, <2>3, <2>4 DEF RL!ToSet
    <2>6. PICK of : of = {RL!LessonPage(SiteLessons[j]) : j \in DOMAIN SiteLessons}
      OBVIOUS
    <2>7. Named = of \cup {RL!BlueprintPage(found[j]) : j \in DOMAIN found}
      <3>1. site.config[1].nav = RL!Navigation(SiteLessons, found)
        BY <2>1, <2>2 DEF SiteOf, RL!Config
      <3>2. NavPages(RL!Navigation(SiteLessons, found)) = of \cup {RL!BlueprintPage(found[j]) : j \in DOMAIN found}
        <4>1. Len(found) \in Nat /\ DOMAIN found = 1..Len(found)
          BY <2>2
        <4>2. NavPages(RL!Navigation(SiteLessons, found))
                = {RL!LessonPage(SiteLessons[j]) : j \in DOMAIN SiteLessons} \cup {RL!BlueprintPage(found[j]) : j \in DOMAIN found}
          BY <4>1, EntriesAre, Zenon
        <4>3. QED  BY <4>2, <2>6, Zenon
      <3>3. QED  BY <3>1, <3>2, Zenon
    <2>8. Paged = of \cup {RL!BlueprintFile(found[j]) : j \in DOMAIN found}
      <3>1. site.docs = RL!Stage(SiteLessons, found)
        BY <2>1, <2>2 DEF SiteOf
      <3>2. DOMAIN site.docs.lessons.pages = of
        <4>1. PICK copied : copied = [j \in DOMAIN SiteLessons |-> <<RL!LessonPage(SiteLessons[j]), SiteLessons[j].notebook>>]
          OBVIOUS
        <4>2. site.docs.lessons.pages = RL!Left(copied)
          BY <3>1, <4>1 DEF RL!Stage, RL!LessonDirectory
        <4>3. DOMAIN RL!Left(copied) = {copied[j][1] : j \in DOMAIN copied}
          BY DEF RL!Left
        <4>4. DOMAIN copied = DOMAIN SiteLessons /\ \A j \in DOMAIN SiteLessons : copied[j][1] = RL!LessonPage(SiteLessons[j])
          BY <4>1
        <4>5. QED  BY <2>6, <4>2, <4>3, <4>4
      <3>3. DOMAIN site.docs.blueprints.pages = {RL!BlueprintFile(found[j]) : j \in DOMAIN found}
        <4>1. PICK copied : copied = [j \in DOMAIN found |-> <<RL!BlueprintFile(found[j]), found[j].text>>]
          OBVIOUS
        <4>2. site.docs.blueprints.pages = RL!Left(copied)
          BY <3>1, <4>1 DEF RL!Stage, RL!BlueprintDirectory
        <4>3. DOMAIN RL!Left(copied) = {copied[j][1] : j \in DOMAIN copied}
          BY DEF RL!Left
        <4>4. DOMAIN copied = DOMAIN found /\ \A j \in DOMAIN found : copied[j][1] = RL!BlueprintFile(found[j])
          BY <4>1
        <4>5. QED  BY <4>2, <4>3, <4>4
      <3>4. QED  BY <3>2, <3>3
    <2>9. \A bp : bp.name = bp.file => RL!BlueprintPage(bp) = RL!BlueprintFile(bp)
      BY DEF RL!BlueprintPage, RL!BlueprintFile
    <2> HIDE DEF Misnamed, Named, Paged
    <2>10. \A j \in DOMAIN found : found[j].name = found[j].file \/ found[j] \in misnamed
      BY <2>4
    <2>11. Named \ {RL!BlueprintPage(bp) : bp \in misnamed} \subseteq Paged
      BY <2>7, <2>8, <2>9, <2>10
    <2>12. Paged \ {RL!BlueprintFile(bp) : bp \in misnamed} \subseteq Named
      BY <2>7, <2>8, <2>9, <2>10
    <2>13. QED  BY <2>5, <2>11, <2>12
  <1>7. QED  BY <1>5, <1>6

-----------------------------------------------------------------------------
(* The baseline.                                                           *)

\* What there can be read of the corpus, and its baselines.
Readable == Surveys \cup {<<>>}
Baselines == {RL!AsToml(s) : s \in {t \in Readable : RL!AddUp(t)}}

\* No path is read twice, and an account has its three counts.
LEMMA ReadableIs ==
  ASSUME NEW s \in Readable
  PROVE  /\ DOMAIN s = 1..Len(s) /\ Len(s) \in Nat
         /\ \A i, j \in DOMAIN s : s[i].path = s[j].path => i = j
         /\ \A i \in DOMAIN s : s[i].account = <<>> \/ DOMAIN s[i].account[1] = {"read", "skipped", "unparsed"}
  <1>1. CASE s \in Surveys
    BY <1>1, SurveysAssumption
  <1>2. CASE s = <<>>
    <2>1. DOMAIN s = {} /\ Len(s) = 0 /\ 1..0 = {}
      BY <1>2
    <2>2. QED  BY <2>1
  <1>3. QED  BY <1>1, <1>2 DEF Readable

\* The order of the paths says which they are.
LEMMA SameOrder ==
  ASSUME NEW s \in Readable, NEW t \in Readable, PathsOf(s) = PathsOf(t)
  PROVE  Len(s) = Len(t) /\ DOMAIN s = DOMAIN t /\ \A i \in DOMAIN s : s[i].path = t[i].path
  <1>1. DOMAIN s = 1..Len(s) /\ DOMAIN t = 1..Len(t)
    BY ReadableIs
  <1>2. CASE s \in Surveys /\ t \in Surveys
    <2>1. Len(s) = Len(t) /\ \A i \in DOMAIN s : s[i].path = t[i].path
      BY <1>2, SurveysAssumption, ZenonT(40)
    <2>2. QED  BY <1>1, <2>1
  <1>3. CASE s = <<>> \/ t = <<>>
    <2>1. DOMAIN s = {} /\ DOMAIN t = {}
      <3>1. PathsOf(s) = {} => DOMAIN s = {}
        BY DEF PathsOf
      <3>2. PathsOf(t) = {} => DOMAIN t = {}
        BY DEF PathsOf
      <3>3. s = <<>> => PathsOf(s) = {}
        BY DEF PathsOf
      <3>4. t = <<>> => PathsOf(t) = {}
        BY DEF PathsOf
      <3>5. QED  BY <1>3, <3>1, <3>2, <3>3, <3>4
    <2>2. Len(s) = 0 /\ Len(t) = 0
      BY <1>1, <2>1, ReadableIs
    <2>3. QED  BY <2>1, <2>2
  <1>4. QED  BY <1>2, <1>3 DEF Readable

\* The row of a reading: the account is in it, of a reader that keeps one.
Figures == {"read", "skipped", "unparsed"}
RowIsOf(row, reading) ==
  /\ DOMAIN row = {"path", "reader", "lines", "found"} \cup IF reading.account = <<>> THEN {} ELSE Figures
  /\ row = [name \in DOMAIN row |-> row[name]]
  /\ row["path"] = reading.path /\ row["lines"] = reading.lines
  /\ reading.account # <<>> => \A name \in Figures : row[name] = reading.account[1][name]

\* And that is its row.
LEMMA RowIs ==
  ASSUME NEW reading, reading.account = <<>> \/ DOMAIN reading.account[1] = {"read", "skipped", "unparsed"}
  PROVE  RowIsOf(RL!Row(reading), reading)
  <1>1. PICK always : always = [path |-> reading.path, reader |-> reading.reader, lines |-> reading.lines, found |-> reading.found]
    OBVIOUS
  <1>2. /\ DOMAIN always = {"path", "reader", "lines", "found"} /\ always = [name \in DOMAIN always |-> always[name]]
        /\ always["path"] = reading.path /\ always["lines"] = reading.lines
    BY <1>1
  <1>3. PICK row : row = RL!Row(reading)
    OBVIOUS
  <1>4. CASE reading.account = <<>>
    <2>1. row = always
      BY <1>1, <1>3, <1>4 DEF RL!Row
    <2>2. DOMAIN row = {"path", "reader", "lines", "found"} \cup IF reading.account = <<>> THEN {} ELSE Figures
      BY <1>2, <1>4, <2>1
    <2>3. QED  BY <1>2, <1>3, <1>4, <2>1, <2>2 DEF RowIsOf
  <1>5. CASE reading.account # <<>>
    <2>1. PICK account : account = reading.account[1]
      OBVIOUS
    <2>2. DOMAIN account = Figures
      BY <1>5, <2>1 DEF Figures
    <2>3. row = RL!Laid(account, always)
      BY <1>1, <1>3, <1>5, <2>1 DEF RL!Row
    <2>4. row = [name \in DOMAIN account \cup DOMAIN always |-> IF name \in DOMAIN account THEN account[name] ELSE always[name]]
      BY <2>3 DEF RL!Laid
    <2>5. DOMAIN row = {"path", "reader", "lines", "found"} \cup Figures
      BY <1>2, <2>2, <2>4
    <2>6. row = [name \in DOMAIN row |-> row[name]]
      BY <2>4
    <2>7. \A name \in Figures : row[name] = account[name]
      BY <2>2, <2>4
    <2>8. "path" \notin Figures /\ "lines" \notin Figures
      BY DEF Figures
    <2>9. row["path"] = reading.path /\ row["lines"] = reading.lines
      BY <1>2, <2>2, <2>4, <2>8
    <2>10. QED  BY <1>3, <1>5, <2>1, <2>5, <2>6, <2>7, <2>9 DEF RowIsOf
  <1>6. QED  BY <1>4, <1>5

\* The rows by path.
LEMMA ByPathIs ==
  ASSUME NEW s \in Readable
  PROVE  LET kept == RL!ByPath(RL!AsToml(s).rows)
         IN  DOMAIN kept = PathsOf(s) /\ \A i \in DOMAIN s : kept[s[i].path] = RL!Row(s[i])
  <1>1. PICK table : table = [i \in DOMAIN s |-> RL!Row(s[i])]
    OBVIOUS
  <1>2. RL!AsToml(s).rows = table
    BY <1>1 DEF RL!AsToml
  <1>3. PICK writes : writes = [i \in DOMAIN table |-> <<table[i].path, table[i]>>]
    OBVIOUS
  <1>4. PICK kept : kept = RL!ByPath(table)
    OBVIOUS
  <1>5. kept = [name \in {writes[i][1] : i \in DOMAIN writes} |->
                  writes[RL!Max({i \in DOMAIN writes : writes[i][1] = name})][2]]
    BY <1>3, <1>4 DEF RL!ByPath, RL!Left
  <1>6. DOMAIN writes = DOMAIN s /\ \A i \in DOMAIN s : writes[i][1] = s[i].path /\ writes[i][2] = RL!Row(s[i])
    <2>1. ASSUME NEW i \in DOMAIN s PROVE writes[i][1] = s[i].path /\ writes[i][2] = RL!Row(s[i])
      <3>1. PICK reading : reading = s[i]
        OBVIOUS
      <3>2. reading.account = <<>> \/ DOMAIN reading.account[1] = {"read", "skipped", "unparsed"}
        BY <3>1, ReadableIs
      <3>3. RowIsOf(RL!Row(reading), reading)
        BY <3>2, RowIs
      <3>4. PICK row : row = RL!Row(reading)
        OBVIOUS
      <3>5. row["path"] = reading.path
        BY <3>3, <3>4 DEF RowIsOf
      <3>6. writes[i] = <<row.path, row>>
        BY <1>1, <1>3, <3>1, <3>4
      <3>7. row.path = row["path"]
        OBVIOUS
      <3>8. QED  BY <3>1, <3>4, <3>5, <3>6, <3>7
    <2>2. DOMAIN writes = DOMAIN s
      BY <1>1, <1>3
    <2>3. QED  BY <2>1, <2>2
  <1>7. DOMAIN kept = PathsOf(s)
    BY <1>5, <1>6 DEF PathsOf
  <1>8. ASSUME NEW i \in DOMAIN s PROVE kept[s[i].path] = RL!Row(s[i])
    <2>1. {j \in DOMAIN writes : writes[j][1] = s[i].path} = {i}
      BY <1>6, ReadableIs
    <2>2. i \in Int
      BY ReadableIs
    <2>3. RL!Max({i}) = i
      BY <2>2 DEF RL!Max
    <2>4. s[i].path \in DOMAIN kept
      BY <1>7 DEF PathsOf
    <2>5. kept[s[i].path] = writes[RL!Max({j \in DOMAIN writes : writes[j][1] = s[i].path})][2]
      BY <1>5, <2>4
    <2>6. kept[s[i].path] = writes[i][2]
      BY <2>1, <2>3, <2>5
    <2>7. QED  BY <1>6, <2>6
  <1>9. QED  BY <1>2, <1>4, <1>7, <1>8

\* The totals are of the rows alone.
SumOf(figures) == RL!FoldLeft(LAMBDA sum, figure : sum + figure, 0, figures)
FigureOf(row, name) == IF name \in DOMAIN row THEN row[name] ELSE 0

\* And those are the totals of a corpus.
LEMMA TotalsAre ==
  ASSUME NEW s
  PROVE  RL!Totals(s) =
           [artefacts |-> Len(s), lines |-> SumOf([i \in DOMAIN s |-> RL!Row(s[i]).lines]),
            read |-> SumOf([i \in DOMAIN s |-> FigureOf(RL!Row(s[i]), "read")]),
            skipped |-> SumOf([i \in DOMAIN s |-> FigureOf(RL!Row(s[i]), "skipped")]),
            unparsed |-> SumOf([i \in DOMAIN s |-> FigureOf(RL!Row(s[i]), "unparsed")])]
  BY DEF RL!Totals, SumOf, FigureOf, RL!FoldLeft, RL!MapThenFoldSet

\* Of the same rows the same baseline is made.
LEMMA TomlIs ==
  ASSUME NEW s, NEW t, Len(s) = Len(t), DOMAIN s = DOMAIN t, \A i \in DOMAIN s : RL!Row(s[i]) = RL!Row(t[i])
  PROVE  RL!AsToml(s) = RL!AsToml(t)
  <1>1. [i \in DOMAIN s |-> RL!Row(s[i])] = [i \in DOMAIN t |-> RL!Row(t[i])]
    OBVIOUS
  <1>2. [i \in DOMAIN s |-> RL!Row(s[i]).lines] = [i \in DOMAIN t |-> RL!Row(t[i]).lines]
    OBVIOUS
  <1>3. ASSUME NEW name
        PROVE  [i \in DOMAIN s |-> FigureOf(RL!Row(s[i]), name)] = [i \in DOMAIN t |-> FigureOf(RL!Row(t[i]), name)]
    OBVIOUS
  <1>4. SumOf([i \in DOMAIN s |-> RL!Row(s[i]).lines]) = SumOf([i \in DOMAIN t |-> RL!Row(t[i]).lines])
    BY <1>2 DEF SumOf
  <1>5. ASSUME NEW name
        PROVE  SumOf([i \in DOMAIN s |-> FigureOf(RL!Row(s[i]), name)]) = SumOf([i \in DOMAIN t |-> FigureOf(RL!Row(t[i]), name)])
    BY <1>3
  <1>6. RL!Totals(s) = RL!Totals(t)
    BY <1>4, <1>5, TotalsAre
  <1>7. QED  BY <1>1, <1>6 DEF RL!AsToml

\* What compare says of two tables of rows by path.
Differences(now, was) ==
  {<<path, "not in the corpus">> : path \in DOMAIN was \ DOMAIN now}
  \cup {<<path, "not in the baseline">> : path \in DOMAIN now \ DOMAIN was}
  \cup UNION {{<<path, name>> : name \in RL!Moved(now[path], was[path])} : path \in DOMAIN now \cap DOMAIN was}

\* And compare says it of the rows by path.
LEMMA CompareIs ==
  ASSUME NEW s, NEW recorded
  PROVE  RL!Compare(s, recorded) = Differences(RL!ByPath(RL!AsToml(s).rows), RL!ByPath(recorded.rows))
  BY DEF RL!Compare, Differences

\* What a comparison finds nothing in adds up, and is the baseline.
LEMMA BaselineHolds ==
  ASSUME survey \in Readable, baseline \in Baselines
  PROVE  BaselineIsNow
  <1>1. SUFFICES ASSUME RL!Compare(survey, baseline) = {}
                 PROVE  /\ RL!AddUp(survey)
                        /\ \/ RL!AsToml(survey) = baseline
                           \/ \E i \in DOMAIN survey : survey[i].account = <<>> /\ "read" \in DOMAIN baseline.rows[i]
    BY DEF BaselineIsNow
  <1>2. PICK t \in Readable : RL!AddUp(t) /\ baseline = RL!AsToml(t)
    BY DEF Baselines
  <1>3. PICK s \in Readable : s = survey
    OBVIOUS
  <1>4. PICK now : now = RL!ByPath(RL!AsToml(s).rows)
    OBVIOUS
  <1>5. PICK was : was = RL!ByPath(RL!AsToml(t).rows)
    OBVIOUS
  <1>6. DOMAIN now = PathsOf(s) /\ \A i \in DOMAIN s : now[s[i].path] = RL!Row(s[i])
    BY <1>4, ByPathIs
  <1>7. DOMAIN was = PathsOf(t) /\ \A i \in DOMAIN t : was[t[i].path] = RL!Row(t[i])
    BY <1>5, ByPathIs
  <1>8. /\ DOMAIN was \ DOMAIN now = {} /\ DOMAIN now \ DOMAIN was = {}
        /\ \A path \in DOMAIN now \cap DOMAIN was : RL!Moved(now[path], was[path]) = {}
    <2>1. /\ {<<path, "not in the corpus">> : path \in DOMAIN was \ DOMAIN now} = {}
          /\ {<<path, "not in the baseline">> : path \in DOMAIN now \ DOMAIN was} = {}
          /\ UNION {{<<path, name>> : name \in RL!Moved(now[path], was[path])} : path \in DOMAIN now \cap DOMAIN was} = {}
      <3>1. RL!Compare(s, RL!AsToml(t)) = Differences(now, was)
        BY <1>4, <1>5, CompareIs
      <3>2. Differences(now, was) = {}
        BY <1>1, <1>2, <1>3, <3>1
      <3>3. QED  BY <3>2 DEF Differences
    <2>2. DOMAIN was \ DOMAIN now = {} /\ DOMAIN now \ DOMAIN was = {}
      <3>1. ASSUME NEW path \in DOMAIN was \ DOMAIN now PROVE FALSE
        <4>1. <<path, "not in the corpus">> \in {<<p, "not in the corpus">> : p \in DOMAIN was \ DOMAIN now}
          OBVIOUS
        <4>2. QED  BY <2>1, <4>1
      <3>2. ASSUME NEW path \in DOMAIN now \ DOMAIN was PROVE FALSE
        <4>1. <<path, "not in the baseline">> \in {<<p, "not in the baseline">> : p \in DOMAIN now \ DOMAIN was}
          OBVIOUS
        <4>2. QED  BY <2>1, <4>1
      <3>3. QED  BY <3>1, <3>2
    <2>3. ASSUME NEW path \in DOMAIN now \cap DOMAIN was, NEW name \in RL!Moved(now[path], was[path]) PROVE FALSE
      <3>1. <<path, name>> \in UNION {{<<p, n>> : n \in RL!Moved(now[p], was[p])} : p \in DOMAIN now \cap DOMAIN was}
        BY <2>3
      <3>2. QED  BY <2>1, <3>1
    <2>4. QED  BY <2>2, <2>3
  <1>9. Len(s) = Len(t) /\ DOMAIN s = DOMAIN t /\ \A i \in DOMAIN s : s[i].path = t[i].path
    <2>1. PathsOf(s) = PathsOf(t)
      BY <1>6, <1>7, <1>8
    <2>2. QED  BY <2>1, SameOrder
  <1>10. ASSUME NEW i \in DOMAIN s
         PROVE  /\ RowIsOf(RL!Row(s[i]), s[i]) /\ RowIsOf(RL!Row(t[i]), t[i])
                /\ \A name \in DOMAIN RL!Row(s[i]) :
                     name \in DOMAIN RL!Row(t[i]) /\ RL!Row(s[i])[name] = RL!Row(t[i])[name]
    <2>1. PICK reading : reading = s[i]
      OBVIOUS
    <2>2. PICK past : past = t[i]
      OBVIOUS
    <2>3. /\ reading.account = <<>> \/ DOMAIN reading.account[1] = {"read", "skipped", "unparsed"}
          /\ past.account = <<>> \/ DOMAIN past.account[1] = {"read", "skipped", "unparsed"}
      BY <1>9, <2>1, <2>2, ReadableIs
    <2>4. RowIsOf(RL!Row(reading), reading) /\ RowIsOf(RL!Row(past), past)
      BY <2>3, RowIs
    <2>5. reading.path \in DOMAIN now \cap DOMAIN was /\ now[reading.path] = RL!Row(reading) /\ was[reading.path] = RL!Row(past)
      BY <1>6, <1>7, <1>8, <1>9, <2>1, <2>2 DEF PathsOf
    <2>6. RL!Moved(RL!Row(reading), RL!Row(past)) = {}
      BY <1>8, <2>5
    <2>7. \A name \in DOMAIN RL!Row(reading) : name \in DOMAIN RL!Row(past) /\ RL!Row(reading)[name] = RL!Row(past)[name]
      BY <2>6 DEF RL!Moved
    <2>8. QED  BY <2>1, <2>2, <2>4, <2>7
  <1>11. RL!AddUp(s)
    <2>1. ASSUME NEW i \in DOMAIN s, s[i].account # <<>>
          PROVE  RL!Total(s[i].account[1]) = s[i].lines
      <3>1. PICK reading : reading = s[i]
        OBVIOUS
      <3>2. PICK past : past = t[i]
        OBVIOUS
      <3>3. PICK row : row = RL!Row(reading)
        OBVIOUS
      <3>4. PICK old : old = RL!Row(past)
        OBVIOUS
      <3>5. /\ RowIsOf(row, reading) /\ RowIsOf(old, past)
            /\ \A name \in DOMAIN row : name \in DOMAIN old /\ row[name] = old[name]
        BY <1>10, <3>1, <3>2, <3>3, <3>4
      <3>6. DOMAIN row = {"path", "reader", "lines", "found"} \cup Figures
        BY <2>1, <3>1, <3>5 DEF RowIsOf
      <3>7. "read" \in DOMAIN old
        BY <3>5, <3>6 DEF Figures
      <3>8. past.account # <<>>
        <4>1. SUFFICES ASSUME past.account = <<>> PROVE FALSE
          OBVIOUS
        <4>2. DOMAIN old = {"path", "reader", "lines", "found"}
          BY <3>5, <4>1 DEF RowIsOf
        <4>3. QED  BY <3>7, <4>2
      <3>9. \A name \in Figures : reading.account[1][name] = past.account[1][name]
        BY <2>1, <3>1, <3>5, <3>6, <3>8 DEF RowIsOf
      <3>10. reading.lines = past.lines
        BY <3>5, <3>6 DEF RowIsOf
      <3>11. PICK mine : mine = reading.account[1]
        OBVIOUS
      <3>12. PICK its : its = past.account[1]
        OBVIOUS
      <3>13. mine.read = its.read /\ mine.skipped = its.skipped /\ mine.unparsed = its.unparsed
        <4>1. mine["read"] = its["read"] /\ mine["skipped"] = its["skipped"] /\ mine["unparsed"] = its["unparsed"]
          BY <3>9, <3>11, <3>12 DEF Figures
        <4>2. QED  BY <4>1
      <3>14. RL!Total(its) = past.lines
        BY <1>2, <1>9, <3>2, <3>8, <3>12 DEF RL!AddUp
      <3>15. RL!Total(mine) = RL!Total(its)
        BY <3>13 DEF RL!Total
      <3>16. QED  BY <3>1, <3>10, <3>11, <3>14, <3>15
    <2>2. QED  BY <2>1 DEF RL!AddUp
  <1>12. CASE \E i \in DOMAIN s : s[i].account = <<>> /\ t[i].account # <<>>
    <2>1. PICK i \in DOMAIN s : s[i].account = <<>> /\ t[i].account # <<>>
      BY <1>12
    <2>2. PICK past : past = t[i]
      OBVIOUS
    <2>3. "read" \in DOMAIN RL!Row(past)
      <3>1. RowIsOf(RL!Row(past), past) /\ past.account # <<>>
        BY <1>10, <2>1, <2>2
      <3>2. DOMAIN RL!Row(past) = {"path", "reader", "lines", "found"} \cup Figures
        BY <3>1 DEF RowIsOf
      <3>3. QED  BY <3>2 DEF Figures
    <2>4. baseline.rows[i] = RL!Row(past)
      BY <1>2, <1>9, <2>2 DEF RL!AsToml
    <2>5. QED  BY <1>3, <1>11, <2>1, <2>3, <2>4
  <1>13. CASE \A i \in DOMAIN s : s[i].account = <<>> => t[i].account = <<>>
    <2>1. ASSUME NEW i \in DOMAIN s PROVE RL!Row(s[i]) = RL!Row(t[i])
      <3>1. PICK reading : reading = s[i]
        OBVIOUS
      <3>2. PICK past : past = t[i]
        OBVIOUS
      <3>3. PICK row : row = RL!Row(reading)
        OBVIOUS
      <3>4. PICK old : old = RL!Row(past)
        OBVIOUS
      <3>5. /\ RowIsOf(row, reading) /\ RowIsOf(old, past)
            /\ \A name \in DOMAIN row : name \in DOMAIN old /\ row[name] = old[name]
        BY <1>10, <3>1, <3>2, <3>3, <3>4
      <3>6. reading.account = <<>> => past.account = <<>>
        BY <1>13, <3>1, <3>2
      <3>7. DOMAIN row = DOMAIN old
        <4>1. CASE reading.account = <<>>
          BY <3>5, <3>6, <4>1 DEF RowIsOf
        <4>2. CASE reading.account # <<>>
          <5>1. DOMAIN row = {"path", "reader", "lines", "found"} \cup Figures
            BY <3>5, <4>2 DEF RowIsOf
          <5>2. DOMAIN old \subseteq {"path", "reader", "lines", "found"} \cup Figures
            BY <3>5 DEF RowIsOf
          <5>3. QED  BY <3>5, <5>1, <5>2
        <4>3. QED  BY <4>1, <4>2
      <3>8. row = [name \in DOMAIN row |-> row[name]] /\ old = [name \in DOMAIN old |-> old[name]]
        BY <3>5 DEF RowIsOf
      <3>9. row = old
        BY <3>5, <3>7, <3>8
      <3>10. QED  BY <3>1, <3>2, <3>3, <3>4, <3>9
    <2>2. RL!AsToml(s) = RL!AsToml(t)
      BY <1>9, <2>1, TomlIs
    <2>3. QED  BY <1>2, <1>3, <1>11, <2>2
  <1>14. QED  BY <1>12, <1>13

-----------------------------------------------------------------------------
(* What is built, along any behaviour.                                     *)

\* The states there can be: a site is of the build it is marked with, a baseline one written of
\* a corpus that added up, and the emulator's directory holds pinned files alone, right or wrong.
PublishingTypes ==
  /\ lesson \in Lessons
  /\ TwoFiles(files)
  /\ emulator \in Directories
  /\ KnownSite
  /\ inputs \in Blueprints \cup {<<>>}
  /\ survey \in Readable
  /\ baseline \in Baselines

\* In those states, what a check passes is what a build would make.
LEMMA TypesEnough == PublishingTypes => PassedIsBuilt
  BY LessonHolds, LintHolds, EmulatorHolds, SiteHolds, BaselineHolds DEF PublishingTypes, PassedIsBuilt

\* The first state is one of them.
LEMMA PublishingStart == PublishingInit => PublishingTypes
  <1>1. SUFFICES ASSUME PublishingInit PROVE PublishingTypes
    OBVIOUS
  <1>2. lesson \in Lessons
    <2>1. lesson = [claims |-> Stated, cells |-> <<>>, made |-> <<>>, blocks |-> <<>>]
      BY <1>1 DEF PublishingInit, RL!NewLesson
    <2>2. <<>> \in Seq(Cells)
      OBVIOUS
    <2>3. <<>> \in Seq(Made)
      OBVIOUS
    <2>4. <<>> \in Seq([at : Nat, name : {"why"}])
      OBVIOUS
    <2>5. QED  BY <2>1, <2>2, <2>3, <2>4 DEF Lessons
  <1>3. TwoFiles(files)
    BY <1>1 DEF PublishingInit, NoFiles, TwoFiles
  <1>4. emulator \in Directories
    <2>1. emulator = [n \in DOMAIN emulator |-> emulator[n]] /\ DOMAIN emulator = {}
      BY <1>1 DEF PublishingInit, RL!Emptied
    <2>2. QED  BY <2>1, DirectoryIs
  <1>5. RL!AddUp(<<>>)
    BY DEF RL!AddUp
  <1>6. baseline \in Baselines
    BY <1>1, <1>5 DEF PublishingInit, Baselines, Readable
  <1>7. KnownSite
    BY <1>1 DEF PublishingInit, KnownSite, Checkout, SiteWith
  <1>8. QED  BY <1>1, <1>2, <1>3, <1>4, <1>6, <1>7 DEF PublishingInit, PublishingTypes, Readable

\* A call of the builder leaves a lesson there can be.
LEMMA WriteKeeps ==
  ASSUME PublishingTypes, Write
  PROVE  lesson' \in Lessons
  <1>1. /\ lesson = [claims |-> lesson.claims, cells |-> lesson.cells, made |-> lesson.made, blocks |-> lesson.blocks]
        /\ lesson.claims = Stated /\ lesson.cells \in Seq(Cells) /\ lesson.made \in Seq(Made)
        /\ lesson.blocks \in Seq([at : Nat, name : {"why"}])
    BY DEF PublishingTypes, Lessons
  <1>2. CASE \E cell \in Cells : lesson' = RL!AppendCell(lesson, cell)
    <2>1. PICK cell \in Cells : lesson' = [lesson EXCEPT !["cells"] = Append(@, cell)]
      BY <1>2 DEF RL!AppendCell, RL!AddTo
    <2>2. Append(lesson.cells, cell) \in Seq(Cells)
      BY <1>1
    <2>3. lesson' = [claims |-> lesson.claims, cells |-> Append(lesson.cells, cell), made |-> lesson.made, blocks |-> lesson.blocks]
      BY <1>1, <2>1
    <2>4. QED  BY <1>1, <2>2, <2>3 DEF Lessons
  <1>3. CASE lesson' = RL!OpenBlock(lesson, "why")
    <2>1. lesson' = [lesson EXCEPT !["blocks"] = Append(@, [at |-> Len(lesson.cells) + 1, name |-> "why"])]
      BY <1>3 DEF RL!OpenBlock, RL!AddTo
    <2>2. Len(lesson.cells) + 1 \in Nat
      BY <1>1
    <2>3. Append(lesson.blocks, [at |-> Len(lesson.cells) + 1, name |-> "why"]) \in Seq([at : Nat, name : {"why"}])
      BY <1>1, <2>2
    <2>4. lesson' = [claims |-> lesson.claims, cells |-> lesson.cells, made |-> lesson.made,
                     blocks |-> Append(lesson.blocks, [at |-> Len(lesson.cells) + 1, name |-> "why"])]
      BY <1>1, <2>1
    <2>5. QED  BY <1>1, <2>3, <2>4 DEF Lessons
  <1>4. CASE \E id \in DOMAIN Stated : lesson' = RL!MakeClaim(lesson, id)
    <2>1. PICK id \in DOMAIN Stated :
            lesson' = [lesson EXCEPT !["made"] = Append(@, [id |-> id, cell |-> Len(lesson.cells) + 1])]
      BY <1>4 DEF RL!MakeClaim, RL!AddTo
    <2>2. [id |-> id, cell |-> Len(lesson.cells) + 1] \in Made
      BY <1>1 DEF Made
    <2>3. Append(lesson.made, [id |-> id, cell |-> Len(lesson.cells) + 1]) \in Seq(Made)
      BY <1>1, <2>2
    <2>4. lesson' = [claims |-> lesson.claims, cells |-> lesson.cells,
                     made |-> Append(lesson.made, [id |-> id, cell |-> Len(lesson.cells) + 1]), blocks |-> lesson.blocks]
      BY <1>1, <2>1
    <2>5. QED  BY <1>1, <2>3, <2>4 DEF Lessons
  <1>5. QED  BY <1>2, <1>3, <1>4 DEF Write

\* What is fetched or cut short leaves a directory there can be.
LEMMA EmulatorKeeps ==
  ASSUME PublishingTypes, Fetch \/ CutShort
  PROVE  emulator' \in Directories
  <1>1. emulator \in Directories
    BY DEF PublishingTypes
  <1>2. CASE Fetch
    <2>1. PICK served \in Served, force \in BOOLEAN : emulator' = RL!Download(Pin, emulator, served, force).into
      BY <1>2 DEF Fetch, Filled
    <2>2. Fetched(RL!Download(Pin, emulator, served, force), [into |-> emulator, stopped |-> FALSE], Names, served, force)
      BY <1>1, DownloadIs
    <2>3. QED  BY <2>1, <2>2 DEF Fetched, Downloads
  <1>3. CASE CutShort
    <2>1. PICK name \in Names : emulator' = RL!Put(emulator, name, "half")
      BY <1>3 DEF CutShort, Filled, Names
    <2>2. emulator' = [n \in {name} \cup DOMAIN emulator |-> IF n \in {name} THEN "half" ELSE emulator[n]]
      BY <2>1 DEF RL!Put, RL!Laid
    <2>3. DOMAIN emulator \subseteq Names /\ \A n \in DOMAIN emulator : emulator[n] \in Contents
      BY <1>1, DirectoryIs
    <2>4. PICK d : d = emulator'
      OBVIOUS
    <2>5. d = [n \in DOMAIN d |-> d[n]] /\ DOMAIN d \subseteq Names
      BY <2>2, <2>3, <2>4
    <2>6. "half" \in Contents
      BY DEF Contents
    <2>7. \A n \in DOMAIN d : d[n] \in Contents
      BY <2>2, <2>3, <2>4, <2>6
    <2>8. QED  BY <2>4, <2>5, <2>7, DirectoryIs
  <1>4. QED  BY <1>2, <1>3

\* Every step goes from one of them to another.
LEMMA PublishingStep == PublishingTypes /\ [PublishingNext]_publishingVars => PublishingTypes'
  <1>1. SUFFICES ASSUME PublishingTypes, [PublishingNext]_publishingVars PROVE PublishingTypes'
    OBVIOUS
  <1>2. CASE UNCHANGED publishingVars
    BY <1>1, <1>2 DEF PublishingTypes, TwoFiles, KnownSite, publishingVars
  <1>3. CASE Work
    BY <1>1, <1>3 DEF PublishingTypes, TwoFiles, KnownSite, Work
  <1>4. CASE Write
    <2>1. lesson' \in Lessons
      BY <1>1, <1>4, WriteKeeps
    <2>2. QED  BY <1>1, <1>4, <2>1 DEF PublishingTypes, TwoFiles, KnownSite, Write
  <1>5. CASE Save
    <2>1. TwoFiles(files')
      BY <1>1, <1>5 DEF Save, Built, RL!Save, RL!Outputs, PublishingTypes, TwoFiles
    <2>2. QED  BY <1>1, <1>5, <2>1 DEF PublishingTypes, TwoFiles, KnownSite, Save, Built
  <1>6. CASE StopSave
    <2>1. TwoFiles(files')
      BY <1>1, <1>6 DEF StopSave, Built, PublishingTypes, TwoFiles
    <2>2. QED  BY <1>1, <1>6, <2>1 DEF PublishingTypes, TwoFiles, KnownSite, StopSave, Built
  <1>7. CASE Fetch \/ CutShort
    <2>1. emulator' \in Directories
      BY <1>1, <1>7, EmulatorKeeps
    <2>2. UNCHANGED <<lesson, files, site, inputs, survey, baseline>>
      BY <1>7 DEF Fetch, CutShort, Filled
    <2>3. QED  BY <1>1, <2>1, <2>2 DEF PublishingTypes, TwoFiles, KnownSite
  <1>8. CASE BuildSite
    <2>1. site' = SiteOf(inputs)
      BY <1>8 DEF BuildSite, SiteBecomes, SiteWith, RL!Build, SiteOf
    <2>2. KnownSite'
      BY <1>1, <2>1 DEF PublishingTypes, KnownSite
    <2>3. QED  BY <1>1, <1>8, <2>2 DEF PublishingTypes, TwoFiles, BuildSite, SiteBecomes
  <1>9. CASE StopSite
    <2>1. site'.of = <<>> /\ UNCHANGED <<lesson, files, emulator, inputs, survey, baseline>>
      BY <1>9 DEF StopSite, SiteBecomes, SiteWith
    <2>2. KnownSite'
      BY <2>1 DEF KnownSite
    <2>3. QED  BY <1>1, <2>1, <2>2 DEF PublishingTypes, TwoFiles
  <1>10. CASE EditBlueprints
    BY <1>1, <1>10 DEF PublishingTypes, TwoFiles, KnownSite, EditBlueprints
  <1>11. CASE RecordBaseline
    <2>1. baseline' \in Baselines
      BY <1>1, <1>11 DEF RecordBaseline, RL!WriteBaseline, PublishingTypes, Baselines
    <2>2. QED  BY <1>1, <1>11, <2>1 DEF PublishingTypes, TwoFiles, KnownSite, RecordBaseline
  <1>12. CASE ChangeReaders
    BY <1>1, <1>12 DEF PublishingTypes, TwoFiles, KnownSite, ChangeReaders, Readable
  <1>13. QED
    BY <1>1, <1>2, <1>3, <1>4, <1>5, <1>6, <1>7, <1>8, <1>9, <1>10, <1>11, <1>12 DEF PublishingNext

\* Whatever has been edited, cut short, fetched from a dishonest server or left half written, what a
\* check of tools/nbbuild.py, lintnb.py, vendor.py or baseline.py passes is what a build would make of
\* the sources.  What that of tools/sitebuild.py passes has the navigation of the sources; its staged
\* pages are those of the navigation only if the last build ran to its end (sitebuild.py:340-352), and
\* but for a blueprint whose name is not its file's (bpc.py:240).
THEOREM WhatPassesIsBuilt == PublishingSpec => []PassedIsBuilt
  <1>1. PublishingInit => PublishingTypes
    BY PublishingStart
  <1>2. PublishingTypes /\ [PublishingNext]_publishingVars => PublishingTypes'
    BY PublishingStep
  <1>3. PublishingTypes => PassedIsBuilt
    BY TypesEnough
  <1>4. QED  BY <1>1, <1>2, <1>3, PTL DEF PublishingSpec

-----------------------------------------------------------------------------
(* A loop over a sequence, one element more at a time.                     *)

\* The greatest number that Ledgers knows is this one.
LEMMA GreatestToo ==
  ASSUME NEW S
  PROVE  LG!Max(S) = KD!Max(S)
  BY DEF LG!Max, KD!Max

\* The last of some of the first n places.
Lasts(n) == [U \in SUBSET (1..n) |-> LG!Max(U)]

\* It is one of them, and of all of them it is n.
LEMMA LastOf ==
  ASSUME NEW n \in Nat, NEW U \in SUBSET (1..n), U # {}
  PROVE  LG!Max(U) \in U /\ Lasts(n)[U] = LG!Max(U) /\ (U = 1..n => LG!Max(U) = n)
  <1>1. IsFiniteSet(1..n) /\ 1..n \subseteq Int
    BY FS_Interval
  <1>2. IsFiniteSet(U) /\ U \subseteq Int
    BY <1>1, FS_Subset
  <1>3. KD!Max(U) \in U
    BY <1>2, GreatestOf
  <1>4. LG!Max(U) \in U
    BY <1>3, GreatestToo
  <1>5. ASSUME U = 1..n PROVE LG!Max(U) = n
    <2>1. n \in U /\ \A y \in U : n >= y
      BY <1>5
    <2>2. \A y \in U : LG!Max(U) >= y
      BY <2>1 DEF LG!Max
    <2>3. QED  BY <2>1, <2>2, <1>4, <1>5
  <1>6. QED  BY <1>4, <1>5 DEF Lasts

\* g is a loop over n elements with results in V, and two loops that take the first n alike.
Folding(g, op, base, n, V) == g \in [SUBSET (1..n) -> V] /\ IsFold(g, op, base, Lasts(n), 1..n)
Alike(op, more, n, V) == \A i \in 1..n : \A v \in V : more[<<i, v>>] = op[<<i, v>>]
TurnAfter(h, more, g, n) == h[1..(n + 1)] = more[<<n + 1, g[1..n]>>]

\* Two loops that take the first n elements alike agree on them.
LEMMA NextOf ==
  ASSUME NEW n \in Nat, NEW V, NEW base, NEW op, NEW more,
         Alike(op, more, n, V), NEW g, Folding(g, op, base, n, V), NEW h, Folding(h, more, base, n + 1, V)
  PROVE  TurnAfter(h, more, g, n)
  <1>1. /\ \A i \in 1..n : \A v \in V : more[<<i, v>>] = op[<<i, v>>]
        /\ g \in [SUBSET (1..n) -> V] /\ h \in [SUBSET (1..(n + 1)) -> V]
        /\ IsFold(g, op, base, Lasts(n), 1..n) /\ IsFold(h, more, base, Lasts(n + 1), 1..(n + 1))
    BY DEF Alike, Folding
  <1>2. PICK T : T = {U \in SUBSET (1..n) : h[U] = g[U]}
    OBVIOUS
  <1>3. \A U \in SUBSET (1..n) : U \in SUBSET (1..(n + 1))
    OBVIOUS
  <1>4. ASSUME NEW U \in SUBSET (1..n), \A x \in U : U \ {x} \in T PROVE U \in T
    <2>1. CASE U = {}
      <3>1. g[U] = base /\ h[U] = base
        BY <2>1, <1>1, <1>3 DEF IsFold
      <3>2. QED  BY <3>1, <1>2
    <2>2. CASE U # {}
      <3>1. PICK x \in U : x = Lasts(n)[U] /\ x = Lasts(n + 1)[U]
        <4>1. LG!Max(U) \in U /\ Lasts(n)[U] = LG!Max(U)
          BY <2>2, LastOf
        <4>2. Lasts(n + 1)[U] = LG!Max(U)
          <5>1. U \in SUBSET (1..(n + 1)) /\ n + 1 \in Nat
            BY <1>3
          <5>2. QED  BY <5>1, <2>2, LastOf
        <4>3. QED  BY <4>1, <4>2
      <3>2. g[U] = op[<<x, g[U \ {x}]>>] /\ h[U] = more[<<x, h[U \ {x}]>>]
        BY <2>2, <3>1, <1>1, <1>3 DEF IsFold
      <3>3. U \ {x} \in SUBSET (1..n) /\ h[U \ {x}] = g[U \ {x}]
        BY <1>2, <1>4
      <3>4. x \in 1..n /\ g[U \ {x}] \in V
        BY <3>3, <1>1
      <3>5. more[<<x, g[U \ {x}]>>] = op[<<x, g[U \ {x}]>>]
        BY <3>4, <1>1
      <3>6. QED  BY <3>2, <3>3, <3>5, <1>2
    <2>3. QED  BY <2>1, <2>2
  <1>5. 1..n \in T
    <2>1. \A U \in SUBSET (1..n) : (\A x \in U : U \ {x} \in T) => U \in T
      BY <1>4
    <2>2. IsFiniteSet(1..n)
      BY FS_Interval
    <2>3. QED  BY <2>1, <2>2, AllSubsets, Zenon
  <1>6. Lasts(n + 1)[1..(n + 1)] = n + 1
    <2>1. n + 1 \in 1..(n + 1) /\ n + 1 \in Nat
      OBVIOUS
    <2>2. PICK U \in SUBSET (1..(n + 1)) : U = 1..(n + 1)
      OBVIOUS
    <2>3. U # {}
      BY <2>1, <2>2
    <2>4. Lasts(n + 1)[U] = LG!Max(U) /\ (U = 1..(n + 1) => LG!Max(U) = n + 1)
      BY <2>1, <2>3, LastOf
    <2>5. QED  BY <2>2, <2>4
  <1>7. (1..(n + 1)) \ {n + 1} = 1..n
    OBVIOUS
  <1>8. h[1..(n + 1)] = more[<<n + 1, h[1..n]>>]
    <2>1. 1..(n + 1) \in SUBSET (1..(n + 1)) /\ n + 1 \in 1..(n + 1)
      OBVIOUS
    <2>2. 1..(n + 1) # {}
      BY <2>1
    <2>3. QED  BY <2>1, <2>2, <1>1, <1>6, <1>7 DEF IsFold
  <1>9. QED  BY <1>2, <1>5, <1>8 DEF TurnAfter

-----------------------------------------------------------------------------
(* The rows of a file of citations, and what is read of them.              *)

Texts == UNION {Sources[p] : p \in DOMAIN Sources}
Contexts == Seq(UNION {ToSet(text) : text \in Texts})
RowsOfEntries == UNION {ToSet(entry) : entry \in Entries}
WrittenRows == [k : {"line"}, line : Nat] \cup [k : {"context"}, context : Contexts] \cup [k : {"confirmed"}, confirmed : {TRUE}]
KnownRows == RowsOfEntries \cup WrittenRows

Keys == {"id", "path", "anchor", "kernel", "confirmed", "line", "context"}
KnownValues == {row[row.k] : row \in KnownRows} \cup {"", <<>>, FALSE, 0}
References == {r \in [Keys -> KnownValues] : r["line"] \in Nat}

ReadTurn(refs, row) ==
  IF row.k = "id" THEN Append(refs, [LG!NoReference EXCEPT !.id = row.id])
  ELSE [refs EXCEPT ![Len(refs)] = [@ EXCEPT ![row.k] = row[row.k]]]

\* The value of a row is a known one, and a line is a number.
LEMMA RowIsKnown ==
  ASSUME NEW row \in KnownRows
  PROVE  row[row.k] \in KnownValues /\ (row.k = "line" => row["line"] \in Nat) /\ (row.k = "id" => row.id \in KnownValues)
  <1>1. row[row.k] \in KnownValues
    BY DEF KnownValues
  <1>2. ASSUME row.k = "line" PROVE row["line"] \in Nat
    <2>1. CASE row \in RowsOfEntries
      <3>1. PICK entry \in Entries : row \in ToSet(entry)
        BY <2>1 DEF RowsOfEntries
      <3>2. PICK i \in DOMAIN entry : row = entry[i]
        BY <3>1 DEF ToSet
      <3>3. QED  BY <3>2, <1>2, EntriesAssumption
    <2>2. CASE row \in WrittenRows
      BY <2>2, <1>2 DEF WrittenRows
    <2>3. QED  BY <2>1, <2>2 DEF KnownRows
  <1>3. row.k = "id" => row.id \in KnownValues
    BY <1>1
  <1>4. QED  BY <1>1, <1>2, <1>3

\* A new entry is a reference, and one with a row more is.
LEMMA ReferenceIs ==
  ASSUME NEW row \in KnownRows
  PROVE  /\ row.k = "id" => [LG!NoReference EXCEPT !.id = row.id] \in References
         /\ \A r \in References : [r EXCEPT ![row.k] = row[row.k]] \in References
  <1>1. LG!NoReference \in References
    <2>1. PICK r : r = LG!NoReference
      OBVIOUS
    <2>2. r = [key \in DOMAIN r |-> r[key]] /\ DOMAIN r = Keys
      BY <2>1 DEF LG!NoReference, Keys
    <2>3. /\ r["id"] = "" /\ r["anchor"] = "" /\ r["kernel"] = "" /\ r["confirmed"] = FALSE /\ r["line"] = 0
          /\ r["path"] = <<>> /\ r["context"] = <<>>
      BY <2>1 DEF LG!NoReference
    <2>4. \A key \in Keys : r[key] \in KnownValues
      <3>1. "" \in KnownValues /\ <<>> \in KnownValues /\ FALSE \in KnownValues /\ 0 \in KnownValues
        BY DEF KnownValues
      <3>2. QED  BY <2>3, <3>1 DEF Keys
    <2>5. r["line"] = 0
      BY <2>1 DEF LG!NoReference
    <2>6. r \in [Keys -> KnownValues]
      BY <2>2, <2>4
    <2>7. QED  BY <2>1, <2>5, <2>6 DEF References
  <1>2. ASSUME NEW r \in References, NEW key, NEW v \in KnownValues, key = "line" => v \in Nat
        PROVE  [r EXCEPT ![key] = v] \in References
    <2>1. r \in [Keys -> KnownValues] /\ r["line"] \in Nat
      BY DEF References
    <2>2. [r EXCEPT ![key] = v] \in [Keys -> KnownValues]
      BY <2>1
    <2>3. [r EXCEPT ![key] = v]["line"] \in Nat
      BY <2>1, <1>2 DEF Keys
    <2>4. QED  BY <2>2, <2>3 DEF References
  <1>3. ASSUME row.k = "id" PROVE [LG!NoReference EXCEPT !.id = row.id] \in References
    <2>1. row.id \in KnownValues
      BY <1>3, RowIsKnown
    <2>2. PICK r \in References : r = LG!NoReference
      BY <1>1
    <2>3. [r EXCEPT !["id"] = row.id] \in References
      BY <2>1, <1>2
    <2>4. QED  BY <2>2, <2>3
  <1>4. ASSUME NEW r \in References PROVE [r EXCEPT ![row.k] = row[row.k]] \in References
    BY <1>2, RowIsKnown
  <1>5. QED  BY <1>3, <1>4

\* A turn makes references of references.
LEMMA ReadTurnIs ==
  ASSUME NEW row \in KnownRows, NEW refs \in Seq(References)
  PROVE  ReadTurn(refs, row) \in Seq(References)
  <1>1. CASE row.k = "id"
    <2>1. PICK r \in References : r = [LG!NoReference EXCEPT !.id = row.id]
      BY <1>1, ReferenceIs
    <2>2. Append(refs, r) \in Seq(References)
      OBVIOUS
    <2>3. QED  BY <2>1, <2>2, <1>1 DEF ReadTurn
  <1>2. CASE row.k # "id"
    <2>1. PICK key : key = row.k
      OBVIOUS
    <2>2. PICK v : v = row[key]
      OBVIOUS
    <2>3. \A r \in References : [r EXCEPT ![key] = v] \in References
      BY <2>1, <2>2, ReferenceIs
    <2>4. \A i \in DOMAIN refs : refs[i] \in References
      OBVIOUS
    <2>5. \A i \in DOMAIN refs : [refs[i] EXCEPT ![key] = v] \in References
      BY <2>3, <2>4
    <2>6. PICK at : at = [refs EXCEPT ![Len(refs)] = [refs[Len(refs)] EXCEPT ![key] = v]]
      OBVIOUS
    <2>7. Len(refs) \in Nat /\ DOMAIN refs = 1..Len(refs) /\ DOMAIN at = DOMAIN refs
      BY <2>6
    <2>8. \A i \in DOMAIN refs : at[i] \in References
      BY <2>4, <2>5, <2>6
    <2>9. at = [i \in 1..Len(refs) |-> at[i]]
      BY <2>6, <2>7
    <2>10. at \in Seq(References)
      BY <2>7, <2>8, <2>9
    <2>11. QED  BY <2>1, <2>2, <2>6, <2>10, <1>2 DEF ReadTurn
  <1>3. QED  BY <1>1, <1>2

\* The loop of read_references, over some of the places of a sequence of rows.
ReadOf(s, S) ==
  CHOOSE iter : iter = [U \in SUBSET S |->
    IF U = {} THEN <<>> ELSE ReadTurn(iter[U \ {LG!Max(U)}], s[LG!Max(U)])]

\* What is read is the last state of that loop.
LEMMA ReadIsLast ==
  ASSUME NEW s
  PROVE  LG!ReadReferences(s) = ReadOf(s, DOMAIN s)[DOMAIN s]
  BY DEF LG!ReadReferences, LG!FoldLeft, LG!MapThenFoldSet, ReadOf, ReadTurn

ReadTurns(s, n) == [p \in (1..n) \X Seq(References) |-> ReadTurn(p[2], s[p[1]])]

\* It is a fold of those turns.
LEMMA ReadFolds ==
  ASSUME NEW s \in Seq(KnownRows), NEW n \in Nat, n = Len(s)
  PROVE  /\ ReadTurns(s, n) \in [(1..n) \X Seq(References) -> Seq(References)]
         /\ \E g \in [SUBSET (1..n) -> Seq(References)] :
              IsFold(g, ReadTurns(s, n), <<>>, Lasts(n), 1..n) /\ LG!ReadReferences(s) = g[1..n]
  <1>1. PICK op : op = ReadTurns(s, n)
    OBVIOUS
  <1>2. PICK V : V = Seq(References)
    OBVIOUS
  <1>3. PICK S : S = 1..n
    OBVIOUS
  <1>4. IsFiniteSet(S) /\ DOMAIN s = S /\ \A i \in S : s[i] \in KnownRows
    <2>1. IsFiniteSet(S)
      BY <1>3, FS_Interval
    <2>2. DOMAIN s = S
      BY <1>3
    <2>3. \A i \in S : s[i] \in KnownRows
      BY <2>2
    <2>4. QED  BY <2>1, <2>2, <2>3
  <1>5. op = [p \in S \X V |-> ReadTurn(p[2], s[p[1]])]
    BY <1>1, <1>2, <1>3 DEF ReadTurns
  <1>6. op \in [S \X V -> V]
    <2>1. ASSUME NEW p \in S \X V PROVE ReadTurn(p[2], s[p[1]]) \in V
      BY <1>2, <1>4, ReadTurnIs
    <2>2. QED  BY <2>1, <1>5
  <1>7. PICK c : c = Lasts(n)
    OBVIOUS
  <1>8. \A U \in SUBSET S : U # {} => c[U] \in U /\ c[U] = LG!Max(U)
    BY <1>3, <1>7, LastOf
  <1>9. PICK base \in V : base = <<>>
    <2>1. <<>> \in Seq(References)
      OBVIOUS
    <2>2. QED  BY <2>1, <1>2
  <1>10. PICK g \in [SUBSET S -> V] : IsFold(g, op, base, c, S)
    <2>1. PICK turn \in [S \X V -> V] : turn = op
      BY <1>6
    <2>2. \A U \in SUBSET S : U # {} => c[U] \in U
      BY <1>8
    <2>3. IsFiniteSet(S)
      BY <1>4
    <2>4. \E g \in [SUBSET S -> V] : IsFold(g, turn, base, c, S)
      BY <2>2, <2>3, FoldExists, Zenon
    <2>5. QED  BY <2>1, <2>4
  <1>11. g = [U \in SUBSET S |-> IF U = {} THEN <<>> ELSE ReadTurn(g[U \ {LG!Max(U)}], s[LG!Max(U)])]
    <2>1. ASSUME NEW U \in SUBSET S
          PROVE  g[U] = IF U = {} THEN <<>> ELSE ReadTurn(g[U \ {LG!Max(U)}], s[LG!Max(U)])
      <3>1. CASE U = {}
        BY <3>1, <1>9, <1>10 DEF IsFold
      <3>2. CASE U # {}
        <4>1. PICK x \in S : x = LG!Max(U) /\ x = c[U]
          BY <3>2, <1>8
        <4>2. g[U \ {x}] \in V
          BY <1>10
        <4>3. g[U] = op[<<x, g[U \ {x}]>>]
          BY <3>2, <4>1, <1>10 DEF IsFold
        <4>4. g[U] = ReadTurn(g[U \ {x}], s[x])
          BY <4>2, <4>3, <1>5
        <4>5. QED  BY <3>2, <4>1, <4>4
      <3>3. QED  BY <3>1, <3>2
    <2>2. g = [U \in SUBSET S |-> g[U]]
      BY <1>10
    <2>3. QED  BY <2>1, <2>2
  <1>12. PICK h : h = ReadOf(s, S)
    OBVIOUS
  <1>13. h = [U \in SUBSET S |-> IF U = {} THEN <<>> ELSE ReadTurn(h[U \ {LG!Max(U)}], s[LG!Max(U)])]
    BY <1>11, <1>12, Zenon DEF ReadOf
  <1>14. PICK T : T = {U \in SUBSET S : h[U] = g[U]}
    OBVIOUS
  <1>15. ASSUME NEW U \in SUBSET S, \A x \in U : U \ {x} \in T PROVE U \in T
    <2>1. CASE U = {}
      <3>1. h[U] = <<>> /\ g[U] = <<>>
        BY <2>1, <1>11, <1>13
      <3>2. QED  BY <3>1, <1>14
    <2>2. CASE U # {}
      <3>1. PICK x \in U : x = LG!Max(U)
        BY <2>2, <1>8
      <3>2. h[U \ {x}] = g[U \ {x}]
        BY <1>14, <1>15
      <3>3. h[U] = ReadTurn(h[U \ {x}], s[x]) /\ g[U] = ReadTurn(g[U \ {x}], s[x])
        BY <2>2, <3>1, <1>11, <1>13
      <3>4. h[U] = g[U]
        BY <3>2, <3>3
      <3>5. QED  BY <3>4, <1>14
    <2>3. QED  BY <2>1, <2>2
  <1>16. S \in T
    <2>1. \A U \in SUBSET S : (\A x \in U : U \ {x} \in T) => U \in T
      BY <1>15
    <2>2. QED  BY <2>1, <1>4, AllSubsets, Zenon
  <1>17. LG!ReadReferences(s) = g[S]
    <2>1. LG!ReadReferences(s) = ReadOf(s, S)[S]
      BY <1>4, ReadIsLast
    <2>2. QED  BY <2>1, <1>12, <1>14, <1>16
  <1>18. QED  BY <1>1, <1>2, <1>3, <1>6, <1>7, <1>9, <1>10, <1>17

\* Of no rows nothing is read, and one row more is one turn more.
LEMMA ReadNext ==
  ASSUME NEW s \in Seq(KnownRows)
  PROVE  /\ LG!ReadReferences(s) \in Seq(References)
         /\ LG!ReadReferences(<<>>) = <<>>
         /\ \A row \in KnownRows : LG!ReadReferences(Append(s, row)) = ReadTurn(LG!ReadReferences(s), row)
  <1>1. PICK n \in Nat : n = Len(s)
    OBVIOUS
  <1>2. /\ ReadTurns(s, n) \in [(1..n) \X Seq(References) -> Seq(References)]
        /\ \E g \in [SUBSET (1..n) -> Seq(References)] :
             IsFold(g, ReadTurns(s, n), <<>>, Lasts(n), 1..n) /\ LG!ReadReferences(s) = g[1..n]
    BY <1>1, ReadFolds
  <1>3. PICK g \in [SUBSET (1..n) -> Seq(References)] :
          IsFold(g, ReadTurns(s, n), <<>>, Lasts(n), 1..n) /\ LG!ReadReferences(s) = g[1..n]
    BY <1>2
  <1>4. LG!ReadReferences(<<>>) = <<>>
    <2>1. PICK empty \in Seq(KnownRows) : empty = <<>>
      <3>1. <<>> \in Seq(KnownRows)
        OBVIOUS
      <3>2. QED  BY <3>1
    <2>2. PICK zero \in Nat : zero = 0 /\ zero = Len(empty) /\ 1..zero = {}
      BY <2>1
    <2>3. PICK f \in [SUBSET (1..zero) -> Seq(References)] :
            IsFold(f, ReadTurns(empty, zero), <<>>, Lasts(zero), 1..zero) /\ LG!ReadReferences(empty) = f[1..zero]
      BY <2>2, ReadFolds
    <2>4. f[{}] = <<>>
      BY <2>3 DEF IsFold
    <2>5. QED  BY <2>1, <2>2, <2>3, <2>4
  <1>5. ASSUME NEW row \in KnownRows
        PROVE  LG!ReadReferences(Append(s, row)) = ReadTurn(LG!ReadReferences(s), row)
    <2>1. PICK t \in Seq(KnownRows) : t = Append(s, row)
      <3>1. Append(s, row) \in Seq(KnownRows)
        OBVIOUS
      <3>2. QED  BY <3>1
    <2>2. Len(t) = n + 1 /\ t[n + 1] = row /\ \A i \in 1..n : t[i] = s[i]
      BY <2>1, <1>1
    <2>3. PICK m \in Nat : m = n + 1
      OBVIOUS
    <2>4. /\ ReadTurns(t, m) \in [(1..m) \X Seq(References) -> Seq(References)]
          /\ \E f \in [SUBSET (1..m) -> Seq(References)] :
               IsFold(f, ReadTurns(t, m), <<>>, Lasts(m), 1..m) /\ LG!ReadReferences(t) = f[1..m]
      BY <2>2, <2>3, ReadFolds
    <2>5. PICK h \in [SUBSET (1..(n + 1)) -> Seq(References)] :
            IsFold(h, ReadTurns(t, n + 1), <<>>, Lasts(n + 1), 1..(n + 1)) /\ LG!ReadReferences(t) = h[1..(n + 1)]
      BY <2>3, <2>4
    <2>6. PICK op \in [(1..n) \X Seq(References) -> Seq(References)] : op = ReadTurns(s, n)
      BY <1>2
    <2>7. PICK more \in [(1..(n + 1)) \X Seq(References) -> Seq(References)] : more = ReadTurns(t, n + 1)
      BY <2>3, <2>4
    <2>8. ASSUME NEW i \in 1..n, NEW v \in Seq(References) PROVE more[<<i, v>>] = op[<<i, v>>]
      <3>1. i \in 1..(n + 1) /\ t[i] = s[i]
        BY <2>2
      <3>2. more[<<i, v>>] = ReadTurn(v, t[i])
        BY <3>1, <2>7 DEF ReadTurns
      <3>3. op[<<i, v>>] = ReadTurn(v, s[i])
        BY <2>6 DEF ReadTurns
      <3>4. QED  BY <3>1, <3>2, <3>3
    <2>9. h[1..(n + 1)] = more[<<n + 1, g[1..n]>>]
      <3>1. PICK V : V = Seq(References)
        OBVIOUS
      <3>2. PICK base : base = <<>>
        OBVIOUS
      <3>3. Folding(g, op, base, n, V)
        BY <1>3, <2>6, <3>1, <3>2 DEF Folding
      <3>4. Folding(h, more, base, n + 1, V)
        BY <2>5, <2>7, <3>1, <3>2 DEF Folding
      <3>5. Alike(op, more, n, V)
        BY <3>1, <2>8 DEF Alike
      <3>6. TurnAfter(h, more, g, n)
        BY <3>3, <3>4, <3>5, NextOf, Zenon
      <3>7. QED  BY <3>6 DEF TurnAfter
    <2>10. more[<<n + 1, g[1..n]>>] = ReadTurn(g[1..n], t[n + 1])
      <3>1. n + 1 \in 1..(n + 1) /\ g[1..n] \in Seq(References)
        OBVIOUS
      <3>2. QED  BY <3>1, <2>7 DEF ReadTurns
    <2>11. QED  BY <1>3, <2>1, <2>2, <2>5, <2>9, <2>10
  <1>6. LG!ReadReferences(s) \in Seq(References)
    <2>1. g[1..n] \in Seq(References)
      OBVIOUS
    <2>2. QED  BY <2>1, <1>3
  <1>7. QED  BY <1>4, <1>5, <1>6

-----------------------------------------------------------------------------
(* What is written over.                                                   *)

Unwritten == [inside |-> FALSE, out |-> <<>>]
Rewrites == [inside : BOOLEAN, out : Seq(KnownRows)]
NewRows(inside, row, line, context) ==
  CASE inside /\ row.k = "context" -> <<>>
    [] inside /\ row.k = "line" -> <<[k |-> "line", line |-> line], [k |-> "context", context |-> context]>>
    [] inside /\ row.k = "confirmed" -> <<[k |-> "confirmed", confirmed |-> TRUE]>>
    [] OTHER -> <<row>>
Inside(inside, row, id) == IF row.k = "id" THEN row.id = id ELSE inside
RewriteTurn(s, row, w) ==
  [inside |-> Inside(s.inside, row, w.id), out |-> s.out \o NewRows(Inside(s.inside, row, w.id), row, w.line, w.context)]

\* The loop of _rewrite, over some of the places of a sequence of rows.
RewriteOf(s, w, S) ==
  CHOOSE iter : iter = [U \in SUBSET S |->
    IF U = {} THEN Unwritten ELSE RewriteTurn(iter[U \ {LG!Max(U)}], s[LG!Max(U)], w)]
Rewriting(s, w) == RewriteOf(s, w, DOMAIN s)[DOMAIN s]

\* What is written is the last state of that loop.
LEMMA RewriteIsLast ==
  ASSUME NEW s, NEW w
  PROVE  LG!Rewrite(s, w.id, w.line, w.context) = Rewriting(s, w).out
  BY DEF LG!Rewrite, LG!FoldLeft, LG!MapThenFoldSet, Rewriting, RewriteOf, RewriteTurn, Unwritten, Inside, NewRows

\* A row is replaced by rows.
LEMMA NewRowsAre ==
  ASSUME NEW inside \in BOOLEAN, NEW row \in KnownRows, NEW line \in Nat, NEW context \in Contexts
  PROVE  NewRows(inside, row, line, context) \in Seq(KnownRows)
  <1>1. /\ [k |-> "line", line |-> line] \in KnownRows
        /\ [k |-> "context", context |-> context] \in KnownRows
        /\ [k |-> "confirmed", confirmed |-> TRUE] \in KnownRows
    BY DEF KnownRows, WrittenRows
  <1>2. PICK a \in KnownRows : a = [k |-> "line", line |-> line]
    BY <1>1
  <1>3. PICK b \in KnownRows : b = [k |-> "context", context |-> context]
    BY <1>1
  <1>4. PICK c \in KnownRows : c = [k |-> "confirmed", confirmed |-> TRUE]
    BY <1>1
  <1>5. <<>> \in Seq(KnownRows)
    OBVIOUS
  <1>6. <<a, b>> \in Seq(KnownRows) /\ <<c>> \in Seq(KnownRows) /\ <<row>> \in Seq(KnownRows)
    OBVIOUS
  <1>7. CASE inside /\ row.k = "context"
    BY <1>5, <1>7 DEF NewRows
  <1>8. CASE inside /\ row.k = "line"
    BY <1>2, <1>3, <1>6, <1>8 DEF NewRows
  <1>9. CASE inside /\ row.k = "confirmed"
    BY <1>4, <1>6, <1>9 DEF NewRows
  <1>10. CASE ~(inside /\ row.k = "context") /\ ~(inside /\ row.k = "line") /\ ~(inside /\ row.k = "confirmed")
    BY <1>6, <1>10 DEF NewRows
  <1>11. QED  BY <1>7, <1>8, <1>9, <1>10

\* A turn makes a state of a state.
LEMMA RewriteTurnIs ==
  ASSUME NEW w, w.line \in Nat, w.context \in Contexts, NEW row \in KnownRows, NEW s \in Rewrites
  PROVE  RewriteTurn(s, row, w) \in Rewrites
  <1>1. s.inside \in BOOLEAN /\ s.out \in Seq(KnownRows)
    BY DEF Rewrites
  <1>2. PICK inside \in BOOLEAN : inside = Inside(s.inside, row, w.id)
    BY <1>1 DEF Inside
  <1>3. PICK new \in Seq(KnownRows) : new = NewRows(inside, row, w.line, w.context)
    BY NewRowsAre
  <1>4. PICK out \in Seq(KnownRows) : out = s.out
    BY <1>1
  <1>5. out \o new \in Seq(KnownRows)
    OBVIOUS
  <1>6. [inside |-> inside, out |-> out \o new] \in Rewrites
    BY <1>5 DEF Rewrites
  <1>7. QED  BY <1>2, <1>3, <1>4, <1>6 DEF RewriteTurn

RewriteTurns(s, n, w) == [p \in (1..n) \X Rewrites |-> RewriteTurn(p[2], s[p[1]], w)]
RewriteFolded(s, n, w) ==
  /\ RewriteTurns(s, n, w) \in [(1..n) \X Rewrites -> Rewrites]
  /\ \E g \in [SUBSET (1..n) -> Rewrites] :
       IsFold(g, RewriteTurns(s, n, w), Unwritten, Lasts(n), 1..n) /\ Rewriting(s, w) = g[1..n]

\* It is a fold of those turns.
LEMMA RewriteFolds ==
  ASSUME NEW w, w.line \in Nat, w.context \in Contexts, NEW s \in Seq(KnownRows), NEW n \in Nat, n = Len(s)
  PROVE  RewriteFolded(s, n, w)
  <1>1. PICK op : op = RewriteTurns(s, n, w)
    OBVIOUS
  <1>2. PICK V : V = Rewrites
    OBVIOUS
  <1>3. PICK S : S = 1..n
    OBVIOUS
  <1>4. IsFiniteSet(S) /\ DOMAIN s = S /\ \A i \in S : s[i] \in KnownRows
    <2>1. IsFiniteSet(S)
      BY <1>3, FS_Interval
    <2>2. DOMAIN s = S
      BY <1>3
    <2>3. \A i \in S : s[i] \in KnownRows
      BY <2>2
    <2>4. QED  BY <2>1, <2>2, <2>3
  <1>5. op = [p \in S \X V |-> RewriteTurn(p[2], s[p[1]], w)]
    BY <1>1, <1>2, <1>3 DEF RewriteTurns
  <1>6. op \in [S \X V -> V]
    <2>1. ASSUME NEW p \in S \X V PROVE RewriteTurn(p[2], s[p[1]], w) \in V
      BY <1>2, <1>4, RewriteTurnIs
    <2>2. QED  BY <2>1, <1>5
  <1>7. PICK c : c = Lasts(n)
    OBVIOUS
  <1>8. \A U \in SUBSET S : U # {} => c[U] \in U /\ c[U] = LG!Max(U)
    BY <1>3, <1>7, LastOf
  <1>9. PICK base \in V : base = Unwritten
    <2>1. Unwritten \in Rewrites
      BY DEF Unwritten, Rewrites
    <2>2. QED  BY <2>1, <1>2
  <1>10. PICK g \in [SUBSET S -> V] : IsFold(g, op, base, c, S)
    <2>1. PICK turn \in [S \X V -> V] : turn = op
      BY <1>6
    <2>2. \A U \in SUBSET S : U # {} => c[U] \in U
      BY <1>8
    <2>3. IsFiniteSet(S)
      BY <1>4
    <2>4. \E g \in [SUBSET S -> V] : IsFold(g, turn, base, c, S)
      BY <2>2, <2>3, FoldExists, Zenon
    <2>5. QED  BY <2>1, <2>4
  <1>11. g = [U \in SUBSET S |-> IF U = {} THEN Unwritten ELSE RewriteTurn(g[U \ {LG!Max(U)}], s[LG!Max(U)], w)]
    <2>1. ASSUME NEW U \in SUBSET S
          PROVE  g[U] = IF U = {} THEN Unwritten ELSE RewriteTurn(g[U \ {LG!Max(U)}], s[LG!Max(U)], w)
      <3>1. CASE U = {}
        BY <3>1, <1>9, <1>10 DEF IsFold
      <3>2. CASE U # {}
        <4>1. PICK x \in S : x = LG!Max(U) /\ x = c[U]
          BY <3>2, <1>8
        <4>2. g[U \ {x}] \in V
          BY <1>10
        <4>3. g[U] = op[<<x, g[U \ {x}]>>]
          BY <3>2, <4>1, <1>10 DEF IsFold
        <4>4. g[U] = RewriteTurn(g[U \ {x}], s[x], w)
          BY <4>2, <4>3, <1>5
        <4>5. QED  BY <3>2, <4>1, <4>4
      <3>3. QED  BY <3>1, <3>2
    <2>2. g = [U \in SUBSET S |-> g[U]]
      BY <1>10
    <2>3. QED  BY <2>1, <2>2
  <1>12. PICK h : h = RewriteOf(s, w, S)
    OBVIOUS
  <1>13. h = [U \in SUBSET S |-> IF U = {} THEN Unwritten ELSE RewriteTurn(h[U \ {LG!Max(U)}], s[LG!Max(U)], w)]
    BY <1>11, <1>12, Zenon DEF RewriteOf
  <1>14. PICK T : T = {U \in SUBSET S : h[U] = g[U]}
    OBVIOUS
  <1>15. ASSUME NEW U \in SUBSET S, \A x \in U : U \ {x} \in T PROVE U \in T
    <2>1. CASE U = {}
      <3>1. h[U] = Unwritten /\ g[U] = Unwritten
        BY <2>1, <1>11, <1>13
      <3>2. QED  BY <3>1, <1>14
    <2>2. CASE U # {}
      <3>1. PICK x \in U : x = LG!Max(U)
        BY <2>2, <1>8
      <3>2. h[U \ {x}] = g[U \ {x}]
        BY <1>14, <1>15
      <3>3. h[U] = RewriteTurn(h[U \ {x}], s[x], w) /\ g[U] = RewriteTurn(g[U \ {x}], s[x], w)
        BY <2>2, <3>1, <1>11, <1>13
      <3>4. h[U] = g[U]
        BY <3>2, <3>3
      <3>5. QED  BY <3>4, <1>14
    <2>3. QED  BY <2>1, <2>2
  <1>16. S \in T
    <2>1. \A U \in SUBSET S : (\A x \in U : U \ {x} \in T) => U \in T
      BY <1>15
    <2>2. QED  BY <2>1, <1>4, AllSubsets, Zenon
  <1>17. Rewriting(s, w) = g[S]
    <2>1. Rewriting(s, w) = RewriteOf(s, w, S)[S]
      BY <1>4 DEF Rewriting
    <2>2. QED  BY <2>1, <1>12, <1>14, <1>16
  <1>18. QED  BY <1>1, <1>2, <1>3, <1>6, <1>7, <1>9, <1>10, <1>17 DEF RewriteFolded

\* Of no rows none is written, and one row more is one turn more.
LEMMA RewriteNext ==
  ASSUME NEW w, w.line \in Nat, w.context \in Contexts, NEW s \in Seq(KnownRows)
  PROVE  /\ Rewriting(s, w) \in Rewrites
         /\ Rewriting(<<>>, w) = Unwritten
         /\ \A row \in KnownRows : Rewriting(Append(s, row), w) = RewriteTurn(Rewriting(s, w), row, w)
  <1>1. PICK n \in Nat : n = Len(s)
    OBVIOUS
  <1>2. /\ RewriteTurns(s, n, w) \in [(1..n) \X Rewrites -> Rewrites]
        /\ \E g \in [SUBSET (1..n) -> Rewrites] :
             IsFold(g, RewriteTurns(s, n, w), Unwritten, Lasts(n), 1..n) /\ Rewriting(s, w) = g[1..n]
    <2>1. RewriteFolded(s, n, w)
      BY <1>1, RewriteFolds, Zenon
    <2>2. QED  BY <2>1 DEF RewriteFolded
  <1>3. PICK g \in [SUBSET (1..n) -> Rewrites] :
          IsFold(g, RewriteTurns(s, n, w), Unwritten, Lasts(n), 1..n) /\ Rewriting(s, w) = g[1..n]
    BY <1>2
  <1>4. Rewriting(<<>>, w) = Unwritten
    <2>1. PICK empty \in Seq(KnownRows) : empty = <<>>
      <3>1. <<>> \in Seq(KnownRows)
        OBVIOUS
      <3>2. QED  BY <3>1
    <2>2. PICK zero \in Nat : zero = 0 /\ zero = Len(empty) /\ 1..zero = {}
      BY <2>1
    <2>3. PICK f \in [SUBSET (1..zero) -> Rewrites] :
            IsFold(f, RewriteTurns(empty, zero, w), Unwritten, Lasts(zero), 1..zero) /\ Rewriting(empty, w) = f[1..zero]
      <3>1. zero = Len(empty)
        BY <2>2
      <3>2. RewriteFolded(empty, zero, w)
        BY <3>1, RewriteFolds, Zenon
      <3>3. QED  BY <3>2 DEF RewriteFolded
    <2>4. f[{}] = Unwritten
      BY <2>3 DEF IsFold
    <2>5. QED  BY <2>1, <2>2, <2>3, <2>4
  <1>5. ASSUME NEW row \in KnownRows
        PROVE  Rewriting(Append(s, row), w) = RewriteTurn(Rewriting(s, w), row, w)
    <2>1. PICK t \in Seq(KnownRows) : t = Append(s, row)
      <3>1. Append(s, row) \in Seq(KnownRows)
        OBVIOUS
      <3>2. QED  BY <3>1
    <2>2. Len(t) = n + 1 /\ t[n + 1] = row /\ \A i \in 1..n : t[i] = s[i]
      BY <2>1, <1>1
    <2>3. PICK m \in Nat : m = n + 1
      OBVIOUS
    <2>4. /\ RewriteTurns(t, m, w) \in [(1..m) \X Rewrites -> Rewrites]
          /\ \E f \in [SUBSET (1..m) -> Rewrites] :
               IsFold(f, RewriteTurns(t, m, w), Unwritten, Lasts(m), 1..m) /\ Rewriting(t, w) = f[1..m]
      <3>1. m = Len(t)
        BY <2>2, <2>3
      <3>2. RewriteFolded(t, m, w)
        BY <3>1, RewriteFolds, Zenon
      <3>3. QED  BY <3>2 DEF RewriteFolded
    <2>5. PICK h \in [SUBSET (1..(n + 1)) -> Rewrites] :
            IsFold(h, RewriteTurns(t, n + 1, w), Unwritten, Lasts(n + 1), 1..(n + 1)) /\ Rewriting(t, w) = h[1..(n + 1)]
      BY <2>3, <2>4
    <2>6. PICK op \in [(1..n) \X Rewrites -> Rewrites] : op = RewriteTurns(s, n, w)
      BY <1>2
    <2>7. PICK more \in [(1..(n + 1)) \X Rewrites -> Rewrites] : more = RewriteTurns(t, n + 1, w)
      BY <2>3, <2>4
    <2>8. ASSUME NEW i \in 1..n, NEW v \in Rewrites PROVE more[<<i, v>>] = op[<<i, v>>]
      <3>1. i \in 1..(n + 1) /\ t[i] = s[i]
        BY <2>2
      <3>2. more[<<i, v>>] = RewriteTurn(v, t[i], w)
        BY <3>1, <2>7 DEF RewriteTurns
      <3>3. op[<<i, v>>] = RewriteTurn(v, s[i], w)
        BY <2>6 DEF RewriteTurns
      <3>4. QED  BY <3>1, <3>2, <3>3
    <2>9. h[1..(n + 1)] = more[<<n + 1, g[1..n]>>]
      <3>1. PICK V : V = Rewrites
        OBVIOUS
      <3>2. PICK base : base = Unwritten
        OBVIOUS
      <3>3. Folding(g, op, base, n, V)
        BY <1>3, <2>6, <3>1, <3>2 DEF Folding
      <3>4. Folding(h, more, base, n + 1, V)
        BY <2>5, <2>7, <3>1, <3>2 DEF Folding
      <3>5. Alike(op, more, n, V)
        BY <3>1, <2>8 DEF Alike
      <3>6. TurnAfter(h, more, g, n)
        BY <3>3, <3>4, <3>5, NextOf, Zenon
      <3>7. QED  BY <3>6 DEF TurnAfter
    <2>10. more[<<n + 1, g[1..n]>>] = RewriteTurn(g[1..n], t[n + 1], w)
      <3>1. n + 1 \in 1..(n + 1) /\ g[1..n] \in Rewrites
        OBVIOUS
      <3>2. QED  BY <3>1, <2>7 DEF RewriteTurns
    <2>11. QED  BY <1>3, <2>1, <2>2, <2>5, <2>9, <2>10
  <1>6. Rewriting(s, w) \in Rewrites
    <2>1. g[1..n] \in Rewrites
      OBVIOUS
    <2>2. QED  BY <2>1, <1>3
  <1>7. QED  BY <1>4, <1>5, <1>6

-----------------------------------------------------------------------------
(* What a citation is resolved to.                                         *)

Trees == {tr \in [DOMAIN Sources -> Texts] : \A p \in DOMAIN Sources : tr[p] \in Sources[p]}
HitsOf(ref, tr) == {i \in DOMAIN tr[ref.path] : ref.anchor \in tr[ref.path][i]}
ContextOf(ref, tr) == LG!Context(tr[ref.path], Min(HitsOf(ref, tr)), Radius)

\* Nothing is found of a citation; it resolves: the text is there once, and is what it was confirmed on.
Clean(ref, tr) == LG!ResolveReference(ref, tr, Radius).problem = ""
Resolves(ref, tr) ==
  /\ ref.path \in DOMAIN tr
  /\ Cardinality(HitsOf(ref, tr)) = 1
  /\ ref.context \in {<<>>, ContextOf(ref, tr)}

\* The least number, and how many there are, are what Ledgers knows them to be.
LEMMA SameLeast ==
  ASSUME NEW S
  PROVE  LG!Min(S) = Min(S) /\ LG!Cardinality(S) = Cardinality(S)
  BY DEF LG!Min, Min, LG!Cardinality, Cardinality

\* The least number of a set is in it.
LEMMA LeastOf ==
  ASSUME NEW S, S \subseteq Nat, S # {}
  PROVE  Min(S) \in S
  <1>1. PICK m \in S : \A n \in S : ~(<<n, m>> \in OpToRel(<, Nat))
    BY NatLessThanWellFounded, WFMin
  <1>2. \A n \in S : m =< n
    <2>1. \A n \in S : n \in Nat /\ m \in Nat
      OBVIOUS
    <2>2. \A n \in S : ~(n < m)
      BY <2>1, <1>1 DEF OpToRel
    <2>3. QED  BY <2>1, <2>2
  <1>3. QED  BY <1>2 DEF Min

\* The lines around one of the lines of a text are lines of it, that line among them.
LEMMA ContextIs ==
  ASSUME NEW X, NEW text \in Seq(X), NEW at \in DOMAIN text
  PROVE  LG!Context(text, at, Radius) \in Seq(X) /\ LG!Context(text, at, Radius) # <<>>
  <1>1. Radius \in Nat
    BY SourcesAssumption
  <1>2. at \in 1..Len(text) /\ Len(text) \in Nat
    OBVIOUS
  <1>3. PICK from \in 1..at : from = LG!Max({1, at - Radius})
    <2>1. {1, at - Radius} \subseteq Int /\ {1, at - Radius} # {}
      BY <1>1, <1>2
    <2>2. IsFiniteSet({1, at - Radius})
      <3>1. IsFiniteSet({1})
        BY FS_Singleton
      <3>2. IsFiniteSet({1} \cup {at - Radius})
        BY <3>1, FS_AddElement
      <3>3. {1} \cup {at - Radius} = {1, at - Radius}
        OBVIOUS
      <3>4. QED  BY <3>2, <3>3
    <2>3. KD!Max({1, at - Radius}) \in {1, at - Radius}
      BY <2>1, <2>2, GreatestOf
    <2>4. LG!Max({1, at - Radius}) \in {1, at - Radius}
      BY <2>3, GreatestToo
    <2>5. \A y \in {1, at - Radius} : LG!Max({1, at - Radius}) >= y
      <3>1. \E x \in {1, at - Radius} : \A y \in {1, at - Radius} : x >= y
        <4>1. CASE 1 >= at - Radius
          BY <4>1
        <4>2. CASE at - Radius >= 1
          BY <4>2, <1>1, <1>2
        <4>3. QED  BY <4>1, <4>2, <1>1, <1>2
      <3>2. QED  BY <3>1 DEF LG!Max
    <2>6. QED  BY <2>4, <2>5, <1>1, <1>2
  <1>4. PICK upto \in at..Len(text) : upto = LG!Min({Len(text), at + Radius})
    <2>1. \E x \in {Len(text), at + Radius} : \A y \in {Len(text), at + Radius} : x =< y
      <3>1. CASE Len(text) =< at + Radius
        BY <3>1
      <3>2. CASE at + Radius =< Len(text)
        BY <3>2, <1>1, <1>2
      <3>3. QED  BY <3>1, <3>2, <1>1, <1>2
    <2>2. /\ LG!Min({Len(text), at + Radius}) \in {Len(text), at + Radius}
          /\ \A y \in {Len(text), at + Radius} : LG!Min({Len(text), at + Radius}) =< y
      BY <2>1 DEF LG!Min
    <2>3. QED  BY <2>2, <1>1, <1>2
  <1>5. LG!Context(text, at, Radius) = SubSeq(text, from, upto)
    BY <1>3, <1>4 DEF LG!Context
  <1>6. from \in 1..(Len(text) + 1) /\ upto \in (from - 1)..Len(text) /\ from =< upto
    BY <1>2
  <1>7. SubSeq(text, from, upto) \in Seq(X) /\ Len(SubSeq(text, from, upto)) = upto - from + 1
    <2>1. from \in Int /\ upto \in Int /\ \A i \in from..upto : text[i] \in X
      BY <1>2
    <2>2. QED  BY <1>6, <2>1, SubSeqProperties
  <1>8. Len(SubSeq(text, from, upto)) # 0
    BY <1>6, <1>7
  <1>9. QED  BY <1>5, <1>7, <1>8, EmptySeq

\* Nothing keeps a citation from being confirmed when it resolves, to a line and what is around it.
LEMMA ResolvedIs ==
  ASSUME NEW ref, NEW tr \in Trees, Clean(ref, tr)
  PROVE  /\ Resolves(ref, tr)
         /\ LG!ResolveReference(ref, tr, Radius).line = Min(HitsOf(ref, tr)) /\ Min(HitsOf(ref, tr)) \in Nat
         /\ LG!ResolveReference(ref, tr, Radius).context = ContextOf(ref, tr) /\ ContextOf(ref, tr) \in Contexts
  <1>1. PICK res : res = LG!ResolveReference(ref, tr, Radius)
    OBVIOUS
  <1>2. res.problem = ""
    BY <1>1, Zenon DEF Clean
  <1>3. PICK hit : hit = LG!Resolve(tr[ref.path], ref.anchor, Radius)
    OBVIOUS
  <1>4. res =
          CASE ref.path \notin DOMAIN tr -> [line |-> 0, context |-> <<>>, problem |-> "not in the tree"]
            [] ref.path \in DOMAIN tr /\ (hit.line = 0 \/ hit.problem # "") -> hit
            [] OTHER -> [hit EXCEPT !.problem = IF LG!Changed(ref.context, hit.context) THEN "go and read it" ELSE ""]
    BY <1>1, <1>3 DEF LG!ResolveReference
  <1>5. ref.path \in DOMAIN tr
    <2>1. SUFFICES ASSUME ref.path \notin DOMAIN tr PROVE FALSE
      OBVIOUS
    <2>2. res = [line |-> 0, context |-> <<>>, problem |-> "not in the tree"]
      BY <2>1, <1>4
    <2>3. res.problem = "not in the tree"
      BY <2>2
    <2>4. QED  BY <2>3, <1>2
  <1>6. PICK text : text = tr[ref.path] /\ text \in Texts /\ text \in Seq(ToSet(text))
    <2>1. ref.path \in DOMAIN Sources /\ tr[ref.path] \in Sources[ref.path] /\ tr[ref.path] \in Texts
      BY <1>5 DEF Trees
    <2>2. QED  BY <2>1, SourcesAssumption
  <1>7. PICK hits : hits = HitsOf(ref, tr)
    OBVIOUS
  <1>8. hits = {i \in DOMAIN text : ref.anchor \in text[i]} /\ hits \subseteq 1..Len(text) /\ Len(text) \in Nat
    <2>1. hits = {i \in DOMAIN text : ref.anchor \in text[i]}
      BY <1>6, <1>7 DEF HitsOf
    <2>2. PICK X : text \in Seq(X)
      BY <1>6
    <2>3. DOMAIN text = 1..Len(text) /\ Len(text) \in Nat
      BY <2>2
    <2>4. QED  BY <2>1, <2>3
  <1>9. hit = IF hits = {} THEN [line |-> 0, context |-> <<>>, problem |-> "not in the file any more"]
              ELSE [line |-> Min(hits), context |-> LG!Context(text, Min(hits), Radius),
                    problem |-> IF Cardinality(hits) > 1 THEN "pick a longer anchor" ELSE ""]
    <2>1. LG!Min(hits) = Min(hits) /\ LG!Cardinality(hits) = Cardinality(hits)
      BY SameLeast
    <2>2. QED  BY <2>1, <1>3, <1>6, <1>8 DEF LG!Resolve
  <1>10. hits # {}
    <2>1. SUFFICES ASSUME hits = {} PROVE FALSE
      OBVIOUS
    <2>2. hit = [line |-> 0, context |-> <<>>, problem |-> "not in the file any more"]
      BY <2>1, <1>9
    <2>3. hit.line = 0 /\ hit.problem = "not in the file any more"
      BY <2>2
    <2>4. res = hit
      BY <2>3, <1>4, <1>5
    <2>5. QED  BY <2>3, <2>4, <1>2
  <1>11. Min(hits) \in hits
    <2>1. hits \subseteq Nat
      <3>1. hits \subseteq 1..Len(text) /\ Len(text) \in Nat
        BY <1>8
      <3>2. QED  BY <3>1
    <2>2. QED  BY <2>1, <1>10, LeastOf
  <1>12. PICK at \in DOMAIN text : at = Min(hits) /\ at \in Nat \ {0}
    <2>1. Min(hits) \in DOMAIN text /\ Min(hits) \in 1..Len(text) /\ Len(text) \in Nat
      BY <1>8, <1>11
    <2>2. Min(hits) \in Nat \ {0}
      BY <2>1
    <2>3. QED  BY <2>1, <2>2
  <1>13. PICK found : found = LG!Context(text, at, Radius) /\ found \in Seq(ToSet(text)) /\ found # <<>>
    BY <1>6, <1>12, ContextIs
  <1>14. hit = [line |-> at, context |-> found, problem |-> IF Cardinality(hits) > 1 THEN "pick a longer anchor" ELSE ""]
    BY <1>9, <1>10, <1>12, <1>13
  <1>15. hit.problem = ""
    <2>1. SUFFICES ASSUME hit.problem # "" PROVE FALSE
      OBVIOUS
    <2>2. res = hit
      BY <2>1, <1>4, <1>5
    <2>3. QED  BY <2>1, <2>2, <1>2
  <1>16. Cardinality(hits) = 1
    <2>1. ~(Cardinality(hits) > 1)
      BY <1>14, <1>15
    <2>2. IsFiniteSet(hits)
      <3>1. IsFiniteSet(1..Len(text))
        <4>1. PICK n \in Nat : n = Len(text)
          BY <1>8
        <4>2. IsFiniteSet(1..n)
          BY FS_Interval
        <4>3. QED  BY <4>1, <4>2
      <3>2. QED  BY <3>1, <1>8, FS_Subset
    <2>3. Cardinality(hits) \in Nat /\ Cardinality(hits) # 0
      BY <2>2, <1>10, FS_CardinalityType, FS_EmptySet
    <2>4. PICK size \in Nat : size = Cardinality(hits)
      BY <2>3
    <2>5. size # 0 /\ ~(size > 1)
      BY <2>1, <2>3, <2>4
    <2>6. size = 1
      BY <2>5
    <2>7. QED  BY <2>4, <2>6
  <1>17. PICK after : after = (IF LG!Changed(ref.context, found) THEN "go and read it" ELSE "")
    OBVIOUS
  <1>18. res = [line |-> at, context |-> found, problem |-> after]
    <2>1. hit.line = at /\ hit.context = found /\ at # 0
      BY <1>12, <1>14
    <2>2. res = [hit EXCEPT !.problem = after]
      BY <2>1, <1>4, <1>5, <1>15, <1>17
    <2>3. QED  BY <2>2, <1>14
  <1>19. ~LG!Changed(ref.context, found)
    <2>1. after = ""
      BY <1>18, <1>2
    <2>2. QED  BY <2>1, <1>17
  <1>20. ref.context \in {<<>>, found}
    BY <1>13, <1>19 DEF LG!Changed
  <1>21. found = ContextOf(ref, tr)
    BY <1>6, <1>7, <1>12, <1>13 DEF ContextOf
  <1>22. found \in Contexts
    <2>1. ToSet(text) \subseteq UNION {ToSet(t) : t \in Texts}
      BY <1>6
    <2>2. found \in Seq(UNION {ToSet(t) : t \in Texts})
      <3>1. PICK X : X = ToSet(text)
        OBVIOUS
      <3>2. PICK Y : Y = UNION {ToSet(t) : t \in Texts}
        OBVIOUS
      <3>3. X \subseteq Y /\ found \in Seq(X)
        BY <3>1, <3>2, <2>1, <1>13
      <3>4. found \in Seq(Y)
        BY <3>3, Wider
      <3>5. QED  BY <3>2, <3>4
    <2>3. QED  BY <2>2 DEF Contexts
  <1>23. Resolves(ref, tr)
    BY <1>5, <1>7, <1>16, <1>20, <1>21 DEF Resolves
  <1>24. res.line = at /\ res.context = found
    BY <1>18
  <1>25. QED  BY <1>1, <1>7, <1>12, <1>21, <1>22, <1>23, <1>24

-----------------------------------------------------------------------------
(* What a confirmation writes back.                                        *)

ConfirmTurn(text, ref, tr) ==
  LET hit == LG!ResolveReference(ref, tr, Radius)
  IN  IF hit.problem # "" THEN text ELSE LG!Rewrite(text, ref.id, hit.line, hit.context)

\* The loop of confirm, over some of the places of a sequence of citations.
ConfirmOf(file, s, tr, S) ==
  CHOOSE iter : iter = [U \in SUBSET S |->
    IF U = {} THEN file ELSE ConfirmTurn(iter[U \ {LG!Max(U)}], s[LG!Max(U)], tr)]
Confirming(file, s, tr) == ConfirmOf(file, s, tr, DOMAIN s)[DOMAIN s]

\* What is written back is the last state of that loop.
LEMMA ConfirmIsLast ==
  ASSUME NEW file, NEW tr
  PROVE  LG!Confirm(file, tr, Radius) = Confirming(file, LG!ReadReferences(file), tr)
  BY DEF LG!Confirm, LG!FoldLeft, LG!MapThenFoldSet, Confirming, ConfirmOf, ConfirmTurn

\* A turn writes what a citation resolved to, or leaves the rows alone.
Finding(ref, tr) == [id |-> ref.id, line |-> Min(HitsOf(ref, tr)), context |-> ContextOf(ref, tr)]

\* A turn rewrites the entry of a citation that nothing keeps from being confirmed.
LEMMA ConfirmTurnWrites ==
  ASSUME NEW text, NEW ref, NEW tr \in Trees
  PROVE  ConfirmTurn(text, ref, tr) = IF Clean(ref, tr) THEN Rewriting(text, Finding(ref, tr)).out ELSE text
  <1>1. CASE Clean(ref, tr)
    <2>1. PICK hit : hit = LG!ResolveReference(ref, tr, Radius)
      OBVIOUS
    <2>2. ConfirmTurn(text, ref, tr) = LG!Rewrite(text, ref.id, hit.line, hit.context)
      BY <1>1, <2>1, Zenon DEF ConfirmTurn, Clean
    <2>3. hit.line = Min(HitsOf(ref, tr)) /\ hit.context = ContextOf(ref, tr)
      BY <1>1, <2>1, ResolvedIs
    <2>4. PICK w : w = Finding(ref, tr)
      OBVIOUS
    <2>5. w.id = ref.id /\ w.line = hit.line /\ w.context = hit.context
      BY <2>3, <2>4 DEF Finding
    <2>6. LG!Rewrite(text, w.id, w.line, w.context) = Rewriting(text, w).out
      BY RewriteIsLast, Zenon
    <2>7. ConfirmTurn(text, ref, tr) = Rewriting(text, Finding(ref, tr)).out
      BY <2>2, <2>4, <2>5, <2>6, Zenon
    <2>8. QED  BY <1>1, <2>7, Zenon
  <1>2. CASE ~Clean(ref, tr)
    BY <1>2, Zenon DEF ConfirmTurn, Clean
  <1>3. QED  BY <1>1, <1>2, Zenon

\* A turn leaves rows that are known.
LEMMA ConfirmTurnIs ==
  ASSUME NEW tr \in Trees, NEW ref \in References, NEW text \in Seq(KnownRows)
  PROVE  ConfirmTurn(text, ref, tr) \in Seq(KnownRows)
  <1>1. CASE Clean(ref, tr)
    <2>1. PICK w : w = Finding(ref, tr)
      OBVIOUS
    <2>2. Min(HitsOf(ref, tr)) \in Nat /\ ContextOf(ref, tr) \in Contexts
      BY <1>1, ResolvedIs
    <2>3. w.line \in Nat /\ w.context \in Contexts
      BY <2>1, <2>2 DEF Finding
    <2>4. Rewriting(text, w) \in Rewrites
      BY <2>3, RewriteNext
    <2>5. Rewriting(text, w).out \in Seq(KnownRows)
      BY <2>4 DEF Rewrites
    <2>6. ConfirmTurn(text, ref, tr) = Rewriting(text, w).out
      BY <1>1, <2>1, ConfirmTurnWrites, ZenonT(40)
    <2>7. QED  BY <2>5, <2>6
  <1>2. CASE ~Clean(ref, tr)
    <2>1. ConfirmTurn(text, ref, tr) = text
      BY <1>2, ConfirmTurnWrites, Zenon
    <2>2. QED  BY <2>1
  <1>3. QED  BY <1>1, <1>2

ConfirmTurns(s, n, tr) == [p \in (1..n) \X Seq(KnownRows) |-> ConfirmTurn(p[2], s[p[1]], tr)]
ConfirmFolded(file, s, n, tr) ==
  /\ ConfirmTurns(s, n, tr) \in [(1..n) \X Seq(KnownRows) -> Seq(KnownRows)]
  /\ \E g \in [SUBSET (1..n) -> Seq(KnownRows)] :
       IsFold(g, ConfirmTurns(s, n, tr), file, Lasts(n), 1..n) /\ Confirming(file, s, tr) = g[1..n]

\* It is a fold of those turns.
LEMMA ConfirmFolds ==
  ASSUME NEW file \in Seq(KnownRows), NEW tr \in Trees, NEW s \in Seq(References), NEW n \in Nat, n = Len(s)
  PROVE  ConfirmFolded(file, s, n, tr)
  <1>1. PICK op : op = ConfirmTurns(s, n, tr)
    OBVIOUS
  <1>2. PICK V : V = Seq(KnownRows)
    OBVIOUS
  <1>3. PICK S : S = 1..n
    OBVIOUS
  <1>4. IsFiniteSet(S) /\ DOMAIN s = S /\ \A i \in S : s[i] \in References
    <2>1. IsFiniteSet(S)
      BY <1>3, FS_Interval
    <2>2. DOMAIN s = S
      BY <1>3
    <2>3. \A i \in S : s[i] \in References
      BY <2>2
    <2>4. QED  BY <2>1, <2>2, <2>3
  <1>5. op = [p \in S \X V |-> ConfirmTurn(p[2], s[p[1]], tr)]
    BY <1>1, <1>2, <1>3 DEF ConfirmTurns
  <1>6. op \in [S \X V -> V]
    <2>1. ASSUME NEW p \in S \X V PROVE ConfirmTurn(p[2], s[p[1]], tr) \in V
      BY <1>2, <1>4, ConfirmTurnIs
    <2>2. QED  BY <2>1, <1>5
  <1>7. PICK c : c = Lasts(n)
    OBVIOUS
  <1>8. \A U \in SUBSET S : U # {} => c[U] \in U /\ c[U] = LG!Max(U)
    BY <1>3, <1>7, LastOf
  <1>9. PICK base \in V : base = file
    BY <1>2
  <1>10. PICK g \in [SUBSET S -> V] : IsFold(g, op, base, c, S)
    <2>1. PICK turn \in [S \X V -> V] : turn = op
      BY <1>6
    <2>2. \A U \in SUBSET S : U # {} => c[U] \in U
      BY <1>8
    <2>3. IsFiniteSet(S)
      BY <1>4
    <2>4. \E g \in [SUBSET S -> V] : IsFold(g, turn, base, c, S)
      BY <2>2, <2>3, FoldExists, Zenon
    <2>5. QED  BY <2>1, <2>4
  <1>11. g = [U \in SUBSET S |-> IF U = {} THEN file ELSE ConfirmTurn(g[U \ {LG!Max(U)}], s[LG!Max(U)], tr)]
    <2>1. ASSUME NEW U \in SUBSET S
          PROVE  g[U] = IF U = {} THEN file ELSE ConfirmTurn(g[U \ {LG!Max(U)}], s[LG!Max(U)], tr)
      <3>1. CASE U = {}
        BY <3>1, <1>9, <1>10 DEF IsFold
      <3>2. CASE U # {}
        <4>1. PICK x \in S : x = LG!Max(U) /\ x = c[U]
          BY <3>2, <1>8
        <4>2. g[U \ {x}] \in V
          BY <1>10
        <4>3. g[U] = op[<<x, g[U \ {x}]>>]
          BY <3>2, <4>1, <1>10 DEF IsFold
        <4>4. g[U] = ConfirmTurn(g[U \ {x}], s[x], tr)
          BY <4>2, <4>3, <1>5
        <4>5. QED  BY <3>2, <4>1, <4>4
      <3>3. QED  BY <3>1, <3>2
    <2>2. g = [U \in SUBSET S |-> g[U]]
      BY <1>10
    <2>3. QED  BY <2>1, <2>2
  <1>12. PICK h : h = ConfirmOf(file, s, tr, S)
    OBVIOUS
  <1>13. h = [U \in SUBSET S |-> IF U = {} THEN file ELSE ConfirmTurn(h[U \ {LG!Max(U)}], s[LG!Max(U)], tr)]
    BY <1>11, <1>12, Zenon DEF ConfirmOf
  <1>14. PICK T : T = {U \in SUBSET S : h[U] = g[U]}
    OBVIOUS
  <1>15. ASSUME NEW U \in SUBSET S, \A x \in U : U \ {x} \in T PROVE U \in T
    <2>1. CASE U = {}
      <3>1. h[U] = file /\ g[U] = file
        BY <2>1, <1>11, <1>13
      <3>2. QED  BY <3>1, <1>14
    <2>2. CASE U # {}
      <3>1. PICK x \in U : x = LG!Max(U)
        BY <2>2, <1>8
      <3>2. h[U \ {x}] = g[U \ {x}]
        BY <1>14, <1>15
      <3>3. h[U] = ConfirmTurn(h[U \ {x}], s[x], tr) /\ g[U] = ConfirmTurn(g[U \ {x}], s[x], tr)
        BY <2>2, <3>1, <1>11, <1>13
      <3>4. h[U] = g[U]
        BY <3>2, <3>3
      <3>5. QED  BY <3>4, <1>14
    <2>3. QED  BY <2>1, <2>2
  <1>16. S \in T
    <2>1. \A U \in SUBSET S : (\A x \in U : U \ {x} \in T) => U \in T
      BY <1>15
    <2>2. QED  BY <2>1, <1>4, AllSubsets, Zenon
  <1>17. Confirming(file, s, tr) = g[S]
    <2>1. Confirming(file, s, tr) = ConfirmOf(file, s, tr, S)[S]
      BY <1>4 DEF Confirming
    <2>2. QED  BY <2>1, <1>12, <1>14, <1>16
  <1>18. QED  BY <1>1, <1>2, <1>3, <1>6, <1>7, <1>9, <1>10, <1>17 DEF ConfirmFolded

\* Of no citations nothing is written back, and one citation more is one turn more.
LEMMA ConfirmNext ==
  ASSUME NEW file \in Seq(KnownRows), NEW tr \in Trees, NEW s \in Seq(References)
  PROVE  /\ Confirming(file, s, tr) \in Seq(KnownRows)
         /\ Confirming(file, <<>>, tr) = file
         /\ \A ref \in References : Confirming(file, Append(s, ref), tr) = ConfirmTurn(Confirming(file, s, tr), ref, tr)
  <1>1. PICK n \in Nat : n = Len(s)
    OBVIOUS
  <1>2. /\ ConfirmTurns(s, n, tr) \in [(1..n) \X Seq(KnownRows) -> Seq(KnownRows)]
        /\ \E g \in [SUBSET (1..n) -> Seq(KnownRows)] :
             IsFold(g, ConfirmTurns(s, n, tr), file, Lasts(n), 1..n) /\ Confirming(file, s, tr) = g[1..n]
    <2>1. ConfirmFolded(file, s, n, tr)
      BY <1>1, ConfirmFolds, Zenon
    <2>2. QED  BY <2>1 DEF ConfirmFolded
  <1>3. PICK g \in [SUBSET (1..n) -> Seq(KnownRows)] :
          IsFold(g, ConfirmTurns(s, n, tr), file, Lasts(n), 1..n) /\ Confirming(file, s, tr) = g[1..n]
    BY <1>2
  <1>4. Confirming(file, <<>>, tr) = file
    <2>1. PICK empty \in Seq(References) : empty = <<>>
      <3>1. <<>> \in Seq(References)
        OBVIOUS
      <3>2. QED  BY <3>1
    <2>2. PICK zero \in Nat : zero = 0 /\ zero = Len(empty) /\ 1..zero = {}
      BY <2>1
    <2>3. PICK f \in [SUBSET (1..zero) -> Seq(KnownRows)] :
            IsFold(f, ConfirmTurns(empty, zero, tr), file, Lasts(zero), 1..zero) /\ Confirming(file, empty, tr) = f[1..zero]
      <3>1. zero = Len(empty)
        BY <2>2
      <3>2. ConfirmFolded(file, empty, zero, tr)
        BY <3>1, ConfirmFolds, Zenon
      <3>3. QED  BY <3>2 DEF ConfirmFolded
    <2>4. f[{}] = file
      BY <2>3 DEF IsFold
    <2>5. QED  BY <2>1, <2>2, <2>3, <2>4
  <1>5. ASSUME NEW ref \in References
        PROVE  Confirming(file, Append(s, ref), tr) = ConfirmTurn(Confirming(file, s, tr), ref, tr)
    <2>1. PICK t \in Seq(References) : t = Append(s, ref)
      <3>1. Append(s, ref) \in Seq(References)
        OBVIOUS
      <3>2. QED  BY <3>1
    <2>2. Len(t) = n + 1 /\ t[n + 1] = ref /\ \A i \in 1..n : t[i] = s[i]
      BY <2>1, <1>1
    <2>3. PICK m \in Nat : m = n + 1
      OBVIOUS
    <2>4. /\ ConfirmTurns(t, m, tr) \in [(1..m) \X Seq(KnownRows) -> Seq(KnownRows)]
          /\ \E f \in [SUBSET (1..m) -> Seq(KnownRows)] :
               IsFold(f, ConfirmTurns(t, m, tr), file, Lasts(m), 1..m) /\ Confirming(file, t, tr) = f[1..m]
      <3>1. m = Len(t)
        BY <2>2, <2>3
      <3>2. ConfirmFolded(file, t, m, tr)
        BY <3>1, ConfirmFolds, Zenon
      <3>3. QED  BY <3>2 DEF ConfirmFolded
    <2>5. PICK h \in [SUBSET (1..(n + 1)) -> Seq(KnownRows)] :
            IsFold(h, ConfirmTurns(t, n + 1, tr), file, Lasts(n + 1), 1..(n + 1)) /\ Confirming(file, t, tr) = h[1..(n + 1)]
      BY <2>3, <2>4
    <2>6. PICK op \in [(1..n) \X Seq(KnownRows) -> Seq(KnownRows)] : op = ConfirmTurns(s, n, tr)
      BY <1>2
    <2>7. PICK more \in [(1..(n + 1)) \X Seq(KnownRows) -> Seq(KnownRows)] : more = ConfirmTurns(t, n + 1, tr)
      BY <2>3, <2>4
    <2>8. ASSUME NEW i \in 1..n, NEW v \in Seq(KnownRows) PROVE more[<<i, v>>] = op[<<i, v>>]
      <3>1. i \in 1..(n + 1) /\ t[i] = s[i]
        BY <2>2
      <3>2. more[<<i, v>>] = ConfirmTurn(v, t[i], tr)
        BY <3>1, <2>7 DEF ConfirmTurns
      <3>3. op[<<i, v>>] = ConfirmTurn(v, s[i], tr)
        BY <2>6 DEF ConfirmTurns
      <3>4. QED  BY <3>1, <3>2, <3>3
    <2>9. h[1..(n + 1)] = more[<<n + 1, g[1..n]>>]
      <3>1. PICK V : V = Seq(KnownRows)
        OBVIOUS
      <3>2. PICK base : base = file
        OBVIOUS
      <3>3. Folding(g, op, base, n, V)
        BY <1>3, <2>6, <3>1, <3>2 DEF Folding
      <3>4. Folding(h, more, base, n + 1, V)
        BY <2>5, <2>7, <3>1, <3>2 DEF Folding
      <3>5. Alike(op, more, n, V)
        BY <3>1, <2>8 DEF Alike
      <3>6. TurnAfter(h, more, g, n)
        BY <3>3, <3>4, <3>5, NextOf, Zenon
      <3>7. QED  BY <3>6 DEF TurnAfter
    <2>10. more[<<n + 1, g[1..n]>>] = ConfirmTurn(g[1..n], t[n + 1], tr)
      <3>1. n + 1 \in 1..(n + 1) /\ g[1..n] \in Seq(KnownRows)
        OBVIOUS
      <3>2. QED  BY <3>1, <2>7 DEF ConfirmTurns
    <2>11. QED  BY <1>3, <2>1, <2>2, <2>5, <2>9, <2>10
  <1>6. Confirming(file, s, tr) \in Seq(KnownRows)
    <2>1. g[1..n] \in Seq(KnownRows)
      OBVIOUS
    <2>2. QED  BY <2>1, <1>3
  <1>7. QED  BY <1>4, <1>5, <1>6

-----------------------------------------------------------------------------
(* A file of citations is made of whole entries.                           *)

\* What is begun starts with its id and has no other; it is whole with a line and a confirmation.
Has(e, key) == \E i \in DOMAIN e : e[i].k = key
Begun == {e \in Seq(KnownRows) : Len(e) >= 1 /\ \A i \in DOMAIN e : e[i].k = "id" <=> i = 1}
Whole == {e \in Begun : Has(e, "line") /\ Has(e, "confirmed")}
Closed(T) == <<>> \in T /\ \A t \in T : \A e \in Whole : t \o e \in T
Files == {s \in Seq(KnownRows) : \A T \in SUBSET Seq(KnownRows) : Closed(T) => s \in T}

\* What holds an id and, with what is begun, that with a row more holds all that is begun.
LEMMA BegunOnly ==
  ASSUME NEW T,
         \A row \in KnownRows : row.k = "id" => <<row>> \in T,
         \A f \in Begun : \A row \in KnownRows : f \in T /\ row.k # "id" => Append(f, row) \in T
  PROVE  Begun \subseteq T
  <1>1. PICK C : C = {n \in Nat : \A e \in Begun : Len(e) = n + 1 => e \in T}
    OBVIOUS
  <1>2. 0 \in C
    <2>1. ASSUME NEW e \in Begun, Len(e) = 1 PROVE e \in T
      <3>1. e \in Seq(KnownRows) /\ e[1].k = "id"
        BY <2>1 DEF Begun
      <3>2. PICK row \in KnownRows : row = e[1] /\ row.k = "id"
        BY <2>1, <3>1
      <3>3. e = <<row>>
        BY <2>1, <3>1, <3>2
      <3>4. QED  BY <3>2, <3>3
    <2>2. QED  BY <2>1, <1>1
  <1>3. ASSUME NEW n \in Nat, n \in C PROVE n + 1 \in C
    <2>1. ASSUME NEW e \in Begun, Len(e) = n + 2 PROVE e \in T
      <3>1. e \in Seq(KnownRows) /\ (\A i \in DOMAIN e : e[i].k = "id" <=> i = 1) /\ DOMAIN e = 1..(n + 2)
        BY <2>1 DEF Begun
      <3>2. PICK f \in Seq(KnownRows) : f = [i \in 1..(n + 1) |-> e[i]]
        <4>1. \A i \in 1..(n + 1) : e[i] \in KnownRows
          BY <3>1
        <4>2. PICK m \in Nat : m = n + 1
          OBVIOUS
        <4>3. [i \in 1..m |-> e[i]] \in Seq(KnownRows)
          BY <4>1, <4>2
        <4>4. QED  BY <4>2, <4>3
      <3>3. Len(f) = n + 1 /\ DOMAIN f = 1..(n + 1) /\ \A i \in 1..(n + 1) : f[i] = e[i]
        BY <3>2
      <3>4. f \in Begun
        BY <3>1, <3>3 DEF Begun
      <3>5. f \in T
        BY <3>3, <3>4, <1>1, <1>3
      <3>6. PICK row \in KnownRows : row = e[n + 2]
        BY <3>1
      <3>7. row.k # "id"
        BY <3>1, <3>6
      <3>8. PICK g \in Seq(KnownRows) : g = Append(f, row)
        <4>1. Append(f, row) \in Seq(KnownRows)
          OBVIOUS
        <4>2. QED  BY <4>1
      <3>9. Len(g) = n + 2 /\ g[n + 2] = row /\ \A i \in 1..(n + 1) : g[i] = f[i]
        BY <3>3, <3>8
      <3>10. \A i \in 1..(n + 2) : g[i] = e[i]
        BY <3>3, <3>6, <3>9
      <3>11. e = g
        <4>1. e = [i \in 1..(n + 2) |-> e[i]] /\ g = [i \in 1..(n + 2) |-> g[i]]
          BY <3>1, <3>9
        <4>2. QED  BY <4>1, <3>10
      <3>12. QED  BY <3>4, <3>5, <3>7, <3>8, <3>11
    <2>2. QED  BY <2>1, <1>1
  <1>4. Nat \subseteq C
    BY <1>2, <1>3, AllOfNat
  <1>5. ASSUME NEW e \in Begun PROVE e \in T
    <2>1. Len(e) \in Nat /\ Len(e) >= 1
      BY DEF Begun
    <2>2. PICK n \in Nat : Len(e) = n + 1
      <3>1. Len(e) - 1 \in Nat /\ Len(e) = (Len(e) - 1) + 1
        BY <2>1
      <3>2. QED  BY <3>1
    <2>3. QED  BY <2>2, <1>1, <1>4
  <1>6. QED  BY <1>5

\* A file with a whole entry more is a file.
LEMMA FilesGrow == Files \subseteq Seq(KnownRows) /\ Closed(Files)
  <1>1. Files \subseteq Seq(KnownRows)
    BY DEF Files
  <1>2. <<>> \in Files
    <2>1. <<>> \in Seq(KnownRows)
      OBVIOUS
    <2>2. \A T \in SUBSET Seq(KnownRows) : Closed(T) => <<>> \in T
      BY DEF Closed
    <2>3. QED  BY <2>1, <2>2 DEF Files
  <1>3. ASSUME NEW t \in Files, NEW e \in Whole PROVE t \o e \in Files
    <2>1. t \in Seq(KnownRows) /\ e \in Seq(KnownRows)
      BY DEF Files, Whole, Begun
    <2>2. t \o e \in Seq(KnownRows)
      BY <2>1
    <2>3. ASSUME NEW T \in SUBSET Seq(KnownRows), Closed(T) PROVE t \o e \in T
      <3>1. t \in T
        BY <2>3 DEF Files
      <3>2. QED  BY <3>1, <2>3 DEF Closed
    <2>4. QED  BY <2>2, <2>3 DEF Files
  <1>4. QED  BY <1>1, <1>2, <1>3 DEF Closed

\* What holds no rows and, with a file, that with a whole entry more holds every file.
LEMMA FilesOnly ==
  ASSUME NEW T, <<>> \in T, \A t \in Files : \A e \in Whole : t \in T => t \o e \in T
  PROVE  Files \subseteq T
  <1>1. PICK U : U = Files \cap T
    OBVIOUS
  <1>2. U \in SUBSET Seq(KnownRows)
    BY <1>1, FilesGrow
  <1>3. <<>> \in Files /\ \A t \in Files : \A e \in Whole : t \o e \in Files
    BY FilesGrow DEF Closed
  <1>4. Closed(U)
    BY <1>1, <1>3 DEF Closed
  <1>5. \A s \in Files : s \in U
    BY <1>2, <1>4 DEF Files
  <1>6. QED  BY <1>1, <1>5

-----------------------------------------------------------------------------
(* What is read of an entry, wherever it is, and what it is rewritten to.  *)

ReadsAs(e, x) ==
  /\ x \in References /\ x.id = e[1].id
  /\ \A t \in Seq(KnownRows) : LG!ReadReferences(t \o e) = Append(LG!ReadReferences(t), x)

\* Sequences one behind the other, the second of them a row longer.
LEMMA OneMore ==
  ASSUME NEW X, NEW s \in Seq(X), NEW t \in Seq(X), NEW x \in X
  PROVE  /\ s \o t \in Seq(X) /\ s \o <<x>> = Append(s, x) /\ s \o Append(t, x) = Append(s \o t, x)
         /\ s \o <<>> = s /\ <<>> \o s = s
  OBVIOUS

LastIs(s, x, key, v) ==
  [Append(s, x) EXCEPT ![Len(Append(s, x))] = [@ EXCEPT ![key] = v]] = Append(s, [x EXCEPT ![key] = v])

\* The last of a sequence changed is that sequence with the last one changed.
LEMMA LastChanged ==
  ASSUME NEW X, NEW s \in Seq(X), NEW x \in X, NEW key, NEW v, [x EXCEPT ![key] = v] \in X
  PROVE  LastIs(s, x, key, v)
  <1>1. PICK n \in Nat : n = Len(s)
    OBVIOUS
  <1>2. PICK y \in X : y = [x EXCEPT ![key] = v]
    OBVIOUS
  <1>3. PICK a \in Seq(X) : a = Append(s, x)
    <2>1. Append(s, x) \in Seq(X)
      OBVIOUS
    <2>2. QED  BY <2>1
  <1>4. PICK b \in Seq(X) : b = Append(s, y)
    <2>1. Append(s, y) \in Seq(X)
      OBVIOUS
    <2>2. QED  BY <2>1
  <1>5. Len(a) = n + 1 /\ DOMAIN a = 1..(n + 1) /\ a[n + 1] = x /\ \A i \in 1..n : a[i] = s[i]
    BY <1>1, <1>3
  <1>6. Len(b) = n + 1 /\ DOMAIN b = 1..(n + 1) /\ b[n + 1] = y /\ \A i \in 1..n : b[i] = s[i]
    BY <1>1, <1>4
  <1>7. PICK c : c = [a EXCEPT ![n + 1] = y]
    OBVIOUS
  <1>8. DOMAIN c = 1..(n + 1) /\ c = [i \in 1..(n + 1) |-> c[i]]
    BY <1>5, <1>7
  <1>9. c[n + 1] = y /\ \A i \in 1..n : c[i] = a[i]
    <2>1. n + 1 \in 1..(n + 1) /\ \A i \in 1..n : i \in 1..(n + 1) /\ i # n + 1
      OBVIOUS
    <2>2. QED  BY <2>1, <1>5, <1>7
  <1>10. \A i \in 1..(n + 1) : c[i] = b[i]
    BY <1>5, <1>6, <1>9
  <1>11. c = b
    <2>1. b = [i \in 1..(n + 1) |-> b[i]]
      BY <1>6
    <2>2. QED  BY <2>1, <1>8, <1>10
  <1>12. [a EXCEPT ![Len(a)] = [a[Len(a)] EXCEPT ![key] = v]] = c
    BY <1>2, <1>5, <1>7
  <1>13. QED  BY <1>2, <1>3, <1>4, <1>11, <1>12 DEF LastIs

\* A row that is no id changes what is read of the entry it is added to.
LEMMA RowAdded ==
  ASSUME NEW f \in Begun, NEW x, ReadsAs(f, x), NEW row \in KnownRows, row.k # "id"
  PROVE  Append(f, row) \in Begun /\ Append(f, row)[1] = f[1] /\ ReadsAs(Append(f, row), [x EXCEPT ![row.k] = row[row.k]])
  <1>1. f \in Seq(KnownRows) /\ Len(f) >= 1 /\ Len(f) \in Nat /\ DOMAIN f = 1..Len(f) /\ \A i \in DOMAIN f : f[i].k = "id" <=> i = 1
    BY DEF Begun
  <1>2. PICK n \in Nat : n = Len(f) /\ n >= 1
    BY <1>1
  <1>3. PICK g \in Seq(KnownRows) : g = Append(f, row)
    <2>1. Append(f, row) \in Seq(KnownRows)
      BY <1>1
    <2>2. QED  BY <2>1
  <1>4. Len(g) = n + 1 /\ DOMAIN g = 1..(n + 1) /\ g[n + 1] = row /\ \A i \in 1..n : g[i] = f[i]
    BY <1>1, <1>2, <1>3
  <1>5. g \in Begun
    <2>1. ASSUME NEW i \in 1..(n + 1) PROVE g[i].k = "id" <=> i = 1
      <3>1. CASE i = n + 1
        BY <3>1, <1>2, <1>4
      <3>2. CASE i \in 1..n
        BY <3>2, <1>1, <1>2, <1>4
      <3>3. QED  BY <3>1, <3>2
    <2>2. QED  BY <2>1, <1>2, <1>4 DEF Begun
  <1>6. g[1] = f[1]
    BY <1>2, <1>4
  <1>7. PICK key : key = row.k
    OBVIOUS
  <1>8. PICK v : v = row[key]
    OBVIOUS
  <1>9. x \in References /\ x.id = f[1].id /\ key # "id"
    BY <1>7 DEF ReadsAs
  <1>10. PICK y \in References : y = [x EXCEPT ![key] = v]
    BY <1>7, <1>8, <1>9, ReferenceIs
  <1>11. y.id = g[1].id
    <2>1. y.id = x.id
      <3>1. x \in [Keys -> KnownValues]
        BY <1>9 DEF References
      <3>2. QED  BY <3>1, <1>9, <1>10 DEF Keys
    <2>2. QED  BY <2>1, <1>6, <1>9
  <1>12. ASSUME NEW t \in Seq(KnownRows) PROVE LG!ReadReferences(t \o g) = Append(LG!ReadReferences(t), y)
    <2>1. t \o f \in Seq(KnownRows) /\ t \o g = Append(t \o f, row)
      BY <1>1, <1>3, OneMore
    <2>2. PICK refs \in Seq(References) : refs = LG!ReadReferences(t)
      BY ReadNext
    <2>3. LG!ReadReferences(t \o f) = Append(refs, x)
      BY <2>2 DEF ReadsAs
    <2>4. LG!ReadReferences(t \o g) = ReadTurn(Append(refs, x), row)
      BY <2>1, <2>3, ReadNext
    <2>5. ReadTurn(Append(refs, x), row) = [Append(refs, x) EXCEPT ![Len(Append(refs, x))] = [@ EXCEPT ![key] = v]]
      BY <1>7, <1>8, <1>9 DEF ReadTurn
    <2>6. [x EXCEPT ![key] = v] \in References
      BY <1>10
    <2>7. [Append(refs, x) EXCEPT ![Len(Append(refs, x))] = [@ EXCEPT ![key] = v]] = Append(refs, [x EXCEPT ![key] = v])
      <3>1. PICK z \in References : z = x
        BY <1>9
      <3>2. [z EXCEPT ![key] = v] \in References
        BY <3>1, <2>6
      <3>3. LastIs(refs, z, key, v)
        BY <3>2, LastChanged, Zenon
      <3>4. QED  BY <3>1, <3>3 DEF LastIs
    <2>8. QED  BY <1>10, <2>2, <2>4, <2>5, <2>7
  <1>13. ReadsAs(g, y)
    BY <1>11, <1>12 DEF ReadsAs
  <1>14. QED  BY <1>3, <1>5, <1>6, <1>7, <1>8, <1>10, <1>13

\* An id on its own is read as a new reference.
LEMMA FirstRow ==
  ASSUME NEW row \in KnownRows, row.k = "id"
  PROVE  <<row>> \in Begun /\ ReadsAs(<<row>>, [LG!NoReference EXCEPT !.id = row.id])
  <1>1. PICK x \in References : x = [LG!NoReference EXCEPT !.id = row.id]
    BY ReferenceIs
  <1>2. PICK e \in Seq(KnownRows) : e = <<row>> /\ Len(e) = 1 /\ e[1] = row
    <2>1. <<row>> \in Seq(KnownRows)
      OBVIOUS
    <2>2. QED  BY <2>1
  <1>3. e \in Begun
    BY <1>2 DEF Begun
  <1>4. x.id = row.id
    BY <1>1 DEF LG!NoReference
  <1>5. ASSUME NEW t \in Seq(KnownRows) PROVE LG!ReadReferences(t \o e) = Append(LG!ReadReferences(t), x)
    <2>1. t \o e = Append(t, row)
      BY <1>2, OneMore
    <2>2. LG!ReadReferences(Append(t, row)) = ReadTurn(LG!ReadReferences(t), row)
      BY ReadNext
    <2>3. ReadTurn(LG!ReadReferences(t), row) = Append(LG!ReadReferences(t), x)
      BY <1>1 DEF ReadTurn
    <2>4. QED  BY <2>1, <2>2, <2>3
  <1>6. ReadsAs(e, x)
    BY <1>2, <1>4, <1>5 DEF ReadsAs
  <1>7. QED  BY <1>1, <1>2, <1>3, <1>6

Noted(x, w) == [x EXCEPT !.line = w.line, !.context = w.context, !.confirmed = TRUE]
Else == Keys \ {"line", "context", "confirmed"}

\* f is what an entry being rewritten has become, read as y where the entry was read as x.
Becoming(e, f, w) ==
  \E x, y \in References :
    /\ e \in Begun /\ f \in Begun /\ f[1] = e[1] /\ ReadsAs(e, x) /\ ReadsAs(f, y)
    /\ \A key \in Else : y[key] = x[key]
    /\ Has(e, "line") => Has(f, "line") /\ y["line"] = w.line /\ y["context"] = w.context
    /\ Has(e, "confirmed") => Has(f, "confirmed") /\ y["confirmed"] = TRUE

\* What an entry with a row more has.
LEMMA HasAdded ==
  ASSUME NEW f \in Seq(KnownRows), NEW row \in KnownRows, NEW key
  PROVE  Has(Append(f, row), key) <=> Has(f, key) \/ row.k = key
  <1>1. PICK n \in Nat : n = Len(f)
    OBVIOUS
  <1>2. PICK g \in Seq(KnownRows) : g = Append(f, row)
    <2>1. Append(f, row) \in Seq(KnownRows)
      OBVIOUS
    <2>2. QED  BY <2>1
  <1>3. DOMAIN f = 1..n /\ DOMAIN g = 1..(n + 1) /\ g[n + 1] = row /\ \A i \in 1..n : g[i] = f[i]
    BY <1>1, <1>2
  <1>4. \A i \in 1..(n + 1) : i \in 1..n \/ i = n + 1
    OBVIOUS
  <1>5. n + 1 \in 1..(n + 1) /\ \A i \in 1..n : i \in 1..(n + 1)
    OBVIOUS
  <1>6. Has(g, key) <=> \E i \in 1..(n + 1) : g[i].k = key
    BY <1>3 DEF Has
  <1>7. Has(f, key) <=> \E i \in 1..n : f[i].k = key
    BY <1>3 DEF Has
  <1>8. QED  BY <1>2, <1>3, <1>4, <1>5, <1>6, <1>7

\* The rows of an entry being rewritten, one more.
LEMMA BecomingAdded ==
  ASSUME NEW e, NEW f, NEW w, w.line \in Nat, w.context \in Contexts, Becoming(e, f, w),
         NEW row \in KnownRows, row.k # "id"
  PROVE  Becoming(Append(e, row), f \o NewRows(TRUE, row, w.line, w.context), w)
  <1>1. PICK x \in References, y \in References :
          /\ e \in Begun /\ f \in Begun /\ f[1] = e[1] /\ ReadsAs(e, x) /\ ReadsAs(f, y)
          /\ \A key \in Else : y[key] = x[key]
          /\ Has(e, "line") => Has(f, "line") /\ y["line"] = w.line /\ y["context"] = w.context
          /\ Has(e, "confirmed") => Has(f, "confirmed") /\ y["confirmed"] = TRUE
    BY DEF Becoming
  <1>2. e \in Seq(KnownRows) /\ f \in Seq(KnownRows)
    BY <1>1 DEF Begun
  <1>3. PICK g : g = Append(e, row)
    OBVIOUS
  <1>4. PICK key : key = row.k
    OBVIOUS
  <1>5. PICK v : v = row[key]
    OBVIOUS
  <1>6. PICK z \in References : z = [x EXCEPT ![key] = v]
    BY <1>4, <1>5, ReferenceIs
  <1>7. g \in Begun /\ g[1] = e[1] /\ ReadsAs(g, z)
    BY <1>1, <1>3, <1>4, <1>5, <1>6, RowAdded
  <1>8. \A one1 : Has(g, one1) <=> Has(e, one1) \/ key = one1
    BY <1>2, <1>3, <1>4, HasAdded
  <1>9. DOMAIN x = Keys /\ DOMAIN y = Keys
    BY DEF References
  <1>10. CASE key = "context"
    <2>1. NewRows(TRUE, row, w.line, w.context) = <<>>
      BY <1>4, <1>10 DEF NewRows
    <2>2. f \o <<>> = f
      BY <1>2, OneMore
    <2>3. \A k \in Else : y[k] = z[k]
      BY <1>1, <1>6, <1>9, <1>10 DEF Else
    <2>4. Becoming(g, f, w)
      BY <1>1, <1>7, <1>8, <1>10, <2>3 DEF Becoming
    <2>5. QED  BY <1>3, <2>1, <2>2, <2>4
  <1>11. CASE key = "line"
    <2>1. PICK a \in KnownRows : a = [k |-> "line", line |-> w.line]
      BY DEF KnownRows, WrittenRows
    <2>2. PICK b \in KnownRows : b = [k |-> "context", context |-> w.context]
      BY DEF KnownRows, WrittenRows
    <2>3. NewRows(TRUE, row, w.line, w.context) = <<a, b>>
      BY <1>4, <1>11, <2>1, <2>2 DEF NewRows
    <2>4. PICK fa : fa = Append(f, a)
      OBVIOUS
    <2>5. PICK ya \in References : ya = [y EXCEPT !["line"] = w.line]
      <3>1. [y EXCEPT ![a.k] = a[a.k]] \in References
        BY ReferenceIs
      <3>2. a.k = "line" /\ a["line"] = w.line
        BY <2>1
      <3>3. QED  BY <3>1, <3>2
    <2>6. fa \in Begun /\ fa[1] = f[1] /\ ReadsAs(fa, ya)
      <3>1. a.k = "line" /\ a["line"] = w.line
        BY <2>1
      <3>2. a.k # "id"
        BY <3>1
      <3>3. Append(f, a) \in Begun /\ Append(f, a)[1] = f[1] /\ ReadsAs(Append(f, a), [y EXCEPT ![a.k] = a[a.k]])
        BY <3>2, <1>1, RowAdded
      <3>4. [y EXCEPT ![a.k] = a[a.k]] = ya
        BY <3>1, <2>5
      <3>5. QED  BY <3>3, <3>4, <2>4
    <2>7. PICK fb : fb = Append(fa, b)
      OBVIOUS
    <2>8. PICK yb \in References : yb = [ya EXCEPT !["context"] = w.context]
      <3>1. [ya EXCEPT ![b.k] = b[b.k]] \in References
        BY ReferenceIs
      <3>2. b.k = "context" /\ b["context"] = w.context
        BY <2>2
      <3>3. QED  BY <3>1, <3>2
    <2>9. fb \in Begun /\ fb[1] = f[1] /\ ReadsAs(fb, yb)
      <3>1. b.k = "context" /\ b["context"] = w.context
        BY <2>2
      <3>2. QED  BY <3>1, <2>6, <2>7, <2>8, RowAdded
    <2>10. f \o <<a, b>> = fb
      BY <1>2, <2>4, <2>7
    <2>11. Has(fb, "line") /\ (Has(f, "confirmed") => Has(fb, "confirmed"))
      <3>1. fa \in Seq(KnownRows) /\ a.k = "line"
        BY <2>1, <2>6 DEF Begun
      <3>2. Has(fa, "line") /\ (Has(f, "confirmed") => Has(fa, "confirmed"))
        BY <3>1, <1>2, <2>4, HasAdded
      <3>3. QED  BY <3>1, <3>2, <2>7, HasAdded
    <2>12. /\ yb["line"] = w.line /\ yb["context"] = w.context /\ yb["confirmed"] = y["confirmed"]
           /\ \A k \in Else : yb[k] = y[k] /\ z[k] = x[k]
      BY <1>6, <1>9, <1>11, <2>5, <2>8 DEF Else, Keys
    <2>13. Becoming(g, fb, w)
      BY <1>1, <1>7, <1>8, <1>11, <2>9, <2>11, <2>12 DEF Becoming
    <2>14. QED  BY <1>3, <2>3, <2>10, <2>13
  <1>12. CASE key = "confirmed"
    <2>1. PICK a \in KnownRows : a = [k |-> "confirmed", confirmed |-> TRUE]
      BY DEF KnownRows, WrittenRows
    <2>2. NewRows(TRUE, row, w.line, w.context) = <<a>>
      BY <1>4, <1>12, <2>1 DEF NewRows
    <2>3. PICK fa : fa = Append(f, a)
      OBVIOUS
    <2>4. a.k = "confirmed" /\ a["confirmed"] = TRUE
      BY <2>1
    <2>5. PICK ya \in References : ya = [y EXCEPT !["confirmed"] = TRUE]
      BY <2>4, ReferenceIs
    <2>6. fa \in Begun /\ fa[1] = f[1] /\ ReadsAs(fa, ya)
      <3>1. a.k # "id"
        BY <2>4
      <3>2. Append(f, a) \in Begun /\ Append(f, a)[1] = f[1] /\ ReadsAs(Append(f, a), [y EXCEPT ![a.k] = a[a.k]])
        BY <3>1, <1>1, RowAdded
      <3>3. [y EXCEPT ![a.k] = a[a.k]] = ya
        BY <2>4, <2>5
      <3>4. QED  BY <3>2, <3>3, <2>3
    <2>7. f \o <<a>> = fa
      BY <1>2, <2>3, OneMore
    <2>8. Has(fa, "confirmed") /\ (Has(f, "line") => Has(fa, "line"))
      BY <1>2, <2>3, <2>4, HasAdded
    <2>9. /\ ya["line"] = y["line"] /\ ya["context"] = y["context"] /\ ya["confirmed"] = TRUE
          /\ \A k \in Else : ya[k] = y[k] /\ z[k] = x[k]
      BY <1>6, <1>9, <1>12, <2>5 DEF Else, Keys
    <2>10. Becoming(g, fa, w)
      BY <1>1, <1>7, <1>8, <1>12, <2>6, <2>8, <2>9 DEF Becoming
    <2>11. QED  BY <1>3, <2>2, <2>7, <2>10
  <1>13. CASE key \notin {"context", "line", "confirmed"}
    <2>1. NewRows(TRUE, row, w.line, w.context) = <<row>>
      BY <1>4, <1>13 DEF NewRows
    <2>2. PICK fa : fa = Append(f, row)
      OBVIOUS
    <2>3. PICK ya \in References : ya = [y EXCEPT ![key] = v]
      BY <1>4, <1>5, ReferenceIs
    <2>4. fa \in Begun /\ fa[1] = f[1] /\ ReadsAs(fa, ya)
      BY <1>1, <1>4, <1>5, <2>2, <2>3, RowAdded
    <2>5. f \o <<row>> = fa
      BY <1>2, <2>2, OneMore
    <2>6. \A k : Has(f, k) => Has(fa, k)
      BY <1>2, <2>2, HasAdded
    <2>7. /\ ya["line"] = y["line"] /\ ya["context"] = y["context"] /\ ya["confirmed"] = y["confirmed"]
          /\ \A k \in Else : ya[k] = z[k]
      BY <1>1, <1>6, <1>9, <1>13, <2>3 DEF Else, Keys
    <2>8. Becoming(g, fa, w)
      BY <1>1, <1>7, <1>8, <1>13, <2>4, <2>6, <2>7 DEF Becoming
    <2>9. QED  BY <1>3, <2>1, <2>5, <2>8
  <1>14. QED  BY <1>10, <1>11, <1>12, <1>13

\* What is begun is read as a reference, wherever it is.
LEMMA BegunReads ==
  ASSUME NEW e \in Begun
  PROVE  \E x : ReadsAs(e, x)
  <1>1. PICK T : T = {f \in Begun : \E x : ReadsAs(f, x)}
    OBVIOUS
  <1>2. ASSUME NEW row \in KnownRows, row.k = "id" PROVE <<row>> \in T
    BY <1>1, <1>2, FirstRow
  <1>3. ASSUME NEW f \in Begun, NEW row \in KnownRows, f \in T, row.k # "id" PROVE Append(f, row) \in T
    <2>1. PICK x : ReadsAs(f, x)
      BY <1>1, <1>3
    <2>2. Append(f, row) \in Begun /\ ReadsAs(Append(f, row), [x EXCEPT ![row.k] = row[row.k]])
      BY <2>1, <1>3, RowAdded
    <2>3. QED  BY <2>2, <1>1
  <1>4. Begun \subseteq T
    BY <1>2, <1>3, BegunOnly
  <1>5. QED  BY <1>1, <1>4

\* What a rewriting makes of an entry at the end of a file.
RewritesAs(t, e, f, w) ==
  Rewriting(t \o e, w) = [inside |-> e[1].id = w.id, out |-> Rewriting(t, w).out \o f]

\* An entry that has the id is rewritten, and another is copied.
LEMMA BegunRewrites ==
  ASSUME NEW w, w.line \in Nat, w.context \in Contexts, NEW t \in Seq(KnownRows), NEW e \in Begun
  PROVE  \E f \in Begun : RewritesAs(t, e, f, w) /\ (IF e[1].id = w.id THEN Becoming(e, f, w) ELSE f = e)
  <1>1. PICK T : T = {g \in Begun : \E f \in Begun : 
                        RewritesAs(t, g, f, w) /\ (IF g[1].id = w.id THEN Becoming(g, f, w) ELSE f = g)}
    OBVIOUS
  <1>2. PICK before \in Rewrites : before = Rewriting(t, w)
    BY RewriteNext
  <1>3. before.out \in Seq(KnownRows) /\ before.inside \in BOOLEAN
    BY DEF Rewrites
  <1>4. PICK out \in Seq(KnownRows) : out = before.out
    BY <1>3
  <1>5. ASSUME NEW row \in KnownRows, row.k = "id" PROVE <<row>> \in T
    <2>1. PICK g : g = <<row>>
      OBVIOUS
    <2>2. PICK x : g \in Begun /\ ReadsAs(g, x) /\ g[1] = row /\ x = [LG!NoReference EXCEPT !.id = row.id]
      BY <2>1, <1>5, FirstRow
    <2>3. t \o g = Append(t, row)
      BY <2>1, OneMore
    <2>4. Rewriting(Append(t, row), w) = RewriteTurn(before, row, w)
      BY <1>2, RewriteNext
    <2>5. RewriteTurn(before, row, w) = [inside |-> row.id = w.id, out |-> out \o g]
      <3>1. Inside(before.inside, row, w.id) = (row.id = w.id)
        BY <1>5 DEF Inside
      <3>2. \A inside : NewRows(inside, row, w.line, w.context) = g
        BY <1>5, <2>1 DEF NewRows
      <3>3. QED  BY <3>1, <3>2, <1>4 DEF RewriteTurn
    <2>6. RewritesAs(t, g, g, w)
      BY <1>2, <1>4, <2>2, <2>3, <2>4, <2>5 DEF RewritesAs
    <2>7. Becoming(g, g, w)
      <3>1. \A key : Has(g, key) => key = "id"
        <4>1. g \in Seq(KnownRows) /\ DOMAIN g = 1..1
          BY <2>1
        <4>2. QED  BY <4>1, <2>2, <1>5 DEF Has
      <3>2. ~Has(g, "line") /\ ~Has(g, "confirmed")
        BY <3>1
      <3>3. x \in References
        BY <2>2 DEF ReadsAs
      <3>4. QED  BY <3>2, <3>3, <2>2 DEF Becoming
    <2>8. QED  BY <1>1, <2>1, <2>2, <2>6, <2>7
  <1>6. ASSUME NEW g \in Begun, NEW row \in KnownRows, g \in T, row.k # "id" PROVE Append(g, row) \in T
    <2>1. PICK f \in Begun : RewritesAs(t, g, f, w) /\ (IF g[1].id = w.id THEN Becoming(g, f, w) ELSE f = g)
      BY <1>1, <1>6
    <2>2. PICK inside \in BOOLEAN : inside = (g[1].id = w.id)
      OBVIOUS
    <2>3. g \in Seq(KnownRows) /\ f \in Seq(KnownRows)
      BY DEF Begun
    <2>4. Append(g, row) \in Begun /\ Append(g, row)[1] = g[1]
      <3>1. PICK x : ReadsAs(g, x)
        BY BegunReads
      <3>2. QED  BY <3>1, <1>6, RowAdded
    <2>5. t \o g \in Seq(KnownRows) /\ t \o Append(g, row) = Append(t \o g, row)
      BY <2>3, OneMore
    <2>6. Rewriting(t \o g, w) = [inside |-> inside, out |-> out \o f]
      BY <2>1, <2>2, <1>2, <1>4 DEF RewritesAs
    <2>7. Rewriting(t \o Append(g, row), w) = RewriteTurn([inside |-> inside, out |-> out \o f], row, w)
      BY <2>5, <2>6, RewriteNext
    <2>8. PICK new \in Seq(KnownRows) : new = NewRows(inside, row, w.line, w.context)
      BY NewRowsAre
    <2>9. RewriteTurn([inside |-> inside, out |-> out \o f], row, w) = [inside |-> inside, out |-> (out \o f) \o new]
      BY <2>8, <1>6 DEF RewriteTurn, Inside
    <2>10. (out \o f) \o new = out \o (f \o new) /\ f \o new \in Seq(KnownRows)
      BY <2>3, <2>8, SMTT(30)
    <2>11. RewritesAs(t, Append(g, row), f \o new, w)
      BY <2>2, <2>4, <2>7, <2>9, <2>10, <1>2, <1>4 DEF RewritesAs
    <2>12. CASE inside = TRUE
      <3>1. Becoming(g, f, w) /\ g[1].id = w.id
        BY <2>1, <2>2, <2>12
      <3>2. Becoming(Append(g, row), f \o NewRows(TRUE, row, w.line, w.context), w)
        BY <3>1, <1>6, BecomingAdded
      <3>3. Becoming(Append(g, row), f \o new, w)
        BY <3>2, <2>8, <2>12
      <3>4. f \o new \in Begun
        BY <3>3 DEF Becoming
      <3>5. QED  BY <3>1, <3>3, <3>4, <2>4, <2>11, <1>1
    <2>13. CASE inside = FALSE
      <3>1. f = g /\ ~(g[1].id = w.id)
        BY <2>1, <2>2, <2>13
      <3>2. new = <<row>>
        BY <2>8, <2>13 DEF NewRows
      <3>3. f \o new = Append(g, row)
        BY <3>1, <3>2, <2>3, OneMore
      <3>4. QED  BY <3>1, <3>3, <2>4, <2>11, <1>1
    <2>14. QED  BY <2>12, <2>13
  <1>7. Begun \subseteq T
    BY <1>5, <1>6, BegunOnly
  <1>8. QED  BY <1>1, <1>7

-----------------------------------------------------------------------------
(* What becomes of a file.                                                 *)

\* A whole entry that is rewritten is whole, and has its own line and context.
LEMMA WholeRewritten ==
  ASSUME NEW e \in Whole, NEW f, NEW w, Becoming(e, f, w)
  PROVE  f \in Whole /\ \E x \in References : ReadsAs(e, x) /\ ReadsAs(f, Noted(x, w))
  <1>1. PICK x \in References, y \in References :
          /\ e \in Begun /\ f \in Begun /\ f[1] = e[1] /\ ReadsAs(e, x) /\ ReadsAs(f, y)
          /\ \A key \in Else : y[key] = x[key]
          /\ Has(e, "line") => Has(f, "line") /\ y["line"] = w.line /\ y["context"] = w.context
          /\ Has(e, "confirmed") => Has(f, "confirmed") /\ y["confirmed"] = TRUE
    BY DEF Becoming
  <1>2. Has(e, "line") /\ Has(e, "confirmed")
    BY DEF Whole
  <1>3. f \in Whole
    BY <1>1, <1>2 DEF Whole
  <1>4. DOMAIN x = Keys /\ DOMAIN y = Keys /\ y = [key \in Keys |-> y[key]]
    BY DEF References
  <1>5. PICK z : z = Noted(x, w)
    OBVIOUS
  <1>6. DOMAIN z = Keys /\ z = [key \in Keys |-> z[key]]
    BY <1>4, <1>5 DEF Noted
  <1>7. z["line"] = w.line /\ z["context"] = w.context /\ z["confirmed"] = TRUE
    BY <1>4, <1>5 DEF Noted, Keys
  <1>8. \A key \in Else : z[key] = x[key]
    BY <1>4, <1>5 DEF Noted, Else
  <1>9. \A key \in Keys : z[key] = y[key]
    BY <1>1, <1>2, <1>7, <1>8 DEF Else
  <1>10. z = y
    BY <1>4, <1>6, <1>9
  <1>11. QED  BY <1>1, <1>3, <1>5, <1>10

\* What a sequence with one more is.
LEMMA Appended ==
  ASSUME NEW X, NEW s \in Seq(X), NEW x \in X
  PROVE  /\ Append(s, x) \in Seq(X) /\ Len(Append(s, x)) = Len(s) + 1 /\ Append(s, x)[Len(s) + 1] = x
         /\ \A i \in 1..Len(s) : Append(s, x)[i] = s[i]
  OBVIOUS

\* What is read afterwards is what was read before, the entries with the id excepted.
Marked(was, now, w) ==
  /\ Len(now) = Len(was)
  /\ \A i \in DOMAIN was : now[i] = IF was[i].id = w.id THEN Noted(was[i], w) ELSE was[i]

\* That holds of them with one more read.
LEMMA MarkedMore ==
  ASSUME NEW was \in Seq(References), NEW now \in Seq(References), NEW x \in References, NEW y \in References, NEW w,
         Marked(was, now, w), y = IF x.id = w.id THEN Noted(x, w) ELSE x
  PROVE  Marked(Append(was, x), Append(now, y), w)
  <1>1. PICK n \in Nat : n = Len(was) /\ n = Len(now)
    BY DEF Marked
  <1>2. PICK a \in Seq(References) : a = Append(was, x)
    <2>1. Append(was, x) \in Seq(References)
      OBVIOUS
    <2>2. QED  BY <2>1
  <1>3. PICK b \in Seq(References) : b = Append(now, y)
    <2>1. Append(now, y) \in Seq(References)
      OBVIOUS
    <2>2. QED  BY <2>1
  <1>4. Len(a) = n + 1 /\ DOMAIN a = 1..(n + 1) /\ a[n + 1] = x /\ \A i \in 1..n : a[i] = was[i]
    <2>1. Len(was) = n
      BY <1>1
    <2>2. Len(a) = n + 1 /\ a[n + 1] = x
      BY <2>1, <1>2
    <2>3. \A i \in 1..n : a[i] = was[i]
      BY <2>1, <1>2
    <2>4. DOMAIN a = 1..Len(a)
      OBVIOUS
    <2>5. QED  BY <2>2, <2>3, <2>4
  <1>5. Len(b) = n + 1 /\ b[n + 1] = y /\ \A i \in 1..n : b[i] = now[i]
    BY <1>1, <1>3
  <1>6. \A i \in 1..n : now[i] = IF was[i].id = w.id THEN Noted(was[i], w) ELSE was[i]
    BY <1>1 DEF Marked
  <1>7. ASSUME NEW i \in 1..(n + 1) PROVE b[i] = IF a[i].id = w.id THEN Noted(a[i], w) ELSE a[i]
    <2>1. CASE i = n + 1
      BY <2>1, <1>4, <1>5
    <2>2. CASE i \in 1..n
      BY <2>2, <1>4, <1>5, <1>6
    <2>3. QED  BY <2>1, <2>2
  <1>8. Marked(a, b, w)
    BY <1>4, <1>5, <1>7 DEF Marked
  <1>9. QED  BY <1>2, <1>3, <1>8

\* A file rewritten is a file, and only what is read of the entries with that id is other.
LEMMA FileRewritten ==
  ASSUME NEW w, w.line \in Nat, w.context \in Contexts, NEW s \in Files
  PROVE  /\ Rewriting(s, w).out \in Files
         /\ Marked(LG!ReadReferences(s), LG!ReadReferences(Rewriting(s, w).out), w)
  <1>1. PICK T : T = {t \in Files : /\ Rewriting(t, w).out \in Files
                                    /\ Marked(LG!ReadReferences(t), LG!ReadReferences(Rewriting(t, w).out), w)}
    OBVIOUS
  <1>2. <<>> \in T
    <2>1. <<>> \in Seq(KnownRows) /\ <<>> \in Files
      BY FilesGrow DEF Closed
    <2>2. Rewriting(<<>>, w) = Unwritten
      BY <2>1, RewriteNext
    <2>3. Rewriting(<<>>, w).out = <<>>
      BY <2>2 DEF Unwritten
    <2>4. LG!ReadReferences(<<>>) = <<>>
      BY <2>1, ReadNext
    <2>5. Marked(<<>>, <<>>, w)
      BY DEF Marked
    <2>6. QED  BY <2>1, <2>3, <2>4, <2>5, <1>1
  <1>3. ASSUME NEW t \in Files, NEW e \in Whole, t \in T PROVE t \o e \in T
    <2>1. t \in Seq(KnownRows) /\ e \in Begun /\ t \o e \in Files
      BY FilesGrow DEF Closed, Whole
    <2>2. PICK f \in Begun : RewritesAs(t, e, f, w) /\ (IF e[1].id = w.id THEN Becoming(e, f, w) ELSE f = e)
      BY <2>1, BegunRewrites
    <2>3. PICK out \in Files : out = Rewriting(t, w).out
      BY <1>1, <1>3
    <2>4. PICK x \in References : ReadsAs(e, x)
      BY <2>1, BegunReads DEF ReadsAs
    <2>5. PICK y \in References : ReadsAs(f, y) /\ y = (IF x.id = w.id THEN Noted(x, w) ELSE x) /\ f \in Whole
      <3>1. PICK refs \in Seq(References) : refs = LG!ReadReferences(t)
        BY <2>1, ReadNext
      <3>2. x.id = e[1].id
        BY <2>4 DEF ReadsAs
      <3>3. CASE e[1].id = w.id
        <4>1. PICK z \in References : ReadsAs(e, z) /\ ReadsAs(f, Noted(z, w)) /\ f \in Whole
          BY <2>2, <3>3, WholeRewritten
        <4>2. z = x
          <5>1. Append(refs, z) = Append(refs, x)
            BY <2>1, <4>1, <2>4, <3>1 DEF ReadsAs
          <5>2. Append(refs, z)[Len(refs) + 1] = z /\ Append(refs, x)[Len(refs) + 1] = x
            OBVIOUS
          <5>3. QED  BY <5>1, <5>2
        <4>3. Noted(z, w) \in References
          BY <4>1 DEF ReadsAs
        <4>4. QED  BY <4>1, <4>2, <4>3, <3>2, <3>3
      <3>4. CASE e[1].id # w.id
        BY <2>2, <2>4, <3>2, <3>4
      <3>5. QED  BY <3>3, <3>4
    <2>6. PICK was \in Seq(References) : was = LG!ReadReferences(t)
      BY <2>1, ReadNext
    <2>7. out \in Seq(KnownRows) /\ out \o f \in Files
      BY <2>5, FilesGrow DEF Closed
    <2>8. PICK now \in Seq(References) : now = LG!ReadReferences(out)
      BY <2>7, ReadNext
    <2>9. LG!ReadReferences(t \o e) = Append(was, x) /\ LG!ReadReferences(out \o f) = Append(now, y)
      BY <2>1, <2>4, <2>5, <2>6, <2>7, <2>8 DEF ReadsAs
    <2>10. Rewriting(t \o e, w).out = out \o f
      BY <2>2, <2>3 DEF RewritesAs
    <2>11. Marked(was, now, w)
      BY <2>3, <2>6, <2>8, <1>1, <1>3
    <2>12. Marked(Append(was, x), Append(now, y), w)
      BY <2>5, <2>11, MarkedMore
    <2>13. QED  BY <2>1, <2>7, <2>9, <2>10, <2>12, <1>1
  <1>4. Files \subseteq T
    BY <1>2, <1>3, FilesOnly
  <1>5. QED  BY <1>1, <1>4

\* An entry of a file has an id of its own.
ApartIds(refs) == \A i, j \in DOMAIN refs : refs[i].id = refs[j].id => i = j

\* What a confirmation makes of the citations read.
Noting(was, now, tr, n) ==
  /\ Len(now) = Len(was)
  /\ \A i \in DOMAIN was : now[i] = IF i =< n /\ Clean(was[i], tr) THEN Noted(was[i], Finding(was[i], tr)) ELSE was[i]

\* A file confirmed is a file, and only what resolves is noted.
LEMMA FileConfirmed ==
  ASSUME NEW tr \in Trees, NEW s \in Files, ApartIds(LG!ReadReferences(s))
  PROVE  /\ LG!Confirm(s, tr, Radius) \in Files
         /\ Noting(LG!ReadReferences(s), LG!ReadReferences(LG!Confirm(s, tr, Radius)), tr, Len(LG!ReadReferences(s)))
  <1>1. s \in Seq(KnownRows)
    BY FilesGrow
  <1>2. PICK was \in Seq(References) : was = LG!ReadReferences(s)
    BY <1>1, ReadNext
  <1>3. PICK m \in Nat : m = Len(was) /\ DOMAIN was = 1..m
    OBVIOUS
  <1>4. PICK C : C = {n \in Nat : n =< m => 
                        \A refs \in Seq(References) : Len(refs) = n /\ (\A i \in 1..n : refs[i] = was[i]) =>
                          /\ Confirming(s, refs, tr) \in Files
                          /\ Noting(was, LG!ReadReferences(Confirming(s, refs, tr)), tr, n)}
    OBVIOUS
  <1>5. 0 \in C
    <2>1. ASSUME NEW refs \in Seq(References), Len(refs) = 0
          PROVE  Confirming(s, refs, tr) \in Files /\ Noting(was, LG!ReadReferences(Confirming(s, refs, tr)), tr, 0)
      <3>1. refs = <<>>
        BY <2>1, EmptySeq
      <3>2. Confirming(s, <<>>, tr) = s
        BY <1>1, ConfirmNext
      <3>3. Noting(was, was, tr, 0)
        BY <1>3 DEF Noting
      <3>4. QED  BY <3>1, <3>2, <3>3, <1>2
    <2>2. QED  BY <2>1, <1>4
  <1>6. ASSUME NEW n \in Nat, n \in C PROVE n + 1 \in C
    <2>1. ASSUME n + 1 =< m, NEW refs \in Seq(References), Len(refs) = n + 1, \A i \in 1..(n + 1) : refs[i] = was[i]
          PROVE  /\ Confirming(s, refs, tr) \in Files
                 /\ Noting(was, LG!ReadReferences(Confirming(s, refs, tr)), tr, n + 1)
      <3>1. PICK first \in Seq(References) : first = [i \in 1..n |-> refs[i]]
        <4>1. \A i \in 1..n : refs[i] \in References
          BY <2>1
        <4>2. [i \in 1..n |-> refs[i]] \in Seq(References)
          BY <4>1
        <4>3. QED  BY <4>2
      <3>2. PICK ref \in References : ref = refs[n + 1]
        BY <2>1
      <3>3. Len(first) = n /\ \A i \in 1..n : first[i] = was[i]
        BY <2>1, <3>1
      <3>4. refs = Append(first, ref)
        <4>1. PICK g \in Seq(References) : g = Append(first, ref)
          <5>1. Append(first, ref) \in Seq(References)
            OBVIOUS
          <5>2. QED  BY <5>1
        <4>2. Len(g) = n + 1 /\ g[n + 1] = ref /\ \A i \in 1..n : g[i] = first[i]
          BY <4>1, <3>3
        <4>3. \A i \in 1..(n + 1) : g[i] = refs[i]
          BY <4>2, <3>1, <3>2
        <4>4. g = [i \in 1..(n + 1) |-> g[i]] /\ refs = [i \in 1..(n + 1) |-> refs[i]]
          BY <4>2, <2>1
        <4>5. QED  BY <4>1, <4>3, <4>4
      <3>5. PICK text \in Files : text = Confirming(s, first, tr) /\ Noting(was, LG!ReadReferences(text), tr, n)
        BY <2>1, <3>3, <1>4, <1>6
      <3>6. Confirming(s, refs, tr) = ConfirmTurn(text, ref, tr)
        BY <3>4, <3>5, <1>1, ConfirmNext
      <3>7. PICK after : after = Confirming(s, refs, tr)
        OBVIOUS
      <3>8. PICK mid : mid = LG!ReadReferences(text)
        OBVIOUS
      <3>9. Len(mid) = m /\ \A i \in 1..m : mid[i] = IF i =< n /\ Clean(was[i], tr)
                                                      THEN Noted(was[i], Finding(was[i], tr)) ELSE was[i]
        BY <3>5, <3>8, <1>3 DEF Noting
      <3>10. n + 1 \in 1..m /\ ref = was[n + 1] /\ mid[n + 1] = ref
        BY <2>1, <3>2, <3>9
      <3>11. CASE Clean(ref, tr)
        <4>1. PICK w : w = Finding(ref, tr)
          OBVIOUS
        <4>2. w.line \in Nat /\ w.context \in Contexts /\ w.id = ref.id
          <5>1. Min(HitsOf(ref, tr)) \in Nat /\ ContextOf(ref, tr) \in Contexts
            BY <3>11, ResolvedIs
          <5>2. QED  BY <5>1, <4>1 DEF Finding
        <4>3. after = Rewriting(text, w).out
          BY <3>6, <3>7, <3>11, <4>1, ConfirmTurnWrites, ZenonT(40)
        <4>4. after \in Files /\ Marked(mid, LG!ReadReferences(after), w)
          BY <4>2, <4>3, <3>8, FileRewritten
        <4>5. PICK now : now = LG!ReadReferences(after)
          OBVIOUS
        <4>6. DOMAIN mid = 1..m
          <5>1. text \in Seq(KnownRows)
            BY FilesGrow
          <5>2. mid \in Seq(References)
            BY <5>1, <3>8, ReadNext
          <5>3. QED  BY <5>2, <3>9
        <4>7. Len(now) = m /\ \A i \in 1..m : now[i] = IF mid[i].id = w.id THEN Noted(mid[i], w) ELSE mid[i]
          BY <4>4, <4>5, <4>6, <3>9 DEF Marked
        <4>8. ASSUME NEW i \in 1..m PROVE mid[i].id = was[i].id
          <5>1. was[i] \in References
            BY <1>3
          <5>2. \A v : Noted(was[i], v).id = was[i].id
            BY <5>1 DEF Noted, References, Keys
          <5>3. QED  BY <5>2, <3>9
        <4>9. \A i \in 1..m : was[i].id = ref.id => i = n + 1
          BY <3>10, <1>2, <1>3 DEF ApartIds
        <4>10. ASSUME NEW i \in 1..m
               PROVE  now[i] = IF i =< n + 1 /\ Clean(was[i], tr) THEN Noted(was[i], Finding(was[i], tr)) ELSE was[i]
          <5>1. CASE i = n + 1
            <6>1. now[i] = Noted(ref, w)
              BY <5>1, <4>2, <4>7, <3>10
            <6>2. QED  BY <6>1, <5>1, <4>1, <3>10, <3>11
          <5>2. CASE i # n + 1
            <6>1. mid[i].id # w.id
              BY <5>2, <4>2, <4>8, <4>9
            <6>2. now[i] = mid[i]
              BY <6>1, <4>7
            <6>3. i =< n + 1 <=> i =< n
              BY <5>2
            <6>4. QED  BY <6>2, <6>3, <3>9
          <5>3. QED  BY <5>1, <5>2
        <4>11. Noting(was, now, tr, n + 1)
          BY <4>7, <4>10, <1>3 DEF Noting
        <4>12. QED  BY <4>4, <4>5, <4>11, <3>7
      <3>12. CASE ~Clean(ref, tr)
        <4>1. after = text
          BY <3>6, <3>7, <3>12, ConfirmTurnWrites, Zenon
        <4>2. ASSUME NEW i \in 1..m
              PROVE  mid[i] = IF i =< n + 1 /\ Clean(was[i], tr) THEN Noted(was[i], Finding(was[i], tr)) ELSE was[i]
          <5>1. CASE i = n + 1
            BY <5>1, <3>10, <3>12
          <5>2. CASE i # n + 1
            <6>1. i =< n + 1 <=> i =< n
              BY <5>2
            <6>2. QED  BY <6>1, <3>9
          <5>3. QED  BY <5>1, <5>2
        <4>3. Noting(was, mid, tr, n + 1)
          BY <4>2, <3>9, <1>3 DEF Noting
        <4>4. QED  BY <4>1, <4>3, <3>7, <3>8
      <3>13. QED  BY <3>11, <3>12
    <2>2. QED  BY <2>1, <1>4
  <1>7. Nat \subseteq C
    BY <1>5, <1>6, AllOfNat
  <1>8. Confirming(s, was, tr) \in Files /\ Noting(was, LG!ReadReferences(Confirming(s, was, tr)), tr, m)
    BY <1>3, <1>4, <1>7
  <1>9. LG!Confirm(s, tr, Radius) = Confirming(s, was, tr)
    BY <1>2, ConfirmIsLast
  <1>10. QED  BY <1>2, <1>3, <1>8, <1>9

-----------------------------------------------------------------------------
(* What becomes of a file from which the context of an entry is taken out. *)

\* c is s without its i-th place; d is a and b one behind the other.
IsRemoved(c, s, n, i) == Len(c) = n - 1 /\ \A j \in 1..(n - 1) : c[j] = IF j < i THEN s[j] ELSE s[j + 1]
IsJoined(d, a, b, n, m) == Len(d) = n + m /\ \A j \in 1..(n + m) : d[j] = IF j =< n THEN a[j] ELSE b[j - n]

AreSame(c, d, q) == Len(c) = Len(d) /\ Len(c) = q /\ \A j \in 1..q : c[j] = d[j]

\* A sequence with one place taken out.
LEMMA RemovedIs ==
  ASSUME NEW X, NEW s \in Seq(X), NEW n \in Nat, n = Len(s), NEW i \in 1..n
  PROVE  RemoveAt(s, i) \in Seq(X) /\ IsRemoved(RemoveAt(s, i), s, n, i)
  <1>1. \A j \in 1..n : s[j] \in X
    OBVIOUS
  <1>2. PICK a \in Seq(X) : a = SubSeq(s, 1, i - 1) /\ Len(a) = i - 1 /\ \A j \in 1..(i - 1) : a[j] = s[j]
    <2>1. PICK m \in Nat : m = i - 1
      OBVIOUS
    <2>2. 1 \in Int /\ m \in Int /\ \A j \in 1..m : s[j] \in X
      BY <2>1, <1>1
    <2>3. /\ SubSeq(s, 1, m) \in Seq(X) /\ Len(SubSeq(s, 1, m)) = IF 1 =< m THEN m - 1 + 1 ELSE 0
          /\ \A j \in 1..(m - 1 + 1) : SubSeq(s, 1, m)[j] = s[1 + j - 1]
      BY <2>2, SubSeqProperties
    <2>4. Len(SubSeq(s, 1, m)) = m
      BY <2>3
    <2>5. \A j \in 1..m : SubSeq(s, 1, m)[j] = s[j]
      <3>1. ASSUME NEW j \in 1..m PROVE SubSeq(s, 1, m)[j] = s[j]
        <4>1. j \in 1..(m - 1 + 1) /\ 1 + j - 1 = j
          OBVIOUS
        <4>2. QED  BY <4>1, <2>3
      <3>2. QED  BY <3>1
    <2>6. QED  BY <2>1, <2>3, <2>4, <2>5
  <1>3. PICK b \in Seq(X) : b = SubSeq(s, i + 1, n) /\ Len(b) = n - i /\ \A j \in 1..(n - i) : b[j] = s[i + j]
    <2>1. PICK m \in Nat : m = i + 1
      OBVIOUS
    <2>2. m \in Int /\ n \in Int /\ \A j \in m..n : s[j] \in X
      BY <2>1, <1>1
    <2>3. /\ SubSeq(s, m, n) \in Seq(X) /\ Len(SubSeq(s, m, n)) = IF m =< n THEN n - m + 1 ELSE 0
          /\ \A j \in 1..(n - m + 1) : SubSeq(s, m, n)[j] = s[m + j - 1]
      BY <2>2, SubSeqProperties
    <2>4. Len(SubSeq(s, m, n)) = n - i
      BY <2>1, <2>3
    <2>5. \A j \in 1..(n - i) : SubSeq(s, m, n)[j] = s[i + j]
      <3>1. ASSUME NEW j \in 1..(n - i) PROVE SubSeq(s, m, n)[j] = s[i + j]
        <4>1. j \in 1..(n - m + 1) /\ m + j - 1 = i + j
          BY <2>1
        <4>2. QED  BY <4>1, <2>3
      <3>2. QED  BY <3>1
    <2>6. QED  BY <2>1, <2>3, <2>4, <2>5
  <1>4. RemoveAt(s, i) = a \o b
    BY <1>2, <1>3 DEF RemoveAt
  <1>5. PICK c \in Seq(X) : c = a \o b
    BY ConcatProperties
  <1>6. Len(c) = n - 1 /\ \A j \in 1..(n - 1) : c[j] = IF j =< i - 1 THEN a[j] ELSE b[j - (i - 1)]
    <2>1. Len(c) = Len(a) + Len(b) /\ \A j \in 1..(Len(a) + Len(b)) : c[j] = IF j =< Len(a) THEN a[j] ELSE b[j - Len(a)]
      BY <1>5, ConcatProperties
    <2>2. Len(a) = i - 1 /\ Len(a) + Len(b) = n - 1
      <3>1. Len(a) = i - 1
        BY <1>2
      <3>2. Len(b) = n - i
        BY <1>3
      <3>3. i \in Int /\ n \in Int
        OBVIOUS
      <3>4. QED  BY ONLY <3>1, <3>2, <3>3
    <2>3. QED  BY <2>1, <2>2
  <1>7. ASSUME NEW j \in 1..(n - 1) PROVE c[j] = IF j < i THEN s[j] ELSE s[j + 1]
    <2>1. CASE j < i
      <3>1. j \in 1..(i - 1)
        BY <2>1
      <3>2. QED  BY <3>1, <2>1, <1>2, <1>6
    <2>2. CASE ~(j < i)
      <3>1. j - (i - 1) \in 1..(n - i) /\ i + (j - (i - 1)) = j + 1 /\ ~(j =< i - 1)
        BY <2>2
      <3>2. b[j - (i - 1)] = s[j + 1]
        BY <3>1, <1>3
      <3>3. QED  BY <3>1, <3>2, <2>2, <1>6
    <2>3. QED  BY <2>1, <2>2
  <1>8. QED  BY <1>4, <1>5, <1>6, <1>7 DEF IsRemoved

\* Two sequences one behind the other.
LEMMA BehindIs ==
  ASSUME NEW X, NEW s \in Seq(X), NEW t \in Seq(X), NEW n \in Nat, NEW m \in Nat, n = Len(s), m = Len(t)
  PROVE  s \o t \in Seq(X) /\ IsJoined(s \o t, s, t, n, m)
  <1>1. PICK d \in Seq(X) : /\ d = s \o t /\ Len(d) = Len(s) + Len(t)
                            /\ \A j \in 1..(Len(s) + Len(t)) : d[j] = IF j =< Len(s) THEN s[j] ELSE t[j - Len(s)]
    <2>1. s \o t \in Seq(X)
      BY ConcatProperties
    <2>2. Len(s \o t) = Len(s) + Len(t)
      BY ConcatProperties
    <2>3. \A j \in 1..(Len(s) + Len(t)) : (s \o t)[j] = IF j =< Len(s) THEN s[j] ELSE t[j - Len(s)]
      BY ConcatProperties
    <2>4. QED  BY <2>1, <2>2, <2>3
  <1>2. QED  BY <1>1 DEF IsJoined

\* The sequence without a place of its first part is the one without it in front of the second.
LEMMA RemovedFirst ==
  ASSUME NEW n \in Nat, NEW m \in Nat, NEW k \in 1..n, NEW s, NEW t, NEW e, NEW a, NEW c, NEW d,
         IsJoined(s, t, e, n, m), IsRemoved(c, s, n + m, k), IsRemoved(a, t, n, k), IsJoined(d, a, e, n - 1, m)
  PROVE  AreSame(c, d, n + m - 1)
  <1>1. Len(c) = n + m - 1 /\ Len(d) = n + m - 1
    BY DEF IsRemoved, IsJoined
  <1>2. ASSUME NEW j \in 1..(n + m - 1) PROVE c[j] = d[j]
    <2>1. c[j] = IF j < k THEN s[j] ELSE s[j + 1]
      BY DEF IsRemoved
    <2>2. d[j] = IF j =< n - 1 THEN a[j] ELSE e[j - (n - 1)]
      BY DEF IsJoined
    <2>3. s[j] = (IF j =< n THEN t[j] ELSE e[j - n]) /\ s[j + 1] = (IF j + 1 =< n THEN t[j + 1] ELSE e[(j + 1) - n])
      BY j \in 1..(n + m), j + 1 \in 1..(n + m) DEF IsJoined
    <2>4. CASE j =< n - 1
      <3>1. j \in 1..(n - 1)
        BY <2>4
      <3>2. \A i \in 1..(n - 1) : a[i] = IF i < k THEN t[i] ELSE t[i + 1]
        BY DEF IsRemoved
      <3>3. a[j] = IF j < k THEN t[j] ELSE t[j + 1]
        BY ONLY <3>1, <3>2
      <3>4. QED  BY <3>3, <2>1, <2>2, <2>3, <2>4
    <2>5. CASE j > n - 1
      <3>1. ~(j < k) /\ ~(j + 1 =< n) /\ (j + 1) - n = j - (n - 1) /\ ~(j =< n - 1)
        BY <2>5
      <3>2. QED  BY <3>1, <2>1, <2>2, <2>3
    <2>6. QED  BY <2>4, <2>5
  <1>3. QED  BY <1>1, <1>2 DEF AreSame

\* And without a place of its second part, the first in front of the second without it.
LEMMA RemovedSecond ==
  ASSUME NEW n \in Nat, NEW m \in Nat, NEW p \in 1..m, NEW s, NEW t, NEW e, NEW a, NEW c, NEW d,
         IsJoined(s, t, e, n, m), IsRemoved(c, s, n + m, n + p), IsRemoved(a, e, m, p), IsJoined(d, t, a, n, m - 1)
  PROVE  AreSame(c, d, n + m - 1)
  <1>1. Len(c) = n + m - 1 /\ Len(d) = n + m - 1
    BY DEF IsRemoved, IsJoined
  <1>2. ASSUME NEW j \in 1..(n + m - 1) PROVE c[j] = d[j]
    <2>1. c[j] = IF j < n + p THEN s[j] ELSE s[j + 1]
      BY DEF IsRemoved
    <2>2. d[j] = IF j =< n THEN t[j] ELSE a[j - n]
      BY DEF IsJoined
    <2>3. s[j] = (IF j =< n THEN t[j] ELSE e[j - n]) /\ s[j + 1] = (IF j + 1 =< n THEN t[j + 1] ELSE e[(j + 1) - n])
      BY j \in 1..(n + m), j + 1 \in 1..(n + m) DEF IsJoined
    <2>4. CASE j =< n
      BY <2>1, <2>2, <2>3, <2>4
    <2>5. CASE j > n
      <3>1. j - n \in 1..(m - 1) /\ (j + 1) - n = (j - n) + 1 /\ (j < n + p <=> j - n < p) /\ ~(j =< n) /\ ~(j + 1 =< n)
        BY <2>5
      <3>2. a[j - n] = IF j - n < p THEN e[j - n] ELSE e[(j - n) + 1]
        BY <3>1 DEF IsRemoved
      <3>3. QED  BY <3>1, <3>2, <2>1, <2>2, <2>3
    <2>6. QED  BY <2>4, <2>5
  <1>3. QED  BY <1>1, <1>2 DEF AreSame

TakenOut(t, e, n, m) ==
  /\ \A k \in 1..n : RemoveAt(t \o e, k) = RemoveAt(t, k) \o e
  /\ \A p \in 1..m : RemoveAt(t \o e, n + p) = t \o RemoveAt(e, p)

\* One place taken out of two sequences is taken out of the one it is in.
LEMMA RemovedOfTwo ==
  ASSUME NEW X, NEW t \in Seq(X), NEW e \in Seq(X), NEW n \in Nat, NEW m \in Nat, n = Len(t), m = Len(e)
  PROVE  TakenOut(t, e, n, m)
  <1>1. PICK s \in Seq(X) : s = t \o e /\ IsJoined(s, t, e, n, m)
    <2>1. t \o e \in Seq(X) /\ IsJoined(t \o e, t, e, n, m)
      BY BehindIs, Zenon
    <2>2. QED  BY <2>1, Zenon
  <1>2. PICK q \in Nat : q = n + m /\ q = Len(s)
    BY <1>1 DEF IsJoined
  <1>3. ASSUME NEW k \in 1..n PROVE RemoveAt(s, k) = RemoveAt(t, k) \o e
    <2>1. PICK l \in Nat : l = n - 1
      OBVIOUS
    <2>2. k \in 1..q
      BY <1>2
    <2>3. PICK c \in Seq(X) : c = RemoveAt(s, k) /\ IsRemoved(c, s, q, k)
      BY <2>2, <1>2, RemovedIs, Zenon
    <2>4. PICK a \in Seq(X) : a = RemoveAt(t, k) /\ IsRemoved(a, t, n, k)
      BY RemovedIs, Zenon
    <2>5. l = Len(a)
      BY <2>1, <2>4 DEF IsRemoved
    <2>6. PICK d \in Seq(X) : d = a \o e /\ IsJoined(d, a, e, l, m)
      BY <2>5, BehindIs, Zenon
    <2>7. AreSame(c, d, n + m - 1)
      <3>1. IsRemoved(c, s, n + m, k) /\ IsJoined(d, a, e, n - 1, m)
        BY <1>2, <2>1, <2>3, <2>6, Zenon
      <3>2. QED  BY <3>1, <1>1, <2>4, RemovedFirst, Zenon
    <2>8. c = d
      BY <2>7, SeqEqual DEF AreSame
    <2>9. QED  BY <2>3, <2>4, <2>6, <2>8, Zenon
  <1>4. ASSUME NEW p \in 1..m PROVE RemoveAt(s, n + p) = t \o RemoveAt(e, p)
    <2>1. PICK l \in Nat : l = m - 1
      OBVIOUS
    <2>2. n + p \in 1..q
      BY <1>2
    <2>3. PICK c \in Seq(X) : c = RemoveAt(s, n + p) /\ IsRemoved(c, s, q, n + p)
      BY <2>2, <1>2, RemovedIs, Zenon
    <2>4. PICK a \in Seq(X) : a = RemoveAt(e, p) /\ IsRemoved(a, e, m, p)
      BY RemovedIs, Zenon
    <2>5. l = Len(a)
      BY <2>1, <2>4 DEF IsRemoved
    <2>6. PICK d \in Seq(X) : d = t \o a /\ IsJoined(d, t, a, n, l)
      BY <2>5, BehindIs, Zenon
    <2>7. AreSame(c, d, n + m - 1)
      <3>1. IsRemoved(c, s, n + m, n + p) /\ IsJoined(d, t, a, n, m - 1)
        BY <1>2, <2>1, <2>3, <2>6, Zenon
      <3>2. QED  BY <3>1, <1>1, <2>4, RemovedSecond, Zenon
    <2>8. c = d
      BY <2>7, SeqEqual DEF AreSame
    <2>9. QED  BY <2>3, <2>4, <2>6, <2>8, Zenon
  <1>5. QED  BY <1>1, <1>3, <1>4, Zenon DEF TakenOut

\* An entry whose context is taken out is an entry, and has its id.
LEMMA WholeReread ==
  ASSUME NEW e \in Whole, NEW p \in 1..Len(e), e[p].k = "context"
  PROVE  RemoveAt(e, p) \in Whole /\ RemoveAt(e, p)[1] = e[1]
  <1>1. e \in Seq(KnownRows) /\ (\A i \in DOMAIN e : e[i].k = "id" <=> i = 1)
    BY DEF Whole, Begun
  <1>2. PICK m \in Nat : m = Len(e) /\ DOMAIN e = 1..m
    BY <1>1
  <1>3. PICK c \in Seq(KnownRows) : c = RemoveAt(e, p) /\ IsRemoved(c, e, m, p)
    <2>1. p \in 1..m
      BY <1>2
    <2>2. m = Len(e)
      BY <1>2
    <2>3. QED  BY <2>1, <2>2, <1>1, RemovedIs, Zenon
  <1>4. p # 1 /\ p \in 1..m /\ e[1].k = "id"
    BY <1>1, <1>2
  <1>5. DOMAIN c = 1..(m - 1) /\ Len(c) = m - 1 /\ m - 1 >= 1
    <2>1. Len(c) = m - 1
      BY <1>3 DEF IsRemoved
    <2>2. DOMAIN c = 1..Len(c)
      OBVIOUS
    <2>3. QED  BY <2>1, <2>2, <1>4
  <1>6. \A j \in 1..(m - 1) : c[j] = IF j < p THEN e[j] ELSE e[j + 1]
    BY <1>3 DEF IsRemoved
  <1>7. c[1] = e[1]
    <2>1. 1 \in 1..(m - 1) /\ 1 < p
      BY <1>4, <1>5
    <2>2. QED  BY <2>1, <1>6
  <1>8. ASSUME NEW j \in 1..(m - 1) PROVE c[j].k = "id" <=> j = 1
    <2>1. j \in 1..m /\ j + 1 \in 1..m /\ j + 1 # 1
      OBVIOUS
    <2>2. e[j].k = "id" <=> j = 1
      BY <2>1, <1>1, <1>2
    <2>3. e[j + 1].k # "id"
      BY <2>1, <1>1, <1>2
    <2>4. j = 1 => j < p
      BY <1>4
    <2>5. QED  BY <2>2, <2>3, <2>4, <1>6
  <1>9. ASSUME NEW key, key # "context", Has(e, key) PROVE Has(c, key)
    <2>1. PICK j \in 1..m : e[j].k = key
      BY <1>2, <1>9 DEF Has
    <2>2. j # p
      BY <2>1, <1>9
    <2>3. CASE j < p
      <3>1. j \in 1..(m - 1) /\ c[j] = e[j]
        BY <2>3, <1>4, <1>6
      <3>2. QED  BY <3>1, <2>1, <1>5 DEF Has
    <2>4. CASE j > p
      <3>1. j - 1 \in 1..(m - 1) /\ ~(j - 1 < p) /\ (j - 1) + 1 = j
        BY <2>4, <1>4
      <3>2. c[j - 1] = e[j]
        BY <3>1, <1>6
      <3>3. QED  BY <3>1, <3>2, <2>1, <1>5 DEF Has
    <2>5. QED  BY <2>2, <2>3, <2>4, <1>4
  <1>10. Has(c, "line") /\ Has(c, "confirmed")
    BY <1>9 DEF Whole
  <1>11. c \in Whole
    BY <1>5, <1>8, <1>10 DEF Whole, Begun
  <1>12. QED  BY <1>3, <1>7, <1>11

\* As many citations, with the ids they had.
SameIds(was, now) == Len(now) = Len(was) /\ \A i \in 1..Len(was) : now[i].id = was[i].id

\* That holds of them with one more each.
LEMMA SameIdsMore ==
  ASSUME NEW was \in Seq(References), NEW now \in Seq(References), NEW x \in References, NEW y \in References,
         SameIds(was, now), x.id = y.id
  PROVE  SameIds(Append(was, x), Append(now, y))
  <1>1. PICK n \in Nat : n = Len(was)
    OBVIOUS
  <1>2. Len(now) = n /\ \A i \in 1..n : now[i].id = was[i].id
    BY <1>1 DEF SameIds
  <1>3. PICK a : a = Append(was, x)
    OBVIOUS
  <1>4. PICK b : b = Append(now, y)
    OBVIOUS
  <1>5. Len(a) = n + 1 /\ a[n + 1] = x /\ \A i \in 1..n : a[i] = was[i]
    BY <1>1, <1>3
  <1>6. Len(b) = n + 1 /\ b[n + 1] = y /\ \A i \in 1..n : b[i] = now[i]
    BY <1>2, <1>4
  <1>7. ASSUME NEW i \in 1..(n + 1) PROVE b[i].id = a[i].id
    <2>1. CASE i = n + 1
      BY <2>1, <1>5, <1>6
    <2>2. CASE i \in 1..n
      BY <2>2, <1>2, <1>5, <1>6
    <2>3. QED  BY <2>1, <2>2
  <1>8. SameIds(a, b)
    BY <1>5, <1>6, <1>7 DEF SameIds
  <1>9. QED  BY <1>3, <1>4, <1>8

\* And of the same citations.
LEMMA SameIdsSelf ==
  ASSUME NEW was
  PROVE  SameIds(was, was)
  BY DEF SameIds

\* c is a file of entries with the ids that those of t have.
Rereads(t, c) == c \in Files /\ SameIds(LG!ReadReferences(t), LG!ReadReferences(c))

\* Taking out a context makes a file of the entries there were.
LEMMA FileReread ==
  ASSUME NEW s \in Files, NEW i \in 1..Len(s), s[i].k = "context"
  PROVE  Rereads(s, RemoveAt(s, i))
  <1>1. PICK T : T = {t \in Files : \A k \in 1..Len(t) : t[k].k = "context" => Rereads(t, RemoveAt(t, k))}
    OBVIOUS
  <1>2. <<>> \in T
    <2>1. <<>> \in Files
      BY FilesGrow DEF Closed
    <2>2. 1..Len(<<>>) = {}
      OBVIOUS
    <2>3. QED  BY <2>1, <2>2, <1>1
  <1>3. ASSUME NEW t \in Files, NEW e \in Whole, t \in T PROVE t \o e \in T
    <2>1. t \in Seq(KnownRows) /\ e \in Seq(KnownRows) /\ e \in Begun
      BY FilesGrow DEF Whole, Begun
    <2>2. PICK n \in Nat : n = Len(t)
      BY <2>1
    <2>3. PICK m \in Nat : m = Len(e)
      BY <2>1
    <2>4. PICK both \in Files : both = t \o e
      BY FilesGrow DEF Closed
    <2>5. IsJoined(both, t, e, n, m) /\ TakenOut(t, e, n, m)
      <3>1. IsJoined(t \o e, t, e, n, m)
        BY <2>1, <2>2, <2>3, BehindIs, Zenon
      <3>2. TakenOut(t, e, n, m)
        BY <2>1, <2>2, <2>3, RemovedOfTwo, Zenon
      <3>3. QED  BY <3>1, <3>2, <2>4
    <2>6. PICK was \in Seq(References) : was = LG!ReadReferences(t)
      BY <2>1, ReadNext
    <2>7. PICK x \in References : ReadsAs(e, x)
      BY <2>1, BegunReads DEF ReadsAs
    <2>8. LG!ReadReferences(both) = Append(was, x)
      BY <2>1, <2>4, <2>6, <2>7 DEF ReadsAs
    <2>9. ASSUME NEW k \in 1..n, both[k].k = "context" PROVE Rereads(both, RemoveAt(both, k))
      <3>1. PICK c \in Files : c = RemoveAt(t, k) /\ SameIds(was, LG!ReadReferences(c))
        <4>1. k \in 1..(n + m) /\ k =< n
          OBVIOUS
        <4>2. both[k] = t[k]
          BY <4>1, <2>5 DEF IsJoined
        <4>3. Rereads(t, RemoveAt(t, k))
          BY <4>2, <2>2, <2>9, <1>1, <1>3
        <4>4. QED  BY <4>3, <2>6 DEF Rereads
      <3>2. c \in Seq(KnownRows)
        BY FilesGrow
      <3>3. PICK now \in Seq(References) : now = LG!ReadReferences(c)
        BY <3>2, ReadNext
      <3>4. LG!ReadReferences(c \o e) = Append(now, x)
        BY <3>2, <3>3, <2>7 DEF ReadsAs
      <3>5. c \o e \in Files
        BY FilesGrow DEF Closed
      <3>6. SameIds(was, now)
        BY <3>1, <3>3
      <3>7. SameIds(Append(was, x), Append(now, x))
        BY <3>6, SameIdsMore
      <3>8. RemoveAt(both, k) = c \o e
        <4>1. RemoveAt(t \o e, k) = RemoveAt(t, k) \o e
          BY <2>5, Zenon DEF TakenOut
        <4>2. QED  BY <4>1, <2>4, <3>1
      <3>9. QED  BY <3>4, <3>5, <3>7, <3>8, <2>8 DEF Rereads
    <2>10. ASSUME NEW p \in 1..m, both[n + p].k = "context" PROVE Rereads(both, RemoveAt(both, n + p))
      <3>1. e[p].k = "context"
        <4>1. n + p \in 1..(n + m) /\ ~(n + p =< n) /\ (n + p) - n = p
          OBVIOUS
        <4>2. both[n + p] = e[p]
          BY <4>1, <2>5 DEF IsJoined
        <4>3. QED  BY <4>2, <2>10
      <3>2. PICK f \in Whole : f = RemoveAt(e, p) /\ f[1] = e[1]
        BY <3>1, <2>3, WholeReread
      <3>3. PICK y \in References : ReadsAs(f, y)
        <4>1. f \in Begun
          BY DEF Whole
        <4>2. QED  BY <4>1, BegunReads DEF ReadsAs
      <3>4. x.id = y.id
        BY <3>2, <3>3, <2>7 DEF ReadsAs
      <3>5. LG!ReadReferences(t \o f) = Append(was, y)
        BY <3>3, <2>1, <2>6 DEF ReadsAs
      <3>6. t \o f \in Files
        BY FilesGrow DEF Closed
      <3>7. SameIds(Append(was, x), Append(was, y))
        BY <3>4, SameIdsMore, SameIdsSelf
      <3>8. RemoveAt(both, n + p) = t \o f
        <4>1. RemoveAt(t \o e, n + p) = t \o RemoveAt(e, p)
          BY <2>5, Zenon DEF TakenOut
        <4>2. QED  BY <4>1, <2>4, <3>2
      <3>9. QED  BY <3>5, <3>6, <3>7, <3>8, <2>8 DEF Rereads
    <2>11. ASSUME NEW k \in 1..Len(both), both[k].k = "context" PROVE Rereads(both, RemoveAt(both, k))
      <3>1. k \in 1..(n + m)
        BY <2>5 DEF IsJoined
      <3>2. CASE k =< n
        BY <3>1, <3>2, <2>9, <2>11
      <3>3. CASE k > n
        <4>1. PICK p \in 1..m : k = n + p
          <5>1. k - n \in 1..m /\ k = n + (k - n)
            BY <3>1, <3>3
          <5>2. QED  BY <5>1
        <4>2. QED  BY <4>1, <2>10, <2>11
      <3>4. QED  BY <3>1, <3>2, <3>3
    <2>12. QED  BY <2>4, <2>11, <1>1
  <1>4. Files \subseteq T
    BY <1>2, <1>3, FilesOnly
  <1>5. QED  BY <1>1, <1>4

\* An entry that can be written is a whole one.
LEMMA EntriesAreWhole == Entries \subseteq Whole
  <1>1. ASSUME NEW entry \in Entries PROVE entry \in Whole
    <2>1. /\ entry \in Seq(ToSet(entry)) /\ {"line", "confirmed"} \subseteq {entry[i].k : i \in DOMAIN entry}
          /\ \A i \in DOMAIN entry : entry[i].k = "id" <=> i = 1
      BY EntriesAssumption
    <2>2. ToSet(entry) \subseteq KnownRows
      BY DEF KnownRows, RowsOfEntries
    <2>3. entry \in Seq(KnownRows)
      BY <2>1, <2>2, Wider
    <2>4. Has(entry, "line") /\ Has(entry, "confirmed")
      BY <2>1 DEF Has
    <2>5. Len(entry) >= 1
      BY <2>3, <2>4 DEF Has
    <2>6. QED  BY <2>1, <2>3, <2>4, <2>5 DEF Whole, Begun
  <1>2. QED  BY <1>1

-----------------------------------------------------------------------------
(* What the desk keeps.                                                    *)

Reasoned == [id : {c.id : c \in Claims}, kind : {c.kind : c \in Claims}, evidence : {c.evidence : c \in Claims},
             verified : BOOLEAN, reason : Nat]

\* The rows are a file of whole entries, each with an id of its own, the claims are what can be
\* claimed, verified or not, and a tree that is there is one of the texts.
CitingTypes ==
  /\ rows \in Files
  /\ ApartIds(Cited(rows))
  /\ claims \in Seq(Reasoned)
  /\ tree = <<>> \/ tree \in Trees

\* Entries with the ids they had are as apart as they were.
LEMMA ApartStays ==
  ASSUME NEW was \in Seq(References), NEW now \in Seq(References), ApartIds(was), SameIds(was, now)
  PROVE  ApartIds(now)
  <1>1. DOMAIN was = 1..Len(was) /\ DOMAIN now = 1..Len(was)
    <2>1. DOMAIN was = 1..Len(was) /\ DOMAIN now = 1..Len(now)
      OBVIOUS
    <2>2. QED  BY <2>1 DEF SameIds
  <1>2. \A i \in 1..Len(was) : now[i].id = was[i].id
    BY DEF SameIds
  <1>3. QED  BY <1>1, <1>2 DEF ApartIds

\* So they are with an entry more whose id none of them has.
LEMMA ApartMore ==
  ASSUME NEW was \in Seq(References), NEW x \in References, ApartIds(was), x.id \notin {was[i].id : i \in DOMAIN was}
  PROVE  ApartIds(Append(was, x))
  <1>1. PICK n \in Nat : n = Len(was)
    OBVIOUS
  <1>2. PICK a \in Seq(References) : a = Append(was, x)
    <2>1. Append(was, x) \in Seq(References)
      OBVIOUS
    <2>2. QED  BY <2>1
  <1>3. Len(a) = n + 1 /\ a[n + 1] = x /\ \A i \in 1..n : a[i] = was[i]
    BY <1>1, <1>2
  <1>4. DOMAIN a = 1..(n + 1) /\ DOMAIN was = 1..n
    <2>1. DOMAIN a = 1..Len(a) /\ DOMAIN was = 1..Len(was)
      OBVIOUS
    <2>2. QED  BY <2>1, <1>1, <1>3
  <1>5. ASSUME NEW i \in 1..(n + 1), NEW j \in 1..(n + 1), a[i].id = a[j].id PROVE i = j
    <2>1. (i \in 1..n \/ i = n + 1) /\ (j \in 1..n \/ j = n + 1)
      OBVIOUS
    <2>2. CASE i \in 1..n /\ j \in 1..n
      BY <2>2, <1>3, <1>4, <1>5 DEF ApartIds
    <2>3. CASE i \in 1..n /\ j = n + 1
      <3>1. was[i].id = x.id
        BY <2>3, <1>3, <1>5
      <3>2. QED  BY <3>1, <2>3, <1>4
    <2>4. CASE i = n + 1 /\ j \in 1..n
      <3>1. was[j].id = x.id
        BY <2>4, <1>3, <1>5
      <3>2. QED  BY <3>1, <2>4, <1>4
    <2>5. CASE i = n + 1 /\ j = n + 1
      BY <2>5
    <2>6. QED  BY <2>1, <2>2, <2>3, <2>4, <2>5
  <1>6. ApartIds(a)
    BY <1>4, <1>5 DEF ApartIds
  <1>7. QED  BY <1>2, <1>6

\* Noting what was found of citations leaves them their ids.
LEMMA NotingKeepsIds ==
  ASSUME NEW was \in Seq(References), NEW now, NEW tr, NEW n, Noting(was, now, tr, n)
  PROVE  SameIds(was, now)
  <1>1. DOMAIN was = 1..Len(was)
    OBVIOUS
  <1>2. ASSUME NEW i \in 1..Len(was) PROVE now[i].id = was[i].id
    <2>1. was[i] \in References
      OBVIOUS
    <2>2. \A v : Noted(was[i], v).id = was[i].id
      BY <2>1 DEF Noted, References, Keys
    <2>3. now[i] = was[i] \/ now[i] = Noted(was[i], Finding(was[i], tr))
      BY <1>1 DEF Noting
    <2>4. QED  BY <2>2, <2>3
  <1>3. QED  BY <1>2 DEF SameIds, Noting

\* The first state is one of them.
LEMMA CitingStart == CitingInit => CitingTypes
  <1>1. SUFFICES ASSUME CitingInit PROVE CitingTypes
    OBVIOUS
  <1>2. rows = <<>> /\ claims = <<>> /\ tree = <<>>
    BY <1>1 DEF CitingInit
  <1>3. <<>> \in Files /\ <<>> \in Seq(KnownRows)
    BY FilesGrow DEF Closed
  <1>4. Cited(rows) = <<>>
    BY <1>2, <1>3, ReadNext DEF Cited
  <1>5. ApartIds(<<>>)
    BY DEF ApartIds
  <1>6. <<>> \in Seq(Reasoned)
    OBVIOUS
  <1>7. QED  BY <1>2, <1>3, <1>4, <1>5, <1>6 DEF CitingTypes

\* Every step goes from one of them to another.
LEMMA CitingStep == CitingTypes /\ [CitingNext]_citingVars => CitingTypes'
  <1> SUFFICES ASSUME CitingTypes, [CitingNext]_citingVars PROVE CitingTypes'
    OBVIOUS
  <1>1. rows \in Files /\ rows \in Seq(KnownRows) /\ ApartIds(LG!ReadReferences(rows))
    BY FilesGrow DEF CitingTypes, Cited
  <1>2. PICK was \in Seq(References) : was = LG!ReadReferences(rows)
    BY <1>1, ReadNext
  <1>3. ASSUME rows' \in Files, ApartIds(LG!ReadReferences(rows')), UNCHANGED <<claims, tree, published>> PROVE CitingTypes'
    BY <1>3 DEF CitingTypes, Cited
  <1>4. CASE Unpack
    <2>1. tree' \in Trees
      BY <1>4 DEF Unpack, Trees, Texts
    <2>2. QED  BY <2>1, <1>4 DEF CitingTypes, Cited, Unpack
  <1>5. CASE Upgrade
    <2>1. tree \in Trees
      BY <1>5 DEF Upgrade, CitingTypes
    <2>2. PICK p \in DOMAIN Sources : \E text \in Sources[p] : tree' = [tree EXCEPT ![p] = text]
      BY <1>5 DEF Upgrade
    <2>3. tree' \in Trees
      BY <2>1, <2>2 DEF Trees, Texts
    <2>4. QED  BY <2>3, <1>5 DEF CitingTypes, Cited, Upgrade
  <1>6. CASE Cite
    <2>1. PICK entry \in Entries : entry[1].id \notin Ids(rows) /\ rows' = rows \o entry
      BY <1>6 DEF Cite
    <2>2. entry \in Whole /\ entry \in Begun
      BY EntriesAreWhole DEF Whole
    <2>3. rows' \in Files
      BY <2>1, <2>2, <1>1, FilesGrow DEF Closed
    <2>4. PICK x \in References : ReadsAs(entry, x)
      BY <2>2, BegunReads DEF ReadsAs
    <2>5. LG!ReadReferences(rows') = Append(was, x) /\ x.id = entry[1].id
      BY <2>1, <2>4, <1>1, <1>2 DEF ReadsAs
    <2>6. x.id \notin {was[i].id : i \in DOMAIN was}
      BY <2>1, <2>5, <1>2 DEF Ids, Cited
    <2>7. ApartIds(Append(was, x))
      BY <2>6, <1>1, <1>2, ApartMore
    <2>8. QED  BY <2>3, <2>5, <2>7, <1>3, <1>6 DEF Cite
  <1>7. CASE Reread
    <2>1. PICK i \in DOMAIN rows : rows[i].k = "context" /\ rows' = RemoveAt(rows, i)
      BY <1>7 DEF Reread
    <2>2. i \in 1..Len(rows)
      BY <2>1, <1>1
    <2>3. rows' \in Files /\ SameIds(was, LG!ReadReferences(rows'))
      BY <2>1, <2>2, <1>1, <1>2, FileReread DEF Rereads
    <2>4. PICK now \in Seq(References) : now = LG!ReadReferences(rows')
      <3>1. rows' \in Seq(KnownRows)
        BY <2>3, FilesGrow
      <3>2. QED  BY <3>1, ReadNext
    <2>5. ApartIds(now)
      BY <2>3, <2>4, <1>1, <1>2, ApartStays
    <2>6. QED  BY <2>3, <2>4, <2>5, <1>3, <1>7 DEF Reread
  <1>8. CASE ConfirmAll
    <2>1. tree \in Trees /\ rows' = LG!Confirm(rows, tree, Radius)
      BY <1>8 DEF ConfirmAll, CitingTypes
    <2>2. rows' \in Files /\ Noting(was, LG!ReadReferences(rows'), tree, Len(was))
      BY <2>1, <1>1, <1>2, FileConfirmed
    <2>3. PICK now \in Seq(References) : now = LG!ReadReferences(rows')
      <3>1. rows' \in Seq(KnownRows)
        BY <2>2, FilesGrow
      <3>2. QED  BY <3>1, ReadNext
    <2>4. ApartIds(now)
      BY <2>2, <2>3, <1>1, <1>2, NotingKeepsIds, ApartStays
    <2>5. QED  BY <2>2, <2>3, <2>4, <1>3, <1>8 DEF ConfirmAll
  <1>9. CASE Claim
    <2>1. PICK c \in Claims : claims' = Append(claims, c)
      BY <1>9 DEF Claim
    <2>2. c \in Reasoned
      BY ClaimsAssumption DEF Reasoned
    <2>3. claims \in Seq(Reasoned)
      BY DEF CitingTypes
    <2>4. claims' \in Seq(Reasoned)
      BY <2>1, <2>2, <2>3
    <2>5. QED  BY <2>4, <1>9 DEF CitingTypes, Cited, Claim
  <1>10. CASE MarkVerified
    <2>1. PICK i \in DOMAIN claims : claims' = [claims EXCEPT ![i].verified = ~@]
      BY <1>10 DEF MarkVerified
    <2>2. claims \in Seq(Reasoned)
      BY DEF CitingTypes
    <2>3. PICK c \in Reasoned : c = claims[i]
      BY <2>1, <2>2
    <2>4. PICK d \in Reasoned : d = [c EXCEPT !.verified = ~c.verified]
      BY DEF Reasoned
    <2>5. claims' = [claims EXCEPT ![i] = d]
      BY <2>1, <2>3, <2>4
    <2>6. claims' \in Seq(Reasoned)
      BY <2>2, <2>5
    <2>7. QED  BY <2>6, <1>10 DEF CitingTypes, Cited, MarkVerified
  <1>11. CASE Publish
    BY <1>11 DEF CitingTypes, Cited, Publish
  <1>12. CASE UNCHANGED citingVars
    BY <1>12 DEF CitingTypes, Cited, citingVars
  <1>13. QED
    BY <1>4, <1>5, <1>6, <1>7, <1>8, <1>9, <1>10, <1>11, <1>12 DEF CitingNext

\* Whatever the tree has become: a confirmation changes an entry only when its text is there once
\* and is the text it was confirmed on, if it ever was, and then gives it its own line and context.
THEOREM DriftIsRead == CitingSpec => DriftIsNeverTakenSilently
  <1>1. CitingTypes /\ ConfirmAll =>
        LET was == Cited(rows)  now == Cited(rows')
            Hits(ref) == {n \in DOMAIN tree[ref.path] : ref.anchor \in tree[ref.path][n]}
        IN  /\ Len(now) = Len(was)
            /\ \A i \in DOMAIN was :
                  LET hits == Hits(was[i])
                      text == LG!Context(tree[was[i].path], Min(hits), Radius)
                  IN  \/ now[i] = was[i]
                      \/ /\ Cardinality(hits) = 1 /\ was[i].context \in {<<>>, text}
                         /\ now[i] = [was[i] EXCEPT !.line = Min(hits), !.context = text, !.confirmed = TRUE]
    <2> SUFFICES ASSUME CitingTypes, ConfirmAll
                 PROVE  LET was == Cited(rows)  now == Cited(rows')
                            Hits(ref) == {n \in DOMAIN tree[ref.path] : ref.anchor \in tree[ref.path][n]}
                        IN  /\ Len(now) = Len(was)
                            /\ \A i \in DOMAIN was :
                                  LET hits == Hits(was[i])
                                      text == LG!Context(tree[was[i].path], Min(hits), Radius)
                                  IN  \/ now[i] = was[i]
                                      \/ /\ Cardinality(hits) = 1 /\ was[i].context \in {<<>>, text}
                                         /\ now[i] = [was[i] EXCEPT !.line = Min(hits), !.context = text, !.confirmed = TRUE]
      OBVIOUS
    <2>1. tree \in Trees /\ rows' = LG!Confirm(rows, tree, Radius)
      BY DEF ConfirmAll, CitingTypes
    <2>2. Noting(Cited(rows), Cited(rows'), tree, Len(Cited(rows)))
      BY <2>1, FileConfirmed DEF CitingTypes, Cited
    <2>3. Cited(rows) \in Seq(References)
      BY FilesGrow, ReadNext DEF CitingTypes, Cited
    <2>4. ASSUME NEW i \in DOMAIN Cited(rows)
          PROVE  \/ Cited(rows')[i] = Cited(rows)[i]
                 \/ /\ Cardinality(HitsOf(Cited(rows)[i], tree)) = 1
                    /\ Cited(rows)[i].context \in {<<>>, ContextOf(Cited(rows)[i], tree)}
                    /\ Cited(rows')[i] = [Cited(rows)[i] EXCEPT !.line = Min(HitsOf(Cited(rows)[i], tree)),
                                                                 !.context = ContextOf(Cited(rows)[i], tree), !.confirmed = TRUE]
      <3>1. PICK ref : ref = Cited(rows)[i]
        OBVIOUS
      <3>2. PICK w : w = Finding(ref, tree)
        OBVIOUS
      <3>3. w.line = Min(HitsOf(ref, tree)) /\ w.context = ContextOf(ref, tree)
        BY <3>2 DEF Finding
      <3>4. Cited(rows')[i] = ref \/ (Clean(ref, tree) /\ Cited(rows')[i] = Noted(ref, w))
        BY <2>2, <3>1, <3>2 DEF Noting
      <3>5. Clean(ref, tree) => Resolves(ref, tree)
        BY <2>1, ResolvedIs
      <3>6. QED  BY <3>1, <3>3, <3>4, <3>5 DEF Resolves, Noted
    <2>5. QED  BY <2>2, <2>4 DEF Noting, HitsOf, ContextOf
  <1>2. CitingInit => CitingTypes
    BY CitingStart
  <1>3. CitingTypes /\ [CitingNext]_citingVars => CitingTypes'
    BY CitingStep
  <1>4. QED  BY <1>1, <1>2, <1>3, PTL DEF CitingSpec, DriftIsNeverTakenSilently

-----------------------------------------------------------------------------
(* What a lesson is in which nothing is found wrong.                       *)

Blank(x) == x = ""

\* Nothing is found where what would be found does not hold.
LEMMA NotFound ==
  ASSUME NEW where, NEW what, NEW condition, LG!Found(where, what, condition) = {}
  PROVE  ~condition
  BY DEF LG!Found

\* A claim of a kind there is, verified, of whose evidence nothing is found wrong.
LEMMA EvidenceHolds ==
  ASSUME NEW c \in Reasoned, c.verified, LG!CheckEvidence(c, Declared, Artefacts) = {}
  PROVE  /\ ~Blank(c.evidence) /\ c.kind # "unobservable"
         /\ c.kind \in LG!FILEKINDS =>
              /\ Artefacts[c.evidence][1].evidence
              /\ LG!Differences(Declared, Artefacts[c.evidence][1].machine) # {} => c.reason >= 40
  <1>1. PICK file : file = (c.evidence \in DOMAIN Artefacts)
    OBVIOUS
  <1>2. PICK beside : beside = (file /\ Artefacts[c.evidence] # <<>>)
    OBVIOUS
  <1>3. PICK found : found = (IF beside THEN LG!CheckMachine(c, Declared, Artefacts[c.evidence][1].machine) ELSE {})
    OBVIOUS
  <1>4. PICK both, nothing : both = LG!Found(c.id, "both", c.verified) /\ nothing = LG!Found(c.id, "nothing behind it", c.verified)
    OBVIOUS
  <1>5. LG!CheckEvidence(c, Declared, Artefacts) =
          CASE c.kind = "unobservable" -> both
            [] c.kind # "unobservable" /\ Blank(c.evidence) -> nothing
            [] c.kind \in LG!FILEKINDS /\ ~Blank(c.evidence) /\ ~file -> {<<c.id, "does not exist">>}
            [] c.kind \in LG!FILEKINDS /\ ~Blank(c.evidence) /\ file ->
                  LG!Found(c.id, "from nowhere", ~beside) \cup found
                  \cup LG!Found(c.id, "not evidence", beside /\ c.verified /\ ~Artefacts[c.evidence][1].evidence)
            [] OTHER -> found
    BY <1>1, <1>2, <1>3, <1>4, Zenon DEF LG!CheckEvidence, Blank
  <1>6. c.kind # "unobservable"
    <2>1. SUFFICES ASSUME c.kind = "unobservable" PROVE FALSE
      OBVIOUS
    <2>2. both = {}
      BY <2>1, <1>5 DEF LG!FILEKINDS
    <2>3. QED  BY <2>2, <1>4, NotFound
  <1>7. ~Blank(c.evidence)
    <2>1. SUFFICES ASSUME Blank(c.evidence) PROVE FALSE
      OBVIOUS
    <2>2. nothing = {}
      BY <2>1, <1>5, <1>6
    <2>3. QED  BY <2>2, <1>4, NotFound
  <1>8. ASSUME c.kind \in LG!FILEKINDS
        PROVE  /\ Artefacts[c.evidence][1].evidence
               /\ LG!Differences(Declared, Artefacts[c.evidence][1].machine) # {} => c.reason >= 40
    <2>1. file
      BY <1>5, <1>6, <1>7, <1>8
    <2>2. /\ LG!Found(c.id, "from nowhere", ~beside) = {} /\ found = {}
          /\ LG!Found(c.id, "not evidence", beside /\ c.verified /\ ~Artefacts[c.evidence][1].evidence) = {}
      BY <2>1, <1>5, <1>6, <1>7, <1>8
    <2>3. beside /\ Artefacts[c.evidence][1].evidence
      BY <2>2, NotFound
    <2>4. LG!CheckMachine(c, Declared, Artefacts[c.evidence][1].machine) = {}
      BY <2>2, <2>3, <1>3
    <2>5. PICK differs : differs = LG!Differences(Declared, Artefacts[c.evidence][1].machine)
      OBVIOUS
    <2>6. /\ LG!Found(c.id, "why this machine", differs # {} /\ c.reason = 0) = {}
          /\ LG!Found(c.id, "not a reason", differs # {} /\ c.reason \in 1..39) = {}
      BY <2>4, <2>5 DEF LG!CheckMachine
    <2>7. ~(differs # {} /\ c.reason = 0) /\ ~(differs # {} /\ c.reason \in 1..39)
      BY <2>6, NotFound
    <2>8. c.reason \in Nat
      BY DEF Reasoned
    <2>9. QED  BY <2>3, <2>5, <2>7, <2>8
  <1>9. QED  BY <1>6, <1>7, <1>8

\* A claim of a lesson of which nothing is found wrong is of a kind there is, nothing is wrong
\* with its evidence, and it is verified if the lesson is published.
LEMMA ClaimsHold ==
  ASSUME LedgerProblems = {}, NEW i \in DOMAIN claims
  PROVE  LG!CheckEvidence(claims[i], Declared, Artefacts) = {} /\ (published => claims[i].verified)
  <1>1. PICK wrong : wrong = [j \in DOMAIN claims |->
          LG!Found(claims[j].id, "not its own id", claims[j].id \notin Lesson.ids)
          \cup LG!Found(claims[j].id, "duplicate", \E k \in 1..j - 1 : claims[k].id = claims[j].id)
          \cup LG!Found(claims[j].id, "no such kind", ~(claims[j].kind \in LG!EVIDENCEKINDS))
          \cup (IF claims[j].kind \in LG!EVIDENCEKINDS THEN LG!CheckEvidence(claims[j], Declared, Artefacts) ELSE {})
          \cup LG!Found(claims[j].id, "published", claims[j].kind \in LG!EVIDENCEKINDS /\ Lesson.published /\ ~claims[j].verified)]
    OBVIOUS
  <1>2. UNION {wrong[j] : j \in DOMAIN claims} \subseteq LedgerProblems
    BY <1>1, ZenonT(40) DEF LedgerProblems, LG!CheckLesson
  <1>3. wrong[i] = {}
    BY <1>2
  <1>4. /\ LG!Found(claims[i].id, "no such kind", ~(claims[i].kind \in LG!EVIDENCEKINDS)) = {}
        /\ (IF claims[i].kind \in LG!EVIDENCEKINDS THEN LG!CheckEvidence(claims[i], Declared, Artefacts) ELSE {}) = {}
        /\ LG!Found(claims[i].id, "published", claims[i].kind \in LG!EVIDENCEKINDS /\ Lesson.published /\ ~claims[i].verified) = {}
    BY <1>1, <1>3
  <1>5. claims[i].kind \in LG!EVIDENCEKINDS
    BY <1>4, NotFound
  <1>6. ~(claims[i].kind \in LG!EVIDENCEKINDS /\ Lesson.published /\ ~claims[i].verified)
    BY <1>4, NotFound
  <1>7. Lesson.published = published
    BY DEF Lesson
  <1>8. QED  BY <1>4, <1>5, <1>6, <1>7

\* What is found wrong with a claim about the source.
WrongOf(claim, refs) ==
  LET Of(c) == {i \in DOMAIN refs : refs[i].id = c.evidence}
  IN  CASE Blank(claim.evidence) -> LG!Found(claim.id, "no citation", claim.verified)
        [] ~Blank(claim.evidence) /\ Of(claim) = {} -> {<<claim.id, "not in refs.toml">>}
        [] OTHER -> LG!Found(claim.id, "nobody has confirmed it", claim.verified /\ ~refs[LG!Max(Of(claim))].confirmed)

\* A verified claim about the source, of which nothing is found wrong, cites an entry confirmed on a line.
LEMMA SourceHolds ==
  ASSUME NEW refs \in Seq(References), LG!CheckClaims(claims, refs) = {},
         NEW document, NEW versions, NEW tops, NEW long,
         \A k \in DOMAIN refs : LG!CheckReference(refs[k], document, versions, tops, long) = {},
         NEW i \in DOMAIN claims, claims[i].verified, claims[i].kind = "source", ~Blank(claims[i].evidence)
  PROVE  \E ref \in ToSet(refs) : ref.id = claims[i].evidence /\ ref.confirmed /\ ref.line > 0
  <1>1. PICK c : c = claims[i]
    OBVIOUS
  <1>2. PICK of : of = {k \in DOMAIN refs : refs[k].id = c.evidence}
    OBVIOUS
  <1>3. LG!CheckClaims(claims, refs) = UNION {WrongOf(claims[j], refs) : j \in {j \in DOMAIN claims : claims[j].kind = "source"}}
    BY Zenon DEF LG!CheckClaims, WrongOf, Blank
  <1>4. WrongOf(c, refs) = {}
    BY <1>1, <1>3
  <1>5. of # {} /\ LG!Found(c.id, "nobody has confirmed it", c.verified /\ ~refs[LG!Max(of)].confirmed) = {}
    <2>1. ~Blank(c.evidence)
      BY <1>1
    <2>2. WrongOf(c, refs) =
            CASE Blank(c.evidence) -> LG!Found(c.id, "no citation", c.verified)
              [] ~Blank(c.evidence) /\ of = {} -> {<<c.id, "not in refs.toml">>}
              [] OTHER -> LG!Found(c.id, "nobody has confirmed it", c.verified /\ ~refs[LG!Max(of)].confirmed)
      BY <1>2 DEF WrongOf
    <2>3. QED  BY <2>1, <2>2, <1>4
  <1>6. LG!Max(of) \in of
    <2>1. DOMAIN refs = 1..Len(refs) /\ Len(refs) \in Nat
      OBVIOUS
    <2>2. IsFiniteSet(1..Len(refs))
      BY <2>1, FS_Interval
    <2>3. IsFiniteSet(of) /\ of \subseteq Int
      BY <2>1, <2>2, <1>2, FS_Subset
    <2>4. KD!Max(of) \in of
      BY <2>3, <1>5, GreatestOf
    <2>5. QED  BY <2>4, GreatestToo
  <1>7. PICK k \in DOMAIN refs : k = LG!Max(of) /\ refs[k].id = c.evidence
    BY <1>2, <1>6
  <1>8. refs[k].confirmed
    BY <1>1, <1>5, <1>7, NotFound
  <1>9. refs[k].line \in Nat
    <2>1. refs[k] \in References
      OBVIOUS
    <2>2. QED  BY <2>1 DEF References
  <1>10. refs[k].line # 0
    <2>1. LG!Found(refs[k].id, "nobody has resolved it", refs[k].confirmed /\ refs[k].line = 0) = {}
      BY DEF LG!CheckReference
    <2>2. QED  BY <2>1, <1>8, NotFound
  <1>11. refs[k] \in ToSet(refs)
    BY DEF ToSet
  <1>12. QED  BY <1>1, <1>7, <1>8, <1>9, <1>10, <1>11

\* Whoever cites a part of the kernel, when nothing is found uncovered, cites one that has an owner.
LEMMA CoverageHolds ==
  ASSUME Uncovered = {}, NEW ref \in ToSet(Cited(rows))
  PROVE  LG!OwnerOf(LedgerEntries, ref.path) # <<>>
  <1>1. PICK cited : cited = {[document |-> "Z02", path |-> Cited(rows)[i].path] : i \in DOMAIN Cited(rows)}
    OBVIOUS
  <1>2. PICK i \in DOMAIN Cited(rows) : ref = Cited(rows)[i]
    BY DEF ToSet
  <1>3. PICK d \in cited : d.path = ref.path
    <2>1. PICK d : d = [document |-> "Z02", path |-> Cited(rows)[i].path]
      OBVIOUS
    <2>2. d \in cited /\ d.path = ref.path
      BY <2>1, <1>1, <1>2
    <2>3. QED  BY <2>2
  <1>4. LG!CheckCitations(LedgerEntries, cited) = {}
    <2>1. PICK entries, topfound : entries = LG!CheckEntries(LedgerEntries, {"Z02"}, "slab" :> "complete")
                                   /\ topfound = LG!CheckTopLevel(LedgerEntries, {"mm", "fs"})
      OBVIOUS
    <2>2. Uncovered = IF LedgerEntries = <<>> THEN {<<"", "nothing is declared">>}
                      ELSE entries \cup LG!CheckCitations(LedgerEntries, cited) \cup topfound
      BY <1>1, <2>1, Zenon DEF Uncovered, LG!CheckCoverage
    <2>3. QED  BY <2>2, Zenon
  <1>5. {<<c.document, "nobody owns it">> : c \in {e \in cited : LG!OwnerOf(LedgerEntries, e.path) = <<>>}} = {}
    BY <1>4, Zenon DEF LG!CheckCitations
  <1>6. LG!OwnerOf(LedgerEntries, d.path) # <<>>
    BY <1>5
  <1>7. QED  BY <1>3, <1>6

\* How long the anchors are.
Lengths(refs) == [a \in {refs[i].anchor : i \in DOMAIN refs} |-> 20]

\* What is found is found of an entry, of the claims by the entries, or of the lesson.
LEMMA FoundIs ==
  Problems = (UNION {LG!CheckReference(Cited(rows)[i], Lesson, {"7.2"}, {"mm", "fs"}, Lengths(Cited(rows))) : i \in DOMAIN Cited(rows)})
             \cup LG!CheckClaims(claims, Cited(rows)) \cup LedgerProblems
  BY Zenon DEF Problems, Lengths

\* Whatever the kernel tree has become, and whatever has been marked verified: a lesson in which
\* nothing is found wrong has every verified claim supported, published it has every claim
\* verified, and what it cites has an owner.
THEOREM FaultlessIsSupported == CitingSpec => []SupportedClaims
  <1>1. ASSUME CitingTypes PROVE SupportedClaims
    <2> SUFFICES ASSUME Problems = {}
                 PROVE  /\ published => \A i \in DOMAIN claims : claims[i].verified
                        /\ \A i \in DOMAIN claims : claims[i].verified =>
                              LET c == claims[i] IN
                              /\ c.evidence # "" /\ c.kind # "unobservable"
                              /\ c.kind = "source" => \E ref \in ToSet(Cited(rows)) : ref.id = c.evidence /\ ref.confirmed /\ ref.line > 0
                              /\ c.kind \in LG!FILEKINDS =>
                                    /\ Artefacts[c.evidence][1].evidence
                                    /\ LG!Differences(Declared, Artefacts[c.evidence][1].machine) # {} => c.reason >= 40
                        /\ Uncovered = {} => \A ref \in ToSet(Cited(rows)) : LG!OwnerOf(LedgerEntries, ref.path) # <<>>
      BY Zenon DEF SupportedClaims
    <2>1. PICK refs \in Seq(References) : refs = Cited(rows)
      <3>1. rows \in Seq(KnownRows)
        BY <1>1, FilesGrow DEF CitingTypes
      <3>2. Cited(rows) \in Seq(References)
        BY <3>1, ReadNext DEF Cited
      <3>3. QED  BY <3>2
    <2>2. PICK long : long = Lengths(refs)
      OBVIOUS
    <2>3. Problems = (UNION {LG!CheckReference(refs[i], Lesson, {"7.2"}, {"mm", "fs"}, long) : i \in DOMAIN refs})
                     \cup LG!CheckClaims(claims, refs) \cup LedgerProblems
      BY <2>1, <2>2, FoundIs
    <2>4. /\ \A k \in DOMAIN refs : LG!CheckReference(refs[k], Lesson, {"7.2"}, {"mm", "fs"}, long) = {}
          /\ LG!CheckClaims(claims, refs) = {} /\ LedgerProblems = {}
      BY <2>3
    <2>5. ASSUME NEW i \in DOMAIN claims, claims[i].verified
          PROVE  /\ ~Blank(claims[i].evidence) /\ claims[i].kind # "unobservable"
                 /\ claims[i].kind = "source" =>
                      \E ref \in ToSet(refs) : ref.id = claims[i].evidence /\ ref.confirmed /\ ref.line > 0
                 /\ claims[i].kind \in LG!FILEKINDS =>
                      /\ Artefacts[claims[i].evidence][1].evidence
                      /\ LG!Differences(Declared, Artefacts[claims[i].evidence][1].machine) # {} => claims[i].reason >= 40
      <3>1. LG!CheckEvidence(claims[i], Declared, Artefacts) = {}
        BY <2>4, ClaimsHold
      <3>2. claims[i] \in Reasoned
        BY <1>1 DEF CitingTypes
      <3>3. /\ ~Blank(claims[i].evidence) /\ claims[i].kind # "unobservable"
            /\ claims[i].kind \in LG!FILEKINDS =>
                 /\ Artefacts[claims[i].evidence][1].evidence
                 /\ LG!Differences(Declared, Artefacts[claims[i].evidence][1].machine) # {} => claims[i].reason >= 40
        BY <3>1, <3>2, <2>5, EvidenceHolds
      <3>4. ASSUME claims[i].kind = "source"
            PROVE  \E ref \in ToSet(refs) : ref.id = claims[i].evidence /\ ref.confirmed /\ ref.line > 0
        BY <3>3, <3>4, <2>4, <2>5, SourceHolds
      <3>5. QED  BY <3>3, <3>4
    <2>6. published => \A i \in DOMAIN claims : claims[i].verified
      BY <2>4, ClaimsHold
    <2>7. Uncovered = {} => \A ref \in ToSet(Cited(rows)) : LG!OwnerOf(LedgerEntries, ref.path) # <<>>
      BY CoverageHolds
    <2>8. QED  BY <2>1, <2>5, <2>6, <2>7, Zenon DEF Blank
  <1>2. CitingInit => CitingTypes
    BY CitingStart
  <1>3. CitingTypes /\ [CitingNext]_citingVars => CitingTypes'
    BY CitingStep
  <1>4. QED  BY <1>1, <1>2, <1>3, PTL DEF CitingSpec
============================================================================
