------------------------------- MODULE SumProofs -------------------------------
(***************************************************************************)
(* Induction over data, for the proofs about what the models sum up and    *)
(* put one after the other.                                                *)
(*                                                                         *)
(* Induction is stated for sets (a set of numbers that contains 0 and, of  *)
(* each number, the next one), and rests on the fact of the library that   *)
(* the order of the naturals is well-founded.  The sum of a sequence is a  *)
(* fold, which takes the elements in an order of its own; that the order   *)
(* does not matter, and that the fold is defined at all, is proved here.   *)
(***************************************************************************)
EXTENDS Framing, SequenceTheorems, FiniteSetTheorems, WellFoundedInduction, TLAPS

-----------------------------------------------------------------------------
\* Induction.

Smaller == {p \in Nat \X Nat : p[1] < p[2]}

\* The order of the naturals, as a set of pairs.
LEMMA SmallerWellFounded == IsWellFoundedOn(Smaller, Nat)
<1>1. OpToRel(<, Nat) = Smaller BY DEF OpToRel, Smaller
<1> QED BY <1>1, NatLessThanWellFounded, Zenon

\* Of two numbers the first is not smaller: the second is at most the first.
LEMMA NotSmaller ==
  ASSUME NEW m \in Nat, NEW n \in Nat, <<m, n>> \notin Smaller
  PROVE  n <= m
BY DEF Smaller

\* Every set of naturals that is not empty has a least element.
LEMMA LeastNumber ==
  ASSUME NEW T \in SUBSET Nat, T # {}
  PROVE  \E m \in T : \A n \in T : m <= n
<1>1. PICK m \in T : \A n \in T : <<n, m>> \notin Smaller BY SmallerWellFounded, WFMin
<1>2. ASSUME NEW n \in T PROVE m <= n
  <2>1. <<n, m>> \notin Smaller BY <1>1, Zenon
  <2>2. m \in Nat /\ n \in Nat OBVIOUS
  <2> QED BY <2>1, <2>2, NotSmaller
<1> QED BY <1>2

\* A set that contains 0 and with each natural the next one contains them all.
LEMMA InductionOnSet ==
  ASSUME NEW T, 0 \in T, \A n \in Nat : n \in T => n + 1 \in T
  PROVE  Nat \subseteq T
<1> SUFFICES ASSUME Nat \ T # {} PROVE FALSE OBVIOUS
<1>1. PICK m \in Nat \ T : \A n \in Nat \ T : m <= n BY LeastNumber
<1>2. m # 0 /\ m - 1 \in Nat /\ m - 1 \notin Nat \ T BY <1>1
<1> QED BY <1>2

-----------------------------------------------------------------------------
\* The fold over a sequence, or over any function.

\* The element a fold takes next.
Picked(s) == CHOOSE x \in s : TRUE

\* Functions that give the sums over the subsets of a function's domain, as far as
\* those subsets are in a set.
SumUp(g, h, subsets) ==
  g = [s \in subsets |-> IF s = {} THEN 0 ELSE h[Picked(s)] + g[s \ {Picked(s)}]]

SumsOf(h) == CHOOSE g : SumUp(g, h, SUBSET (DOMAIN h))

\* The subsets of at most n elements.
UpTo(n, D) == {s \in SUBSET D : Cardinality(s) <= n}

\* What is picked from a set is in it, and there is one element less without it.
LEMMA PickedIn ==
  ASSUME NEW D, IsFiniteSet(D), NEW s \in SUBSET D, s # {}
  PROVE  /\ Picked(s) \in s /\ Cardinality(s) \in Nat \ {0}
         /\ \A x \in s : s \ {x} \in SUBSET D /\ Cardinality(s \ {x}) = Cardinality(s) - 1
<1>1. Picked(s) \in s BY DEF Picked
<1>2. IsFiniteSet(s) BY FS_Subset
<1>3. Cardinality(s) \in Nat /\ Cardinality(s) # 0 BY <1>2, FS_CardinalityType, FS_EmptySet
<1>4. \A x \in s : Cardinality(s \ {x}) = Cardinality(s) - 1 BY <1>2, FS_RemoveElement
<1> QED BY <1>1, <1>3, <1>4

\* Sums over a few elements extend to sums over one more.
LEMMA SumsExtend ==
  ASSUME NEW D, IsFiniteSet(D), NEW h \in [D -> Int],
         NEW n \in Nat, NEW g \in [UpTo(n, D) -> Int], SumUp(g, h, UpTo(n, D))
  PROVE  \E f \in [UpTo(n + 1, D) -> Int] : SumUp(f, h, UpTo(n + 1, D))
<1> DEFINE f == [s \in UpTo(n + 1, D) |->
                   IF s = {} THEN 0 ELSE h[Picked(s)] + g[s \ {Picked(s)}]]
<1>1. ASSUME NEW s \in UpTo(n + 1, D), s # {}
      PROVE  Picked(s) \in D /\ s \ {Picked(s)} \in UpTo(n, D) /\ s \ {Picked(s)} \in UpTo(n + 1, D)
  <2>1. s \in SUBSET D /\ Cardinality(s) <= n + 1 BY DEF UpTo
  <2>2. Picked(s) \in s /\ s \ {Picked(s)} \in SUBSET D
        /\ Cardinality(s \ {Picked(s)}) = Cardinality(s) - 1 /\ Cardinality(s) \in Nat
    BY <1>1, <2>1, PickedIn
  <2> QED BY <2>1, <2>2 DEF UpTo
<1>2. \A s \in UpTo(n + 1, D) : f[s] \in Int BY <1>1
<1>3. f \in [UpTo(n + 1, D) -> Int] BY <1>2
<1>4. ASSUME NEW s \in UpTo(n, D) PROVE f[s] = g[s]
  <2>1. s \in UpTo(n + 1, D)
    <3>1. s \in SUBSET D /\ Cardinality(s) <= n BY DEF UpTo
    <3>2. Cardinality(s) \in Nat BY <3>1, FS_Subset, FS_CardinalityType
    <3> QED BY <3>1, <3>2 DEF UpTo
  <2> QED BY <2>1 DEF SumUp
<1>5. \A s \in UpTo(n + 1, D) :
        f[s] = IF s = {} THEN 0 ELSE h[Picked(s)] + f[s \ {Picked(s)}]
  BY <1>1, <1>4
<1>6. SumUp(f, h, UpTo(n + 1, D))
  <2> DEFINE e == [s \in UpTo(n + 1, D) |->
                     IF s = {} THEN 0 ELSE h[Picked(s)] + f[s \ {Picked(s)}]]
  <2>1. DOMAIN f = UpTo(n + 1, D) /\ DOMAIN e = UpTo(n + 1, D)
        /\ f = [s \in DOMAIN f |-> f[s]] /\ e = [s \in DOMAIN e |-> e[s]]
    OBVIOUS
  <2>2. \A s \in UpTo(n + 1, D) : e[s] = f[s] BY <1>5
  <2> HIDE DEF e, f
  <2>3. e = f BY <2>1, <2>2
  <2> QED BY <2>3 DEF e, SumUp
<1> QED BY <1>3, <1>6

\* Of some subsets of a finite set one has the fewest elements.
LEMMA SmallestSet ==
  ASSUME NEW D, IsFiniteSet(D), NEW B \in SUBSET (SUBSET D), B # {}
  PROVE  \E s \in B : \A t \in B : Cardinality(s) <= Cardinality(t)
<1> DEFINE T == {Cardinality(s) : s \in B}
<1>1. \A s \in B : Cardinality(s) \in Nat BY FS_Subset, FS_CardinalityType
<1>2. T \in SUBSET Nat /\ T # {} BY <1>1
<1>3. PICK m \in T : \A n \in T : m <= n
  <2> HIDE DEF T
  <2> QED BY <1>2, LeastNumber
<1> QED BY <1>3

\* There are sums over all subsets of a finite set, and the fold takes them.
LEMMA SumsExist ==
  ASSUME NEW D, IsFiniteSet(D), NEW h \in [D -> Int]
  PROVE  SumsOf(h) \in [SUBSET D -> Int] /\ SumUp(SumsOf(h), h, SUBSET D)
<1> DEFINE T == {n \in Nat : \E g \in [UpTo(n, D) -> Int] : SumUp(g, h, UpTo(n, D))}
<1>1. 0 \in T
  <2>1. \A s \in UpTo(0, D) : s = {}
    <3>1. ASSUME NEW s \in UpTo(0, D) PROVE s = {}
      <4>1. s \in SUBSET D /\ Cardinality(s) <= 0 BY DEF UpTo
      <4>2. IsFiniteSet(s) BY <4>1, FS_Subset
      <4>3. Cardinality(s) \in Nat BY <4>2, FS_CardinalityType
      <4>4. Cardinality(s) = 0 BY <4>1, <4>3
      <4> QED BY <4>2, <4>4, FS_EmptySet
    <3> QED BY <3>1
  <2> DEFINE g == [s \in UpTo(0, D) |-> 0]
  <2>2. g = [s \in UpTo(0, D) |-> IF s = {} THEN 0 ELSE h[Picked(s)] + g[s \ {Picked(s)}]]
    BY <2>1
  <2>3. g \in [UpTo(0, D) -> Int] OBVIOUS
  <2>4. SumUp(g, h, UpTo(0, D)) BY <2>2 DEF SumUp
  <2> QED BY <2>3, <2>4
<1>2. \A n \in Nat : n \in T => n + 1 \in T BY SumsExtend
<1>3. Nat \subseteq T
  <2> HIDE DEF T
  <2> QED BY <1>1, <1>2, InductionOnSet
<1>4. Cardinality(D) \in Nat BY FS_CardinalityType
<1>5. UpTo(Cardinality(D), D) = SUBSET D BY FS_Subset DEF UpTo
<1>6. \E g \in [SUBSET D -> Int] : SumUp(g, h, SUBSET D)
  <2>1. Cardinality(D) \in T BY <1>3, <1>4
  <2> QED BY <1>5, <2>1
<1>7. SumUp(SumsOf(h), h, SUBSET D)
  <2>1. DOMAIN h = D OBVIOUS
  <2> QED BY <1>6, <2>1 DEF SumsOf
<1> DEFINE g == SumsOf(h)
           B == {s \in SUBSET D : g[s] \notin Int}
<1>8. \A s \in SUBSET D : g[s] = IF s = {} THEN 0 ELSE h[Picked(s)] + g[s \ {Picked(s)}]
  BY <1>7 DEF SumUp
<1>9. B = {}
  <2> SUFFICES ASSUME B # {} PROVE FALSE OBVIOUS
  <2> HIDE DEF g
  <2>1. B \in SUBSET (SUBSET D) OBVIOUS
  <2>2. PICK s \in B : \A t \in B : Cardinality(s) <= Cardinality(t)
    <3> HIDE DEF B
    <3> QED BY <2>1, SmallestSet
  <2>3. s \in SUBSET D /\ g[s] \notin Int /\ s # {}
    <3>1. s \in SUBSET D /\ g[s] \notin Int OBVIOUS
    <3>2. {} \in SUBSET D OBVIOUS
    <3>3. g[{}] = 0 BY <1>8, <3>2
    <3> QED BY <3>1, <3>3
  <2>4. /\ Picked(s) \in s /\ s \ {Picked(s)} \in SUBSET D
        /\ Cardinality(s \ {Picked(s)}) = Cardinality(s) - 1 /\ Cardinality(s) \in Nat
    BY <2>3, PickedIn
  <2>5. s \ {Picked(s)} \notin B
    <3> HIDE DEF B
    <3> QED BY <2>2, <2>4
  <2>6. g[s \ {Picked(s)}] \in Int BY <2>4, <2>5
  <2>7. h[Picked(s)] \in Int BY <2>3, <2>4
  <2>8. g[s] = h[Picked(s)] + g[s \ {Picked(s)}]
    <3> HIDE DEF B
    <3> QED BY <1>8, <2>3
  <2>9. h[Picked(s)] + g[s \ {Picked(s)}] \in Int BY <2>6, <2>7
  <2> QED BY <2>3, <2>8, <2>9
<1>10. g \in [SUBSET D -> Int]
  <2>1. g = [s \in SUBSET D |-> g[s]] BY <1>7 DEF SumUp
  <2>2. \A s \in SUBSET D : g[s] \in Int BY <1>9
  <2> QED BY <2>1, <2>2
<1> QED BY <1>7, <1>10

\* The sum of nothing is 0.
LEMMA SumOfNone ==
  ASSUME NEW D, IsFiniteSet(D), NEW h \in [D -> Int]
  PROVE  SumsOf(h)[{}] = 0
<1>1. SumUp(SumsOf(h), h, SUBSET D) BY SumsExist
<1>2. {} \in SUBSET D OBVIOUS
<1> QED BY <1>1, <1>2 DEF SumUp

\* A sum does not depend on which element is taken first.
LEMMA SumTakesAny ==
  ASSUME NEW D, IsFiniteSet(D), NEW h \in [D -> Int],
         NEW whole, whole \subseteq D, NEW first \in whole
  PROVE  SumsOf(h)[whole] = h[first] + SumsOf(h)[whole \ {first}]
<1> DEFINE g == SumsOf(h)
           B == {s \in SUBSET D : \E x \in s : g[s] # h[x] + g[s \ {x}]}
<1>1. g \in [SUBSET D -> Int] /\ SumUp(g, h, SUBSET D) BY SumsExist
<1> HIDE DEF g
<1>2. \A s \in SUBSET D : g[s] = IF s = {} THEN 0 ELSE h[Picked(s)] + g[s \ {Picked(s)}]
  BY <1>1 DEF SumUp
<1>3. B = {}
  <2> SUFFICES ASSUME B # {} PROVE FALSE OBVIOUS
  <2>1. B \in SUBSET (SUBSET D) OBVIOUS
  <2>2. PICK s \in B : \A t \in B : Cardinality(s) <= Cardinality(t)
    <3> HIDE DEF B
    <3> QED BY <2>1, SmallestSet
  <2>3. PICK x \in s : s \in SUBSET D /\ g[s] # h[x] + g[s \ {x}] OBVIOUS
  <2> DEFINE y == Picked(s)
  <2>4. /\ y \in s /\ Cardinality(s) \in Nat
        /\ s \ {x} \in SUBSET D /\ Cardinality(s \ {x}) = Cardinality(s) - 1
        /\ s \ {y} \in SUBSET D /\ Cardinality(s \ {y}) = Cardinality(s) - 1
    BY <2>3, PickedIn
  <2>5. g[s] = h[y] + g[s \ {y}] BY <1>2, <2>3
  <2> HIDE DEF y
  <2>6. x # y BY <2>3, <2>5
  <2>7. s \ {x} \notin B /\ s \ {y} \notin B
    <3> HIDE DEF B
    <3> QED BY <2>2, <2>4
  <2>8. x \in s \ {y} /\ y \in s \ {x} BY <2>3, <2>4, <2>6
  <2>9. g[s \ {y}] = h[x] + g[(s \ {y}) \ {x}] BY <2>4, <2>7, <2>8
  <2>10. g[s \ {x}] = h[y] + g[(s \ {x}) \ {y}] BY <2>4, <2>7, <2>8
  <2>11. (s \ {y}) \ {x} = (s \ {x}) \ {y} OBVIOUS
  <2>12. h[x] \in Int /\ h[y] \in Int /\ (s \ {x}) \ {y} \in SUBSET D BY <2>3, <2>4
  <2>13. g[(s \ {x}) \ {y}] \in Int BY <1>1, <2>12
  <2> DEFINE a == h[x]
             b == h[y]
             c == g[(s \ {x}) \ {y}]
  <2>14. a \in Int /\ b \in Int /\ c \in Int BY <2>12, <2>13
  <2>15. g[s] = b + (a + c) BY <2>5, <2>9, <2>11
  <2>16. g[s] # a + (b + c) BY <2>3, <2>10
  <2> HIDE DEF a, b, c, B
  <2> QED BY <2>14, <2>15, <2>16
<1>4. g[whole] = h[first] + g[whole \ {first}] BY <1>3
<1> QED BY <1>4 DEF g

\* Functions to the integers with finitely many arguments, and the sum over some of
\* these.
Summable(h) == IsFiniteSet(DOMAIN h) /\ h \in [DOMAIN h -> Int]
PartOf(h, s) == s \subseteq DOMAIN h
SumOver(h, s) == SumsOf(h)[s]

\* Sums are integers.
LEMMA SumIsInt ==
  ASSUME NEW h, Summable(h), NEW s, PartOf(h, s)
  PROVE  SumOver(h, s) \in Int
<1>1. SumsOf(h) \in [SUBSET (DOMAIN h) -> Int] BY SumsExist DEF Summable
<1> QED BY <1>1 DEF PartOf, SumOver

\* The sum of nothing is 0.
LEMMA SumOfNothing == ASSUME NEW h, Summable(h) PROVE SumOver(h, {}) = 0
BY SumOfNone DEF Summable, SumOver

\* A sum with one more element.
LEMMA SumOfMore ==
  ASSUME NEW h, Summable(h), NEW s, PartOf(h, s), NEW x \in s
  PROVE  SumOver(h, s) = h[x] + SumOver(h, s \ {x})
<1>1. s \subseteq DOMAIN h BY DEF PartOf
<1>2. IsFiniteSet(DOMAIN h) /\ h \in [DOMAIN h -> Int] BY DEF Summable
<1>3. SumsOf(h)[s] = h[x] + SumsOf(h)[s \ {x}] BY <1>1, <1>2, SumTakesAny
<1> QED BY <1>3 DEF SumOver

-----------------------------------------------------------------------------
\* The length of packets that lie one behind the other.

\* The fold that TotalLength is, with its recursion spelt out.
LEMMA TotalIsFold == ASSUME NEW v PROVE TotalLength(v) = SumOver(v, DOMAIN v)
BY DEF TotalLength, FoldSeq, FoldFunction, FoldFunctionOnSet, MapThenFoldSet, Picked, SumUp,
       SumsOf, SumOver

\* The sum of the first elements of a sequence.
Prefix(v, i) == SumOver(v, 1..i)

\* The sum of the first elements grows by the next one.
LEMMA PrefixSums ==
  ASSUME NEW v \in Seq(Int)
  PROVE  /\ Prefix(v, 0) = 0
         /\ \A i \in 0..Len(v) : Prefix(v, i) \in Int
         /\ \A i \in 1..Len(v) : Prefix(v, i) = Prefix(v, i - 1) + v[i]
<1>1. Len(v) \in Nat /\ v \in [1..Len(v) -> Int] /\ DOMAIN v = 1..Len(v)
  BY LenProperties
<1>2. Summable(v)
  <2>1. IsFiniteSet(1..Len(v)) BY <1>1, FS_Interval
  <2> QED BY <1>1, <2>1 DEF Summable
<1>3. \A i \in 0..Len(v) : PartOf(v, 1..i) BY <1>1 DEF PartOf
<1>4. \A i \in 0..Len(v) : Prefix(v, i) \in Int BY <1>2, <1>3, SumIsInt DEF Prefix
<1>5. ASSUME NEW i \in 1..Len(v) PROVE Prefix(v, i) = Prefix(v, i - 1) + v[i]
  <2>1. i \in 1..i /\ (1..i) \ {i} = 1 .. i - 1 /\ i \in 0..Len(v) /\ i - 1 \in 0..Len(v)
    BY <1>1
  <2>2. PartOf(v, 1..i) BY <1>3, <2>1
  <2>3. SumOver(v, 1..i) = v[i] + SumOver(v, (1..i) \ {i}) BY <1>2, <2>1, <2>2, SumOfMore
  <2>4. Prefix(v, i) = v[i] + Prefix(v, i - 1) BY <2>1, <2>3, Zenon DEF Prefix
  <2>5. v[i] \in Int /\ Prefix(v, i - 1) \in Int BY <1>1, <1>4, <2>1
  <2> QED BY <2>4, <2>5
<1>6. Prefix(v, 0) = 0
  <2>1. 1..0 = {} OBVIOUS
  <2> QED BY <1>2, <2>1, SumOfNothing DEF Prefix
<1> QED BY <1>4, <1>5, <1>6

\* The total of a sequence that another one begins with.
LEMMA TotalIsPrefix ==
  ASSUME NEW v \in Seq(Int), NEW w \in Seq(Int), Len(w) <= Len(v),
         \A i \in 1..Len(w) : w[i] = v[i]
  PROVE  TotalLength(w) = Prefix(v, Len(w))
<1>1. Len(v) \in Nat /\ Len(w) \in Nat /\ DOMAIN w = 1..Len(w) BY LenProperties
<1>2. TotalLength(w) = Prefix(w, Len(w)) BY <1>1, TotalIsFold DEF Prefix
<1> DEFINE T == {n \in Nat : n <= Len(w) => Prefix(w, n) = Prefix(v, n)}
<1>3. /\ Prefix(v, 0) = 0
      /\ \A i \in 1..Len(v) : Prefix(v, i) = Prefix(v, i - 1) + v[i]
  BY PrefixSums
<1>4. /\ Prefix(w, 0) = 0
      /\ \A i \in 1..Len(w) : Prefix(w, i) = Prefix(w, i - 1) + w[i]
  BY PrefixSums
<1>5. 0 \in T BY <1>3, <1>4
<1>6. ASSUME NEW n \in Nat, n \in T PROVE n + 1 \in T
  <2> SUFFICES ASSUME n + 1 <= Len(w) PROVE Prefix(w, n + 1) = Prefix(v, n + 1) OBVIOUS
  <2>1. n + 1 \in 1..Len(w) /\ n + 1 \in 1..Len(v) /\ (n + 1) - 1 = n /\ n <= Len(w) BY <1>1
  <2>2. Prefix(w, n + 1) = Prefix(w, n) + w[n + 1] BY <1>4, <2>1
  <2>3. Prefix(v, n + 1) = Prefix(v, n) + v[n + 1] BY <1>3, <2>1
  <2>4. Prefix(w, n) = Prefix(v, n) BY <1>6, <2>1
  <2> QED BY <2>1, <2>2, <2>3, <2>4
<1>7. Nat \subseteq T
  <2> HIDE DEF T
  <2> QED BY <1>5, <1>6, InductionOnSet
<1>8. Len(w) \in T /\ Len(w) <= Len(w) BY <1>1, <1>7
<1> QED BY <1>2, <1>8

\* Packets follow one another: the first starts at 0, and each of the others behind
\* the one before it; all of them end where one more would start.
LEMMA Starts ==
  ASSUME NEW v \in Seq(Int)
  PROVE  /\ Start(v, 1) = 0
         /\ \A i \in 1 .. Len(v) + 1 : Start(v, i) \in Int
         /\ \A i \in 1..Len(v) : Start(v, i + 1) = Start(v, i) + v[i]
         /\ TotalLength(v) = Start(v, Len(v) + 1)
<1>1. Len(v) \in Nat /\ \A i \in 1..Len(v) : v[i] \in Int BY LenProperties, ElementOfSeq
<1>2. ASSUME NEW i \in 1 .. Len(v) + 1 PROVE Start(v, i) = Prefix(v, i - 1)
  <2> DEFINE w == SubSeq(v, 1, i - 1)
  <2>1. i - 1 \in Nat /\ i - 1 <= Len(v) BY <1>1
  <2>2. /\ w \in Seq(Int) /\ Len(w) = i - 1
        /\ \A j \in 1 .. i - 1 : w[j] = v[j]
    <3>1. /\ w \in Seq(Int)
          /\ Len(w) = IF 1 <= i - 1 THEN (i - 1) - 1 + 1 ELSE 0
          /\ \A j \in 1 .. (i - 1) - 1 + 1 : w[j] = v[1 + j - 1]
      <4>1. \A j \in 1 .. i - 1 : v[j] \in Int BY <1>1, <2>1
      <4>2. i - 1 \in Int BY <2>1
      <4> QED BY <4>1, <4>2, SubSeqProperties
    <3> QED BY <2>1, <3>1
  <2> HIDE DEF w
  <2>3. TotalLength(w) = Prefix(v, Len(w)) BY <2>1, <2>2, TotalIsPrefix
  <2> QED BY <2>2, <2>3 DEF w, Start
<1>3. /\ Prefix(v, 0) = 0
      /\ \A i \in 0..Len(v) : Prefix(v, i) \in Int
      /\ \A i \in 1..Len(v) : Prefix(v, i) = Prefix(v, i - 1) + v[i]
  BY PrefixSums
<1>4. Start(v, 1) = 0
  <2>1. 1 \in 1 .. Len(v) + 1 /\ 1 - 1 = 0 BY <1>1
  <2> QED BY <1>2, <1>3, <2>1
<1>5. \A i \in 1 .. Len(v) + 1 : Start(v, i) \in Int BY <1>1, <1>2, <1>3
<1>6. ASSUME NEW i \in 1..Len(v) PROVE Start(v, i + 1) = Start(v, i) + v[i]
  <2>1. i \in 1 .. Len(v) + 1 /\ i + 1 \in 1 .. Len(v) + 1 /\ (i + 1) - 1 = i BY <1>1
  <2>2. Start(v, i + 1) = Prefix(v, i) /\ Start(v, i) = Prefix(v, i - 1) BY <1>2, <2>1
  <2> QED BY <1>3, <2>2
<1>7. TotalLength(v) = Start(v, Len(v) + 1)
  <2>1. TotalLength(v) = Prefix(v, Len(v)) BY <1>1, TotalIsPrefix
  <2>2. Len(v) + 1 \in 1 .. Len(v) + 1 /\ (Len(v) + 1) - 1 = Len(v) BY <1>1
  <2> QED BY <1>2, <2>1, <2>2
<1> QED BY <1>4, <1>5, <1>6, <1>7

-----------------------------------------------------------------------------
\* Sequences joined.

\* What FlattenSeq computes: f[i] is the first i of some sequences, joined.
JoinsUp(f, s, n) == f = [i \in 1..n |-> IF i = 1 THEN s[i] ELSE f[i - 1] \o s[i]]

JoinsOf(s) == CHOOSE f : JoinsUp(f, s, Len(s))

LEMMA FlattenIsJoin == ASSUME NEW s, Len(s) # 0 PROVE FlattenSeq(s) = JoinsOf(s)[Len(s)]
BY DEF FlattenSeq, JoinsOf, JoinsUp

\* The sequences can be joined one after the other.
LEMMA JoinsExtend ==
  ASSUME NEW s, NEW n \in Nat, NEW f, JoinsUp(f, s, n)
  PROVE  \E g : JoinsUp(g, s, n + 1)
<1> DEFINE g == [i \in 1 .. n + 1 |->
                   IF i \in 1..n THEN f[i] ELSE IF i = 1 THEN s[i] ELSE f[i - 1] \o s[i]]
           e == [i \in 1 .. n + 1 |-> IF i = 1 THEN s[i] ELSE g[i - 1] \o s[i]]
<1>1. \A i \in 1..n : f[i] = IF i = 1 THEN s[i] ELSE f[i - 1] \o s[i] BY DEF JoinsUp
<1>2. \A i \in 1..n : i \in 1 .. n + 1 OBVIOUS
<1>3. \A i \in 1..n : g[i] = f[i] BY <1>2
<1>4. \A i \in 1 .. n + 1 : g[i] = IF i = 1 THEN s[i] ELSE f[i - 1] \o s[i]
  <2> SUFFICES ASSUME NEW i \in 1 .. n + 1
               PROVE  g[i] = IF i = 1 THEN s[i] ELSE f[i - 1] \o s[i]
    OBVIOUS
  <2>1. CASE i \in 1..n BY <1>1, <1>3, <2>1
  <2>2. CASE i \notin 1..n BY <2>2
  <2> QED BY <2>1, <2>2
<1>5. \A i \in 1 .. n + 1 : i # 1 => i - 1 \in 1..n OBVIOUS
<1>6. \A i \in 1 .. n + 1 : e[i] = g[i]
  <2> SUFFICES ASSUME NEW i \in 1 .. n + 1 PROVE e[i] = g[i] OBVIOUS
  <2>1. e[i] = IF i = 1 THEN s[i] ELSE g[i - 1] \o s[i] OBVIOUS
  <2>2. g[i] = IF i = 1 THEN s[i] ELSE f[i - 1] \o s[i] BY <1>4
  <2>3. i # 1 => g[i - 1] = f[i - 1] BY <1>3, <1>5
  <2> HIDE DEF e, g
  <2> QED BY <2>1, <2>2, <2>3
<1>7. /\ DOMAIN e = 1 .. n + 1 /\ DOMAIN g = 1 .. n + 1
      /\ e = [i \in DOMAIN e |-> e[i]] /\ g = [i \in DOMAIN g |-> g[i]]
  OBVIOUS
<1>8. e = g
  <2> HIDE DEF e, g
  <2> QED BY <1>6, <1>7
<1>9. JoinsUp(g, s, n + 1) BY <1>8 DEF e, JoinsUp
<1> QED BY <1>9

LEMMA JoinsExist == ASSUME NEW s, NEW n \in Nat, n = Len(s) PROVE JoinsUp(JoinsOf(s), s, n)
<1> DEFINE T == {m \in Nat : \E f : JoinsUp(f, s, m)}
<1>1. 0 \in T
  <2> DEFINE f == [i \in 1..0 |-> s]
             e == [i \in 1..0 |-> IF i = 1 THEN s[i] ELSE f[i - 1] \o s[i]]
  <2>1. 1..0 = {} OBVIOUS
  <2>2. e = f BY <2>1
  <2>3. JoinsUp(f, s, 0) BY <2>2 DEF JoinsUp
  <2> QED BY <2>3
<1>2. \A m \in Nat : m \in T => m + 1 \in T BY JoinsExtend
<1>3. Nat \subseteq T
  <2> HIDE DEF T
  <2> QED BY <1>1, <1>2, InductionOnSet
<1>4. \E f : JoinsUp(f, s, n)
  <2>1. n \in T BY <1>3
  <2> QED BY <2>1
<1> QED BY <1>4 DEF JoinsOf

\* Does the join of the first i sequences hold them all, each where the lengths of
\* those before it say?
JoinHolds(f, s, v, i) ==
  /\ Len(f[i]) = Start(v, i + 1)
  /\ \A j \in 1..i : \A d \in 1..v[j] : f[i][Start(v, j) + d] = s[j][d]

\* One more sequence behind some.
LEMMA JoinOne ==
  ASSUME NEW B, NEW x \in Seq(B), NEW y \in Seq(B)
  PROVE  /\ x \o y \in Seq(B) /\ Len(x \o y) = Len(x) + Len(y)
         /\ \A k \in 1..Len(x) : (x \o y)[k] = x[k]
         /\ \A k \in 1..Len(y) : (x \o y)[Len(x) + k] = y[k]
<1>1. Len(x) \in Nat /\ Len(y) \in Nat BY LenProperties
<1>2. /\ x \o y \in Seq(B) /\ Len(x \o y) = Len(x) + Len(y)
      /\ \A k \in 1 .. Len(x) + Len(y) :
           (x \o y)[k] = IF k <= Len(x) THEN x[k] ELSE y[k - Len(x)]
  BY ConcatProperties
<1>3. \A k \in 1..Len(x) : k \in 1 .. Len(x) + Len(y) /\ k <= Len(x) BY <1>1
<1>4. ASSUME NEW k \in 1..Len(y) PROVE (x \o y)[Len(x) + k] = y[k]
  <2>1. PICK m : m = Len(x) + k OBVIOUS
  <2>2. m \in 1 .. Len(x) + Len(y) /\ ~(m <= Len(x)) /\ m - Len(x) = k BY <1>1, <2>1
  <2>3. (x \o y)[m] = y[k] BY <1>2, <2>2
  <2> QED BY <2>1, <2>3
<1> QED BY <1>2, <1>3, <1>4

\* What starts later does not start before.
LEMMA StartsRise ==
  ASSUME NEW v \in Seq(Int), \A i \in 1..Len(v) : v[i] >= 0,
         NEW i \in 1 .. Len(v) + 1, NEW j \in 1 .. Len(v) + 1, i <= j
  PROVE  Start(v, i) <= Start(v, j) /\ Start(v, i) >= 0
<1>1. Len(v) \in Nat /\ \A k \in 1..Len(v) : v[k] \in Int BY LenProperties, ElementOfSeq
<1>2. /\ Start(v, 1) = 0
      /\ \A k \in 1 .. Len(v) + 1 : Start(v, k) \in Int
      /\ \A k \in 1..Len(v) : Start(v, k + 1) = Start(v, k) + v[k]
  BY Starts
<1>3. ASSUME NEW a \in 1 .. Len(v) + 1, NEW b \in 1 .. Len(v) + 1, a <= b
      PROVE  Start(v, a) <= Start(v, b)
  <2> DEFINE T == {n \in Nat : a + n <= Len(v) + 1 => Start(v, a) <= Start(v, a + n)}
  <2>1. 0 \in T
    <3>1. a + 0 = a /\ Start(v, a) \in Int BY <1>2
    <3> QED BY <3>1
  <2>2. ASSUME NEW n \in Nat, n \in T PROVE n + 1 \in T
    <3> SUFFICES ASSUME a + (n + 1) <= Len(v) + 1 PROVE Start(v, a) <= Start(v, a + (n + 1))
      OBVIOUS
    <3>1. PICK k : k = a + n OBVIOUS
    <3>2. k \in 1..Len(v) /\ k \in 1 .. Len(v) + 1 /\ a + (n + 1) = k + 1 /\ k <= Len(v) + 1
      BY <1>1, <3>1
    <3>3. Start(v, a) <= Start(v, k) BY <2>2, <3>1, <3>2
    <3>4. Start(v, k + 1) = Start(v, k) + v[k] /\ v[k] >= 0 /\ v[k] \in Int
      BY <1>1, <1>2, <3>2
    <3>5. Start(v, a) \in Int /\ Start(v, k) \in Int BY <1>2, <3>2
    <3>6. Start(v, a) <= Start(v, k + 1) BY <3>3, <3>4, <3>5, SMTT(20)
    <3> QED BY <3>2, <3>6
  <2>3. Nat \subseteq T
    <3> HIDE DEF T
    <3> QED BY <2>1, <2>2, InductionOnSet
  <2>4. b - a \in Nat /\ a + (b - a) = b /\ b <= Len(v) + 1 BY <1>1, <1>3
  <2>5. b - a \in T BY <2>3, <2>4
  <2> QED BY <2>4, <2>5
<1>4. 1 \in 1 .. Len(v) + 1 /\ 1 <= i BY <1>1
<1>5. Start(v, 1) <= Start(v, i) BY <1>3, <1>4
<1> QED BY <1>2, <1>3, <1>5

\* A position within some packets lies in one of them.
LEMMA InOneOf ==
  ASSUME NEW v \in Seq(Int), \A i \in 1..Len(v) : v[i] >= 0,
         NEW n \in Nat, n < TotalLength(v)
  PROVE  \E i \in 1..Len(v) : Start(v, i) <= n /\ n < Start(v, i + 1)
<1>1. Len(v) \in Nat BY LenProperties
<1>2. /\ Start(v, 1) = 0 /\ TotalLength(v) = Start(v, Len(v) + 1)
      /\ \A k \in 1 .. Len(v) + 1 : Start(v, k) \in Int
  BY Starts
<1> DEFINE T == {i \in 1..Len(v) : n < Start(v, i + 1)}
<1>3. T \in SUBSET Nat /\ T # {}
  <2>1. Len(v) # 0
    <3> SUFFICES ASSUME Len(v) = 0 PROVE FALSE OBVIOUS
    <3>1. TotalLength(v) = 0 BY <1>2
    <3> QED BY <3>1
  <2>2. Len(v) \in T BY <1>1, <1>2, <2>1
  <2> QED BY <1>1, <2>2
<1>4. PICK i \in T : \A j \in T : i <= j
  <2> HIDE DEF T
  <2> QED BY <1>3, LeastNumber
<1>5. Start(v, i) <= n
  <2>1. CASE i = 1 BY <1>2, <2>1
  <2>2. CASE i # 1
    <3>1. PICK j : j = i - 1 OBVIOUS
    <3>2. j \in 1..Len(v) /\ j + 1 = i /\ ~(i <= j) BY <1>1, <2>2, <3>1
    <3>3. j \notin T BY <1>4, <3>2
    <3>4. ~(n < Start(v, i)) BY <3>2, <3>3
    <3>5. Start(v, i) \in Int BY <1>1, <1>2
    <3> QED BY <3>4, <3>5
  <2> QED BY <2>1, <2>2
<1> QED BY <1>5

\* The first i sequences joined hold them all, and so does the join of all.
LEMMA JoinsHold ==
  ASSUME NEW B, NEW s \in Seq(Seq(B)), Len(s) > 0, NEW v \in Seq(Int), Len(v) = Len(s),
         \A i \in 1..Len(s) : Len(s[i]) = v[i]
  PROVE  /\ FlattenSeq(s) \in Seq(B) /\ Len(FlattenSeq(s)) = TotalLength(v)
         /\ \A j \in 1..Len(s) : \A d \in 1..v[j] : FlattenSeq(s)[Start(v, j) + d] = s[j][d]
<1> DEFINE f == JoinsOf(s)
<1>1. Len(s) \in Nat /\ \A i \in 1..Len(s) : s[i] \in Seq(B) /\ v[i] \in Nat
  <2>1. Len(s) \in Nat /\ \A i \in 1..Len(s) : s[i] \in Seq(B) BY LenProperties, ElementOfSeq
  <2> QED BY <2>1, LenProperties
<1>2. \A i \in 1..Len(s) : f[i] = IF i = 1 THEN s[i] ELSE f[i - 1] \o s[i]
  <2>1. JoinsUp(f, s, Len(s)) BY <1>1, JoinsExist
  <2> HIDE DEF f
  <2> QED BY <2>1 DEF JoinsUp
<1>3. FlattenSeq(s) = f[Len(s)] BY <1>1, FlattenIsJoin
<1> HIDE DEF f
<1>4. /\ Start(v, 1) = 0 /\ TotalLength(v) = Start(v, Len(v) + 1)
      /\ \A k \in 1 .. Len(v) + 1 : Start(v, k) \in Int
      /\ \A k \in 1..Len(v) : Start(v, k + 1) = Start(v, k) + v[k]
  BY Starts
<1>5. \A k \in 1..Len(v) : v[k] >= 0 BY <1>1
<1> DEFINE T == {n \in Nat : n + 1 <= Len(s) => f[n + 1] \in Seq(B) /\ JoinHolds(f, s, v, n + 1)}
<1>6. 0 \in T
  <2>1. 0 + 1 = 1 /\ 1 \in 1..Len(s) /\ 1 + 1 = 2 BY <1>1
  <2>2. f[1] = s[1] BY <1>2, <2>1
  <2>3. Start(v, 2) = v[1]
    <3>1. Start(v, 1 + 1) = Start(v, 1) + v[1] BY <1>4, <2>1
    <3> QED BY <1>1, <1>4, <2>1, <3>1
  <2>4. JoinHolds(f, s, v, 1)
    <3>1. Len(f[1]) = Start(v, 1 + 1) BY <2>1, <2>2, <2>3
    <3>2. ASSUME NEW j \in 1..1, NEW d \in 1..v[j] PROVE f[1][Start(v, j) + d] = s[j][d]
      <4>1. j = 1 OBVIOUS
      <4>2. Start(v, j) + d = d BY <1>4, <4>1
      <4> QED BY <2>2, <4>1, <4>2
    <3> QED BY <3>1, <3>2 DEF JoinHolds
  <2>5. f[1] \in Seq(B) BY <1>1, <2>1, <2>2
  <2> QED BY <2>1, <2>4, <2>5
<1>7. ASSUME NEW n \in Nat, n \in T PROVE n + 1 \in T
  <2> SUFFICES ASSUME (n + 1) + 1 <= Len(s)
               PROVE  f[(n + 1) + 1] \in Seq(B) /\ JoinHolds(f, s, v, (n + 1) + 1)
    OBVIOUS
  <2>1. PICK m : m = n + 1 OBVIOUS
  <2>2. PICK i : i = m + 1 OBVIOUS
  <2>3. /\ m \in 1..Len(s) /\ i \in 1..Len(s) /\ i # 1 /\ i - 1 = m
        /\ m \in 1..Len(v) /\ i \in 1..Len(v)
    BY <1>1, <2>1, <2>2
  <2>4. f[m] \in Seq(B) /\ JoinHolds(f, s, v, m) BY <1>1, <1>7, <2>1, <2>3
  <2>5. f[i] = f[m] \o s[i] BY <1>2, <2>3
  <2>6. s[i] \in Seq(B) BY <1>1, <2>3
  <2>7. /\ f[i] \in Seq(B) /\ Len(f[i]) = Len(f[m]) + Len(s[i])
        /\ \A k \in 1..Len(f[m]) : f[i][k] = f[m][k]
        /\ \A k \in 1..Len(s[i]) : f[i][Len(f[m]) + k] = s[i][k]
    <3>1. PICK x \in Seq(B) : x = f[m] BY <2>4
    <3>2. PICK y \in Seq(B) : y = s[i] BY <2>6
    <3>3. /\ x \o y \in Seq(B) /\ Len(x \o y) = Len(x) + Len(y)
          /\ \A k \in 1..Len(x) : (x \o y)[k] = x[k]
          /\ \A k \in 1..Len(y) : (x \o y)[Len(x) + k] = y[k]
      BY JoinOne
    <3>4. f[i] = x \o y BY <2>5, <3>1, <3>2
    <3> QED BY <3>1, <3>2, <3>3, <3>4, Zenon
  <2>8. Len(f[m]) = Start(v, i) /\ Len(s[i]) = v[i] /\ Start(v, i + 1) = Start(v, i) + v[i]
    BY <1>4, <2>2, <2>3, <2>4 DEF JoinHolds
  <2>9. Len(f[i]) = Start(v, i + 1) BY <2>7, <2>8
  <2>10. ASSUME NEW j \in 1..i, NEW d \in 1..v[j] PROVE f[i][Start(v, j) + d] = s[j][d]
    <3>1. CASE j = i BY <2>7, <2>8, <3>1
    <3>2. CASE j # i
      <4>1. j \in 1..m /\ j \in 1..Len(v) /\ j + 1 \in 1 .. Len(v) + 1
            /\ i \in 1 .. Len(v) + 1 /\ j \in 1 .. Len(v) + 1 /\ j + 1 <= i
        BY <1>1, <2>2, <2>3, <3>2, SMTT(20)
      <4>2. f[m][Start(v, j) + d] = s[j][d] BY <2>4, <4>1 DEF JoinHolds
      <4>3. Start(v, j + 1) = Start(v, j) + v[j] BY <1>4, <4>1
      <4>4. Start(v, j + 1) <= Start(v, i) /\ Start(v, j) >= 0
        <5>1. PICK k \in 1 .. Len(v) + 1 : k = j + 1 BY <4>1
        <5>2. k <= i BY <4>1, <5>1
        <5>3. Start(v, k) <= Start(v, i) BY <1>5, <4>1, <5>2, StartsRise
        <5>4. j <= i BY <4>1
        <5>5. Start(v, j) >= 0 BY <1>5, <4>1, <5>4, StartsRise
        <5> QED BY <5>1, <5>3, <5>5
      <4>5. Start(v, j) \in Int /\ Start(v, i) \in Int /\ v[j] \in Nat BY <1>1, <1>4, <2>3, <4>1
      <4>6. Start(v, j) + d \in 1..Len(f[m])
        <5>1. PICK a \in Int : a = Start(v, j) BY <4>5
        <5>2. PICK b \in Int : b = Start(v, i) /\ b = Len(f[m]) BY <2>8, <4>5
        <5>3. PICK e \in Nat : e = v[j] BY <4>5
        <5>4. a >= 0 /\ a + e <= b BY <4>3, <4>4, <5>1, <5>2, <5>3, Zenon
        <5>5. d \in 1..e BY <5>3
        <5>6. a + d \in 1..b BY <5>4, <5>5
        <5> QED BY <5>1, <5>2, <5>6
      <4> QED BY <2>7, <4>2, <4>6
    <3> QED BY <3>1, <3>2
  <2>11. JoinHolds(f, s, v, i) BY <2>9, <2>10 DEF JoinHolds
  <2> QED BY <2>1, <2>2, <2>7, <2>11
<1>8. Nat \subseteq T
  <2> HIDE DEF T
  <2> QED BY <1>6, <1>7, InductionOnSet
<1>9. f[Len(s)] \in Seq(B) /\ JoinHolds(f, s, v, Len(s))
  <2>1. PICK n : n = Len(s) - 1 OBVIOUS
  <2>2. n \in Nat /\ n + 1 = Len(s) BY <1>1, <2>1
  <2>3. n \in T BY <1>8, <2>2
  <2> QED BY <1>1, <2>2, <2>3
<1>10. Len(f[Len(s)]) = TotalLength(v)
  <2>1. Len(f[Len(s)]) = Start(v, Len(s) + 1) BY <1>9 DEF JoinHolds
  <2> QED BY <1>4, <2>1
<1>11. \A j \in 1..Len(s) : \A d \in 1..v[j] : f[Len(s)][Start(v, j) + d] = s[j][d]
  BY <1>9 DEF JoinHolds
<1> QED BY <1>3, <1>9, <1>10, <1>11
=============================================================================
