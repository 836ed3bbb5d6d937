--------------------------- MODULE SequenceLemmas ---------------------------
(***************************************************************************)
(* What the proofs about the components need to know of naturals and of    *)
(* the operators on sequences the models are written with.                 *)
(***************************************************************************)
EXTENDS SequencesExt, FiniteSetTheorems, SequenceTheorems, TLAPS

(***************************************************************************)
(* A set of naturals has a least element.  It is found among the finite    *)
(* sets 1 .. n, which proper inclusion orders well.  Proofs that go along  *)
(* a sequence use it: the least place at which a claim fails is            *)
(* contradicted by the place before it.                                    *)
(***************************************************************************)
LEMMA LeastNat ==
  ASSUME NEW T, T \subseteq Nat, T # {}
  PROVE  \E x \in T : \A y \in T : x <= y
  <1> DEFINE Below == {1 .. n : n \in T}
  <1>1. Below \subseteq FiniteSubsetsOf(Nat) /\ Below # {}
    <2>1. ASSUME NEW n \in T PROVE 1 .. n \in FiniteSubsetsOf(Nat)
      <3>1. IsFiniteSet(1 .. n)
        BY FS_Interval
      <3> QED
        BY <3>1 DEF FiniteSubsetsOf
    <2> QED
      BY <2>1
  <1>2. PICK B \in Below : \A C \in Below : <<C, B>> \notin StrictSubsetOrdering(Nat)
    BY <1>1, FS_StrictSubsetOrderingWellFounded, WFMin
  <1>3. PICK x \in T : B = 1 .. x
    BY <1>2
  <1>4. ASSUME NEW y \in T, ~(x <= y) PROVE FALSE
    <2>1. (1 .. y) \subseteq (1 .. x) /\ 1 .. y # 1 .. x
      <3>1. x \in 1 .. x /\ x \notin 1 .. y
        BY <1>4
      <3> QED
        BY <1>4, <3>1
    <2>2. 1 .. y \in SUBSET Nat /\ 1 .. x \in SUBSET Nat
      OBVIOUS
    <2>3. <<1 .. y, 1 .. x>> \in StrictSubsetOrdering(Nat)
      BY <2>1, <2>2 DEF StrictSubsetOrdering
    <2> QED
      BY <1>2, <1>3, <2>3
  <1> QED
    BY <1>4

-----------------------------------------------------------------------------
Elements(s) == {s[i] : i \in 1 .. Len(s)}

LEMMA ElementsConcat ==
  ASSUME NEW S, NEW a \in Seq(S), NEW b \in Seq(S)
  PROVE  a \o b \in Seq(S) /\ Elements(a \o b) = Elements(a) \cup Elements(b)
  <1>1. /\ a \o b \in Seq(S) /\ Len(a \o b) = Len(a) + Len(b)
        /\ \A i \in 1 .. Len(a) + Len(b) : (a \o b)[i] = IF i <= Len(a) THEN a[i]
                                                        ELSE b[i - Len(a)]
    OBVIOUS
  <1>2. Len(a) \in Nat /\ Len(b) \in Nat
    OBVIOUS
  <1> DEFINE c == a \o b
  <1> HIDE DEF c
  <1>3. ASSUME NEW i \in 1 .. Len(c) PROVE c[i] \in Elements(a) \cup Elements(b)
    <2>1. CASE i <= Len(a)
      BY <1>1, <1>2, <2>1 DEF Elements, c
    <2>2. CASE ~(i <= Len(a))
      <3>1. i - Len(a) \in 1 .. Len(b) /\ c[i] = b[i - Len(a)]
        BY <1>1, <1>2, <2>2 DEF c
      <3> QED
        BY <3>1 DEF Elements
    <2> QED
      BY <2>1, <2>2
  <1>4. ASSUME NEW i \in 1 .. Len(a) PROVE a[i] \in Elements(c)
    <2>1. i \in 1 .. Len(c) /\ c[i] = a[i]
      BY <1>1, <1>2 DEF c
    <2> QED
      BY <2>1 DEF Elements
  <1>5. ASSUME NEW i \in 1 .. Len(b) PROVE b[i] \in Elements(c)
    <2>1. i + Len(a) \in 1 .. Len(c) /\ c[i + Len(a)] = b[i]
      BY <1>1, <1>2 DEF c
    <2> QED
      BY <2>1 DEF Elements
  <1>6. Elements(c) = Elements(a) \cup Elements(b)
    BY <1>3, <1>4, <1>5 DEF Elements
  <1> QED
    BY <1>1, <1>6 DEF c

(***************************************************************************)
(* FlattenSeq is what its recursive definition describes, and loses and    *)
(* adds no element.                                                        *)
(***************************************************************************)
LEMMA FlattenDef ==
  ASSUME NEW S, NEW q \in Seq(Seq(S)), Len(q) # 0
  PROVE  \E g : /\ g = [i \in 1 .. Len(q) |-> IF i = 1 THEN q[i] ELSE g[i - 1] \o q[i]]
                /\ FlattenSeq(q) = g[Len(q)]
  <1> DEFINE Joins(g, k) == g = [i \in 1 .. k |-> IF i = 1 THEN q[i] ELSE g[i - 1] \o q[i]]
             T == {k \in Nat : ~\E g : Joins(g, k)}
  <1>1. ASSUME T # {} PROVE FALSE
    <2>1. PICK k \in T : \A y \in T : k <= y
      <3> HIDE DEF Joins
      <3> QED
        BY <1>1, LeastNat
    <2>2. CASE k = 0
      <3>1. Joins([i \in 1 .. 0 |-> << >>], 0)
        OBVIOUS
      <3> QED
        BY <2>1, <2>2, <3>1
    <2>3. CASE k # 0
      <3>0. k \in Nat
        OBVIOUS
      <3>1. k - 1 \in Nat /\ ~(k <= k - 1)
        BY <2>3, <3>0
      <3>2. PICK g : Joins(g, k - 1)
        <4>1. k - 1 \notin T
          <5> HIDE DEF Joins
          <5> QED
            BY <2>1, <3>1
        <4> QED
          BY <3>1, <4>1
      <3> DEFINE last == IF k = 1 THEN q[k] ELSE g[k - 1] \o q[k]
                 h == [i \in 1 .. k |-> IF i = k THEN last ELSE g[i]]
      <3>3. ASSUME NEW i \in 1 .. k
            PROVE  h[i] = IF i = 1 THEN q[i] ELSE h[i - 1] \o q[i]
        <4>1. CASE i = k
          <5>1. i # 1 => i - 1 \in 1 .. k /\ i - 1 # k
            BY <3>0, <4>1
          <5> QED
            BY <4>1, <5>1
        <4>2. CASE i # k
          <5>1. /\ i \in 1 .. (k - 1) /\ h[i] = g[i]
                /\ i # 1 => i - 1 \in 1 .. k /\ i - 1 # k
            BY <3>0, <4>2
          <5> QED
            BY <3>2, <5>1
        <4> QED
          BY <4>1, <4>2
      <3>4. Joins(h, k)
        BY <3>3
      <3> QED
        BY <3>4
    <2> QED
      BY <2>2, <2>3
  <1>2. PICK g : Joins(g, Len(q))
    <2>1. Len(q) \in Nat
      OBVIOUS
    <2> QED
      BY <1>1, <2>1
  <1> QED
    BY <1>2 DEF FlattenSeq

LEMMA FlattenElements ==
  ASSUME NEW S, NEW q \in Seq(Seq(S))
  PROVE  /\ FlattenSeq(q) \in Seq(S)
         /\ Elements(FlattenSeq(q)) = UNION {Elements(q[i]) : i \in 1 .. Len(q)}
  <1>1. CASE Len(q) = 0
    <2>1. FlattenSeq(q) = << >>
      BY <1>1 DEF FlattenSeq
    <2>2. << >> \in Seq(S) /\ 1 .. Len(<< >>) = {} /\ 1 .. Len(q) = {}
      BY <1>1
    <2> QED
      BY <2>1, <2>2 DEF Elements
  <1>2. CASE Len(q) # 0
    <2>1. PICK g : /\ g = [i \in 1 .. Len(q) |-> IF i = 1 THEN q[i] ELSE g[i - 1] \o q[i]]
                   /\ FlattenSeq(q) = g[Len(q)]
      BY <1>2, FlattenDef
    <2> DEFINE Upto(k) == UNION {Elements(q[i]) : i \in 1 .. k}
               Good(k) == g[k] \in Seq(S) /\ Elements(g[k]) = Upto(k)
               T == {k \in Nat : k >= 1 /\ k <= Len(q) /\ ~Good(k)}
    <2>2. ASSUME T # {} PROVE FALSE
      <3>1. PICK k \in T : \A y \in T : k <= y
        <4> HIDE DEF Good
        <4> QED
          BY <2>2, LeastNat
      <3>2. k \in 1 .. Len(q) /\ q[k] \in Seq(S)
        BY <3>1
      <3>3. CASE k = 1
        <4>1. g[1] = q[1]
          BY <2>1, <3>2, <3>3
        <4>2. Upto(1) = Elements(q[1])
          OBVIOUS
        <4> QED
          BY <3>1, <3>2, <3>3, <4>1, <4>2
      <3>4. CASE k # 1
        <4>1. k - 1 \in Nat /\ k - 1 >= 1 /\ k - 1 <= Len(q)
          BY <3>1, <3>4
        <4>2. Good(k - 1)
          <5> HIDE DEF Good
          <5> QED
            BY <3>1, <4>1
        <4>3. g[k] = g[k - 1] \o q[k]
          BY <2>1, <3>2, <3>4
        <4>4. g[k] \in Seq(S) /\ Elements(g[k]) = Elements(g[k - 1]) \cup Elements(q[k])
          BY <3>2, <4>2, <4>3, ElementsConcat
        <4>5. 1 .. k = (1 .. (k - 1)) \cup {k}
          BY <4>1
        <4>6. Upto(k) = Upto(k - 1) \cup Elements(q[k])
          BY <4>5
        <4> QED
          BY <3>1, <4>2, <4>4, <4>6
      <3> QED
        BY <3>3, <3>4
    <2>3. Good(Len(q))
      <3>1. Len(q) \in Nat /\ Len(q) >= 1
        BY <1>2
      <3> HIDE DEF Good
      <3> QED
        BY <2>2, <3>1
    <2> QED
      BY <2>1, <2>3
  <1> QED
    BY <1>1, <1>2

(***************************************************************************)
(* The orders in which a finite set can be walked.                         *)
(***************************************************************************)
LEMMA WalkElements ==
  ASSUME NEW S, IsFiniteSet(S), NEW f \in SetToSeqs(S)
  PROVE  f \in Seq(S) /\ Elements(f) = S
  <1> DEFINE D == 1 .. Cardinality(S)
  <1>1. Cardinality(S) \in Nat
    BY FS_CardinalityType
  <1>2. f \in [D -> S] /\ \A i, j \in D : i # j => f[i] # f[j]
    BY DEF SetToSeqs
  <1>3. f \in Seq(S) /\ Len(f) = Cardinality(S)
    BY <1>1, <1>2
  <1>4. f \in Injection(D, S)
    BY <1>2 DEF Injection, IsInjective
  <1>5. Cardinality(D) = Cardinality(S)
    BY <1>1, FS_Interval
  <1>6. f \in Surjection(D, S)
    BY <1>4, <1>5, FS_Injection
  <1> QED
    BY <1>3, <1>6 DEF Surjection, Elements

-----------------------------------------------------------------------------
(***************************************************************************)
(* Sums over finite sets.  Picked is the element the library's fold takes  *)
(* from a set first; the laws below show that it does not matter.          *)
(***************************************************************************)
Picked(s) == CHOOSE x \in s : TRUE

Sums(h, g, D) ==
  h = [s \in D |-> IF s = {} THEN 0 ELSE g[Picked(s)] + h[s \ {Picked(s)}]]

SameSum(d, h, S) == d[S] = h[S]

Splits(h, g, S, x) == h[S] = g[x] + h[S \ {x}]

Agree(f, g, S) == \A x \in S : f[x] = g[x]

LEMMA SumsExist ==
  ASSUME NEW S, IsFiniteSet(S), NEW g
  PROVE  \E h : Sums(h, g, SUBSET S)
  <1> DEFINE Small(k) == {s \in SUBSET S : Cardinality(s) <= k}
             T == {k \in Nat : ~\E h : Sums(h, g, Small(k))}
  <1>0. ASSUME NEW s \in SUBSET S
        PROVE  /\ IsFiniteSet(s) /\ Cardinality(s) \in Nat /\ Cardinality(s) <= Cardinality(S)
               /\ Cardinality(s) = 0 <=> s = {}
               /\ s # {} => /\ Picked(s) \in s
                            /\ s \ {Picked(s)} \in SUBSET S
                            /\ Cardinality(s \ {Picked(s)}) = Cardinality(s) - 1
    <2>1. IsFiniteSet(s) /\ Cardinality(s) <= Cardinality(S)
      BY FS_Subset
    <2>2. Cardinality(s) \in Nat
      BY <2>1, FS_CardinalityType
    <2>3. Cardinality(s) = 0 <=> s = {}
      BY <2>1, FS_EmptySet
    <2>4. s # {} => Picked(s) \in s
      BY DEF Picked
    <2>5. s # {} => Cardinality(s \ {Picked(s)}) = Cardinality(s) - 1
      BY <2>1, <2>4, FS_RemoveElement
    <2> QED
      BY <2>1, <2>2, <2>3, <2>4, <2>5
  <1>1. ASSUME T # {} PROVE FALSE
    <2>1. PICK k \in T : \A y \in T : k <= y
      <3> HIDE DEF Small
      <3> QED
        BY <1>1, LeastNat
    <2>2. CASE k = 0
      <3>1. \A s \in Small(0) : s = {}
        <4>1. ASSUME NEW s \in SUBSET S, Cardinality(s) <= 0 PROVE s = {}
          <5>1. Cardinality(s) \in Nat
            BY <1>0
          <5>2. Cardinality(s) = 0
            BY <4>1, <5>1
          <5> QED
            BY <1>0, <5>2
        <4> QED
          BY <4>1
      <3>2. Sums([s \in Small(0) |-> 0], g, Small(0))
        BY <3>1 DEF Sums
      <3> QED
        BY <2>1, <2>2, <3>2
    <2>3. CASE k # 0
      <3>0. k \in Nat
        OBVIOUS
      <3>1. k - 1 \in Nat /\ ~(k <= k - 1)
        BY <2>3, <3>0
      <3>2. PICK f : Sums(f, g, Small(k - 1))
        <4>1. k - 1 \notin T
          <5> HIDE DEF Small
          <5> QED
            BY <2>1, <3>1
        <4> QED
          BY <3>1, <4>1
      <3> DEFINE h == [s \in Small(k) |-> IF s = {} THEN 0 ELSE g[Picked(s)] + f[s \ {Picked(s)}]]
      <3>3. ASSUME NEW s \in Small(k), s # {}
            PROVE  h[s \ {Picked(s)}] = f[s \ {Picked(s)}]
        <4>1. s \ {Picked(s)} \in Small(k - 1) /\ s \ {Picked(s)} \in Small(k)
          BY <1>0, <3>0, <3>3
        <4>2. PICK r : r = s \ {Picked(s)}
          OBVIOUS
        <4>3. f[r] = IF r = {} THEN 0 ELSE g[Picked(r)] + f[r \ {Picked(r)}]
          <5> HIDE DEF Small
          <5> QED
            BY <3>2, <4>1, <4>2 DEF Sums
        <4>4. h[r] = IF r = {} THEN 0 ELSE g[Picked(r)] + f[r \ {Picked(r)}]
          <5> HIDE DEF Small
          <5> QED
            BY <4>1, <4>2
        <4> QED
          BY <4>2, <4>3, <4>4
      <3>4. Sums(h, g, Small(k))
        <4> HIDE DEF Small
        <4>1. ASSUME NEW s \in Small(k)
              PROVE  h[s] = IF s = {} THEN 0 ELSE g[Picked(s)] + h[s \ {Picked(s)}]
          BY <3>3
        <4> QED
          BY <4>1 DEF Sums
      <3> QED
        BY <3>4
    <2> QED
      BY <2>2, <2>3
  <1>2. Cardinality(S) \in Nat /\ Small(Cardinality(S)) = SUBSET S
    BY <1>0, FS_CardinalityType
  <1> QED
    BY <1>1, <1>2

LEMMA SumDef ==
  ASSUME NEW S, IsFiniteSet(S), NEW g
  PROVE  \E h : Sums(h, g, SUBSET S) /\ SumFunctionOnSet(g, S) = h[S]
  <1>1. SumFunctionOnSet(g, S) = (CHOOSE h : Sums(h, g, SUBSET S))[S]
    BY DEF SumFunctionOnSet, FoldFunctionOnSet, MapThenFoldSet, Sums, Picked
  <1>2. Sums(CHOOSE h : Sums(h, g, SUBSET S), g, SUBSET S)
    BY SumsExist
  <1> QED
    BY <1>1, <1>2

(***************************************************************************)
(* Among subsets of a finite set there is a minimal one.                   *)
(***************************************************************************)
LEMMA LeastSet ==
  ASSUME NEW S, IsFiniteSet(S), NEW T, T \subseteq SUBSET S, T # {}
  PROVE  \E B \in T : \A C \in T : C \subseteq B => C = B
  <1>1. T \subseteq FiniteSubsetsOf(S)
    <2>1. ASSUME NEW B \in T PROVE B \in FiniteSubsetsOf(S)
      BY FS_Subset DEF FiniteSubsetsOf
    <2> QED
      BY <2>1
  <1>2. PICK B \in T : \A C \in T : <<C, B>> \notin StrictSubsetOrdering(S)
    BY <1>1, FS_StrictSubsetOrderingWellFounded, WFMin
  <1>3. ASSUME NEW C \in T, C \subseteq B, C # B PROVE FALSE
    <2>1. C \in SUBSET S /\ B \in SUBSET S
      OBVIOUS
    <2>2. <<C, B>> \in StrictSubsetOrdering(S)
      BY <1>3, <2>1 DEF StrictSubsetOrdering
    <2> QED
      BY <1>2, <2>2
  <1> QED
    BY <1>3

LEMMA SumsUnique ==
  ASSUME NEW S, IsFiniteSet(S), NEW R, S \subseteq R, NEW f, NEW g, Agree(f, g, S),
         NEW d, Sums(d, f, SUBSET S), NEW h, Sums(h, g, SUBSET R)
  PROVE  SameSum(d, h, S)
  <1> DEFINE T == {s \in SUBSET S : d[s] # h[s]}
  <1>1. ASSUME T # {} PROVE FALSE
    <2>0. T \subseteq SUBSET S
      OBVIOUS
    <2>1. PICK B \in T : \A C \in T : C \subseteq B => C = B
      <3> HIDE DEF T
      <3> QED
        BY <1>1, <2>0, LeastSet
    <2>2. B \in SUBSET S /\ B \in SUBSET R /\ d[B] # h[B]
      OBVIOUS
    <2>3. /\ d[B] = IF B = {} THEN 0 ELSE f[Picked(B)] + d[B \ {Picked(B)}]
          /\ h[B] = IF B = {} THEN 0 ELSE g[Picked(B)] + h[B \ {Picked(B)}]
      BY <2>2 DEF Sums
    <2>4. B # {} => Picked(B) \in B
      BY DEF Picked
    <2>5. B # {} => d[B \ {Picked(B)}] = h[B \ {Picked(B)}]
      BY <2>1, <2>2, <2>4
    <2> QED
      BY <2>2, <2>3, <2>4, <2>5 DEF Agree
  <1> QED
    BY <1>1 DEF SameSum

LEMMA SumsInt ==
  ASSUME NEW S, IsFiniteSet(S), NEW g, \A x \in S : g[x] \in Int, NEW h, Sums(h, g, SUBSET S),
         NEW s \in SUBSET S
  PROVE  h[s] \in Int
  <1> DEFINE T == {r \in SUBSET S : h[r] \notin Int}
  <1>1. ASSUME T # {} PROVE FALSE
    <2>0. T \subseteq SUBSET S
      OBVIOUS
    <2>1. PICK B \in T : \A C \in T : C \subseteq B => C = B
      <3> HIDE DEF T
      <3> QED
        BY <1>1, <2>0, LeastSet
    <2>2. h[B] = IF B = {} THEN 0 ELSE g[Picked(B)] + h[B \ {Picked(B)}]
      BY <2>1 DEF Sums
    <2>3. B # {} => Picked(B) \in B
      BY DEF Picked
    <2>4. B # {} => h[B \ {Picked(B)}] \in Int /\ g[Picked(B)] \in Int
      BY <2>1, <2>3
    <2>5. h[B] \in Int
      BY <2>2, <2>4
    <2> QED
      BY <2>1, <2>5
  <1> QED
    BY <1>1

(***************************************************************************)
(* Whatever element is taken first, the sum is the same.                   *)
(***************************************************************************)
LEMMA SumsAdd ==
  ASSUME NEW S, IsFiniteSet(S), NEW g, \A y \in S : g[y] \in Int, NEW h, Sums(h, g, SUBSET S),
         NEW x \in S
  PROVE  Splits(h, g, S, x)
  <1> DEFINE T == {s \in SUBSET S : \E y \in s : h[s] # g[y] + h[s \ {y}]}
  <1>1. ASSUME T # {} PROVE FALSE
    <2>0. T \subseteq SUBSET S
      OBVIOUS
    <2>1. PICK B \in T : \A C \in T : C \subseteq B => C = B
      <3> HIDE DEF T
      <3> QED
        BY <1>1, <2>0, LeastSet
    <2>2. PICK y \in B : h[B] # g[y] + h[B \ {y}]
      OBVIOUS
    <2>3. PICK p : p = Picked(B)
      OBVIOUS
    <2>4. p \in B
      BY <2>2, <2>3 DEF Picked
    <2>5. h[B] = g[p] + h[B \ {p}]
      BY <2>2, <2>3 DEF Sums
    <2>6. y # p
      BY <2>2, <2>5
    <2>7. h[B \ {p}] = g[y] + h[(B \ {p}) \ {y}]
      <3>1. B \ {p} \notin T
        BY <2>1, <2>4
      <3> QED
        BY <2>2, <2>6, <3>1
    <2>8. h[B \ {y}] = g[p] + h[(B \ {y}) \ {p}]
      <3>1. B \ {y} \notin T
        BY <2>1, <2>2
      <3> QED
        BY <2>4, <2>6, <3>1
    <2>9. (B \ {p}) \ {y} = (B \ {y}) \ {p} /\ (B \ {p}) \ {y} \in SUBSET S
      OBVIOUS
    <2>10. PICK r : r = h[(B \ {p}) \ {y}]
      OBVIOUS
    <2>11. r \in Int /\ g[p] \in Int /\ g[y] \in Int
      BY <2>4, <2>9, <2>10, SumsInt
    <2>12. h[B] = g[p] + (g[y] + r) /\ h[B \ {y}] = g[p] + r
      BY <2>5, <2>7, <2>8, <2>9, <2>10
    <2> QED
      BY <2>2, <2>11, <2>12
  <1> QED
    BY <1>1 DEF Splits

LEMMA SumEmpty == \A g : SumFunctionOnSet(g, {}) = 0
  <1> TAKE g
  <1>1. PICK h : Sums(h, g, SUBSET {}) /\ SumFunctionOnSet(g, {}) = h[{}]
    BY FS_EmptySet, SumDef
  <1> QED
    BY <1>1 DEF Sums

LEMMA SumSame ==
  ASSUME NEW S, IsFiniteSet(S), NEW f, NEW g, \A x \in S : f[x] = g[x]
  PROVE  SumFunctionOnSet(f, S) = SumFunctionOnSet(g, S)
  <1>1. PICK d : Sums(d, f, SUBSET S) /\ SumFunctionOnSet(f, S) = d[S]
    BY SumDef
  <1>2. PICK h : Sums(h, g, SUBSET S) /\ SumFunctionOnSet(g, S) = h[S]
    BY SumDef
  <1>3. d[S] = h[S]
    <2>1. S \subseteq S /\ Agree(f, g, S)
      BY DEF Agree
    <2>2. SameSum(d, h, S)
      BY <1>1, <1>2, <2>1, SumsUnique
    <2> QED
      BY <2>2 DEF SameSum
  <1> QED
    BY <1>1, <1>2, <1>3

LEMMA SumInt ==
  ASSUME NEW S, IsFiniteSet(S), NEW g, \A x \in S : g[x] \in Int
  PROVE  SumFunctionOnSet(g, S) \in Int
  <1>1. PICK h : Sums(h, g, SUBSET S) /\ SumFunctionOnSet(g, S) = h[S]
    BY SumDef
  <1>2. S \in SUBSET S
    OBVIOUS
  <1> QED
    BY <1>1, <1>2, SumsInt

LEMMA SumRemove ==
  ASSUME NEW S, IsFiniteSet(S), NEW g, \A y \in S : g[y] \in Int, NEW x \in S
  PROVE  SumFunctionOnSet(g, S) = g[x] + SumFunctionOnSet(g, S \ {x})
  <1>0. IsFiniteSet(S \ {x})
    BY FS_Subset
  <1>1. PICK h : Sums(h, g, SUBSET S) /\ SumFunctionOnSet(g, S) = h[S]
    BY SumDef
  <1>2. PICK d : Sums(d, g, SUBSET (S \ {x})) /\ SumFunctionOnSet(g, S \ {x}) = d[S \ {x}]
    BY <1>0, SumDef
  <1>3. d[S \ {x}] = h[S \ {x}]
    <2>1. PICK r : r = S \ {x}
      OBVIOUS
    <2>2. r \subseteq S /\ IsFiniteSet(r) /\ Sums(d, g, SUBSET r) /\ Agree(g, g, r)
      BY <1>0, <1>2, <2>1 DEF Agree
    <2>3. SameSum(d, h, r)
      BY <1>1, <2>2, SumsUnique
    <2> QED
      BY <2>1, <2>3 DEF SameSum
  <1>4. h[S] = g[x] + h[S \ {x}]
    <2>1. Splits(h, g, S, x)
      BY <1>1, SumsAdd
    <2> QED
      BY <2>1 DEF Splits
  <1> QED
    BY <1>1, <1>2, <1>3, <1>4

(***************************************************************************)
(* A sum follows a change of one of its terms.                             *)
(***************************************************************************)
LEMMA SumChange ==
  ASSUME NEW S, IsFiniteSet(S), NEW f, NEW g, NEW x \in S,
         \A y \in S : f[y] \in Int /\ g[y] \in Int, \A y \in S \ {x} : f[y] = g[y]
  PROVE  SumFunctionOnSet(g, S) = SumFunctionOnSet(f, S) + (g[x] - f[x])
  <1>0. IsFiniteSet(S \ {x})
    BY FS_Subset
  <1>1. SumFunctionOnSet(f, S) = f[x] + SumFunctionOnSet(f, S \ {x})
    BY SumRemove
  <1>2. SumFunctionOnSet(g, S) = g[x] + SumFunctionOnSet(g, S \ {x})
    BY SumRemove
  <1>3. SumFunctionOnSet(f, S \ {x}) = SumFunctionOnSet(g, S \ {x})
    BY <1>0, SumSame
  <1>4. SumFunctionOnSet(f, S \ {x}) \in Int
    BY <1>0, SumInt
  <1>5. f[x] \in Int /\ g[x] \in Int
    OBVIOUS
  <1> QED
    BY <1>1, <1>2, <1>3, <1>4, <1>5

LEMMA SumZero ==
  ASSUME NEW S, IsFiniteSet(S), NEW g, \A x \in S : g[x] = 0
  PROVE  SumFunctionOnSet(g, S) = 0
  <1> DEFINE T == {s \in SUBSET S : SumFunctionOnSet(g, s) # 0}
  <1>1. ASSUME T # {} PROVE FALSE
    <2>0. T \subseteq SUBSET S
      OBVIOUS
    <2>1. PICK B \in T : \A C \in T : C \subseteq B => C = B
      <3> HIDE DEF T
      <3> QED
        BY <1>1, <2>0, LeastSet
    <2>2. B # {}
      BY <2>1, SumEmpty
    <2>3. PICK x \in B : TRUE
      BY <2>2
    <2>4. SumFunctionOnSet(g, B \ {x}) = 0
      BY <2>1, <2>3
    <2>5. IsFiniteSet(B) /\ \A y \in B : g[y] \in Int
      BY FS_Subset
    <2>6. SumFunctionOnSet(g, B) = g[x] + SumFunctionOnSet(g, B \ {x})
      BY <2>3, <2>5, SumRemove
    <2> QED
      BY <2>1, <2>3, <2>4, <2>6
  <1> QED
    BY <1>1

LEMMA SumNat ==
  ASSUME NEW S, IsFiniteSet(S), NEW g, \A x \in S : g[x] \in Nat
  PROVE  SumFunctionOnSet(g, S) \in Nat
  <1> DEFINE T == {s \in SUBSET S : SumFunctionOnSet(g, s) \notin Nat}
  <1>1. ASSUME T # {} PROVE FALSE
    <2>0. T \subseteq SUBSET S
      OBVIOUS
    <2>1. PICK B \in T : \A C \in T : C \subseteq B => C = B
      <3> HIDE DEF T
      <3> QED
        BY <1>1, <2>0, LeastSet
    <2>2. B # {}
      <3>1. 0 \in Nat /\ SumFunctionOnSet(g, B) \notin Nat
        BY <2>1
      <3> QED
        BY <3>1, SumEmpty
    <2>3. PICK x \in B : TRUE
      BY <2>2
    <2>4. SumFunctionOnSet(g, B \ {x}) \in Nat
      BY <2>1, <2>3
    <2>5. IsFiniteSet(B) /\ \A y \in B : g[y] \in Int
      BY FS_Subset
    <2>6. SumFunctionOnSet(g, B) = g[x] + SumFunctionOnSet(g, B \ {x})
      BY <2>3, <2>5, SumRemove
    <2> QED
      BY <2>1, <2>3, <2>4, <2>6
  <1> QED
    BY <1>1

LEMMA SumDisjoint ==
  ASSUME NEW A, IsFiniteSet(A), NEW B, IsFiniteSet(B), A \cap B = {},
         NEW g, \A x \in A \cup B : g[x] \in Int
  PROVE  SumFunctionOnSet(g, A \cup B) = SumFunctionOnSet(g, A) + SumFunctionOnSet(g, B)
  <1> DEFINE T == {s \in SUBSET B :
                     SumFunctionOnSet(g, A \cup s) # SumFunctionOnSet(g, A) + SumFunctionOnSet(g, s)}
  <1>0. SumFunctionOnSet(g, A) \in Int
    BY SumInt
  <1>1. ASSUME T # {} PROVE FALSE
    <2>0. T \subseteq SUBSET B
      OBVIOUS
    <2>1. PICK C \in T : \A D \in T : D \subseteq C => D = C
      <3> HIDE DEF T
      <3> QED
        BY <1>1, <2>0, LeastSet
    <2>2. C # {}
      <3>1. SumFunctionOnSet(g, A) = SumFunctionOnSet(g, A) + 0 /\ A \cup {} = A
        BY <1>0
      <3>2. SumFunctionOnSet(g, A \cup {}) = SumFunctionOnSet(g, A) + SumFunctionOnSet(g, {})
        BY <3>1, SumEmpty
      <3> QED
        BY <2>1, <3>2
    <2>3. PICK x \in C : TRUE
      BY <2>2
    <2>4. SumFunctionOnSet(g, A \cup (C \ {x})) = SumFunctionOnSet(g, A) + SumFunctionOnSet(g, C \ {x})
      BY <2>1, <2>3
    <2>5. IsFiniteSet(C) /\ IsFiniteSet(C \ {x}) /\ IsFiniteSet(A \cup C)
      BY FS_Subset, FS_Union
    <2>6. SumFunctionOnSet(g, C) = g[x] + SumFunctionOnSet(g, C \ {x})
      BY <2>3, <2>5, SumRemove
    <2>7. SumFunctionOnSet(g, A \cup C) = g[x] + SumFunctionOnSet(g, (A \cup C) \ {x})
      BY <2>3, <2>5, SumRemove
    <2>8. (A \cup C) \ {x} = A \cup (C \ {x})
      BY <2>3
    <2>9. SumFunctionOnSet(g, C \ {x}) \in Int /\ g[x] \in Int
      BY <2>3, <2>5, SumInt
    <2>10. SumFunctionOnSet(g, A \cup C) = SumFunctionOnSet(g, A) + SumFunctionOnSet(g, C)
      <3>1. PICK a, c, y : /\ a = SumFunctionOnSet(g, A) /\ c = SumFunctionOnSet(g, C \ {x})
                           /\ y = g[x]
        OBVIOUS
      <3>2. a \in Int /\ c \in Int /\ y \in Int
        BY <1>0, <2>9, <3>1
      <3>3. SumFunctionOnSet(g, A \cup C) = y + (a + c) /\ SumFunctionOnSet(g, C) = y + c
        BY <2>4, <2>6, <2>7, <2>8, <3>1
      <3>4. y + (a + c) = a + (y + c)
        BY <3>2
      <3> QED
        BY <3>1, <3>3, <3>4
    <2> QED
      BY <2>1, <2>10
  <1> QED
    BY <1>1

LEMMA SumAppend ==
  ASSUME NEW s \in Seq(Int), NEW x \in Int
  PROVE  SumFunction(Append(s, x)) = SumFunction(s) + x /\ SumFunction(s) \in Int
  <1>1. PICK n \in Nat : n = Len(s)
    OBVIOUS
  <1>2. PICK t : t = Append(s, x)
    OBVIOUS
  <1>3. /\ DOMAIN s = 1 .. n /\ DOMAIN t = 1 .. (n + 1)
        /\ \A i \in 1 .. n : t[i] = s[i] /\ s[i] \in Int
        /\ t[n + 1] = x
    BY <1>1, <1>2
  <1>4. n + 1 \in 1 .. (n + 1) /\ (1 .. (n + 1)) \ {n + 1} = 1 .. n
    OBVIOUS
  <1>5. \A i \in 1 .. (n + 1) : t[i] \in Int
    BY <1>3
  <1>6. IsFiniteSet(1 .. n) /\ IsFiniteSet(1 .. (n + 1))
    BY FS_Interval
  <1>7. SumFunctionOnSet(t, 1 .. (n + 1)) = t[n + 1] + SumFunctionOnSet(t, (1 .. (n + 1)) \ {n + 1})
    BY <1>4, <1>5, <1>6, SumRemove
  <1>8. SumFunctionOnSet(t, 1 .. n) = SumFunctionOnSet(s, 1 .. n)
    BY <1>3, <1>6, SumSame
  <1>9. SumFunctionOnSet(s, 1 .. n) \in Int
    BY <1>3, <1>6, SumInt
  <1>10. SumFunction(s) = SumFunctionOnSet(s, 1 .. n) /\ SumFunction(t) = SumFunctionOnSet(t, 1 .. (n + 1))
    BY <1>3 DEF SumFunction
  <1>11. SumFunction(t) = x + SumFunctionOnSet(s, 1 .. n)
    BY <1>3, <1>4, <1>7, <1>8, <1>10
  <1>12. PICK a \in Int : a = SumFunctionOnSet(s, 1 .. n)
    BY <1>9
  <1>13. x + a = a + x
    OBVIOUS
  <1> QED
    BY <1>2, <1>10, <1>11, <1>12, <1>13

(***************************************************************************)
(* A sum of equal terms is a product.                                      *)
(***************************************************************************)
LEMMA SumConstant ==
  ASSUME NEW S, IsFiniteSet(S), NEW g, NEW c \in Int, \A x \in S : g[x] = c
  PROVE  SumFunctionOnSet(g, S) = Cardinality(S) * c
  <1> DEFINE T == {s \in SUBSET S : SumFunctionOnSet(g, s) # Cardinality(s) * c}
  <1>1. ASSUME T # {} PROVE FALSE
    <2>0. T \subseteq SUBSET S
      OBVIOUS
    <2>1. PICK B \in T : \A C \in T : C \subseteq B => C = B
      <3> HIDE DEF T
      <3> QED
        BY <1>1, <2>0, LeastSet
    <2>2. B # {}
      <3>1. SumFunctionOnSet(g, {}) = 0 /\ Cardinality({}) = 0 /\ 0 * c = 0
        BY SumEmpty, FS_EmptySet
      <3> QED
        BY <2>1, <3>1
    <2>3. PICK x \in B : TRUE
      BY <2>2
    <2>4. SumFunctionOnSet(g, B \ {x}) = Cardinality(B \ {x}) * c
      BY <2>1, <2>3
    <2>5. IsFiniteSet(B) /\ \A y \in B : g[y] \in Int
      BY FS_Subset
    <2>6. SumFunctionOnSet(g, B) = g[x] + SumFunctionOnSet(g, B \ {x})
      BY <2>3, <2>5, SumRemove
    <2>7. Cardinality(B) \in Nat /\ Cardinality(B \ {x}) = Cardinality(B) - 1
      BY <2>3, <2>5, FS_CardinalityType, FS_RemoveElement
    <2>8. PICK n \in Nat : n = Cardinality(B)
      BY <2>7
    <2>9. c + (n - 1) * c = n * c
      OBVIOUS
    <2> QED
      BY <2>1, <2>3, <2>4, <2>6, <2>7, <2>8, <2>9
  <1> QED
    BY <1>1

LEMMA SumWithin ==
  ASSUME NEW S, IsFiniteSet(S), NEW R, R \subseteq S, NEW g, NEW c \in Int,
         \A x \in S : g[x] = IF x \in R THEN c ELSE 0
  PROVE  SumFunctionOnSet(g, S) = Cardinality(R) * c
  <1>1. PICK Q : Q = S \ R
    OBVIOUS
  <1>2. /\ R \cap Q = {} /\ R \cup Q = S
        /\ \A x \in R \cup Q : g[x] \in Int
        /\ \A x \in R : g[x] = c
        /\ \A x \in Q : g[x] = 0
    BY <1>1
  <1>3. IsFiniteSet(R) /\ IsFiniteSet(Q)
    BY <1>1, FS_Subset
  <1>4. SumFunctionOnSet(g, R \cup Q) = SumFunctionOnSet(g, R) + SumFunctionOnSet(g, Q)
    BY <1>2, <1>3, SumDisjoint
  <1>5. SumFunctionOnSet(g, R) = Cardinality(R) * c /\ SumFunctionOnSet(g, Q) = 0
    BY <1>2, <1>3, SumConstant, SumZero
  <1>6. Cardinality(R) * c \in Int
    BY <1>3, FS_CardinalityType
  <1>7. PICK m \in Int : m = Cardinality(R) * c
    BY <1>6
  <1>8. m + 0 = m
    OBVIOUS
  <1> QED
    BY <1>2, <1>4, <1>5, <1>7, <1>8

-----------------------------------------------------------------------------
(***************************************************************************)
(* How often an element occurs in a sequence that is worked off from its   *)
(* head.                                                                   *)
(***************************************************************************)
Has(q, x) == \E i \in 1 .. Len(q) : q[i] = x

AtMostOnce(q, x) == \A i, j \in 1 .. Len(q) : q[i] = x /\ q[j] = x => i = j

LEMMA TailHas ==
  ASSUME NEW S, NEW q \in Seq(S), q # << >>, NEW x, AtMostOnce(q, x)
  PROVE  /\ Tail(q) \in Seq(S) /\ AtMostOnce(Tail(q), x)
         /\ Head(q) = x => Has(q, x) /\ ~Has(Tail(q), x)
         /\ Head(q) # x => (Has(Tail(q), x) <=> Has(q, x))
  <1>1. PICK n \in Nat : n = Len(q)
    OBVIOUS
  <1>2. PICK t : t = Tail(q)
    OBVIOUS
  <1>3. /\ t \in Seq(S) /\ n >= 1 /\ Len(t) = n - 1 /\ Head(q) = q[1]
        /\ \A i \in 1 .. (n - 1) : t[i] = q[i + 1]
    BY <1>1, <1>2
  <1>4. AtMostOnce(t, x)
    <2> SUFFICES ASSUME NEW i \in 1 .. (n - 1), NEW j \in 1 .. (n - 1), t[i] = x, t[j] = x
                 PROVE  i = j
      BY <1>3 DEF AtMostOnce
    <2>1. i + 1 \in 1 .. Len(q) /\ j + 1 \in 1 .. Len(q) /\ q[i + 1] = x /\ q[j + 1] = x
      BY <1>1, <1>3
    <2>2. i + 1 = j + 1
      BY <2>1 DEF AtMostOnce
    <2> QED
      BY <2>2
  <1>5. ASSUME Head(q) = x PROVE Has(q, x) /\ ~Has(t, x)
    <2>1. 1 \in 1 .. Len(q) /\ q[1] = x
      BY <1>1, <1>3, <1>5
    <2>2. ASSUME NEW i \in 1 .. (n - 1), t[i] = x PROVE FALSE
      <3>1. i + 1 \in 1 .. Len(q) /\ q[i + 1] = x
        BY <1>1, <1>3, <2>2
      <3>2. i + 1 = 1
        BY <2>1, <3>1 DEF AtMostOnce
      <3> QED
        BY <3>2
    <2> QED
      BY <1>3, <2>1, <2>2 DEF Has
  <1>6. ASSUME Head(q) # x PROVE Has(t, x) <=> Has(q, x)
    <2>1. ASSUME NEW i \in 1 .. n, q[i] = x PROVE Has(t, x)
      <3>1. i # 1
        BY <1>3, <1>6, <2>1
      <3>2. i - 1 \in 1 .. (n - 1) /\ t[i - 1] = q[(i - 1) + 1]
        BY <1>3, <3>1
      <3> QED
        BY <1>3, <2>1, <3>2 DEF Has
    <2>2. ASSUME NEW i \in 1 .. (n - 1), t[i] = x PROVE Has(q, x)
      BY <1>1, <1>3, <2>2 DEF Has
    <2> QED
      BY <1>1, <1>3, <2>1, <2>2 DEF Has
  <1> QED
    BY <1>2, <1>3, <1>4, <1>5, <1>6

-----------------------------------------------------------------------------
(***************************************************************************)
(* A loop over 1 .. n, written as a function of how many rounds have been  *)
(* made, exists: step[<<a, i>>] is what round i makes of the value a.      *)
(***************************************************************************)
Rounds(g, step, base, k) ==
  g[0] = base /\ \A i \in 1 .. k : g[i] = step[<<g[i - 1], i>>]

LEMMA LoopExists ==
  ASSUME NEW A, NEW base \in A, NEW n \in Nat, NEW step \in [A \X (1 .. n) -> A]
  PROVE  \E g \in [0 .. n -> A] : Rounds(g, step, base, n)
  <1> DEFINE Runs(k) == \E g \in [0 .. k -> A] : Rounds(g, step, base, k)
             T == {k \in 0 .. n : ~Runs(k)}
  <1>1. ASSUME T # {} PROVE FALSE
    <2>1. PICK k \in T : \A y \in T : k <= y
      <3>1. T \subseteq Nat
        OBVIOUS
      <3> HIDE DEF T
      <3> QED
        BY <1>1, <3>1, LeastNat
    <2>2. k \in 0 .. n /\ ~Runs(k)
      OBVIOUS
    <2> HIDE DEF Runs
    <2>3. CASE k = 0
      <3>1. [i \in 0 .. 0 |-> base] \in [0 .. 0 -> A] /\ Rounds([i \in 0 .. 0 |-> base], step, base, 0)
        BY DEF Rounds
      <3> QED
        BY <2>2, <2>3, <3>1 DEF Runs
    <2>4. CASE k # 0
      <3>1. k \in 1 .. n /\ k - 1 \in 0 .. n /\ k - 1 \in Nat /\ ~(k <= k - 1)
        BY <2>2, <2>4
      <3>2. Runs(k - 1)
        BY <2>1, <3>1
      <3>3. PICK g \in [0 .. k - 1 -> A] : Rounds(g, step, base, k - 1)
        BY <3>2 DEF Runs
      <3> DEFINE h == [i \in 0 .. k |-> IF i = k THEN step[<<g[k - 1], k>>] ELSE g[i]]
      <3>4. k - 1 \in 0 .. k - 1 /\ \A i \in 0 .. k : i # k => i \in 0 .. k - 1
        BY <3>1
      <3>5. step[<<g[k - 1], k>>] \in A
        <4>1. <<g[k - 1], k>> \in A \X (1 .. n)
          BY <3>1, <3>4
        <4> QED
          BY <4>1
      <3>6. h \in [0 .. k -> A]
        BY <3>4, <3>5
      <3>7. ASSUME NEW i \in 1 .. k PROVE h[i] = step[<<h[i - 1], i>>]
        <4>1. i \in 0 .. k /\ i - 1 \in 0 .. k /\ i - 1 # k
          BY <3>1
        <4>2. h[i - 1] = g[i - 1]
          BY <4>1
        <4>3. CASE i = k
          BY <4>1, <4>2, <4>3
        <4>4. CASE i # k
          <5>1. i \in 1 .. k - 1 /\ h[i] = g[i]
            BY <3>1, <4>1, <4>4
          <5> QED
            BY <3>3, <4>2, <5>1 DEF Rounds
        <4> QED
          BY <4>3, <4>4
      <3>8. h[0] = base
        <4>1. 0 \in 0 .. k /\ 0 # k
          BY <3>1
        <4> QED
          BY <3>3, <4>1 DEF Rounds
      <3>9. Rounds(h, step, base, k)
        <4> HIDE DEF h
        <4> QED
          BY <3>7, <3>8 DEF Rounds
      <3> QED
        BY <2>2, <3>6, <3>9 DEF Runs
    <2> QED
      BY <2>3, <2>4
  <1>2. n \in 0 .. n
    OBVIOUS
  <1>3. Runs(n)
    <2> HIDE DEF Runs
    <2> QED
      BY <1>1, <1>2
  <1> QED
    BY <1>3

(***************************************************************************)
(* FlattenSeq joins one sequence after the other: JoinsUpTo(F, q) says that *)
(* F[i] is the first i of them joined.                                     *)
(***************************************************************************)
JoinsUpTo(F, q) == F[0] = << >> /\ \A i \in 1 .. Len(q) : F[i] = F[i - 1] \o q[i]

LEMMA FlattenPrefixes ==
  ASSUME NEW S, NEW q \in Seq(Seq(S))
  PROVE  \E F \in [0 .. Len(q) -> Seq(S)] : JoinsUpTo(F, q) /\ FlattenSeq(q) = F[Len(q)]
  <1>0. PICK n \in Nat : n = Len(q) /\ \A i \in 1 .. n : q[i] \in Seq(S)
    OBVIOUS
  <1>1. CASE n = 0
    <2>0. Len(q) = 0 /\ q = << >>
      BY <1>0, <1>1, EmptySeq
    <2>1. FlattenSeq(q) = << >>
      BY <2>0 DEF FlattenSeq
    <2>2. PICK F : F = [i \in 0 .. 0 |-> << >>]
      OBVIOUS
    <2>3. F \in [0 .. 0 -> Seq(S)] /\ F[0] = << >>
      BY <2>2
    <2> QED
      BY <1>0, <1>1, <2>1, <2>3 DEF JoinsUpTo
  <1>2. CASE n # 0
    <2>1. PICK g : /\ g = [i \in 1 .. n |-> IF i = 1 THEN q[i] ELSE g[i - 1] \o q[i]]
                   /\ FlattenSeq(q) = g[n]
      BY <1>0, <1>2, FlattenDef
    <2>2. \A i \in 1 .. n : g[i] = IF i = 1 THEN q[i] ELSE g[i - 1] \o q[i]
      BY <2>1
    <2>3. PICK T : T = {i \in 1 .. n : g[i] \notin Seq(S)}
      OBVIOUS
    <2>4. ASSUME T # {} PROVE FALSE
      <3>0. T \subseteq Nat
        BY <2>3
      <3>1. PICK k \in T : \A y \in T : k <= y
        BY <2>4, <3>0, LeastNat
      <3>2. k \in 1 .. n /\ g[k] \notin Seq(S)
        BY <2>3
      <3>3. CASE k = 1
        BY <1>0, <2>2, <3>2, <3>3
      <3>4. CASE k # 1
        <4>1. k - 1 \in 1 .. n /\ ~(k <= k - 1)
          BY <3>2, <3>4
        <4>2. g[k - 1] \in Seq(S) /\ q[k] \in Seq(S)
          BY <1>0, <2>3, <3>1, <3>2, <4>1
        <4>3. g[k - 1] \o q[k] \in Seq(S)
          BY <4>2
        <4> QED
          BY <2>2, <3>2, <3>4, <4>3
      <3> QED
        BY <3>3, <3>4
    <2>5. \A i \in 1 .. n : g[i] \in Seq(S)
      BY <2>3, <2>4
    <2>6. PICK F : F = [i \in 0 .. n |-> IF i = 0 THEN << >> ELSE g[i]]
      OBVIOUS
    <2>7. F[0] = << >> /\ \A i \in 1 .. n : F[i] = g[i]
      BY <2>6
    <2>8. F \in [0 .. n -> Seq(S)]
      BY <2>5, <2>6
    <2>9. ASSUME NEW i \in 1 .. n PROVE F[i] = F[i - 1] \o q[i]
      <3>1. CASE i = 1
        <4>1. F[i - 1] = << >> /\ q[i] \in Seq(S) /\ F[i] = q[i]
          BY <1>0, <2>2, <2>7, <3>1
        <4>2. << >> \o q[i] = q[i]
          BY <4>1, ConcatEmptySeq
        <4> QED
          BY <4>1, <4>2
      <3>2. CASE i # 1
        <4>1. i - 1 \in 1 .. n
          BY <3>2
        <4> QED
          BY <2>2, <2>7, <3>2, <4>1
      <3> QED
        BY <3>1, <3>2
    <2>10. n \in 1 .. n
      BY <1>2
    <2> QED
      BY <1>0, <2>1, <2>7, <2>8, <2>9, <2>10 DEF JoinsUpTo
  <1> QED
    BY <1>1, <1>2

LEMMA FlattenAppend ==
  ASSUME NEW S, NEW q \in Seq(Seq(S)), NEW x \in Seq(S)
  PROVE  /\ FlattenSeq(q) \in Seq(S)
         /\ FlattenSeq(Append(q, x)) = FlattenSeq(q) \o x
  <1>1. PICK n \in Nat : n = Len(q)
    OBVIOUS
  <1>2. PICK r : r = Append(q, x)
    OBVIOUS
  <1>3. /\ r \in Seq(Seq(S)) /\ Len(r) = n + 1 /\ r[n + 1] = x
        /\ \A i \in 1 .. n : r[i] = q[i]
    BY <1>1, <1>2
  <1>4. PICK F \in [0 .. n -> Seq(S)] : JoinsUpTo(F, q) /\ FlattenSeq(q) = F[n]
    BY <1>1, FlattenPrefixes
  <1>5. PICK G \in [0 .. n + 1 -> Seq(S)] : JoinsUpTo(G, r) /\ FlattenSeq(r) = G[n + 1]
    BY <1>3, FlattenPrefixes
  <1>6. PICK T : T = {i \in 0 .. n : F[i] # G[i]}
    OBVIOUS
  <1>7. ASSUME T # {} PROVE FALSE
    <2>0. T \subseteq Nat
      BY <1>6
    <2>1. PICK k \in T : \A y \in T : k <= y
      BY <1>7, <2>0, LeastNat
    <2>2. k \in 0 .. n /\ F[k] # G[k]
      BY <1>6
    <2>3. k # 0
      BY <1>4, <1>5, <2>2 DEF JoinsUpTo
    <2>4. k \in 1 .. n /\ k \in 1 .. n + 1 /\ k - 1 \in 0 .. n /\ ~(k <= k - 1)
      BY <2>2, <2>3
    <2>5. F[k - 1] = G[k - 1]
      BY <1>6, <2>1, <2>4
    <2>6. F[k] = F[k - 1] \o q[k] /\ G[k] = G[k - 1] \o r[k]
      BY <1>1, <1>3, <1>4, <1>5, <2>4 DEF JoinsUpTo
    <2> QED
      BY <1>3, <2>2, <2>4, <2>5, <2>6
  <1>8. n \in 0 .. n /\ n + 1 \in 1 .. n + 1 /\ (n + 1) - 1 = n
    OBVIOUS
  <1>9. F[n] = G[n]
    BY <1>6, <1>7, <1>8
  <1>10. G[n + 1] = G[n] \o x
    BY <1>3, <1>5, <1>8 DEF JoinsUpTo
  <1> QED
    BY <1>2, <1>4, <1>5, <1>8, <1>9, <1>10

(***************************************************************************)
(* A stretch of two sequences one after the other is what it takes of the  *)
(* first, followed by what it takes of the second.                         *)
(***************************************************************************)
AtMost(x, y) == IF x < y THEN x ELSE y
Beyond(x, y) == IF x > y THEN x - y ELSE 0

LEMMA CutTypes == \A x, y \in Nat : AtMost(x, y) \in Nat /\ Beyond(x, y) \in Nat
  BY DEF AtMost, Beyond

LEMMA CutLength ==
  ASSUME NEW S, NEW a \in Seq(S), NEW o \in Nat, NEW e \in Nat, e <= Len(a)
  PROVE  /\ SubSeq(a, o + 1, e) \in Seq(S)
         /\ Len(SubSeq(a, o + 1, e)) = Beyond(e, o)
         /\ \A i \in 1 .. Beyond(e, o) : SubSeq(a, o + 1, e)[i] = a[o + i]
  <1>1. \A i \in o + 1 .. e : a[i] \in S
    OBVIOUS
  <1>2. o + 1 \in Int /\ e \in Int
    OBVIOUS
  <1>3. /\ SubSeq(a, o + 1, e) \in Seq(S)
        /\ Len(SubSeq(a, o + 1, e)) = IF o + 1 <= e THEN e - (o + 1) + 1 ELSE 0
        /\ \A i \in 1 .. e - (o + 1) + 1 : SubSeq(a, o + 1, e)[i] = a[(o + 1) + i - 1]
    BY <1>1, <1>2, SubSeqProperties
  <1>4. (IF o + 1 <= e THEN e - (o + 1) + 1 ELSE 0) = Beyond(e, o)
    BY DEF Beyond
  <1>5. ASSUME NEW i \in 1 .. Beyond(e, o) PROVE SubSeq(a, o + 1, e)[i] = a[o + i]
    <2>1. i \in 1 .. e - (o + 1) + 1 /\ (o + 1) + i - 1 = o + i
      BY DEF Beyond
    <2> QED
      BY <1>3, <2>1
  <1> QED
    BY <1>3, <1>4, <1>5

LEMMA CutConcat ==
  ASSUME NEW S, NEW a \in Seq(S), NEW b \in Seq(S), NEW o \in Nat, NEW e \in Nat,
         e <= Len(a) + Len(b)
  PROVE  SubSeq(a \o b, o + 1, e) =
           SubSeq(a, o + 1, AtMost(e, Len(a))) \o SubSeq(b, Beyond(o, Len(a)) + 1, Beyond(e, Len(a)))
  <1>1. PICK p \in Nat : p = Len(a)
    OBVIOUS
  <1>2. PICK q \in Nat : q = Len(b)
    OBVIOUS
  <1>3. PICK c : c = a \o b
    OBVIOUS
  <1>4. c \in Seq(S) /\ Len(c) = p + q
        /\ \A i \in 1 .. p + q : c[i] = IF i <= p THEN a[i] ELSE b[i - p]
    BY <1>1, <1>2, <1>3, ConcatProperties
  <1>5. PICK ea \in Nat : ea = AtMost(e, p) /\ ea <= Len(a) /\ ea <= p
    <2>1. AtMost(e, p) \in Nat /\ AtMost(e, p) <= p
      BY DEF AtMost
    <2> QED
      BY <1>1, <2>1
  <1>6. PICK ob \in Nat : ob = Beyond(o, p)
    BY CutTypes
  <1>7. PICK eb \in Nat : eb = Beyond(e, p) /\ eb <= Len(b) /\ eb <= q
    <2>1. Beyond(e, p) \in Nat /\ Beyond(e, p) <= q
      BY <1>1, <1>2 DEF Beyond
    <2> QED
      BY <1>2, <2>1
  <1>8. PICK w : w = SubSeq(c, o + 1, e)
    OBVIOUS
  <1>9. PICK l : l = SubSeq(a, o + 1, ea)
    OBVIOUS
  <1>10. PICK r : r = SubSeq(b, ob + 1, eb)
    OBVIOUS
  <1>11. /\ w \in Seq(S) /\ Len(w) = Beyond(e, o)
         /\ \A i \in 1 .. Beyond(e, o) : w[i] = c[o + i]
    BY <1>1, <1>2, <1>4, <1>8, CutLength
  <1>12. /\ l \in Seq(S) /\ Len(l) = Beyond(ea, o)
         /\ \A i \in 1 .. Beyond(ea, o) : l[i] = a[o + i]
    <2>1. ea <= Len(a)
      BY <1>5
    <2>2. /\ SubSeq(a, o + 1, ea) \in Seq(S) /\ Len(SubSeq(a, o + 1, ea)) = Beyond(ea, o)
          /\ \A i \in 1 .. Beyond(ea, o) : SubSeq(a, o + 1, ea)[i] = a[o + i]
      BY <2>1, CutLength
    <2> QED
      BY <1>9, <2>2
  <1>13. /\ r \in Seq(S) /\ Len(r) = Beyond(eb, ob)
         /\ \A i \in 1 .. Beyond(eb, ob) : r[i] = b[ob + i]
    <2>1. eb <= Len(b)
      BY <1>7
    <2>2. /\ SubSeq(b, ob + 1, eb) \in Seq(S) /\ Len(SubSeq(b, ob + 1, eb)) = Beyond(eb, ob)
          /\ \A i \in 1 .. Beyond(eb, ob) : SubSeq(b, ob + 1, eb)[i] = b[ob + i]
      BY <2>1, CutLength
    <2> QED
      BY <1>10, <2>2
  <1>14. PICK m \in Nat : m = Beyond(ea, o)
    BY CutTypes
  <1>15. PICK k \in Nat : k = Beyond(eb, ob)
    BY CutTypes
  <1>16. PICK t : t = l \o r
    OBVIOUS
  <1>17. /\ t \in Seq(S) /\ Len(t) = m + k
         /\ \A i \in 1 .. m + k : t[i] = IF i <= m THEN l[i] ELSE r[i - m]
    <2>1. Len(l) = m /\ Len(r) = k
      BY <1>12, <1>13, <1>14, <1>15
    <2>2. /\ l \o r \in Seq(S) /\ Len(l \o r) = Len(l) + Len(r)
          /\ \A i \in 1 .. Len(l) + Len(r) : (l \o r)[i] = IF i <= Len(l) THEN l[i] ELSE r[i - Len(l)]
      BY <1>12, <1>13, ConcatProperties
    <2> QED
      BY <1>16, <2>1, <2>2
  <1>18. Beyond(e, o) = m + k
    <2>1. /\ ea = IF e < p THEN e ELSE p
          /\ ob = IF o > p THEN o - p ELSE 0
          /\ eb = IF e > p THEN e - p ELSE 0
      BY <1>5, <1>6, <1>7 DEF AtMost, Beyond
    <2>2. m = IF ea > o THEN ea - o ELSE 0
      BY <1>14 DEF Beyond
    <2>3. k = IF eb > ob THEN eb - ob ELSE 0
      BY <1>15 DEF Beyond
    <2>4. (IF e > o THEN e - o ELSE 0) = m + k
      BY <2>1, <2>2, <2>3
    <2> QED
      BY <2>4 DEF Beyond
  <1>19. ASSUME NEW i \in 1 .. m + k PROVE w[i] = t[i]
    <2>1. w[i] = c[o + i] /\ o + i \in 1 .. p + q
      <3>1. o + i \in 1 .. p + q
        BY <1>1, <1>2, <1>18 DEF Beyond
      <3> QED
        BY <1>11, <1>18, <3>1
    <2>2. CASE i <= m
      <3>1. i \in 1 .. m /\ o + i <= p
        <4>1. m = IF ea > o THEN ea - o ELSE 0
          BY <1>14 DEF Beyond
        <4>2. i \in Nat /\ i >= 1 /\ i <= m
          BY <2>2
        <4> QED
          BY <1>5, <4>1, <4>2
      <3>2. c[o + i] = a[o + i]
        BY <1>4, <2>1, <3>1
      <3>3. t[i] = l[i] /\ l[i] = a[o + i]
        BY <1>12, <1>14, <1>17, <2>2, <3>1
      <3> QED
        BY <2>1, <3>2, <3>3
    <2>3. CASE ~(i <= m)
      <3>1. PICK j \in Nat : j = i - m
        BY <2>3
      <3>2. j \in 1 .. k /\ ~(o + i <= p) /\ ob + j = o + i - p
        BY <1>5, <1>6, <1>7, <1>14, <1>15, <2>3, <3>1 DEF AtMost, Beyond
      <3>3. c[o + i] = b[ob + j]
        <4>1. PICK x \in 1 .. p + q : x = o + i
          BY <2>1
        <4>2. ~(x <= p) /\ x - p = ob + j
          BY <3>2, <4>1
        <4>3. c[x] = b[x - p]
          BY <1>4, <4>2
        <4> QED
          BY <4>1, <4>2, <4>3
      <3>4. t[i] = r[j]
        BY <1>17, <2>3, <3>1
      <3>5. r[j] = b[ob + j]
        BY <1>13, <1>15, <3>2
      <3> QED
        BY <2>1, <3>3, <3>4, <3>5
    <2> QED
      BY <2>2, <2>3
  <1>20. w = t
    <2>1. Len(w) = Len(t) /\ \A i \in 1 .. Len(w) : w[i] = t[i]
      BY <1>11, <1>17, <1>18, <1>19
    <2> QED
      BY <1>11, <1>17, <2>1, SeqEqual
  <1> QED
    BY <1>1, <1>3, <1>5, <1>6, <1>7, <1>8, <1>9, <1>10, <1>16, <1>20

LEMMA CutOfCut ==
  ASSUME NEW S, NEW a \in Seq(S), NEW o \in Nat, NEW j \in Nat, NEW k \in Nat, o + k <= Len(a)
  PROVE  SubSeq(SubSeq(a, o + 1, Len(a)), j + 1, k) = SubSeq(a, (o + j) + 1, o + k)
  <1>1. PICK p \in Nat : p = Len(a)
    OBVIOUS
  <1>2. PICK u : u = SubSeq(a, o + 1, p)
    OBVIOUS
  <1>3. /\ u \in Seq(S) /\ Len(u) = Beyond(p, o)
        /\ \A i \in 1 .. Beyond(p, o) : u[i] = a[o + i]
    <2>1. p <= Len(a)
      BY <1>1
    <2>2. /\ SubSeq(a, o + 1, p) \in Seq(S) /\ Len(SubSeq(a, o + 1, p)) = Beyond(p, o)
          /\ \A i \in 1 .. Beyond(p, o) : SubSeq(a, o + 1, p)[i] = a[o + i]
      BY <2>1, CutLength
    <2> QED
      BY <1>2, <2>2
  <1>4. o + k <= p /\ Beyond(p, o) = p - o
    BY <1>1 DEF Beyond
  <1>5. PICK v : v = SubSeq(u, j + 1, k)
    OBVIOUS
  <1>6. PICK w : w = SubSeq(a, (o + j) + 1, o + k)
    OBVIOUS
  <1>7. /\ v \in Seq(S) /\ Len(v) = Beyond(k, j)
        /\ \A i \in 1 .. Beyond(k, j) : v[i] = u[j + i]
    <2>1. k <= Len(u)
      BY <1>3, <1>4
    <2>2. /\ SubSeq(u, j + 1, k) \in Seq(S) /\ Len(SubSeq(u, j + 1, k)) = Beyond(k, j)
          /\ \A i \in 1 .. Beyond(k, j) : SubSeq(u, j + 1, k)[i] = u[j + i]
      BY <1>3, <2>1, CutLength
    <2> QED
      BY <1>5, <2>2
  <1>8. PICK oj \in Nat : oj = o + j
    OBVIOUS
  <1>9. PICK ok \in Nat : ok = o + k
    OBVIOUS
  <1>10. /\ w \in Seq(S) /\ Len(w) = Beyond(ok, oj)
         /\ \A i \in 1 .. Beyond(ok, oj) : w[i] = a[oj + i]
    <2>1. ok <= Len(a)
      BY <1>9
    <2>2. /\ SubSeq(a, oj + 1, ok) \in Seq(S) /\ Len(SubSeq(a, oj + 1, ok)) = Beyond(ok, oj)
          /\ \A i \in 1 .. Beyond(ok, oj) : SubSeq(a, oj + 1, ok)[i] = a[oj + i]
      BY <2>1, CutLength
    <2> QED
      BY <1>6, <1>8, <1>9, <2>2
  <1>11. Beyond(ok, oj) = Beyond(k, j)
    BY <1>8, <1>9 DEF Beyond
  <1>12. ASSUME NEW i \in 1 .. Beyond(k, j) PROVE v[i] = w[i]
    <2>1. j + i \in 1 .. p - o /\ o + (j + i) = oj + i
      BY <1>4, <1>8 DEF Beyond
    <2>2. u[j + i] = a[o + (j + i)]
      BY <1>3, <1>4, <2>1
    <2> QED
      BY <1>7, <1>10, <1>11, <2>1, <2>2
  <1>13. v = w
    <2>1. Len(v) = Len(w) /\ \A i \in 1 .. Len(v) : v[i] = w[i]
      BY <1>7, <1>10, <1>11, <1>12
    <2> QED
      BY <1>7, <1>10, <2>1, SeqEqual
  <1> QED
    BY <1>1, <1>2, <1>5, <1>6, <1>13

-----------------------------------------------------------------------------
(***************************************************************************)
(* Pieces of a sequence by the places of their ends.                       *)
(***************************************************************************)
LEMMA PieceOf ==
  ASSUME NEW S, NEW s \in Seq(S), NEW a \in Nat, NEW b \in Nat, 1 <= a, a <= b + 1, b <= Len(s)
  PROVE  /\ SubSeq(s, a, b) \in Seq(S)
         /\ Len(SubSeq(s, a, b)) = b - a + 1
         /\ \A i \in 1 .. b - a + 1 : SubSeq(s, a, b)[i] = s[a + i - 1]
  <1>1. \A i \in a .. b : s[i] \in S
    OBVIOUS
  <1>2. a \in Int /\ b \in Int
    OBVIOUS
  <1>3. /\ SubSeq(s, a, b) \in Seq(S)
        /\ Len(SubSeq(s, a, b)) = IF a <= b THEN b - a + 1 ELSE 0
        /\ \A i \in 1 .. b - a + 1 : SubSeq(s, a, b)[i] = s[a + i - 1]
    BY <1>1, <1>2, SubSeqProperties
  <1>4. (IF a <= b THEN b - a + 1 ELSE 0) = b - a + 1
    OBVIOUS
  <1> QED
    BY <1>3, <1>4

LEMMA PieceOfPiece ==
  ASSUME NEW S, NEW s \in Seq(S), NEW a \in Nat, NEW b \in Nat, 1 <= a, a <= b + 1, b <= Len(s),
         NEW c \in Nat, NEW d \in Nat, 1 <= c, c <= d + 1, d <= b - a + 1
  PROVE  SubSeq(SubSeq(s, a, b), c, d) = SubSeq(s, a + c - 1, a + d - 1)
  <1>1. PICK t : t = SubSeq(s, a, b)
    OBVIOUS
  <1>2. t \in Seq(S) /\ Len(t) = b - a + 1 /\ \A i \in 1 .. b - a + 1 : t[i] = s[a + i - 1]
    BY <1>1, PieceOf
  <1>3. PICK u : u = SubSeq(t, c, d)
    OBVIOUS
  <1>4. u \in Seq(S) /\ Len(u) = d - c + 1 /\ \A i \in 1 .. d - c + 1 : u[i] = t[c + i - 1]
    <2>1. d <= Len(t)
      BY <1>2
    <2>2. /\ SubSeq(t, c, d) \in Seq(S) /\ Len(SubSeq(t, c, d)) = d - c + 1
          /\ \A i \in 1 .. d - c + 1 : SubSeq(t, c, d)[i] = t[c + i - 1]
      BY <1>2, <2>1, PieceOf
    <2> QED
      BY <1>3, <2>2
  <1>5. PICK x \in Nat : x = a + c - 1
    OBVIOUS
  <1>6. PICK y \in Nat : y = a + d - 1
    OBVIOUS
  <1>7. PICK w : w = SubSeq(s, x, y)
    OBVIOUS
  <1>8. w \in Seq(S) /\ Len(w) = y - x + 1 /\ \A i \in 1 .. y - x + 1 : w[i] = s[x + i - 1]
    <2>1. 1 <= x /\ x <= y + 1 /\ y <= Len(s)
      BY <1>5, <1>6
    <2>2. /\ SubSeq(s, x, y) \in Seq(S) /\ Len(SubSeq(s, x, y)) = y - x + 1
          /\ \A i \in 1 .. y - x + 1 : SubSeq(s, x, y)[i] = s[x + i - 1]
      BY <2>1, PieceOf
    <2> QED
      BY <1>7, <2>2
  <1>9. y - x + 1 = d - c + 1
    BY <1>5, <1>6
  <1>10. ASSUME NEW i \in 1 .. d - c + 1 PROVE u[i] = w[i]
    <2>1. PICK j \in Nat : j = c + i - 1
      OBVIOUS
    <2>2. j \in 1 .. b - a + 1 /\ a + j - 1 = x + i - 1
      BY <1>5, <2>1
    <2>3. u[i] = t[j] /\ t[j] = s[a + j - 1]
      BY <1>2, <1>4, <2>1, <2>2
    <2> QED
      BY <1>8, <1>9, <2>2, <2>3
  <1>11. u = w
    <2>1. Len(u) = Len(w) /\ \A i \in 1 .. Len(u) : u[i] = w[i]
      BY <1>4, <1>8, <1>9, <1>10
    <2> QED
      BY <1>4, <1>8, <2>1, SeqEqual
  <1> QED
    BY <1>1, <1>3, <1>5, <1>6, <1>7, <1>11

LEMMA GreatestNat ==
  ASSUME NEW n \in Nat, NEW T, T \subseteq 0 .. n, T # {}
  PROVE  \E x \in T : \A y \in T : x >= y
  <1>1. PICK U : U = {n - i : i \in T}
    OBVIOUS
  <1>2. U \subseteq Nat /\ U # {}
    <2>1. ASSUME NEW i \in T PROVE n - i \in Nat
      <3>1. i \in 0 .. n
        OBVIOUS
      <3> QED
        BY <3>1
    <2> QED
      BY <1>1, <2>1
  <1>3. PICK u \in U : \A y \in U : u <= y
    BY <1>2, LeastNat
  <1>4. PICK x \in T : u = n - x
    BY <1>1
  <1>5. ASSUME NEW y \in T PROVE x >= y
    <2>1. n - y \in U
      BY <1>1
    <2>2. n - x <= n - y
      BY <1>3, <1>4, <2>1
    <2>3. x \in 0 .. n /\ y \in 0 .. n
      OBVIOUS
    <2> QED
      BY <2>2, <2>3
  <1> QED
    BY <1>5
=============================================================================
