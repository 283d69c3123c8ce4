------------------------------- MODULE Facts --------------------------------
(***************************************************************************)
(* What the theorems of several modules rest on: induction and recursion   *)
(* over the natural numbers and over finite sets, which give the folds and *)
(* sums of the models their equations; finite sets in an order; sequences  *)
(* and their prefixes.                                                     *)
(*                                                                         *)
(* An induction is over a set, the set of those for which a property       *)
(* holds, and a recursion is by a function, so that no lemma here takes an *)
(* operator.                                                               *)
(***************************************************************************)
EXTENDS SequencesExt, FiniteSetsExt, SequenceTheorems, FiniteSetTheorems, WellFoundedInduction,
        TLAPS

-----------------------------------------------------------------------------
(* Induction                                                               *)

(* A set of numbers that has 0 and every successor of its members has all. *)
LEMMA NatInduct ==
  ASSUME NEW S, 0 \in S, \A n \in Nat : n \in S => n + 1 \in S
  PROVE  \A n \in Nat : n \in S
<1> DEFINE others == Nat \ S
<1>1. SUFFICES ASSUME others # {} PROVE FALSE
  OBVIOUS
<1>2. PICK x \in others : \A y \in others : ~(<<y, x>> \in OpToRel(<, Nat))
  <2> HIDE DEF others
  <2>1. others \subseteq Nat
    BY DEF others
  <2> QED
    BY <1>1, <2>1, WFMin, NatLessThanWellFounded
<1>3. x - 1 \in others /\ x - 1 < x
  OBVIOUS
<1>4. <<x - 1, x>> \in OpToRel(<, Nat)
  BY <1>3 DEF OpToRel
<1> QED
  BY <1>2, <1>3, <1>4

(* A family of subsets of a finite set that has the empty one, and every   *)
(* one all of whose smaller ones it has, has all.                          *)
LEMMA SubsetInduct ==
  ASSUME NEW D, IsFiniteSet(D), NEW S,
         \A s \in SUBSET D : (\A x \in s : s \ {x} \in S) => s \in S
  PROVE  \A s \in SUBSET D : s \in S
<1> DEFINE N == {n \in Nat : \A s \in SUBSET D : Cardinality(s) = n => s \in S}
<1>1. \A s \in SUBSET D : IsFiniteSet(s) /\ Cardinality(s) \in Nat
  BY FS_Subset, FS_CardinalityType
<1>2. 0 \in N
  <2>1. \A s \in SUBSET D : Cardinality(s) = 0 => s = {}
    BY <1>1, FS_EmptySet
  <2> QED
    BY <2>1
<1>3. ASSUME NEW n \in Nat, n \in N
      PROVE  n + 1 \in N
  <2>1. ASSUME NEW s \in SUBSET D, Cardinality(s) = n + 1
        PROVE  s \in S
    <3>1. \A x \in s : Cardinality(s \ {x}) = n
      BY <1>1, <2>1, FS_RemoveElement
    <3> QED
      BY <1>3, <3>1
  <2> QED
    BY <2>1
<1>4. \A n \in Nat : n \in N
  <2> HIDE DEF N
  <2> QED
    BY <1>2, <1>3, NatInduct
<1> QED
  BY <1>1, <1>4

(* A nonempty finite set of integers has a greatest and a least member.    *)
LEMMA Extremes ==
  ASSUME NEW s, IsFiniteSet(s), s # {}, s \subseteq Int
  PROVE  /\ Max(s) \in s /\ \A x \in s : x <= Max(s)
         /\ Min(s) \in s /\ \A x \in s : Min(s) <= x
<1> DEFINE S == {t \in SUBSET s : t # {} => /\ \E x \in t : \A y \in t : x >= y
                                           /\ \E x \in t : \A y \in t : x <= y}
<1>1. ASSUME NEW t \in SUBSET s, \A x \in t : t \ {x} \in S
      PROVE  t \in S
  <2>1. CASE t = {}
    BY <2>1
  <2>2. CASE \E x : t = {x}
    BY <2>2
  <2>3. CASE \E x, y \in t : x # y
    <3>1. PICK x \in t, y \in t : x # y
      BY <2>3
    <3>2. t \ {x} \in S /\ t \ {x} # {}
      BY <1>1, <3>1
    <3>3. PICK g \in t \ {x} : \A z \in t \ {x} : g >= z
      BY <3>2
    <3>4. PICK l \in t \ {x} : \A z \in t \ {x} : l <= z
      BY <3>2
    <3>5. \E u \in t : \A z \in t : u >= z
      BY <3>3, x \in Int, g \in Int
    <3>6. \E u \in t : \A z \in t : u <= z
      BY <3>4, x \in Int, l \in Int
    <3> QED
      BY <3>5, <3>6
  <2> QED
    BY <2>1, <2>2, <2>3
<1>2. s \in S
  <2> HIDE DEF S
  <2> QED
    BY <1>1, SubsetInduct
<1>3. /\ \E x \in s : \A y \in s : x >= y
      /\ \E x \in s : \A y \in s : x <= y
  BY <1>2
<1>4. Max(s) \in s /\ \A x \in s : Max(s) >= x
  BY <1>3 DEF Max
<1>5. Min(s) \in s /\ \A x \in s : Min(s) <= x
  BY <1>3 DEF Min
<1> QED
  BY <1>4, <1>5

-----------------------------------------------------------------------------
(* Recursion                                                               *)

(* A sequence given by its first member and the way from each to the next. *)
Recurs(h, base, G) == h[0] = base /\ \A k \in Nat : h[k + 1] = G[<<k, h[k]>>]

LEMMA NatRecursion ==
  ASSUME NEW A, NEW base \in A, NEW G \in [Nat \X A -> A]
  PROVE  \E h \in [Nat -> A] : Recurs(h, base, G)
<1> DEFINE Solves(h, n) == h[0] = base /\ \A k \in 0..(n - 1) : h[k + 1] = G[<<k, h[k]>>]
           N == {n \in Nat : \E h \in [0..n -> A] : Solves(h, n)}
<1>1. 0 \in N
  <2>1. [k \in 0..0 |-> base] \in [0..0 -> A] /\ Solves([k \in 0..0 |-> base], 0)
    OBVIOUS
  <2> QED
    BY <2>1
<1>2. ASSUME NEW n \in Nat, n \in N
      PROVE  n + 1 \in N
  <2>1. PICK h \in [0..n -> A] : Solves(h, n)
    BY <1>2
  <2> DEFINE g == [k \in 0..(n + 1) |-> IF k <= n THEN h[k] ELSE G[<<n, h[n]>>]]
  <2>2. G[<<n, h[n]>>] \in A
    <3>1. h[n] \in A
      OBVIOUS
    <3> QED
      BY <3>1
  <2>3. g \in [0..(n + 1) -> A]
    BY <2>2
  <2>4. g[0] = base
    BY <2>1
  <2>5. ASSUME NEW k \in 0..n
        PROVE  g[k + 1] = G[<<k, g[k]>>]
    <3>1. CASE k = n
      BY <3>1
    <3>2. CASE k # n
      <4>1. k \in 0..(n - 1) /\ k + 1 <= n
        BY <3>2
      <4>2. h[k + 1] = G[<<k, h[k]>>]
        BY <2>1, <4>1
      <4>3. g[k + 1] = h[k + 1] /\ g[k] = h[k]
        BY <4>1
      <4> HIDE DEF g
      <4> QED
        BY <4>2, <4>3
    <3> QED
      BY <3>1, <3>2
  <2>6. Solves(g, n + 1)
    <3> HIDE DEF g
    <3> QED
      BY <2>4, <2>5
  <2> HIDE DEF g, Solves
  <2> QED
    BY <2>3, <2>6
<1>3. \A n \in Nat : n \in N
  <2> HIDE DEF N
  <2> QED
    BY <1>1, <1>2, NatInduct
<1> DEFINE some == [n \in Nat |-> CHOOSE h \in [0..n -> A] : Solves(h, n)]
<1>4. \A n \in Nat : some[n] \in [0..n -> A] /\ Solves(some[n], n)
  <2> HIDE DEF Solves
  <2> QED
    BY <1>3
<1> HIDE DEF some
<1>5. ASSUME NEW n \in Nat
      PROVE  \A k \in Nat : k <= n => some[n + 1][k] = some[n][k]
  <2> DEFINE S == {k \in Nat : k <= n => some[n + 1][k] = some[n][k]}
  <2>1. Solves(some[n], n) /\ Solves(some[n + 1], n + 1)
    <3> HIDE DEF Solves
    <3> QED
      BY <1>4
  <2>2. 0 \in S
    BY <2>1
  <2>3. ASSUME NEW k \in Nat, k \in S
        PROVE  k + 1 \in S
    <3>1. SUFFICES ASSUME k + 1 <= n
                   PROVE  some[n + 1][k + 1] = some[n][k + 1]
      OBVIOUS
    <3>2. k \in 0..(n - 1) /\ k \in 0..(n + 1 - 1) /\ k <= n
      BY <3>1
    <3>3. some[n + 1][k] = some[n][k]
      BY <2>3, <3>2
    <3>4. some[n][k + 1] = G[<<k, some[n][k]>>]
      BY <2>1, <3>2
    <3>5. some[n + 1][k + 1] = G[<<k, some[n + 1][k]>>]
      BY <2>1, <3>2
    <3> QED
      BY <3>3, <3>4, <3>5
  <2>4. \A k \in Nat : k \in S
    <3> HIDE DEF S
    <3> QED
      BY <2>2, <2>3, NatInduct
  <2> QED
    BY <2>4
<1> DEFINE f == [n \in Nat |-> some[n][n]]
<1>6. f \in [Nat -> A]
  BY <1>4
<1>7. f[0] = base
  BY <1>4
<1>8. ASSUME NEW k \in Nat
      PROVE  f[k + 1] = G[<<k, f[k]>>]
  <2>1. Solves(some[k + 1], k + 1)
    <3> HIDE DEF Solves
    <3> QED
      BY <1>4
  <2>2. some[k + 1][k + 1] = G[<<k, some[k + 1][k]>>]
    BY <2>1
  <2>3. some[k + 1][k] = some[k][k]
    BY <1>5
  <2> QED
    BY <2>2, <2>3
<1>9. Recurs(f, base, G)
  <2> HIDE DEF f
  <2> QED
    BY <1>7, <1>8 DEF Recurs
<1> QED
  BY <1>6, <1>9

(* A function on the subsets of a finite set that is given by its value on *)
(* a subset less the member that "pick" takes.                             *)
Descends(f, D, base, pick, G) ==
  f = [s \in SUBSET D |-> IF s = {} THEN base ELSE G[<<s, f[s \ {pick[s]}]>>]]

LEMMA SetRecursion ==
  ASSUME NEW D, IsFiniteSet(D), NEW A, NEW base \in A,
         NEW pick, \A s \in SUBSET D : s # {} => pick[s] \in s,
         NEW G, \A s \in SUBSET D, a \in A : s # {} => G[<<s, a>>] \in A
  PROVE  \E f \in [SUBSET D -> A] : Descends(f, D, base, pick, G)
<1> DEFINE parts == SUBSET D
           size == [s \in parts |-> Cardinality(s)]
           Value(f, s) == IF s = {} THEN base ELSE G[<<s, f[s \ {pick[s]}]>>]
           N == {m \in Nat : \E h \in [{t \in parts : size[t] <= m} -> A] :
                              \A t \in DOMAIN h : h[t] = Value(h, t)}
<1>1. \A s \in parts : size[s] \in Nat /\ (size[s] = 0 <=> s = {})
  BY FS_Subset, FS_CardinalityType, FS_EmptySet
<1>2. \A s \in parts : s # {} => s \ {pick[s]} \in parts /\ size[s \ {pick[s]}] = size[s] - 1
  <2>1. \A s \in parts : IsFiniteSet(s)
    BY FS_Subset
  <2> QED
    BY <2>1, FS_RemoveElement
<1>3. \A s \in parts, a \in A : s # {} => G[<<s, a>>] \in A
  OBVIOUS
<1>4. size[D] \in Nat /\ \A s \in parts : size[s] <= size[D]
  BY FS_Subset, FS_CardinalityType
<1> HIDE DEF parts, size
<1>5. 0 \in N
  <2> DEFINE least == {t \in parts : size[t] <= 0}
  <2>1. \A s \in least : s = {}
    BY <1>1
  <2>2. [s \in least |-> base] \in [least -> A]
    OBVIOUS
  <2> HIDE DEF least
  <2>3. \A s \in least : [t \in least |-> base][s] = Value([t \in least |-> base], s)
    BY <2>1
  <2>4. \E h \in [least -> A] : \A t \in DOMAIN h : h[t] = Value(h, t)
    <3> HIDE DEF Value
    <3> QED
      BY <2>2, <2>3
  <2> QED
    BY <2>4 DEF least
<1>6. ASSUME NEW n \in Nat, n \in N
      PROVE  n + 1 \in N
  <2> DEFINE lower == {t \in parts : size[t] <= n}
             upper == {t \in parts : size[t] <= n + 1}
  <2>1. PICK f \in [lower -> A] : \A s \in DOMAIN f : f[s] = Value(f, s)
    BY <1>6
  <2>2. ASSUME NEW s \in upper, s # {}
        PROVE  s \ {pick[s]} \in lower
    <3>1. s \in parts /\ size[s] <= n + 1 /\ size[s] \in Nat
      BY <1>1
    <3>2. s \ {pick[s]} \in parts /\ size[s \ {pick[s]}] = size[s] - 1
      BY <1>2, <2>2, <3>1
    <3> QED
      BY <3>1, <3>2
  <2>3. \A s \in upper : s \in parts
    OBVIOUS
  <2>4. \A s \in lower : s \in upper
    BY <1>1
  <2> HIDE DEF lower, upper
  <2>5. \A s \in upper : Value(f, s) \in A
    BY <1>3, <2>1, <2>2, <2>3
  <2> DEFINE g == [s \in upper |-> Value(f, s)]
  <2>6. g \in [upper -> A]
    <3> HIDE DEF Value
    <3> QED
      BY <2>5
  <2>7. \A s \in lower : g[s] = f[s]
    <3> HIDE DEF Value
    <3> QED
      BY <2>1, <2>4
  <2>8. \A s \in upper : g[s] = Value(g, s)
    <3>1. \A s \in upper : g[s] = Value(f, s)
      OBVIOUS
    <3> HIDE DEF g
    <3> QED
      BY <2>2, <2>7, <3>1
  <2> HIDE DEF g, Value
  <2>9. \E h \in [upper -> A] : \A t \in DOMAIN h : h[t] = Value(h, t)
    BY <2>6, <2>8
  <2>10. n + 1 \in Nat
    OBVIOUS
  <2> QED
    BY <2>9, <2>10, Zenon DEF upper
<1>7. \A n \in Nat : n \in N
  <2> HIDE DEF N
  <2> QED
    BY <1>5, <1>6, NatInduct
<1>8. {t \in parts : size[t] <= size[D]} = parts
  BY <1>4
<1>9. PICK f \in [parts -> A] : \A s \in DOMAIN f : f[s] = Value(f, s)
  <2>1. size[D] \in N
    BY <1>4, <1>7
  <2> HIDE DEF Value
  <2> QED
    BY <1>8, <2>1
<1>10. f = [s \in parts |-> Value(f, s)]
  <2> HIDE DEF Value
  <2> QED
    BY <1>9
<1> QED
  BY <1>10 DEF parts, Descends

(* The sum of what a function has of the members of a set.                 *)
SumOver(g, S) == MapThenSumSet(LAMBDA x : g[x], S)

LEMMA SumFacts ==
  ASSUME NEW D, IsFiniteSet(D), NEW g, \A x \in D : g[x] \in Nat
  PROVE  /\ SumOver(g, {}) = 0
         /\ \A s \in SUBSET D :
              /\ SumOver(g, s) \in Nat
              /\ \A x \in s : SumOver(g, s) = SumOver(g, s \ {x}) + g[x]
<1> DEFINE parts == SUBSET D
           pick == [s \in parts |-> CHOOSE x \in s : TRUE]
           G == [p \in parts \X Nat |-> g[pick[p[1]]] + p[2]]
           Value(f, s) == IF s = {} THEN 0 ELSE g[CHOOSE x \in s : TRUE] + f[s \ {CHOOSE x \in s : TRUE}]
<1>1. \A s \in parts : s # {} => pick[s] \in s /\ pick[s] \in D
  OBVIOUS
<1>2. \A s \in parts, a \in Nat : s # {} => G[<<s, a>>] = g[pick[s]] + a /\ G[<<s, a>>] \in Nat
  <2>1. \A s \in parts : s # {} => g[pick[s]] \in Nat
    BY <1>1
  <2> HIDE DEF parts, pick
  <2>2. \A s \in parts, a \in Nat : G[<<s, a>>] = g[pick[s]] + a
    OBVIOUS
  <2> QED
    BY <2>1, <2>2
<1>3. PICK f \in [parts -> Nat] : Descends(f, D, 0, pick, G)
  <2> HIDE DEF G, pick
  <2>1. \A s \in SUBSET D : s # {} => pick[s] \in s
    BY <1>1
  <2>2. \A s \in SUBSET D, a \in Nat : s # {} => G[<<s, a>>] \in Nat
    BY <1>2
  <2> QED
    BY <2>1, <2>2, SetRecursion
<1>4. \A s \in parts : /\ f[s] \in Nat
                       /\ s = {} => f[s] = 0
                       /\ s # {} => f[s] = f[s \ {pick[s]}] + g[pick[s]]
  <2> HIDE DEF G, pick
  <2>1. \A s \in parts : s \ {pick[s]} \in parts
    OBVIOUS
  <2> HIDE DEF parts
  <2>2. \A s \in parts : f[s] = IF s = {} THEN 0 ELSE G[<<s, f[s \ {pick[s]}]>>]
    BY <1>3 DEF Descends, parts
  <2>3. \A s \in parts : f[s] \in Nat
    BY <1>3
  <2>4. \A s \in parts : s # {} => pick[s] \in D
    BY <1>1
  <2>5. ASSUME NEW s \in parts, s # {}
        PROVE  f[s] = f[s \ {pick[s]}] + g[pick[s]]
    <3>1. f[s \ {pick[s]}] \in Nat /\ g[pick[s]] \in Nat
      BY <2>1, <2>3, <2>4, <2>5
    <3>2. f[s] = G[<<s, f[s \ {pick[s]}]>>]
      BY <2>2, <2>5
    <3>3. f[s] = g[pick[s]] + f[s \ {pick[s]}]
      BY <1>2, <2>5, <3>1, <3>2
    <3> QED
      BY <3>1, <3>3
  <2> QED
    BY <2>2, <2>3, <2>5
<1>p. \A s : s \in parts <=> s \in SUBSET D
  OBVIOUS
<1>q. \A s \in parts : pick[s] = CHOOSE x \in s : TRUE
  OBVIOUS
<1> HIDE DEF parts, pick, G
<1>5. ASSUME NEW t \in parts
      PROVE  SumOver(g, t) = f[t]
  <2> DEFINE below == SUBSET t
             Body(h) == [s \in below |-> IF s = {} THEN 0
                            ELSE g[CHOOSE x \in s : TRUE] + h[s \ {CHOOSE x \in s : TRUE}]]
             iter == CHOOSE h : h = Body(h)
             first == [s \in below |-> f[s]]
             S == {s \in below : iter[s] = f[s]}
  <2>1. \A s \in below : s \in parts
    BY <1>p
  <2>0. \A s \in parts : s # {} => f[s] = f[s \ {pick[s]}] + g[pick[s]]
    BY <1>4
  <2>2. first = Body(first)
    <3>1. \A s \in below : s \ {CHOOSE x \in s : TRUE} \in below
      OBVIOUS
    <3>2. \A s \in below : pick[s] = CHOOSE x \in s : TRUE
      BY <1>q, <2>1
    <3>3. \A s \in below : s # {} => pick[s] \in D
      BY <1>1, <2>1
    <3> HIDE DEF below, parts
    <3>4. ASSUME NEW s \in below
          PROVE  f[s] = IF s = {} THEN 0
                        ELSE g[CHOOSE x \in s : TRUE] + first[s \ {CHOOSE x \in s : TRUE}]
      <4> DEFINE p == CHOOSE x \in s : TRUE
      <4>1. s \in parts /\ pick[s] = p /\ s \ {p} \in below
        BY <2>1, <3>1, <3>2
      <4>2. CASE s = {}
        BY <1>4, <4>1, <4>2
      <4>3. CASE s # {}
        <5>1. f[s] = f[s \ {p}] + g[p]
          BY <1>4, <4>1, <4>3
        <5>2. f[s \ {p}] \in Nat /\ g[p] \in Nat
          BY <1>4, <2>1, <3>3, <4>1, <4>3
        <5>3. first[s \ {p}] = f[s \ {p}]
          BY <4>1
        <5> HIDE DEF p, first, pick
        <5> QED
          BY <4>3, <5>1, <5>2, <5>3 DEF p
      <4> QED
        BY <4>2, <4>3
    <3> QED
      BY <3>4
  <2>3. iter = Body(iter)
    <3> HIDE DEF Body, first
    <3> QED
      BY <2>2
  <2>4. SumOver(g, t) = iter[t]
    BY DEF SumOver, MapThenSumSet, MapThenFoldSet
  <2> HIDE DEF iter
  <2>5. ASSUME NEW s \in SUBSET t, \A x \in s : s \ {x} \in S
        PROVE  s \in S
    <3>1. CASE s = {}
      <4>1. iter[s] = 0
        BY <2>3, <3>1
      <4> QED
        BY <1>4, <2>1, <3>1, <4>1
    <3>2. CASE s # {}
      <4>1. pick[s] \in s /\ pick[s] = CHOOSE x \in s : TRUE
        BY <1>1, <1>q, <2>1, <3>2
      <4>2. iter[s] = g[pick[s]] + iter[s \ {pick[s]}]
        BY <2>3, <3>2, <4>1
      <4>3. s \ {pick[s]} \in S
        BY <2>5, <4>1
      <4>4. iter[s \ {pick[s]}] = f[s \ {pick[s]}] /\ f[s \ {pick[s]}] \in Nat /\ g[pick[s]] \in Nat
        BY <1>1, <1>4, <2>1, <3>2, <4>3
      <4>5. f[s] = f[s \ {pick[s]}] + g[pick[s]]
        BY <1>4, <2>1, <3>2
      <4> HIDE DEF pick
      <4> QED
        BY <4>2, <4>4, <4>5
    <3> QED
      BY <3>1, <3>2
  <2>6. IsFiniteSet(t)
    BY <1>p, FS_Subset
  <2>7. t \in S
    <3> HIDE DEF S
    <3>1. \A s \in SUBSET t : (\A x \in s : s \ {x} \in S) => s \in S
      BY <2>5
    <3>2. \A s \in SUBSET t : s \in S
      BY <2>6, <3>1, SubsetInduct
    <3> QED
      BY <3>2
  <2> QED
    BY <2>4, <2>7
<1> DEFINE T == {s \in parts : \A x \in s : f[s] = f[s \ {x}] + g[x]}
<1>6. ASSUME NEW s \in SUBSET D, \A x \in s : s \ {x} \in T
      PROVE  s \in T
  <2>0. s \in parts
    BY <1>p
  <2>1. ASSUME NEW x \in s
        PROVE  f[s] = f[s \ {x}] + g[x]
    <3> DEFINE p == pick[s]
    <3>1. p \in s /\ f[s] = f[s \ {p}] + g[p]
      BY <1>1, <1>4, <2>0
    <3>2. CASE x = p
      BY <3>1, <3>2
    <3>3. CASE x # p
      <4>1. f[s \ {p}] = f[(s \ {p}) \ {x}] + g[x]
        BY <1>6, <3>1, <3>3
      <4>2. f[s \ {x}] = f[(s \ {x}) \ {p}] + g[p]
        BY <1>6, <3>1, <3>3
      <4>3. (s \ {p}) \ {x} = (s \ {x}) \ {p} /\ (s \ {x}) \ {p} \in parts
        BY <1>p
      <4>4. f[(s \ {x}) \ {p}] \in Nat /\ g[x] \in Nat /\ g[p] \in Nat
        BY <1>4, <3>1, <4>3
      <4>5. f[s] = f[(s \ {x}) \ {p}] + g[x] + g[p]
        BY <3>1, <4>1, <4>3
      <4> HIDE DEF p
      <4> QED
        BY <4>2, <4>4, <4>5
    <3> QED
      BY <3>2, <3>3
  <2> QED
    BY <2>0, <2>1
<1>7. \A s \in parts : s \in T
  <2> HIDE DEF T
  <2> QED
    BY <1>p, <1>6, SubsetInduct
<1>8. /\ {} \in parts
      /\ \A s \in parts : \A x \in s : s \ {x} \in parts
  BY <1>p
<1>9. \A s \in parts : /\ SumOver(g, s) \in Nat
                       /\ \A x \in s : SumOver(g, s) = SumOver(g, s \ {x}) + g[x]
  <2> TAKE s \in parts
  <2>1. SumOver(g, s) = f[s] /\ f[s] \in Nat
    BY <1>4, <1>5
  <2>2. \A x \in s : f[s] = f[s \ {x}] + g[x]
    BY <1>7
  <2>3. \A x \in s : SumOver(g, s \ {x}) = f[s \ {x}]
    BY <1>5, <1>8
  <2> QED
    BY <2>1, <2>2, <2>3
<1>10. SumOver(g, {}) = 0
  BY <1>4, <1>5, <1>8
<1> QED
  BY <1>9, <1>10, <1>p

(* Sums add up, and a sum of more is more.                                 *)
LEMMA SumsAdd ==
  ASSUME NEW D, IsFiniteSet(D), NEW g, NEW h, NEW k,
         \A x \in D : g[x] \in Nat /\ h[x] \in Nat /\ k[x] = g[x] + h[x]
  PROVE  \A s \in SUBSET D : SumOver(k, s) = SumOver(g, s) + SumOver(h, s)
<1> DEFINE S == {s \in SUBSET D : SumOver(k, s) = SumOver(g, s) + SumOver(h, s)}
           Sums(f) == /\ SumOver(f, {}) = 0
                      /\ \A s \in SUBSET D : /\ SumOver(f, s) \in Nat
                                             /\ \A x \in s : SumOver(f, s) = SumOver(f, s \ {x}) + f[x]
<1>1. Sums(g) /\ Sums(h) /\ Sums(k)
  <2>1. \A x \in D : k[x] \in Nat
    OBVIOUS
  <2> QED
    BY <2>1, SumFacts
<1>2. ASSUME NEW s \in SUBSET D, \A x \in s : s \ {x} \in S
      PROVE  s \in S
  <2>1. CASE s = {}
    BY <1>1, <2>1
  <2>2. CASE s # {}
    <3>1. PICK x : x \in s
      BY <2>2
    <3>2. s \ {x} \in S /\ x \in D /\ s \ {x} \in SUBSET D
      BY <1>2, <3>1
    <3>3. /\ SumOver(g, s) = SumOver(g, s \ {x}) + g[x]
          /\ SumOver(h, s) = SumOver(h, s \ {x}) + h[x]
          /\ SumOver(k, s) = SumOver(k, s \ {x}) + k[x]
      BY <1>1, <3>1
    <3>4. SumOver(g, s \ {x}) \in Nat /\ SumOver(h, s \ {x}) \in Nat
      BY <1>1, <3>2
    <3>5. SumOver(k, s \ {x}) = SumOver(g, s \ {x}) + SumOver(h, s \ {x})
      BY <3>2
    <3>6. g[x] \in Nat /\ h[x] \in Nat /\ k[x] = g[x] + h[x]
      BY <3>2
    <3> QED
      BY <3>3, <3>4, <3>5, <3>6
  <2> QED
    BY <2>1, <2>2
<1>3. \A s \in SUBSET D : s \in S
  <2> HIDE DEF S
  <2> QED
    BY <1>2, SubsetInduct
<1> QED
  BY <1>3

LEMMA SumsCompare ==
  ASSUME NEW D, IsFiniteSet(D), NEW g, NEW k,
         \A x \in D : g[x] \in Nat /\ k[x] \in Nat
  PROVE  /\ (\A x \in D : g[x] = k[x]) => SumOver(g, D) = SumOver(k, D)
         /\ (\A x \in D : g[x] <= k[x]) => SumOver(g, D) <= SumOver(k, D)
         /\ (SumOver(g, D) = 0 <=> \A x \in D : g[x] = 0)
         /\ \A s \in SUBSET D : (\A x \in D \ s : g[x] = 0) => SumOver(g, D) = SumOver(g, s)
<1> DEFINE Sums(f) == /\ SumOver(f, {}) = 0
                      /\ \A s \in SUBSET D : /\ SumOver(f, s) \in Nat
                                             /\ \A x \in s : SumOver(f, s) = SumOver(f, s \ {x}) + f[x]
<1>1. Sums(g) /\ Sums(k)
  BY SumFacts
<1>2. /\ SumOver(g, {}) = 0 /\ SumOver(k, {}) = 0
      /\ \A s \in SUBSET D : SumOver(g, s) \in Nat /\ SumOver(k, s) \in Nat
  BY <1>1
<1>3. ASSUME NEW s \in SUBSET D, NEW x \in s
      PROVE  /\ SumOver(g, s) = SumOver(g, s \ {x}) + g[x]
             /\ SumOver(k, s) = SumOver(k, s \ {x}) + k[x]
             /\ g[x] \in Nat /\ k[x] \in Nat /\ s \ {x} \in SUBSET D
  BY <1>1
<1> HIDE DEF Sums
<1>4. ASSUME \A x \in D : g[x] <= k[x]
      PROVE  SumOver(g, D) <= SumOver(k, D)
  <2> DEFINE S == {s \in SUBSET D : SumOver(g, s) <= SumOver(k, s)}
  <2>1. ASSUME NEW s \in SUBSET D, \A x \in s : s \ {x} \in S
        PROVE  s \in S
    <3>1. CASE s = {}
      BY <1>2, <3>1
    <3>2. ASSUME NEW x \in s
          PROVE  SumOver(g, s) <= SumOver(k, s)
      <4>1. SumOver(g, s \ {x}) <= SumOver(k, s \ {x}) /\ g[x] <= k[x]
        BY <1>4, <2>1
      <4>2. SumOver(g, s \ {x}) \in Nat /\ SumOver(k, s \ {x}) \in Nat
        BY <1>2, <1>3
      <4> QED
        BY <1>3, <4>1, <4>2
    <3> QED
      BY <3>1, <3>2
  <2>2. \A s \in SUBSET D : s \in S
    <3> HIDE DEF S
    <3> QED
      BY <2>1, SubsetInduct
  <2>3. D \in SUBSET D
    OBVIOUS
  <2> QED
    BY <2>2, <2>3
<1>5. ASSUME \A x \in D : g[x] = k[x]
      PROVE  SumOver(g, D) = SumOver(k, D)
  <2> DEFINE S == {s \in SUBSET D : SumOver(g, s) = SumOver(k, s)}
  <2>1. ASSUME NEW s \in SUBSET D, \A x \in s : s \ {x} \in S
        PROVE  s \in S
    <3>1. CASE s = {}
      BY <1>2, <3>1
    <3>2. ASSUME NEW x \in s
          PROVE  SumOver(g, s) = SumOver(k, s)
      <4>1. SumOver(g, s \ {x}) = SumOver(k, s \ {x}) /\ g[x] = k[x]
        BY <1>5, <2>1
      <4> QED
        BY <1>3, <4>1
    <3> QED
      BY <3>1, <3>2
  <2>2. \A s \in SUBSET D : s \in S
    <3> HIDE DEF S
    <3> QED
      BY <2>1, SubsetInduct
  <2>3. D \in SUBSET D
    OBVIOUS
  <2> QED
    BY <2>2, <2>3
<1>6. ASSUME SumOver(g, D) = 0, NEW x \in D
      PROVE  g[x] = 0
  <2>1. D \in SUBSET D
    OBVIOUS
  <2>2. SumOver(g, D) = SumOver(g, D \ {x}) + g[x] /\ g[x] \in Nat /\ D \ {x} \in SUBSET D
    BY <1>3, <2>1
  <2>3. SumOver(g, D \ {x}) \in Nat
    BY <1>2, <2>2
  <2> QED
    BY <1>6, <2>2, <2>3
<1>7. ASSUME NEW t \in SUBSET D, \A x \in D \ t : g[x] = 0
      PROVE  SumOver(g, D) = SumOver(g, t)
  <2> DEFINE S == {s \in SUBSET D : t \subseteq s => SumOver(g, s) = SumOver(g, t)}
  <2>1. ASSUME NEW s \in SUBSET D, \A x \in s : s \ {x} \in S
        PROVE  s \in S
    <3>1. CASE ~(t \subseteq s) \/ s = t
      BY <3>1
    <3>2. CASE t \subseteq s /\ s # t
      <4>1. PICK x \in s : x \notin t
        BY <3>2
      <4>2. s \ {x} \in S /\ t \subseteq s \ {x} /\ g[x] = 0
        BY <1>7, <2>1, <3>2, <4>1
      <4>3. SumOver(g, s \ {x}) = SumOver(g, t) /\ SumOver(g, t) \in Nat
        BY <1>2, <4>2
      <4> QED
        BY <1>3, <4>2, <4>3
    <3> QED
      BY <3>1, <3>2
  <2>2. \A s \in SUBSET D : s \in S
    <3> HIDE DEF S
    <3> QED
      BY <2>1, SubsetInduct
  <2>3. D \in SUBSET D
    OBVIOUS
  <2> QED
    BY <2>2, <2>3
<1>8. ASSUME \A x \in D : g[x] = 0
      PROVE  SumOver(g, D) = 0
  <2>1. {} \in SUBSET D
    OBVIOUS
  <2> QED
    BY <1>2, <1>7, <1>8, <2>1
<1> QED
  BY <1>4, <1>5, <1>6, <1>7, <1>8

-----------------------------------------------------------------------------
(* Folds                                                                   *)

(* A fold over a sequence takes its members in their order.                *)
LEMMA InitialSegments ==
  /\ 1..0 = {}
  /\ \A k \in Nat : /\ 1..(k + 1) # {} /\ Max(1..(k + 1)) = k + 1
                    /\ (1..(k + 1)) \ {k + 1} = 1..k
<1>1. ASSUME NEW k \in Nat
      PROVE  Max(1..(k + 1)) = k + 1
  <2>1. IsFiniteSet(1..(k + 1)) /\ 1..(k + 1) \subseteq Int /\ k + 1 \in 1..(k + 1)
    BY FS_Interval
  <2>2. Max(1..(k + 1)) \in 1..(k + 1) /\ \A x \in 1..(k + 1) : x <= Max(1..(k + 1))
    BY <2>1, Extremes
  <2> HIDE <2>2
  <2>3. Max(1..(k + 1)) \in 1..(k + 1) /\ k + 1 <= Max(1..(k + 1))
    BY <2>1, <2>2
  <2> QED
    BY <2>3
<1>2. ASSUME NEW k \in Nat
      PROVE  1..(k + 1) # {} /\ (1..(k + 1)) \ {k + 1} = 1..k
  <2>1. 1 \in 1..(k + 1)
    OBVIOUS
  <2>2. \A x : x \in (1..(k + 1)) \ {k + 1} <=> x \in 1..k
    OBVIOUS
  <2> QED
    BY <2>1, <2>2
<1>3. 1..0 = {}
  OBVIOUS
<1> QED
  BY <1>1, <1>2, <1>3

(* A sequence given by its first member and the way from each to the next, *)
(* up to a length.                                                         *)
Piles(h, n, seqs) ==
  h[0] = <<>> /\ \A k \in 0..(n - 1) : h[k + 1] = h[k] \o seqs[k + 1]

LEMMA FlattenFacts ==
  ASSUME NEW A, NEW seqs \in Seq(Seq(A))
  PROVE  \E h \in [0..Len(seqs) -> Seq(A)] :
           Piles(h, Len(seqs), seqs) /\ FlattenSeq(seqs) = h[Len(seqs)]
<1> DEFINE n == Len(seqs)
           G == [p \in Nat \X Seq(A) |-> IF p[1] < n THEN p[2] \o seqs[p[1] + 1] ELSE <<>>]
<1>1. n \in Nat /\ \A k \in 1..n : seqs[k] \in Seq(A)
  OBVIOUS
<1>2. G \in [Nat \X Seq(A) -> Seq(A)] /\ <<>> \in Seq(A)
  <2> HIDE DEF n
  <2>1. ASSUME NEW k \in Nat, NEW s \in Seq(A), k < n
        PROVE  s \o seqs[k + 1] \in Seq(A)
    <3>1. k + 1 \in 1..n
      BY <1>1, <2>1
    <3> QED
      BY <1>1, <3>1
  <2> QED
    BY <2>1
<1>3. PICK g \in [Nat -> Seq(A)] : Recurs(g, <<>>, G)
  <2> HIDE DEF G
  <2> QED
    BY <1>2, NatRecursion
<1>4. g[0] = <<>> /\ \A k \in 0..(n - 1) : g[k + 1] = g[k] \o seqs[k + 1]
  <2>1. ASSUME NEW k \in 0..(n - 1)
        PROVE  g[k + 1] = g[k] \o seqs[k + 1]
    <3> HIDE DEF n
    <3>1. k \in Nat /\ k < n /\ <<k, g[k]>> \in Nat \X Seq(A)
      BY <1>1
    <3>2. g[k + 1] = G[<<k, g[k]>>]
      BY <1>3, <3>1 DEF Recurs
    <3> QED
      BY <3>1, <3>2
  <2> QED
    BY <1>3, <2>1 DEF Recurs
<1> DEFINE h == [k \in 0..n |-> g[k]]
<1>5. h \in [0..n -> Seq(A)]
  OBVIOUS
<1>6. Piles(h, n, seqs)
  <2> HIDE DEF n
  <2>1. \A k \in 0..(n - 1) : k \in 0..n /\ k + 1 \in 0..n
    BY <1>1
  <2>2. 0 \in 0..n
    BY <1>1
  <2> QED
    BY <1>4, <2>1, <2>2 DEF Piles
<1>7. FlattenSeq(seqs) = g[n]
  <2>1. CASE n = 0
    <3>1. FlattenSeq(seqs) = seqs /\ seqs = <<>>
      BY <2>1 DEF FlattenSeq
    <3> QED
      BY <1>4, <2>1, <3>1
  <2>2. CASE n # 0
    <3> DEFINE Body(f) == [i \in 1..n |-> IF i = 1 THEN seqs[i] ELSE f[i - 1] \o seqs[i]]
               flatten == CHOOSE f : f = Body(f)
               first == [i \in 1..n |-> g[i]]
               S == {k \in Nat : k + 1 <= n => flatten[k + 1] = g[k + 1]}
    <3>1. FlattenSeq(seqs) = flatten[n]
      BY <2>2 DEF FlattenSeq
    <3>2. first = Body(first)
      <4>1. ASSUME NEW i \in 1..n
            PROVE  g[i] = IF i = 1 THEN seqs[i] ELSE first[i - 1] \o seqs[i]
        <5>1. i - 1 \in 0..(n - 1) /\ (i - 1) + 1 = i
          BY <1>1
        <5>2. g[i] = g[i - 1] \o seqs[i]
          BY <1>4, <5>1
        <5>3. CASE i = 1
          <6>1. g[0] \o seqs[1] = seqs[1]
            BY <1>1, <1>4, <5>3
          <6>2. g[i] = g[0] \o seqs[1] /\ seqs[i] = seqs[1]
            BY <5>2, <5>3
          <6> QED
            BY <5>3, <6>1, <6>2
        <5>4. CASE i # 1
          <6>1. i - 1 \in 1..n
            BY <1>1, <5>4
          <6> QED
            BY <5>2, <5>4, <6>1
        <5> QED
          BY <5>3, <5>4
      <4> HIDE DEF n
      <4> QED
        BY <4>1
    <3>3. flatten = Body(flatten)
      <4> HIDE DEF Body, first
      <4> QED
        BY <3>2
    <3> HIDE DEF flatten, n
    <3>4. 0 \in S
      <4>1. flatten[1] = seqs[1]
        BY <1>1, <2>2, <3>3
      <4>2. 0 \in 0..(n - 1) /\ 1 \in 1..n
        BY <1>1, <2>2
      <4>3. g[0 + 1] = <<>> \o seqs[0 + 1] /\ seqs[1] \in Seq(A)
        BY <1>1, <1>4, <4>2
      <4>4. g[1] = seqs[1]
        BY <4>3
      <4> QED
        BY <4>1, <4>4
    <3>5. ASSUME NEW k \in Nat, k \in S
          PROVE  k + 1 \in S
      <4>1. SUFFICES ASSUME (k + 1) + 1 <= n
                     PROVE  flatten[(k + 1) + 1] = g[(k + 1) + 1]
        OBVIOUS
      <4>2. /\ (k + 1) + 1 \in 1..n /\ (k + 1) + 1 # 1 /\ ((k + 1) + 1) - 1 = k + 1
            /\ k + 1 \in 0..(n - 1) /\ k + 1 <= n
        BY <1>1, <4>1
      <4>3. flatten[(k + 1) + 1] = flatten[k + 1] \o seqs[(k + 1) + 1]
        BY <3>3, <4>2
      <4>4. g[(k + 1) + 1] = g[k + 1] \o seqs[(k + 1) + 1]
        BY <1>4, <4>2
      <4> QED
        BY <3>5, <4>2, <4>3, <4>4
    <3>6. \A k \in Nat : k \in S
      <4> HIDE DEF S
      <4> QED
        BY <3>4, <3>5, NatInduct
    <3>7. n - 1 \in Nat /\ (n - 1) + 1 = n
      BY <1>1, <2>2
    <3>8. flatten[n] = g[n]
      <4>1. n - 1 \in S
        BY <3>6, <3>7
      <4>2. flatten[(n - 1) + 1] = g[(n - 1) + 1]
        BY <1>1, <3>7, <4>1
      <4> QED
        BY <3>7, <4>2
    <3> QED
      BY <3>1, <3>8
  <2> QED
    BY <2>1, <2>2
<1> HIDE DEF n
<1>8. FlattenSeq(seqs) = h[n]
  BY <1>1, <1>7
<1> HIDE DEF h
<1> QED
  BY <1>5, <1>6, <1>8 DEF n

-----------------------------------------------------------------------------
(* How many members of a sequence are in a set                             *)

Among(s, T) == Cardinality({k \in DOMAIN s : s[k] \in T})

LEMMA AmongFacts ==
  ASSUME NEW A, NEW s \in Seq(A), NEW T
  PROVE  /\ IsFiniteSet({k \in DOMAIN s : s[k] \in T})
         /\ Among(s, T) \in Nat /\ Among(s, T) <= Len(s)
         /\ (Among(s, T) = 0 <=> \A k \in DOMAIN s : s[k] \notin T)
         /\ (\A k \in DOMAIN s : s[k] \in T) => Among(s, T) = Len(s)
<1> DEFINE I == {k \in DOMAIN s : s[k] \in T}
<1>1. Len(s) \in Nat /\ DOMAIN s = 1..Len(s)
  OBVIOUS
<1>2. IsFiniteSet(1..Len(s)) /\ Cardinality(1..Len(s)) = Len(s)
  BY <1>1, FS_Interval
<1>3. I \in SUBSET (1..Len(s))
  BY <1>1
<1>4. (\A k \in DOMAIN s : s[k] \in T) => I = 1..Len(s)
  BY <1>1
<1>5. I = {} <=> \A k \in DOMAIN s : s[k] \notin T
  OBVIOUS
<1>6. Among(s, T) = Cardinality(I)
  BY DEF Among
<1> HIDE DEF I
<1>7. IsFiniteSet(I) /\ Cardinality(I) <= Len(s)
  BY <1>2, <1>3, FS_Subset
<1>8. Cardinality(I) \in Nat /\ (Cardinality(I) = 0 <=> I = {})
  BY <1>7, FS_CardinalityType, FS_EmptySet
<1>9. IsFiniteSet({k \in DOMAIN s : s[k] \in T})
  BY <1>7 DEF I
<1> QED
  BY <1>2, <1>4, <1>5, <1>6, <1>7, <1>8, <1>9

LEMMA AmongConcat ==
  ASSUME NEW A, NEW s \in Seq(A), NEW t \in Seq(A), NEW T
  PROVE  Among(s \o t, T) = Among(s, T) + Among(t, T)
<1> DEFINE m == Len(s)
           n == Len(t)
           I == {k \in 1..m : s[k] \in T}
           J == {k \in 1..n : t[k] \in T}
           K == {k \in 1..(m + n) : (s \o t)[k] \in T}
           J2 == {k \in (m + 1)..(m + n) : t[k - m] \in T}
           shift == [k \in J |-> m + k]
<1>1. /\ m \in Nat /\ n \in Nat /\ DOMAIN s = 1..m /\ DOMAIN t = 1..n
      /\ DOMAIN (s \o t) = 1..(m + n)
  OBVIOUS
<1>2. \A k \in 1..(m + n) : (s \o t)[k] = IF k <= m THEN s[k] ELSE t[k - m]
  OBVIOUS
<1>3. Among(s, T) = Cardinality(I) /\ Among(t, T) = Cardinality(J) /\ Among(s \o t, T) = Cardinality(K)
  BY <1>1 DEF Among
<1>4. IsFiniteSet(I) /\ IsFiniteSet(J) /\ IsFiniteSet(J2)
  <2>1. IsFiniteSet(1..m) /\ IsFiniteSet(1..n) /\ IsFiniteSet((m + 1)..(m + n))
    BY <1>1, FS_Interval
  <2>2. I \in SUBSET (1..m) /\ J \in SUBSET (1..n) /\ J2 \in SUBSET ((m + 1)..(m + n))
    OBVIOUS
  <2> HIDE DEF I, J, J2
  <2> QED
    BY <2>1, <2>2, FS_Subset
<1> HIDE DEF m, n
<1>5. K = I \cup J2
  BY <1>1, <1>2
<1>6. I \cap J2 = {}
  BY <1>1
<1>7. Cardinality(J2) = Cardinality(J)
  <2>1. shift \in [J -> J2]
    BY <1>1
  <2>2. \A x, y \in J : shift[x] = shift[y] => x = y
    BY <1>1
  <2>3. ASSUME NEW y \in J2
        PROVE  \E x \in J : shift[x] = y
    <3>1. y - m \in J /\ m + (y - m) = y
      BY <1>1
    <3> QED
      BY <3>1
  <2> HIDE DEF shift, J, J2
  <2>4. shift \in Bijection(J, J2)
    BY <2>1, <2>2, <2>3 DEF Bijection, Injection, Surjection, IsInjective
  <2>5. ExistsBijection(J, J2)
    BY <2>4 DEF ExistsBijection
  <2> QED
    BY <1>4, <2>5, FS_Bijection
<1> HIDE DEF I, J, J2, K
<1>8. Cardinality(K) = Cardinality(I) + Cardinality(J2) - Cardinality(I \cap J2)
  BY <1>4, <1>5, FS_Union
<1>9. Cardinality(I \cap J2) = 0 /\ Cardinality(I) \in Nat /\ Cardinality(J2) \in Nat
  BY <1>4, <1>6, FS_EmptySet, FS_CardinalityType
<1> QED
  BY <1>3, <1>7, <1>8, <1>9

LEMMA AmongOne ==
  ASSUME NEW e, NEW T
  PROVE  Among(<<e>>, T) = IF e \in T THEN 1 ELSE 0
<1>1. {k \in DOMAIN <<e>> : <<e>>[k] \in T} = IF e \in T THEN {1} ELSE {}
  OBVIOUS
<1> QED
  BY <1>1, FS_Singleton, FS_EmptySet DEF Among

LEMMA AmongAppend ==
  ASSUME NEW A, NEW s \in Seq(A), NEW e \in A, NEW T
  PROVE  /\ Among(Append(s, e), T) = Among(s, T) + (IF e \in T THEN 1 ELSE 0)
         /\ Among(<<e>> \o s, T) = Among(s, T) + (IF e \in T THEN 1 ELSE 0)
<1>1. Append(s, e) = s \o <<e>> /\ <<e>> \in Seq(A)
  OBVIOUS
<1>2. Among(s \o <<e>>, T) = Among(s, T) + Among(<<e>>, T)
  BY <1>1, AmongConcat
<1>3. Among(<<e>> \o s, T) = Among(<<e>>, T) + Among(s, T)
  BY <1>1, AmongConcat
<1>4. Among(<<e>>, T) = IF e \in T THEN 1 ELSE 0
  BY AmongOne
<1>5. Among(s, T) \in Nat
  BY AmongFacts
<1> QED
  BY <1>1, <1>2, <1>3, <1>4, <1>5

(* Those in a set are those that are each of its members.                  *)
LEMMA AmongSum ==
  ASSUME NEW A, NEW s \in Seq(A), NEW T, IsFiniteSet(T), NEW g, \A x \in T : g[x] = Among(s, {x})
  PROVE  Among(s, T) = SumOver(g, T)
<1> DEFINE S == {t \in SUBSET T : Among(s, t) = SumOver(g, t)}
<1>1. \A t : Among(s, t) \in Nat /\ IsFiniteSet({k \in DOMAIN s : s[k] \in t})
  BY AmongFacts
<1>2. \A x \in T : g[x] \in Nat
  BY <1>1
<1>3. ASSUME NEW t \in SUBSET T, \A x \in t : t \ {x} \in S
      PROVE  t \in S
  <2>1. CASE t = {}
    <3>1. Among(s, {}) = 0
      BY AmongFacts
    <3>2. SumOver(g, {}) = 0
      BY <1>2, SumFacts
    <3> QED
      BY <2>1, <3>1, <3>2
  <2>2. ASSUME NEW x \in t
        PROVE  Among(s, t) = SumOver(g, t)
    <3> DEFINE I == {k \in DOMAIN s : s[k] \in t \ {x}}
               J == {k \in DOMAIN s : s[k] \in {x}}
               K == {k \in DOMAIN s : s[k] \in t}
    <3>1. K = I \cup J /\ I \cap J = {}
      OBVIOUS
    <3>2. IsFiniteSet(I) /\ IsFiniteSet(J)
      BY <1>1
    <3>3. /\ Among(s, t) = Cardinality(K) /\ Among(s, t \ {x}) = Cardinality(I)
          /\ Among(s, {x}) = Cardinality(J)
      BY DEF Among
    <3> HIDE DEF I, J, K
    <3>4. Cardinality(K) = Cardinality(I) + Cardinality(J) - Cardinality(I \cap J)
      BY <3>1, <3>2, FS_Union
    <3>5. Cardinality(I \cap J) = 0 /\ Cardinality(I) \in Nat /\ Cardinality(J) \in Nat
      BY <3>1, <3>2, FS_EmptySet, FS_CardinalityType
    <3>6. Among(s, t) = Among(s, t \ {x}) + Among(s, {x})
      BY <3>3, <3>4, <3>5
    <3>7. Among(s, t \ {x}) = SumOver(g, t \ {x}) /\ g[x] = Among(s, {x})
      BY <1>3
    <3>8. SumOver(g, t) = SumOver(g, t \ {x}) + g[x]
      BY <1>2, SumFacts
    <3> QED
      BY <3>6, <3>7, <3>8
  <2> QED
    BY <2>1, <2>2
<1>4. \A t \in SUBSET T : t \in S
  <2> HIDE DEF S
  <2> QED
    BY <1>3, SubsetInduct
<1>5. T \in SUBSET T
  OBVIOUS
<1> QED
  BY <1>4, <1>5

(* Of what is in order, as much of everything is the same.                 *)
Ascends(s, rank) == \A i, j \in DOMAIN s : i < j => rank[s[i]] <= rank[s[j]]

LEMMA LastIsGreatest ==
  ASSUME NEW A, NEW rank \in [A -> Int], NEW s \in Seq(A), NEW e \in A, Ascends(Append(s, e), rank)
  PROVE  /\ Ascends(s, rank)
         /\ \A d \in A : Among(Append(s, e), {d}) # 0 => rank[d] <= rank[e]
<1> DEFINE t == Append(s, e)
           n == Len(s)
<1>1. /\ t \in Seq(A) /\ DOMAIN s = 1..n /\ DOMAIN t = 1..(n + 1) /\ n \in Nat
      /\ \A i \in 1..n : t[i] = s[i] /\ t[n + 1] = e
  OBVIOUS
<1>2. t[n + 1] = e
  OBVIOUS
<1> HIDE DEF t, n
<1>3. \A i, j \in DOMAIN t : i < j => rank[t[i]] <= rank[t[j]]
  BY DEF Ascends, t
<1>4. Ascends(s, rank)
  BY <1>1, <1>3 DEF Ascends
<1>5. ASSUME NEW d \in A, Among(t, {d}) # 0
      PROVE  rank[d] <= rank[e]
  <2>1. PICK k \in DOMAIN t : t[k] \in {d}
    BY <1>1, <1>5, AmongFacts
  <2>2. CASE k = n + 1
    BY <1>2, <2>1, <2>2
  <2>3. CASE k # n + 1
    <3>1. k \in DOMAIN t /\ n + 1 \in DOMAIN t /\ k < n + 1
      BY <1>1, <2>1, <2>3
    <3> QED
      BY <1>2, <1>3, <2>1, <3>1
  <2> QED
    BY <2>2, <2>3
<1> QED
  BY <1>4, <1>5 DEF t

LEMMA AscendingIsOne ==
  ASSUME NEW A, NEW rank \in [A -> Int], \A x, y \in A : rank[x] = rank[y] => x = y
  PROVE  \A s, t \in Seq(A) :
           /\ Ascends(s, rank) /\ Ascends(t, rank)
           /\ \A d \in A : Among(s, {d}) = Among(t, {d})
           => s = t
<1> DEFINE Alike(s, t) == /\ Ascends(s, rank) /\ Ascends(t, rank)
                          /\ \A d \in A : Among(s, {d}) = Among(t, {d})
           all == Seq(A)
           S == {n \in Nat : \A s, t \in all : Len(s) = n /\ Alike(s, t) => s = t}
<1>1. \A s \in all : s # <<>> => \E s0 \in all, e \in A : s = Append(s0, e)
  BY SequenceEmptyOrAppend
<1>2. ASSUME NEW s \in all, \A d \in A : Among(s, {d}) = 0
      PROVE  s = <<>>
  <2>1. ASSUME s # <<>>
        PROVE  FALSE
    <3>1. 1 \in DOMAIN s /\ s[1] \in A
      BY <2>1
    <3>2. Among(s, {s[1]}) = 0
      BY <1>2, <3>1
    <3> QED
      BY <3>1, <3>2, AmongFacts
  <2> QED
    BY <2>1
<1>3. \A d : Among(<<>>, {d}) = 0
  <2>1. \A d : {k \in DOMAIN <<>> : <<>>[k] \in {d}} = {}
    OBVIOUS
  <2> QED
    BY <2>1, FS_EmptySet DEF Among
<1>4. 0 \in S
  <2>1. ASSUME NEW s \in all, NEW t \in all, Len(s) = 0, Alike(s, t)
        PROVE  s = t
    <3>1. s = <<>>
      BY <2>1
    <3>2. \A d \in A : Among(t, {d}) = 0
      BY <1>3, <2>1, <3>1
    <3> QED
      BY <1>2, <3>1, <3>2
  <2> QED
    BY <2>1
<1>5. ASSUME NEW n \in Nat, n \in S
      PROVE  n + 1 \in S
  <2>1. ASSUME NEW s \in all, NEW t \in all, Len(s) = n + 1, Alike(s, t)
        PROVE  s = t
    <3>1. s # <<>>
      BY <2>1
    <3>2. PICK s0 \in all, e \in A : s = Append(s0, e)
      BY <1>1, <3>1
    <3>3. t # <<>>
      <4>1. \A d \in A : Among(s, {d}) = Among(t, {d})
        BY <2>1
      <4> QED
        BY <1>2, <1>3, <3>1, <4>1
    <3>4. PICK t0 \in all, f \in A : t = Append(t0, f)
      BY <1>1, <3>3
    <3>5. /\ Ascends(s0, rank) /\ \A d \in A : Among(s, {d}) # 0 => rank[d] <= rank[e]
          /\ Ascends(t0, rank) /\ \A d \in A : Among(t, {d}) # 0 => rank[d] <= rank[f]
      BY <2>1, <3>2, <3>4, LastIsGreatest
    <3> DEFINE Has(u, d) == Among(u, {d})
    <3>6. ASSUME NEW d \in A
          PROVE  /\ Has(s, d) = Has(s0, d) + (IF e = d THEN 1 ELSE 0)
                 /\ Has(t, d) = Has(t0, d) + (IF f = d THEN 1 ELSE 0)
                 /\ Has(s0, d) \in Nat /\ Has(t0, d) \in Nat
      <4> DEFINE T == {d}
      <4>1. (e \in T <=> e = d) /\ (f \in T <=> f = d)
        OBVIOUS
      <4> HIDE DEF T
      <4>2. /\ Among(s, T) = Among(s0, T) + (IF e \in T THEN 1 ELSE 0)
            /\ Among(t, T) = Among(t0, T) + (IF f \in T THEN 1 ELSE 0)
        BY <3>2, <3>4, AmongAppend
      <4>3. Among(s0, T) \in Nat /\ Among(t0, T) \in Nat
        BY AmongFacts
      <4> QED
        BY <4>1, <4>2, <4>3 DEF T
    <3>7. /\ \A d \in A : Has(s, d) = Has(t, d)
          /\ \A d \in A : Has(s, d) # 0 => rank[d] <= rank[e]
          /\ \A d \in A : Has(t, d) # 0 => rank[d] <= rank[f]
      BY <2>1, <3>5
    <3> HIDE DEF Has
    <3>8. e = f
      <4>1. Has(s, e) # 0 /\ Has(t, f) # 0
        BY <3>6
      <4>2. rank[e] <= rank[f] /\ rank[f] <= rank[e] /\ rank[e] \in Int /\ rank[f] \in Int
        BY <3>7, <4>1
      <4> QED
        BY <4>2
    <3>9. \A d \in A : Among(s0, {d}) = Among(t0, {d})
      <4>1. ASSUME NEW d \in A
            PROVE  Has(s0, d) = Has(t0, d)
        <5>1. /\ Has(s, d) = Has(s0, d) + (IF e = d THEN 1 ELSE 0)
              /\ Has(t, d) = Has(t0, d) + (IF f = d THEN 1 ELSE 0)
              /\ Has(s0, d) \in Nat /\ Has(t0, d) \in Nat
          BY <3>6
        <5>2. Has(s, d) = Has(t, d)
          BY <3>7
        <5> QED
          BY <3>8, <5>1, <5>2
      <4> QED
        BY <4>1 DEF Has
    <3>10. Len(s0) = n
      BY <2>1, <3>2
    <3>11. s0 = t0
      BY <1>5, <3>5, <3>9, <3>10
    <3> QED
      BY <3>2, <3>4, <3>8, <3>11
  <2> HIDE DEF Alike
  <2> QED
    BY <2>1
<1>6. \A n \in Nat : n \in S
  <2> HIDE DEF S
  <2> QED
    BY <1>4, <1>5, NatInduct
<1>7. \A s \in all : Len(s) \in Nat
  OBVIOUS
<1> QED
  BY <1>6, <1>7

-----------------------------------------------------------------------------
(* Order                                                                   *)

(* In a strict total order of a finite set the members have the places 0,  *)
(* 1 and so on, each of them one.                                          *)
LEMMA RankFacts ==
  ASSUME NEW S, IsFiniteSet(S), NEW R,
         \A x \in S : <<x, x>> \notin R,
         \A x, y, z \in S : <<x, y>> \in R /\ <<y, z>> \in R => <<x, z>> \in R,
         \A x, y \in S : x # y => <<x, y>> \in R \/ <<y, x>> \in R
  PROVE  /\ \A x \in S : Cardinality({y \in S : <<y, x>> \in R}) \in 0..(Cardinality(S) - 1)
         /\ \A x, y \in S : <<x, y>> \in R <=>
              Cardinality({z \in S : <<z, x>> \in R}) < Cardinality({z \in S : <<z, y>> \in R})
         /\ \A x, y \in S :
              Cardinality({z \in S : <<z, x>> \in R}) = Cardinality({z \in S : <<z, y>> \in R})
                => x = y
         /\ \A k \in 1..Cardinality(S) :
              \E x \in S : Cardinality({y \in S : <<y, x>> \in R}) = k - 1
<1> DEFINE below == [x \in S |-> {y \in S : <<y, x>> \in R}]
           rank == [x \in S |-> Cardinality(below[x])]
           last == Cardinality(S) - 1
<1>1. Cardinality(S) \in Nat
  BY FS_CardinalityType
<1>2. \A x \in S : IsFiniteSet(below[x]) /\ below[x] \subseteq S \ {x}
  BY FS_Subset
<1>3. \A x \in S : rank[x] \in Nat /\ rank[x] <= last
  <2>1. TAKE x \in S
  <2>2. IsFiniteSet(S \ {x}) /\ Cardinality(S \ {x}) = last
    BY FS_RemoveElement
  <2>3. below[x] \in SUBSET (S \ {x})
    BY <1>2
  <2> HIDE DEF below
  <2>4. Cardinality(below[x]) <= Cardinality(S \ {x})
    BY <2>2, <2>3, FS_Subset
  <2>5. Cardinality(below[x]) \in Nat
    BY <1>2, FS_CardinalityType
  <2> QED
    BY <2>2, <2>4, <2>5
<1>4. ASSUME NEW x \in S, NEW y \in S, <<x, y>> \in R
      PROVE  rank[x] < rank[y]
  <2>1. below[x] \cup {x} \subseteq below[y]
    BY <1>4
  <2>2. IsFiniteSet(below[x] \cup {x}) /\ Cardinality(below[x] \cup {x}) = rank[x] + 1
    <3>1. x \notin below[x]
      BY <1>2
    <3> QED
      BY <1>2, <3>1, FS_AddElement
  <2>3. rank[x] + 1 <= rank[y]
    <3> DEFINE more == below[x] \cup {x}
    <3>1. more \in SUBSET below[y] /\ IsFiniteSet(below[y])
      BY <1>2, <2>1
    <3> HIDE DEF more, below
    <3>2. Cardinality(more) <= Cardinality(below[y])
      BY <3>1, FS_Subset
    <3> QED
      BY <2>2, <3>2 DEF more
  <2> QED
    BY <1>3, <2>3
<1>5. ASSUME NEW x \in S, NEW y \in S
      PROVE  /\ rank[x] < rank[y] => <<x, y>> \in R
             /\ rank[x] = rank[y] => x = y
  <2>1. x # y => <<x, y>> \in R \/ <<y, x>> \in R
    OBVIOUS
  <2>2. rank[x] \in Int /\ rank[y] \in Int
    BY <1>3
  <2>3. <<y, x>> \in R => rank[y] < rank[x]
    BY <1>4
  <2>4. <<x, y>> \in R => rank[x] < rank[y]
    BY <1>4
  <2> HIDE DEF rank
  <2> QED
    BY <2>1, <2>2, <2>3, <2>4
<1>6. rank \in Surjection(S, 0..last)
  <2>1. rank \in Injection(S, 0..last)
    <3>1. rank \in [S -> 0..last]
      BY <1>1, <1>3
    <3> HIDE DEF rank
    <3> QED
      BY <1>5, <3>1 DEF Injection, IsInjective
  <2>2. IsFiniteSet(0..last) /\ Cardinality(0..last) = Cardinality(S)
    <3>1. 0 \in Int /\ last \in Int /\ (0 > last <=> Cardinality(S) = 0)
      BY <1>1
    <3> QED
      BY <1>1, <3>1, FS_Interval
  <2> QED
    BY <2>1, <2>2, FS_Injection
<1>7. \A k \in 1..Cardinality(S) : \E x \in S : rank[x] = k - 1
  <2>1. \A k \in 1..Cardinality(S) : k - 1 \in 0..last
    BY <1>1
  <2> HIDE DEF rank
  <2> QED
    BY <1>6, <2>1 DEF Surjection
<1>8. \A x \in S : rank[x] = Cardinality({y \in S : <<y, x>> \in R})
  OBVIOUS
<1>9. \A x \in S : rank[x] \in 0..last
  BY <1>1, <1>3
<1> HIDE DEF rank
<1> QED
  <2>1. \A x, y \in S : <<x, y>> \in R <=> rank[x] < rank[y]
    BY <1>4, <1>5
  <2>2. \A x, y \in S : rank[x] = rank[y] => x = y
    BY <1>5
  <2>3. \A x, y \in S : <<x, y>> \in R <=>
          Cardinality({z \in S : <<z, x>> \in R}) < Cardinality({z \in S : <<z, y>> \in R})
    BY <1>8, <2>1
  <2>4. \A x, y \in S :
          Cardinality({z \in S : <<z, x>> \in R}) = Cardinality({z \in S : <<z, y>> \in R})
            => x = y
    BY <1>8, <2>2
  <2>5. \A x \in S : Cardinality({y \in S : <<y, x>> \in R}) \in 0..(Cardinality(S) - 1)
    BY <1>8, <1>9
  <2>6. \A k \in 1..Cardinality(S) :
          \E x \in S : Cardinality({y \in S : <<y, x>> \in R}) = k - 1
    BY <1>7, <1>8
  <2> QED
    BY <2>3, <2>4, <2>5, <2>6

-----------------------------------------------------------------------------
(* Sequences and their prefixes                                            *)

(* One sequence is a prefix of another when they agree as far as it goes. *)
LEMMA PrefixPointwise ==
  ASSUME NEW S, NEW s \in Seq(S), NEW t \in Seq(S)
  PROVE  IsPrefix(s, t) <=> Len(s) <= Len(t) /\ \A i \in 1..Len(s) : s[i] = t[i]
  <1>1. CASE ~(Len(s) <= Len(t))
    BY <1>1 DEF IsPrefix
  <1>2. CASE Len(s) <= Len(t)
    <2>1. SubSeq(s, 1, Len(s)) = s
      BY SubSeqFull
    <2>2. /\ SubSeq(t, 1, Len(s)) \in Seq(S)
          /\ Len(SubSeq(t, 1, Len(s))) = Len(s)
          /\ \A i \in 1..Len(s) : SubSeq(t, 1, Len(s))[i] = t[i]
      BY <1>2, SubSeqProperties, LenProperties
    <2>3. s = SubSeq(t, 1, Len(s)) <=> \A i \in 1..Len(s) : s[i] = t[i]
      BY <2>2, SeqEqual
    <2>4. QED
      BY <1>2, <2>1, <2>3 DEF IsPrefix
  <1>3. QED
    BY <1>1, <1>2

(* What lies below the end of a sequence that grew is what it was.         *)
LEMMA AppendFacts ==
  ASSUME NEW S, NEW s \in Seq(S), NEW x \in S
  PROVE  /\ Append(s, x) \in Seq(S)
         /\ Len(Append(s, x)) = Len(s) + 1
         /\ Front(Append(s, x)) = s
         /\ \A i \in 1..Len(s) : SubSeq(Append(s, x), 1, i) = SubSeq(s, 1, i)
         /\ SubSeq(Append(s, x), 1, Len(s) + 1) = Append(s, x)
  <1>1. /\ Append(s, x) \in Seq(S)
        /\ Len(Append(s, x)) = Len(s) + 1
        /\ \A i \in 1..Len(s) : Append(s, x)[i] = s[i]
    BY AppendProperties
  <1>2. \A i \in 0..Len(s) : SubSeq(Append(s, x), 1, i) = SubSeq(s, 1, i)
    <2>1. TAKE i \in 0..Len(s)
    <2> DEFINE a == SubSeq(Append(s, x), 1, i)
               b == SubSeq(s, 1, i)
    <2>2. /\ a \in Seq(S) /\ Len(a) = i
          /\ \A j \in 1..i : a[j] = Append(s, x)[j]
      BY <1>1, SubSeqProperties, LenProperties
    <2>3. /\ b \in Seq(S) /\ Len(b) = i
          /\ \A j \in 1..i : b[j] = s[j]
      BY SubSeqProperties, LenProperties
    <2>4. \A j \in 1..i : a[j] = b[j]
      BY <1>1, <2>2, <2>3, LenProperties
    <2> HIDE DEF a, b
    <2>5. a = b
      BY <2>2, <2>3, <2>4, SeqEqual
    <2>6. QED
      BY <2>5 DEF a, b
  <1>3. Front(Append(s, x)) = s
    <2>1. Len(s) \in Nat
      BY LenProperties
    <2>2. SubSeq(Append(s, x), 1, Len(s)) = SubSeq(s, 1, Len(s))
      BY <1>2, <2>1
    <2>3. Len(Append(s, x)) - 1 = Len(s)
      BY <1>1, <2>1
    <2>4. QED
      BY <2>2, <2>3, SubSeqFull DEF Front
  <1>4. SubSeq(Append(s, x), 1, Len(s) + 1) = Append(s, x)
    BY <1>1, SubSeqFull
  <1>5. QED
    BY <1>1, <1>2, <1>3, <1>4, LenProperties

(* Being a prefix is an order, and a sequence only gains prefixes.         *)
LEMMA PrefixOrder ==
  ASSUME NEW S
  PROVE
  /\ \A s \in Seq(S) : IsPrefix(s, s) /\ IsPrefix(<<>>, s)
  /\ \A s, t, u \in Seq(S) : IsPrefix(s, t) /\ IsPrefix(t, u) => IsPrefix(s, u)
  /\ \A s, t \in Seq(S) : IsPrefix(s, t) => Len(s) <= Len(t)
  /\ \A s, t \in Seq(S) : IsPrefix(s, t) /\ Len(s) = Len(t) => s = t
  /\ \A s, t \in Seq(S) :
       IsPrefix(s, t) => \A i \in 1..Len(s) : SubSeq(s, 1, i) = SubSeq(t, 1, i)
  /\ \A s \in Seq(S), x \in S : IsPrefix(s, Append(s, x))
  /\ \A s \in Seq(S) : \A i \in 1..Len(s) :
       SubSeq(s, 1, i) \in Seq(S) /\ IsPrefix(SubSeq(s, 1, i), s)
  <1>1. \A s \in Seq(S) : IsPrefix(s, s)
    BY PrefixPointwise
  <1>2. \A s \in Seq(S) : IsPrefix(<<>>, s)
    <2>1. TAKE s \in Seq(S)
    <2>2. Len(<<>>) = 0 /\ Len(s) \in Nat
      BY EmptySeq, LenProperties
    <2>3. SubSeq(<<>>, 1, 0) = <<>> /\ SubSeq(s, 1, 0) = <<>>
      BY SubSeqEmpty
    <2>4. QED
      BY <2>2, <2>3 DEF IsPrefix
  <1>3. \A s, t \in Seq(S) : IsPrefix(s, t) => Len(s) <= Len(t)
    BY PrefixPointwise
  <1>4. \A s, t, u \in Seq(S) : IsPrefix(s, t) /\ IsPrefix(t, u) => IsPrefix(s, u)
    <2>1. \A p, q \in Seq(S) :
            IsPrefix(p, q) <=> Len(p) <= Len(q) /\ \A i \in 1..Len(p) : p[i] = q[i]
      BY PrefixPointwise
    <2>2. QED
      BY <2>1, LenProperties
  <1>5. \A s, t \in Seq(S) : IsPrefix(s, t) /\ Len(s) = Len(t) => s = t
    BY PrefixPointwise, SeqEqual
  <1>6. \A s \in Seq(S), x \in S : IsPrefix(s, Append(s, x))
    <2>1. TAKE s \in Seq(S), x \in S
    <2> DEFINE a == Append(s, x)
    <2>2. a \in Seq(S) /\ Len(a) = Len(s) + 1 /\ \A i \in 1..Len(s) : a[i] = s[i]
      BY AppendProperties
    <2>3. \A p, q \in Seq(S) :
            IsPrefix(p, q) <=> Len(p) <= Len(q) /\ \A i \in 1..Len(p) : p[i] = q[i]
      BY PrefixPointwise
    <2>4. Len(s) \in Nat
      BY LenProperties
    <2> HIDE DEF a
    <2>5. IsPrefix(s, a)
      BY <2>2, <2>3, <2>4
    <2>6. QED
      BY <2>5 DEF a
  <1>7. ASSUME NEW s \in Seq(S), NEW t \in Seq(S), IsPrefix(s, t),
               NEW i \in 1..Len(s)
        PROVE  SubSeq(s, 1, i) = SubSeq(t, 1, i)
    <2> DEFINE a == SubSeq(s, 1, i)
               b == SubSeq(t, 1, i)
    <2>1. Len(s) <= Len(t) /\ \A j \in 1..Len(s) : s[j] = t[j]
      BY <1>7, PrefixPointwise
    <2>2. i \in 1..Len(t) /\ i \in Nat
      BY <2>1, LenProperties
    <2>3. a \in Seq(S) /\ Len(a) = i /\ \A j \in 1..i : a[j] = s[j]
      BY <2>2, SubSeqProperties, LenProperties
    <2>4. b \in Seq(S) /\ Len(b) = i /\ \A j \in 1..i : b[j] = t[j]
      BY <2>2, SubSeqProperties, LenProperties
    <2>5. \A j \in 1..i : a[j] = b[j]
      BY <2>1, <2>3, <2>4, LenProperties
    <2> HIDE DEF a, b
    <2>6. a = b
      BY <2>3, <2>4, <2>5, SeqEqual
    <2>7. QED
      BY <2>6 DEF a, b
  <1>8. ASSUME NEW s \in Seq(S), NEW i \in 1..Len(s)
        PROVE  SubSeq(s, 1, i) \in Seq(S) /\ IsPrefix(SubSeq(s, 1, i), s)
    <2> DEFINE a == SubSeq(s, 1, i)
    <2>1. i \in Nat /\ i <= Len(s) /\ Len(s) \in Nat
      BY LenProperties
    <2>2. a \in Seq(S) /\ Len(a) = i /\ \A j \in 1..i : a[j] = s[j]
      BY <2>1, SubSeqProperties, LenProperties
    <2> HIDE DEF a
    <2>3. IsPrefix(a, s)
      BY <2>1, <2>2, PrefixPointwise
    <2>4. QED
      BY <2>2, <2>3 DEF a
  <1>9. QED
    BY <1>1, <1>2, <1>3, <1>4, <1>5, <1>6, <1>7, <1>8

(* The front of a prefix is the prefix one shorter.                        *)
LEMMA FrontOfPrefix ==
  ASSUME NEW S, NEW s \in Seq(S), NEW i \in Nat, i > 0, i < Len(s)
  PROVE  Front(SubSeq(s, 1, i + 1)) = SubSeq(s, 1, i)
  <1> DEFINE longer  == SubSeq(s, 1, i + 1)
             shorter == SubSeq(s, 1, i)
             front   == SubSeq(longer, 1, i)
  <1>1. Len(s) \in Nat
    BY LenProperties
  <1>2. /\ longer \in Seq(S) /\ Len(longer) = i + 1 /\ \A j \in 1..i + 1 : longer[j] = s[j]
        /\ shorter \in Seq(S) /\ Len(shorter) = i /\ \A j \in 1..i : shorter[j] = s[j]
    BY <1>1, SubSeqProperties
  <1> HIDE DEF longer, shorter
  <1>3. front \in Seq(S) /\ Len(front) = i /\ \A j \in 1..i : front[j] = longer[j]
    BY <1>1, <1>2, SubSeqProperties
  <1>4. Front(longer) = front
    BY <1>2 DEF Front
  <1> HIDE DEF front
  <1>5. front = shorter
    BY <1>2, <1>3, SeqEqual
  <1>6. QED
    BY <1>4, <1>5 DEF longer, shorter
=============================================================================
