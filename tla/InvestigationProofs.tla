------------------------ MODULE InvestigationProofs -------------------------
(***************************************************************************)
(* Theorems about what is answered from a history (Investigation): the     *)
(* graph of relationships and its walks, the delta of two reports and what *)
(* the history says of them, the books of a lineage, its episodes,         *)
(* timeline and windows, and the replay of evidence, for reports,          *)
(* histories and graphs of any size.                                       *)
(***************************************************************************)
EXTENDS Investigation, Facts

-----------------------------------------------------------------------------
(* What is within so many steps                                            *)

(* Where one step leads from any of some places.                           *)
Onward(arrows, places) == {arrow[2] : arrow \in {a \in arrows : a[1] \in places}}

(* Within is what its recursion says.                                      *)
LEMMA WithinFacts ==
  ASSUME NEW f, NEW arrows
  PROVE  /\ Within(f, 0, arrows) = {f}
         /\ \A n \in Nat : Within(f, n + 1, arrows)
              = Within(f, n, arrows) \cup Onward(arrows, Within(f, n, arrows))
<1> DEFINE all == SUBSET ({f} \cup {a[2] : a \in arrows})
           G == [p \in Nat \X all |-> p[2] \cup Onward(arrows, p[2])]
<1>1. {f} \in all
  OBVIOUS
<1>2. G \in [Nat \X all -> all]
  <2>1. \A places : Onward(arrows, places) \subseteq {a[2] : a \in arrows}
    BY DEF Onward
  <2> QED
    BY <2>1
<1> HIDE DEF all
<1>3. PICK h \in [Nat -> all] : Recurs(h, {f}, G)
  <2> HIDE DEF G
  <2> QED
    BY <1>1, <1>2, NatRecursion
<1>4. h[0] = {f} /\ \A k \in Nat : h[k + 1] = h[k] \cup Onward(arrows, h[k])
  BY <1>3 DEF Recurs
<1>5. ASSUME NEW n \in Nat
      PROVE  Within(f, n, arrows) = h[n]
  <2> DEFINE Body(r) == [k \in 0..n |-> IF k = 0 THEN {f}
                           ELSE r[k - 1] \cup {arrow[2] : arrow \in {a \in arrows : a[1] \in r[k - 1]}}]
             first == [k \in 0..n |-> h[k]]
             reach == CHOOSE r : r = Body(r)
  <2>1. first = Body(first)
    <3>1. ASSUME NEW k \in 0..n
          PROVE  h[k] = IF k = 0 THEN {f} ELSE first[k - 1] \cup Onward(arrows, first[k - 1])
      <4>1. CASE k = 0
        BY <1>4, <4>1
      <4>2. CASE k # 0
        <5>1. k - 1 \in Nat /\ k - 1 \in 0..n /\ k = (k - 1) + 1
          BY <4>2
        <5>2. h[k] = h[k - 1] \cup Onward(arrows, h[k - 1])
          BY <1>4, <5>1
        <5> QED
          BY <4>2, <5>1, <5>2
      <4> QED
        BY <4>1, <4>2
    <3> QED
      BY <3>1 DEF Onward
  <2>2. reach = Body(reach)
    <3> HIDE DEF Body, first
    <3> QED
      BY <2>1
  <2>3. Within(f, n, arrows) = reach[n]
    BY DEF Within
  <2> HIDE DEF reach
  <2>4. /\ reach[0] = {f}
        /\ \A k \in 0..(n - 1) : reach[k + 1] = reach[k] \cup Onward(arrows, reach[k])
    <3>1. reach[0] = {f}
      BY <2>2
    <3>2. ASSUME NEW k \in 0..(n - 1)
          PROVE  reach[k + 1] = reach[k] \cup Onward(arrows, reach[k])
      <4>1. k + 1 \in 0..n /\ k + 1 # 0 /\ (k + 1) - 1 = k
        OBVIOUS
      <4> QED
        BY <2>2, <4>1 DEF Onward
    <3> QED
      BY <3>1, <3>2
  <2> DEFINE S == {k \in Nat : k <= n => reach[k] = h[k]}
  <2>5. 0 \in S
    BY <1>4, <2>4
  <2>6. ASSUME NEW k \in Nat, k \in S
        PROVE  k + 1 \in S
    <3>1. SUFFICES ASSUME k + 1 <= n
                   PROVE  reach[k + 1] = h[k + 1]
      OBVIOUS
    <3>2. k \in 0..(n - 1) /\ reach[k] = h[k]
      BY <2>6, <3>1
    <3> QED
      BY <1>4, <2>4, <3>2
  <2>7. \A k \in Nat : k \in S
    <3> HIDE DEF S
    <3> QED
      BY <2>5, <2>6, NatInduct
  <2> QED
    BY <2>3, <2>7
<1> QED
  BY <1>4, <1>5

(* More steps lead further, until a step leads nowhere new.                *)
LEMMA WithinGrows ==
  ASSUME NEW f, NEW arrows, NEW d \in Nat
  PROVE  \A n \in Nat : d <= n =>
           /\ Within(f, d, arrows) \subseteq Within(f, n, arrows)
           /\ Onward(arrows, Within(f, d, arrows)) \subseteq Within(f, d, arrows)
                => Within(f, n, arrows) = Within(f, d, arrows)
<1> DEFINE w == [n \in Nat |-> Within(f, n, arrows)]
           S == {n \in Nat : d <= n => /\ w[d] \subseteq w[n]
                                       /\ Onward(arrows, w[d]) \subseteq w[d] => w[n] = w[d]}
<1>1. \A n \in Nat : w[n + 1] = w[n] \cup Onward(arrows, w[n])
  BY WithinFacts
<1> HIDE DEF w
<1>2. 0 \in S
  BY d = 0 \/ ~(d <= 0)
<1>3. ASSUME NEW n \in Nat, n \in S
      PROVE  n + 1 \in S
  <2>1. CASE d <= n
    <3>1. w[d] \subseteq w[n] /\ (Onward(arrows, w[d]) \subseteq w[d] => w[n] = w[d])
      BY <1>3, <2>1
    <3>2. w[n + 1] = w[n] \cup Onward(arrows, w[n])
      BY <1>1
    <3>3. CASE Onward(arrows, w[d]) \subseteq w[d]
      <4>1. w[n + 1] = w[d]
        BY <3>1, <3>2, <3>3
      <4> QED
        BY <4>1
    <3>4. CASE ~(Onward(arrows, w[d]) \subseteq w[d])
      BY <3>1, <3>2, <3>4
    <3> QED
      BY <3>3, <3>4
  <2>2. CASE d = n + 1
    BY <2>2
  <2>3. CASE ~(d <= n + 1)
    BY <2>3
  <2> QED
    BY <2>1, <2>2, <2>3
<1>4. \A n \in Nat : n \in S
  <2> HIDE DEF S
  <2> QED
    BY <1>2, <1>3, NatInduct
<1>5. \A n \in Nat : w[n] = Within(f, n, arrows)
  BY DEF w
<1> QED
  BY <1>4, <1>5

(* More arrows lead further.                                               *)
LEMMA WithinMore ==
  ASSUME NEW f, NEW arrows, NEW more, arrows \subseteq more
  PROVE  \A n \in Nat : Within(f, n, arrows) \subseteq Within(f, n, more)
<1> DEFINE v == [n \in Nat |-> Within(f, n, arrows)]
           w == [n \in Nat |-> Within(f, n, more)]
           S == {n \in Nat : v[n] \subseteq w[n]}
<1>1. /\ v[0] = w[0]
      /\ \A n \in Nat : /\ v[n + 1] = v[n] \cup Onward(arrows, v[n])
                        /\ w[n + 1] = w[n] \cup Onward(more, w[n])
  <2>1. /\ \A n \in Nat : n + 1 \in Nat
        /\ \A n \in Nat : v[n] = Within(f, n, arrows) /\ w[n] = Within(f, n, more)
    OBVIOUS
  <2> HIDE DEF v, w
  <2>2. v[0] = w[0]
    <3>1. Within(f, 0, arrows) = {f} /\ Within(f, 0, more) = {f}
      BY WithinFacts
    <3> QED
      BY <2>1, <3>1
  <2>3. \A n \in Nat : v[n + 1] = v[n] \cup Onward(arrows, v[n])
    BY <2>1, WithinFacts
  <2>4. \A n \in Nat : w[n + 1] = w[n] \cup Onward(more, w[n])
    BY <2>1, WithinFacts
  <2> QED
    BY <2>2, <2>3, <2>4
<1>2. \A n \in Nat : v[n] = Within(f, n, arrows) /\ w[n] = Within(f, n, more)
  OBVIOUS
<1> HIDE DEF v, w
<1>3. \A p, q : p \subseteq q => Onward(arrows, p) \subseteq Onward(more, q)
  BY DEF Onward
<1>4. 0 \in S
  BY <1>1
<1>5. ASSUME NEW n \in Nat, n \in S
      PROVE  n + 1 \in S
  <2>1. v[n] \subseteq w[n]
    BY <1>5
  <2>2. v[n + 1] \subseteq w[n + 1]
    BY <1>1, <1>3, <2>1
  <2> QED
    BY <2>2
<1>6. \A n \in Nat : n \in S
  <2> HIDE DEF S
  <2> QED
    BY <1>4, <1>5, NatInduct
<1> QED
  BY <1>2, <1>6

IsArrows(arrows) == \A a \in arrows : a = <<a[1], a[2]>>

LEMMA OnwardFacts ==
  ASSUME NEW arrows, IsArrows(arrows), NEW places
  PROVE  \A y : y \in Onward(arrows, places) <=> \E x \in places : <<x, y>> \in arrows
BY DEF Onward, IsArrows

(* A way that is one step longer is a way and a step, and a step and a way. *)
LEMMA WithinLast ==
  ASSUME NEW arrows, IsArrows(arrows)
  PROVE  \A f, g :
           /\ g \in Within(f, 0, arrows) <=> g = f
           /\ \A n \in Nat : g \in Within(f, n + 1, arrows) <=>
                g \in Within(f, n, arrows) \/ \E x \in Within(f, n, arrows) : <<x, g>> \in arrows
<1>1. TAKE f, g
<1>2. Within(f, 0, arrows) = {f}
  BY WithinFacts
<1>3. ASSUME NEW n \in Nat
      PROVE  g \in Within(f, n + 1, arrows) <=>
               g \in Within(f, n, arrows) \/ \E x \in Within(f, n, arrows) : <<x, g>> \in arrows
  <2>1. Within(f, n + 1, arrows) = Within(f, n, arrows) \cup Onward(arrows, Within(f, n, arrows))
    BY WithinFacts
  <2>2. g \in Onward(arrows, Within(f, n, arrows)) <=> \E x \in Within(f, n, arrows) : <<x, g>> \in arrows
    BY OnwardFacts
  <2> QED
    BY <2>1, <2>2
<1> QED
  BY <1>2, <1>3

LEMMA WithinFromFirst ==
  ASSUME NEW arrows, IsArrows(arrows)
  PROVE  \A n \in Nat : \A f, g :
           g \in Within(f, n + 1, arrows) <=>
             g \in Within(f, n, arrows) \/ \E x : <<f, x>> \in arrows /\ g \in Within(x, n, arrows)
<1> DEFINE Longer(n, f, g) ==
             g \in Within(f, n, arrows) \/ \E x : <<f, x>> \in arrows /\ g \in Within(x, n, arrows)
           S == {n \in Nat : \A f, g : g \in Within(f, n + 1, arrows) <=> Longer(n, f, g)}
<1>1. \A f, g : /\ g \in Within(f, 0, arrows) <=> g = f
               /\ \A n \in Nat : g \in Within(f, n + 1, arrows) <=>
                    g \in Within(f, n, arrows) \/ \E x \in Within(f, n, arrows) : <<x, g>> \in arrows
  BY WithinLast
<1>2. 0 \in S
  BY <1>1
<1>3. ASSUME NEW n \in Nat, n \in S
      PROVE  n + 1 \in S
  <2>1. \A f, g : g \in Within(f, n + 1, arrows) <=> Longer(n, f, g)
    BY <1>3
  <2>2. ASSUME NEW f, NEW g
        PROVE  g \in Within(f, (n + 1) + 1, arrows) <=> Longer(n + 1, f, g)
    <3>1. g \in Within(f, (n + 1) + 1, arrows) <=>
            \/ g \in Within(f, n + 1, arrows)
            \/ \E y \in Within(f, n + 1, arrows) : <<y, g>> \in arrows
      BY <1>1
    <3>2. ASSUME NEW y \in Within(f, n + 1, arrows), <<y, g>> \in arrows
          PROVE  Longer(n + 1, f, g)
      <4>1. CASE y \in Within(f, n, arrows)
        <5>1. g \in Within(f, n + 1, arrows)
          BY <1>1, <3>2, <4>1
        <5> QED
          BY <5>1
      <4>2. CASE \E x : <<f, x>> \in arrows /\ y \in Within(x, n, arrows)
        <5>1. PICK x : <<f, x>> \in arrows /\ y \in Within(x, n, arrows)
          BY <4>2
        <5>2. g \in Within(x, n + 1, arrows)
          BY <1>1, <3>2, <5>1
        <5> QED
          BY <5>1, <5>2
      <4> QED
        BY <2>1, <3>2, <4>1, <4>2
    <3>3. ASSUME NEW x, <<f, x>> \in arrows, g \in Within(x, n + 1, arrows)
          PROVE  g \in Within(f, (n + 1) + 1, arrows)
      <4>1. CASE g \in Within(x, n, arrows)
        <5>1. g \in Within(f, n + 1, arrows)
          BY <2>1, <3>3, <4>1
        <5> QED
          BY <3>1, <5>1
      <4>2. CASE \E y \in Within(x, n, arrows) : <<y, g>> \in arrows
        <5>1. PICK y \in Within(x, n, arrows) : <<y, g>> \in arrows
          BY <4>2
        <5>2. y \in Within(f, n + 1, arrows)
          BY <2>1, <3>3, <5>1
        <5> QED
          BY <3>1, <5>1, <5>2
      <4>3. g \in Within(x, n + 1, arrows) <=>
              g \in Within(x, n, arrows) \/ \E y \in Within(x, n, arrows) : <<y, g>> \in arrows
        BY <1>1
      <4> QED
        BY <3>3, <4>1, <4>2, <4>3
    <3> QED
      BY <3>1, <3>2, <3>3
  <2>3. n + 1 \in Nat
    OBVIOUS
  <2> HIDE DEF Longer
  <2> QED
    BY <2>2, <2>3
<1>4. \A n \in Nat : n \in S
  <2> HIDE DEF S
  <2> QED
    BY <1>2, <1>3, NatInduct
<1> QED
  BY <1>4

(* Against the arrows, what a way leads to leads back.                     *)
LEMMA WithinReversed ==
  ASSUME NEW arrows, IsArrows(arrows), NEW against, IsArrows(against),
         \A x, y : <<x, y>> \in arrows <=> <<y, x>> \in against
  PROVE  \A n \in Nat : \A f, g :
           g \in Within(f, n, arrows) <=> f \in Within(g, n, against)
<1> DEFINE S == {n \in Nat : \A f, g : g \in Within(f, n, arrows) <=> f \in Within(g, n, against)}
<1>1. 0 \in S
  BY WithinFacts
<1>2. ASSUME NEW n \in Nat, n \in S
      PROVE  n + 1 \in S
  <2>1. ASSUME NEW f, NEW g
        PROVE  g \in Within(f, n + 1, arrows) <=> f \in Within(g, n + 1, against)
    <3>1. g \in Within(f, n + 1, arrows) <=>
            g \in Within(f, n, arrows) \/ \E x \in Within(f, n, arrows) : <<x, g>> \in arrows
      BY WithinLast
    <3>2. f \in Within(g, n + 1, against) <=>
            f \in Within(g, n, against) \/ \E x : <<g, x>> \in against /\ f \in Within(x, n, against)
      BY WithinFromFirst
    <3>3. \A x, y : x \in Within(y, n, arrows) <=> y \in Within(x, n, against)
      BY <1>2
    <3> QED
      BY <3>1, <3>2, <3>3
  <2> QED
    BY <2>1
<1>3. \A n \in Nat : n \in S
  <2> HIDE DEF S
  <2> QED
    BY <1>1, <1>2, NatInduct
<1> QED
  BY <1>3

-----------------------------------------------------------------------------
(* A walk                                                                  *)

(* The edges that lead on from any of some places.                         *)
EdgesFrom(edges, direction, places) ==
  {r \in edges : \E n \in places : \E arrow \in Arrows({r}, direction) : arrow[1] = n}

(* What waits in a frontier at a depth.                                    *)
Waiting(frontier, d) ==
  {frontier[i].node : i \in {j \in DOMAIN frontier : frontier[j].depth = d}}

Frontier == Seq([node : Node, depth : Nat])

(* All there is within the bound is visited.                               *)
Complete(s, f, bound, edges, direction) ==
  LET arrows == Arrows(edges, direction)
  IN  /\ s.visited = Within(f, bound, arrows)
      /\ s.traversed = IF bound = 0 THEN {} ELSE EdgesFrom(edges, direction, Within(f, bound - 1, arrows))
      /\ \A i \in DOMAIN s.frontier : s.frontier[i].depth >= bound

(* What is within some depth is visited, and so is what is one step from   *)
(* those at that depth that were taken from the frontier; the others wait, *)
(* and behind them what was visited last.                                  *)
Underway(s, f, edges, direction, d, taken) ==
  LET arrows == Arrows(edges, direction)
      near   == Within(f, d, arrows)
  IN  /\ \A i \in DOMAIN s.frontier : s.frontier[i].depth \in {d, d + 1}
      /\ \A i, j \in DOMAIN s.frontier : i < j => s.frontier[i].depth <= s.frontier[j].depth
      /\ near = taken \cup Waiting(s.frontier, d)
      /\ s.visited = near \cup Onward(arrows, taken)
      /\ s.visited \subseteq near \cup Waiting(s.frontier, d + 1)
      /\ Waiting(s.frontier, d + 1) \subseteq Onward(arrows, taken)
      /\ s.traversed = EdgesFrom(edges, direction, taken)

WalkInv(s, f, bound, edges, direction) ==
  /\ DOMAIN s = {"visited", "traversed", "frontier"}
  /\ s.visited \subseteq Node /\ s.frontier \in Frontier
  /\ \/ Complete(s, f, bound, edges, direction)
     \/ \E d \in 0..(bound - 1), taken \in SUBSET Node : Underway(s, f, edges, direction, d, taken)

(* The steps of one relationship.                                          *)
LEMMA ArrowFacts ==
  ASSUME NEW edges, NEW direction
  PROVE  /\ IsArrows(Arrows(edges, direction))
         /\ \A x, y : <<x, y>> \in Arrows(edges, direction) <=>
              \E r \in edges : y \in Neighbors(r, x, direction)
         /\ \A r, x : (\E arrow \in Arrows({r}, direction) : arrow[1] = x)
              <=> Neighbors(r, x, direction) # {}
<1>1. IsArrows(Arrows(edges, direction))
  BY DEF IsArrows, Arrows
<1>2. ASSUME NEW x, NEW y
      PROVE  <<x, y>> \in Arrows(edges, direction) <=> \E r \in edges : y \in Neighbors(r, x, direction)
  BY DEF Arrows, Neighbors
<1>3. ASSUME NEW r, NEW x
      PROVE  (\E arrow \in Arrows({r}, direction) : arrow[1] = x) <=> Neighbors(r, x, direction) # {}
  <2>1. \A y : <<x, y>> \in Arrows({r}, direction) <=> y \in Neighbors(r, x, direction)
    BY DEF Arrows, Neighbors
  <2>2. \A arrow \in Arrows({r}, direction) : arrow = <<arrow[1], arrow[2]>>
    BY DEF Arrows
  <2>3. ASSUME NEW arrow \in Arrows({r}, direction), arrow[1] = x
        PROVE  arrow[2] \in Neighbors(r, x, direction)
    BY <2>1, <2>2, <2>3
  <2>4. ASSUME NEW y \in Neighbors(r, x, direction)
        PROVE  <<x, y>> \in Arrows({r}, direction) /\ <<x, y>>[1] = x
    BY <2>1
  <2> QED
    BY <2>3, <2>4
<1> QED
  BY <1>1, <1>2, <1>3

LEMMA TailFacts ==
  ASSUME NEW F \in Frontier, F # <<>>, NEW G \in Frontier
  PROVE  /\ Tail(F) \in Frontier /\ Tail(F) \o G \in Frontier
         /\ F[1] \in [node : Node, depth : Nat]
         /\ \A i \in DOMAIN (Tail(F) \o G) :
              \/ i + 1 \in DOMAIN F /\ (Tail(F) \o G)[i] = F[i + 1]
              \/ /\ i > Len(Tail(F)) /\ i - Len(Tail(F)) \in DOMAIN G
                 /\ (Tail(F) \o G)[i] = G[i - Len(Tail(F))]
         /\ \A d : Waiting(F, d) = Waiting(Tail(F), d) \cup (IF F[1].depth = d THEN {F[1].node} ELSE {})
         /\ \A d : Waiting(Tail(F) \o G, d) = Waiting(Tail(F), d) \cup Waiting(G, d)
<1> USE DEF Frontier
<1>1. Tail(F) \in Frontier /\ Tail(F) \o G \in Frontier
  OBVIOUS
<1>2. /\ DOMAIN F = 1..Len(F) /\ Len(F) \in Nat /\ Len(F) > 0
      /\ DOMAIN Tail(F) = 1..(Len(F) - 1) /\ Len(Tail(F)) = Len(F) - 1
      /\ DOMAIN G = 1..Len(G) /\ Len(G) \in Nat
      /\ DOMAIN (Tail(F) \o G) = 1..(Len(F) - 1 + Len(G))
  OBVIOUS
<1>3. /\ \A i \in 1..(Len(F) - 1) : Tail(F)[i] = F[i + 1] /\ (Tail(F) \o G)[i] = F[i + 1]
      /\ \A i \in 1..Len(G) : (Tail(F) \o G)[Len(F) - 1 + i] = G[i]
  OBVIOUS
<1>4. F[1] \in [node : Node, depth : Nat]
  <2>1. 1 \in 1..Len(F)
    BY <1>2
  <2> DEFINE entries == [node : Node, depth : Nat]
  <2>2. F \in Seq(entries)
    OBVIOUS
  <2> HIDE DEF entries
  <2>3. F[1] \in entries
    BY <2>1, <2>2, ElementOfSeq
  <2> QED
    BY <2>3 DEF entries
<1> HIDE DEF Frontier
<1>5. ASSUME NEW i \in DOMAIN (Tail(F) \o G)
      PROVE  \/ i + 1 \in DOMAIN F /\ (Tail(F) \o G)[i] = F[i + 1]
             \/ /\ i > Len(Tail(F)) /\ i - Len(Tail(F)) \in DOMAIN G
                /\ (Tail(F) \o G)[i] = G[i - Len(Tail(F))]
  <2>1. CASE i <= Len(F) - 1
    BY <1>2, <1>3, <2>1
  <2>2. CASE i > Len(F) - 1
    <3>1. i - (Len(F) - 1) \in 1..Len(G) /\ i = Len(F) - 1 + (i - (Len(F) - 1))
      BY <1>2, <2>2
    <3> QED
      BY <1>2, <1>3, <2>2, <3>1
  <2> QED
    BY <1>2, <2>1, <2>2
<1>6. ASSUME NEW d
      PROVE  Waiting(F, d) = Waiting(Tail(F), d) \cup (IF F[1].depth = d THEN {F[1].node} ELSE {})
  <2>1. ASSUME NEW i \in DOMAIN F, i # 1
        PROVE  \E j \in DOMAIN Tail(F) : Tail(F)[j] = F[i]
    <3>1. i - 1 \in 1..(Len(F) - 1) /\ (i - 1) + 1 = i
      BY <1>2, <2>1
    <3> QED
      BY <1>2, <1>3, <3>1
  <2>2. \A j \in DOMAIN Tail(F) : j + 1 \in DOMAIN F /\ Tail(F)[j] = F[j + 1]
    BY <1>2, <1>3
  <2>3. 1 \in DOMAIN F
    BY <1>2
  <2> QED
    BY <2>1, <2>2, <2>3 DEF Waiting
<1>7. ASSUME NEW d
      PROVE  Waiting(Tail(F) \o G, d) = Waiting(Tail(F), d) \cup Waiting(G, d)
  <2>1. ASSUME NEW i \in DOMAIN (Tail(F) \o G)
        PROVE  \/ \E j \in DOMAIN Tail(F) : Tail(F)[j] = (Tail(F) \o G)[i]
               \/ \E j \in DOMAIN G : G[j] = (Tail(F) \o G)[i]
    <3>1. CASE i <= Len(F) - 1
      BY <1>2, <1>3, <3>1
    <3>2. CASE i > Len(F) - 1
      <4>1. i - (Len(F) - 1) \in 1..Len(G) /\ i = Len(F) - 1 + (i - (Len(F) - 1))
        BY <1>2, <3>2
      <4> QED
        BY <1>2, <1>3, <4>1
    <3> QED
      BY <1>2, <3>1, <3>2
  <2>2. \A j \in DOMAIN Tail(F) : j \in DOMAIN (Tail(F) \o G) /\ (Tail(F) \o G)[j] = Tail(F)[j]
    BY <1>2, <1>3
  <2>3. ASSUME NEW j \in DOMAIN G
        PROVE  \E i \in DOMAIN (Tail(F) \o G) : (Tail(F) \o G)[i] = G[j]
    <3>1. Len(F) - 1 + j \in DOMAIN (Tail(F) \o G)
      BY <1>2
    <3> QED
      BY <1>2, <1>3, <3>1
  <2> QED
    BY <2>1, <2>2, <2>3 DEF Waiting
<1> QED
  BY <1>1, <1>4, <1>5, <1>6, <1>7

(* When none of a depth waits, the next depth is underway.                 *)
LEMMA LevelStep ==
  ASSUME NEW s, NEW f, NEW bound \in Nat, NEW edges, NEW direction,
         NEW d \in 0..(bound - 1), NEW taken, Underway(s, f, edges, direction, d, taken),
         Waiting(s.frontier, d) = {}
  PROVE  \/ Complete(s, f, bound, edges, direction)
         \/ /\ d + 1 \in 0..(bound - 1)
            /\ Underway(s, f, edges, direction, d + 1, taken)
<1> DEFINE arrows == Arrows(edges, direction)
           near == Within(f, d, arrows)
           next == Within(f, d + 1, arrows)
<1>1. next = near \cup Onward(arrows, near)
  <2>1. d \in Nat
    OBVIOUS
  <2> QED
    BY <2>1, WithinFacts
<1>2. /\ near = taken
      /\ s.visited = near \cup Onward(arrows, taken)
      /\ s.visited \subseteq near \cup Waiting(s.frontier, d + 1)
      /\ Waiting(s.frontier, d + 1) \subseteq Onward(arrows, taken)
      /\ s.traversed = EdgesFrom(edges, direction, taken)
  BY DEF Underway
<1>3. \A i \in DOMAIN s.frontier : s.frontier[i].depth = d + 1
  <2>1. \A i \in DOMAIN s.frontier : s.frontier[i].depth \in {d, d + 1}
    BY DEF Underway
  <2>2. \A i \in DOMAIN s.frontier : s.frontier[i].depth # d
    BY DEF Waiting
  <2> QED
    BY <2>1, <2>2
<1>4. Waiting(s.frontier, (d + 1) + 1) = {}
  BY <1>3 DEF Waiting
<1>5. CASE d + 1 = bound
  <2>1. next = Within(f, bound, arrows) /\ near = Within(f, bound - 1, arrows) /\ bound # 0
    BY <1>5
  <2> HIDE DEF arrows, near, next
  <2> QED
    BY <1>1, <1>2, <1>3, <1>5, <2>1 DEF Complete, arrows
<1>6. CASE d + 1 # bound
  <2>1. \A i \in DOMAIN s.frontier : s.frontier[i].depth \in {d + 1, (d + 1) + 1}
    BY <1>3
  <2>2. \A i, j \in DOMAIN s.frontier : i < j => s.frontier[i].depth <= s.frontier[j].depth
    BY <1>3
  <2>3. next = taken \cup Waiting(s.frontier, d + 1)
    BY <1>1, <1>2
  <2>4. s.visited = next \cup Onward(arrows, taken)
    BY <1>1, <1>2
  <2>5. s.visited \subseteq next \cup Waiting(s.frontier, (d + 1) + 1)
    BY <2>4, <1>1, <1>2
  <2>6. Waiting(s.frontier, (d + 1) + 1) \subseteq Onward(arrows, taken)
    BY <1>4
  <2>7. d + 1 \in 0..(bound - 1)
    BY <1>6
  <2> QED
    BY <1>2, <2>1, <2>2, <2>3, <2>4, <2>5, <2>6, <2>7 DEF Underway
<1> QED
  BY <1>5, <1>6

(* Of what is underway, the first of the frontier is at the depth reached  *)
(* or none of that depth waits.                                            *)
LEMMA FirstFacts ==
  ASSUME NEW s, s.frontier \in Frontier, s.frontier # <<>>, NEW f, NEW edges, NEW direction,
         NEW d \in Nat, NEW taken, Underway(s, f, edges, direction, d, taken)
  PROVE  /\ s.frontier[1].depth \in {d, d + 1}
         /\ s.frontier[1].depth = d + 1 => Waiting(s.frontier, d) = {}
<1>1. DOMAIN s.frontier = 1..Len(s.frontier) /\ Len(s.frontier) \in Nat /\ Len(s.frontier) > 0
  BY DEF Frontier
<1>2. 1 \in DOMAIN s.frontier /\ \A i \in DOMAIN s.frontier : i = 1 \/ 1 < i
  BY <1>1
<1>3. s.frontier[1].depth \in {d, d + 1}
  BY <1>2 DEF Underway
<1>4. ASSUME s.frontier[1].depth = d + 1, NEW i \in DOMAIN s.frontier
      PROVE  s.frontier[i].depth # d
  <2>1. s.frontier[1].depth <= s.frontier[i].depth \/ i = 1
    BY <1>2 DEF Underway
  <2>2. s.frontier[i].depth \in {d, d + 1}
    BY DEF Underway
  <2> QED
    BY <1>4, <2>1, <2>2
<1> QED
  BY <1>3, <1>4 DEF Waiting

(* One that is at the bound is left.                                       *)
LEMMA PopStep ==
  ASSUME NEW s, NEW f, NEW bound \in Nat, NEW edges, NEW direction,
         WalkInv(s, f, bound, edges, direction),
         s.frontier # <<>>, s.frontier[1].depth >= bound
  PROVE  WalkInv([s EXCEPT !.frontier = Tail(@)], f, bound, edges, direction)
<1> DEFINE t == [s EXCEPT !.frontier = Tail(@)]
           F == s.frontier
<1>1. /\ DOMAIN s = {"visited", "traversed", "frontier"} /\ s.visited \subseteq Node
      /\ F \in Frontier
  BY DEF WalkInv
<1>2. /\ DOMAIN t = DOMAIN s /\ t.visited = s.visited /\ t.traversed = s.traversed
      /\ t.frontier = Tail(F)
  BY <1>1
<1>3. Complete(s, f, bound, edges, direction)
  <2>1. ASSUME NEW d \in 0..(bound - 1), NEW taken, Underway(s, f, edges, direction, d, taken)
        PROVE  Complete(s, f, bound, edges, direction)
    <3>1. d \in Nat /\ F[1].depth >= bound /\ F # <<>>
      OBVIOUS
    <3>2. /\ F[1].depth \in {d, d + 1}
          /\ F[1].depth = d + 1 => Waiting(F, d) = {}
      BY <1>1, <2>1, <3>1, FirstFacts
    <3> HIDE DEF F
    <3>3. F[1].depth = d + 1 /\ d + 1 = bound
      BY <3>1, <3>2
    <3>4. Waiting(F, d) = {}
      BY <3>2, <3>3
    <3>5. d + 1 \notin 0..(bound - 1)
      BY <3>3
    <3> QED
      BY <2>1, <3>4, <3>5, LevelStep DEF F
  <2> QED
    BY <2>1 DEF WalkInv
<1>4. Tail(F) \in Frontier /\ \A i \in DOMAIN Tail(F) : i + 1 \in DOMAIN F /\ Tail(F)[i] = F[i + 1]
  BY <1>1 DEF Frontier
<1> HIDE DEF t, F
<1>5. Complete(t, f, bound, edges, direction)
  BY <1>2, <1>3, <1>4 DEF Complete, F
<1>6. WalkInv(t, f, bound, edges, direction)
  BY <1>1, <1>2, <1>4, <1>5 DEF WalkInv
<1> QED
  BY <1>6 DEF t

(* One that is not is taken: its neighbors not seen before go to the end.  *)
LEMMA TurnStep ==
  ASSUME NEW s, NEW f, NEW bound \in Nat, NEW edges, NEW direction,
         WalkInv(s, f, bound, edges, direction),
         s.frontier # <<>>, s.frontier[1].depth < bound,
         NEW new, new \subseteq Node,
         new = Onward(Arrows(edges, direction), {s.frontier[1].node}) \ s.visited,
         NEW G \in Frontier, Waiting(G, s.frontier[1].depth + 1) = new,
         \A i \in DOMAIN G : G[i].depth = s.frontier[1].depth + 1
  PROVE  WalkInv([visited   |-> s.visited \cup new,
                  traversed |-> s.traversed \cup EdgesFrom(edges, direction, {s.frontier[1].node}),
                  frontier  |-> Tail(s.frontier) \o G], f, bound, edges, direction)
<1> DEFINE F == s.frontier
           n == F[1].node
           d == F[1].depth
           arrows == Arrows(edges, direction)
           near == Within(f, d, arrows)
           t == [visited   |-> s.visited \cup new,
                 traversed |-> s.traversed \cup EdgesFrom(edges, direction, {n}),
                 frontier  |-> Tail(F) \o G]
<1>1. s.visited \subseteq Node /\ F \in Frontier /\ F # <<>>
  BY DEF WalkInv
<1>2. n \in Node /\ d \in Nat /\ d \in 0..(bound - 1)
  <2>1. F[1] \in [node : Node, depth : Nat]
    BY <1>1, TailFacts
  <2> QED
    BY <2>1
<1>3. PICK taken \in SUBSET Node : Underway(s, f, edges, direction, d, taken)
  <2>1. ~ Complete(s, f, bound, edges, direction)
    <3>1. 1 \in DOMAIN F
      BY <1>1 DEF Frontier
    <3> QED
      BY <1>2, <3>1 DEF Complete
  <2>2. PICK e \in 0..(bound - 1), taken \in SUBSET Node : Underway(s, f, edges, direction, e, taken)
    BY <2>1 DEF WalkInv
  <2>3. e \in Nat
    OBVIOUS
  <2>4. F[1].depth \in {e, e + 1} /\ (F[1].depth = e + 1 => Waiting(F, e) = {})
    BY <1>1, <2>2, <2>3, FirstFacts
  <2>5. CASE d = e
    BY <2>2, <2>5
  <2>6. CASE d = e + 1
    <3>1. Underway(s, f, edges, direction, e + 1, taken)
      BY <2>1, <2>2, <2>4, <2>6, LevelStep
    <3> QED
      BY <2>6, <3>1
  <2> QED
    BY <2>4, <2>5, <2>6
<1>4. /\ \A i \in DOMAIN F : F[i].depth \in {d, d + 1}
      /\ \A i, j \in DOMAIN F : i < j => F[i].depth <= F[j].depth
      /\ near = taken \cup Waiting(F, d)
      /\ s.visited = near \cup Onward(arrows, taken)
      /\ s.visited \subseteq near \cup Waiting(F, d + 1)
      /\ Waiting(F, d + 1) \subseteq Onward(arrows, taken)
      /\ s.traversed = EdgesFrom(edges, direction, taken)
  BY <1>3 DEF Underway
<1>5. t.frontier = Tail(F) \o G /\ t.visited = s.visited \cup new
      /\ t.traversed = s.traversed \cup EdgesFrom(edges, direction, {n})
  OBVIOUS
<1>6. \A i \in DOMAIN t.frontier :
        \/ i + 1 \in DOMAIN F /\ t.frontier[i] = F[i + 1]
        \/ /\ i > Len(Tail(F)) /\ i - Len(Tail(F)) \in DOMAIN G
           /\ t.frontier[i] = G[i - Len(Tail(F))]
  BY <1>1, <1>5, TailFacts
<1>7. /\ \A e : Waiting(F, e) = Waiting(Tail(F), e) \cup (IF F[1].depth = e THEN {F[1].node} ELSE {})
      /\ \A e : Waiting(t.frontier, e) = Waiting(Tail(F), e) \cup Waiting(G, e)
      /\ t.frontier \in Frontier
  BY <1>1, <1>5, TailFacts
<1>8. Waiting(G, d + 1) = new /\ Waiting(G, d) = {} /\ \A i \in DOMAIN G : G[i].depth = d + 1
  <2>1. d # d + 1
    BY <1>2
  <2>2. \A i \in DOMAIN G : G[i].depth = d + 1
    OBVIOUS
  <2>3. Waiting(G, d) = {}
    <3> HIDE DEF d
    <3> QED
      BY <2>1, <2>2 DEF Waiting
  <2> QED
    BY <2>2, <2>3
<1>9. /\ Waiting(F, d) = Waiting(Tail(F), d) \cup {n}
      /\ Waiting(F, d + 1) = Waiting(Tail(F), d + 1)
      /\ Waiting(t.frontier, d) = Waiting(Tail(F), d)
      /\ Waiting(t.frontier, d + 1) = Waiting(Tail(F), d + 1) \cup new
  <2>1. d # d + 1
    BY <1>2
  <2> QED
    BY <1>7, <1>8, <2>1
<1>10. /\ Onward(arrows, taken \cup {n}) = Onward(arrows, taken) \cup Onward(arrows, {n})
       /\ EdgesFrom(edges, direction, taken \cup {n})
            = EdgesFrom(edges, direction, taken) \cup EdgesFrom(edges, direction, {n})
       /\ new = Onward(arrows, {n}) \ s.visited
  <2>1. new = Onward(arrows, {n}) \ s.visited
    OBVIOUS
  <2> HIDE DEF arrows, n
  <2>2. Onward(arrows, taken \cup {n}) = Onward(arrows, taken) \cup Onward(arrows, {n})
    BY DEF Onward
  <2>3. EdgesFrom(edges, direction, taken \cup {n})
          = EdgesFrom(edges, direction, taken) \cup EdgesFrom(edges, direction, {n})
    BY DEF EdgesFrom
  <2> QED
    BY <2>1, <2>2, <2>3
<1>11. \A i \in DOMAIN t.frontier : t.frontier[i].depth \in {d, d + 1}
  BY <1>4, <1>6, <1>8
<1>12. ASSUME NEW i \in DOMAIN t.frontier, NEW j \in DOMAIN t.frontier, i < j
       PROVE  t.frontier[i].depth <= t.frontier[j].depth
  <2>1. DOMAIN F = 1..Len(F) /\ Len(F) \in Nat /\ Len(Tail(F)) = Len(F) - 1
        /\ DOMAIN t.frontier = 1..Len(t.frontier) /\ Len(t.frontier) \in Nat
    BY <1>1, <1>7 DEF Frontier
  <2>2. i \in Nat /\ j \in Nat
    BY <2>1
  <2> HIDE DEF t
  <2>3. CASE j > Len(Tail(F)) /\ j - Len(Tail(F)) \in DOMAIN G /\ t.frontier[j] = G[j - Len(Tail(F))]
    BY <1>2, <1>8, <1>11, <2>3
  <2>4. CASE j + 1 \in DOMAIN F /\ t.frontier[j] = F[j + 1]
    <3>1. ~ (i > Len(Tail(F)))
      BY <1>12, <2>1, <2>2, <2>4
    <3>2. i + 1 \in DOMAIN F /\ t.frontier[i] = F[i + 1] /\ i + 1 < j + 1
      BY <1>6, <1>12, <2>2, <3>1
    <3> QED
      BY <1>4, <2>4, <3>2
  <2> QED
    BY <1>6, <2>3, <2>4
<1> HIDE DEF t, F, n, d, arrows, near
<1>13. near = (taken \cup {n}) \cup Waiting(t.frontier, d)
  BY <1>4, <1>9
<1>14. /\ t.visited = near \cup Onward(arrows, taken \cup {n})
       /\ t.visited \subseteq near \cup Waiting(t.frontier, d + 1)
       /\ Waiting(t.frontier, d + 1) \subseteq Onward(arrows, taken \cup {n})
  BY <1>4, <1>5, <1>9, <1>10
<1>15. t.traversed = EdgesFrom(edges, direction, taken \cup {n})
  BY <1>4, <1>5, <1>10
<1>16. Underway(t, f, edges, direction, d, taken \cup {n})
  BY <1>11, <1>12, <1>13, <1>14, <1>15 DEF Underway, near, arrows
<1>17. DOMAIN t = {"visited", "traversed", "frontier"} /\ t.visited \subseteq Node
  BY <1>1 DEF t
<1>18. taken \cup {n} \in SUBSET Node
  BY <1>2
<1>19. WalkInv(t, f, bound, edges, direction)
  BY <1>2, <1>7, <1>16, <1>17, <1>18 DEF WalkInv
<1> QED
  BY <1>19 DEF t, F, n, d

(* A walk with nothing left to do has seen all there is.                   *)
LEMMA WalkDone ==
  ASSUME NEW s, NEW f, NEW bound \in Nat, NEW edges, NEW direction,
         WalkInv(s, f, bound, edges, direction), s.frontier = <<>>
  PROVE  Complete(s, f, bound, edges, direction)
<1> DEFINE arrows == Arrows(edges, direction)
<1>1. ASSUME NEW d \in 0..(bound - 1), NEW taken, Underway(s, f, edges, direction, d, taken)
      PROVE  Complete(s, f, bound, edges, direction)
  <2>1. \A e : Waiting(s.frontier, e) = {}
    BY DEF Waiting
  <2>2. /\ Within(f, d, arrows) = taken
        /\ s.visited = taken \cup Onward(arrows, taken)
        /\ s.visited \subseteq taken
        /\ s.traversed = EdgesFrom(edges, direction, taken)
    BY <1>1, <2>1 DEF Underway
  <2>3. Onward(arrows, taken) \subseteq taken /\ s.visited = taken
    BY <2>2
  <2>4. d \in Nat /\ bound - 1 \in Nat /\ d <= bound - 1 /\ d <= bound /\ bound # 0
    OBVIOUS
  <2>5. Within(f, bound, arrows) = taken /\ Within(f, bound - 1, arrows) = taken
    <3> HIDE DEF arrows
    <3> QED
      BY <2>2, <2>3, <2>4, WithinGrows
  <2>6. \A i \in DOMAIN s.frontier : s.frontier[i].depth >= bound
    OBVIOUS
  <2> QED
    BY <2>2, <2>3, <2>4, <2>5, <2>6 DEF Complete
<1> QED
  BY <1>1 DEF WalkInv

-----------------------------------------------------------------------------
(* The order of a turn                                                     *)

LEMMA PositionFacts ==
  /\ IsFiniteSet(Node)
  /\ Len(Sorted) \in Nat
  /\ \A f \in Node : Position(f) \in 1..Len(Sorted) /\ Sorted[Position(f)] = f
<1>1. DOMAIN Sorted = 1..Len(Sorted) /\ Len(Sorted) \in Nat
  BY GraphAssumption
<1>2. Node = {Sorted[i] : i \in 1..Len(Sorted)}
  BY <1>1 DEF Node, ToSet
<1>3. \A f \in Node : Position(f) \in 1..Len(Sorted) /\ Sorted[Position(f)] = f
  <2>1. \A f \in Node : \E i \in 1..Len(Sorted) : Sorted[i] = f
    BY <1>2
  <2> QED
    BY <1>1, <2>1 DEF Position
<1>4. IsFiniteSet(Node)
  <2> DEFINE place == [f \in Node |-> Position(f)]
  <2>1. place \in [Node -> 1..Len(Sorted)]
    BY <1>3
  <2>2. \A f, g \in Node : place[f] = place[g] => f = g
    BY <1>3
  <2> HIDE DEF place
  <2>3. place \in Injection(Node, 1..Len(Sorted))
    BY <2>1, <2>2 DEF Injection, IsInjective
  <2>4. IsFiniteSet(1..Len(Sorted))
    BY <1>1, FS_Interval
  <2> QED
    BY <2>3, <2>4, FS_Injection
<1> QED
  BY <1>1, <1>3, <1>4

(* An edge has its place from its ends, and no other ends have that place. *)
LEMMA EdgePlaceFacts ==
  ASSUME NEW r, r.from \in Node, r.to \in Node, NEW q, q.from \in Node, q.to \in Node
  PROVE  /\ EdgePlace(r) \in Nat /\ EdgePlace(r) <= Len(Sorted) * Len(Sorted) + Len(Sorted)
         /\ EdgePlace(r) = EdgePlace(q) => r.from = q.from /\ r.to = q.to
<1> DEFINE n == Len(Sorted)
<1>1. \A k \in 1..n, a \in 1..n, b \in 1..n :
        /\ n * k + a \in Nat /\ n * k + a <= n * n + n
        /\ k < b => n * k + n <= n * b
  BY PositionFacts
<1>2. \A k, a, l, b \in 1..n : n * k + a = n * l + b => k = l /\ a = b
  <2>1. n \in Nat
    BY PositionFacts
  <2> HIDE DEF n
  <2>2. TAKE k, a, l, b \in 1..n
  <2>3. HAVE n * k + a = n * l + b
  <2>4. CASE k < l
    <3>1. n * k + n <= n * l
      BY <1>1, <2>1, <2>4
    <3>2. n * k \in Int /\ n * l \in Int
      BY <2>1
    <3> QED
      BY <2>1, <2>3, <3>1, <3>2
  <2>5. CASE l < k
    <3>1. n * l + n <= n * k
      BY <1>1, <2>1, <2>5
    <3>2. n * k \in Int /\ n * l \in Int
      BY <2>1
    <3> QED
      BY <2>1, <2>3, <3>1, <3>2
  <2>6. CASE k = l
    <3>1. n * k \in Int
      BY <2>1
    <3> QED
      BY <2>3, <2>6, <3>1
  <2> QED
    BY <2>1, <2>4, <2>5, <2>6
<1>3. \A f \in {r.from, r.to, q.from, q.to} : Position(f) \in 1..n /\ Sorted[Position(f)] = f
  BY PositionFacts
<1>4. EdgePlace(r) = n * Position(r.from) + Position(r.to)
      /\ EdgePlace(q) = n * Position(q.from) + Position(q.to)
  BY DEF EdgePlace
<1>5. EdgePlace(r) \in Nat /\ EdgePlace(r) <= n * n + n
  <2> HIDE DEF n
  <2> QED
    BY <1>1, <1>3, <1>4
<1>6. EdgePlace(r) = EdgePlace(q) => Position(r.from) = Position(q.from) /\ Position(r.to) = Position(q.to)
  <2> HIDE DEF n
  <2> QED
    BY <1>2, <1>3, <1>4
<1> QED
  BY <1>3, <1>5, <1>6

(* The members of a finite set take turns, every one of them.              *)
LEMMA InTurnFacts ==
  ASSUME NEW set, IsFiniteSet(set), NEW number \in [set -> Int],
         \A m, n \in set : number[m] = number[n] => m = n
  PROVE  /\ Cardinality(set) \in Nat
         /\ InTurn(set, number) \in [1..Cardinality(set) -> set]
         /\ \A n \in set : \E k \in 1..Cardinality(set) : InTurn(set, number)[k] = n
<1> DEFINE R == {p \in set \X set : number[p[1]] < number[p[2]]}
           Before(n) == {m \in set : number[m] < number[n]}
           last == Cardinality(set)
           turn == InTurn(set, number)
<1>1. \A m, n \in set : <<m, n>> \in R <=> number[m] < number[n]
  OBVIOUS
<1>2. last \in Nat
  BY FS_CardinalityType
<1>3. \A n \in set : number[n] \in Int
  OBVIOUS
<1> HIDE DEF R
<1>4. \A n \in set : Before(n) = {m \in set : <<m, n>> \in R}
  BY <1>1
<1>5. /\ \A n \in set : Cardinality(Before(n)) \in 0..(last - 1)
      /\ \A m, n \in set : Cardinality(Before(m)) = Cardinality(Before(n)) => m = n
      /\ \A k \in 1..last : \E n \in set : Cardinality(Before(n)) = k - 1
  <2>1. \A n \in set : <<n, n>> \notin R
    BY <1>1, <1>3
  <2>2. \A l, m, n \in set : <<l, m>> \in R /\ <<m, n>> \in R => <<l, n>> \in R
    BY <1>1, <1>3
  <2>3. \A m, n \in set : m # n => <<m, n>> \in R \/ <<n, m>> \in R
    BY <1>1, <1>3
  <2> HIDE DEF Before
  <2>4. \A n \in set : Cardinality({m \in set : <<m, n>> \in R}) \in 0..(last - 1)
    BY <2>1, <2>2, <2>3, RankFacts
  <2>5. \A m, n \in set :
          Cardinality({l \in set : <<l, m>> \in R}) = Cardinality({l \in set : <<l, n>> \in R})
            => m = n
    BY <2>1, <2>2, <2>3, RankFacts
  <2>6. \A k \in 1..last : \E n \in set : Cardinality({m \in set : <<m, n>> \in R}) = k - 1
    BY <2>1, <2>2, <2>3, RankFacts
  <2> QED
    BY <1>4, <2>4, <2>5, <2>6
<1>6. turn = [k \in 1..last |-> CHOOSE n \in set : Cardinality(Before(n)) = k - 1]
  BY DEF InTurn
<1> HIDE DEF Before
<1>7. \A k \in 1..last : turn[k] \in set /\ Cardinality(Before(turn[k])) = k - 1
  <2> HIDE DEF turn
  <2> QED
    BY <1>5, <1>6
<1>8. ASSUME NEW n \in set
      PROVE  \E k \in 1..last : turn[k] = n
  <2> DEFINE k == Cardinality(Before(n)) + 1
  <2>1. k \in 1..last
    BY <1>2, <1>5
  <2>2. Cardinality(Before(turn[k])) = Cardinality(Before(n)) /\ turn[k] \in set
    BY <1>5, <1>7, <2>1
  <2>3. turn[k] = n
    BY <1>5, <2>2
  <2> QED
    BY <2>1, <2>3
<1>9. turn \in [1..last -> set]
  BY <1>6, <1>7
<1> QED
  BY <1>2, <1>8, <1>9

-----------------------------------------------------------------------------
(* The graph                                                               *)

Followed(walk) == {r \in snapshots[asked.run].edges : Follows(walk, r)}

SearchInv ==
  /\ building = 0
  /\ asked.root \in Node /\ asked.run \in DOMAIN Observed /\ asked.depth \in Nat
  /\ DOMAIN search = Walks
  /\ \A walk \in Walks :
       WalkInv(search[walk], asked.root, asked.depth, Followed(walk), Toward(walk))

GraphInv ==
  /\ building \in {0} \cup DOMAIN Observed
  /\ DOMAIN snapshots = DOMAIN Observed
  /\ \A run \in DOMAIN Observed :
       Verified(snapshots[run]) /\ snapshots[run].nodes \subseteq Node
  /\ search # NoSearch => SearchInv

(* The relationships of a snapshot are between fingerprints.               *)
LEMMA SnapshotFacts ==
  ASSUME GraphInv, NEW run \in DOMAIN Observed, NEW r \in snapshots[run].edges
  PROVE  Valid(r) /\ r.from \in Node /\ r.to \in Node /\ r.from # r.to
BY DEF GraphInv, Verified, Valid

(* One turn of a walk.                                                     *)
LEMMA ExpandedStep ==
  ASSUME GraphInv, SearchInv, NEW walk \in Walks
  PROVE  WalkInv(Expanded(walk, search[walk]), asked.root, asked.depth, Followed(walk), Toward(walk))
<1> DEFINE s == search[walk]
           edges == Followed(walk)
           direction == Toward(walk)
           bound == asked.depth
           f == s.frontier[1].node
           depth == s.frontier[1].depth
           Reach(r) == Neighbors(r, f, direction)
           used == {r \in snapshots[asked.run].edges : Follows(walk, r) /\ Reach(r) # {}}
           new == (UNION {Reach(r) : r \in used}) \ s.visited
           Leading(n) == {r \in used : n \in Reach(r)}
           number == [n \in new |-> Min({EdgePlace(r) : r \in Leading(n)})]
           turn == InTurn(new, number)
           G == [k \in DOMAIN turn |-> [node |-> turn[k], depth |-> depth + 1]]
<1>1. WalkInv(s, asked.root, bound, edges, direction) /\ bound \in Nat
  BY DEF SearchInv
<1>2. CASE s.frontier = <<>>
  BY <1>1, <1>2 DEF Expanded
<1>3. CASE s.frontier # <<>> /\ depth >= bound
  <2>1. Expanded(walk, s) = [s EXCEPT !.frontier = Tail(@)]
    BY <1>3 DEF Expanded
  <2> HIDE DEF s, edges, direction, bound
  <2>2. WalkInv([s EXCEPT !.frontier = Tail(@)], asked.root, bound, edges, direction)
    BY <1>1, <1>3, PopStep
  <2> QED
    BY <2>1, <2>2 DEF s, edges, direction, bound
<1>4. CASE s.frontier # <<>> /\ ~(depth >= bound)
  <2>1. Expanded(walk, s) = [visited   |-> s.visited \cup new,
                             traversed |-> s.traversed \cup used,
                             frontier  |-> Tail(s.frontier) \o G]
    BY <1>4 DEF Expanded
  <2>2. \A r \in used : /\ r \in edges /\ r.from \in Node /\ r.to \in Node /\ r.from # r.to
                        /\ Reach(r) \subseteq {r.from, r.to}
    <3>1. asked.run \in DOMAIN Observed
      BY DEF SearchInv
    <3> QED
      BY <3>1, SnapshotFacts DEF Followed, Neighbors
  <2>3. used = EdgesFrom(edges, direction, {f})
    <3>1. \A r : (\E arrow \in Arrows({r}, direction) : arrow[1] = f) <=> Reach(r) # {}
      BY ArrowFacts
    <3> QED
      BY <3>1 DEF EdgesFrom, Followed
  <2>4. UNION {Reach(r) : r \in used} = Onward(Arrows(edges, direction), {f})
    <3>1. \A y : y \in Onward(Arrows(edges, direction), {f})
                 <=> <<f, y>> \in Arrows(edges, direction)
      <4> HIDE DEF f, edges, direction
      <4> DEFINE A == Arrows(edges, direction)
      <4>1. IsArrows(A)
        BY ArrowFacts
      <4> HIDE DEF A
      <4>2. \A y : y \in Onward(A, {f}) <=> <<f, y>> \in A
        BY <4>1 DEF Onward, IsArrows
      <4> QED
        BY <4>2 DEF A
    <3>2. \A y : <<f, y>> \in Arrows(edges, direction) <=> \E r \in edges : y \in Reach(r)
      BY ArrowFacts
    <3>3. \A y : (\E r \in edges : y \in Reach(r)) <=> y \in UNION {Reach(r) : r \in used}
      BY DEF Followed
    <3> QED
      BY <3>1, <3>2, <3>3
  <2>5. new \subseteq Node /\ new = Onward(Arrows(edges, direction), {f}) \ s.visited
    <3>1. \A n \in UNION {Reach(r) : r \in used} : n \in Node
      <4> HIDE DEF Reach, used
      <4> QED
        BY <2>2
    <3> HIDE DEF Reach, used
    <3> QED
      BY <2>4, <3>1
  <2>6. depth \in Nat /\ depth < bound
    <3>1. s.frontier[1] \in [node : Node, depth : Nat]
      BY <1>1, <1>4, TailFacts DEF WalkInv
    <3> QED
      BY <1>1, <1>4, <3>1
  <2>7. /\ Cardinality(new) \in Nat /\ turn \in [1..Cardinality(new) -> new]
        /\ \A n \in new : \E k \in 1..Cardinality(new) : turn[k] = n
    <3>1. IsFiniteSet(new)
      BY <2>5, PositionFacts, FS_Subset
    <3>2. ASSUME NEW n \in new
          PROVE  \E r \in Leading(n) : number[n] = EdgePlace(r) /\ EdgePlace(r) \in Int
      <4> DEFINE places == {EdgePlace(r) : r \in Leading(n)}
                 most == Len(Sorted) * Len(Sorted) + Len(Sorted)
      <4>1. Leading(n) # {}
        OBVIOUS
      <4>2. \A r \in Leading(n) : EdgePlace(r) \in Nat /\ EdgePlace(r) <= most
        BY <2>2, EdgePlaceFacts
      <4>3. most \in Nat
        BY PositionFacts
      <4> HIDE DEF Leading, most
      <4>4. places \in SUBSET Nat /\ places # {} /\ \A p \in places : p <= most
        BY <4>1, <4>2
      <4>5. IsFiniteSet(places)
        <5> HIDE DEF places
        <5> QED
          BY <4>3, <4>4, FS_BoundedSetOfNaturals
      <4>6. Min(places) \in places
        <5>1. places \subseteq Int
          BY <4>4
        <5> HIDE DEF places
        <5> QED
          BY <4>4, <4>5, <5>1, Extremes
      <4>7. number[n] = Min(places)
        BY DEF Leading
      <4>8. \E r \in Leading(n) : Min(places) = EdgePlace(r)
        BY <4>6
      <4> HIDE DEF number, places
      <4> QED
        BY <4>2, <4>7, <4>8
    <3>3. ASSUME NEW m \in new, NEW n \in new, number[m] = number[n]
          PROVE  m = n
      <4>1. PICK r \in Leading(m) : number[m] = EdgePlace(r)
        BY <3>2
      <4>2. PICK q \in Leading(n) : number[n] = EdgePlace(q)
        BY <3>2
      <4> HIDE DEF number
      <4>3. r \in used /\ m \in Reach(r) /\ q \in used /\ n \in Reach(q)
        BY <4>1, <4>2
      <4>4. r.from = q.from /\ r.to = q.to
        <5>1. /\ r.from \in Node /\ r.to \in Node /\ q.from \in Node /\ q.to \in Node
          BY <2>2, <4>3
        <5>2. EdgePlace(r) = EdgePlace(q)
          BY <3>3, <4>1, <4>2
        <5> QED
          BY <5>1, <5>2, EdgePlaceFacts
      <4> QED
        BY <2>2, <4>3, <4>4 DEF Neighbors
    <3>4. number \in [new -> Int]
      BY <3>2
    <3> HIDE DEF number, new
    <3> QED
      BY <3>1, <3>3, <3>4, InTurnFacts
  <2> HIDE DEF turn, new
  <2>8. /\ G \in Frontier /\ DOMAIN G = 1..Cardinality(new)
        /\ \A k \in DOMAIN G : G[k].depth = depth + 1 /\ G[k].node = turn[k]
    <3>1. \A k \in 1..Cardinality(new) : turn[k] \in Node /\ depth + 1 \in Nat
      <4> HIDE DEF depth, s, edges, direction, bound, f, used
      <4>1. new \subseteq Node
        BY <2>5
      <4>2. \A k \in 1..Cardinality(new) : turn[k] \in new
        BY <2>7
      <4>3. depth + 1 \in Nat
        BY <2>6
      <4> QED
        BY <4>1, <4>2, <4>3
    <3>2. DOMAIN turn = 1..Cardinality(new)
      BY <2>7
    <3> HIDE DEF depth
    <3>3. DOMAIN G = 1..Cardinality(new)
      BY <3>2
    <3>4. \A k \in DOMAIN G : /\ G[k] = [node |-> turn[k], depth |-> depth + 1]
                             /\ G[k] \in [node : Node, depth : Nat]
      BY <3>1, <3>2
    <3>5. G \in Seq([node : Node, depth : Nat])
      <4> DEFINE entries == [node : Node, depth : Nat]
                 n == Cardinality(new)
      <4>1. \A k \in 1..n : G[k] \in entries
        BY <3>3, <3>4
      <4>2. G = [k \in 1..n |-> G[k]]
        BY <3>2
      <4>3. n \in Nat
        BY <2>7
      <4> HIDE DEF G, entries, n
      <4>4. G \in Seq(entries)
        BY <4>1, <4>2, <4>3
      <4> QED
        BY <4>4 DEF entries
    <3> HIDE DEF G
    <3> QED
      BY <3>3, <3>4, <3>5 DEF Frontier
  <2>9. Waiting(G, depth + 1) = new
    <3> HIDE DEF G, depth
    <3> QED
      BY <2>7, <2>8 DEF Waiting
  <2> HIDE DEF G, used, edges, direction, bound, s
  <2>10. WalkInv([visited   |-> s.visited \cup new,
                  traversed |-> s.traversed \cup EdgesFrom(edges, direction, {f}),
                  frontier  |-> Tail(s.frontier) \o G], asked.root, bound, edges, direction)
    BY <1>1, <1>4, <2>5, <2>6, <2>8, <2>9, TurnStep
  <2> QED
    BY <2>1, <2>3, <2>10 DEF edges, direction, bound, s
<1> HIDE DEF s
<1> QED
  BY <1>2, <1>3, <1>4

(* A query begins at its fingerprint.                                      *)
LEMMA WalkBegins ==
  ASSUME NEW f \in Node, NEW bound \in Nat, NEW edges, NEW direction
  PROVE  WalkInv([visited |-> {f}, traversed |-> {}, frontier |-> <<[node |-> f, depth |-> 0]>>],
                 f, bound, edges, direction)
<1> DEFINE F == <<[node |-> f, depth |-> 0]>>
           s == [visited |-> {f}, traversed |-> {}, frontier |-> F]
           arrows == Arrows(edges, direction)
<1>1. F \in Frontier /\ DOMAIN F = {1} /\ F[1].depth = 0 /\ F[1].node = f
  BY DEF Frontier
<1>2. Within(f, 0, arrows) = {f}
  BY WithinFacts
<1>3. /\ DOMAIN s = {"visited", "traversed", "frontier"}
      /\ s.visited = {f} /\ s.traversed = {} /\ s.frontier = F
  OBVIOUS
<1> HIDE DEF F, s, arrows
<1>4. s.visited \subseteq Node /\ s.frontier \in Frontier
  BY <1>1, <1>3
<1>5. CASE bound = 0
  <2>1. Complete(s, f, bound, edges, direction)
    BY <1>1, <1>2, <1>3, <1>5 DEF Complete, arrows
  <2> QED
    BY <1>3, <1>4, <2>1 DEF WalkInv, s, F
<1>6. CASE bound # 0
  <2>1. Waiting(F, 0) = {f} /\ Waiting(F, 0 + 1) = {}
    BY <1>1 DEF Waiting
  <2>2. Onward(arrows, {}) = {} /\ EdgesFrom(edges, direction, {}) = {}
    BY DEF Onward, EdgesFrom
  <2>3. \A i \in DOMAIN F : F[i].depth \in {0, 0 + 1}
    BY <1>1
  <2>4. \A i, j \in DOMAIN F : i < j => F[i].depth <= F[j].depth
    BY <1>1
  <2>5. Underway(s, f, edges, direction, 0, {})
    BY <1>2, <1>3, <2>1, <2>2, <2>3, <2>4 DEF Underway, arrows
  <2>6. 0 \in 0..(bound - 1) /\ {} \in SUBSET Node
    BY <1>6
  <2> QED
    BY <1>3, <1>4, <2>5, <2>6 DEF WalkInv, s, F
<1> QED
  BY <1>5, <1>6

LEMMA GraphStarts ==
  GraphInit => GraphInv
<1> SUFFICES ASSUME GraphInit
             PROVE  GraphInv
  OBVIOUS
<1>1. \A run \in DOMAIN Observed : snapshots[run] = NoGraph
  BY DEF GraphInit
<1>2. Verified(NoGraph) /\ NoGraph.nodes \subseteq Node
  BY DEF Verified, NoGraph
<1> QED
  BY <1>1, <1>2 DEF GraphInit, GraphInv

(* What a query answers from does not change while it is answered.         *)
LEMMA GraphSteps ==
  GraphInv /\ [GraphNext]_graphVars => GraphInv'
<1> SUFFICES ASSUME GraphInv, [GraphNext]_graphVars
             PROVE  GraphInv'
  OBVIOUS
<1>1. ASSUME NEW run \in DOMAIN Observed, StartGraph(run)
      PROVE  GraphInv'
  BY <1>1 DEF StartGraph, GraphInv, Verified
<1>2. ASSUME NEW candidate \in Candidates, AddRelationship(candidate)
      PROVE  GraphInv'
  <2>1. building # 0 /\ search = NoSearch
    BY <1>2 DEF AddRelationship, GraphInv, SearchInv
  <2> QED
    BY <1>2, <2>1 DEF AddRelationship, GraphInv, Verified
<1>3. ASSUME SnapshotRun
      PROVE  GraphInv'
  <2>1. building \in DOMAIN Observed /\ search = NoSearch
    BY <1>3 DEF SnapshotRun, GraphInv, SearchInv
  <2>2. Observed[building] \subseteq Node
    BY <2>1, GraphAssumption
  <2>3. ASSUME NEW run \in DOMAIN Observed
        PROVE  Verified(snapshots'[run]) /\ snapshots'[run].nodes \subseteq Node
    <3>0. DOMAIN snapshots = DOMAIN Observed
      BY DEF GraphInv
    <3>1. \/ snapshots'[run] = snapshots[run]
          \/ snapshots'[run] = graph /\ Bound(graph, building) /\ run = building
      BY <1>3, <3>0 DEF SnapshotRun
    <3> QED
      BY <2>1, <2>2, <3>1 DEF GraphInv, Bound
  <2>4. building' = 0 /\ search' = NoSearch /\ DOMAIN snapshots' = DOMAIN Observed
    BY <1>3, <2>1 DEF SnapshotRun, GraphInv
  <2> QED
    BY <2>3, <2>4 DEF GraphInv, Verified
<1>4. ASSUME NEW query \in Queries, NEW requested \in {0} \cup DOMAIN Observed, NEW depth \in Depths,
             NEW direction \in {"upstream", "downstream", "both"}, NEW filter \in {"explicit", "all"},
             Ask(query, requested, direction, depth, filter)
      PROVE  GraphInv'
  <2>1. PICK f \in Node, run \in DOMAIN Observed :
          /\ asked' = [root |-> f, run |-> run, direction |-> direction, depth |-> depth,
                       filter |-> filter]
          /\ search' = [walk \in Walks |->
               [visited |-> {f}, traversed |-> {}, frontier |-> <<[node |-> f, depth |-> 0]>>]]
    BY <1>4 DEF Ask
  <2>2. depth \in Nat
    BY GraphAssumption
  <2>3. asked'.root = f /\ asked'.run = run /\ asked'.depth = depth
    BY <2>1
  <2>4. ASSUME NEW walk \in Walks
        PROVE  WalkInv(search'[walk], asked'.root, asked'.depth, Followed(walk)', Toward(walk)')
    <3>1. search'[walk] = [visited |-> {f}, traversed |-> {},
                           frontier |-> <<[node |-> f, depth |-> 0]>>]
      BY <2>1
    <3>2. WalkInv(search'[walk], f, depth, Followed(walk)', Toward(walk)')
      BY <2>2, <3>1, WalkBegins
    <3> QED
      BY <2>3, <3>2
  <2>5. building' = 0 /\ DOMAIN search' = Walks
    BY <1>4, <2>1 DEF Ask
  <2>6. SearchInv'
    BY <2>2, <2>3, <2>4, <2>5 DEF SearchInv
  <2> QED
    BY <1>4, <2>5, <2>6 DEF Ask, GraphInv, Verified
<1>5. ASSUME Expand
      PROVE  GraphInv'
  <2>1. /\ search' = [walk \in Walks |-> Expanded(walk, search[walk])]
        /\ SearchInv /\ UNCHANGED <<building, graph, snapshots, asked>>
    BY <1>5 DEF Expand, GraphInv
  <2>2. ASSUME NEW walk \in Walks
        PROVE  WalkInv(search'[walk], asked.root, asked.depth, Followed(walk), Toward(walk))
    <3>1. search'[walk] = Expanded(walk, search[walk])
      BY <2>1
    <3> QED
      BY <2>1, <3>1, ExpandedStep
  <2>3. \A walk \in Walks : Followed(walk)' = Followed(walk) /\ Toward(walk)' = Toward(walk)
    BY <2>1 DEF Followed, Follows, Includes, Inferred, Causal, Toward
  <2>4. SearchInv'
    BY <2>1, <2>2, <2>3 DEF SearchInv
  <2> QED
    BY <2>1, <2>4 DEF GraphInv, Verified
<1>6. CASE UNCHANGED graphVars
  <2>1. \A walk : Followed(walk)' = Followed(walk) /\ Toward(walk)' = Toward(walk)
    BY <1>6 DEF graphVars, Followed, Follows, Includes, Inferred, Causal, Toward
  <2>2. SearchInv => SearchInv'
    BY <1>6, <2>1 DEF graphVars, SearchInv
  <2> QED
    BY <1>6, <2>2 DEF graphVars, GraphInv, Verified
<1> QED
  BY <1>1, <1>2, <1>3, <1>4, <1>5, <1>6 DEF GraphNext

(* What the walks have seen when they are done is what is to be answered.  *)
LEMMA WalksAnswer ==
  ASSUME GraphInv
  PROVE  GraphAnswers
<1> SUFFICES ASSUME Answered
             PROVE  GraphAnswers
  BY DEF GraphAnswers
<1> DEFINE edges  == snapshots[asked.run].edges
           shown  == {r \in edges : Includes(asked.filter, r)}
           causal == {r \in edges : Causal(r)}
           arrows == Arrows(shown, asked.direction)
           Other(direction) == IF direction = "upstream" THEN "downstream" ELSE "upstream"
           sub    == search["subgraph"]
<1>1. SearchInv /\ asked.root \in Node /\ asked.run \in DOMAIN Observed /\ asked.depth \in Nat
  BY DEF Answered, GraphInv, SearchInv
<1>2. ASSUME NEW walk \in Walks
      PROVE  /\ Complete(search[walk], asked.root, asked.depth, Followed(walk), Toward(walk))
             /\ search[walk].visited \subseteq Node
  <2>1. WalkInv(search[walk], asked.root, asked.depth, Followed(walk), Toward(walk))
        /\ search[walk].frontier = <<>>
    BY <1>1 DEF Answered, SearchInv
  <2> QED
    BY <1>1, <2>1, WalkDone DEF WalkInv
<1>3. Complete(sub, asked.root, asked.depth, shown, asked.direction)
  <2>1. "subgraph" \in Walks /\ Followed("subgraph") = shown /\ Toward("subgraph") = asked.direction
    BY DEF Walks, Followed, Follows, Toward
  <2> HIDE DEF shown
  <2> QED
    BY <1>2, <2>1
<1>4. ASSUME NEW walk \in {"upstream", "downstream"}
      PROVE  Complete(search[walk], asked.root, asked.depth, causal, walk)
             /\ search[walk].visited \subseteq Node
  <2>1. walk \in Walks /\ Followed(walk) = causal /\ Toward(walk) = walk
    BY DEF Walks, Followed, Follows, Toward
  <2> HIDE DEF causal
  <2> QED
    BY <1>2, <2>1
<1>5. sub.visited = Within(asked.root, asked.depth, arrows)
  BY <1>3 DEF Complete
<1>6. sub.traversed =
        {r \in shown : asked.depth > 0 /\
           \E n \in Within(asked.root, asked.depth - 1, arrows) :
             \E arrow \in Arrows({r}, asked.direction) : arrow[1] = n}
  <2>1. asked.depth > 0 <=> asked.depth # 0
    BY <1>1
  <2>2. sub.traversed = IF asked.depth = 0 THEN {}
          ELSE EdgesFrom(shown, asked.direction, Within(asked.root, asked.depth - 1, arrows))
    BY <1>3 DEF Complete
  <2> HIDE DEF shown, arrows, sub
  <2> QED
    BY <2>1, <2>2 DEF EdgesFrom
<1>7. ASSUME NEW r \in sub.traversed
      PROVE  {r.from, r.to} \subseteq sub.visited
  <2>1. PICK n \in Within(asked.root, asked.depth - 1, arrows),
             arrow \in Arrows({r}, asked.direction) : arrow[1] = n
    BY <1>6
  <2>2. r \in shown /\ asked.depth > 0
    BY <1>6
  <2>3. arrow \in arrows
    <3>1. Arrows({r}, asked.direction) \subseteq arrows
      BY <2>2 DEF Arrows
    <3> QED
      BY <2>1, <3>1
  <2>4. {r.from, r.to} = {arrow[1], arrow[2]}
    BY DEF Arrows
  <2>5. asked.depth - 1 \in Nat /\ (asked.depth - 1) + 1 = asked.depth
    BY <1>1, <2>2
  <2> HIDE DEF arrows, shown, sub
  <2>6. Within(asked.root, asked.depth, arrows)
          = Within(asked.root, asked.depth - 1, arrows)
              \cup Onward(arrows, Within(asked.root, asked.depth - 1, arrows))
    BY <2>5, WithinFacts
  <2>7. arrow[2] \in Onward(arrows, Within(asked.root, asked.depth - 1, arrows))
    BY <2>1, <2>3 DEF Onward
  <2> QED
    BY <1>5, <2>1, <2>4, <2>6, <2>7
<1>8. ASSUME NEW walk \in {"upstream", "downstream"}
      PROVE  search[walk].visited =
               {f \in Node : asked.root \in Within(f, asked.depth, Arrows(causal, Other(walk)))}
  <2> DEFINE along == Arrows(causal, walk)
             against == Arrows(causal, Other(walk))
  <2>1. IsArrows(along) /\ IsArrows(against)
    BY ArrowFacts
  <2>2. \A x, y : <<x, y>> \in along <=> <<y, x>> \in against
    <3>1. \A r \in causal : ~ Symmetric(r)
      BY DEF Causal, Symmetric
    <3> HIDE DEF causal
    <3>2. \A x, y : /\ <<x, y>> \in Arrows(causal, "downstream")
                         <=> \E r \in causal : r.from = x /\ r.to = y
                    /\ <<x, y>> \in Arrows(causal, "upstream")
                         <=> \E r \in causal : r.from = y /\ r.to = x
      BY <3>1 DEF Arrows
    <3> QED
      BY <3>2
  <2> HIDE DEF along, against
  <2>3. \A g : g \in Within(asked.root, asked.depth, along)
               <=> asked.root \in Within(g, asked.depth, against)
    BY <1>1, <2>1, <2>2, WithinReversed
  <2>4. search[walk].visited = Within(asked.root, asked.depth, along)
        /\ search[walk].visited \subseteq Node
    BY <1>4 DEF Complete, along
  <2>5. search[walk].visited = {f \in Node : asked.root \in Within(f, asked.depth, against)}
    BY <2>3, <2>4
  <2> QED
    BY <2>5 DEF against
<1>9. ASSUME NEW walk \in {"upstream", "downstream"}, asked.direction \in {walk, "both"}
      PROVE  search[walk].visited \subseteq sub.visited
  <2>1. causal \subseteq shown
    <3>1. \A r \in edges : Valid(r)
      BY <1>1, SnapshotFacts
    <3> QED
      BY <3>1 DEF Valid, Causal, Includes, Inferred
  <2>2. Arrows(causal, walk) \subseteq arrows
    <3>1. \A direction \in {walk, "both"} : \A r : Causal(r) => ~ Symmetric(r)
      BY DEF Causal, Symmetric
    <3> QED
      BY <1>9, <2>1, <3>1 DEF Arrows
  <2>3. search[walk].visited = Within(asked.root, asked.depth, Arrows(causal, walk))
    BY <1>4 DEF Complete
  <2> HIDE DEF causal, arrows, sub
  <2> QED
    BY <1>1, <1>5, <2>2, <2>3, WithinMore
<1> QED
  BY <1>5, <1>6, <1>7, <1>8, <1>9 DEF GraphAnswers

(* The graph, any number of runs and relationships, any depth, with cycles *)
(* and both readings of a symmetric edge: once the three walks of a query  *)
(* have nothing left to take, what they have visited and traversed is what *)
(* is within the depth, no more and no less.                               *)
THEOREM GraphAnswersHolds == GraphSpec => []GraphAnswers
<1>1. GraphInv => GraphAnswers
  BY WalksAnswer
<1> QED
  BY GraphStarts, GraphSteps, <1>1, PTL DEF GraphSpec

(* And so in every behavior of an investigation.                           *)
THEOREM InvestigationAnswers == InvestigationSpec => []GraphAnswers
<1>1. InvestigationInit => GraphInv
  BY GraphStarts DEF InvestigationInit
<1>2. GraphInv /\ [InvestigationNext]_<<subject, vars, graphVars>> => GraphInv'
  <2>1. [InvestigationNext]_<<subject, vars, graphVars>> => [GraphNext]_graphVars
    BY DEF InvestigationNext, Reporting, Graphing
  <2> QED
    BY GraphSteps, <2>1
<1>3. GraphInv => GraphAnswers
  BY WalksAnswer
<1> QED
  BY <1>1, <1>2, <1>3, PTL DEF InvestigationSpec

-----------------------------------------------------------------------------
(* The digests of a report                                                 *)

Ordered == order \in SetToSeqs(Contents)

Report == [Contents -> Nat]

(* The order of the digests as a function.                                 *)
Place == [d \in Contents |-> Rank(d)]

(* The order of the digests lists each content once, and the rank of a     *)
(* content is its place there.                                             *)
LEMMA OrderFacts ==
  ASSUME Ordered
  PROVE  LET n == Cardinality(Contents)
         IN  /\ n \in Nat /\ order \in [1..n -> Contents] /\ Len(order) = n /\ DOMAIN order = 1..n
             /\ \A k \in 1..n : Rank(order[k]) = k
             /\ \A d \in Contents : Rank(d) \in 1..n /\ order[Rank(d)] = d
             /\ Place \in [Contents -> Int]
             /\ \A d, e \in Contents : Place[d] = Place[e] => d = e
<1> DEFINE n == Cardinality(Contents)
<1>1. n \in Nat /\ IsFiniteSet(Contents)
  BY ObservationAssumption, FS_CardinalityType
<1>2. order \in [1..n -> Contents] /\ \A i, j \in 1..n : i # j => order[i] # order[j]
  BY DEF Ordered, SetToSeqs
<1>3. \A d \in Contents : \E k \in 1..n : order[k] = d
  <2>1. IsFiniteSet(1..n) /\ Cardinality(1..n) = n
    BY <1>1, FS_Interval
  <2> HIDE DEF n
  <2>2. order \in Injection(1..n, Contents)
    BY <1>2 DEF Injection, IsInjective
  <2>3. Cardinality(1..n) = Cardinality(Contents)
    BY <2>1 DEF n
  <2>4. order \in Surjection(1..n, Contents)
    BY <1>1, <2>2, <2>3, FS_Injection
  <2> QED
    BY <2>4 DEF Surjection
<1> HIDE DEF n
<1>4. Len(order) = n /\ DOMAIN order = 1..n
  BY <1>1, <1>2
<1>5. \A d \in Contents : Rank(d) \in 1..n /\ order[Rank(d)] = d
  BY <1>3, <1>4 DEF Rank
<1>6. \A k \in 1..n : Rank(order[k]) = k
  BY <1>2, <1>5
<1>7. Place \in [Contents -> Int]
  BY <1>5 DEF Place
<1>8. \A d, e \in Contents : Place[d] = Place[e] => d = e
  BY <1>5 DEF Place
<1> QED
  BY <1>1, <1>2, <1>4, <1>5, <1>6, <1>7, <1>8 DEF n

(* The contents of a fingerprint are contents, finitely many.              *)
LEMMA OfFacts ==
  ASSUME NEW fp
  PROVE  Of(fp) \in SUBSET Contents /\ IsFiniteSet(Of(fp))
<1>1. Of(fp) \in SUBSET Contents
  BY DEF Of
<1> QED
  BY <1>1, ObservationAssumption, FS_Subset

(* A sequence with the contents of one fingerprint, in the order of their  *)
(* digests, each as often as a report has it.                              *)
IsListOf(s, report, fp) ==
  /\ s \in Seq(Of(fp)) /\ Ascends(s, Place)
  /\ \A d \in Of(fp) : Among(s, {d}) = report[d]

(* There is one such sequence: the order and the number of copies decide   *)
(* it.                                                                     *)
LEMMA ListIsOne ==
  ASSUME Ordered, NEW s, NEW t, NEW report, NEW fp,
         IsListOf(s, report, fp), IsListOf(t, report, fp)
  PROVE  s = t
<1> DEFINE A == Of(fp)
           rank == [d \in A |-> Place[d]]
<1>1. rank \in [A -> Int] /\ \A d, e \in A : rank[d] = rank[e] => d = e
  BY OfFacts, OrderFacts
<1>2. s \in Seq(A) /\ t \in Seq(A) /\ \A d \in A : Among(s, {d}) = Among(t, {d})
  BY DEF IsListOf
<1>3. Ascends(s, rank) /\ Ascends(t, rank)
  <2>1. /\ \A i \in DOMAIN s : s[i] \in A
        /\ \A i \in DOMAIN t : t[i] \in A
    BY <1>2
  <2> QED
    BY <2>1 DEF IsListOf, Ascends
<1> HIDE DEF A, rank
<1>4. \A u, v \in Seq(A) :
        Ascends(u, rank) /\ Ascends(v, rank) /\ (\A d \in A : Among(u, {d}) = Among(v, {d}))
          => u = v
  BY <1>1, AscendingIsOne
<1> QED
  BY <1>2, <1>3, <1>4

(* Copies of one content.                                                  *)
LEMMA CopiesFacts ==
  ASSUME NEW A, NEW d \in A, NEW m \in Nat
  PROVE  LET s == [k \in 1..m |-> d]
         IN  /\ s \in Seq(A) /\ Len(s) = m
             /\ Among(s, {d}) = m
             /\ \A e : e # d => Among(s, {e}) = 0
<1> DEFINE s == [k \in 1..m |-> d]
<1>1. s \in Seq(A) /\ Len(s) = m /\ \A k \in DOMAIN s : s[k] = d
  OBVIOUS
<1> HIDE DEF s
<1>2. Among(s, {d}) = m
  BY <1>1, AmongFacts
<1>3. ASSUME NEW e, e # d
      PROVE  Among(s, {e}) = 0
  BY <1>1, <1>3, AmongFacts
<1> QED
  BY <1>1, <1>2, <1>3 DEF s

(* The bucket that the delta sorts by digest is this sequence.             *)
LEMMA ByDigestFacts ==
  ASSUME Ordered, NEW report \in Report, NEW fp
  PROVE  IsListOf(ByDigest(report, fp), report, fp)
<1> DEFINE n == Cardinality(Contents)
           A == Of(fp)
           Piece(k) == IF order[k] \in A THEN [j \in 1..report[order[k]] |-> order[k]] ELSE <<>>
           pieces == [k \in DOMAIN order |-> Piece(k)]
<1>1. /\ n \in Nat /\ order \in [1..n -> Contents] /\ DOMAIN order = 1..n
      /\ \A k \in 1..n : Rank(order[k]) = k
      /\ \A d \in Contents : Rank(d) \in 1..n /\ order[Rank(d)] = d
      /\ A \in SUBSET Contents
  BY OrderFacts, OfFacts
<1>2. \A k \in 1..n : report[order[k]] \in Nat
  BY <1>1 DEF Report
<1> HIDE DEF n, A
<1>3. ASSUME NEW k \in 1..n
      PROVE  /\ Piece(k) \in Seq(A)
             /\ \A i \in DOMAIN Piece(k) : Piece(k)[i] = order[k]
             /\ \A d \in A : Among(Piece(k), {d}) = IF d = order[k] THEN report[d] ELSE 0
  <2>1. CASE order[k] \in A
    <3>1. report[order[k]] \in Nat
      BY <1>2
    <3> DEFINE m == report[order[k]]
               s == [j \in 1..m |-> order[k]]
    <3>2. Piece(k) = s
      BY <2>1
    <3>3. \A i \in DOMAIN s : s[i] = order[k]
      OBVIOUS
    <3>4. /\ s \in Seq(A) /\ Among(s, {order[k]}) = m
          /\ \A e : e # order[k] => Among(s, {e}) = 0
      <4> HIDE DEF m
      <4> QED
        BY <2>1, <3>1, CopiesFacts DEF m
    <3> HIDE DEF s, Piece
    <3> QED
      BY <3>2, <3>3, <3>4
  <2>2. CASE order[k] \notin A
    <3>1. Piece(k) = <<>>
      BY <2>2
    <3>2. \A d : Among(<<>>, {d}) = 0
      <4>1. \A d : {j \in DOMAIN <<>> : <<>>[j] \in {d}} = {}
        OBVIOUS
      <4> QED
        BY <4>1, FS_EmptySet DEF Among
    <3>3. \A d \in A : d # order[k]
      BY <2>2
    <3>4. <<>> \in Seq(A) /\ DOMAIN <<>> = {}
      OBVIOUS
    <3> HIDE DEF Piece
    <3> QED
      BY <3>1, <3>2, <3>3, <3>4
  <2> QED
    BY <2>1, <2>2
<1>4. pieces \in Seq(Seq(A)) /\ Len(pieces) = n /\ \A k \in 1..n : pieces[k] = Piece(k)
  <2>1. pieces \in [1..n -> Seq(A)]
    BY <1>1, <1>3
  <2>2. \A k \in 1..n : pieces[k] = Piece(k)
    BY <1>1
  <2> HIDE DEF pieces, Piece
  <2> QED
    BY <1>1, <2>1, <2>2
<1>5. ByDigest(report, fp) = FlattenSeq(pieces)
  BY DEF ByDigest, A
<1> HIDE DEF pieces, Piece
<1>6. PICK h \in [0..n -> Seq(A)] : Piles(h, n, pieces) /\ FlattenSeq(pieces) = h[n]
  BY <1>4, FlattenFacts
<1> DEFINE Upto(k) == /\ Ascends(h[k], Place)
                      /\ \A i \in DOMAIN h[k] : Rank(h[k][i]) <= k
                      /\ \A d \in A : Among(h[k], {d}) = IF Rank(d) <= k THEN report[d] ELSE 0
           S == {k \in Nat : k <= n => Upto(k)}
<1>7. 0 \in S
  <2>1. h[0] = <<>>
    BY <1>6 DEF Piles
  <2>2. \A d : Among(<<>>, {d}) = 0
    <3>1. \A d : {j \in DOMAIN <<>> : <<>>[j] \in {d}} = {}
      OBVIOUS
    <3> QED
      BY <3>1, FS_EmptySet DEF Among
  <2>3. \A d \in A : ~(Rank(d) <= 0)
    BY <1>1
  <2>4. Ascends(h[0], Place)
    BY <2>1 DEF Ascends
  <2>5. \A d \in A : Among(h[0], {d}) = IF Rank(d) <= 0 THEN report[d] ELSE 0
    BY <2>1, <2>2, <2>3
  <2>6. \A i \in DOMAIN h[0] : Rank(h[0][i]) <= 0
    BY <2>1
  <2>7. Upto(0)
    BY <2>4, <2>5, <2>6
  <2> HIDE DEF Upto
  <2> QED
    BY <2>7
<1>8. ASSUME NEW k \in Nat, k \in S
      PROVE  k + 1 \in S
  <2>1. SUFFICES ASSUME k + 1 <= n
                 PROVE  Upto(k + 1)
    OBVIOUS
  <2>2. k \in 0..(n - 1) /\ k + 1 \in 1..n /\ k \in 0..n /\ k + 1 \in 0..n
    BY <1>1, <2>1
  <2> DEFINE s == h[k]
             t == Piece(k + 1)
             r == h[k + 1]
             m == Len(s)
  <2>3. r = s \o t /\ s \in Seq(A) /\ t \in Seq(A) /\ r \in Seq(A)
    BY <1>3, <1>4, <1>6, <2>2 DEF Piles
  <2>4. /\ Ascends(s, Place)
        /\ \A i \in DOMAIN s : Rank(s[i]) <= k
        /\ \A d \in A : Among(s, {d}) = IF Rank(d) <= k THEN report[d] ELSE 0
    BY <1>8, <2>2
  <2>5. /\ \A i \in DOMAIN t : t[i] = order[k + 1]
        /\ \A d \in A : Among(t, {d}) = IF d = order[k + 1] THEN report[d] ELSE 0
    BY <1>3, <2>2
  <2>6. Rank(order[k + 1]) = k + 1
    BY <1>1, <2>2
  <2>7. \A d \in A : /\ Rank(d) \in Nat /\ Place[d] = Rank(d) /\ report[d] \in Nat
                     /\ (d = order[k + 1] <=> Rank(d) = k + 1)
    BY <1>1, <2>2 DEF Place, Report
  <2> HIDE DEF s, t, r
  <2>8. /\ m \in Nat /\ DOMAIN s = 1..m /\ DOMAIN r = 1..(m + Len(t)) /\ DOMAIN t = 1..Len(t)
        /\ Len(t) \in Nat
        /\ \A i \in 1..m : r[i] = s[i]
        /\ \A i \in 1..(m + Len(t)) : i > m => r[i] = t[i - m] /\ i - m \in DOMAIN t
    BY <2>3
  <2> HIDE DEF m
  <2>9. \A i \in DOMAIN r : \/ i \in DOMAIN s /\ r[i] = s[i] /\ Rank(r[i]) <= k
                            \/ i > m /\ r[i] = order[k + 1]
    <3>1. ASSUME NEW i \in DOMAIN r, i <= m
          PROVE  i \in DOMAIN s /\ r[i] = s[i] /\ Rank(r[i]) <= k
      <4>1. i \in 1..m
        BY <2>8, <3>1
      <4>2. i \in DOMAIN s /\ r[i] = s[i]
        BY <2>8, <4>1
      <4> QED
        BY <2>4, <4>2
    <3>2. ASSUME NEW i \in DOMAIN r, i > m
          PROVE  r[i] = order[k + 1]
      <4>1. i \in 1..(m + Len(t))
        BY <2>8
      <4>2. r[i] = t[i - m] /\ i - m \in DOMAIN t
        BY <2>8, <3>2, <4>1
      <4> QED
        BY <2>5, <4>2
    <3>3. \A i \in DOMAIN r : i <= m \/ i > m
      BY <2>8
    <3> QED
      BY <3>1, <3>2, <3>3
  <2>10. \A i \in DOMAIN r : r[i] \in A
    BY <2>3
  <2>11. ASSUME NEW i \in DOMAIN r, NEW j \in DOMAIN r, i < j
         PROVE  Place[r[i]] <= Place[r[j]]
    <3>1. CASE i \in DOMAIN s /\ j \in DOMAIN s
      <4>1. r[i] = s[i] /\ r[j] = s[j]
        BY <2>8, <3>1
      <4> QED
        BY <2>4, <2>11, <3>1, <4>1 DEF Ascends
    <3>2. CASE j \notin DOMAIN s
      <4>1. r[j] = order[k + 1] /\ Rank(r[i]) <= k + 1
        BY <2>6, <2>7, <2>9, <2>10, <3>2
      <4> QED
        BY <2>6, <2>7, <2>10, <4>1
    <3>3. CASE i \notin DOMAIN s /\ j \in DOMAIN s
      BY <2>8, <2>9, <2>11, <3>3
    <3> QED
      BY <3>1, <3>2, <3>3
  <2>12. \A i \in DOMAIN r : Rank(r[i]) <= k + 1
    BY <2>6, <2>7, <2>9, <2>10
  <2>13. ASSUME NEW d \in A
         PROVE  Among(r, {d}) = IF Rank(d) <= k + 1 THEN report[d] ELSE 0
    <3>1. Among(r, {d}) = Among(s, {d}) + Among(t, {d})
      BY <2>3, AmongConcat
    <3>2. /\ Among(s, {d}) = IF Rank(d) <= k THEN report[d] ELSE 0
          /\ Among(t, {d}) = IF Rank(d) = k + 1 THEN report[d] ELSE 0
      BY <2>4, <2>5, <2>7
    <3>3. Rank(d) \in Nat /\ report[d] \in Nat
      BY <2>7
    <3> QED
      BY <3>1, <3>2, <3>3
  <2> QED
    BY <2>11, <2>12, <2>13 DEF Ascends, r
<1>9. \A k \in Nat : k \in S
  <2> HIDE DEF S
  <2> QED
    BY <1>7, <1>8, NatInduct
<1>10. Upto(n)
  <2>1. n \in S
    <3> HIDE DEF S
    <3> QED
      BY <1>1, <1>9
  <2>2. n <= n
    BY <1>1
  <2> HIDE DEF Upto
  <2> QED
    BY <2>1, <2>2
<1>11. \A d \in A : Rank(d) <= n
  BY <1>1
<1>12. h[n] \in Seq(A)
  BY <1>1, <1>6
<1> QED
  BY <1>5, <1>6, <1>10, <1>11, <1>12 DEF IsListOf, A

-----------------------------------------------------------------------------
(* The walk along two lists                                                *)

(* How often a sequence has something, and what it has from a place on.    *)
Times(s, d) == Among(s, {d})
Rest(s, b) == SubSeq(s, b, Len(s))

(* A sequence with one more in front has that one once more.               *)
LEMMA TimesFacts ==
  ASSUME NEW A, NEW s \in Seq(A), NEW e \in A
  PROVE  \A d : /\ Times(s, d) \in Nat /\ Times(<<>>, d) = 0
                /\ Times(<<e>> \o s, d) = Times(s, d) + (IF e = d THEN 1 ELSE 0)
                /\ (Times(s, d) # 0 <=> \E k \in DOMAIN s : s[k] = d)
<1> TAKE d
<1> DEFINE T == {d}
<1>1. \A x : x \in T <=> x = d
  OBVIOUS
<1>2. Times(<<e>> \o s, d) = Among(<<e>> \o s, T) /\ Times(s, d) = Among(s, T) /\ Times(<<>>, d) = Among(<<>>, T)
  BY DEF Times
<1>3. {j \in DOMAIN <<>> : <<>>[j] \in T} = {}
  OBVIOUS
<1> HIDE DEF T
<1>4. Among(s, T) \in Nat /\ (Among(s, T) = 0 <=> \A k \in DOMAIN s : s[k] \notin T)
  BY AmongFacts
<1>5. Among(<<e>> \o s, T) = Among(s, T) + (IF e \in T THEN 1 ELSE 0)
  BY AmongAppend
<1>6. Among(<<>>, T) = 0
  BY <1>3, FS_EmptySet DEF Among
<1> QED
  BY <1>1, <1>2, <1>4, <1>5, <1>6

(* The rest of a sequence begins with its first, which in a sorted one     *)
(* nothing later precedes.                                                 *)
LEMMA RestFacts ==
  ASSUME NEW A, NEW s \in Seq(A), NEW b \in 1..Len(s)
  PROVE  /\ s[b] \in A /\ Rest(s, b + 1) \in Seq(A)
         /\ Rest(s, b) = <<s[b]>> \o Rest(s, b + 1)
         /\ \A rank : Ascends(s, rank) =>
              \A d : Times(Rest(s, b), d) # 0 => rank[s[b]] <= rank[d] \/ d = s[b]
<1> DEFINE n == Len(s)
<1>1. n \in Nat /\ DOMAIN s = 1..n /\ \A k \in 1..n : s[k] \in A
  OBVIOUS
<1>2. s[b] \in A /\ b \in Int /\ n \in Int
  BY <1>1
<1>3. \A k \in (b + 1)..n : s[k] \in A
  BY <1>1
<1>4. \A k \in b..n : s[k] \in A
  BY <1>1
<1>5. Rest(s, b + 1) \in Seq(A)
  BY <1>2, <1>3, SubSeqProperties DEF Rest
<1>6. /\ Rest(s, b) \in Seq(A) /\ Len(Rest(s, b)) = n - b + 1
      /\ \A i \in 1..(n - b + 1) : Rest(s, b)[i] = s[b + i - 1]
  BY <1>2, <1>4, SubSeqProperties DEF Rest
<1>7. Rest(s, b) = <<s[b]>> \o Rest(s, b + 1)
  <2>1. n \in b..n
    BY <1>1
  <2> QED
    BY <2>1, SubSeqRecursiveFirst DEF Rest
<1>8. ASSUME NEW rank, Ascends(s, rank), NEW d, Times(Rest(s, b), d) # 0
      PROVE  rank[s[b]] <= rank[d] \/ d = s[b]
  <2>1. PICK i \in DOMAIN Rest(s, b) : Rest(s, b)[i] = d
    <3> DEFINE r == Rest(s, b)
    <3>1. r \in Seq(A) /\ Times(r, d) # 0
      BY <1>6, <1>8
    <3> HIDE DEF r
    <3>2. Times(r, d) # 0 <=> \E i \in DOMAIN r : r[i] = d
      BY <3>1, AmongFacts DEF Times
    <3>3. \E i \in DOMAIN r : r[i] = d
      BY <3>1, <3>2
    <3> QED
      BY <3>3 DEF r
  <2>2. i \in 1..(n - b + 1)
    BY <1>6, <2>1
  <2>3. s[b + i - 1] = d /\ b + i - 1 \in 1..n /\ b \in 1..n /\ (i = 1 \/ b < b + i - 1)
    BY <1>1, <1>6, <2>1, <2>2
  <2> QED
    BY <1>1, <1>8, <2>3 DEF Ascends
<1> QED
  BY <1>2, <1>5, <1>7, <1>8

(* The rest from the first place is the sequence, past the last it is      *)
(* empty, and the rest of a sorted one is sorted.                          *)
LEMMA RestEnds ==
  ASSUME NEW A, NEW s \in Seq(A)
  PROVE  /\ Rest(s, Len(s) + 1) = <<>> /\ Rest(s, 1) = s
         /\ \A b \in 1..(Len(s) + 1) : /\ Rest(s, b) \in Seq(A)
                                       /\ \A rank : Ascends(s, rank) => Ascends(Rest(s, b), rank)
<1> DEFINE n == Len(s)
<1>1. n \in Nat /\ DOMAIN s = 1..n
  OBVIOUS
<1>2. Rest(s, n + 1) = <<>>
  BY <1>1, SubSeqEmpty DEF Rest
<1>3. Rest(s, 1) = s
  BY SubSeqFull DEF Rest
<1>4. ASSUME NEW b \in 1..(n + 1)
      PROVE  /\ Rest(s, b) \in Seq(A)
             /\ \A rank : Ascends(s, rank) => Ascends(Rest(s, b), rank)
  <2>1. b \in Int /\ n \in Int /\ \A k \in b..n : s[k] \in A
    BY <1>1
  <2>2. /\ Rest(s, b) \in Seq(A) /\ Len(Rest(s, b)) = IF b <= n THEN n - b + 1 ELSE 0
        /\ \A i \in 1..(n - b + 1) : Rest(s, b)[i] = s[b + i - 1]
    BY <2>1, SubSeqProperties DEF Rest
  <2>3. DOMAIN Rest(s, b) = 1..(n - b + 1)
    <3>1. DOMAIN Rest(s, b) = 1..Len(Rest(s, b))
      BY <2>2
    <3>2. Len(Rest(s, b)) = n - b + 1
      BY <1>1, <2>2
    <3> QED
      BY <3>1, <3>2
  <2>4. ASSUME NEW rank, Ascends(s, rank), NEW i \in 1..(n - b + 1), NEW j \in 1..(n - b + 1), i < j
        PROVE  rank[Rest(s, b)[i]] <= rank[Rest(s, b)[j]]
    <3>1. b + i - 1 \in 1..n /\ b + j - 1 \in 1..n /\ b + i - 1 < b + j - 1
      BY <1>1, <2>4
    <3>2. rank[s[b + i - 1]] <= rank[s[b + j - 1]]
      BY <1>1, <2>4, <3>1 DEF Ascends
    <3> QED
      BY <2>2, <3>2
  <2> QED
    BY <2>2, <2>3, <2>4 DEF Ascends
<1> QED
  BY <1>2, <1>3, <1>4

(* A sorted sequence stays sorted when what is put in front precedes all   *)
(* of it.                                                                  *)
LEMMA PushAscends ==
  ASSUME NEW A, NEW rank, NEW s \in Seq(A), NEW e \in A, Ascends(s, rank),
         \A d \in A : Times(s, d) # 0 => rank[e] <= rank[d]
  PROVE  Ascends(<<e>> \o s, rank)
<1> DEFINE t == <<e>> \o s
           n == Len(s)
<1>1. /\ n \in Nat /\ DOMAIN s = 1..n /\ DOMAIN t = 1..(n + 1) /\ t[1] = e
      /\ \A i \in 2..(n + 1) : t[i] = s[i - 1] /\ i - 1 \in 1..n
      /\ \A i \in 1..n : s[i] \in A
  OBVIOUS
<1>2. \A i \in 1..n : rank[e] <= rank[s[i]]
  <2> TAKE i \in 1..n
  <2>1. s[i] \in A /\ Times(s, s[i]) # 0
    BY <1>1, TimesFacts
  <2> QED
    BY <2>1
<1> HIDE DEF t, n
<1>3. ASSUME NEW i \in DOMAIN t, NEW j \in DOMAIN t, i < j
      PROVE  rank[t[i]] <= rank[t[j]]
  <2>1. j \in 2..(n + 1) /\ t[j] = s[j - 1] /\ j - 1 \in 1..n
    BY <1>1, <1>3
  <2>2. CASE i = 1
    BY <1>1, <1>2, <2>1, <2>2
  <2>3. CASE i # 1
    <3>1. t[i] = s[i - 1] /\ i - 1 \in 1..n /\ i - 1 < j - 1
      BY <1>1, <1>3, <2>1, <2>3
    <3> QED
      BY <1>1, <2>1, <3>1 DEF Ascends
  <2> QED
    BY <2>2, <2>3
<1> QED
  BY <1>3 DEF Ascends, t

Results(A) == [persisting : Seq(A), left : Seq(A), right : Seq(A)]

Places(x, y) == (1..(Len(x) + 1)) \X (1..(Len(y) + 1))

(* One step of the walk, from what it finds further on.                    *)
Merged(x, y, f, b, c) ==
  IF b > Len(x) \/ c > Len(y)
  THEN [persisting |-> <<>>, left |-> SubSeq(x, b, Len(x)), right |-> SubSeq(y, c, Len(y))]
  ELSE IF x[b] = y[c] THEN [f[<<b + 1, c + 1>>] EXCEPT !.persisting = <<x[b]>> \o @]
  ELSE IF Rank(x[b]) < Rank(y[c]) THEN [f[<<b + 1, c>>] EXCEPT !.left = <<x[b]>> \o @]
  ELSE [f[<<b, c + 1>>] EXCEPT !.right = <<y[c]>> \o @]

Merges(f, x, y) ==
  \A b \in 1..(Len(x) + 1), c \in 1..(Len(y) + 1) : f[<<b, c>>] = Merged(x, y, f, b, c)

(* One step of the walk gives a result, and looks only at the places it    *)
(* moves on to.                                                            *)
LEMMA MergedFacts ==
  ASSUME NEW A, NEW x \in Seq(A), NEW y \in Seq(A),
         NEW b \in 1..(Len(x) + 1), NEW c \in 1..(Len(y) + 1)
  PROVE  /\ \A f \in [Places(x, y) -> Results(A)] : Merged(x, y, f, b, c) \in Results(A)
         /\ \A f, g :
              /\ b <= Len(x) /\ c <= Len(y) => /\ f[<<b + 1, c + 1>>] = g[<<b + 1, c + 1>>]
                                               /\ f[<<b + 1, c>>] = g[<<b + 1, c>>]
                                               /\ f[<<b, c + 1>>] = g[<<b, c + 1>>]
              => Merged(x, y, f, b, c) = Merged(x, y, g, b, c)
<1> DEFINE p == Len(x)
           q == Len(y)
<1>1. /\ p \in Nat /\ q \in Nat
      /\ \A k \in 1..p : x[k] \in A
      /\ \A k \in 1..q : y[k] \in A
  OBVIOUS
<1>2. SubSeq(x, b, p) \in Seq(A) /\ SubSeq(y, c, q) \in Seq(A)
  BY RestEnds DEF Rest
<1>3. \A e \in A, s \in Seq(A) : <<e>> \o s \in Seq(A)
  OBVIOUS
<1>4. ASSUME NEW f \in [Places(x, y) -> Results(A)]
      PROVE  Merged(x, y, f, b, c) \in Results(A)
  <2>1. CASE b > p \/ c > q
    BY <1>2, <2>1 DEF Merged, Results
  <2>2. CASE b <= p /\ c <= q
    <3>1. x[b] \in A /\ y[c] \in A
      BY <1>1, <2>2
    <3>2. /\ <<b + 1, c + 1>> \in Places(x, y)
          /\ <<b + 1, c>> \in Places(x, y)
          /\ <<b, c + 1>> \in Places(x, y)
      BY <1>1, <2>2 DEF Places
    <3>3. /\ f[<<b + 1, c + 1>>] \in Results(A)
          /\ f[<<b + 1, c>>] \in Results(A)
          /\ f[<<b, c + 1>>] \in Results(A)
      BY <3>2
    <3>4. \A r \in Results(A), e \in A :
            /\ [r EXCEPT !.persisting = <<e>> \o @] \in Results(A)
            /\ [r EXCEPT !.left = <<e>> \o @] \in Results(A)
            /\ [r EXCEPT !.right = <<e>> \o @] \in Results(A)
      BY <1>3 DEF Results
    <3>5. ~(b > p \/ c > q)
      BY <1>1, <2>2
    <3> QED
      BY <3>1, <3>3, <3>4, <3>5 DEF Merged
  <2> QED
    BY <1>1, <2>1, <2>2
<1>5. ASSUME NEW f, NEW g,
             b <= p /\ c <= q => /\ f[<<b + 1, c + 1>>] = g[<<b + 1, c + 1>>]
                                 /\ f[<<b + 1, c>>] = g[<<b + 1, c>>]
                                 /\ f[<<b, c + 1>>] = g[<<b, c + 1>>]
      PROVE  Merged(x, y, f, b, c) = Merged(x, y, g, b, c)
  <2>1. CASE b > p \/ c > q
    BY <2>1 DEF Merged
  <2>2. CASE b <= p /\ c <= q
    BY <1>5, <2>2 DEF Merged
  <2> QED
    BY <1>1, <2>1, <2>2
<1> QED
  BY <1>4, <1>5

(* The walk is a function on the places of both lists that is its own      *)
(* recursion.                                                              *)
LEMMA WalkRecursion ==
  ASSUME NEW A, NEW x \in Seq(A), NEW y \in Seq(A)
  PROVE  \E f \in [Places(x, y) -> Results(A)] : Merges(f, x, y) /\ Walk(x, y) = f[<<1, 1>>]
<1> DEFINE D == Places(x, y)
           R == Results(A)
           p == Len(x)
           q == Len(y)
           F == [D -> R]
           nothing == [persisting |-> <<>>, left |-> <<>>, right |-> <<>>]
           G == [m \in Nat \X F |-> [at \in D |-> Merged(x, y, m[2], at[1], at[2])]]
<1>1. p \in Nat /\ q \in Nat
  OBVIOUS
<1>2. \A at \in D : at[1] \in 1..(p + 1) /\ at[2] \in 1..(q + 1) /\ at = <<at[1], at[2]>>
  BY DEF Places
<1>3. \A f \in F : [at \in D |-> Merged(x, y, f, at[1], at[2])] \in F
  <2> TAKE f \in F
  <2>1. ASSUME NEW at \in D
        PROVE  Merged(x, y, f, at[1], at[2]) \in R
    BY <1>2, <2>1, MergedFacts
  <2> QED
    BY <2>1
<1>4. [at \in D |-> nothing] \in F
  BY DEF Results
<1>5. G \in [Nat \X F -> F]
  BY <1>3
<1>6. \A k \in Nat, f \in F : G[<<k, f>>] = [at \in D |-> Merged(x, y, f, at[1], at[2])]
  OBVIOUS
<1> DEFINE base == [at \in D |-> nothing]
<1> HIDE DEF F, G, base
<1>7. PICK h \in [Nat -> F] : Recurs(h, base, G)
  <2>1. base \in F
    BY <1>4 DEF base
  <2> QED
    BY <1>5, <2>1, NatRecursion
<1>8. \A k \in Nat : h[k] \in F /\ h[k + 1] = [at \in D |-> Merged(x, y, h[k], at[1], at[2])]
  BY <1>6, <1>7 DEF Recurs
<1> DEFINE Far(at) == (p + 1 - at[1]) + (q + 1 - at[2])
           S == {k \in Nat : \A at \in D : Far(at) <= k => h[k + 2][at] = h[k + 1][at]}
<1>9. \A k \in Nat, at \in D :
        /\ h[k + 1][at] = Merged(x, y, h[k], at[1], at[2])
        /\ h[k + 2][at] = Merged(x, y, h[k + 1], at[1], at[2])
  <2> TAKE k \in Nat, at \in D
  <2>1. k + 1 \in Nat /\ (k + 1) + 1 = k + 2
    OBVIOUS
  <2>2. h[k + 1] = [to \in D |-> Merged(x, y, h[k], to[1], to[2])]
    BY <1>8
  <2>3. h[k + 2] = [to \in D |-> Merged(x, y, h[k + 1], to[1], to[2])]
    BY <1>8, <2>1
  <2> HIDE DEF D
  <2>4. h[k + 1][at] = Merged(x, y, h[k], at[1], at[2])
    BY <2>2
  <2>5. h[k + 2][at] = Merged(x, y, h[k + 1], at[1], at[2])
    BY <2>3
  <2> QED
    BY <2>4, <2>5
<1>10. 0 \in S
  <2>1. ASSUME NEW at \in D, Far(at) <= 0
        PROVE  h[0 + 2][at] = h[0 + 1][at]
    <3>1. at[1] > p /\ at[2] > q
      BY <1>1, <1>2, <2>1
    <3>2. Merged(x, y, h[0], at[1], at[2]) = Merged(x, y, h[0 + 1], at[1], at[2])
      BY <3>1 DEF Merged
    <3> QED
      BY <1>9, <3>2
  <2> QED
    BY <2>1
<1>11. ASSUME NEW k \in Nat, k \in S
       PROVE  k + 1 \in S
  <2>1. ASSUME NEW at \in D, Far(at) <= k + 1
        PROVE  h[(k + 1) + 2][at] = h[(k + 1) + 1][at]
    <3> DEFINE b == at[1]
               c == at[2]
               f == h[k + 1]
               g == h[k + 2]
    <3>1. b \in 1..(p + 1) /\ c \in 1..(q + 1)
      BY <1>2
    <3>2. ASSUME b <= p, c <= q
          PROVE  /\ f[<<b + 1, c + 1>>] = g[<<b + 1, c + 1>>]
                 /\ f[<<b + 1, c>>] = g[<<b + 1, c>>]
                 /\ f[<<b, c + 1>>] = g[<<b, c + 1>>]
      <4>1. <<b + 1, c + 1>> \in D /\ <<b + 1, c>> \in D /\ <<b, c + 1>> \in D
        BY <1>1, <3>1, <3>2 DEF Places
      <4>2. Far(<<b + 1, c + 1>>) <= k /\ Far(<<b + 1, c>>) <= k /\ Far(<<b, c + 1>>) <= k
        <5>1. \A u, v : Far(<<u, v>>) = (p + 1 - u) + (q + 1 - v)
          OBVIOUS
        <5>2. (p + 1 - b) + (q + 1 - c) <= k + 1
          BY <2>1
        <5> HIDE DEF Far, b, c, p, q
        <5> QED
          BY <1>1, <3>1, <5>1, <5>2
      <4>3. \A to \in D : Far(to) <= k => g[to] = f[to]
        BY <1>11
      <4> HIDE DEF Far, f, g, b, c
      <4> QED
        BY <4>1, <4>2, <4>3
    <3>3. Merged(x, y, f, b, c) = Merged(x, y, g, b, c)
      <4> HIDE DEF f, g, b, c
      <4> QED
        BY <3>1, <3>2, MergedFacts
    <3>4. k + 1 \in Nat /\ (k + 1) + 1 = k + 2
      OBVIOUS
    <3>5. /\ h[(k + 1) + 1][at] = Merged(x, y, f, b, c)
          /\ h[(k + 1) + 2][at] = Merged(x, y, g, b, c)
      BY <1>9, <3>4
    <3> QED
      BY <3>3, <3>5
  <2> QED
    BY <2>1
<1>12. \A k \in Nat : k \in S
  <2> HIDE DEF S
  <2> QED
    BY <1>10, <1>11, NatInduct
<1> DEFINE K == p + q
           f == h[K + 1]
<1>13. K \in Nat /\ K + 1 \in Nat /\ K + 2 = (K + 1) + 1
  BY <1>1
<1>14. f \in F /\ h[K + 2] \in F /\ h[K + 2] = [at \in D |-> Merged(x, y, f, at[1], at[2])]
  BY <1>8, <1>13
<1>15. \A at \in D : h[K + 2][at] = f[at]
  <2>1. K \in S
    <3> HIDE DEF S, K
    <3> QED
      BY <1>12, <1>13
  <2>2. \A at \in D : Far(at) <= K
    BY <1>1, <1>2
  <2> QED
    BY <2>1, <2>2
<1>16. f = [at \in D |-> Merged(x, y, f, at[1], at[2])]
  <2> HIDE DEF K, f
  <2>1. f = h[K + 2]
    BY <1>14, <1>15 DEF F
  <2> QED
    BY <1>14, <2>1
<1> DEFINE Fixed(g) == g = [at \in (1..(Len(x) + 1)) \X (1..(Len(y) + 1)) |->
                              Merged(x, y, g, at[1], at[2])]
<1>17. Walk(x, y) = (CHOOSE g : Fixed(g))[<<1, 1>>]
  BY DEF Walk, Merged
<1>18. Fixed(f)
  BY <1>16 DEF Places
<1> DEFINE chosen == CHOOSE g : Fixed(g)
<1>19. Fixed(chosen)
  <2> HIDE DEF Fixed, f, K
  <2> QED
    BY <1>18
<1> HIDE DEF chosen
<1>20. \A at \in D : chosen[at] = Merged(x, y, chosen, at[1], at[2])
  BY <1>19 DEF Places
<1> DEFINE N == {k \in Nat : \A at \in D : Far(at) <= k => chosen[at] = f[at]}
<1>21. \A at \in D : f[at] = Merged(x, y, f, at[1], at[2])
  <2> HIDE DEF f, K
  <2> QED
    BY <1>16
<1>22. 0 \in N
  <2>1. ASSUME NEW at \in D, Far(at) <= 0
        PROVE  chosen[at] = f[at]
    <3>1. at[1] > p /\ at[2] > q
      BY <1>1, <1>2, <2>1
    <3> HIDE DEF f, K
    <3>2. Merged(x, y, f, at[1], at[2]) = Merged(x, y, chosen, at[1], at[2])
      BY <3>1 DEF Merged
    <3> QED
      BY <1>20, <1>21, <3>2
  <2> QED
    BY <2>1
<1>23. ASSUME NEW k \in Nat, k \in N
       PROVE  k + 1 \in N
  <2> HIDE DEF f, K
  <2>1. ASSUME NEW at \in D, Far(at) <= k + 1
        PROVE  chosen[at] = f[at]
    <3> DEFINE b == at[1]
               c == at[2]
    <3>1. b \in 1..(p + 1) /\ c \in 1..(q + 1)
      BY <1>2
    <3>2. ASSUME b <= p, c <= q
          PROVE  /\ chosen[<<b + 1, c + 1>>] = f[<<b + 1, c + 1>>]
                 /\ chosen[<<b + 1, c>>] = f[<<b + 1, c>>]
                 /\ chosen[<<b, c + 1>>] = f[<<b, c + 1>>]
      <4>1. <<b + 1, c + 1>> \in D /\ <<b + 1, c>> \in D /\ <<b, c + 1>> \in D
        BY <1>1, <3>1, <3>2 DEF Places
      <4>2. Far(<<b + 1, c + 1>>) <= k /\ Far(<<b + 1, c>>) <= k /\ Far(<<b, c + 1>>) <= k
        <5>1. \A u, v : Far(<<u, v>>) = (p + 1 - u) + (q + 1 - v)
          OBVIOUS
        <5>2. (p + 1 - b) + (q + 1 - c) <= k + 1
          BY <2>1
        <5> HIDE DEF Far, b, c, p, q
        <5> QED
          BY <1>1, <3>1, <5>1, <5>2
      <4>3. \A to \in D : Far(to) <= k => chosen[to] = f[to]
        BY <1>23
      <4> HIDE DEF Far, b, c
      <4> QED
        BY <4>1, <4>2, <4>3
    <3>3. Merged(x, y, chosen, b, c) = Merged(x, y, f, b, c)
      <4> HIDE DEF b, c
      <4> QED
        BY <3>1, <3>2, MergedFacts
    <3> QED
      BY <1>20, <1>21, <3>3
  <2> QED
    BY <2>1
<1>24. \A k \in Nat : k \in N
  <2> HIDE DEF N
  <2> QED
    BY <1>22, <1>23, NatInduct
<1>25. \A at \in D : chosen[at] = f[at]
  <2>1. K \in N
    <3> HIDE DEF N, K
    <3> QED
      BY <1>13, <1>24
  <2>2. \A at \in D : Far(at) <= K
    BY <1>1, <1>2
  <2> QED
    BY <2>1, <2>2
<1>26. <<1, 1>> \in D
  BY <1>1 DEF Places
<1>27. Walk(x, y) = f[<<1, 1>>]
  <2> HIDE DEF f, Fixed
  <2> QED
    BY <1>17, <1>25, <1>26 DEF chosen
<1>28. Merges(f, x, y)
  <2> HIDE DEF f
  <2> SUFFICES ASSUME NEW b \in 1..(p + 1), NEW c \in 1..(q + 1)
               PROVE  f[<<b, c>>] = Merged(x, y, f, b, c)
    BY DEF Merges
  <2>1. <<b, c>> \in D
    BY DEF Places
  <2> QED
    BY <1>21, <2>1
<1> HIDE DEF f
<1> QED
  BY <1>14, <1>27, <1>28 DEF F

Least(m, n) == IF m <= n THEN m ELSE n

(* What the walk makes of two lists: both have it, or one has it more.     *)
Classified(r, x, y, A) ==
  /\ r \in Results(A)
  /\ Ascends(r.persisting, Place) /\ Ascends(r.left, Place) /\ Ascends(r.right, Place)
  /\ \A d \in A : /\ Times(r.persisting, d) = Least(Times(x, d), Times(y, d))
                  /\ Times(r.left, d) = Times(x, d) - Least(Times(x, d), Times(y, d))
                  /\ Times(r.right, d) = Times(y, d) - Least(Times(x, d), Times(y, d))

(* What is put in front of a result keeps it sorted and is counted there   *)
(* once more.                                                              *)
LEMMA PushFacts ==
  ASSUME Ordered, NEW A \in SUBSET Contents, NEW s \in Seq(A), NEW e \in A, Ascends(s, Place),
         \A d \in A : Times(s, d) # 0 => Place[e] <= Place[d] \/ d = e
  PROVE  /\ <<e>> \o s \in Seq(A) /\ Ascends(<<e>> \o s, Place)
         /\ \A d : Times(<<e>> \o s, d) = Times(s, d) + (IF e = d THEN 1 ELSE 0)
<1>1. Place[e] \in Int
  BY OrderFacts
<1>2. \A d \in A : Times(s, d) # 0 => Place[e] <= Place[d]
  BY <1>1
<1>3. Ascends(<<e>> \o s, Place)
  BY <1>2, PushAscends
<1>4. \A d : Times(<<e>> \o s, d) = Times(s, d) + (IF e = d THEN 1 ELSE 0)
  BY TimesFacts
<1>5. <<e>> \o s \in Seq(A)
  OBVIOUS
<1> QED
  BY <1>3, <1>4, <1>5

(* Walking along two sorted lists keeps of each content the lesser number, *)
(* and leaves the others to their sides.                                   *)
LEMMA WalkFacts ==
  ASSUME Ordered, NEW A \in SUBSET Contents, NEW x \in Seq(A), NEW y \in Seq(A),
         Ascends(x, Place), Ascends(y, Place)
  PROVE  Classified(Walk(x, y), x, y, A)
<1> DEFINE p == Len(x)
           q == Len(y)
<1>1. PICK f \in [Places(x, y) -> Results(A)] : Merges(f, x, y) /\ Walk(x, y) = f[<<1, 1>>]
  BY WalkRecursion
<1>2. p \in Nat /\ q \in Nat
  OBVIOUS
<1> DEFINE Good(b, c) == Classified(f[<<b, c>>], Rest(x, b), Rest(y, c), A)
           Far(b, c) == (p + 1 - b) + (q + 1 - c)
           S == {k \in Nat : \A b \in 1..(p + 1), c \in 1..(q + 1) : Far(b, c) <= k => Good(b, c)}
<1>3. ASSUME NEW b \in 1..(p + 1), NEW c \in 1..(q + 1)
      PROVE  /\ f[<<b, c>>] \in Results(A) /\ f[<<b, c>>] = Merged(x, y, f, b, c)
             /\ Rest(x, b) \in Seq(A) /\ Ascends(Rest(x, b), Place)
             /\ Rest(y, c) \in Seq(A) /\ Ascends(Rest(y, c), Place)
             /\ \A d : Times(Rest(x, b), d) \in Nat /\ Times(Rest(y, c), d) \in Nat
  <2>1. <<b, c>> \in Places(x, y)
    BY DEF Places
  <2>2. f[<<b, c>>] \in Results(A) /\ f[<<b, c>>] = Merged(x, y, f, b, c)
    BY <1>1, <2>1 DEF Merges
  <2>3. /\ Rest(x, b) \in Seq(A) /\ Ascends(Rest(x, b), Place)
        /\ Rest(y, c) \in Seq(A) /\ Ascends(Rest(y, c), Place)
    BY RestEnds
  <2>4. \A d : Times(Rest(x, b), d) \in Nat /\ Times(Rest(y, c), d) \in Nat
    BY <2>3, AmongFacts DEF Times
  <2> QED
    BY <2>2, <2>3, <2>4
<1>4. \A d : Times(<<>>, d) = 0
  <2>1. \A d : {j \in DOMAIN <<>> : <<>>[j] \in {d}} = {}
    OBVIOUS
  <2> QED
    BY <2>1, FS_EmptySet DEF Times, Among
<1>5. ASSUME NEW b \in 1..(p + 1), NEW c \in 1..(q + 1), b > p \/ c > q
      PROVE  Good(b, c)
  <2> DEFINE r == f[<<b, c>>]
             u == Rest(x, b)
             v == Rest(y, c)
  <2>1. r = [persisting |-> <<>>, left |-> u, right |-> v]
    BY <1>3, <1>5 DEF Merged, Rest
  <2>2. r.persisting = <<>> /\ r.left = u /\ r.right = v
    BY <2>1
  <2>3. u = <<>> \/ v = <<>>
    <3>1. b = p + 1 \/ c = q + 1
      BY <1>2, <1>5
    <3> QED
      BY <3>1, RestEnds
  <2>4. Ascends(<<>>, Place)
    BY DEF Ascends
  <2>5. r \in Results(A) /\ Ascends(u, Place) /\ Ascends(v, Place)
        /\ \A d : Times(u, d) \in Nat /\ Times(v, d) \in Nat
    BY <1>3
  <2> HIDE DEF r, u, v
  <2>6. \A d : Least(Times(u, d), Times(v, d)) = 0
    BY <1>4, <2>3, <2>5 DEF Least
  <2>7. \A d : Times(u, d) - 0 = Times(u, d) /\ Times(v, d) - 0 = Times(v, d)
    BY <2>5
  <2>8. Classified(r, u, v, A)
    BY <1>4, <2>2, <2>4, <2>5, <2>6, <2>7 DEF Classified
  <2> QED
    BY <2>8 DEF r, u, v
<1>6. 0 \in S
  <2>1. ASSUME NEW b \in 1..(p + 1), NEW c \in 1..(q + 1), Far(b, c) <= 0
        PROVE  b > p
    BY <1>2, <2>1
  <2> QED
    BY <1>5, <2>1
<1>7. ASSUME NEW k \in Nat, k \in S, NEW b \in 1..p, NEW c \in 1..q, Far(b, c) <= k + 1
      PROVE  Good(b, c)
  <2>1. /\ b \in 1..(p + 1) /\ c \in 1..(q + 1) /\ b + 1 \in 1..(p + 1) /\ c + 1 \in 1..(q + 1)
        /\ ~(b > p \/ c > q)
    BY <1>2
  <2>2. Good(b + 1, c + 1) /\ Good(b + 1, c) /\ Good(b, c + 1)
    <3>1. Far(b + 1, c + 1) <= k /\ Far(b + 1, c) <= k /\ Far(b, c + 1) <= k
      BY <1>2, <1>7
    <3> HIDE DEF Far, Good
    <3> QED
      BY <1>7, <2>1, <3>1
  <2> DEFINE r == f[<<b, c>>]
             u == Rest(x, b)
             v == Rest(y, c)
             u2 == Rest(x, b + 1)
             v2 == Rest(y, c + 1)
             d1 == x[b]
             d2 == y[c]
             both == f[<<b + 1, c + 1>>]
             one == f[<<b + 1, c>>]
             two == f[<<b, c + 1>>]
  <2>3. /\ r \in Results(A)
        /\ r = IF d1 = d2 THEN [both EXCEPT !.persisting = <<d1>> \o @]
               ELSE IF Rank(d1) < Rank(d2) THEN [one EXCEPT !.left = <<d1>> \o @]
               ELSE [two EXCEPT !.right = <<d2>> \o @]
    BY <1>3, <2>1 DEF Merged
  <2>4. /\ d1 \in A /\ u = <<d1>> \o u2 /\ u2 \in Seq(A)
        /\ \A d : Times(u, d) # 0 => Place[d1] <= Place[d] \/ d = d1
    BY RestFacts
  <2>5. /\ d2 \in A /\ v = <<d2>> \o v2 /\ v2 \in Seq(A)
        /\ \A d : Times(v, d) # 0 => Place[d2] <= Place[d] \/ d = d2
    BY RestFacts
  <2>6. \A d : /\ Times(u2, d) \in Nat /\ Times(v2, d) \in Nat
               /\ Times(u, d) \in Nat /\ Times(v, d) \in Nat
    BY <1>3, <2>1
  <2>7. /\ \A d : Times(u, d) = Times(u2, d) + (IF d1 = d THEN 1 ELSE 0)
        /\ \A d : Times(v, d) = Times(v2, d) + (IF d2 = d THEN 1 ELSE 0)
    <3> HIDE DEF u, v, u2, v2, d1, d2
    <3>1. \A d : Times(<<d1>> \o u2, d) = Times(u2, d) + (IF d1 = d THEN 1 ELSE 0)
      BY <2>4, TimesFacts
    <3>2. \A d : Times(<<d2>> \o v2, d) = Times(v2, d) + (IF d2 = d THEN 1 ELSE 0)
      BY <2>5, TimesFacts
    <3> QED
      BY <2>4, <2>5, <3>1, <3>2
  <2>8. Classified(both, u2, v2, A) /\ Classified(one, u2, v, A) /\ Classified(two, u, v2, A)
    BY <2>2
  <2>9. /\ Place[d1] = Rank(d1) /\ Place[d2] = Rank(d2) /\ Rank(d1) \in Int /\ Rank(d2) \in Int
        /\ (Rank(d1) = Rank(d2) => d1 = d2)
    BY <2>4, <2>5, OrderFacts DEF Place
  <2> HIDE DEF r, u, v, u2, v2, d1, d2, both, one, two
  <2>10. CASE d1 = d2
    <3> DEFINE s == both.persisting
               t == <<d1>> \o s
    <3>1. /\ both \in Results(A) /\ s \in Seq(A) /\ Ascends(s, Place)
          /\ \A d \in A : Times(s, d) # 0 => Times(u, d) # 0
      <4>1. \A d \in A : Times(s, d) = Least(Times(u2, d), Times(v2, d))
        BY <2>8 DEF Classified
      <4>2. \A d \in A : Times(s, d) # 0 => Times(u, d) # 0
        <5> TAKE d \in A
        <5>1. Times(s, d) # 0 => Times(u2, d) # 0
          BY <2>6, <4>1 DEF Least
        <5>2. Times(u2, d) # 0 => Times(u, d) # 0
          BY <2>6, <2>7
        <5> QED
          BY <5>1, <5>2
      <4> QED
        BY <2>8, <4>2 DEF Classified, Results
    <3>2. r = [both EXCEPT !.persisting = t]
      BY <2>3, <2>10
    <3>3. r.persisting = t /\ r.left = both.left /\ r.right = both.right
      BY <3>1, <3>2 DEF Results
    <3> HIDE DEF s
    <3>4. /\ Ascends(t, Place)
          /\ \A d : Times(t, d) = Times(s, d) + (IF d1 = d THEN 1 ELSE 0)
      <4>1. d1 \in A /\ \A d : Times(u, d) # 0 => Place[d1] <= Place[d] \/ d = d1
        BY <2>4
      <4>2. \A d \in A : Times(s, d) # 0 => Place[d1] <= Place[d] \/ d = d1
        BY <3>1, <4>1
      <4> QED
        BY <3>1, <4>1, <4>2, PushFacts
    <3> HIDE DEF t
    <3>5. ASSUME NEW d \in A
          PROVE  /\ Times(t, d) = Least(Times(u, d), Times(v, d))
                 /\ Times(r.left, d) = Times(u, d) - Least(Times(u, d), Times(v, d))
                 /\ Times(r.right, d) = Times(v, d) - Least(Times(u, d), Times(v, d))
      <4>1. /\ Times(s, d) = Least(Times(u2, d), Times(v2, d))
            /\ Times(r.left, d) = Times(u2, d) - Least(Times(u2, d), Times(v2, d))
            /\ Times(r.right, d) = Times(v2, d) - Least(Times(u2, d), Times(v2, d))
        BY <2>8, <3>3 DEF Classified, s
      <4>2. CASE d1 = d
        <5>1. Times(u, d) = Times(u2, d) + 1 /\ Times(v, d) = Times(v2, d) + 1
          BY <2>7, <2>10, <4>2
        <5>2. Times(t, d) = Times(s, d) + 1
          BY <3>4, <4>2
        <5> QED
          BY <2>6, <4>1, <5>1, <5>2 DEF Least
      <4>3. CASE d1 # d
        BY <2>6, <2>7, <2>10, <3>4, <4>1, <4>3 DEF Least
      <4> QED
        BY <4>2, <4>3
    <3>6. Ascends(r.left, Place) /\ Ascends(r.right, Place)
      BY <2>8, <3>3 DEF Classified
    <3>7. Classified(r, u, v, A)
      BY <2>3, <3>3, <3>4, <3>5, <3>6 DEF Classified
    <3> QED
      BY <3>7 DEF r, u, v
  <2>11. CASE d1 # d2 /\ Rank(d1) < Rank(d2)
    <3> DEFINE s == one.left
               t == <<d1>> \o s
    <3>1. /\ one \in Results(A) /\ s \in Seq(A) /\ Ascends(s, Place)
          /\ \A d \in A : Times(s, d) # 0 => Times(u, d) # 0
      <4>1. \A d \in A : Times(s, d) = Times(u2, d) - Least(Times(u2, d), Times(v, d))
        BY <2>8 DEF Classified
      <4>2. \A d \in A : Times(s, d) # 0 => Times(u, d) # 0
        <5> TAKE d \in A
        <5>1. Times(s, d) # 0 => Times(u2, d) # 0
          BY <2>6, <4>1 DEF Least
        <5>2. Times(u2, d) # 0 => Times(u, d) # 0
          BY <2>6, <2>7
        <5> QED
          BY <5>1, <5>2
      <4> QED
        BY <2>8, <4>2 DEF Classified, Results
    <3>2. r = [one EXCEPT !.left = t]
      BY <2>3, <2>11
    <3>3. r.left = t /\ r.persisting = one.persisting /\ r.right = one.right
      BY <3>1, <3>2 DEF Results
    <3> HIDE DEF s
    <3>4. /\ Ascends(t, Place)
          /\ \A d : Times(t, d) = Times(s, d) + (IF d1 = d THEN 1 ELSE 0)
      <4>1. d1 \in A /\ \A d : Times(u, d) # 0 => Place[d1] <= Place[d] \/ d = d1
        BY <2>4
      <4>2. \A d \in A : Times(s, d) # 0 => Place[d1] <= Place[d] \/ d = d1
        BY <3>1, <4>1
      <4> QED
        BY <3>1, <4>1, <4>2, PushFacts
    <3> HIDE DEF t
    <3>5. Times(v, d1) = 0
      <4>1. ~(Place[d2] <= Place[d1])
        BY <2>9, <2>11
      <4> QED
        BY <2>5, <2>11, <4>1
    <3>6. ASSUME NEW d \in A
          PROVE  /\ Times(t, d) = Times(u, d) - Least(Times(u, d), Times(v, d))
                 /\ Times(r.persisting, d) = Least(Times(u, d), Times(v, d))
                 /\ Times(r.right, d) = Times(v, d) - Least(Times(u, d), Times(v, d))
      <4>1. /\ Times(s, d) = Times(u2, d) - Least(Times(u2, d), Times(v, d))
            /\ Times(r.persisting, d) = Least(Times(u2, d), Times(v, d))
            /\ Times(r.right, d) = Times(v, d) - Least(Times(u2, d), Times(v, d))
        BY <2>8, <3>3 DEF Classified, s
      <4>2. CASE d1 = d
        BY <2>6, <2>7, <3>4, <3>5, <4>1, <4>2 DEF Least
      <4>3. CASE d1 # d
        BY <2>6, <2>7, <3>4, <4>1, <4>3 DEF Least
      <4> QED
        BY <4>2, <4>3
    <3>7. Ascends(r.persisting, Place) /\ Ascends(r.right, Place)
      BY <2>8, <3>3 DEF Classified
    <3>8. Classified(r, u, v, A)
      BY <2>3, <3>3, <3>4, <3>6, <3>7 DEF Classified
    <3> QED
      BY <3>8 DEF r, u, v
  <2>12. CASE d1 # d2 /\ ~(Rank(d1) < Rank(d2))
    <3> DEFINE s == two.right
               t == <<d2>> \o s
    <3>1. /\ two \in Results(A) /\ s \in Seq(A) /\ Ascends(s, Place)
          /\ \A d \in A : Times(s, d) # 0 => Times(v, d) # 0
      <4>1. \A d \in A : Times(s, d) = Times(v2, d) - Least(Times(u, d), Times(v2, d))
        BY <2>8 DEF Classified
      <4>2. \A d \in A : Times(s, d) # 0 => Times(v, d) # 0
        <5> TAKE d \in A
        <5>1. Times(s, d) # 0 => Times(v2, d) # 0
          <6>1. Times(s, d) = Times(v2, d) - Least(Times(u, d), Times(v2, d))
            BY <4>1
          <6>2. Times(u, d) \in Nat /\ Times(v2, d) \in Nat
            BY <2>6
          <6>3. ASSUME Times(v2, d) = 0
                PROVE  Least(Times(u, d), Times(v2, d)) = 0
            BY <6>2, <6>3 DEF Least
          <6> QED
            BY <6>1, <6>2, <6>3
        <5>2. Times(v2, d) # 0 => Times(v, d) # 0
          BY <2>6, <2>7
        <5> QED
          BY <5>1, <5>2
      <4> QED
        BY <2>8, <4>2 DEF Classified, Results
    <3>2. r = [two EXCEPT !.right = t]
      BY <2>3, <2>12
    <3>3. r.right = t /\ r.persisting = two.persisting /\ r.left = two.left
      BY <3>1, <3>2 DEF Results
    <3> HIDE DEF s
    <3>4. /\ Ascends(t, Place)
          /\ \A d : Times(t, d) = Times(s, d) + (IF d2 = d THEN 1 ELSE 0)
      <4>1. d2 \in A /\ \A d : Times(v, d) # 0 => Place[d2] <= Place[d] \/ d = d2
        BY <2>5
      <4>2. \A d \in A : Times(s, d) # 0 => Place[d2] <= Place[d] \/ d = d2
        BY <3>1, <4>1
      <4> QED
        BY <3>1, <4>1, <4>2, PushFacts
    <3> HIDE DEF t
    <3>5. Times(u, d2) = 0
      <4>1. ~(Place[d1] <= Place[d2])
        BY <2>9, <2>12
      <4> QED
        BY <2>4, <2>12, <4>1
    <3>6. ASSUME NEW d \in A
          PROVE  /\ Times(t, d) = Times(v, d) - Least(Times(u, d), Times(v, d))
                 /\ Times(r.persisting, d) = Least(Times(u, d), Times(v, d))
                 /\ Times(r.left, d) = Times(u, d) - Least(Times(u, d), Times(v, d))
      <4>1. /\ Times(s, d) = Times(v2, d) - Least(Times(u, d), Times(v2, d))
            /\ Times(r.persisting, d) = Least(Times(u, d), Times(v2, d))
            /\ Times(r.left, d) = Times(u, d) - Least(Times(u, d), Times(v2, d))
        BY <2>8, <3>3 DEF Classified, s
      <4>2. CASE d2 = d
        BY <2>6, <2>7, <3>4, <3>5, <4>1, <4>2 DEF Least
      <4>3. CASE d2 # d
        BY <2>6, <2>7, <3>4, <4>1, <4>3 DEF Least
      <4> QED
        BY <4>2, <4>3
    <3>7. Ascends(r.persisting, Place) /\ Ascends(r.left, Place)
      BY <2>8, <3>3 DEF Classified
    <3>8. Classified(r, u, v, A)
      BY <2>3, <3>3, <3>4, <3>6, <3>7 DEF Classified
    <3> QED
      BY <3>8 DEF r, u, v
  <2> QED
    BY <2>10, <2>11, <2>12
<1>8. ASSUME NEW k \in Nat, k \in S
      PROVE  k + 1 \in S
  <2>1. ASSUME NEW b \in 1..(p + 1), NEW c \in 1..(q + 1), Far(b, c) <= k + 1
        PROVE  Good(b, c)
    <3>1. CASE b > p \/ c > q
      BY <1>5, <3>1
    <3>2. CASE ~(b > p \/ c > q)
      <4>1. b \in 1..p /\ c \in 1..q
        BY <1>2, <3>2
      <4> HIDE DEF Good, S, Far
      <4> QED
        BY <1>7, <1>8, <2>1, <4>1
    <3> QED
      BY <3>1, <3>2
  <2> HIDE DEF Good, Far
  <2> QED
    BY <2>1
<1>9. \A k \in Nat : k \in S
  <2> HIDE DEF S
  <2> QED
    BY <1>6, <1>8, NatInduct
<1>10. Good(1, 1)
  <2>1. p + q \in Nat /\ p + q \in S
    <3>1. p + q \in Nat
      BY <1>2
    <3> HIDE DEF S, p, q
    <3> QED
      BY <1>9, <3>1
  <2>2. 1 \in 1..(p + 1) /\ 1 \in 1..(q + 1) /\ Far(1, 1) <= p + q
    BY <1>2
  <2> HIDE DEF Good, Far
  <2> QED
    BY <2>1, <2>2
<1>11. Rest(x, 1) = x /\ Rest(y, 1) = y
  BY RestEnds
<1> QED
  BY <1>1, <1>10, <1>11

-----------------------------------------------------------------------------
(* One fingerprint in two reports                                          *)

(* The lesser of two numbers.                                              *)
LEMMA LeastFacts ==
  ASSUME NEW m \in Nat, NEW n \in Nat
  PROVE  /\ Min({m, n}) = Least(m, n) /\ Least(m, n) \in Nat
         /\ Least(m, n) <= m /\ Least(m, n) <= n /\ Least(m, n) = Least(n, m)
         /\ (Least(m, n) = m \/ Least(m, n) = n)
<1> DEFINE s == {m, n}
<1>1. IsFiniteSet(s) /\ s # {} /\ s \subseteq Int
  <2>1. IsFiniteSet({m}) /\ {m} \cup {n} = s
    BY FS_EmptySet, FS_AddElement
  <2> QED
    BY <2>1, FS_AddElement
<1>2. \A x : x \in s <=> x = m \/ x = n
  OBVIOUS
<1> HIDE DEF s
<1>3. Min(s) \in s /\ \A x \in s : Min(s) <= x
  BY <1>1, Extremes
<1>4. Min(s) = Least(m, n)
  BY <1>2, <1>3 DEF Least
<1> QED
  BY <1>4 DEF Least, s

(* What two reports share of a content is the lesser of their numbers, and *)
(* the rest is what is left of either.                                     *)
LEMMA SharedFacts ==
  ASSUME NEW b \in Report, NEW c \in Report
  PROVE  LET shared == Shared(b, c)
         IN  /\ shared \in Report /\ Without(b, shared) \in Report /\ Without(c, shared) \in Report
             /\ Shared(c, b) = shared
             /\ \A d \in Contents : /\ shared[d] = Least(b[d], c[d])
                                    /\ Without(b, shared)[d] = b[d] - Least(b[d], c[d])
                                    /\ Without(c, shared)[d] = c[d] - Least(b[d], c[d])
<1>1. \A d \in Contents : b[d] \in Nat /\ c[d] \in Nat
  BY DEF Report
<1>2. ASSUME NEW d \in Contents
      PROVE  /\ Min({b[d], c[d]}) = Least(b[d], c[d]) /\ Min({c[d], b[d]}) = Least(b[d], c[d])
             /\ Least(b[d], c[d]) \in Nat
             /\ b[d] - Least(b[d], c[d]) \in Nat /\ c[d] - Least(b[d], c[d]) \in Nat
  <2> DEFINE m == b[d]
             n == c[d]
  <2>1. m \in Nat /\ n \in Nat
    BY <1>1
  <2> HIDE DEF m, n
  <2>2. /\ Min({m, n}) = Least(m, n) /\ Min({n, m}) = Least(m, n)
        /\ Least(m, n) \in Nat /\ Least(m, n) <= m /\ Least(m, n) <= n
    BY <2>1, LeastFacts
  <2>3. m - Least(m, n) \in Nat /\ n - Least(m, n) \in Nat
    BY <2>1, <2>2
  <2> QED
    BY <2>2, <2>3 DEF m, n
<1>3. Shared(b, c) = [d \in Contents |-> Least(b[d], c[d])] /\ Shared(c, b) = Shared(b, c)
  BY <1>2 DEF Shared
<1> DEFINE shared == Shared(b, c)
<1>4. shared \in Report
  BY <1>2, <1>3 DEF Report
<1>5. \A d \in Contents : shared[d] = Least(b[d], c[d])
  BY <1>3
<1> HIDE DEF shared
<1>6. \A r : Without(r, shared) = [d \in Contents |-> r[d] - shared[d]]
  BY DEF Without
<1>7. /\ Without(b, shared) = [d \in Contents |-> b[d] - Least(b[d], c[d])]
      /\ Without(c, shared) = [d \in Contents |-> c[d] - Least(b[d], c[d])]
  BY <1>5, <1>6
<1>8. Without(b, shared) \in Report /\ Without(c, shared) \in Report
  BY <1>2, <1>7 DEF Report
<1> QED
  BY <1>3, <1>4, <1>5, <1>7, <1>8 DEF shared

(* What the walk leaves is what the history pairs: the same lists.         *)
LEMMA WalkLists ==
  ASSUME Ordered, NEW b \in Report, NEW c \in Report, NEW fp
  PROVE  LET walk   == Walk(ByDigest(b, fp), ByDigest(c, fp))
             shared == Shared(b, c)
         IN  /\ walk.persisting = ByDigest(shared, fp)
             /\ walk.left = ByDigest(Without(b, shared), fp)
             /\ walk.right = ByDigest(Without(c, shared), fp)
<1> DEFINE A == Of(fp)
           x == ByDigest(b, fp)
           y == ByDigest(c, fp)
           walk == Walk(x, y)
           shared == Shared(b, c)
<1>1. A \in SUBSET Contents
  BY OfFacts
<1>2. IsListOf(x, b, fp) /\ IsListOf(y, c, fp)
  BY ByDigestFacts
<1>3. /\ x \in Seq(A) /\ Ascends(x, Place) /\ y \in Seq(A) /\ Ascends(y, Place)
      /\ \A d \in A : Times(x, d) = b[d] /\ Times(y, d) = c[d]
  BY <1>2 DEF IsListOf, Times
<1> HIDE DEF A, x, y
<1>4. Classified(walk, x, y, A)
  BY <1>1, <1>3, WalkFacts
<1>5. /\ shared \in Report /\ Without(b, shared) \in Report /\ Without(c, shared) \in Report
      /\ \A d \in Contents : /\ shared[d] = Least(b[d], c[d])
                             /\ Without(b, shared)[d] = b[d] - Least(b[d], c[d])
                             /\ Without(c, shared)[d] = c[d] - Least(b[d], c[d])
  BY SharedFacts
<1> HIDE DEF walk, shared
<1>6. /\ IsListOf(walk.persisting, shared, fp)
      /\ IsListOf(walk.left, Without(b, shared), fp)
      /\ IsListOf(walk.right, Without(c, shared), fp)
  <2>1. \A d \in A : /\ Times(walk.persisting, d) = shared[d]
                     /\ Times(walk.left, d) = Without(b, shared)[d]
                     /\ Times(walk.right, d) = Without(c, shared)[d]
    BY <1>1, <1>3, <1>4, <1>5 DEF Classified
  <2>2. /\ walk.persisting \in Seq(A) /\ walk.left \in Seq(A) /\ walk.right \in Seq(A)
        /\ Ascends(walk.persisting, Place) /\ Ascends(walk.left, Place) /\ Ascends(walk.right, Place)
    BY <1>4 DEF Classified, Results
  <2> QED
    BY <2>1, <2>2 DEF IsListOf, Times, A
<1>7. /\ IsListOf(ByDigest(shared, fp), shared, fp)
      /\ IsListOf(ByDigest(Without(b, shared), fp), Without(b, shared), fp)
      /\ IsListOf(ByDigest(Without(c, shared), fp), Without(c, shared), fp)
  BY <1>5, ByDigestFacts
<1>8. walk.persisting = ByDigest(shared, fp)
  BY <1>6, <1>7, ListIsOne
<1>9. walk.left = ByDigest(Without(b, shared), fp)
  BY <1>6, <1>7, ListIsOne
<1>10. walk.right = ByDigest(Without(c, shared), fp)
  BY <1>6, <1>7, ListIsOne
<1> QED
  BY <1>8, <1>9, <1>10 DEF walk, x, y, shared

(* A list of one fingerprint is as long as the report has instances of it. *)
LEMMA ListLength ==
  ASSUME Ordered, NEW r \in Report, NEW fp
  PROVE  /\ ByDigest(r, fp) \in Seq(Of(fp))
         /\ Len(ByDigest(r, fp)) = Instances(r, fp) /\ Instances(r, fp) \in Nat
<1> DEFINE A == Of(fp)
           s == ByDigest(r, fp)
<1>1. s \in Seq(A) /\ \A d \in A : r[d] = Among(s, {d})
  BY ByDigestFacts DEF IsListOf
<1>2. IsFiniteSet(A)
  BY OfFacts
<1>3. Instances(r, fp) = SumOver(r, A)
  BY DEF Instances, SumOver
<1> HIDE DEF A, s
<1>4. Among(s, A) = SumOver(r, A)
  BY <1>1, <1>2, AmongSum
<1>5. Among(s, A) = Len(s) /\ Len(s) \in Nat
  <2>1. \A k \in DOMAIN s : s[k] \in A
    BY <1>1
  <2>2. Among(s, A) = Len(s)
    BY <1>1, <2>1, AmongFacts
  <2> QED
    BY <1>1, <2>2
<1> QED
  BY <1>1, <1>3, <1>4, <1>5 DEF A, s

-----------------------------------------------------------------------------
(* From fingerprint to fingerprint                                         *)

Classes == SetToSeq(Fingerprints)

(* Each fingerprint is visited once.                                       *)
LEMMA ClassesFacts ==
  LET n == Cardinality(Fingerprints)
  IN  /\ IsFiniteSet(Fingerprints) /\ n \in Nat
      /\ Classes \in [1..n -> Fingerprints] /\ DOMAIN Classes = 1..n
      /\ \A i, j \in 1..n : Classes[i] = Classes[j] => i = j
      /\ \A fp \in Fingerprints : \E k \in 1..n : Classes[k] = fp
<1> DEFINE n == Cardinality(Fingerprints)
<1>1. IsFiniteSet(Fingerprints) /\ n \in Nat
  <2> DEFINE image == [d \in Contents |-> Fingerprint[d]]
  <2>1. image \in [Contents -> Fingerprints] /\ \A fp \in Fingerprints : \E d \in Contents : image[d] = fp
    BY DEF Fingerprints
  <2> HIDE DEF image
  <2>2. image \in Surjection(Contents, Fingerprints)
    BY <2>1 DEF Surjection
  <2>3. IsFiniteSet(Contents)
    BY ObservationAssumption
  <2>4. IsFiniteSet(Fingerprints)
    BY <2>2, <2>3, FS_Surjection
  <2> QED
    BY <2>4, FS_CardinalityType
<1>2. \E f \in [1..n -> Fingerprints] : IsInjective(f)
  <2>1. \E f : ExistsBijection(1..n, Fingerprints) /\ f \in Bijection(1..n, Fingerprints)
    <3>1. ExistsBijection(1..n, Fingerprints)
      BY <1>1, FS_CountingElements, FS_NatBijection
    <3> QED
      BY <3>1 DEF ExistsBijection
  <2>2. PICK f : f \in Bijection(1..n, Fingerprints)
    BY <2>1
  <2>3. f \in [1..n -> Fingerprints] /\ \A i, j \in 1..n : f[i] = f[j] => i = j
    BY <2>2 DEF Bijection, Injection, IsInjective
  <2>4. IsInjective(f)
    BY <2>3 DEF IsInjective
  <2> QED
    BY <2>3, <2>4
<1>3. Classes \in [1..n -> Fingerprints] /\ IsInjective(Classes)
  BY <1>2 DEF Classes, SetToSeq
<1>4. Classes \in Injection(1..n, Fingerprints)
  BY <1>3 DEF Injection, IsInjective
<1>5. Cardinality(1..n) = Cardinality(Fingerprints) /\ IsFiniteSet(1..n)
  <2>1. n = Cardinality(Fingerprints)
    OBVIOUS
  <2> HIDE DEF n
  <2>2. Cardinality(1..n) = n /\ IsFiniteSet(1..n)
    BY <1>1, FS_Interval
  <2> QED
    BY <2>1, <2>2
<1>6. Classes \in Surjection(1..n, Fingerprints)
  <2> HIDE DEF n
  <2> QED
    BY <1>1, <1>4, <1>5, FS_Injection
<1> QED
  BY <1>1, <1>3, <1>6 DEF Surjection, IsInjective

(* A fold over a sequence, as a function on the sets of places.            *)
Folds(f, n, base, G) ==
  f = [t \in SUBSET (1..n) |-> IF t = {} THEN base ELSE G[<<Max(t), f[t \ {Max(t)}]>>]]

(* Such a function exists for every base and step.                         *)
LEMMA FoldExists ==
  ASSUME NEW n \in Nat, NEW A, NEW base \in A, NEW G, \A k \in 1..n, a \in A : G[<<k, a>>] \in A
  PROVE  \E f \in [SUBSET (1..n) -> A] : Folds(f, n, base, G)
<1> DEFINE D == 1..n
           parts == SUBSET D
           pick == [t \in parts |-> Max(t)]
           H == [p \in parts \X A |-> G[<<pick[p[1]], p[2]>>]]
<1>1. IsFiniteSet(D)
  BY FS_Interval
<1>2. \A t \in parts : t # {} => Max(t) \in t
  <2> TAKE t \in parts
  <2>1. t \subseteq Int
    OBVIOUS
  <2>2. t \subseteq D
    OBVIOUS
  <2> HIDE DEF D
  <2>3. IsFiniteSet(t)
    BY <1>1, <2>2, FS_Subset
  <2> QED
    BY <2>1, <2>3, Extremes
<1>3. \A t \in parts : pick[t] = Max(t)
  OBVIOUS
<1>4. \A t \in parts : t # {} => pick[t] \in t
  BY <1>2, <1>3
<1>5. \A t \in parts, a \in A : H[<<t, a>>] = G[<<pick[t], a>>]
  OBVIOUS
<1> HIDE DEF pick, H
<1>6. \A t \in parts, a \in A : t # {} => H[<<t, a>>] \in A
  BY <1>4, <1>5
<1>7. PICK f \in [SUBSET D -> A] : Descends(f, D, base, pick, H)
  <2> HIDE DEF D
  <2> QED
    BY <1>1, <1>4, <1>6, SetRecursion
<1>8. f = [t \in parts |-> IF t = {} THEN base ELSE H[<<t, f[t \ {pick[t]}]>>]]
  BY <1>7 DEF Descends
<1>9. ASSUME NEW t \in parts
      PROVE  (IF t = {} THEN base ELSE H[<<t, f[t \ {pick[t]}]>>])
               = (IF t = {} THEN base ELSE G[<<Max(t), f[t \ {Max(t)}]>>])
  <2>1. t \ {pick[t]} \in parts
    OBVIOUS
  <2>2. f[t \ {pick[t]}] \in A
    BY <1>7, <2>1
  <2> QED
    BY <1>3, <1>5, <2>2
<1>10. f = [t \in parts |-> IF t = {} THEN base ELSE G[<<Max(t), f[t \ {Max(t)}]>>]]
  BY <1>8, <1>9
<1> QED
  BY <1>7, <1>10 DEF Folds

Deltas == [persisting : Seq(Contents), changed : Seq(Contents \X Contents),
           resolved : Seq(Contents), new : Seq(Contents)]

NoEntries == [persisting |-> <<>>, changed |-> <<>>, resolved |-> <<>>, new |-> <<>>]

Bucket(b, c, fp) == ClassifyBucket(ByDigest(b, fp), ByDigest(c, fp))

Joined(delta, bucket) ==
  [persisting |-> delta.persisting \o bucket.persisting,
   changed    |-> delta.changed \o bucket.changed,
   resolved   |-> delta.resolved \o bucket.resolved,
   new        |-> delta.new \o bucket.new]

(* What a bucket has, by the reports.                                      *)
LEMMA BucketFacts ==
  ASSUME Ordered, NEW b \in Report, NEW c \in Report, NEW fp
  PROVE  LET shared == Shared(b, c)
             left   == ByDigest(Without(b, shared), fp)
             right  == ByDigest(Without(c, shared), fp)
             m      == Min({Len(left), Len(right)})
         IN  /\ left \in Seq(Of(fp)) /\ right \in Seq(Of(fp))
             /\ m \in Nat /\ m <= Len(left) /\ m <= Len(right)
             /\ m = Len(left) \/ m = Len(right)
             /\ m = Min({Len(right), Len(left)})
             /\ Bucket(b, c, fp) \in Deltas
             /\ Bucket(b, c, fp) =
                  [persisting |-> ByDigest(shared, fp),
                   changed    |-> [k \in 1..m |-> <<left[k], right[k]>>],
                   resolved   |-> SubSeq(left, m + 1, Len(left)),
                   new        |-> SubSeq(right, m + 1, Len(right))]
<1> DEFINE shared == Shared(b, c)
           left   == ByDigest(Without(b, shared), fp)
           right  == ByDigest(Without(c, shared), fp)
           m      == Min({Len(left), Len(right)})
           both   == ByDigest(shared, fp)
           bucket == [persisting |-> both,
                      changed    |-> [k \in 1..m |-> <<left[k], right[k]>>],
                      resolved   |-> SubSeq(left, m + 1, Len(left)),
                      new        |-> SubSeq(right, m + 1, Len(right))]
<1>1. shared \in Report /\ Without(b, shared) \in Report /\ Without(c, shared) \in Report
  BY SharedFacts
<1>2. Bucket(b, c, fp) = bucket
  BY WalkLists DEF Bucket, ClassifyBucket
<1> HIDE DEF shared
<1>3. both \in Seq(Of(fp)) /\ left \in Seq(Of(fp)) /\ right \in Seq(Of(fp))
  BY <1>1, ListLength
<1> HIDE DEF both, left, right
<1>4. Len(left) \in Nat /\ Len(right) \in Nat
  BY <1>3
<1>5. /\ m \in Nat /\ m <= Len(left) /\ m <= Len(right)
      /\ m = Len(left) \/ m = Len(right)
      /\ m = Min({Len(right), Len(left)})
  BY <1>4, LeastFacts
<1> HIDE DEF m
<1>6. Of(fp) \in SUBSET Contents
  BY OfFacts
<1>7. /\ \A k \in 1..Len(left) : left[k] \in Contents
      /\ \A k \in 1..Len(right) : right[k] \in Contents
  BY <1>3, <1>6
<1>8. /\ SubSeq(left, m + 1, Len(left)) \in Seq(Contents)
      /\ SubSeq(right, m + 1, Len(right)) \in Seq(Contents)
  <2>1. /\ \A k \in (m + 1)..Len(left) : left[k] \in Contents
        /\ \A k \in (m + 1)..Len(right) : right[k] \in Contents
    <3>1. /\ \A k \in (m + 1)..Len(left) : k \in 1..Len(left)
          /\ \A k \in (m + 1)..Len(right) : k \in 1..Len(right)
      <4>1. m \in Nat /\ m + 1 \in Int /\ m + 1 >= 1
        BY <1>5
      <4> QED
        BY <1>4, <4>1
    <3> QED
      BY <1>7, <3>1
  <2>2. m + 1 \in Int /\ Len(left) \in Int /\ Len(right) \in Int
    BY <1>4, <1>5
  <2>3. SubSeq(left, m + 1, Len(left)) \in Seq(Contents)
    BY <2>1, <2>2, SubSeqProperties
  <2>4. SubSeq(right, m + 1, Len(right)) \in Seq(Contents)
    BY <2>1, <2>2, SubSeqProperties
  <2> QED
    BY <2>3, <2>4
<1>9. [k \in 1..m |-> <<left[k], right[k]>>] \in Seq(Contents \X Contents)
  <2>1. \A k \in 1..m : k \in 1..Len(left) /\ k \in 1..Len(right)
    BY <1>4, <1>5
  <2>2. \A k \in 1..m : <<left[k], right[k]>> \in Contents \X Contents
    BY <1>7, <2>1
  <2> DEFINE pairs == [k \in 1..m |-> <<left[k], right[k]>>]
  <2>3. pairs \in [1..m -> Contents \X Contents]
    BY <2>2
  <2>4. m \in Nat
    BY <1>5
  <2> HIDE DEF pairs
  <2>5. pairs \in Seq(Contents \X Contents)
    BY <2>3, <2>4
  <2> QED
    BY <2>5 DEF pairs
<1>10. both \in Seq(Contents)
  BY <1>3, <1>6
<1>11. bucket \in Deltas
  BY <1>8, <1>9, <1>10 DEF Deltas
<1> QED
  BY <1>2, <1>3, <1>5, <1>11 DEF shared, both, left, right, m

(* A delta with a bucket joined to it is a delta.                          *)
LEMMA JoinedFacts ==
  ASSUME NEW delta \in Deltas, NEW bucket \in Deltas
  PROVE  Joined(delta, bucket) \in Deltas
<1>1. \A A : \A s, t \in Seq(A) : s \o t \in Seq(A)
  OBVIOUS
<1> QED
  BY <1>1 DEF Deltas, Joined

(* The delta is built bucket by bucket.                                    *)
Builds(h, b, c) ==
  LET n == Cardinality(Fingerprints)
  IN  /\ h[0] = NoEntries
      /\ \A k \in 0..(n - 1) : h[k + 1] = Joined(h[k], Bucket(b, c, Classes[k + 1]))

(* The delta between two reports is what the buckets give one after        *)
(* another.                                                                *)
LEMMA BetweenFolds ==
  ASSUME Ordered, NEW b \in Report, NEW c \in Report
  PROVE  \E h : Builds(h, b, c) /\ Between(b, c) = h[Cardinality(Fingerprints)]
<1> DEFINE n == Cardinality(Fingerprints)
           G == [p \in (1..n) \X Deltas |-> Joined(p[2], Bucket(b, c, Classes[p[1]]))]
           Fold(f) == f = [t \in SUBSET DOMAIN Classes |->
                             IF t = {} THEN NoEntries
                             ELSE Joined(f[t \ {Max(t)}], Bucket(b, c, Classes[Max(t)]))]
           chosen == CHOOSE f : Fold(f)
<1>1. n \in Nat /\ DOMAIN Classes = 1..n /\ NoEntries \in Deltas
  BY ClassesFacts DEF Deltas, NoEntries
<1>2. Between(b, c) = chosen[DOMAIN Classes]
  BY Zenon DEF Between, FoldLeft, MapThenFoldSet, Joined, Bucket, NoEntries, Classes
<1>3. \A k \in 1..n, a \in Deltas : G[<<k, a>>] = Joined(a, Bucket(b, c, Classes[k]))
  OBVIOUS
<1>4. \A k \in 1..n, a \in Deltas : Joined(a, Bucket(b, c, Classes[k])) \in Deltas
  <2> TAKE k \in 1..n, a \in Deltas
  <2>1. Bucket(b, c, Classes[k]) \in Deltas
    BY BucketFacts
  <2> QED
    BY <2>1, JoinedFacts
<1> HIDE DEF G, n
<1>5. PICK f \in [SUBSET (1..n) -> Deltas] : Folds(f, n, NoEntries, G)
  <2>1. \A k \in 1..n, a \in Deltas : G[<<k, a>>] \in Deltas
    BY <1>3, <1>4
  <2> QED
    BY <1>1, <2>1, FoldExists
<1>6. Fold(f)
  <2>1. ASSUME NEW t \in SUBSET (1..n), t # {}
        PROVE  G[<<Max(t), f[t \ {Max(t)}]>>] = Joined(f[t \ {Max(t)}], Bucket(b, c, Classes[Max(t)]))
    <3>1. Max(t) \in t
      <4>1. IsFiniteSet(1..n) /\ t \subseteq 1..n /\ t \subseteq Int
        BY <1>1, FS_Interval
      <4> QED
        BY <2>1, <4>1, FS_Subset, Extremes
    <3>2. f[t \ {Max(t)}] \in Deltas /\ Max(t) \in 1..n
      BY <3>1
    <3> QED
      BY <1>3, <3>2
  <2>2. \A t \in SUBSET (1..n) :
          (IF t = {} THEN NoEntries ELSE G[<<Max(t), f[t \ {Max(t)}]>>])
            = IF t = {} THEN NoEntries
              ELSE Joined(f[t \ {Max(t)}], Bucket(b, c, Classes[Max(t)]))
    BY <2>1
  <2>3. f = [t \in SUBSET (1..n) |-> IF t = {} THEN NoEntries ELSE G[<<Max(t), f[t \ {Max(t)}]>>]]
    BY <1>5 DEF Folds
  <2>4. f = [t \in SUBSET (1..n) |-> IF t = {} THEN NoEntries
              ELSE Joined(f[t \ {Max(t)}], Bucket(b, c, Classes[Max(t)]))]
    BY <2>2, <2>3
  <2> QED
    BY <1>1, <2>4
<1>7. Fold(chosen)
  <2> HIDE DEF Fold
  <2> QED
    BY <1>6
<1> HIDE DEF chosen
<1> DEFINE h == [k \in 0..n |-> chosen[1..k]]
<1>8. \A k \in 0..n : h[k] = chosen[1..k]
  OBVIOUS
<1> HIDE DEF h
<1>9. h[0] = NoEntries
  <2>1. 0 \in 0..n /\ 1..0 = {}
    BY <1>1, InitialSegments
  <2>2. chosen[{}] = NoEntries
    BY <1>7
  <2> QED
    BY <1>8, <2>1, <2>2
<1>10. ASSUME NEW k \in 0..(n - 1)
       PROVE  h[k + 1] = Joined(h[k], Bucket(b, c, Classes[k + 1]))
  <2>1. k \in Nat /\ k \in 0..n /\ k + 1 \in 0..n
    BY <1>1
  <2> DEFINE t == 1..(k + 1)
  <2>2. t \in SUBSET DOMAIN Classes
    BY <1>1
  <2>3. t # {} /\ Max(t) = k + 1 /\ t \ {k + 1} = 1..k
    BY <2>1, InitialSegments
  <2> HIDE DEF t
  <2>4. chosen[t] = Joined(chosen[t \ {Max(t)}], Bucket(b, c, Classes[Max(t)]))
    BY <1>7, <2>2, <2>3
  <2> QED
    BY <1>8, <2>1, <2>3, <2>4 DEF t
<1>11. Builds(h, b, c)
  BY <1>9, <1>10 DEF Builds, n
<1>12. Between(b, c) = h[n]
  BY <1>1, <1>2, <1>8
<1> QED
  BY <1>11, <1>12 DEF n

(* How many entries have a diagnostic of some contents before, and after.  *)
Before(delta, T) ==
  Among(delta.persisting, T) + Among(delta.resolved, T) + Among(delta.changed, T \X Contents)

After(delta, T) ==
  Among(delta.persisting, T) + Among(delta.new, T) + Among(delta.changed, Contents \X T)

(* Joining a bucket adds its entries, before and after.                    *)
LEMMA EntriesAdd ==
  ASSUME NEW delta \in Deltas, NEW bucket \in Deltas
  PROVE  \A T : /\ Before(Joined(delta, bucket), T) = Before(delta, T) + Before(bucket, T)
                /\ After(Joined(delta, bucket), T) = After(delta, T) + After(bucket, T)
                /\ Before(delta, T) \in Nat /\ After(delta, T) \in Nat
<1> TAKE T
<1> DEFINE joined == Joined(delta, bucket)
           T1 == T \X Contents
           T2 == Contents \X T
<1>1. /\ joined.persisting = delta.persisting \o bucket.persisting
      /\ joined.resolved = delta.resolved \o bucket.resolved
      /\ joined.new = delta.new \o bucket.new
      /\ joined.changed = delta.changed \o bucket.changed
  BY DEF Joined
<1>2. /\ delta.persisting \in Seq(Contents) /\ bucket.persisting \in Seq(Contents)
      /\ delta.resolved \in Seq(Contents) /\ bucket.resolved \in Seq(Contents)
      /\ delta.new \in Seq(Contents) /\ bucket.new \in Seq(Contents)
      /\ delta.changed \in Seq(Contents \X Contents) /\ bucket.changed \in Seq(Contents \X Contents)
  BY DEF Deltas
<1> HIDE DEF joined, T1, T2
<1>3. Among(joined.persisting, T) = Among(delta.persisting, T) + Among(bucket.persisting, T)
  BY <1>1, <1>2, AmongConcat
<1>4. Among(joined.resolved, T) = Among(delta.resolved, T) + Among(bucket.resolved, T)
  BY <1>1, <1>2, AmongConcat
<1>5. Among(joined.new, T) = Among(delta.new, T) + Among(bucket.new, T)
  BY <1>1, <1>2, AmongConcat
<1>6. Among(joined.changed, T1) = Among(delta.changed, T1) + Among(bucket.changed, T1)
  BY <1>1, <1>2, AmongConcat
<1>7. Among(joined.changed, T2) = Among(delta.changed, T2) + Among(bucket.changed, T2)
  BY <1>1, <1>2, AmongConcat
<1>8. /\ Among(delta.persisting, T) \in Nat /\ Among(bucket.persisting, T) \in Nat
      /\ Among(delta.resolved, T) \in Nat /\ Among(bucket.resolved, T) \in Nat
      /\ Among(delta.new, T) \in Nat /\ Among(bucket.new, T) \in Nat
      /\ Among(delta.changed, T1) \in Nat /\ Among(bucket.changed, T1) \in Nat
      /\ Among(delta.changed, T2) \in Nat /\ Among(bucket.changed, T2) \in Nat
  BY <1>2, AmongFacts
<1>9. \A e : /\ Before(e, T) = Among(e.persisting, T) + Among(e.resolved, T) + Among(e.changed, T1)
             /\ After(e, T) = Among(e.persisting, T) + Among(e.new, T) + Among(e.changed, T2)
  BY DEF Before, After, T1, T2
<1> QED
  BY <1>3, <1>4, <1>5, <1>6, <1>7, <1>8, <1>9 DEF joined

(* The entries' digests, as the properties have them.                      *)
LEMMA DigestsFacts ==
  ASSUME NEW delta \in Deltas
  PROVE  /\ BaselineDigests(delta) \in Seq(Contents) /\ CandidateDigests(delta) \in Seq(Contents)
         /\ Len(BaselineDigests(delta)) =
              Len(delta.persisting) + Len(delta.resolved) + Len(delta.changed)
         /\ Len(CandidateDigests(delta)) =
              Len(delta.persisting) + Len(delta.new) + Len(delta.changed)
         /\ \A T : /\ Among(BaselineDigests(delta), T) = Before(delta, T)
                   /\ Among(CandidateDigests(delta), T) = After(delta, T)
<1> DEFINE pairs == delta.changed
           firsts == [k \in DOMAIN pairs |-> pairs[k][1]]
           seconds == [k \in DOMAIN pairs |-> pairs[k][2]]
<1>1. /\ delta.persisting \in Seq(Contents) /\ delta.resolved \in Seq(Contents)
      /\ delta.new \in Seq(Contents) /\ pairs \in Seq(Contents \X Contents)
  BY DEF Deltas
<1> HIDE DEF pairs
<1>2. /\ DOMAIN pairs = 1..Len(pairs) /\ Len(pairs) \in Nat
      /\ \A k \in DOMAIN pairs : pairs[k] \in Contents \X Contents
  BY <1>1
<1>3. \A k \in DOMAIN pairs : /\ pairs[k][1] \in Contents /\ pairs[k][2] \in Contents
                              /\ pairs[k] = <<pairs[k][1], pairs[k][2]>>
  BY <1>2
<1>4. /\ firsts \in Seq(Contents) /\ Len(firsts) = Len(pairs)
      /\ seconds \in Seq(Contents) /\ Len(seconds) = Len(pairs)
      /\ DOMAIN firsts = DOMAIN pairs /\ DOMAIN seconds = DOMAIN pairs
      /\ \A k \in DOMAIN pairs : firsts[k] = pairs[k][1] /\ seconds[k] = pairs[k][2]
  <2>1. firsts \in [1..Len(pairs) -> Contents] /\ seconds \in [1..Len(pairs) -> Contents]
    BY <1>2, <1>3
  <2>2. \A k \in DOMAIN pairs : firsts[k] = pairs[k][1] /\ seconds[k] = pairs[k][2]
    OBVIOUS
  <2>3. DOMAIN firsts = DOMAIN pairs /\ DOMAIN seconds = DOMAIN pairs
    OBVIOUS
  <2> HIDE DEF firsts, seconds
  <2>4. firsts \in Seq(Contents) /\ Len(firsts) = Len(pairs)
    BY <1>2, <2>1
  <2>5. seconds \in Seq(Contents) /\ Len(seconds) = Len(pairs)
    BY <1>2, <2>1
  <2> QED
    BY <2>2, <2>3, <2>4, <2>5
<1>5. /\ BaselineDigests(delta) = delta.persisting \o delta.resolved \o firsts
      /\ CandidateDigests(delta) = delta.persisting \o delta.new \o seconds
  BY DEF BaselineDigests, CandidateDigests, pairs
<1> HIDE DEF firsts, seconds
<1>6. \A T : /\ Among(firsts, T) = Among(pairs, T \X Contents)
             /\ Among(seconds, T) = Among(pairs, Contents \X T)
  <2> TAKE T
  <2> DEFINE T1 == T \X Contents
             T2 == Contents \X T
  <2>1. \A k \in DOMAIN pairs : /\ firsts[k] \in T <=> pairs[k] \in T1
                                /\ seconds[k] \in T <=> pairs[k] \in T2
    <3> TAKE k \in DOMAIN pairs
    <3> DEFINE x == pairs[k][1]
               y == pairs[k][2]
    <3>1. x \in Contents /\ y \in Contents /\ pairs[k] = <<x, y>>
      BY <1>3
    <3>2. firsts[k] = x /\ seconds[k] = y
      BY <1>4
    <3> HIDE DEF x, y
    <3> QED
      BY <3>1, <3>2
  <2> HIDE DEF T1, T2
  <2>2. /\ {k \in DOMAIN firsts : firsts[k] \in T} = {k \in DOMAIN pairs : pairs[k] \in T1}
        /\ {k \in DOMAIN seconds : seconds[k] \in T} = {k \in DOMAIN pairs : pairs[k] \in T2}
    BY <1>4, <2>1
  <2> QED
    BY <2>2 DEF Among, T1, T2
<1>7. \A s, t, u \in Seq(Contents) : /\ s \o t \in Seq(Contents) /\ s \o t \o u \in Seq(Contents)
                                     /\ Len(s \o t \o u) = Len(s) + Len(t) + Len(u)
  OBVIOUS
<1>8. \A T : \A s, t, u \in Seq(Contents) : Among(s \o t \o u, T) = Among(s, T) + Among(t, T) + Among(u, T)
  <2> TAKE T
  <2> TAKE s, t, u \in Seq(Contents)
  <2>1. s \o t \in Seq(Contents)
    OBVIOUS
  <2>2. Among((s \o t) \o u, T) = Among(s \o t, T) + Among(u, T)
    BY <2>1, AmongConcat
  <2>3. Among(s \o t, T) = Among(s, T) + Among(t, T)
    BY AmongConcat
  <2> QED
    BY <2>2, <2>3
<1>9. ASSUME NEW T
      PROVE  /\ Among(BaselineDigests(delta), T) = Before(delta, T)
             /\ Among(CandidateDigests(delta), T) = After(delta, T)
  <2>1. /\ Among(BaselineDigests(delta), T) =
             Among(delta.persisting, T) + Among(delta.resolved, T) + Among(firsts, T)
        /\ Among(CandidateDigests(delta), T) =
             Among(delta.persisting, T) + Among(delta.new, T) + Among(seconds, T)
    BY <1>1, <1>4, <1>5, <1>8
  <2> QED
    BY <1>6, <2>1 DEF Before, After, pairs
<1>10. /\ BaselineDigests(delta) \in Seq(Contents) /\ CandidateDigests(delta) \in Seq(Contents)
       /\ Len(BaselineDigests(delta)) = Len(delta.persisting) + Len(delta.resolved) + Len(pairs)
       /\ Len(CandidateDigests(delta)) = Len(delta.persisting) + Len(delta.new) + Len(pairs)
  <2> DEFINE p == delta.persisting
             r == delta.resolved
             n == delta.new
  <2>1. /\ p \in Seq(Contents) /\ r \in Seq(Contents) /\ n \in Seq(Contents)
        /\ BaselineDigests(delta) = p \o r \o firsts /\ CandidateDigests(delta) = p \o n \o seconds
    BY <1>1, <1>5
  <2> HIDE DEF p, r, n
  <2>2. p \o r \o firsts \in Seq(Contents) /\ Len(p \o r \o firsts) = Len(p) + Len(r) + Len(pairs)
    <3>1. p \in Seq(Contents) /\ r \in Seq(Contents) /\ firsts \in Seq(Contents)
      BY <1>4, <2>1
    <3>2. Len(firsts) = Len(pairs)
      BY <1>4
    <3> QED
      BY <1>7, <3>1, <3>2
  <2>3. p \o n \o seconds \in Seq(Contents) /\ Len(p \o n \o seconds) = Len(p) + Len(n) + Len(pairs)
    <3>1. p \in Seq(Contents) /\ n \in Seq(Contents) /\ seconds \in Seq(Contents)
      BY <1>4, <2>1
    <3>2. Len(seconds) = Len(pairs)
      BY <1>4
    <3> QED
      BY <1>7, <3>1, <3>2
  <2> QED
    BY <2>1, <2>2, <2>3 DEF p, r, n
<1> QED
  BY <1>9, <1>10 DEF pairs

(* The parts a list is cut into.                                           *)
LEMMA CutFacts ==
  ASSUME NEW A, NEW s \in Seq(A), NEW m \in Nat, m <= Len(s)
  PROVE  LET head == [k \in 1..m |-> s[k]]
             tail == SubSeq(s, m + 1, Len(s))
         IN  /\ head \in Seq(A) /\ tail \in Seq(A) /\ s = head \o tail
             /\ Len(head) = m /\ Len(tail) = Len(s) - m
             /\ \A T : Among(head, T) + Among(tail, T) = Among(s, T)
<1> DEFINE n == Len(s)
           head == [k \in 1..m |-> s[k]]
           tail == SubSeq(s, m + 1, n)
<1>1. n \in Nat /\ DOMAIN s = 1..n /\ \A k \in 1..n : s[k] \in A
  OBVIOUS
<1>2. head \in Seq(A) /\ Len(head) = m /\ \A k \in 1..m : head[k] = s[k]
  <2>1. \A k \in 1..m : k \in 1..n
    BY <1>1
  <2>2. head \in [1..m -> A]
    BY <1>1, <2>1
  <2>3. \A k \in 1..m : head[k] = s[k]
    OBVIOUS
  <2> HIDE DEF head
  <2> QED
    BY <2>2, <2>3
<1>3. tail \in Seq(A) /\ Len(tail) = n - m /\ \A k \in 1..(n - m) : tail[k] = s[m + k]
  <2> HIDE DEF n
  <2>1. \A k \in (m + 1)..n : k \in 1..n
    BY <1>1
  <2>2. m + 1 \in Int /\ n \in Int /\ \A k \in (m + 1)..n : s[k] \in A
    BY <1>1, <2>1
  <2>3. /\ tail \in Seq(A) /\ Len(tail) = IF m + 1 <= n THEN n - (m + 1) + 1 ELSE 0
        /\ \A k \in 1..(n - (m + 1) + 1) : tail[k] = s[m + 1 + k - 1]
    BY <2>2, SubSeqProperties
  <2>4. m <= n
    BY DEF n
  <2>5. Len(tail) = n - m
    BY <1>1, <2>3, <2>4
  <2>6. n - (m + 1) + 1 = n - m /\ \A k \in 1..(n - m) : m + 1 + k - 1 = m + k
    BY <1>1
  <2> QED
    BY <2>3, <2>5, <2>6
<1> HIDE DEF head, tail
<1>4. s = head \o tail
  <2>1. /\ head \o tail \in Seq(A) /\ Len(head \o tail) = n
        /\ \A k \in 1..n : (head \o tail)[k] = IF k <= m THEN head[k] ELSE tail[k - m]
    <3>1. /\ head \in Seq(A) /\ tail \in Seq(A) /\ Len(head) = m /\ Len(tail) = n - m
      BY <1>2, <1>3
    <3>2. m \in Nat /\ n \in Nat /\ m + (n - m) = n
      BY <1>1
    <3> HIDE DEF n
    <3>3. head \o tail \in Seq(A) /\ Len(head \o tail) = n
      BY <3>1, <3>2
    <3>4. \A k \in 1..(Len(head) + Len(tail)) :
            (head \o tail)[k] = IF k <= Len(head) THEN head[k] ELSE tail[k - Len(head)]
      BY <3>1
    <3> QED
      BY <3>1, <3>2, <3>3, <3>4
  <2>2. \A k \in 1..n : (head \o tail)[k] = s[k]
    <3> TAKE k \in 1..n
    <3>1. CASE k <= m
      BY <1>2, <2>1, <3>1
    <3>2. CASE ~(k <= m)
      <4>1. k - m \in 1..(n - m) /\ m + (k - m) = k
        BY <1>1, <3>2
      <4> QED
        BY <1>3, <2>1, <3>2, <4>1
    <3> QED
      BY <3>1, <3>2
  <2> DEFINE t == head \o tail
  <2> HIDE DEF t
  <2>3. t \in Seq(A) /\ Len(t) = Len(s) /\ \A k \in 1..Len(s) : t[k] = s[k]
    BY <2>1, <2>2 DEF t
  <2>4. t = s
    BY <2>3, SeqEqual
  <2> QED
    BY <2>4 DEF t
<1>5. ASSUME NEW T
      PROVE  Among(head, T) + Among(tail, T) = Among(s, T)
  BY <1>2, <1>3, <1>4, AmongConcat
<1> QED
  BY <1>2, <1>3, <1>4, <1>5 DEF head, tail

SameIdentity(pairs) ==
  \A k \in DOMAIN pairs : Fingerprint[pairs[k][1]] = Fingerprint[pairs[k][2]]

NoDifference(delta) == delta.changed = <<>> /\ delta.resolved = <<>> /\ delta.new = <<>>

(* What is not of a set occurs nowhere in a sequence over it.              *)
LEMMA NothingAmong ==
  ASSUME NEW A, NEW s \in Seq(A), NEW d, d \notin A
  PROVE  Among(s, {d}) = 0
<1>1. \A k \in DOMAIN s : s[k] \notin {d}
  <2>1. \A k \in DOMAIN s : s[k] \in A
    OBVIOUS
  <2> QED
    BY <2>1
<1> QED
  BY <1>1, AmongFacts

(* A bucket has each content of its fingerprint as often as the reports    *)
(* do, pairs only what has the same fingerprint, and has no difference     *)
(* when the reports are the same.                                          *)
LEMMA BucketDigests ==
  ASSUME Ordered, NEW b \in Report, NEW c \in Report, NEW fp
  PROVE  LET bucket == Bucket(b, c, fp)
         IN  /\ \A d \in Contents :
                  /\ Before(bucket, {d}) = IF Fingerprint[d] = fp THEN b[d] ELSE 0
                  /\ After(bucket, {d}) = IF Fingerprint[d] = fp THEN c[d] ELSE 0
             /\ SameIdentity(bucket.changed)
             /\ b = c => NoDifference(bucket)
<1> DEFINE shared == Shared(b, c)
           wb     == Without(b, shared)
           wc     == Without(c, shared)
           both   == ByDigest(shared, fp)
           left   == ByDigest(wb, fp)
           right  == ByDigest(wc, fp)
           m      == Min({Len(left), Len(right)})
           pairs  == [k \in 1..m |-> <<left[k], right[k]>>]
           bucket == [persisting |-> both, changed |-> pairs,
                      resolved |-> SubSeq(left, m + 1, Len(left)),
                      new |-> SubSeq(right, m + 1, Len(right))]
           A      == Of(fp)
<1>1. /\ shared \in Report /\ wb \in Report /\ wc \in Report
      /\ \A d \in Contents : /\ shared[d] = Least(b[d], c[d])
                             /\ wb[d] = b[d] - Least(b[d], c[d])
                             /\ wc[d] = c[d] - Least(b[d], c[d])
  BY SharedFacts
<1>2. /\ m \in Nat /\ m <= Len(left) /\ m <= Len(right)
      /\ left \in Seq(A) /\ right \in Seq(A)
      /\ Bucket(b, c, fp) = bucket
  BY BucketFacts
<1> HIDE DEF shared, wb, wc
<1>3. /\ IsListOf(both, shared, fp) /\ IsListOf(left, wb, fp) /\ IsListOf(right, wc, fp)
  BY <1>1, ByDigestFacts
<1>4. /\ both \in Seq(A)
      /\ \A d \in A : /\ Among(both, {d}) = shared[d] /\ Among(left, {d}) = wb[d]
                      /\ Among(right, {d}) = wc[d]
  BY <1>3 DEF IsListOf
<1>5. A \in SUBSET Contents /\ \A d \in Contents : (d \in A <=> Fingerprint[d] = fp)
  BY OfFacts DEF Of
<1>6. \A d \in Contents : b[d] \in Nat /\ c[d] \in Nat
  BY DEF Report
<1> HIDE DEF both, left, right, A, m
<1> DEFINE heads == [k \in 1..m |-> left[k]]
           tails == SubSeq(left, m + 1, Len(left))
           heads2 == [k \in 1..m |-> right[k]]
           tails2 == SubSeq(right, m + 1, Len(right))
<1>7. /\ heads \in Seq(A) /\ tails \in Seq(A) /\ Len(heads) = m
      /\ \A T : Among(heads, T) + Among(tails, T) = Among(left, T)
  BY <1>2, CutFacts
<1>8. /\ heads2 \in Seq(A) /\ tails2 \in Seq(A) /\ Len(heads2) = m
      /\ \A T : Among(heads2, T) + Among(tails2, T) = Among(right, T)
  BY <1>2, CutFacts
<1>9. \A k \in 1..m : /\ heads[k] = left[k] /\ heads2[k] = right[k]
                      /\ left[k] \in A /\ right[k] \in A
  <2>1. \A k \in 1..m : k \in DOMAIN left /\ k \in DOMAIN right
    BY <1>2
  <2> QED
    BY <1>2, <2>1
<1>10. DOMAIN pairs = 1..m /\ DOMAIN heads = 1..m /\ DOMAIN heads2 = 1..m
  OBVIOUS
<1>11. \A k \in 1..m : pairs[k] = <<left[k], right[k]>>
  OBVIOUS
<1>12. bucket.persisting = both /\ bucket.changed = pairs /\ bucket.resolved = tails /\ bucket.new = tails2
  OBVIOUS
<1> HIDE DEF heads, tails, heads2, tails2, pairs, bucket
<1>13. \A T : /\ Among(pairs, T \X Contents) = Among(heads, T)
              /\ Among(pairs, Contents \X T) = Among(heads2, T)
  <2> TAKE T
  <2>1. \A k \in 1..m : /\ pairs[k] \in T \X Contents <=> heads[k] \in T
                        /\ pairs[k] \in Contents \X T <=> heads2[k] \in T
    <3> TAKE k \in 1..m
    <3>1. pairs[k] = <<left[k], right[k]>> /\ left[k] \in Contents /\ right[k] \in Contents
      BY <1>5, <1>9, <1>11
    <3> QED
      BY <1>9, <3>1
  <2>2. /\ {k \in DOMAIN pairs : pairs[k] \in T \X Contents} = {k \in DOMAIN heads : heads[k] \in T}
        /\ {k \in DOMAIN pairs : pairs[k] \in Contents \X T} = {k \in DOMAIN heads2 : heads2[k] \in T}
    BY <1>10, <2>1
  <2> QED
    BY <2>2 DEF Among
<1>14. ASSUME NEW d \in Contents
       PROVE  /\ Before(bucket, {d}) = IF Fingerprint[d] = fp THEN b[d] ELSE 0
              /\ After(bucket, {d}) = IF Fingerprint[d] = fp THEN c[d] ELSE 0
  <2> DEFINE T == {d}
  <2>1. /\ Among(both, T) \in Nat /\ Among(heads, T) \in Nat /\ Among(tails, T) \in Nat
        /\ Among(heads2, T) \in Nat /\ Among(tails2, T) \in Nat
    BY <1>4, <1>7, <1>8, AmongFacts
  <2>2. CASE d \in A
    <3>1. Among(both, T) = shared[d] /\ Among(left, T) = wb[d] /\ Among(right, T) = wc[d]
      BY <1>4, <2>2
    <3> HIDE DEF T
    <3>2. Before(bucket, T) = shared[d] + wb[d]
      BY <1>7, <1>12, <1>13, <2>1, <3>1 DEF Before
    <3>3. After(bucket, T) = shared[d] + wc[d]
      BY <1>8, <1>12, <1>13, <2>1, <3>1 DEF After
    <3>4. shared[d] + wb[d] = b[d] /\ shared[d] + wc[d] = c[d]
      BY <1>1, <1>6 DEF Least
    <3> QED
      BY <1>5, <2>2, <3>2, <3>3, <3>4 DEF T
  <2>3. CASE d \notin A
    <3>1. /\ Among(both, T) = 0 /\ Among(heads, T) = 0 /\ Among(tails, T) = 0
          /\ Among(heads2, T) = 0 /\ Among(tails2, T) = 0
      BY <1>4, <1>7, <1>8, <2>3, NothingAmong
    <3> HIDE DEF T
    <3>2. Before(bucket, T) = 0 /\ After(bucket, T) = 0
      BY <1>12, <1>13, <3>1 DEF Before, After
    <3> QED
      BY <1>5, <2>3, <3>2 DEF T
  <2> QED
    BY <2>2, <2>3
<1>15. SameIdentity(pairs)
  <2> SUFFICES ASSUME NEW k \in 1..m
               PROVE  Fingerprint[pairs[k][1]] = Fingerprint[pairs[k][2]]
    BY <1>10 DEF SameIdentity
  <2>1. pairs[k][1] = left[k] /\ pairs[k][2] = right[k]
    BY <1>11
  <2> QED
    BY <1>5, <1>9, <2>1
<1>16. ASSUME b = c
       PROVE  NoDifference(bucket)
  <2>1. \A d \in A : Among(left, {d}) = 0 /\ Among(right, {d}) = 0
    <3> TAKE d \in A
    <3>1. b[d] \in Nat /\ c[d] = b[d] /\ d \in Contents
      BY <1>5, <1>6, <1>16
    <3>2. wb[d] = 0 /\ wc[d] = 0
      BY <1>1, <3>1 DEF Least
    <3> QED
      BY <1>4, <3>2
  <2>2. \A s \in Seq(A) : (\A d \in A : Among(s, {d}) = 0) => s = <<>>
    <3> SUFFICES ASSUME NEW s \in Seq(A), \A d \in A : Among(s, {d}) = 0
                 PROVE  s = <<>>
      OBVIOUS
    <3>1. ASSUME NEW k \in DOMAIN s
          PROVE  FALSE
      <4>1. s[k] \in A
        OBVIOUS
      <4>2. Among(s, {s[k]}) = 0
        BY <4>1
      <4>3. \A j \in DOMAIN s : s[j] \notin {s[k]}
        BY <4>2, AmongFacts
      <4> QED
        BY <4>3
    <3>2. Len(s) = 0
      BY <3>1
    <3> QED
      BY <3>2
  <2>3. left = <<>> /\ right = <<>>
    BY <1>2, <2>1, <2>2
  <2>4. m = 0 /\ Len(left) = 0 /\ Len(right) = 0
    BY <1>2, <2>3
  <2>5. heads = <<>> /\ tails = <<>> /\ tails2 = <<>>
    BY <2>4, SubSeqEmpty DEF heads, tails, tails2
  <2>6. pairs = <<>>
    BY <2>4 DEF pairs
  <2> QED
    BY <1>12, <2>5, <2>6 DEF NoDifference
<1> QED
  BY <1>2, <1>12, <1>14, <1>15, <1>16 DEF bucket, pairs

(* What the delta says of either report.                                   *)
Says(delta, b, c) ==
  /\ delta \in Deltas /\ SameIdentity(delta.changed)
  /\ \A d \in Contents : Before(delta, {d}) = b[d] /\ After(delta, {d}) = c[d]
  /\ b = c => NoDifference(delta)

(* The delta between two reports says of either how often it has each      *)
(* content.                                                                *)
LEMMA BetweenFacts ==
  ASSUME Ordered, NEW b \in Report, NEW c \in Report
  PROVE  Says(Between(b, c), b, c)
<1> DEFINE n == Cardinality(Fingerprints)
           Met(k, d) == \E i \in 1..k : Classes[i] = Fingerprint[d]
<1>1. PICK h : Builds(h, b, c) /\ Between(b, c) = h[n]
  BY BetweenFolds
<1>2. /\ n \in Nat
      /\ \A i, j \in 1..n : Classes[i] = Classes[j] => i = j
      /\ \A d \in Contents : \E k \in 1..n : Classes[k] = Fingerprint[d]
  BY ClassesFacts DEF Fingerprints
<1> DEFINE Upto(k) == /\ h[k] \in Deltas /\ SameIdentity(h[k].changed)
                      /\ \A d \in Contents :
                           /\ Before(h[k], {d}) = IF Met(k, d) THEN b[d] ELSE 0
                           /\ After(h[k], {d}) = IF Met(k, d) THEN c[d] ELSE 0
                      /\ b = c => NoDifference(h[k])
           S == {k \in Nat : k <= n => Upto(k)}
<1>3. 0 \in S
  <2>1. h[0] = NoEntries
    BY <1>1 DEF Builds
  <2>2. NoEntries \in Deltas /\ NoDifference(NoEntries) /\ SameIdentity(NoEntries.changed)
    BY DEF NoEntries, Deltas, NoDifference, SameIdentity
  <2>3. \A T : Among(<<>>, T) = 0
    <3>1. \A T : {j \in DOMAIN <<>> : <<>>[j] \in T} = {}
      OBVIOUS
    <3> QED
      BY <3>1, FS_EmptySet DEF Among
  <2>4. \A T : Before(NoEntries, T) = 0 /\ After(NoEntries, T) = 0
    BY <2>3 DEF Before, After, NoEntries
  <2>5. \A d : ~Met(0, d)
    OBVIOUS
  <2>6. Upto(0)
    <3> HIDE DEF Met
    <3> QED
      BY <2>1, <2>2, <2>4, <2>5
  <2> HIDE DEF Upto
  <2> QED
    BY <2>6
<1>4. ASSUME NEW k \in Nat, k \in S
      PROVE  k + 1 \in S
  <2> SUFFICES ASSUME k + 1 <= n
               PROVE  Upto(k + 1)
    OBVIOUS
  <2> DEFINE fp == Classes[k + 1]
             bucket == Bucket(b, c, fp)
             old == h[k]
             new == h[k + 1]
  <2>1. k \in 0..(n - 1) /\ k <= n /\ k + 1 \in 1..n
    BY <1>2
  <2>2. new = Joined(old, bucket)
    BY <1>1, <2>1 DEF Builds
  <2>3. Upto(k)
    BY <1>4, <2>1
  <2>4. old \in Deltas /\ bucket \in Deltas
    <3>1. bucket \in Deltas
      BY BucketFacts
    <3> QED
      BY <2>3, <3>1
  <2>5. /\ \A d \in Contents : /\ Before(bucket, {d}) = IF Fingerprint[d] = fp THEN b[d] ELSE 0
                               /\ After(bucket, {d}) = IF Fingerprint[d] = fp THEN c[d] ELSE 0
        /\ SameIdentity(bucket.changed)
        /\ b = c => NoDifference(bucket)
    <3> HIDE DEF fp
    <3> QED
      BY BucketDigests
  <2> HIDE DEF new, bucket
  <2>6. new \in Deltas
    BY <2>2, <2>4, JoinedFacts
  <2>7. ASSUME NEW d \in Contents
        PROVE  /\ Before(new, {d}) = IF Met(k + 1, d) THEN b[d] ELSE 0
               /\ After(new, {d}) = IF Met(k + 1, d) THEN c[d] ELSE 0
    <3>1. b[d] \in Nat /\ c[d] \in Nat
      BY DEF Report
    <3>2. Met(k + 1, d) <=> (Met(k, d) \/ Fingerprint[d] = fp)
      <4>1. \A i \in 1..(k + 1) : i \in 1..k \/ i = k + 1
        OBVIOUS
      <4>2. \A i \in 1..k : i \in 1..(k + 1)
        OBVIOUS
      <4>3. k + 1 \in 1..(k + 1)
        OBVIOUS
      <4> QED
        BY <4>1, <4>2, <4>3
    <3>3. ~(Met(k, d) /\ Fingerprint[d] = fp)
      <4>1. \A i \in 1..k : i \in 1..n /\ i # k + 1
        BY <1>2, <2>1
      <4> QED
        BY <1>2, <2>1, <4>1
    <3>4. /\ Before(old, {d}) = IF Met(k, d) THEN b[d] ELSE 0
          /\ After(old, {d}) = IF Met(k, d) THEN c[d] ELSE 0
      BY <2>3
    <3> DEFINE T == {d}
    <3>5. /\ Before(new, T) = Before(old, T) + Before(bucket, T)
          /\ After(new, T) = After(old, T) + After(bucket, T)
      <4> HIDE DEF T, old
      <4> QED
        BY <2>2, <2>4, EntriesAdd
    <3> HIDE DEF Met, old, fp
    <3> QED
      BY <2>5, <3>1, <3>2, <3>3, <3>4, <3>5
  <2>8. SameIdentity(new.changed)
    <3> DEFINE s == old.changed
               t == bucket.changed
    <3>1. s \in Seq(Contents \X Contents) /\ t \in Seq(Contents \X Contents)
      BY <2>4 DEF Deltas
    <3>2. SameIdentity(s) /\ SameIdentity(t) /\ new.changed = s \o t
      BY <2>2, <2>3, <2>5 DEF Joined
    <3> HIDE DEF s, t
    <3>3. \A i \in DOMAIN (s \o t) : \/ i \in DOMAIN s /\ (s \o t)[i] = s[i]
                                     \/ i - Len(s) \in DOMAIN t /\ (s \o t)[i] = t[i - Len(s)]
      BY <3>1
    <3>4. SameIdentity(s \o t)
      BY <3>2, <3>3 DEF SameIdentity
    <3> QED
      BY <3>2, <3>4
  <2>9. b = c => NoDifference(new)
    <3>1. b = c => NoDifference(old) /\ NoDifference(bucket)
      BY <2>3, <2>5
    <3>2. <<>> \o <<>> = <<>>
      OBVIOUS
    <3> HIDE DEF old
    <3> QED
      BY <2>2, <3>1, <3>2 DEF Joined, NoDifference
  <2> HIDE DEF Met
  <2> QED
    BY <2>6, <2>7, <2>8, <2>9 DEF new
<1>5. \A k \in Nat : k \in S
  <2> HIDE DEF S
  <2> QED
    BY <1>3, <1>4, NatInduct
<1>6. Upto(n)
  <2>1. n \in S
    <3> HIDE DEF S
    <3> QED
      BY <1>2, <1>5
  <2> HIDE DEF Upto
  <2> QED
    BY <1>2, <2>1
<1>7. \A d \in Contents : Met(n, d)
  BY <1>2
<1> HIDE DEF Met, n
<1> QED
  BY <1>1, <1>6, <1>7 DEF Says

(* Turned round.                                                           *)
Turned(pairs) == [k \in DOMAIN pairs |-> <<pairs[k][2], pairs[k][1]>>]

TurnedOf(there, back) ==
  /\ there.persisting = back.persisting
  /\ there.new = back.resolved /\ there.resolved = back.new
  /\ there.changed = Turned(back.changed)

(* The bucket of the comparison the other way round: changed turned, new   *)
(* and resolved exchanged.                                                 *)
LEMMA BucketTurns ==
  ASSUME Ordered, NEW b \in Report, NEW c \in Report, NEW fp
  PROVE  TurnedOf(Bucket(b, c, fp), Bucket(c, b, fp))
<1> DEFINE shared == Shared(b, c)
           left   == ByDigest(Without(b, shared), fp)
           right  == ByDigest(Without(c, shared), fp)
           m      == Min({Len(left), Len(right)})
<1>1. Shared(c, b) = shared
  BY SharedFacts
<1>2. /\ Bucket(b, c, fp) = [persisting |-> ByDigest(shared, fp),
                             changed    |-> [k \in 1..m |-> <<left[k], right[k]>>],
                             resolved   |-> SubSeq(left, m + 1, Len(left)),
                             new        |-> SubSeq(right, m + 1, Len(right))]
      /\ m = Min({Len(right), Len(left)})
  BY BucketFacts
<1> DEFINE m2 == Min({Len(right), Len(left)})
<1>3. Bucket(c, b, fp) = [persisting |-> ByDigest(shared, fp),
                          changed    |-> [k \in 1..m2 |-> <<right[k], left[k]>>],
                          resolved   |-> SubSeq(right, m2 + 1, Len(right)),
                          new        |-> SubSeq(left, m2 + 1, Len(left))]
  <2> DEFINE shared2 == Shared(c, b)
             left2   == ByDigest(Without(c, shared2), fp)
             right2  == ByDigest(Without(b, shared2), fp)
             m3      == Min({Len(left2), Len(right2)})
  <2>1. Bucket(c, b, fp) = [persisting |-> ByDigest(shared2, fp),
                            changed    |-> [k \in 1..m3 |-> <<left2[k], right2[k]>>],
                            resolved   |-> SubSeq(left2, m3 + 1, Len(left2)),
                            new        |-> SubSeq(right2, m3 + 1, Len(right2))]
    BY BucketFacts
  <2> HIDE DEF shared, shared2
  <2>2. shared2 = shared
    BY <1>1 DEF shared2
  <2> QED
    BY <2>1, <2>2
<1> HIDE DEF shared, left, right, m, m2
<1>4. m = m2
  BY <1>2 DEF m2
<1>5. [k \in 1..m |-> <<left[k], right[k]>>] = Turned([k \in 1..m |-> <<right[k], left[k]>>])
  BY DEF Turned
<1> DEFINE u == Bucket(b, c, fp)
           v == Bucket(c, b, fp)
<1>6. /\ u.persisting = v.persisting /\ u.resolved = v.new /\ u.new = v.resolved
      /\ u.changed = [k \in 1..m |-> <<left[k], right[k]>>]
      /\ v.changed = [k \in 1..m |-> <<right[k], left[k]>>]
  <2>1. v = [persisting |-> ByDigest(shared, fp),
             changed    |-> [k \in 1..m |-> <<right[k], left[k]>>],
             resolved   |-> SubSeq(right, m + 1, Len(right)),
             new        |-> SubSeq(left, m + 1, Len(left))]
    BY <1>3, <1>4
  <2>2. u = [persisting |-> ByDigest(shared, fp),
             changed    |-> [k \in 1..m |-> <<left[k], right[k]>>],
             resolved   |-> SubSeq(left, m + 1, Len(left)),
             new        |-> SubSeq(right, m + 1, Len(right))]
    BY <1>2
  <2> HIDE DEF u, v
  <2> QED
    BY <2>1, <2>2, Zenon
<1> HIDE DEF u, v
<1>7. TurnedOf(u, v)
  BY <1>5, <1>6 DEF TurnedOf
<1> QED
  BY <1>7 DEF u, v

(* The delta the other way round is this one turned.                       *)
LEMMA BetweenTurns ==
  ASSUME Ordered, NEW b \in Report, NEW c \in Report
  PROVE  TurnedOf(Between(b, c), Between(c, b))
<1> DEFINE n == Cardinality(Fingerprints)
<1>1. PICK h : Builds(h, b, c) /\ Between(b, c) = h[n]
  BY BetweenFolds
<1>2. PICK g : Builds(g, c, b) /\ Between(c, b) = g[n]
  BY BetweenFolds
<1>3. n \in Nat
  BY ClassesFacts
<1> DEFINE S == {k \in Nat : k <= n => /\ h[k] \in Deltas /\ g[k] \in Deltas
                                       /\ TurnedOf(h[k], g[k])}
<1>4. 0 \in S
  <2>1. h[0] = NoEntries /\ g[0] = NoEntries
    BY <1>1, <1>2 DEF Builds
  <2>2. Turned(<<>>) = <<>>
    BY DEF Turned
  <2>3. NoEntries \in Deltas /\ TurnedOf(NoEntries, NoEntries)
    BY <2>2 DEF NoEntries, Deltas, TurnedOf
  <2> QED
    BY <2>1, <2>3
<1>5. ASSUME NEW k \in Nat, k \in S
      PROVE  k + 1 \in S
  <2> SUFFICES ASSUME k + 1 <= n
               PROVE  /\ h[k + 1] \in Deltas /\ g[k + 1] \in Deltas
                      /\ TurnedOf(h[k + 1], g[k + 1])
    OBVIOUS
  <2> DEFINE fp == Classes[k + 1]
             u == Bucket(b, c, fp)
             v == Bucket(c, b, fp)
             x == h[k]
             y == g[k]
  <2>1. k \in 0..(n - 1) /\ k <= n
    BY <1>3
  <2>2. h[k + 1] = Joined(x, u) /\ g[k + 1] = Joined(y, v)
    BY <1>1, <1>2, <2>1 DEF Builds
  <2>3. x \in Deltas /\ y \in Deltas /\ TurnedOf(x, y)
    BY <1>5, <2>1
  <2>4. u \in Deltas /\ v \in Deltas /\ TurnedOf(u, v)
    BY BucketFacts, BucketTurns
  <2> HIDE DEF x, y, u, v
  <2>5. Joined(x, u) \in Deltas /\ Joined(y, v) \in Deltas
    BY <2>3, <2>4, JoinedFacts
  <2>6. Turned(y.changed \o v.changed) = Turned(y.changed) \o Turned(v.changed)
    <3> DEFINE s == y.changed
               t == v.changed
    <3>1. s \in Seq(Contents \X Contents) /\ t \in Seq(Contents \X Contents)
      BY <2>3, <2>4 DEF Deltas
    <3> HIDE DEF s, t
    <3> DEFINE l == Turned(s \o t)
               r == Turned(s) \o Turned(t)
               p == Len(s)
               q == Len(t)
    <3>2. /\ p \in Nat /\ q \in Nat /\ DOMAIN s = 1..p /\ DOMAIN t = 1..q /\ DOMAIN (s \o t) = 1..(p + q)
          /\ \A i \in 1..(p + q) : (s \o t)[i] = IF i <= p THEN s[i] ELSE t[i - p]
          /\ \A i \in DOMAIN s : s[i] \in Contents \X Contents
          /\ \A i \in DOMAIN t : t[i] \in Contents \X Contents
      BY <3>1
    <3> HIDE DEF p, q
    <3>3. Turned(s) \in [1..p -> Contents \X Contents] /\ Turned(t) \in [1..q -> Contents \X Contents]
      BY <3>2 DEF Turned
    <3>4. /\ Turned(s) \in Seq(Contents \X Contents) /\ Len(Turned(s)) = p
          /\ Turned(t) \in Seq(Contents \X Contents) /\ Len(Turned(t)) = q
      BY <3>2, <3>3
    <3>5. /\ r \in Seq(Contents \X Contents) /\ Len(r) = p + q
          /\ \A i \in 1..(p + q) : r[i] = IF i <= p THEN Turned(s)[i] ELSE Turned(t)[i - p]
      BY <3>2, <3>4
    <3>6. l = [i \in 1..(p + q) |-> <<(s \o t)[i][2], (s \o t)[i][1]>>]
      BY <3>2 DEF Turned
    <3>7. ASSUME NEW i \in 1..(p + q)
          PROVE  <<(s \o t)[i][2], (s \o t)[i][1]>> = r[i]
      <4>1. CASE i <= p
        <5>1. i \in DOMAIN s /\ (s \o t)[i] = s[i]
          BY <3>2, <4>1
        <5>2. Turned(s)[i] = <<s[i][2], s[i][1]>>
          BY <5>1 DEF Turned
        <5> QED
          BY <3>5, <4>1, <5>1, <5>2
      <4>2. CASE ~(i <= p)
        <5>1. i - p \in DOMAIN t /\ (s \o t)[i] = t[i - p]
          BY <3>2, <4>2
        <5>2. Turned(t)[i - p] = <<t[i - p][2], t[i - p][1]>>
          BY <5>1 DEF Turned
        <5> QED
          BY <3>5, <4>2, <5>1, <5>2
      <4> QED
        BY <4>1, <4>2
    <3> HIDE DEF r, l
    <3>8. DOMAIN r = 1..(p + q) /\ r = [i \in DOMAIN r |-> r[i]]
      BY <3>2, <3>5
    <3>9. l = r
      BY <3>6, <3>7, <3>8
    <3> QED
      BY <3>9 DEF l, r, s, t
  <2>7. TurnedOf(Joined(x, u), Joined(y, v))
    BY <2>3, <2>4, <2>6 DEF TurnedOf, Joined
  <2> QED
    BY <2>2, <2>5, <2>7
<1>6. \A k \in Nat : k \in S
  <2> HIDE DEF S
  <2> QED
    BY <1>4, <1>5, NatInduct
<1>7. TurnedOf(h[n], g[n])
  <2>1. n \in S
    <3> HIDE DEF S, n
    <3> QED
      BY <1>3, <1>6
  <2> QED
    BY <1>3, <2>1
<1> QED
  BY <1>1, <1>2, <1>7

Rises == {pair \in Contents \X Contents : IsSeverityIncrease(pair)}

Excess(b, c, minimum) ==
  [fp \in Fingerprints |-> SatSub(AtOrAbove(c, fp, minimum), AtOrAbove(b, fp, minimum))]

Reaching(fp, minimum) == {d \in Of(fp) : Severity[d] >= minimum}

(* How many of a fingerprint a report has from a severity on, as a sum     *)
(* over contents.                                                          *)
LEMMA AtOrAboveFacts ==
  ASSUME NEW r \in Report, NEW fp, NEW minimum
  PROVE  /\ AtOrAbove(r, fp, minimum) = SumOver(r, Reaching(fp, minimum))
         /\ AtOrAbove(r, fp, minimum) \in Nat
         /\ Reaching(fp, minimum) \in SUBSET Contents /\ IsFiniteSet(Reaching(fp, minimum))
<1> DEFINE T == Reaching(fp, minimum)
<1>1. AtOrAbove(r, fp, minimum) = SumOver(r, T)
  BY DEF AtOrAbove, SumOver, Reaching
<1>2. T \in SUBSET Contents
  BY OfFacts DEF Reaching
<1> HIDE DEF T
<1>3. IsFiniteSet(Contents) /\ \A d \in Contents : r[d] \in Nat
  BY ObservationAssumption DEF Report
<1>4. SumOver(r, T) \in Nat
  BY <1>2, <1>3, SumFacts
<1>5. IsFiniteSet(T)
  BY <1>2, <1>3, FS_Subset
<1> QED
  BY <1>1, <1>2, <1>4, <1>5 DEF T

(* The numbers a policy is judged by, by the two reports.                  *)
LEMMA DeltaCounts ==
  ASSUME NEW b \in Report, NEW c \in Report, NEW delta, Says(delta, b, c)
  PROVE  /\ \A d \in Contents : /\ Among(BaselineDigests(delta), {d}) = b[d]
                                /\ Among(CandidateDigests(delta), {d}) = c[d]
         /\ Len(BaselineDigests(delta)) = Diagnostics(b)
         /\ Len(CandidateDigests(delta)) = Diagnostics(c)
         /\ \A fp, minimum :
              /\ Among(BaselineDigests(delta), Reaching(fp, minimum)) = AtOrAbove(b, fp, minimum)
              /\ Among(CandidateDigests(delta), Reaching(fp, minimum)) = AtOrAbove(c, fp, minimum)
         /\ \A minimum : IntroducedAtOrAbove(delta, minimum) =
                           SumOver(Excess(b, c, minimum), Fingerprints)
<1> DEFINE s == BaselineDigests(delta)
           t == CandidateDigests(delta)
<1>1. delta \in Deltas /\ \A d \in Contents : Before(delta, {d}) = b[d] /\ After(delta, {d}) = c[d]
  BY DEF Says
<1>2. s \in Seq(Contents) /\ t \in Seq(Contents)
  BY <1>1, DigestsFacts
<1>3. \A d \in Contents : Among(s, {d}) = b[d] /\ Among(t, {d}) = c[d]
  BY <1>1, DigestsFacts
<1> HIDE DEF s, t
<1>4. \A T \in SUBSET Contents : IsFiniteSet(T) => Among(s, T) = SumOver(b, T) /\ Among(t, T) = SumOver(c, T)
  <2> SUFFICES ASSUME NEW T \in SUBSET Contents, IsFiniteSet(T)
               PROVE  Among(s, T) = SumOver(b, T) /\ Among(t, T) = SumOver(c, T)
    OBVIOUS
  <2>1. /\ \A d \in T : b[d] = Among(s, {d})
        /\ \A d \in T : c[d] = Among(t, {d})
    BY <1>3
  <2>2. Among(s, T) = SumOver(b, T)
    BY <1>2, <2>1, AmongSum
  <2>3. Among(t, T) = SumOver(c, T)
    BY <1>2, <2>1, AmongSum
  <2> QED
    BY <2>2, <2>3
<1>5. Len(s) = Diagnostics(b) /\ Len(t) = Diagnostics(c)
  <2>1. Among(s, Contents) = Len(s) /\ Among(t, Contents) = Len(t)
    <3>1. /\ \A k \in DOMAIN s : s[k] \in Contents
          /\ \A k \in DOMAIN t : t[k] \in Contents
      BY <1>2
    <3>2. Among(s, Contents) = Len(s)
      BY <1>2, <3>1, AmongFacts
    <3>3. Among(t, Contents) = Len(t)
      BY <1>2, <3>1, AmongFacts
    <3> QED
      BY <3>2, <3>3
  <2>2. Diagnostics(b) = SumOver(b, Contents) /\ Diagnostics(c) = SumOver(c, Contents)
    BY DEF Diagnostics, SumOver
  <2>3. Contents \in SUBSET Contents /\ IsFiniteSet(Contents)
    BY ObservationAssumption
  <2> QED
    BY <1>4, <2>1, <2>2, <2>3
<1>6. ASSUME NEW fp, NEW minimum
      PROVE  /\ Among(s, Reaching(fp, minimum)) = AtOrAbove(b, fp, minimum)
             /\ Among(t, Reaching(fp, minimum)) = AtOrAbove(c, fp, minimum)
  <2> DEFINE T == Reaching(fp, minimum)
  <2>1. /\ T \in SUBSET Contents /\ IsFiniteSet(T)
        /\ AtOrAbove(b, fp, minimum) = SumOver(b, T)
        /\ AtOrAbove(c, fp, minimum) = SumOver(c, T)
    BY AtOrAboveFacts
  <2> HIDE DEF T
  <2> QED
    BY <1>4, <2>1 DEF T
<1>7. ASSUME NEW minimum
      PROVE  IntroducedAtOrAbove(delta, minimum) = SumOver(Excess(b, c, minimum), Fingerprints)
  <2> DEFINE Reach(digests, fp) ==
               Cardinality({k \in DOMAIN digests : Fingerprint[digests[k]] = fp
                                                     /\ Severity[digests[k]] >= minimum})
             excess == [fp \in Fingerprints |-> SatSub(Reach(t, fp), Reach(s, fp))]
  <2>1. \A u \in Seq(Contents) : \A fp : Reach(u, fp) = Among(u, Reaching(fp, minimum))
    <3> SUFFICES ASSUME NEW u \in Seq(Contents), NEW fp
                 PROVE  Reach(u, fp) = Among(u, Reaching(fp, minimum))
      OBVIOUS
    <3>1. \A k \in DOMAIN u : u[k] \in Contents
      OBVIOUS
    <3>2. \A k \in DOMAIN u : (Fingerprint[u[k]] = fp /\ Severity[u[k]] >= minimum)
                                <=> u[k] \in Reaching(fp, minimum)
      BY <3>1 DEF Reaching, Of
    <3>3. {k \in DOMAIN u : Fingerprint[u[k]] = fp /\ Severity[u[k]] >= minimum}
            = {k \in DOMAIN u : u[k] \in Reaching(fp, minimum)}
      BY <3>2
    <3> QED
      BY <3>3 DEF Among
  <2>2. IntroducedAtOrAbove(delta, minimum) = SumOver(excess, Fingerprints)
    BY DEF IntroducedAtOrAbove, CountWhere, SumOver, s, t
  <2> HIDE DEF Reach
  <2>3. \A fp : Reach(t, fp) = AtOrAbove(c, fp, minimum) /\ Reach(s, fp) = AtOrAbove(b, fp, minimum)
    BY <1>2, <1>6, <2>1
  <2>4. excess = Excess(b, c, minimum)
    BY <2>3 DEF Excess
  <2> QED
    BY <2>2, <2>4
<1> QED
  BY <1>3, <1>5, <1>6, <1>7 DEF s, t

Tallies == [persisting : Nat, changed : Nat, resolved : Nat, new : Nat,
            increases : Nat, introduced : Nat]

NoTally == [persisting |-> 0, changed |-> 0, resolved |-> 0, new |-> 0,
            increases |-> 0, introduced |-> 0]

Added(sum, counts) ==
  [persisting |-> sum.persisting + counts.persisting,
   changed    |-> sum.changed + counts.changed,
   resolved   |-> sum.resolved + counts.resolved,
   new        |-> sum.new + counts.new,
   increases  |-> sum.increases + counts.increases,
   introduced |-> sum.introduced + counts.introduced]

(* What a tally of the history says of the entries of a delta.             *)
Tells(sum, delta) ==
  /\ sum.persisting = Len(delta.persisting) /\ sum.changed = Len(delta.changed)
  /\ sum.resolved = Len(delta.resolved) /\ sum.new = Len(delta.new)
  /\ sum.increases = Among(delta.changed, Rises)

(* What the history counts of a fingerprint is what its bucket of the      *)
(* delta has.                                                              *)
LEMMA CompareFacts ==
  ASSUME Ordered, NEW b \in Report, NEW c \in Report, NEW fp \in Fingerprints
  PROVE  LET counts == CompareObservations(b, c, fp)
         IN  /\ counts \in Tallies
             /\ Tells(counts, Bucket(b, c, fp))
             /\ counts.introduced = Excess(b, c, Error)[fp]
<1> DEFINE shared == Shared(b, c)
           left   == ByDigest(Without(b, shared), fp)
           right  == ByDigest(Without(c, shared), fp)
           m      == Min({Len(left), Len(right)})
           pairs  == [k \in 1..m |-> <<left[k], right[k]>>]
           bucket == Bucket(b, c, fp)
           both   == ByDigest(shared, fp)
           counts == CompareObservations(b, c, fp)
<1>1. shared \in Report
  BY SharedFacts
<1>2. Instances(shared, fp) = Len(both) /\ Len(both) \in Nat
  BY <1>1, ListLength
<1>3. /\ m \in Nat /\ m <= Len(left) /\ m <= Len(right)
      /\ left \in Seq(Of(fp)) /\ right \in Seq(Of(fp))
      /\ bucket \in Deltas
      /\ bucket = [persisting |-> both, changed |-> pairs,
                   resolved |-> SubSeq(left, m + 1, Len(left)),
                   new |-> SubSeq(right, m + 1, Len(right))]
  BY BucketFacts
<1>4. counts = [persisting |-> Instances(shared, fp), changed |-> m,
                resolved |-> Len(left) - m, new |-> Len(right) - m,
                increases |-> Cardinality({k \in 1..m : Severity[right[k]] > Severity[left[k]]}),
                introduced |-> SatSub(AtOrAbove(c, fp, Error), AtOrAbove(b, fp, Error))]
  BY DEF CompareObservations
<1> HIDE DEF shared, left, right, m, both, bucket, counts
<1>5. /\ Len(SubSeq(left, m + 1, Len(left))) = Len(left) - m
      /\ Len(SubSeq(right, m + 1, Len(right))) = Len(right) - m
  BY <1>3, CutFacts
<1>6. Len(pairs) = m /\ DOMAIN pairs = 1..m /\ pairs \in Seq(Contents \X Contents)
  <2>1. Len(pairs) = m /\ DOMAIN pairs = 1..m
    BY <1>3
  <2>2. bucket.changed = pairs
    BY <1>3
  <2> HIDE DEF pairs
  <2> QED
    BY <1>3, <2>1, <2>2 DEF Deltas
<1>7. {k \in 1..m : Severity[right[k]] > Severity[left[k]]} = {k \in DOMAIN pairs : pairs[k] \in Rises}
  <2>1. \A k \in 1..m : pairs[k] \in Rises <=> Severity[right[k]] > Severity[left[k]]
    <3> TAKE k \in 1..m
    <3>1. pairs[k] = <<left[k], right[k]>>
      OBVIOUS
    <3>2. pairs[k] \in Contents \X Contents
      <4> HIDE DEF pairs
      <4>1. k \in DOMAIN pairs
        BY <1>6
      <4> QED
        BY <1>6, <4>1
    <3> HIDE DEF pairs
    <3> QED
      BY <3>1, <3>2 DEF Rises, IsSeverityIncrease
  <2> HIDE DEF pairs
  <2> QED
    BY <1>6, <2>1
<1>8. Among(pairs, Rises) \in Nat
  BY <1>6, AmongFacts
<1> HIDE DEF pairs
<1>9. /\ bucket.persisting = both /\ bucket.changed = pairs
      /\ Len(bucket.resolved) = Len(left) - m /\ Len(bucket.new) = Len(right) - m
  BY <1>3, <1>5
<1>10. /\ counts.persisting = Len(both) /\ counts.changed = m
       /\ counts.resolved = Len(left) - m /\ counts.new = Len(right) - m
       /\ counts.increases = Among(pairs, Rises)
       /\ counts.introduced = SatSub(AtOrAbove(c, fp, Error), AtOrAbove(b, fp, Error))
  BY <1>2, <1>4, <1>7 DEF Among
<1>11. Tells(counts, bucket)
  BY <1>6, <1>9, <1>10 DEF Tells
<1>12. counts.introduced = Excess(b, c, Error)[fp]
  BY <1>10 DEF Excess
<1>13. counts \in Tallies
  <2>1. Len(left) - m \in Nat /\ Len(right) - m \in Nat
    BY <1>3
  <2>2. counts.introduced \in Nat
    <3>1. AtOrAbove(c, fp, Error) \in Nat /\ AtOrAbove(b, fp, Error) \in Nat
      BY AtOrAboveFacts
    <3> QED
      BY <1>10, <3>1 DEF SatSub
  <2> QED
    BY <1>2, <1>3, <1>4, <1>8, <1>10, <2>1, <2>2 DEF Tallies
<1> QED
  BY <1>11, <1>12, <1>13 DEF counts, bucket

(* The history's comparison adds them up.                                  *)
Adds(h, b, c) ==
  LET n == Cardinality(Fingerprints)
  IN  /\ h[0] = NoTally
      /\ \A k \in 0..(n - 1) : h[k + 1] = Added(h[k], CompareObservations(b, c, Classes[k + 1]))

(* The comparison of two runs adds up the tallies of the fingerprints, one *)
(* after another.                                                          *)
LEMMA RunsFold ==
  ASSUME Ordered, NEW b \in Report, NEW c \in Report
  PROVE  \E h : Adds(h, b, c) /\ CompareRuns(b, c) = h[Cardinality(Fingerprints)]
<1> DEFINE n == Cardinality(Fingerprints)
           Next1(a, k) == Added(a, CompareObservations(b, c, Classes[k]))
           G == [p \in (1..n) \X Tallies |-> Next1(p[2], p[1])]
           Fold(f) == f = [t \in SUBSET DOMAIN Classes |->
                             IF t = {} THEN NoTally ELSE Next1(f[t \ {Max(t)}], Max(t))]
           chosen == CHOOSE f : Fold(f)
<1>1. n \in Nat /\ DOMAIN Classes = 1..n /\ NoTally \in Tallies
  BY ClassesFacts DEF Tallies, NoTally
<1>2. CompareRuns(b, c) = chosen[DOMAIN Classes]
  BY Zenon DEF CompareRuns, FoldLeft, MapThenFoldSet, Added, NoTally, Classes
<1>3. \A k \in 1..n, a \in Tallies : G[<<k, a>>] = Next1(a, k)
  OBVIOUS
<1>4. \A k \in 1..n, a \in Tallies : Next1(a, k) \in Tallies
  <2> TAKE k \in 1..n, a \in Tallies
  <2>1. Classes[k] \in Fingerprints
    BY ClassesFacts
  <2>2. CompareObservations(b, c, Classes[k]) \in Tallies
    BY <2>1, CompareFacts
  <2> QED
    BY <2>2 DEF Tallies, Added
<1> HIDE DEF G, n, Next1
<1>5. PICK f \in [SUBSET (1..n) -> Tallies] : Folds(f, n, NoTally, G)
  <2>1. \A k \in 1..n, a \in Tallies : G[<<k, a>>] \in Tallies
    BY <1>3, <1>4
  <2> QED
    BY <1>1, <2>1, FoldExists
<1>6. Fold(f)
  <2>1. ASSUME NEW t \in SUBSET (1..n), t # {}
        PROVE  G[<<Max(t), f[t \ {Max(t)}]>>] = Next1(f[t \ {Max(t)}], Max(t))
    <3>1. Max(t) \in t
      <4>1. IsFiniteSet(1..n) /\ t \subseteq 1..n /\ t \subseteq Int
        BY <1>1, FS_Interval
      <4> QED
        BY <2>1, <4>1, FS_Subset, Extremes
    <3>2. f[t \ {Max(t)}] \in Tallies /\ Max(t) \in 1..n
      BY <3>1
    <3> QED
      BY <1>3, <3>2
  <2>2. \A t \in SUBSET (1..n) :
          (IF t = {} THEN NoTally ELSE G[<<Max(t), f[t \ {Max(t)}]>>])
            = IF t = {} THEN NoTally ELSE Next1(f[t \ {Max(t)}], Max(t))
    BY <2>1
  <2>3. f = [t \in SUBSET (1..n) |-> IF t = {} THEN NoTally ELSE G[<<Max(t), f[t \ {Max(t)}]>>]]
    BY <1>5 DEF Folds
  <2>4. f = [t \in SUBSET (1..n) |-> IF t = {} THEN NoTally ELSE Next1(f[t \ {Max(t)}], Max(t))]
    BY <2>2, <2>3
  <2> QED
    BY <1>1, <2>4
<1>7. Fold(chosen)
  <2> HIDE DEF Fold
  <2> QED
    BY <1>6
<1> HIDE DEF chosen
<1> DEFINE h == [k \in 0..n |-> chosen[1..k]]
<1>8. \A k \in 0..n : h[k] = chosen[1..k]
  OBVIOUS
<1> HIDE DEF h
<1>9. h[0] = NoTally
  <2>1. 0 \in 0..n /\ 1..0 = {}
    BY <1>1, InitialSegments
  <2>2. chosen[{}] = NoTally
    BY <1>7
  <2> QED
    BY <1>8, <2>1, <2>2
<1>10. ASSUME NEW k \in 0..(n - 1)
       PROVE  h[k + 1] = Next1(h[k], k + 1)
  <2>1. k \in Nat /\ k \in 0..n /\ k + 1 \in 0..n
    BY <1>1
  <2> DEFINE t == 1..(k + 1)
  <2>2. t \in SUBSET DOMAIN Classes
    BY <1>1
  <2>3. t # {} /\ Max(t) = k + 1 /\ t \ {k + 1} = 1..k
    BY <2>1, InitialSegments
  <2> HIDE DEF t
  <2>4. chosen[t] = Next1(chosen[t \ {Max(t)}], Max(t))
    BY <1>7, <2>2, <2>3
  <2> QED
    BY <1>8, <2>1, <2>3, <2>4 DEF t
<1>11. Adds(h, b, c)
  BY <1>9, <1>10 DEF Adds, n, Next1
<1>12. CompareRuns(b, c) = h[n]
  BY <1>1, <1>2, <1>8
<1> QED
  BY <1>11, <1>12 DEF n

(* The history's counts of two runs are the delta's, and what it calls     *)
(* introduced is the sum over the fingerprints of what each has more of.   *)
LEMMA TalliesAgree ==
  ASSUME Ordered, NEW b \in Report, NEW c \in Report
  PROVE  /\ Tells(CompareRuns(b, c), Between(b, c))
         /\ CompareRuns(b, c).introduced = SumOver(Excess(b, c, Error), Fingerprints)
<1> DEFINE n == Cardinality(Fingerprints)
           g == Excess(b, c, Error)
           Met(k) == {Classes[i] : i \in 1..k}
<1>1. PICK h : Builds(h, b, c) /\ Between(b, c) = h[n]
  BY BetweenFolds
<1>2. PICK s : Adds(s, b, c) /\ CompareRuns(b, c) = s[n]
  BY RunsFold
<1>3. /\ n \in Nat /\ IsFiniteSet(Fingerprints)
      /\ \A i \in 1..n : Classes[i] \in Fingerprints
      /\ \A i, j \in 1..n : Classes[i] = Classes[j] => i = j
      /\ \A fp \in Fingerprints : \E k \in 1..n : Classes[k] = fp
  BY ClassesFacts
<1>4. \A fp \in Fingerprints : g[fp] \in Nat
  <2> TAKE fp \in Fingerprints
  <2>1. AtOrAbove(c, fp, Error) \in Nat /\ AtOrAbove(b, fp, Error) \in Nat
    BY AtOrAboveFacts
  <2> QED
    BY <2>1 DEF Excess, SatSub
<1> HIDE DEF g
<1> DEFINE Upto(k) == /\ h[k] \in Deltas /\ s[k] \in Tallies /\ Tells(s[k], h[k])
                      /\ s[k].introduced = SumOver(g, Met(k))
           S == {k \in Nat : k <= n => Upto(k)}
<1>5. 0 \in S
  <2>1. h[0] = NoEntries /\ s[0] = NoTally
    BY <1>1, <1>2 DEF Builds, Adds
  <2>2. Among(<<>>, Rises) = 0
    <3>1. {j \in DOMAIN <<>> : <<>>[j] \in Rises} = {}
      OBVIOUS
    <3> QED
      BY <3>1, FS_EmptySet DEF Among
  <2>3. NoEntries \in Deltas /\ NoTally \in Tallies /\ Tells(NoTally, NoEntries)
    BY <2>2 DEF NoEntries, Deltas, NoTally, Tallies, Tells
  <2>4. SumOver(g, {}) = 0
    BY <1>3, <1>4, SumFacts
  <2>5. Met(0) = {} /\ NoTally.introduced = 0
    BY DEF NoTally
  <2>6. Upto(0)
    <3> HIDE DEF Met
    <3> QED
      BY <2>1, <2>3, <2>4, <2>5
  <2> HIDE DEF Upto
  <2> QED
    BY <2>6
<1>6. ASSUME NEW k \in Nat, k \in S
      PROVE  k + 1 \in S
  <2> SUFFICES ASSUME k + 1 <= n
               PROVE  Upto(k + 1)
    OBVIOUS
  <2> DEFINE fp == Classes[k + 1]
             bucket == Bucket(b, c, fp)
             counts == CompareObservations(b, c, fp)
             x == h[k]
             y == s[k]
  <2>1. k \in 0..(n - 1) /\ k <= n /\ k + 1 \in 1..n
    BY <1>3
  <2>2. h[k + 1] = Joined(x, bucket) /\ s[k + 1] = Added(y, counts)
    BY <1>1, <1>2, <2>1 DEF Builds, Adds
  <2>3. Upto(k)
    BY <1>6, <2>1
  <2>4. fp \in Fingerprints
    BY <1>3, <2>1
  <2>5. counts \in Tallies /\ Tells(counts, bucket) /\ counts.introduced = g[fp] /\ bucket \in Deltas
    <3> HIDE DEF fp
    <3> QED
      BY <2>4, CompareFacts, BucketFacts DEF g
  <2>6. x \in Deltas /\ y \in Tallies /\ Tells(y, x) /\ y.introduced = SumOver(g, Met(k))
    BY <2>3
  <2> HIDE DEF x, y, bucket, counts
  <2>7. Joined(x, bucket) \in Deltas /\ Added(y, counts) \in Tallies
    <3>1. Joined(x, bucket) \in Deltas
      BY <2>5, <2>6, JoinedFacts
    <3>2. Added(y, counts) \in Tallies
      BY <2>5, <2>6 DEF Tallies, Added
    <3> QED
      BY <3>1, <3>2
  <2>8. Tells(Added(y, counts), Joined(x, bucket))
    <3>1. \A A : \A u, v \in Seq(A) : Len(u \o v) = Len(u) + Len(v)
      OBVIOUS
    <3>2. /\ Len(x.persisting \o bucket.persisting) = Len(x.persisting) + Len(bucket.persisting)
          /\ Len(x.changed \o bucket.changed) = Len(x.changed) + Len(bucket.changed)
          /\ Len(x.resolved \o bucket.resolved) = Len(x.resolved) + Len(bucket.resolved)
          /\ Len(x.new \o bucket.new) = Len(x.new) + Len(bucket.new)
      BY <2>5, <2>6, <3>1 DEF Deltas
    <3>3. Among(x.changed \o bucket.changed, Rises)
            = Among(x.changed, Rises) + Among(bucket.changed, Rises)
      <4>1. x.changed \in Seq(Contents \X Contents) /\ bucket.changed \in Seq(Contents \X Contents)
        BY <2>5, <2>6 DEF Deltas
      <4> QED
        BY <4>1, AmongConcat
    <3> QED
      BY <2>5, <2>6, <3>2, <3>3 DEF Tells, Added, Joined
  <2>9. y.introduced + counts.introduced = SumOver(g, Met(k + 1))
    <3> DEFINE P == Met(k + 1)
    <3>1. P \in SUBSET Fingerprints /\ fp \in P /\ P \ {fp} = Met(k)
      <4>1. \A i \in 1..k : i \in 1..n /\ i # k + 1
        BY <1>3, <2>1
      <4>2. \A i \in 1..(k + 1) : i \in 1..k \/ i = k + 1
        OBVIOUS
      <4>3. \A i \in 1..k : i \in 1..(k + 1)
        OBVIOUS
      <4>4. k + 1 \in 1..(k + 1) /\ k + 1 \in 1..n
        BY <2>1
      <4>5. P \in SUBSET Fingerprints
        BY <1>3, <4>1, <4>2, <4>4
      <4>6. fp \in P
        BY <4>4
      <4>7. \A e : e \in P \ {fp} <=> e \in Met(k)
        BY <1>3, <4>1, <4>2, <4>3, <4>4
      <4> QED
        BY <4>5, <4>6, <4>7
    <3> HIDE DEF P, Met, fp
    <3>2. SumOver(g, P) = SumOver(g, P \ {fp}) + g[fp]
      BY <1>3, <1>4, <3>1, SumFacts
    <3> QED
      BY <2>5, <2>6, <3>1, <3>2 DEF P
  <2>10. Added(y, counts).introduced = SumOver(g, Met(k + 1))
    <3> HIDE DEF Met
    <3> QED
      BY <2>9 DEF Added
  <2> HIDE DEF Met
  <2> QED
    BY <2>2, <2>7, <2>8, <2>10
<1>7. \A k \in Nat : k \in S
  <2> HIDE DEF S
  <2> QED
    BY <1>5, <1>6, NatInduct
<1>8. Upto(n)
  <2>1. n \in S
    <3> HIDE DEF S
    <3> QED
      BY <1>3, <1>7
  <2> HIDE DEF Upto
  <2> QED
    BY <1>3, <2>1
<1>9. Met(n) = Fingerprints
  BY <1>3
<1> HIDE DEF Met, n
<1> QED
  BY <1>1, <1>2, <1>8, <1>9 DEF g

(* The effect a receipt records is the effect the history gives of the     *)
(* same two reports.                                                       *)
LEMMA EffectsAgree ==
  ASSUME Ordered, NEW b \in Report, NEW c \in Report
  PROVE  EffectFromReceipt(b, c) = EffectFromHistory(b, c)
<1> DEFINE delta == Between(b, c)
           sum == CompareRuns(b, c)
<1>1. Says(delta, b, c)
  BY BetweenFacts
<1>2. Tells(sum, delta) /\ sum.introduced = SumOver(Excess(b, c, Error), Fingerprints)
  BY TalliesAgree
<1> HIDE DEF delta, sum
<1>3. delta \in Deltas
  BY <1>1 DEF Says
<1>4. /\ Len(BaselineDigests(delta)) = Diagnostics(b) /\ Len(CandidateDigests(delta)) = Diagnostics(c)
      /\ IntroducedAtOrAbove(delta, Error) = SumOver(Excess(b, c, Error), Fingerprints)
  BY <1>1, DeltaCounts
<1>5. /\ Len(delta.persisting) \in Nat /\ Len(delta.resolved) \in Nat
      /\ Len(delta.changed) \in Nat /\ Len(delta.new) \in Nat
  BY <1>3 DEF Deltas
<1>6. /\ CountEntries(delta, "resolved") + (CountEntries(delta, "persisting") + CountEntries(delta, "changed"))
           = Diagnostics(b)
      /\ CountEntries(delta, "new") + (CountEntries(delta, "persisting") + CountEntries(delta, "changed"))
           = Diagnostics(c)
  <2>1. /\ Len(BaselineDigests(delta)) =
             Len(delta.persisting) + Len(delta.resolved) + Len(delta.changed)
        /\ Len(CandidateDigests(delta)) =
             Len(delta.persisting) + Len(delta.new) + Len(delta.changed)
    BY <1>3, DigestsFacts
  <2> DEFINE p == Len(delta.persisting)
             r == Len(delta.resolved)
             m == Len(delta.changed)
             n == Len(delta.new)
  <2>2. p \in Nat /\ r \in Nat /\ m \in Nat /\ n \in Nat
    BY <1>5
  <2>3. Diagnostics(b) = p + r + m /\ Diagnostics(c) = p + n + m
    BY <1>4, <2>1
  <2>4. /\ CountEntries(delta, "resolved") = r /\ CountEntries(delta, "new") = n
        /\ CountEntries(delta, "persisting") = p /\ CountEntries(delta, "changed") = m
    BY DEF CountEntries
  <2> HIDE DEF p, r, m, n
  <2> QED
    BY <2>2, <2>3, <2>4
<1>7. SeverityIncreasesAtOrAbove(delta, 0) = Among(delta.changed, Rises)
  <2> DEFINE s == delta.changed
  <2>1. s \in Seq(Contents \X Contents)
    BY <1>3 DEF Deltas
  <2>2. SeverityIncreasesAtOrAbove(delta, 0) =
          Cardinality({k \in DOMAIN s : IsSeverityIncrease(s[k]) /\ Severity[s[k][2]] >= 0})
    BY DEF SeverityIncreasesAtOrAbove, CountWhere
  <2> HIDE DEF s
  <2>3. ASSUME NEW k \in DOMAIN s
        PROVE  IsSeverityIncrease(s[k]) /\ Severity[s[k][2]] >= 0 <=> s[k] \in Rises
    <3>1. s[k] \in Contents \X Contents
      BY <2>1
    <3>2. Severity[s[k][2]] \in 0..5
      BY <3>1, ObservationAssumption
    <3> QED
      BY <3>1, <3>2 DEF Rises
  <2>4. {k \in DOMAIN s : IsSeverityIncrease(s[k]) /\ Severity[s[k][2]] >= 0}
          = {k \in DOMAIN s : s[k] \in Rises}
    BY <2>3
  <2> QED
    BY <2>2, <2>4 DEF Among, s
<1>8. DeltaArtifact(delta, Permissive).counts = ArtifactCounts(delta)
  BY DEF DeltaArtifact
<1>9. /\ ArtifactCounts(delta).baseline_total = Diagnostics(b)
      /\ ArtifactCounts(delta).candidate_total = Diagnostics(c)
  BY <1>6 DEF ArtifactCounts
<1>10. EffectFromReceipt(b, c) =
         [before |-> Diagnostics(b), after |-> Diagnostics(c),
          new |-> Len(delta.new), resolved |-> Len(delta.resolved),
          persisting |-> Len(delta.persisting), changed |-> Len(delta.changed),
          introduced |-> IntroducedAtOrAbove(delta, Error),
          increases |-> SeverityIncreasesAtOrAbove(delta, 0)]
  BY <1>8, <1>9 DEF EffectFromReceipt, delta, CountEntries
<1>11. EffectFromHistory(b, c) =
         [before |-> Diagnostics(b), after |-> Diagnostics(c),
          new |-> sum.new, resolved |-> sum.resolved,
          persisting |-> sum.persisting, changed |-> sum.changed,
          introduced |-> sum.introduced, increases |-> sum.increases]
  BY DEF EffectFromHistory, sum
<1> QED
  BY <1>2, <1>4, <1>7, <1>10, <1>11 DEF Tells

(* A report a build may give counts each content.                          *)
LEMMA ReportsFacts ==
  Reports \subseteq Report
<1> DEFINE s == {0} \cup {Copies[d] : d \in Contents}
<1>1. s # {} /\ s \subseteq Nat
  BY ObservationAssumption
<1>2. IsFiniteSet(s)
  <2> DEFINE t == {Copies[d] : d \in Contents}
             image == [d \in Contents |-> Copies[d]]
  <2>1. image \in [Contents -> t] /\ \A x \in t : \E d \in Contents : image[d] = x
    OBVIOUS
  <2> HIDE DEF image, t
  <2>2. image \in Surjection(Contents, t)
    BY <2>1 DEF Surjection
  <2>3. IsFiniteSet(Contents)
    BY ObservationAssumption
  <2>4. IsFiniteSet(t)
    BY <2>2, <2>3, FS_Surjection
  <2>5. IsFiniteSet({0})
    BY FS_Singleton
  <2>6. IsFiniteSet({0} \cup t)
    BY <2>4, <2>5, FS_Union
  <2> QED
    BY <2>6 DEF t
<1> HIDE DEF s
<1>3. Max(s) \in Nat
  <2>1. s \subseteq Int
    BY <1>1
  <2>2. Max(s) \in s
    BY <1>1, <1>2, <2>1, Extremes
  <2> QED
    BY <1>1, <2>2
<1>4. 0..Max(s) \subseteq Nat
  BY <1>3
<1>5. \A r \in Reports : r \in [Contents -> 0..Max(s)]
  BY DEF Reports, s
<1> HIDE DEF s
<1> QED
  BY <1>4, <1>5 DEF Report

(* What the runs recorded are is invariant: a fixed order of the digests   *)
(* and a sequence of reports.                                              *)
LEMMA RecordsHold ==
  Spec => [](Ordered /\ runs \in Seq(Report))
<1>1. Init => Ordered /\ runs \in Seq(Report)
  BY DEF Init, Ordered
<1>2. ASSUME Ordered /\ runs \in Seq(Report), [Next]_vars
      PROVE  (Ordered /\ runs \in Seq(Report))'
  <2>1. CASE Record
    <3>1. PICK report \in Reports : runs' = Append(runs, report)
      BY <2>1 DEF Record
    <3>2. report \in Report
      BY ReportsFacts
    <3> QED
      BY <1>2, <2>1, <3>1, <3>2 DEF Record, Ordered
  <2>2. CASE UNCHANGED vars
    BY <1>2, <2>2 DEF vars, Ordered
  <2> QED
    BY <1>2, <2>1, <2>2 DEF Next
<1> QED
  BY <1>1, <1>2, PTL DEF Spec

(* The reports compared are reports.                                       *)
LEMMA PastFacts ==
  ASSUME runs \in Seq(Report), NEW b \in Past
  PROVE  b \in Report /\ Last(runs) \in Report
<1>1. PICK k \in DOMAIN runs : b = runs[k]
  BY DEF Past, ToSet
<1>2. Len(runs) \in Nat /\ DOMAIN runs = 1..Len(runs) /\ \A i \in DOMAIN runs : runs[i] \in Report
  OBVIOUS
<1>3. Len(runs) \in DOMAIN runs
  BY <1>1, <1>2
<1> QED
  BY <1>1, <1>2, <1>3 DEF Last

(* DeltaAgreesWithHistory follows from what the state has.                 *)
LEMMA AgreesInOrder ==
  ASSUME Ordered, runs \in Seq(Report)
  PROVE  DeltaAgreesWithHistory
<1> SUFFICES ASSUME NEW b \in Past
             PROVE  EffectFromReceipt(b, Last(runs)) = EffectFromHistory(b, Last(runs))
  BY DEF DeltaAgreesWithHistory
<1> QED
  BY PastFacts, EffectsAgree

(* A policy that passes.                                                   *)
LEMMA PassesFacts ==
  ASSUME NEW policy, NEW delta
  PROVE  Passes(policy, delta) <=> \A rule \in {"any", "new", "introduced", "increase"} :
                                      Count(policy, delta)[rule] = 0
<1>1. DOMAIN Permissive = {"any", "new", "introduced", "increase"}
  BY DEF Permissive
<1> QED
  BY <1>1 DEF Passes, Evaluate

(* A rule that is off counts nothing.                                      *)
LEMMA OffCountsNothing ==
  ASSUME NEW b \in Report, NEW c \in Report, NEW delta, Says(delta, b, c)
  PROVE  /\ CountNewAtOrAbove(delta, Off) = 0
         /\ SeverityIncreasesAtOrAbove(delta, Off) = 0
         /\ IntroducedAtOrAbove(delta, Off) = 0
<1> DEFINE s == delta.new
           t == delta.changed
<1>1. s \in Seq(Contents) /\ t \in Seq(Contents \X Contents)
  BY DEF Says, Deltas
<1>2. CountNewAtOrAbove(delta, Off) = Cardinality({k \in DOMAIN s : Severity[s[k]] >= Off})
  BY DEF CountNewAtOrAbove, CountWhere
<1>3. SeverityIncreasesAtOrAbove(delta, Off) =
        Cardinality({k \in DOMAIN t : IsSeverityIncrease(t[k]) /\ Severity[t[k][2]] >= Off})
  BY DEF SeverityIncreasesAtOrAbove, CountWhere
<1> HIDE DEF s, t
<1>4. \A d \in Contents : ~(Severity[d] >= Off)
  BY ObservationAssumption DEF Off
<1>5. {k \in DOMAIN s : Severity[s[k]] >= Off} = {}
  BY <1>1, <1>4
<1>6. {k \in DOMAIN t : IsSeverityIncrease(t[k]) /\ Severity[t[k][2]] >= Off} = {}
  <2>1. \A k \in DOMAIN t : t[k] \in Contents \X Contents
    BY <1>1
  <2>2. \A k \in DOMAIN t : t[k][2] \in Contents
    BY <2>1
  <2> QED
    BY <1>4, <2>2
<1>7. IntroducedAtOrAbove(delta, Off) = 0
  <2> DEFINE g == Excess(b, c, Off)
  <2>1. IntroducedAtOrAbove(delta, Off) = SumOver(g, Fingerprints)
    BY DeltaCounts
  <2>2. \A fp : Reaching(fp, Off) = {}
    BY <1>4 DEF Reaching, Of
  <2>3. \A fp : AtOrAbove(b, fp, Off) = 0 /\ AtOrAbove(c, fp, Off) = 0
    <3> TAKE fp
    <3>1. AtOrAbove(b, fp, Off) = SumOver(b, {}) /\ AtOrAbove(c, fp, Off) = SumOver(c, {})
      BY <2>2, AtOrAboveFacts
    <3>2. IsFiniteSet(Contents) /\ \A d \in Contents : b[d] \in Nat /\ c[d] \in Nat
      BY ObservationAssumption DEF Report
    <3>3. SumOver(b, {}) = 0
      BY <3>2, SumFacts
    <3>4. SumOver(c, {}) = 0
      BY <3>2, SumFacts
    <3> QED
      BY <3>1, <3>3, <3>4
  <2>4. \A fp \in Fingerprints : g[fp] = 0
    BY <2>3 DEF Excess, SatSub
  <2>5. IsFiniteSet(Fingerprints)
    BY ClassesFacts
  <2> HIDE DEF g
  <2>6. SumOver(g, Fingerprints) = 0
    BY <2>4, <2>5, SumsCompare
  <2> QED
    BY <2>1, <2>6
<1> QED
  BY <1>2, <1>3, <1>5, <1>6, <1>7, FS_EmptySet

(* Comparing the other way round, and what is lost.                        *)
LEMMA LosesNothing ==
  ASSUME Ordered, runs \in Seq(Report)
  PROVE  DeltaLosesNothing
<1> SUFFICES ASSUME NEW b \in Past
             PROVE  LET c     == Last(runs)
                        there == Between(b, c)
                        back  == Between(c, b)
                        artifact == DeltaArtifact(there, [Permissive EXCEPT !.any = TRUE])
                        Holds(side, d) == CountWhere(side, LAMBDA e : e = d)
                    IN  /\ \A d \in Contents : /\ Holds(artifact.baseline, d) = b[d]
                                              /\ Holds(artifact.candidate, d) = c[d]
                        /\ artifact.counts.baseline_total = Diagnostics(b)
                        /\ artifact.counts.candidate_total = Diagnostics(c)
                        /\ (artifact.counts.differences = 0) <=> (b = c)
                        /\ (artifact.evaluation.exit_code = 0) <=> (b = c)
                        /\ there.persisting = back.persisting
                        /\ there.new = back.resolved
                        /\ there.resolved = back.new
                        /\ there.changed = [k \in DOMAIN back.changed |->
                                              <<back.changed[k][2], back.changed[k][1]>>]
  BY DEF DeltaLosesNothing
<1> DEFINE c == Last(runs)
           there == Between(b, c)
           back == Between(c, b)
           any == [Permissive EXCEPT !.any = TRUE]
           artifact == DeltaArtifact(there, any)
           Holds(side, d) == CountWhere(side, LAMBDA e : e = d)
<1>1. b \in Report /\ c \in Report
  BY PastFacts
<1> HIDE DEF c
<1>2. Says(there, b, c) /\ TurnedOf(there, back)
  BY <1>1, BetweenFacts, BetweenTurns
<1> HIDE DEF there, back
<1>3. there \in Deltas
  BY <1>2 DEF Says
<1>4. /\ \A d \in Contents : /\ Among(BaselineDigests(there), {d}) = b[d]
                              /\ Among(CandidateDigests(there), {d}) = c[d]
      /\ Len(BaselineDigests(there)) = Diagnostics(b)
      /\ Len(CandidateDigests(there)) = Diagnostics(c)
  BY <1>1, <1>2, DeltaCounts
<1>5. /\ BaselineDigests(there) \in Seq(Contents) /\ CandidateDigests(there) \in Seq(Contents)
      /\ Len(BaselineDigests(there)) =
           Len(there.persisting) + Len(there.resolved) + Len(there.changed)
      /\ Len(CandidateDigests(there)) =
           Len(there.persisting) + Len(there.new) + Len(there.changed)
  BY <1>3, DigestsFacts
<1>6. /\ Len(there.persisting) \in Nat /\ Len(there.resolved) \in Nat
      /\ Len(there.changed) \in Nat /\ Len(there.new) \in Nat
  BY <1>3 DEF Deltas
<1>7. /\ artifact.baseline = BaselineDigests(there) /\ artifact.candidate = CandidateDigests(there)
      /\ artifact.counts = ArtifactCounts(there)
      /\ artifact.evaluation.exit_code = IF Passes(any, there) THEN 0 ELSE 1
  BY DEF DeltaArtifact, ArtifactEvaluation
<1> HIDE DEF artifact
<1>8. /\ artifact.counts.baseline_total = Diagnostics(b)
      /\ artifact.counts.candidate_total = Diagnostics(c)
      /\ artifact.counts.differences = Differences(there)
  <2> DEFINE p == Len(there.persisting)
             r == Len(there.resolved)
             m == Len(there.changed)
             n == Len(there.new)
  <2>1. p \in Nat /\ r \in Nat /\ m \in Nat /\ n \in Nat
    BY <1>6
  <2>2. Diagnostics(b) = p + r + m /\ Diagnostics(c) = p + n + m
    BY <1>4, <1>5
  <2>3. artifact.counts = [baseline_total |-> r + (p + m), candidate_total |-> n + (p + m),
                           differences |-> Differences(there)]
    BY <1>7 DEF ArtifactCounts, CountEntries
  <2> HIDE DEF p, r, m, n
  <2>4. Diagnostics(b) = r + (p + m) /\ Diagnostics(c) = n + (p + m)
    BY <2>1, <2>2
  <2> QED
    BY <2>3, <2>4
<1>9. Differences(there) = Len(there.new) + Len(there.resolved) + Len(there.changed)
  BY DEF Differences, CountEntries
<1>10. \A s, d : Holds(s, d) = Among(s, {d})
  <2> TAKE s, d
  <2>1. Holds(s, d) = Cardinality({k \in DOMAIN s : s[k] = d})
    BY DEF CountWhere
  <2>2. {k \in DOMAIN s : s[k] = d} = {k \in DOMAIN s : s[k] \in {d}}
    OBVIOUS
  <2> QED
    BY <2>1, <2>2 DEF Among
<1>11. Differences(there) = 0 <=> b = c
  <2>1. ASSUME b = c
        PROVE  Differences(there) = 0
    <3>1. NoDifference(there)
      BY <1>2, <2>1 DEF Says
    <3>2. Len(<<>>) = 0
      OBVIOUS
    <3> QED
      BY <1>9, <3>1, <3>2 DEF NoDifference
  <2>2. ASSUME Differences(there) = 0
        PROVE  b = c
    <3>1. Len(there.new) = 0 /\ Len(there.resolved) = 0 /\ Len(there.changed) = 0
      <4> DEFINE r == Len(there.resolved)
                 m == Len(there.changed)
                 n == Len(there.new)
      <4>1. r \in Nat /\ m \in Nat /\ n \in Nat /\ n + r + m = 0
        BY <1>6, <1>9, <2>2
      <4> HIDE DEF r, m, n
      <4>2. n = 0 /\ r = 0 /\ m = 0
        BY <4>1
      <4> QED
        BY <4>2 DEF n, r, m
    <3>2. \A A : \A s \in Seq(A) : Len(s) = 0 => s = <<>>
      OBVIOUS
    <3>3. there.new = <<>> /\ there.resolved = <<>>
      BY <1>3, <3>1, <3>2 DEF Deltas
    <3>4. there.changed = <<>>
      BY <1>3, <3>1, <3>2 DEF Deltas
    <3>5. BaselineDigests(there) = CandidateDigests(there)
      <4> DEFINE firsts == [k \in DOMAIN there.changed |-> there.changed[k][1]]
                 seconds == [k \in DOMAIN there.changed |-> there.changed[k][2]]
      <4>1. firsts = <<>> /\ seconds = <<>>
        BY <3>4
      <4> HIDE DEF firsts, seconds
      <4>2. /\ BaselineDigests(there) = there.persisting \o there.resolved \o firsts
            /\ CandidateDigests(there) = there.persisting \o there.new \o seconds
        BY DEF BaselineDigests, CandidateDigests, firsts, seconds
      <4> QED
        BY <3>3, <4>1, <4>2
    <3>6. \A d \in Contents : b[d] = c[d]
      BY <1>4, <3>5
    <3> QED
      BY <1>1, <3>6 DEF Report
  <2> QED
    BY <2>1, <2>2
<1>12. Passes(any, there) <=> Differences(there) = 0
  <2>1. /\ any.any = TRUE /\ any.new = Off /\ any.introduced = Off /\ any.increase = Off
    BY DEF Permissive
  <2> HIDE DEF any
  <2>2. /\ CountNewAtOrAbove(there, Off) = 0
        /\ SeverityIncreasesAtOrAbove(there, Off) = 0
        /\ IntroducedAtOrAbove(there, Off) = 0
    BY <1>1, <1>2, OffCountsNothing
  <2>3. Count(any, there) = [any |-> Differences(there), new |-> 0, introduced |-> 0, increase |-> 0]
    BY <2>1, <2>2 DEF Count
  <2>4. Passes(any, there) <=> \A rule \in {"any", "new", "introduced", "increase"} :
                                 Count(any, there)[rule] = 0
    BY PassesFacts
  <2> QED
    BY <2>3, <2>4
<1>13. artifact.evaluation.exit_code = 0 <=> b = c
  BY <1>7, <1>11, <1>12
<1>14. \A d \in Contents : /\ Holds(artifact.baseline, d) = b[d]
                           /\ Holds(artifact.candidate, d) = c[d]
  BY <1>4, <1>7, <1>10
<1> HIDE DEF Holds
<1> QED
  BY <1>2, <1>8, <1>11, <1>13, <1>14 DEF TurnedOf, Turned, there, back, artifact, Holds, c

(* When none is counted, no place has one.                                 *)
LEMMA CountsNone ==
  ASSUME NEW A, NEW s \in Seq(A), NEW T, Cardinality({k \in DOMAIN s : s[k] \in T}) = 0
  PROVE  \A k \in DOMAIN s : s[k] \notin T
<1>1. Among(s, T) = 0
  BY DEF Among
<1> QED
  BY <1>1, AmongFacts

(* Nothing new, and nothing raised, from a severity on.                    *)
LEMMA NoGrowth ==
  ASSUME NEW b \in Report, NEW c \in Report, NEW delta, Says(delta, b, c), NEW from \in 0..5,
         CountNewAtOrAbove(delta, from) = 0, SeverityIncreasesAtOrAbove(delta, from) = 0
  PROVE  \A fp, minimum : minimum \in from..5 => AtOrAbove(c, fp, minimum) <= AtOrAbove(b, fp, minimum)
<1> DEFINE s == delta.new
           t == delta.changed
           p == delta.persisting
           r == delta.resolved
           high == {d \in Contents : Severity[d] >= from}
           raised == {pair \in Contents \X Contents : IsSeverityIncrease(pair) /\ Severity[pair[2]] >= from}
<1>1. /\ s \in Seq(Contents) /\ t \in Seq(Contents \X Contents)
      /\ p \in Seq(Contents) /\ r \in Seq(Contents) /\ SameIdentity(t)
  BY DEF Says, Deltas
<1>2. \A k \in DOMAIN s : s[k] \in Contents
  BY <1>1
<1>3. \A k \in DOMAIN t : t[k] \in Contents \X Contents
  BY <1>1
<1>4. \A k \in DOMAIN s : s[k] \notin high
  <2>1. CountNewAtOrAbove(delta, from) = Cardinality({k \in DOMAIN s : Severity[s[k]] >= from})
    BY DEF CountNewAtOrAbove, CountWhere
  <2>2. {k \in DOMAIN s : Severity[s[k]] >= from} = {k \in DOMAIN s : s[k] \in high}
    BY <1>2
  <2> HIDE DEF s, high
  <2>3. Cardinality({k \in DOMAIN s : s[k] \in high}) = 0
    BY <2>1, <2>2
  <2> QED
    BY <1>1, <2>3, CountsNone
<1>5. \A k \in DOMAIN t : t[k] \notin raised
  <2>1. SeverityIncreasesAtOrAbove(delta, from) =
          Cardinality({k \in DOMAIN t : IsSeverityIncrease(t[k]) /\ Severity[t[k][2]] >= from})
    BY DEF SeverityIncreasesAtOrAbove, CountWhere
  <2>2. {k \in DOMAIN t : IsSeverityIncrease(t[k]) /\ Severity[t[k][2]] >= from}
          = {k \in DOMAIN t : t[k] \in raised}
    BY <1>3
  <2> HIDE DEF t, raised
  <2>3. Cardinality({k \in DOMAIN t : t[k] \in raised}) = 0
    BY <2>1, <2>2
  <2> QED
    BY <1>1, <2>3, CountsNone
<1> SUFFICES ASSUME NEW fp, NEW minimum \in from..5
             PROVE  AtOrAbove(c, fp, minimum) <= AtOrAbove(b, fp, minimum)
  OBVIOUS
<1> DEFINE T == Reaching(fp, minimum)
<1>6. /\ AtOrAbove(b, fp, minimum) = Before(delta, T)
      /\ AtOrAbove(c, fp, minimum) = After(delta, T)
  <2>1. delta \in Deltas
    BY DEF Says
  <2>2. /\ Among(BaselineDigests(delta), T) = AtOrAbove(b, fp, minimum)
        /\ Among(CandidateDigests(delta), T) = AtOrAbove(c, fp, minimum)
    BY DeltaCounts
  <2> HIDE DEF T
  <2>3. /\ Among(BaselineDigests(delta), T) = Before(delta, T)
        /\ Among(CandidateDigests(delta), T) = After(delta, T)
    BY <2>1, DigestsFacts
  <2> QED
    BY <2>2, <2>3
<1>7. \A d \in Contents : Severity[d] \in 0..5
  BY ObservationAssumption
<1>8. \A d \in Contents : d \in T <=> Fingerprint[d] = fp /\ Severity[d] >= minimum
  BY DEF Reaching, Of
<1> HIDE DEF s, t, p, r, T
<1>9. Among(s, T) = 0
  <2>1. \A k \in DOMAIN s : s[k] \notin T
    <3> TAKE k \in DOMAIN s
    <3>1. s[k] \in Contents /\ ~(Severity[s[k]] >= from) /\ Severity[s[k]] \in 0..5
      BY <1>2, <1>4, <1>7
    <3> QED
      BY <1>8, <3>1
  <2> QED
    BY <1>1, <2>1, AmongFacts
<1>10. Among(t, Contents \X T) <= Among(t, T \X Contents)
  <2> DEFINE I == {k \in DOMAIN t : t[k] \in Contents \X T}
             J == {k \in DOMAIN t : t[k] \in T \X Contents}
  <2>1. I \subseteq J
    <3> SUFFICES ASSUME NEW k \in DOMAIN t, t[k] \in Contents \X T
                 PROVE  t[k] \in T \X Contents
      OBVIOUS
    <3> DEFINE x == t[k][1]
               y == t[k][2]
    <3>1. x \in Contents /\ y \in Contents /\ y \in T /\ t[k] = <<x, y>> /\ t[k] \in Contents \X Contents
      BY <1>3
    <3>2. Fingerprint[x] = Fingerprint[y]
      BY <1>1 DEF SameIdentity
    <3>3. t[k] \notin raised
      BY <1>5
    <3>4. IsSeverityIncrease(t[k]) <=> Severity[y] > Severity[x]
      BY DEF IsSeverityIncrease
    <3>5. t[k] \in raised <=> IsSeverityIncrease(t[k]) /\ Severity[y] >= from
      BY <3>1
    <3> HIDE DEF x, y, raised
    <3>6. Severity[x] \in 0..5 /\ Severity[y] \in 0..5
      BY <1>7, <3>1
    <3>7. Severity[y] >= minimum /\ Fingerprint[y] = fp
      BY <1>8, <3>1
    <3>8. ~(Severity[y] > Severity[x])
      BY <3>3, <3>4, <3>5, <3>6, <3>7
    <3>9. Severity[x] >= minimum
      BY <3>6, <3>7, <3>8
    <3>10. x \in T
      BY <1>8, <3>1, <3>2, <3>7, <3>9
    <3> QED
      BY <3>1, <3>10
  <2>2. IsFiniteSet(J)
    <3> DEFINE U == T \X Contents
    <3> HIDE DEF U
    <3>1. IsFiniteSet({k \in DOMAIN t : t[k] \in U})
      BY <1>1, AmongFacts
    <3> QED
      BY <3>1 DEF U
  <2> HIDE DEF I, J
  <2>3. Cardinality(I) <= Cardinality(J)
    BY <2>1, <2>2, FS_Subset
  <2> QED
    BY <2>3 DEF Among, I, J
<1>11. /\ Among(p, T) \in Nat /\ Among(r, T) \in Nat
       /\ Among(t, T \X Contents) \in Nat /\ Among(t, Contents \X T) \in Nat
  <2> DEFINE U == T \X Contents
             V == Contents \X T
  <2> HIDE DEF U, V
  <2>1. Among(p, T) \in Nat /\ Among(r, T) \in Nat /\ Among(t, U) \in Nat /\ Among(t, V) \in Nat
    BY <1>1, AmongFacts
  <2> QED
    BY <2>1 DEF U, V
<1>12. /\ Before(delta, T) = Among(p, T) + Among(r, T) + Among(t, T \X Contents)
       /\ After(delta, T) = Among(p, T) + Among(s, T) + Among(t, Contents \X T)
  BY DEF Before, After, p, r, s, t
<1> QED
  BY <1>6, <1>9, <1>10, <1>11, <1>12

(* CiStopsGrowth follows from what the state has.                          *)
LEMMA StopsGrowth ==
  ASSUME Ordered, runs \in Seq(Report)
  PROVE  CiStopsGrowth
<1> SUFFICES ASSUME NEW b \in Past, NEW from \in {Severity[d] : d \in Contents} \cup {Error},
                    Passes([CiPolicy EXCEPT !.new = from, !.increase = from],
                           Between(b, Last(runs)))
             PROVE  /\ \A fp \in Fingerprints, minimum \in from..5 :
                         AtOrAbove(Last(runs), fp, minimum) <= AtOrAbove(b, fp, minimum)
                    /\ Passes([Permissive EXCEPT !.introduced = from], Between(b, Last(runs)))
  BY DEF CiStopsGrowth
<1> DEFINE c == Last(runs)
           delta == Between(b, c)
           strict == [CiPolicy EXCEPT !.new = from, !.increase = from]
           loose == [Permissive EXCEPT !.introduced = from]
<1>1. b \in Report /\ c \in Report
  BY PastFacts
<1> HIDE DEF c
<1>2. Says(delta, b, c)
  BY <1>1, BetweenFacts
<1>3. from \in 0..5
  BY ObservationAssumption DEF Error
<1>4. Passes(strict, delta)
  BY DEF c
<1> HIDE DEF delta
<1>5. /\ strict.new = from /\ strict.increase = from
      /\ loose.any = FALSE /\ loose.new = Off /\ loose.increase = Off /\ loose.introduced = from
  BY DEF CiPolicy, Permissive
<1> HIDE DEF strict, loose
<1>6. Count(strict, delta)["new"] = 0 /\ Count(strict, delta)["increase"] = 0
  BY <1>4, PassesFacts
<1>7. CountNewAtOrAbove(delta, from) = 0 /\ SeverityIncreasesAtOrAbove(delta, from) = 0
  BY <1>5, <1>6 DEF Count
<1>8. \A fp, minimum : minimum \in from..5 => AtOrAbove(c, fp, minimum) <= AtOrAbove(b, fp, minimum)
  BY <1>1, <1>2, <1>3, <1>7, NoGrowth
<1>9. IntroducedAtOrAbove(delta, from) = 0
  <2> DEFINE g == Excess(b, c, from)
  <2>1. IntroducedAtOrAbove(delta, from) = SumOver(g, Fingerprints)
    BY <1>1, <1>2, DeltaCounts
  <2>2. \A fp : /\ AtOrAbove(c, fp, from) <= AtOrAbove(b, fp, from)
                /\ AtOrAbove(c, fp, from) \in Nat /\ AtOrAbove(b, fp, from) \in Nat
    BY <1>1, <1>3, <1>8, AtOrAboveFacts
  <2>3. \A fp \in Fingerprints : g[fp] = 0
    BY <2>2 DEF Excess, SatSub
  <2>4. IsFiniteSet(Fingerprints)
    BY ClassesFacts
  <2> HIDE DEF g
  <2>5. SumOver(g, Fingerprints) = 0
    BY <2>3, <2>4, SumsCompare
  <2> QED
    BY <2>1, <2>5
<1>10. Passes(loose, delta)
  <2>1. CountNewAtOrAbove(delta, Off) = 0 /\ SeverityIncreasesAtOrAbove(delta, Off) = 0
    BY <1>1, <1>2, OffCountsNothing
  <2>2. Count(loose, delta) = [any |-> 0, new |-> 0, introduced |-> 0, increase |-> 0]
    BY <1>5, <1>9, <2>1 DEF Count
  <2> QED
    BY <2>2, PassesFacts
<1> QED
  BY <1>8, <1>10 DEF c, delta, loose

(* The delta between any two reports of any history says what the history  *)
(* says of them: every count, every introduced instance, and the effect of *)
(* a remediation either way (DeltaAgreesWithHistory), for any contents,    *)
(* fingerprints and severities and any number of runs (delta.rs,           *)
(* forensics.rs, remediation_evidence.rs).                                 *)
THEOREM DeltaAgrees == Spec => []DeltaAgreesWithHistory
<1>1. Ordered /\ runs \in Seq(Report) => DeltaAgreesWithHistory
  BY AgreesInOrder
<1> QED
  BY <1>1, RecordsHold, PTL

(* A delta loses no diagnostic of either report, pairs only what has one   *)
(* identity, says of the comparison turned round just its converse and of  *)
(* a report and itself nothing (DeltaLosesNothing), for any two reports    *)
(* (delta.rs).                                                             *)
THEOREM DeltaKeepsAll == Spec => []DeltaLosesNothing
<1>1. Ordered /\ runs \in Seq(Report) => DeltaLosesNothing
  BY LosesNothing
<1> QED
  BY <1>1, RecordsHold, PTL

(* A policy of continuous integration that passes lets no fingerprint grow *)
(* at or above the severity it guards (CiStopsGrowth), for any policy and  *)
(* any two reports (delta_policy.rs).                                      *)
THEOREM CiStops == Spec => []CiStopsGrowth
<1>1. Ordered /\ runs \in Seq(Report) => CiStopsGrowth
  BY StopsGrowth
<1> QED
  BY <1>1, RecordsHold, PTL

(* Whatever else is asked for.                                             *)
THEOREM InvestigationRecords == InvestigationSpec => Spec
<1>1. InvestigationInit => Init
  BY DEF InvestigationInit
<1>2. [InvestigationNext]_<<subject, vars, graphVars>> => [Next]_vars
  BY DEF InvestigationNext, Reporting, Graphing
<1> QED
  BY <1>1, <1>2, PTL DEF InvestigationSpec, Spec

-----------------------------------------------------------------------------
(* The lineage                                                             *)

Steps == [to_run : Nat, new : Nat, resolved : Nat, changed : Nat, increases : Nat, active : Nat]

(* What the history counts of one fingerprint has the balance of its       *)
(* instances.                                                              *)
LEMMA CompareBalance ==
  ASSUME Ordered, NEW b \in Report, NEW c \in Report, NEW fp \in Fingerprints
  PROVE  LET counts == CompareObservations(b, c, fp)
         IN  /\ counts \in Tallies
             /\ counts.persisting + counts.changed + counts.resolved = Instances(b, fp)
             /\ counts.persisting + counts.changed + counts.new = Instances(c, fp)
             /\ Instances(b, fp) \in Nat /\ Instances(c, fp) \in Nat
<1> DEFINE shared == Shared(b, c)
           wb == Without(b, shared)
           wc == Without(c, shared)
           left == ByDigest(wb, fp)
           right == ByDigest(wc, fp)
           m == Min({Len(left), Len(right)})
           counts == CompareObservations(b, c, fp)
           A == Of(fp)
<1>1. /\ shared \in Report /\ wb \in Report /\ wc \in Report
      /\ \A d \in Contents : /\ shared[d] = Least(b[d], c[d])
                             /\ wb[d] = b[d] - Least(b[d], c[d])
                             /\ wc[d] = c[d] - Least(b[d], c[d])
  BY SharedFacts
<1>2. m \in Nat /\ counts \in Tallies
  BY BucketFacts, CompareFacts
<1>3. /\ counts.persisting = Instances(shared, fp) /\ counts.changed = m
      /\ counts.resolved = Len(left) - m /\ counts.new = Len(right) - m
  BY DEF CompareObservations
<1> HIDE DEF shared, wb, wc, m, counts
<1>4. /\ Len(left) = Instances(wb, fp) /\ Instances(wb, fp) \in Nat
      /\ Len(right) = Instances(wc, fp) /\ Instances(wc, fp) \in Nat
  BY <1>1, ListLength
<1>5. Instances(shared, fp) \in Nat /\ Instances(b, fp) \in Nat /\ Instances(c, fp) \in Nat
  BY <1>1, ListLength
<1>6. \A r : Instances(r, fp) = SumOver(r, A)
  BY DEF Instances, SumOver
<1>7. A \in SUBSET A /\ IsFiniteSet(A) /\ A \in SUBSET Contents
  BY OfFacts
<1> HIDE DEF A, left, right
<1>8. \A d \in A : /\ shared[d] \in Nat /\ wb[d] \in Nat /\ wc[d] \in Nat
                   /\ b[d] = shared[d] + wb[d] /\ c[d] = shared[d] + wc[d]
  <2> TAKE d \in A
  <2>1. d \in Contents /\ shared[d] \in Nat /\ wb[d] \in Nat /\ wc[d] \in Nat
        /\ b[d] \in Nat /\ c[d] \in Nat
    BY <1>1, <1>7 DEF Report
  <2>2. /\ shared[d] = Least(b[d], c[d])
        /\ wb[d] = b[d] - Least(b[d], c[d]) /\ wc[d] = c[d] - Least(b[d], c[d])
    BY <1>1, <2>1
  <2> QED
    BY <2>1, <2>2
<1>9. SumOver(b, A) = SumOver(shared, A) + SumOver(wb, A)
  <2>1. \A d \in A : shared[d] \in Nat /\ wb[d] \in Nat /\ b[d] = shared[d] + wb[d]
    BY <1>8
  <2>2. \A s \in SUBSET A : SumOver(b, s) = SumOver(shared, s) + SumOver(wb, s)
    BY <1>7, <2>1, SumsAdd
  <2> QED
    BY <1>7, <2>2
<1>10. SumOver(c, A) = SumOver(shared, A) + SumOver(wc, A)
  <2>1. \A d \in A : shared[d] \in Nat /\ wc[d] \in Nat /\ c[d] = shared[d] + wc[d]
    BY <1>8
  <2>2. \A s \in SUBSET A : SumOver(c, s) = SumOver(shared, s) + SumOver(wc, s)
    BY <1>7, <2>1, SumsAdd
  <2> QED
    BY <1>7, <2>2
<1>11. /\ Instances(b, fp) = Instances(shared, fp) + Len(left)
       /\ Instances(c, fp) = Instances(shared, fp) + Len(right)
  BY <1>4, <1>6, <1>9, <1>10
<1>12. /\ counts.persisting + counts.changed + counts.resolved = Instances(b, fp)
       /\ counts.persisting + counts.changed + counts.new = Instances(c, fp)
  BY <1>2, <1>3, <1>4, <1>5, <1>11
<1> QED
  BY <1>2, <1>5, <1>12 DEF counts

(* The instances a lineage has of a run, and of no run.                    *)
Had(log, fp, k) == IF k = 0 THEN 0 ELSE Instances(log[k], fp)

(* A lineage has a step for each run, with the instances that run has and  *)
(* the ones that came and went since the run before.                       *)
LEMMA LineageFacts ==
  ASSUME Ordered, NEW log \in Seq(Report), NEW fp \in Fingerprints
  PROVE  LET steps == Lineage(log, fp)
         IN  /\ steps \in Seq(Steps) /\ Len(steps) = Len(log) /\ DOMAIN steps = DOMAIN log
             /\ \A k \in DOMAIN log : /\ steps[k] = LineageStep(log, fp, k)
                                      /\ steps[k].to_run = k
                                      /\ steps[k].active = Had(log, fp, k)
                                      /\ Had(log, fp, k) \in Nat /\ Had(log, fp, k - 1) \in Nat
                                      /\ steps[k].new - steps[k].resolved
                                           = Had(log, fp, k) - Had(log, fp, k - 1)
<1> DEFINE n == Len(log)
           made == [k \in DOMAIN log |-> LineageStep(log, fp, k)]
<1>1. n \in Nat /\ DOMAIN log = 1..n /\ \A k \in 1..n : log[k] \in Report
  OBVIOUS
<1>2. NoReport \in Report /\ Instances(NoReport, fp) = 0
  <2>1. NoReport \in Report
    BY DEF NoReport, Report
  <2>2. Instances(NoReport, fp) = SumOver(NoReport, Of(fp))
    BY DEF Instances, SumOver
  <2>3. \A d \in Of(fp) : NoReport[d] = 0
    BY OfFacts DEF NoReport
  <2>4. SumOver(NoReport, Of(fp)) = 0
    BY <2>3, OfFacts, SumsCompare
  <2> QED
    BY <2>1, <2>2, <2>4
<1>3. ASSUME NEW k \in 1..n
      PROVE  /\ LineageStep(log, fp, k) \in Steps
             /\ LineageStep(log, fp, k).to_run = k
             /\ LineageStep(log, fp, k).active = Had(log, fp, k)
             /\ Had(log, fp, k) \in Nat /\ Had(log, fp, k - 1) \in Nat
             /\ LineageStep(log, fp, k).new - LineageStep(log, fp, k).resolved
                  = Had(log, fp, k) - Had(log, fp, k - 1)
  <2> DEFINE b == IF k = 1 THEN NoReport ELSE log[k - 1]
             c == log[k]
             counts == CompareObservations(b, c, fp)
             step == LineageStep(log, fp, k)
  <2>1. b \in Report /\ c \in Report
    BY <1>1, <1>2
  <2>2. Instances(b, fp) = Had(log, fp, k - 1) /\ Instances(c, fp) = Had(log, fp, k)
    BY <1>2 DEF Had
  <2>3. step = [to_run |-> k, new |-> counts.new, resolved |-> counts.resolved,
                changed |-> counts.changed, increases |-> counts.increases,
                active |-> Instances(c, fp)]
    BY DEF LineageStep, Counted
  <2> HIDE DEF b, c, step
  <2>4. /\ counts \in Tallies
        /\ counts.persisting + counts.changed + counts.resolved = Instances(b, fp)
        /\ counts.persisting + counts.changed + counts.new = Instances(c, fp)
        /\ Instances(b, fp) \in Nat /\ Instances(c, fp) \in Nat
    BY <2>1, CompareBalance
  <2> HIDE DEF counts
  <2>5. /\ counts.persisting \in Nat /\ counts.changed \in Nat /\ counts.resolved \in Nat
        /\ counts.new \in Nat /\ counts.increases \in Nat
    BY <2>4 DEF Tallies
  <2>6. step \in Steps
    BY <1>1, <2>3, <2>4, <2>5 DEF Steps
  <2>7. counts.new - counts.resolved = Instances(c, fp) - Instances(b, fp)
    BY <2>4, <2>5
  <2>8. step.to_run = k /\ step.active = Instances(c, fp) /\ step.new = counts.new
        /\ step.resolved = counts.resolved
    BY <2>3
  <2>9. /\ step \in Steps /\ step.to_run = k /\ step.active = Had(log, fp, k)
        /\ Had(log, fp, k) \in Nat /\ Had(log, fp, k - 1) \in Nat
        /\ step.new - step.resolved = Had(log, fp, k) - Had(log, fp, k - 1)
    BY <2>2, <2>4, <2>6, <2>7, <2>8
  <2> QED
    BY <2>9 DEF step
<1>4. made \in [1..n -> Steps]
  BY <1>1, <1>3
<1>5. \A k \in 1..n : made[k] = LineageStep(log, fp, k)
  BY <1>1
<1>6. Lineage(log, fp) = <<>> \o made
  BY DEF Lineage
<1> HIDE DEF made, n
<1>7. made \in Seq(Steps) /\ Len(made) = n /\ DOMAIN made = 1..n
  BY <1>1, <1>4
<1>8. <<>> \o made = made
  BY <1>7
<1> QED
  BY <1>1, <1>3, <1>5, <1>6, <1>7, <1>8 DEF n

(* The running balance of a lineage, as the property has it.               *)
Balance(steps) ==
  FoldLeft(LAMBDA sums, step : Append(sums, sums[Len(sums)] + step.new - step.resolved), <<0>>, steps)

Sums == {s \in Seq(Int) : s # <<>>}

Balances(h, s) ==
  h[0] = <<0>> /\ \A k \in 0..(Len(s) - 1) : h[k + 1] = Append(h[k], h[k][Len(h[k])] + s[k + 1].new - s[k + 1].resolved)

(* The running balance is what the steps give one after another.           *)
LEMMA BalanceFolds ==
  ASSUME NEW s \in Seq(Steps)
  PROVE  \E h \in [0..Len(s) -> Sums] : Balances(h, s) /\ Balance(s) = h[Len(s)]
<1> DEFINE n == Len(s)
           On(a, k) == Append(a, a[Len(a)] + s[k].new - s[k].resolved)
           G == [p \in (1..n) \X Sums |-> On(p[2], p[1])]
           Fold(f) == f = [t \in SUBSET DOMAIN s |->
                             IF t = {} THEN <<0>> ELSE On(f[t \ {Max(t)}], Max(t))]
           chosen == CHOOSE f : Fold(f)
<1>1. n \in Nat /\ DOMAIN s = 1..n /\ <<0>> \in Sums
  <2>1. n \in Nat /\ DOMAIN s = 1..n
    OBVIOUS
  <2>2. <<0>> \in Seq(Int) /\ <<0>> # <<>>
    OBVIOUS
  <2> QED
    BY <2>1, <2>2 DEF Sums
<1>2. Balance(s) = chosen[DOMAIN s]
  BY Zenon DEF Balance, FoldLeft, MapThenFoldSet
<1>3. \A k \in 1..n, a \in Sums : G[<<k, a>>] = On(a, k)
  OBVIOUS
<1>4. \A k \in 1..n, a \in Sums : On(a, k) \in Sums
  <2> TAKE k \in 1..n, a \in Sums
  <2>1. s[k] \in Steps
    OBVIOUS
  <2>2. s[k].new \in Nat /\ s[k].resolved \in Nat
    BY <2>1 DEF Steps
  <2>3. a \in Seq(Int) /\ Len(a) \in DOMAIN a
    BY DEF Sums
  <2>4. a[Len(a)] \in Int
    BY <2>3
  <2> DEFINE e == a[Len(a)] + s[k].new - s[k].resolved
  <2>5. e \in Int
    BY <2>2, <2>4
  <2> HIDE DEF e
  <2>6. Append(a, e) \in Seq(Int) /\ Append(a, e) # <<>>
    BY <2>3, <2>5
  <2> QED
    BY <2>6 DEF Sums, e
<1> HIDE DEF G, n, On
<1>5. PICK f \in [SUBSET (1..n) -> Sums] : Folds(f, n, <<0>>, G)
  <2>1. \A k \in 1..n, a \in Sums : G[<<k, a>>] \in Sums
    BY <1>3, <1>4
  <2> QED
    BY <1>1, <2>1, FoldExists
<1>6. Fold(f) /\ \A t \in SUBSET (1..n) : f[t] \in Sums
  <2>1. ASSUME NEW t \in SUBSET (1..n), t # {}
        PROVE  G[<<Max(t), f[t \ {Max(t)}]>>] = On(f[t \ {Max(t)}], Max(t))
    <3>1. Max(t) \in t
      <4>1. IsFiniteSet(1..n) /\ t \subseteq 1..n /\ t \subseteq Int
        BY <1>1, FS_Interval
      <4> QED
        BY <2>1, <4>1, FS_Subset, Extremes
    <3>2. f[t \ {Max(t)}] \in Sums /\ Max(t) \in 1..n
      BY <3>1
    <3> QED
      BY <1>3, <3>2
  <2>2. \A t \in SUBSET (1..n) :
          (IF t = {} THEN <<0>> ELSE G[<<Max(t), f[t \ {Max(t)}]>>])
            = IF t = {} THEN <<0>> ELSE On(f[t \ {Max(t)}], Max(t))
    BY <2>1
  <2>3. f = [t \in SUBSET (1..n) |-> IF t = {} THEN <<0>> ELSE G[<<Max(t), f[t \ {Max(t)}]>>]]
    BY <1>5 DEF Folds
  <2>4. f = [t \in SUBSET (1..n) |-> IF t = {} THEN <<0>> ELSE On(f[t \ {Max(t)}], Max(t))]
    BY <2>2, <2>3
  <2> QED
    BY <1>1, <1>5, <2>4
<1>7. Fold(chosen)
  <2> HIDE DEF Fold
  <2> QED
    BY <1>6
<1> HIDE DEF chosen
<1> DEFINE h == [k \in 0..n |-> chosen[1..k]]
<1>8. \A k \in 0..n : h[k] = chosen[1..k]
  OBVIOUS
<1>9. DOMAIN h = 0..n /\ h = [k \in 0..n |-> h[k]]
  OBVIOUS
<1> HIDE DEF h
<1>10. h[0] = <<0>>
  <2>1. 0 \in 0..n /\ 1..0 = {}
    BY <1>1, InitialSegments
  <2>2. chosen[{}] = <<0>>
    BY <1>7
  <2> QED
    BY <1>8, <2>1, <2>2
<1>11. ASSUME NEW k \in 0..(n - 1)
       PROVE  h[k + 1] = On(h[k], k + 1)
  <2>1. k \in Nat /\ k \in 0..n /\ k + 1 \in 0..n
    BY <1>1
  <2> DEFINE t == 1..(k + 1)
  <2>2. t \in SUBSET DOMAIN s
    BY <1>1
  <2>3. t # {} /\ Max(t) = k + 1 /\ t \ {k + 1} = 1..k
    BY <2>1, InitialSegments
  <2> HIDE DEF t
  <2>4. chosen[t] = On(chosen[t \ {Max(t)}], Max(t))
    BY <1>7, <2>2, <2>3
  <2> QED
    BY <1>8, <2>1, <2>3, <2>4 DEF t
<1>12. Balances(h, s)
  BY <1>10, <1>11 DEF Balances, n, On
<1>13. Balance(s) = h[n]
  BY <1>1, <1>2, <1>8
<1> DEFINE typed == {k \in Nat : k <= n => h[k] \in Sums}
<1>14. \A k \in Nat : k \in typed
  <2>1. 0 \in typed
    BY <1>1, <1>10
  <2>2. ASSUME NEW k \in Nat, k \in typed
        PROVE  k + 1 \in typed
    <3> SUFFICES ASSUME k + 1 <= n
                 PROVE  h[k + 1] \in Sums
      OBVIOUS
    <3>1. k \in 0..(n - 1) /\ k + 1 \in 1..n /\ k <= n
      BY <1>1
    <3>2. h[k] \in Sums /\ h[k + 1] = On(h[k], k + 1)
      BY <1>11, <2>2, <3>1
    <3> QED
      BY <1>4, <3>1, <3>2
  <2> HIDE DEF typed
  <2> QED
    BY <2>1, <2>2, NatInduct
<1>15. h \in [0..n -> Sums]
  <2>1. \A k \in 0..n : h[k] \in Sums
    BY <1>14
  <2> QED
    BY <1>9, <2>1
<1> QED
  BY <1>12, <1>13, <1>15 DEF n

(* After each run the balance is the number of instances that run has.     *)
LEMMA LineageBooks ==
  ASSUME Ordered, NEW log \in Seq(Report), NEW fp \in Fingerprints
  PROVE  LET sums == Balance(Lineage(log, fp))
         IN  \A k \in 0..Len(log) : sums[k + 1] = Had(log, fp, k)
<1> DEFINE steps == Lineage(log, fp)
           n == Len(log)
<1>1. /\ steps \in Seq(Steps) /\ Len(steps) = n /\ DOMAIN log = 1..n /\ n \in Nat
      /\ \A k \in 1..n : /\ steps[k].new - steps[k].resolved = Had(log, fp, k) - Had(log, fp, k - 1)
                         /\ Had(log, fp, k) \in Nat /\ Had(log, fp, k - 1) \in Nat
                         /\ steps[k] \in Steps
  BY LineageFacts
<1> HIDE DEF steps, n
<1>2. PICK h \in [0..n -> Sums] : Balances(h, steps) /\ Balance(steps) = h[n]
  BY <1>1, BalanceFolds
<1> DEFINE Right(k) == /\ h[k] \in Seq(Int) /\ Len(h[k]) = k + 1
                       /\ \A j \in 0..k : h[k][j + 1] = Had(log, fp, j)
           S == {k \in Nat : k <= n => Right(k)}
<1>3. 0 \in S
  <2>1. h[0] = <<0>>
    BY <1>2 DEF Balances
  <2>2. \A j \in 0..0 : j = 0
    OBVIOUS
  <2>3. Right(0)
    BY <2>1, <2>2 DEF Had
  <2> HIDE DEF Right
  <2> QED
    BY <2>3
<1>4. ASSUME NEW k \in Nat, k \in S
      PROVE  k + 1 \in S
  <2> SUFFICES ASSUME k + 1 <= n
               PROVE  Right(k + 1)
    OBVIOUS
  <2> DEFINE s == h[k]
             e == s[Len(s)] + steps[k + 1].new - steps[k + 1].resolved
  <2>1. k \in 0..(n - 1) /\ k <= n /\ k + 1 \in 1..n
    BY <1>1
  <2>2. h[k + 1] = Append(s, e)
    BY <1>1, <1>2, <2>1 DEF Balances
  <2>3. s \in Seq(Int) /\ Len(s) = k + 1 /\ \A j \in 0..k : s[j + 1] = Had(log, fp, j)
    BY <1>4, <2>1
  <2>4. steps[k + 1].new \in Nat /\ steps[k + 1].resolved \in Nat
    BY <1>1, <2>1 DEF Steps
  <2>5. e = Had(log, fp, k + 1) /\ e \in Int
    <3>1. /\ steps[k + 1].new - steps[k + 1].resolved = Had(log, fp, k + 1) - Had(log, fp, (k + 1) - 1)
          /\ Had(log, fp, k + 1) \in Nat /\ Had(log, fp, (k + 1) - 1) \in Nat
      BY <1>1, <2>1
    <3>2. (k + 1) - 1 = k /\ k \in 0..k
      OBVIOUS
    <3>3. s[Len(s)] = Had(log, fp, k)
      BY <2>3, <3>2
    <3> HIDE DEF s
    <3> QED
      BY <2>4, <3>1, <3>2, <3>3
  <2> HIDE DEF s, e
  <2>6. /\ Append(s, e) \in Seq(Int) /\ Len(Append(s, e)) = k + 2
        /\ \A j \in 1..(k + 1) : Append(s, e)[j] = s[j]
        /\ Append(s, e)[k + 2] = e
    BY <2>3, <2>5
  <2>7. ASSUME NEW j \in 0..(k + 1)
        PROVE  Append(s, e)[j + 1] = Had(log, fp, j)
    <3>1. CASE j = k + 1
      BY <2>5, <2>6, <3>1
    <3>2. CASE j # k + 1
      <4>1. j \in 0..k /\ j + 1 \in 1..(k + 1)
        BY <3>2
      <4> QED
        BY <2>3, <2>6, <4>1
    <3> QED
      BY <3>1, <3>2
  <2>8. (k + 1) + 1 = k + 2
    OBVIOUS
  <2> QED
    BY <2>2, <2>6, <2>7, <2>8
<1>5. \A k \in Nat : k \in S
  <2> HIDE DEF S
  <2> QED
    BY <1>3, <1>4, NatInduct
<1>6. Right(n)
  <2>1. n \in S
    <3> HIDE DEF S
    <3> QED
      BY <1>1, <1>5
  <2> HIDE DEF Right
  <2> QED
    BY <1>1, <2>1
<1> QED
  BY <1>2, <1>6 DEF steps, n

(* LineageBalances follows from what the state has.                        *)
LEMMA BooksBalance ==
  ASSUME Ordered, runs \in Seq(Report)
  PROVE  LineageBalances
<1> DEFINE last == Len(runs)
<1>1. SUFFICES ASSUME NEW fp \in Fingerprints, last > 0
               PROVE  /\ Balance(Lineage(runs, fp))[last + 1] = Lineage(runs, fp)[last].active
                      /\ \A j \in 1..last :
                           LET direct == CompareObservations(runs[j], runs[last], fp)
                           IN  Balance(Lineage(runs, fp))[last + 1] - Balance(Lineage(runs, fp))[j + 1]
                                 = direct.new - direct.resolved
  BY Zenon DEF LineageBalances, Balance
<1> DEFINE sums == Balance(Lineage(runs, fp))
<1>2. \A k \in 0..last : sums[k + 1] = Had(runs, fp, k)
  BY LineageBooks
<1>3. last \in Nat /\ DOMAIN runs = 1..last /\ \A k \in 1..last : runs[k] \in Report
  OBVIOUS
<1>4. Lineage(runs, fp)[last].active = Had(runs, fp, last)
  <2>1. last \in DOMAIN runs
    BY <1>1, <1>3
  <2> HIDE DEF last
  <2> QED
    BY <2>1, LineageFacts
<1> HIDE DEF sums, last
<1>5. ASSUME NEW j \in 1..last
      PROVE  LET direct == CompareObservations(runs[j], runs[last], fp)
             IN  sums[last + 1] - sums[j + 1] = direct.new - direct.resolved
  <2> DEFINE direct == CompareObservations(runs[j], runs[last], fp)
  <2>1. runs[j] \in Report /\ runs[last] \in Report /\ j \in 0..last /\ last \in 0..last
        /\ j # 0 /\ last # 0
    BY <1>1, <1>3
  <2>2. /\ direct \in Tallies
        /\ direct.persisting + direct.changed + direct.resolved = Instances(runs[j], fp)
        /\ direct.persisting + direct.changed + direct.new = Instances(runs[last], fp)
    BY <2>1, CompareBalance
  <2>3. sums[last + 1] = Instances(runs[last], fp) /\ sums[j + 1] = Instances(runs[j], fp)
    BY <1>2, <2>1 DEF Had
  <2> HIDE DEF direct
  <2>4. /\ direct.persisting \in Nat /\ direct.changed \in Nat
        /\ direct.resolved \in Nat /\ direct.new \in Nat
    BY <2>2 DEF Tallies
  <2>5. sums[last + 1] - sums[j + 1] = direct.new - direct.resolved
    BY <2>2, <2>3, <2>4
  <2> QED
    BY <2>5 DEF direct
<1>6. sums[last + 1] = Lineage(runs, fp)[last].active
  <2>1. last \in 0..last
    BY <1>3
  <2> QED
    BY <1>2, <1>4, <2>1
<1> QED
  BY <1>5, <1>6 DEF sums

(* The books of a lineage balance: what came less what went, summed over   *)
(* its steps, is what is active after them, and between any run and the    *)
(* last is what the two compared directly give (LineageBalances), for any  *)
(* history of any length (forensics.rs).                                   *)
THEOREM BooksHold == Spec => []LineageBalances
<1>1. Ordered /\ runs \in Seq(Report) => LineageBalances
  BY BooksBalance
<1> QED
  BY <1>1, RecordsHold, PTL

-----------------------------------------------------------------------------
(* Episodes                                                                *)

(* An episode, and the state of the pass that builds them.                 *)
Episode == [started : Nat, last : Nat, resolved : Nat, observed : Nat, instances : Nat, peak : Nat]
Passing == [episodes : Seq(Episode), current : {c \in Seq(Episode) : Len(c) <= 1}]
NoEpisode == [episodes |-> <<>>, current |-> <<>>]

(* The pass over a lineage.                                                *)
Passed(steps) == FoldLeft(Visit, [episodes |-> <<>>, current |-> <<>>], steps)

(* A run visited leaves at most one episode open.                          *)
LEMMA VisitFacts ==
  ASSUME NEW pass \in Passing, NEW step \in Steps
  PROVE  /\ Visit(pass, step) \in Passing
         /\ step.active # 0 =>
              /\ Visit(pass, step).episodes = pass.episodes
              /\ Visit(pass, step).current =
                   IF pass.current = <<>> THEN <<Opened(step)>> ELSE <<Extended(pass.current[1], step)>>
         /\ step.active = 0 /\ pass.current = <<>> => Visit(pass, step) = pass
         /\ step.active = 0 /\ pass.current # <<>> =>
              /\ Visit(pass, step).episodes =
                   Append(pass.episodes, [pass.current[1] EXCEPT !.resolved = step.to_run])
              /\ Visit(pass, step).current = <<>>
<1>1. /\ step.active \in Nat /\ step.to_run \in Nat
      /\ pass.episodes \in Seq(Episode) /\ pass.current \in Seq(Episode) /\ Len(pass.current) <= 1
      /\ pass = [episodes |-> pass.episodes, current |-> pass.current]
  BY DEF Steps, Passing
<1>2. Opened(step) \in Episode
  BY <1>1 DEF Opened, Episode, NoRun
<1>3. \A e \in Episode : /\ Extended(e, step) \in Episode
                         /\ [e EXCEPT !.resolved = step.to_run] \in Episode
  <2> TAKE e \in Episode
  <2>1. e.peak \in Nat /\ e.observed \in Nat /\ e.instances \in Nat
    BY DEF Episode
  <2>2. Max({e.peak, step.active}) \in Nat
    <3>1. IsFiniteSet({e.peak, step.active}) /\ {e.peak, step.active} \subseteq Int
      <4>1. {e.peak, step.active} = {e.peak} \cup {step.active}
        OBVIOUS
      <4>2. IsFiniteSet({e.peak}) /\ IsFiniteSet({step.active})
        BY FS_Singleton
      <4> QED
        <5>1. IsFiniteSet({e.peak} \cup {step.active})
          BY <4>2, FS_Union
        <5> QED
          BY <1>1, <2>1, <4>1, <5>1
    <3>2. Max({e.peak, step.active}) \in {e.peak, step.active}
      BY <3>1, Extremes
    <3> QED
      BY <1>1, <2>1, <3>2
  <2> DEFINE m == Max({e.peak, step.active})
  <2>3. Extended(e, step) = [e EXCEPT !.last = step.to_run, !.observed = e.observed + 1,
                                      !.instances = e.instances + step.active, !.peak = m]
    BY DEF Extended
  <2>4. m \in Nat
    BY <2>2
  <2> HIDE DEF m
  <2>5. Extended(e, step) \in Episode
    <3> DEFINE o == e.observed + 1
               i == e.instances + step.active
    <3>1. o \in Nat /\ i \in Nat
      BY <1>1, <2>1
    <3>2. Extended(e, step) = [e EXCEPT !.last = step.to_run, !.observed = o,
                                        !.instances = i, !.peak = m]
      BY <2>3
    <3> HIDE DEF o, i
    <3> QED
      BY <1>1, <2>4, <3>1, <3>2 DEF Episode
  <2>6. [e EXCEPT !.resolved = step.to_run] \in Episode
    BY <1>1 DEF Episode
  <2> QED
    BY <2>5, <2>6
<1>4. pass.current # <<>> => pass.current[1] \in Episode
  BY <1>1
<1>5. CASE step.active # 0
  <2>1. Visit(pass, step) = [episodes |-> pass.episodes,
          current |-> IF pass.current = <<>> THEN <<Opened(step)>>
                      ELSE <<Extended(pass.current[1], step)>>]
    BY <1>1, <1>5 DEF Visit
  <2> DEFINE c == IF pass.current = <<>> THEN <<Opened(step)>>
                  ELSE <<Extended(pass.current[1], step)>>
  <2>2. c \in Seq(Episode) /\ Len(c) <= 1
    <3>1. CASE pass.current = <<>>
      BY <1>2, <3>1
    <3>2. CASE pass.current # <<>>
      <4>1. Extended(pass.current[1], step) \in Episode
        BY <1>3, <1>4, <3>2
      <4> QED
        BY <3>2, <4>1
    <3> QED
      BY <3>1, <3>2
  <2> HIDE DEF c
  <2> QED
    BY <1>1, <1>5, <2>1, <2>2 DEF c, Passing
<1>6. CASE step.active = 0 /\ pass.current # <<>>
  <2>1. Visit(pass, step) =
          [episodes |-> Append(pass.episodes, [pass.current[1] EXCEPT !.resolved = step.to_run]),
           current |-> <<>>]
    BY <1>6 DEF Visit
  <2> DEFINE all == Append(pass.episodes, [pass.current[1] EXCEPT !.resolved = step.to_run])
  <2>2. all \in Seq(Episode)
    BY <1>1, <1>3, <1>4, <1>6
  <2>3. <<>> \in {c \in Seq(Episode) : Len(c) <= 1}
    OBVIOUS
  <2> HIDE DEF all
  <2> QED
    BY <1>6, <2>1, <2>2, <2>3 DEF all, Passing
<1>7. CASE step.active = 0 /\ pass.current = <<>>
  <2>1. Visit(pass, step) = pass
    BY <1>7 DEF Visit
  <2> QED
    BY <1>7, <2>1
<1> QED
  BY <1>5, <1>6, <1>7

(* The episodes after each run.                                            *)
Visits(h, s) ==
  h[0] = NoEpisode /\ \A k \in 0..(Len(s) - 1) : h[k + 1] = Visit(h[k], s[k + 1])

(* The pass is what the visits give one after another.                     *)
LEMMA EpisodesFold ==
  ASSUME NEW s \in Seq(Steps)
  PROVE  \E h \in [0..Len(s) -> Passing] : Visits(h, s) /\ Passed(s) = h[Len(s)]
<1> DEFINE n == Len(s)
           On(a, k) == Visit(a, s[k])
           G == [p \in (1..n) \X Passing |-> On(p[2], p[1])]
           Fold(f) == f = [t \in SUBSET DOMAIN s |->
                             IF t = {} THEN NoEpisode ELSE On(f[t \ {Max(t)}], Max(t))]
           chosen == CHOOSE f : Fold(f)
<1>1. n \in Nat /\ DOMAIN s = 1..n /\ NoEpisode \in Passing
  <2>1. <<>> \in Seq(Episode) /\ Len(<<>>) <= 1
    OBVIOUS
  <2> QED
    BY <2>1 DEF Passing, NoEpisode
<1>2. Passed(s) = chosen[DOMAIN s]
  BY Zenon DEF Passed, NoEpisode, FoldLeft, MapThenFoldSet
<1>3. \A k \in 1..n, a \in Passing : G[<<k, a>>] = On(a, k)
  OBVIOUS
<1>4. \A k \in 1..n, a \in Passing : On(a, k) \in Passing
  <2> TAKE k \in 1..n, a \in Passing
  <2>1. s[k] \in Steps
    OBVIOUS
  <2> QED
    BY <2>1, VisitFacts
<1> HIDE DEF G, n, On
<1>5. PICK f \in [SUBSET (1..n) -> Passing] : Folds(f, n, NoEpisode, G)
  <2>1. \A k \in 1..n, a \in Passing : G[<<k, a>>] \in Passing
    BY <1>3, <1>4
  <2> QED
    BY <1>1, <2>1, FoldExists
<1>6. Fold(f) /\ \A t \in SUBSET (1..n) : f[t] \in Passing
  <2>1. ASSUME NEW t \in SUBSET (1..n), t # {}
        PROVE  G[<<Max(t), f[t \ {Max(t)}]>>] = On(f[t \ {Max(t)}], Max(t))
    <3>1. Max(t) \in t
      <4>1. IsFiniteSet(1..n) /\ t \subseteq 1..n /\ t \subseteq Int
        BY <1>1, FS_Interval
      <4> QED
        BY <2>1, <4>1, FS_Subset, Extremes
    <3>2. f[t \ {Max(t)}] \in Passing /\ Max(t) \in 1..n
      BY <3>1
    <3> QED
      BY <1>3, <3>2
  <2>2. \A t \in SUBSET (1..n) :
          (IF t = {} THEN NoEpisode ELSE G[<<Max(t), f[t \ {Max(t)}]>>])
            = IF t = {} THEN NoEpisode ELSE On(f[t \ {Max(t)}], Max(t))
    BY <2>1
  <2>3. f = [t \in SUBSET (1..n) |-> IF t = {} THEN NoEpisode ELSE G[<<Max(t), f[t \ {Max(t)}]>>]]
    BY <1>5 DEF Folds
  <2>4. f = [t \in SUBSET (1..n) |-> IF t = {} THEN NoEpisode ELSE On(f[t \ {Max(t)}], Max(t))]
    BY <2>2, <2>3
  <2> QED
    BY <1>1, <1>5, <2>4
<1>7. Fold(chosen)
  <2> HIDE DEF Fold
  <2> QED
    BY <1>6
<1> HIDE DEF chosen
<1> DEFINE h == [k \in 0..n |-> chosen[1..k]]
<1>8. \A k \in 0..n : h[k] = chosen[1..k]
  OBVIOUS
<1>9. DOMAIN h = 0..n /\ h = [k \in 0..n |-> h[k]]
  OBVIOUS
<1> HIDE DEF h
<1>10. h[0] = NoEpisode
  <2>1. 0 \in 0..n /\ 1..0 = {}
    BY <1>1, InitialSegments
  <2>2. chosen[{}] = NoEpisode
    BY <1>7
  <2> QED
    BY <1>8, <2>1, <2>2
<1>11. ASSUME NEW k \in 0..(n - 1)
       PROVE  h[k + 1] = On(h[k], k + 1)
  <2>1. k \in Nat /\ k \in 0..n /\ k + 1 \in 0..n
    BY <1>1
  <2> DEFINE t == 1..(k + 1)
  <2>2. t \in SUBSET DOMAIN s
    BY <1>1
  <2>3. t # {} /\ Max(t) = k + 1 /\ t \ {k + 1} = 1..k
    BY <2>1, InitialSegments
  <2> HIDE DEF t
  <2>4. chosen[t] = On(chosen[t \ {Max(t)}], Max(t))
    BY <1>7, <2>2, <2>3
  <2> QED
    BY <1>8, <2>1, <2>3, <2>4 DEF t
<1>12. Visits(h, s)
  BY <1>10, <1>11 DEF Visits, n, On
<1>13. Passed(s) = h[n]
  BY <1>1, <1>2, <1>8
<1> DEFINE typed == {k \in Nat : k <= n => h[k] \in Passing}
<1>14. \A k \in Nat : k \in typed
  <2>1. 0 \in typed
    BY <1>1, <1>10
  <2>2. ASSUME NEW k \in Nat, k \in typed
        PROVE  k + 1 \in typed
    <3> SUFFICES ASSUME k + 1 <= n
                 PROVE  h[k + 1] \in Passing
      OBVIOUS
    <3>1. k \in 0..(n - 1) /\ k + 1 \in 1..n /\ k <= n
      BY <1>1
    <3>2. h[k] \in Passing /\ h[k + 1] = On(h[k], k + 1)
      BY <1>11, <2>2, <3>1
    <3> QED
      BY <1>4, <3>1, <3>2
  <2> HIDE DEF typed
  <2> QED
    BY <2>1, <2>2, NatInduct
<1>15. h \in [0..n -> Passing]
  <2>1. \A k \in 0..n : h[k] \in Passing
    BY <1>14
  <2> QED
    BY <1>9, <2>1
<1> QED
  BY <1>12, <1>13, <1>15 DEF n

(* One run more is one visit more.                                         *)
LEMMA EpisodesGrow ==
  ASSUME NEW s \in Seq(Steps), NEW x \in Steps
  PROVE  Passed(Append(s, x)) = Visit(Passed(s), x) /\ Passed(s) \in Passing
<1> DEFINE n == Len(s)
           t == Append(s, x)
<1>1. /\ n \in Nat /\ t \in Seq(Steps) /\ Len(t) = n + 1 /\ t[n + 1] = x
      /\ \A k \in 1..n : t[k] = s[k]
  OBVIOUS
<1> HIDE DEF t
<1>2. PICK h \in [0..n -> Passing] : Visits(h, s) /\ Passed(s) = h[n]
  BY EpisodesFold
<1>3. PICK g \in [0..(n + 1) -> Passing] : Visits(g, t) /\ Passed(t) = g[n + 1]
  BY <1>1, EpisodesFold
<1> HIDE DEF n
<1> DEFINE S == {k \in Nat : k <= n => g[k] = h[k]}
<1>4. 0 \in S
  BY <1>2, <1>3 DEF Visits
<1>5. ASSUME NEW k \in Nat, k \in S
      PROVE  k + 1 \in S
  <2> SUFFICES ASSUME k + 1 <= n
               PROVE  g[k + 1] = h[k + 1]
    OBVIOUS
  <2>1. k \in 0..(n - 1) /\ k \in 0..n /\ k + 1 \in 1..n /\ g[k] = h[k]
    BY <1>1, <1>5
  <2>2. h[k + 1] = Visit(h[k], s[k + 1])
    BY <1>2, <2>1 DEF Visits, n
  <2>3. g[k + 1] = Visit(g[k], t[k + 1])
    BY <1>1, <1>3, <2>1 DEF Visits
  <2> QED
    BY <1>1, <2>1, <2>2, <2>3
<1> HIDE DEF S
<1>6. n \in S
  BY <1>1, <1>4, <1>5, NatInduct
<1>7. g[n] = h[n]
  BY <1>1, <1>6 DEF S
<1>8. g[n + 1] = Visit(g[n], t[n + 1])
  BY <1>1, <1>3 DEF Visits
<1>9. h[n] \in Passing
  BY <1>1, <1>2
<1> QED
  BY <1>1, <1>2, <1>3, <1>7, <1>8, <1>9 DEF t

(* Whether a run has the diagnostic, and steps that are numbered.          *)
At(steps, k) == steps[k].active # 0
Numbered(steps) == \A k \in DOMAIN steps : steps[k].to_run = k

(* A maximal stretch of active runs from its start to its last.            *)
Stretch(e, steps) ==
  /\ e \in Episode /\ 1 <= e.started /\ e.started <= e.last
  /\ e.observed = e.last + 1 - e.started
  /\ \A j \in e.started..e.last : At(steps, j)
  /\ e.started > 1 => ~At(steps, e.started - 1)

(* Episodes that are over: each ended in a run of its own, before the next *)
(* began.                                                                  *)
Over(episodes, steps, k) ==
  /\ \A e \in DOMAIN episodes :
       /\ Stretch(episodes[e], steps)
       /\ episodes[e].resolved = episodes[e].last + 1 /\ episodes[e].resolved <= k
       /\ ~At(steps, episodes[e].resolved)
  /\ \A e \in DOMAIN episodes : \A f \in DOMAIN episodes :
       f < e => episodes[f].resolved < episodes[e].started

(* The one that is open, if any, comes after them and reaches to now.      *)
Open(pass, steps, k) ==
  /\ Stretch(pass.current[1], steps)
  /\ pass.current[1].last = k /\ pass.current[1].resolved = NoRun
  /\ \A e \in DOMAIN pass.episodes : pass.episodes[e].resolved < pass.current[1].started

(* What the pass knows after k runs: the episodes that are over and the    *)
(* open one are the stretches so far, and every active run is in one.      *)
Visited(pass, steps, k) ==
  /\ Over(pass.episodes, steps, k)
  /\ pass.current # <<>> => Open(pass, steps, k)
  /\ pass.current # <<>> <=> (k > 0 /\ At(steps, k))
  /\ \A j \in 1..k : At(steps, j) =>
       \/ \E e \in DOMAIN pass.episodes : j \in pass.episodes[e].started..pass.episodes[e].last
       \/ pass.current # <<>> /\ j \in pass.current[1].started..pass.current[1].last

(* A run visited keeps what is said of the ones before.                    *)
LEMMA VisitKeeps ==
  ASSUME NEW steps \in Seq(Steps), Numbered(steps), NEW k \in Nat, k + 1 \in DOMAIN steps,
         NEW pass \in Passing, Visited(pass, steps, k)
  PROVE  Visited(Visit(pass, steps[k + 1]), steps, k + 1)
<1> DEFINE step == steps[k + 1]
           E == pass.episodes
           c == pass.current[1]
           after == Visit(pass, step)
           n == Len(steps)
<1>1. /\ step \in Steps /\ step.to_run = k + 1 /\ step.active \in Nat
      /\ At(steps, k + 1) <=> step.active # 0
      /\ E \in Seq(Episode) /\ pass.current \in Seq(Episode) /\ Len(pass.current) <= 1
      /\ pass.current # <<>> => c \in Episode
  <2>1. step \in Steps /\ step.to_run = k + 1
    BY DEF Numbered
  <2>2. step.active \in Nat
    BY <2>1 DEF Steps
  <2>3. /\ E \in Seq(Episode) /\ pass.current \in Seq(Episode) /\ Len(pass.current) <= 1
    BY DEF Passing
  <2>4. pass.current # <<>> => c \in Episode
    BY <2>3
  <2> QED
    BY <2>1, <2>2, <2>3, <2>4 DEF At
<1>2. /\ step.active # 0 => /\ after.episodes = E
                            /\ after.current = IF pass.current = <<>> THEN <<Opened(step)>>
                                               ELSE <<Extended(c, step)>>
      /\ step.active = 0 /\ pass.current = <<>> => after = pass
      /\ step.active = 0 /\ pass.current # <<>> =>
           /\ after.episodes = Append(E, [c EXCEPT !.resolved = step.to_run])
           /\ after.current = <<>>
      /\ after \in Passing
  BY <1>1, VisitFacts
<1>3. Over(E, steps, k + 1)
  <2>1. \A e \in DOMAIN E : E[e].resolved \in Nat
    <3>1. \A e \in DOMAIN E : E[e] \in Episode
      BY <1>1
    <3> QED
      BY <3>1 DEF Episode
  <2> QED
    BY <2>1 DEF Visited, Over
<1> HIDE DEF step, c, E, after
<1>4. CASE step.active # 0 /\ pass.current = <<>>
  <2> DEFINE o == Opened(step)
  <2>1. /\ after.episodes = E /\ after.current = <<o>> /\ after.current[1] = o /\ after.current # <<>>
    BY <1>2, <1>4
  <2>2. /\ o.started = k + 1 /\ o.last = k + 1 /\ o.resolved = NoRun /\ o.observed = 1
    BY <1>1 DEF Opened
  <2>3. o \in Episode
    <3>1. after.current \in Seq(Episode)
      BY <1>2 DEF Passing
    <3> QED
      BY <2>1, <3>1
  <2> HIDE DEF o
  <2>4. Stretch(o, steps)
    <3>1. \A j \in (k + 1)..(k + 1) : j = k + 1
      OBVIOUS
    <3>2. k > 0 => ~At(steps, k)
      BY <1>4 DEF Visited
    <3>3. o.observed = o.last + 1 - o.started /\ o.started - 1 = k /\ (o.started > 1 => k > 0)
      BY <2>2
    <3>4. \A j \in o.started..o.last : At(steps, j)
      BY <1>1, <1>4, <2>2, <3>1
    <3> QED
      BY <2>2, <2>3, <3>2, <3>3, <3>4 DEF Stretch
  <2>5. \A e \in DOMAIN E : E[e].resolved < o.started
    <3> TAKE e \in DOMAIN E
    <3>1. E[e].resolved <= k /\ E[e] \in Episode
      BY <1>1 DEF Visited, Over, E
    <3>2. E[e].resolved \in Nat
      BY <3>1 DEF Episode
    <3> QED
      BY <2>2, <3>1, <3>2
  <2>6. Open(after, steps, k + 1)
    BY <2>1, <2>2, <2>4, <2>5 DEF Open
  <2>7. \A j \in 1..(k + 1) : At(steps, j) =>
           \/ \E e \in DOMAIN E : j \in E[e].started..E[e].last
           \/ j \in o.started..o.last
    <3> TAKE j \in 1..(k + 1)
    <3>1. CASE j = k + 1
      BY <2>2, <3>1
    <3>2. CASE j # k + 1
      <4>1. j \in 1..k
        BY <3>2
      <4> QED
        BY <1>4, <4>1 DEF Visited, E
    <3> QED
      BY <3>1, <3>2
  <2>8. k + 1 > 0 /\ At(steps, k + 1)
    BY <1>1, <1>4
  <2> QED
    BY <1>3, <2>1, <2>6, <2>7, <2>8 DEF Visited, after, step
<1>5. CASE step.active # 0 /\ pass.current # <<>>
  <2> DEFINE o == Extended(c, step)
  <2>1. after.episodes = E /\ after.current = <<o>> /\ after.current[1] = o /\ after.current # <<>>
    <3>1. after.episodes = E /\ after.current = <<o>>
      BY <1>2, <1>5
    <3> HIDE DEF o
    <3> QED
      BY <3>1
  <2>2. /\ c \in Episode /\ Stretch(c, steps) /\ c.last = k /\ c.resolved = NoRun
        /\ \A e \in DOMAIN E : E[e].resolved < c.started
    BY <1>1, <1>5 DEF Visited, Open, E, c
  <2>3. /\ o.started = c.started /\ o.last = k + 1 /\ o.resolved = NoRun
        /\ o.observed = c.observed + 1
    BY <1>1, <2>2 DEF Extended, Episode
  <2>4. o \in Episode
    <3>1. after.current \in Seq(Episode)
      BY <1>2 DEF Passing
    <3> QED
      BY <2>1, <3>1
  <2>5. c.started \in Nat /\ c.observed \in Nat
    BY <2>2 DEF Episode
  <2> HIDE DEF o
  <2>6. Stretch(o, steps)
    <3>1. \A j \in o.started..o.last : At(steps, j)
      <4> TAKE j \in o.started..o.last
      <4>1. j = k + 1 \/ j \in c.started..c.last
        BY <2>2, <2>3, <2>5
      <4> QED
        BY <1>1, <1>5, <2>2, <4>1 DEF Stretch
    <3>2. o.started > 1 => ~At(steps, o.started - 1)
      BY <2>2, <2>3 DEF Stretch
    <3>3. 1 <= o.started /\ o.started <= o.last /\ o.observed = o.last + 1 - o.started
      BY <2>2, <2>3, <2>5 DEF Stretch
    <3> QED
      BY <2>4, <3>1, <3>2, <3>3 DEF Stretch
  <2>7. Open(after, steps, k + 1)
    BY <2>1, <2>2, <2>3, <2>6 DEF Open
  <2>8. \A j \in 1..(k + 1) : At(steps, j) =>
           \/ \E e \in DOMAIN E : j \in E[e].started..E[e].last
           \/ j \in o.started..o.last
    <3> TAKE j \in 1..(k + 1)
    <3>1. CASE j = k + 1
      <4>1. c.started <= k + 1
        BY <2>2, <2>5 DEF Stretch
      <4> QED
        BY <2>3, <2>5, <3>1, <4>1
    <3>2. CASE j # k + 1
      <4>1. j \in 1..k
        BY <3>2
      <4>2. j \in c.started..c.last => j \in o.started..o.last
        BY <2>2, <2>3, <2>5
      <4> QED
        BY <1>5, <4>1, <4>2 DEF Visited, E, c
    <3> QED
      BY <3>1, <3>2
  <2>9. k + 1 > 0 /\ At(steps, k + 1)
    BY <1>1, <1>5
  <2> QED
    BY <1>3, <2>1, <2>7, <2>8, <2>9 DEF Visited, after, step
<1>6. CASE step.active = 0 /\ pass.current # <<>>
  <2> DEFINE o == [c EXCEPT !.resolved = step.to_run]
  <2>1. after.episodes = Append(E, o) /\ after.current = <<>>
    BY <1>2, <1>6
  <2>2. /\ c \in Episode /\ Stretch(c, steps) /\ c.last = k /\ c.resolved = NoRun
        /\ \A e \in DOMAIN E : E[e].resolved < c.started
    BY <1>1, <1>6 DEF Visited, Open, E, c
  <2>3. /\ o.started = c.started /\ o.last = k /\ o.resolved = k + 1 /\ o.observed = c.observed
        /\ o \in Episode
    BY <1>1, <2>2 DEF Episode
  <2>4. Stretch(o, steps)
    BY <2>2, <2>3 DEF Stretch
  <2> HIDE DEF o
  <2> DEFINE F == Append(E, o)
             m == Len(E)
  <2>5. /\ m \in Nat /\ DOMAIN E = 1..m /\ DOMAIN F = 1..(m + 1)
        /\ F[m + 1] = o /\ \A e \in 1..m : F[e] = E[e]
    BY <1>1, <2>3
  <2> HIDE DEF F, m
  <2>6. Over(F, steps, k + 1)
    <3>1. ASSUME NEW e \in 1..(m + 1)
          PROVE  /\ Stretch(F[e], steps)
                 /\ F[e].resolved = F[e].last + 1 /\ F[e].resolved <= k + 1
                 /\ ~At(steps, F[e].resolved)
      <4>1. CASE e = m + 1
        BY <1>1, <1>6, <2>3, <2>4, <2>5, <4>1
      <4>2. CASE e # m + 1
        <5>1. e \in 1..m
          BY <2>5, <4>2
        <5> QED
          BY <1>3, <2>5, <5>1 DEF Over
      <4> QED
        BY <4>1, <4>2
    <3>2. ASSUME NEW e \in 1..(m + 1), NEW f \in 1..(m + 1), f < e
          PROVE  F[f].resolved < F[e].started
      <4>1. f \in 1..m
        BY <2>5, <3>2
      <4>2. CASE e = m + 1
        BY <2>2, <2>3, <2>5, <4>1, <4>2
      <4>3. CASE e # m + 1
        <5>1. e \in 1..m
          BY <2>5, <4>3
        <5> QED
          BY <1>3, <2>5, <3>2, <4>1, <5>1 DEF Over
      <4> QED
        BY <4>2, <4>3
    <3> QED
      BY <2>5, <3>1, <3>2 DEF Over
  <2>7. \A j \in 1..(k + 1) : At(steps, j) => \E e \in DOMAIN F : j \in F[e].started..F[e].last
    <3> SUFFICES ASSUME NEW j \in 1..(k + 1), At(steps, j)
                 PROVE  \E e \in DOMAIN F : j \in F[e].started..F[e].last
      OBVIOUS
    <3>1. j \in 1..k
      BY <1>1, <1>6
    <3>2. CASE \E e \in DOMAIN E : j \in E[e].started..E[e].last
      <4>1. PICK e \in DOMAIN E : j \in E[e].started..E[e].last
        BY <3>2
      <4>2. e \in DOMAIN F /\ F[e] = E[e]
        BY <2>5
      <4> QED
        BY <4>1, <4>2
    <3>3. CASE j \in c.started..c.last
      <4>1. m + 1 \in DOMAIN F /\ j \in F[m + 1].started..F[m + 1].last
        BY <2>2, <2>3, <2>5, <3>3
      <4> QED
        BY <4>1
    <3> QED
      BY <3>1, <3>2, <3>3 DEF Visited, E, c
  <2>8. ~At(steps, k + 1)
    BY <1>1, <1>6
  <2> QED
    BY <2>1, <2>6, <2>7, <2>8 DEF Visited, after, step, F
<1>7. CASE step.active = 0 /\ pass.current = <<>>
  <2>1. after = pass
    BY <1>2, <1>7
  <2>2. ~At(steps, k + 1)
    BY <1>1, <1>7
  <2>3. \A j \in 1..(k + 1) : At(steps, j) => \E e \in DOMAIN E : j \in E[e].started..E[e].last
    <3> TAKE j \in 1..(k + 1)
    <3>1. j # k + 1 => j \in 1..k
      OBVIOUS
    <3> QED
      BY <1>7, <2>2, <3>1 DEF Visited, E
  <2> QED
    BY <1>3, <1>7, <2>1, <2>2, <2>3 DEF Visited, after, step, E
<1> QED
  BY <1>1, <1>4, <1>5, <1>6, <1>7

(* The case file's episodes are what they should be.                       *)
LEMMA EpisodesAre ==
  ASSUME NEW steps \in Seq(Steps), Numbered(steps)
  PROVE  Passed(steps) \in Passing /\ Visited(Passed(steps), steps, Len(steps))
<1> DEFINE n == Len(steps)
<1>1. n \in Nat /\ DOMAIN steps = 1..n
  OBVIOUS
<1> HIDE DEF n
<1>2. PICK h \in [0..n -> Passing] : Visits(h, steps) /\ Passed(steps) = h[n]
  BY EpisodesFold DEF n
<1> DEFINE S == {k \in Nat : k <= n => Visited(h[k], steps, k)}
<1>3. 0 \in S
  <2>1. h[0] = NoEpisode
    BY <1>2 DEF Visits
  <2>2. Visited(NoEpisode, steps, 0)
    BY DEF Visited, Over, Open, NoEpisode
  <2> QED
    BY <2>1, <2>2
<1>4. ASSUME NEW k \in Nat, k \in S
      PROVE  k + 1 \in S
  <2> SUFFICES ASSUME k + 1 <= n
               PROVE  Visited(h[k + 1], steps, k + 1)
    OBVIOUS
  <2>1. k \in 0..(n - 1) /\ k \in 0..n /\ k + 1 \in 1..n /\ Visited(h[k], steps, k)
    BY <1>1, <1>4
  <2>2. h[k + 1] = Visit(h[k], steps[k + 1])
    BY <1>2, <2>1 DEF Visits, n
  <2> QED
    BY <1>1, <1>2, <2>1, <2>2, VisitKeeps
<1> HIDE DEF S
<1>5. n \in S
  BY <1>1, <1>3, <1>4, NatInduct
<1> QED
  BY <1>1, <1>2, <1>5 DEF S, n

(* The episodes of a lineage: its maximal stretches, in order.             *)
Stretches(all, steps) ==
  /\ all \in Seq(Episode)
  /\ \A e \in DOMAIN all :
       /\ Stretch(all[e], steps) /\ all[e].last <= Len(steps)
       /\ IF e = Len(all) /\ Len(steps) > 0 /\ At(steps, Len(steps))
          THEN all[e].resolved = NoRun /\ all[e].last = Len(steps)
          ELSE /\ all[e].resolved = all[e].last + 1 /\ all[e].resolved <= Len(steps)
               /\ ~At(steps, all[e].resolved)
  /\ \A e \in DOMAIN all : \A f \in DOMAIN all :
       f < e => all[f].resolved = all[f].last + 1 /\ all[f].resolved < all[e].started
  /\ \A j \in 1..Len(steps) : At(steps, j) => \E e \in DOMAIN all : j \in all[e].started..all[e].last

(* The episodes the pass builds are these.                                 *)
LEMMA StretchesFacts ==
  ASSUME NEW steps \in Seq(Steps), Numbered(steps)
  PROVE  Stretches(BuildEpisodes(steps), steps)
<1> DEFINE pass == Passed(steps)
           E == pass.episodes
           C == pass.current
           all == E \o C
           n == Len(steps)
           m == Len(E)
<1>1. BuildEpisodes(steps) = all
  BY DEF BuildEpisodes, Passed
<1>2. pass \in Passing /\ Visited(pass, steps, n)
  BY EpisodesAre
<1>3. E \in Seq(Episode) /\ C \in Seq(Episode) /\ Len(C) <= 1 /\ m \in Nat /\ n \in Nat
  BY <1>2 DEF Passing
<1> HIDE DEF pass, n
<1>4. /\ Over(E, steps, n)
      /\ C # <<>> => Open(pass, steps, n)
      /\ C # <<>> <=> (n > 0 /\ At(steps, n))
      /\ \A j \in 1..n : At(steps, j) =>
           \/ \E e \in DOMAIN E : j \in E[e].started..E[e].last
           \/ C # <<>> /\ j \in C[1].started..C[1].last
  BY <1>2 DEF Visited
<1>5. \A e \in DOMAIN E : E[e] \in Episode /\ E[e].last \in Nat
  <2>1. \A e \in DOMAIN E : E[e] \in Episode
    BY <1>3
  <2> QED
    BY <2>1 DEF Episode
<1>6. CASE C = <<>>
  <2>1. all = E
    BY <1>3, <1>6
  <2>2. \A e \in DOMAIN E :
           /\ Stretch(E[e], steps) /\ E[e].last <= n
           /\ E[e].resolved = E[e].last + 1 /\ E[e].resolved <= n /\ ~At(steps, E[e].resolved)
    BY <1>3, <1>4, <1>5 DEF Over
  <2>3. \A e \in DOMAIN E : \A f \in DOMAIN E :
           f < e => E[f].resolved = E[f].last + 1 /\ E[f].resolved < E[e].started
    BY <1>4 DEF Over
  <2>4. \A j \in 1..n : At(steps, j) => \E e \in DOMAIN E : j \in E[e].started..E[e].last
    BY <1>4, <1>6
  <2>5. ~(n > 0 /\ At(steps, n))
    BY <1>4, <1>6
  <2> HIDE DEF E, all, C, m
  <2>6. Stretches(E, steps)
    BY <1>3, <2>2, <2>3, <2>4, <2>5 DEF Stretches, n
  <2> QED
    BY <1>1, <2>1, <2>6
<1>7. CASE C # <<>>
  <2> DEFINE c == C[1]
  <2>1. /\ DOMAIN all = 1..(m + 1) /\ all[m + 1] = c /\ Len(all) = m + 1 /\ DOMAIN E = 1..m
        /\ \A e \in 1..m : all[e] = E[e]
        /\ all \in Seq(Episode)
    <3>1. C = <<c>>
      BY <1>3, <1>7
    <3>2. c \in Episode
      BY <1>3, <1>7
    <3>3. all = E \o <<c>>
      BY <3>1
    <3> HIDE DEF E, C, all, c
    <3> QED
      BY <1>3, <3>2, <3>3
  <2>2. /\ Stretch(c, steps) /\ c.last = n /\ c.resolved = NoRun
        /\ \A e \in 1..m : E[e].resolved < c.started
    BY <1>4, <1>7, <2>1 DEF Open
  <2>3. n > 0 /\ At(steps, n)
    BY <1>4, <1>7
  <2> HIDE DEF E, all, C, m, c
  <2>4. ASSUME NEW e \in 1..(m + 1)
        PROVE  /\ Stretch(all[e], steps) /\ all[e].last <= n
               /\ IF e = m + 1
                  THEN all[e].resolved = NoRun /\ all[e].last = n
                  ELSE /\ all[e].resolved = all[e].last + 1 /\ all[e].resolved <= n
                       /\ ~At(steps, all[e].resolved)
    <3>1. CASE e = m + 1
      BY <1>3, <2>1, <2>2, <3>1
    <3>2. CASE e # m + 1
      <4>1. e \in 1..m
        BY <1>3, <3>2
      <4> QED
        <5>1. /\ Stretch(E[e], steps) /\ E[e].resolved = E[e].last + 1 /\ E[e].resolved <= n
              /\ ~At(steps, E[e].resolved) /\ E[e].last \in Nat
          BY <1>4, <1>5, <2>1, <4>1 DEF Over
        <5>2. all[e] = E[e] /\ E[e].last <= n
          BY <1>3, <2>1, <4>1, <5>1
        <5> QED
          BY <3>2, <5>1, <5>2
    <3> QED
      BY <3>1, <3>2
  <2>5. ASSUME NEW e \in 1..(m + 1), NEW f \in 1..(m + 1), f < e
        PROVE  all[f].resolved = all[f].last + 1 /\ all[f].resolved < all[e].started
    <3>1. f \in 1..m
      BY <1>3, <2>5
    <3>2. CASE e = m + 1
      BY <1>4, <2>1, <2>2, <3>1, <3>2 DEF Over
    <3>3. CASE e # m + 1
      <4>1. e \in 1..m
        BY <1>3, <3>3
      <4> QED
        BY <1>4, <2>1, <2>5, <3>1, <4>1 DEF Over
    <3> QED
      BY <3>2, <3>3
  <2>6. ASSUME NEW j \in 1..n, At(steps, j)
        PROVE  \E e \in 1..(m + 1) : j \in all[e].started..all[e].last
    <3>1. CASE \E e \in DOMAIN E : j \in E[e].started..E[e].last
      <4>1. PICK e \in 1..m : j \in E[e].started..E[e].last
        BY <2>1, <3>1
      <4>2. e \in 1..(m + 1) /\ all[e] = E[e]
        BY <1>3, <2>1
      <4> QED
        BY <4>1, <4>2
    <3>2. CASE j \in c.started..c.last
      <4>1. m + 1 \in 1..(m + 1)
        BY <1>3
      <4> QED
        BY <2>1, <3>2, <4>1
    <3> QED
      BY <1>4, <2>6, <3>1, <3>2 DEF c
  <2>7. Stretches(all, steps)
    BY <2>1, <2>3, <2>4, <2>5, <2>6 DEF Stretches, n
  <2> QED
    BY <1>1, <2>7
<1> QED
  BY <1>6, <1>7

(* A run more leaves the episodes that are over, and the start of any.     *)
LEMMA EpisodesStay ==
  ASSUME NEW s \in Seq(Steps), Numbered(s), NEW x \in Steps
  PROVE  LET before == BuildEpisodes(s)
             after  == BuildEpisodes(Append(s, x))
         IN  /\ Len(before) <= Len(after)
             /\ \A e \in DOMAIN before :
                  /\ before[e].resolved # NoRun => after[e] = before[e]
                  /\ after[e].started = before[e].started
<1> DEFINE pass == Passed(s)
           E == pass.episodes
           C == pass.current
           next == Visit(pass, x)
           before == BuildEpisodes(s)
           after == BuildEpisodes(Append(s, x))
           n == Len(s)
           m == Len(E)
<1>1. pass \in Passing /\ Visited(pass, s, n) /\ Passed(Append(s, x)) = next
  BY EpisodesAre, EpisodesGrow
<1>2. before = E \o C /\ after = next.episodes \o next.current
  BY <1>1 DEF BuildEpisodes, Passed
<1>3. E \in Seq(Episode) /\ C \in Seq(Episode) /\ Len(C) <= 1 /\ m \in Nat /\ n \in Nat
      /\ x.active \in Nat /\ DOMAIN E = 1..m
  BY <1>1 DEF Passing, Steps
<1>4. /\ next \in Passing
      /\ x.active # 0 => /\ next.episodes = E
                         /\ next.current = IF C = <<>> THEN <<Opened(x)>> ELSE <<Extended(C[1], x)>>
      /\ x.active = 0 /\ C = <<>> => next = pass
      /\ x.active = 0 /\ C # <<>> =>
           /\ next.episodes = Append(E, [C[1] EXCEPT !.resolved = x.to_run])
           /\ next.current = <<>>
  BY <1>1, VisitFacts
<1>5. C # <<>> => C[1].resolved = NoRun /\ C[1] \in Episode
  BY <1>1, <1>3 DEF Visited, Open
<1>6. next.episodes \in Seq(Episode) /\ next.current \in Seq(Episode)
  BY <1>4 DEF Passing
<1> HIDE DEF pass, next, before, after, n
<1>7. CASE C = <<>>
  <2>1. before = E
    BY <1>2, <1>3, <1>7
  <2>2. Len(E) <= Len(after) /\ \A e \in 1..m : after[e] = E[e]
    <3>1. next.episodes = E
      BY <1>3, <1>4, <1>7
    <3> DEFINE D == next.current
    <3> HIDE DEF D
    <3>2. after = E \o D /\ D \in Seq(Episode)
      BY <1>2, <1>6, <3>1 DEF D
    <3> HIDE DEF E
    <3> QED
      BY <1>3, <3>2
  <2> QED
    BY <1>3, <2>1, <2>2 DEF before, after
<1>8. CASE C # <<>>
  <2> DEFINE c == C[1]
  <2>1. before = Append(E, c) /\ c \in Episode /\ c.resolved = NoRun
    <3>1. C = <<c>>
      BY <1>3, <1>8
    <3>2. c \in Episode /\ c.resolved = NoRun
      BY <1>5, <1>8
    <3> HIDE DEF c, C
    <3>3. before = Append(E, c)
      BY <1>2, <1>3, <3>1, <3>2
    <3> QED
      BY <3>2, <3>3
  <2> HIDE DEF c
  <2>2. \E o \in Episode : after = Append(E, o) /\ o.started = c.started
    <3>1. CASE x.active # 0
      <4> DEFINE o == Extended(c, x)
      <4>1. next.episodes = E /\ next.current = <<o>>
        BY <1>4, <1>8, <3>1 DEF c
      <4>2. o.started = c.started
        BY <2>1 DEF Extended, Episode
      <4> HIDE DEF o
      <4>3. o \in Episode
        BY <1>6, <4>1
      <4>4. after = Append(E, o)
        BY <1>2, <1>3, <4>1
      <4> QED
        BY <4>2, <4>3, <4>4
    <3>2. CASE x.active = 0
      <4> DEFINE o == [c EXCEPT !.resolved = x.to_run]
      <4>1. next.episodes = Append(E, o) /\ next.current = <<>>
        BY <1>4, <1>8, <3>2 DEF c
      <4>2. o.started = c.started
        BY <2>1 DEF Episode
      <4>3. o \in Episode
        <5>1. x.to_run \in Nat
          BY DEF Steps
        <5> QED
          BY <2>1, <5>1 DEF Episode
      <4> HIDE DEF o
      <4>4. after = Append(E, o)
        BY <1>2, <1>3, <1>6, <4>1
      <4> QED
        BY <4>2, <4>3, <4>4
    <3> QED
      BY <1>3, <3>1, <3>2
  <2>3. PICK o \in Episode : after = Append(E, o) /\ o.started = c.started
    BY <2>2
  <2> HIDE DEF E
  <2>4. /\ DOMAIN before = 1..(m + 1) /\ Len(before) = m + 1 /\ Len(after) = m + 1
        /\ before[m + 1] = c /\ after[m + 1] = o
        /\ \A e \in 1..m : before[e] = after[e]
    BY <1>3, <2>1, <2>3
  <2>5. ASSUME NEW e \in 1..(m + 1)
        PROVE  /\ before[e].resolved # NoRun => after[e] = before[e]
               /\ after[e].started = before[e].started
    <3>1. e = m + 1 \/ e \in 1..m
      BY <1>3
    <3> QED
      BY <2>1, <2>3, <2>4, <3>1
  <2>6. Len(before) <= Len(after)
    BY <1>3, <2>4
  <2> QED
    BY <2>4, <2>5, <2>6 DEF before, after
<1> QED
  BY <1>7, <1>8

-----------------------------------------------------------------------------
(* The timeline                                                            *)

(* What a row may be, and the row of one run.                              *)
Rows == [phase   : {"Active", "Absent", "Unseen"},
         episode : Nat,
         events  : SUBSET {"FirstSeen", "Reappeared", "Changed", "SeverityIncreased",
                           "Persisting", "Resolved"}]

Row(steps, k) == [phase |-> Phase(steps, k), episode |-> EpisodeOf(steps, k), events |-> Events(steps, k)]

(* The rows are numbered and each is what its run gives.                   *)
LEMMA TimelineFacts ==
  ASSUME Ordered, NEW log \in Seq(Report), NEW fp \in Fingerprints
  PROVE  LET rows == Timeline(log, fp)
         IN  /\ rows \in Seq(Rows) /\ Len(rows) = Len(log) /\ DOMAIN rows = 1..Len(log)
             /\ \A k \in 1..Len(log) : rows[k] = Row(Lineage(log, fp), k)
<1> DEFINE n == Len(log)
           steps == Lineage(log, fp)
           made == [k \in DOMAIN log |-> Row(steps, k)]
<1>1. n \in Nat /\ DOMAIN log = 1..n
  OBVIOUS
<1>2. Timeline(log, fp) = <<>> \o made
  BY DEF Timeline, Row
<1> HIDE DEF steps
<1>3. ASSUME NEW k \in 1..n
      PROVE  Row(steps, k) \in Rows
  <2>1. Phase(steps, k) \in {"Active", "Absent", "Unseen"}
    BY DEF Phase
  <2>2. EpisodeOf(steps, k) \in Nat
    <3> DEFINE begun == {j \in 1..k : steps[j].active # 0 /\ (j > 1 => steps[j - 1].active = 0)}
    <3>1. IsFiniteSet(begun)
      <4>1. IsFiniteSet(1..k) /\ begun \subseteq 1..k
        BY FS_Interval
      <4> QED
        BY <4>1, FS_Subset
    <3>2. Cardinality(begun) \in Nat
      BY <3>1, FS_CardinalityType
    <3>3. EpisodeOf(steps, k) = IF steps[k].active = 0 THEN NoRun ELSE Cardinality(begun)
      BY DEF EpisodeOf
    <3> QED
      BY <3>2, <3>3 DEF NoRun
  <2>3. Events(steps, k) \in SUBSET {"FirstSeen", "Reappeared", "Changed", "SeverityIncreased",
                                     "Persisting", "Resolved"}
    BY DEF Events
  <2> QED
    BY <2>1, <2>2, <2>3 DEF Row, Rows
<1>4. made \in [1..n -> Rows] /\ \A k \in 1..n : made[k] = Row(steps, k)
  BY <1>1, <1>3
<1> HIDE DEF made, n
<1>5. made \in Seq(Rows) /\ Len(made) = n /\ DOMAIN made = 1..n /\ <<>> \o made = made
  BY <1>1, <1>4
<1> QED
  BY <1>1, <1>2, <1>4, <1>5 DEF n, steps

(* A row depends on its run and the ones before only.                      *)
LEMMA RowStays ==
  ASSUME NEW s, NEW t, NEW k \in Nat, \A j \in 1..k : s[j] = t[j], k > 0
  PROVE  Row(s, k) = Row(t, k)
<1>1. s[k] = t[k] /\ (k > 1 => s[k - 1] = t[k - 1])
  OBVIOUS
<1>2. \A j \in 1..(k - 1) : s[j] = t[j]
  OBVIOUS
<1>3. Phase(s, k) = Phase(t, k)
  BY <1>1, <1>2 DEF Phase
<1>4. EpisodeOf(s, k) = EpisodeOf(t, k)
  <2>1. {j \in 1..k : s[j].active # 0 /\ (j > 1 => s[j - 1].active = 0)}
          = {j \in 1..k : t[j].active # 0 /\ (j > 1 => t[j - 1].active = 0)}
    OBVIOUS
  <2> QED
    BY <1>1, <2>1 DEF EpisodeOf
<1>5. Events(s, k) = Events(t, k)
  BY <1>1, <1>2 DEF Events
<1> QED
  BY <1>3, <1>4, <1>5 DEF Row

(* A run recorded adds a step to each lineage.                             *)
LEMMA LineageGrows ==
  ASSUME Ordered, NEW log \in Seq(Report), NEW r \in Report, NEW fp \in Fingerprints
  PROVE  /\ Append(log, r) \in Seq(Report)
         /\ Lineage(log, fp) \in Seq(Steps) /\ Numbered(Lineage(log, fp))
         /\ \E x \in Steps : Lineage(Append(log, r), fp) = Append(Lineage(log, fp), x)
<1> DEFINE n == Len(log)
           more == Append(log, r)
           s == Lineage(log, fp)
           t == Lineage(more, fp)
<1>1. /\ n \in Nat /\ more \in Seq(Report) /\ Len(more) = n + 1 /\ DOMAIN more = 1..(n + 1)
      /\ DOMAIN log = 1..n /\ \A k \in 1..n : more[k] = log[k]
  OBVIOUS
<1> HIDE DEF more
<1>2. /\ s \in Seq(Steps) /\ Len(s) = n /\ DOMAIN s = 1..n
      /\ \A k \in 1..n : s[k] = LineageStep(log, fp, k) /\ s[k].to_run = k
  BY <1>1, LineageFacts
<1>3. /\ t \in Seq(Steps) /\ Len(t) = n + 1 /\ DOMAIN t = 1..(n + 1)
      /\ \A k \in 1..(n + 1) : t[k] = LineageStep(more, fp, k)
  BY <1>1, LineageFacts
<1>4. \A k \in 1..n : t[k] = s[k]
  <2> TAKE k \in 1..n
  <2>1. more[k] = log[k] /\ (k # 1 => more[k - 1] = log[k - 1]) /\ k \in 1..(n + 1)
    BY <1>1
  <2>2. LineageStep(more, fp, k) = LineageStep(log, fp, k)
    BY <2>1 DEF LineageStep, Counted
  <2> QED
    BY <1>2, <1>3, <2>1, <2>2
<1> HIDE DEF s, t, n
<1>5. t = Append(s, t[n + 1]) /\ t[n + 1] \in Steps
  BY <1>1, <1>2, <1>3, <1>4
<1>6. Numbered(s)
  BY <1>2 DEF Numbered
<1> QED
  BY <1>1, <1>2, <1>5, <1>6 DEF s, t, more

(* A run more leaves the rows there were as they are.                      *)
LEMMA TimelineStays ==
  ASSUME Ordered, NEW log \in Seq(Report), NEW r \in Report, NEW fp \in Fingerprints
  PROVE  IsPrefix(Timeline(log, fp), Timeline(Append(log, r), fp))
<1> DEFINE n == Len(log)
           more == Append(log, r)
           s == Lineage(log, fp)
           t == Lineage(more, fp)
           before == Timeline(log, fp)
           after == Timeline(more, fp)
<1>1. n \in Nat /\ more \in Seq(Report) /\ Len(more) = n + 1
  OBVIOUS
<1>2. PICK x \in Steps : t = Append(s, x) /\ s \in Seq(Steps)
  BY LineageGrows
<1>3. Len(s) = n
  BY LineageFacts
<1> HIDE DEF more
<1>4. /\ before \in Seq(Rows) /\ Len(before) = n /\ \A k \in 1..n : before[k] = Row(s, k)
  BY TimelineFacts
<1>5. /\ after \in Seq(Rows) /\ Len(after) = n + 1 /\ \A k \in 1..(n + 1) : after[k] = Row(t, k)
  BY <1>1, TimelineFacts
<1> HIDE DEF s, t, before, after, n
<1>6. \A k \in 1..n : Row(s, k) = Row(t, k)
  <2> TAKE k \in 1..n
  <2>1. \A j \in 1..k : s[j] = t[j]
    BY <1>1, <1>2, <1>3
  <2> QED
    BY <1>1, <2>1, RowStays
<1>7. \A k \in 1..n : before[k] = after[k]
  BY <1>1, <1>4, <1>5, <1>6
<1>8. IsPrefix(before, after)
  BY <1>1, <1>4, <1>5, <1>7, PrefixPointwise
<1> QED
  BY <1>8 DEF before, after, more

(* What PastIsFinal says of one step.                                      *)
PastStays ==
  \A fp \in Known :
    LET before == BuildEpisodes(Lineage(runs, fp))
        after  == BuildEpisodes(Lineage(runs', fp))
    IN  /\ IsPrefix(Timeline(runs, fp), Timeline(runs', fp))
        /\ Len(before) <= Len(after)
        /\ \A e \in DOMAIN before :
             /\ before[e].resolved # NoRun => after[e] = before[e]
             /\ after[e].started = before[e].started

(* Recording a run keeps the past.                                         *)
LEMMA StepsKeepPast ==
  ASSUME Ordered, runs \in Seq(Report), Next
  PROVE  PastStays
<1>1. PICK r \in Reports : runs' = Append(runs, r) /\ order' = order
  BY DEF Next, Record
<1>2. r \in Report
  BY ReportsFacts
<1> DEFINE more == Append(runs, r)
<1>3. ASSUME NEW fp \in Fingerprints
      PROVE  LET before == BuildEpisodes(Lineage(runs, fp))
                 after  == BuildEpisodes(Lineage(more, fp))
             IN  /\ IsPrefix(Timeline(runs, fp), Timeline(more, fp))
                 /\ Len(before) <= Len(after)
                 /\ \A e \in DOMAIN before :
                      /\ before[e].resolved # NoRun => after[e] = before[e]
                      /\ after[e].started = before[e].started
  <2>1. IsPrefix(Timeline(runs, fp), Timeline(more, fp))
    BY <1>2, TimelineStays
  <2>2. PICK x \in Steps : Lineage(more, fp) = Append(Lineage(runs, fp), x)
    BY <1>2, LineageGrows
  <2>3. Lineage(runs, fp) \in Seq(Steps) /\ Numbered(Lineage(runs, fp))
    BY <1>2, LineageGrows
  <2> QED
    BY <2>1, <2>2, <2>3, EpisodesStay
<1> QED
  BY <1>1, <1>3 DEF PastStays, Known

(* A step that records nothing keeps it too.                               *)
LEMMA NothingKeepsPast ==
  ASSUME Ordered, runs \in Seq(Report), UNCHANGED vars
  PROVE  PastStays
<1>1. runs' = runs
  BY DEF vars
<1>2. ASSUME NEW fp \in Fingerprints
      PROVE  LET before == BuildEpisodes(Lineage(runs, fp))
             IN  /\ IsPrefix(Timeline(runs, fp), Timeline(runs, fp))
                 /\ Len(before) <= Len(before)
                 /\ \A e \in DOMAIN before :
                      /\ before[e].resolved # NoRun => before[e] = before[e]
                      /\ before[e].started = before[e].started
  <2> DEFINE before == BuildEpisodes(Lineage(runs, fp))
             rows == Timeline(runs, fp)
  <2>1. rows \in Seq(Rows)
    BY TimelineFacts
  <2>2. before \in Seq(Episode)
    <3>1. Lineage(runs, fp) \in Seq(Steps) /\ Numbered(Lineage(runs, fp))
      BY LineageFacts DEF Numbered
    <3> QED
      BY <3>1, StretchesFacts DEF Stretches
  <2> HIDE DEF before, rows
  <2>3. IsPrefix(rows, rows) /\ Len(before) <= Len(before)
    <3>1. Len(rows) <= Len(rows) /\ Len(before) <= Len(before)
      BY <2>1, <2>2
    <3> QED
      BY <2>1, <3>1, PrefixPointwise
  <2> QED
    BY <2>3 DEF before, rows
<1> QED
  BY <1>1, <1>2 DEF PastStays, Known

(* What a forensic report says of the past is final: a run more appends a  *)
(* row to each timeline, keeps every episode that is over, and never moves *)
(* the start of one (PastIsFinal), for any history of any length           *)
(* (forensics.rs).                                                         *)
THEOREM PastHolds == Spec => PastIsFinal
<1>1. Ordered /\ runs \in Seq(Report) /\ [Next]_vars => [PastStays]_vars
  BY StepsKeepPast, NothingKeepsPast
<1>2. [PastStays]_vars <=> [\A fp \in Known :
       LET before == BuildEpisodes(Lineage(runs, fp))
           after  == BuildEpisodes(Lineage(runs', fp))
       IN  /\ IsPrefix(Timeline(runs, fp), Timeline(runs', fp))
           /\ Len(before) <= Len(after)
           /\ \A e \in DOMAIN before :
                /\ before[e].resolved # NoRun => after[e] = before[e]
                /\ after[e].started = before[e].started]_vars
  BY DEF PastStays
<1> QED
  BY <1>1, <1>2, RecordsHold, PTL DEF Spec, PastIsFinal

-----------------------------------------------------------------------------
(* One story                                                               *)

(* A set that is counted off has as many members as were counted.          *)
LEMMA CountedOff ==
  ASSUME NEW n \in Nat, NEW f, DOMAIN f = 1..n, \A i, j \in 1..n : f[i] = f[j] => i = j,
         NEW S, \A x : x \in S <=> \E i \in 1..n : f[i] = x
  PROVE  IsFiniteSet(S) /\ Cardinality(S) = n
<1> DEFINE g == [i \in 1..n |-> f[i]]
<1>1. g \in [1..n -> S] /\ \A i \in 1..n : g[i] = f[i]
  OBVIOUS
<1>2. \A a, b \in 1..n : g[a] = g[b] => a = b
  BY <1>1
<1>3. \A t \in S : \E i \in 1..n : g[i] = t
  BY <1>1
<1> HIDE DEF g
<1>4. g \in Bijection(1..n, S)
  BY <1>1, <1>2, <1>3 DEF Bijection, Injection, Surjection, IsInjective
<1>5. ExistsBijection(1..n, S)
  BY <1>4 DEF ExistsBijection
<1>6. IsFiniteSet(1..n)
  BY FS_Interval
<1> QED
  BY <1>5, <1>6, FS_CountingElements, FS_Bijection

(* What a row says by its run and the ones before.                         *)
LEMMA EventFacts ==
  ASSUME NEW steps, NEW k \in Nat, k > 0
  PROVE  LET at      == steps[k].active # 0
             before  == \E j \in 1..(k - 1) : steps[j].active # 0
             previous == k > 1 /\ steps[k - 1].active # 0
         IN  /\ "FirstSeen" \in Events(steps, k) <=> at /\ ~before
             /\ "Reappeared" \in Events(steps, k) <=> at /\ before /\ ~previous
             /\ "Resolved" \in Events(steps, k) <=> ~at /\ previous
             /\ "Changed" \in Events(steps, k) <=> at /\ steps[k].changed # 0
             /\ "SeverityIncreased" \in Events(steps, k) <=> at /\ steps[k].increases # 0
             /\ "Persisting" \in Events(steps, k) <=> Events(steps, k) = {"Persisting"}
             /\ Phase(steps, k) = "Active" <=> at
<1> DEFINE previous == k > 1 /\ steps[k - 1].active # 0
           before   == \E j \in 1..(k - 1) : steps[j].active # 0
           arrival  == IF ~before THEN {"FirstSeen"}
                       ELSE IF ~previous THEN {"Reappeared"} ELSE {}
           shift    == {e \in {"Changed", "SeverityIncreased"} :
                          steps[k][IF e = "Changed" THEN "changed" ELSE "increases"] # 0}
           notable  == arrival \cup shift
<1>1. Events(steps, k) = IF steps[k].active # 0
                         THEN IF previous /\ notable = {} THEN {"Persisting"} ELSE notable
                         ELSE IF previous THEN {"Resolved"} ELSE {}
  BY DEF Events
<1>2. /\ "Changed" \in shift <=> steps[k].changed # 0
      /\ "SeverityIncreased" \in shift <=> steps[k].increases # 0
      /\ shift \subseteq {"Changed", "SeverityIncreased"}
  OBVIOUS
<1>3. Phase(steps, k) = "Active" <=> steps[k].active # 0
  BY DEF Phase
<1>4. previous => before
  OBVIOUS
<1> HIDE DEF previous, before, shift
<1>5. CASE steps[k].active = 0
  BY <1>1, <1>3, <1>5 DEF previous, before
<1>6. CASE steps[k].active # 0
  <2>1. /\ "FirstSeen" \in notable <=> ~before
        /\ "Reappeared" \in notable <=> before /\ ~previous
        /\ "Changed" \in notable <=> steps[k].changed # 0
        /\ "SeverityIncreased" \in notable <=> steps[k].increases # 0
        /\ "Resolved" \notin notable /\ "Persisting" \notin notable
    BY <1>2
  <2> HIDE DEF notable
  <2>2. CASE previous /\ notable = {}
    BY <1>1, <1>3, <1>4, <1>6, <2>1, <2>2 DEF previous, before
  <2>3. CASE ~(previous /\ notable = {})
    BY <1>1, <1>3, <1>4, <1>6, <2>1, <2>3 DEF previous, before
  <2> QED
    BY <2>2, <2>3
<1> QED
  BY <1>5, <1>6

(* Stretches follow each other.                                            *)
LEMMA StretchesAscend ==
  ASSUME NEW steps \in Seq(Steps), NEW all, Stretches(all, steps)
  PROVE  LET n == Len(steps)
             m == Len(all)
         IN  /\ n \in Nat /\ m \in Nat /\ DOMAIN all = 1..m
             /\ \A e \in 1..m : /\ all[e] \in Episode
                                /\ all[e].started \in 1..n /\ all[e].last \in 1..n
                                /\ all[e].started <= all[e].last
                                /\ all[e].observed = all[e].last + 1 - all[e].started
                                /\ \A j \in all[e].started..all[e].last : At(steps, j)
                                /\ all[e].started > 1 => ~At(steps, all[e].started - 1)
                                /\ all[e].last < n => ~At(steps, all[e].last + 1)
                                                     /\ all[e].resolved = all[e].last + 1
                                /\ all[e].last = n => all[e].resolved = NoRun /\ e = m
             /\ \A e, f \in 1..m : f < e => all[f].last + 1 < all[e].started
                                            /\ all[f].resolved = all[f].last + 1
             /\ \A e, f \in 1..m : all[f].started <= all[e].started => f <= e
<1> DEFINE n == Len(steps)
           m == Len(all)
<1>1. n \in Nat /\ m \in Nat /\ DOMAIN all = 1..m /\ \A e \in 1..m : all[e] \in Episode
  BY DEF Stretches
<1> HIDE DEF n, m
<1>2. ASSUME NEW e \in 1..m
      PROVE  /\ all[e] \in Episode
             /\ all[e].started \in 1..n /\ all[e].last \in 1..n
             /\ all[e].started <= all[e].last
             /\ all[e].observed = all[e].last + 1 - all[e].started
             /\ \A j \in all[e].started..all[e].last : At(steps, j)
             /\ all[e].started > 1 => ~At(steps, all[e].started - 1)
             /\ all[e].last < n => ~At(steps, all[e].last + 1)
                                   /\ all[e].resolved = all[e].last + 1
             /\ all[e].last = n => all[e].resolved = NoRun /\ e = m
  <2>1. /\ Stretch(all[e], steps) /\ all[e].last <= n
        /\ IF e = m /\ n > 0 /\ At(steps, n)
           THEN all[e].resolved = NoRun /\ all[e].last = n
           ELSE /\ all[e].resolved = all[e].last + 1 /\ all[e].resolved <= n
                /\ ~At(steps, all[e].resolved)
    BY <1>1 DEF Stretches, n, m
  <2>2. all[e].started \in Nat /\ all[e].last \in Nat /\ all[e] \in Episode
    BY <1>1 DEF Episode
  <2>3. /\ 1 <= all[e].started /\ all[e].started <= all[e].last
        /\ all[e].observed = all[e].last + 1 - all[e].started
        /\ \A j \in all[e].started..all[e].last : At(steps, j)
        /\ all[e].started > 1 => ~At(steps, all[e].started - 1)
    BY <2>1 DEF Stretch
  <2>4. all[e].started \in 1..n /\ all[e].last \in 1..n
    BY <1>1, <2>1, <2>2, <2>3
  <2>5. /\ all[e].last < n => ~At(steps, all[e].last + 1) /\ all[e].resolved = all[e].last + 1
        /\ all[e].last = n => all[e].resolved = NoRun /\ e = m
    BY <1>1, <2>1, <2>2
  <2> QED
    BY <2>2, <2>3, <2>4, <2>5
<1>3. ASSUME NEW e \in 1..m, NEW f \in 1..m, f < e
      PROVE  all[f].last + 1 < all[e].started /\ all[f].resolved = all[f].last + 1
  BY <1>1, <1>3 DEF Stretches, m
<1>4. ASSUME NEW e \in 1..m, NEW f \in 1..m, all[f].started <= all[e].started
      PROVE  f <= e
  <2>1. CASE e < f
    <3>1. all[e].last + 1 < all[f].started /\ all[e].started <= all[e].last
      BY <1>2, <1>3, <2>1
    <3>2. all[e].last \in Nat /\ all[f].started \in Nat /\ all[e].started \in Nat
      BY <1>2
    <3> QED
      BY <1>4, <3>1, <3>2
  <2> QED
    BY <1>1, <2>1
<1> QED
  BY <1>1, <1>2, <1>3, <1>4 DEF n, m

(* A run in which the diagnostic comes is the start of an episode.         *)
Comes(steps, k) == steps[k].active # 0 /\ (k > 1 => steps[k - 1].active = 0)

(* Each such run starts one episode, and each episode starts at one.       *)
LEMMA ComesFacts ==
  ASSUME NEW steps \in Seq(Steps), NEW all, Stretches(all, steps)
  PROVE  LET n == Len(steps)
             m == Len(all)
         IN  /\ \A k \in 1..n : Comes(steps, k) <=> \E e \in 1..m : all[e].started = k
             /\ \A e \in 1..m : (\E j \in 1..(all[e].started - 1) : At(steps, j)) <=> e > 1
             /\ \A k \in 1..n : At(steps, k) => \E e \in 1..m : k \in all[e].started..all[e].last
<1> DEFINE n == Len(steps)
           m == Len(all)
<1>1. /\ n \in Nat /\ m \in Nat /\ DOMAIN all = 1..m
      /\ \A e \in 1..m : /\ all[e].started \in 1..n /\ all[e].last \in 1..n
                         /\ all[e].started <= all[e].last
                         /\ \A j \in all[e].started..all[e].last : At(steps, j)
                         /\ all[e].started > 1 => ~At(steps, all[e].started - 1)
      /\ \A e, f \in 1..m : f < e => all[f].last + 1 < all[e].started
      /\ \A e, f \in 1..m : all[f].started <= all[e].started => f <= e
  BY StretchesAscend
<1>2. \A j \in 1..n : At(steps, j) => \E e \in 1..m : j \in all[e].started..all[e].last
  BY <1>1 DEF Stretches, n
<1> HIDE DEF n, m
<1>3. ASSUME NEW k \in 1..n
      PROVE  Comes(steps, k) <=> \E e \in 1..m : all[e].started = k
  <2>1. ASSUME Comes(steps, k)
        PROVE  \E e \in 1..m : all[e].started = k
    <3>1. At(steps, k) /\ (k > 1 => ~At(steps, k - 1))
      BY <2>1 DEF Comes, At
    <3>2. PICK e \in 1..m : k \in all[e].started..all[e].last
      BY <1>2, <3>1
    <3>3. all[e].started = k
      <4>1. SUFFICES ASSUME all[e].started # k
                     PROVE  FALSE
        OBVIOUS
      <4>2. /\ all[e].started \in 1..n /\ all[e].last \in 1..n
        BY <1>1
      <4>3. k > 1 /\ k - 1 \in all[e].started..all[e].last
        BY <1>1, <3>2, <4>1, <4>2
      <4> QED
        BY <1>1, <3>1, <4>3
    <3> QED
      BY <3>3
  <2>2. ASSUME NEW e \in 1..m, all[e].started = k
        PROVE  Comes(steps, k)
    <3>1. k \in all[e].started..all[e].last
      BY <1>1, <2>2
    <3>2. At(steps, k) /\ (k > 1 => ~At(steps, k - 1))
      BY <1>1, <2>2, <3>1
    <3> QED
      BY <3>2 DEF Comes, At
  <2> QED
    BY <2>1, <2>2
<1>4. ASSUME NEW e \in 1..m
      PROVE  (\E j \in 1..(all[e].started - 1) : At(steps, j)) <=> e > 1
  <2>1. ASSUME NEW j \in 1..(all[e].started - 1), At(steps, j)
        PROVE  e > 1
    <3>1. j \in 1..n /\ all[e].started \in Nat
      BY <1>1
    <3>2. PICK f \in 1..m : j \in all[f].started..all[f].last
      BY <1>2, <2>1, <3>1
    <3>3. all[f].started < all[e].started /\ all[f].started \in Nat
      BY <1>1, <3>1, <3>2
    <3>4. f <= e /\ f # e
      BY <1>1, <3>3
    <3> QED
      BY <3>4
  <2>2. ASSUME e > 1
        PROVE  \E j \in 1..(all[e].started - 1) : At(steps, j)
    <3>1. 1 \in 1..m
      BY <1>1
    <3>2. all[1].last + 1 < all[e].started /\ all[1].last \in 1..n /\ all[1].started \in 1..n
          /\ all[1].started <= all[1].last /\ all[e].started \in 1..n
      BY <1>1, <2>2, <3>1
    <3>3. all[1].last \in all[1].started..all[1].last /\ all[1].last \in 1..(all[e].started - 1)
      BY <1>1, <3>2
    <3> QED
      BY <1>1, <3>1, <3>3
  <2> QED
    BY <2>1, <2>2
<1> QED
  BY <1>2, <1>3, <1>4 DEF n, m

(* The timeline counts the episodes as the case file lists them.           *)
LEMMA EpisodeOfFacts ==
  ASSUME NEW steps \in Seq(Steps), NEW all, Stretches(all, steps),
         NEW e \in 1..Len(all), NEW k \in all[e].started..all[e].last
  PROVE  EpisodeOf(steps, k) = e
<1> DEFINE n == Len(steps)
           m == Len(all)
           starts == [i \in 1..e |-> all[i].started]
           begun == {j \in 1..k : steps[j].active # 0 /\ (j > 1 => steps[j - 1].active = 0)}
<1>1. /\ n \in Nat /\ m \in Nat /\ DOMAIN all = 1..m
      /\ \A i \in 1..m : /\ all[i].started \in 1..n /\ all[i].last \in 1..n
                         /\ all[i].started <= all[i].last
                         /\ \A j \in all[i].started..all[i].last : At(steps, j)
      /\ \A i, f \in 1..m : f < i => all[f].last + 1 < all[i].started
      /\ \A i, f \in 1..m : all[f].started <= all[i].started => f <= i
  BY StretchesAscend
<1>2. \A j \in 1..n : Comes(steps, j) <=> \E i \in 1..m : all[i].started = j
  BY ComesFacts
<1>3. e \in 1..m
  OBVIOUS
<1> HIDE DEF n, m
<1>4. e \in Nat /\ k \in 1..n /\ k \in Nat
  BY <1>1, <1>3
<1>5. DOMAIN starts = 1..e /\ \A i \in 1..e : starts[i] = all[i].started /\ i \in 1..m
  BY <1>1, <1>3
<1>6. begun = {j \in 1..k : Comes(steps, j)}
  BY DEF Comes
<1> HIDE DEF starts, begun
<1>7. \A i, j \in 1..e : starts[i] = starts[j] => i = j
  <2> TAKE i, j \in 1..e
  <2>1. starts[i] = starts[j] => all[i].started <= all[j].started /\ all[j].started <= all[i].started
    BY <1>1, <1>5
  <2> QED
    BY <1>1, <1>4, <1>5, <2>1
<1>8. \A x : x \in begun <=> \E i \in 1..e : starts[i] = x
  <2>1. ASSUME NEW x \in begun
        PROVE  \E i \in 1..e : starts[i] = x
    <3>1. x \in 1..k /\ Comes(steps, x) /\ x \in 1..n
      BY <1>1, <1>4, <1>6
    <3>2. PICK i \in 1..m : all[i].started = x
      BY <1>2, <3>1
    <3>3. i <= e
      <4>1. CASE e < i
        <5>1. all[e].last + 1 < all[i].started /\ all[e].last \in 1..n
          BY <1>1, <1>3, <4>1
        <5> QED
          BY <1>1, <1>3, <1>4, <3>1, <3>2, <5>1
      <4> QED
        BY <1>1, <1>4, <4>1
    <3>4. i \in 1..e
      BY <1>1, <1>4, <3>3
    <3> QED
      BY <1>5, <3>2, <3>4
  <2>2. ASSUME NEW i \in 1..e
        PROVE  starts[i] \in begun
    <3>1. i \in 1..m /\ starts[i] = all[i].started /\ starts[i] \in 1..n
      BY <1>1, <1>5
    <3>2. Comes(steps, starts[i])
      BY <1>2, <3>1
    <3>3. all[e].started <= k /\ all[e].started \in 1..n /\ all[i].started \in 1..n
      BY <1>1, <1>3, <1>4, <3>1
    <3>4. all[i].started <= all[e].started
      <4>1. CASE i = e
        BY <3>3, <4>1
      <4>2. CASE i # e
        <5>1. i < e
          BY <1>4, <4>2
        <5>2. all[i].last + 1 < all[e].started /\ all[i].started <= all[i].last
              /\ all[i].last \in 1..n
          BY <1>1, <1>3, <3>1, <5>1
        <5> QED
          BY <3>3, <5>2
      <4> QED
        BY <4>1, <4>2
    <3>5. starts[i] \in 1..k
      BY <1>4, <3>1, <3>3, <3>4
    <3> QED
      BY <1>6, <3>2, <3>5
  <2> QED
    BY <2>1, <2>2
<1>9. Cardinality(begun) = e
  BY <1>4, <1>5, <1>7, <1>8, CountedOff
<1>10. At(steps, k)
  BY <1>1, <1>3
<1>11. EpisodeOf(steps, k) = IF steps[k].active = 0 THEN NoRun ELSE Cardinality(begun)
  BY DEF EpisodeOf, begun
<1> QED
  BY <1>9, <1>10, <1>11 DEF At

(* Every episode after the first is a return.                              *)
LEMMA ReturnsFacts ==
  ASSUME NEW steps \in Seq(Steps), NEW all, Stretches(all, steps), Len(all) > 0
  PROVE  LET n == Len(steps)
             m == Len(all)
         IN  /\ Cardinality({k \in 1..n : "Reappeared" \in Events(steps, k)}) = m - 1
             /\ \A k \in 1..n : "Reappeared" \in Events(steps, k)
                                  <=> \E e \in 2..m : all[e].started = k
             /\ \A k \in 1..n : "FirstSeen" \in Events(steps, k) <=> k = all[1].started
<1> DEFINE n == Len(steps)
           m == Len(all)
           later == [i \in 1..(m - 1) |-> all[i + 1].started]
           returns == {k \in 1..n : "Reappeared" \in Events(steps, k)}
<1>1. /\ n \in Nat /\ m \in Nat /\ DOMAIN all = 1..m
      /\ \A i \in 1..m : /\ all[i].started \in 1..n /\ all[i].last \in 1..n
                         /\ all[i].started <= all[i].last
                         /\ \A j \in all[i].started..all[i].last : At(steps, j)
      /\ \A i, f \in 1..m : all[f].started <= all[i].started => f <= i
  BY StretchesAscend
<1>2. /\ \A k \in 1..n : Comes(steps, k) <=> \E e \in 1..m : all[e].started = k
      /\ \A e \in 1..m : (\E j \in 1..(all[e].started - 1) : At(steps, j)) <=> e > 1
      /\ m > 0
  BY ComesFacts
<1> HIDE DEF n, m
<1>3. ASSUME NEW k \in 1..n
      PROVE  /\ "Reappeared" \in Events(steps, k) <=>
                  Comes(steps, k) /\ \E j \in 1..(k - 1) : At(steps, j)
             /\ "FirstSeen" \in Events(steps, k) <=>
                  Comes(steps, k) /\ ~\E j \in 1..(k - 1) : At(steps, j)
  <2>1. k \in Nat /\ k > 0
    BY <1>1
  <2>2. k > 1 /\ steps[k - 1].active # 0 => \E j \in 1..(k - 1) : steps[j].active # 0
    BY <2>1
  <2> QED
    BY <2>1, <2>2, EventFacts DEF Comes, At
<1>4. ASSUME NEW k \in 1..n
      PROVE  /\ "Reappeared" \in Events(steps, k) <=> \E e \in 2..m : all[e].started = k
             /\ "FirstSeen" \in Events(steps, k) <=> k = all[1].started
  <2>1. ASSUME Comes(steps, k)
        PROVE  \E e \in 1..m : all[e].started = k /\ ((\E j \in 1..(k - 1) : At(steps, j)) <=> e > 1)
    BY <1>2, <2>1
  <2>2. ASSUME NEW e \in 1..m, all[e].started = k
        PROVE  Comes(steps, k) /\ ((\E j \in 1..(k - 1) : At(steps, j)) <=> e > 1)
    BY <1>2, <2>2
  <2>3. 1 \in 1..m /\ \A e \in 1..m : e > 1 <=> e \in 2..m
    BY <1>1, <1>2
  <2>4. \A e \in 1..m : e > 1 \/ e = 1
    BY <1>1
  <2>5. \A e \in 2..m : e \in 1..m /\ e > 1
    BY <1>1
  <2>6. "Reappeared" \in Events(steps, k) => \E e \in 2..m : all[e].started = k
    BY <1>3, <2>1, <2>3
  <2>7. "FirstSeen" \in Events(steps, k) => k = all[1].started
    BY <1>3, <2>1, <2>4
  <2>8. (\E e \in 2..m : all[e].started = k) => "Reappeared" \in Events(steps, k)
    BY <1>3, <2>2, <2>5
  <2>9. k = all[1].started => "FirstSeen" \in Events(steps, k)
    BY <1>3, <2>2, <2>3
  <2> QED
    BY <2>6, <2>7, <2>8, <2>9
<1>5. DOMAIN later = 1..(m - 1) /\ \A i \in 1..(m - 1) : /\ later[i] = all[i + 1].started
                                                         /\ i + 1 \in 2..m /\ i + 1 \in 1..m
  BY <1>1
<1> HIDE DEF later, returns
<1>6. \A i, j \in 1..(m - 1) : later[i] = later[j] => i = j
  <2> TAKE i, j \in 1..(m - 1)
  <2>1. later[i] = later[j] =>
          all[i + 1].started <= all[j + 1].started /\ all[j + 1].started <= all[i + 1].started
    BY <1>1, <1>5
  <2> QED
    BY <1>1, <1>5, <2>1
<1>7. \A x : x \in returns <=> \E i \in 1..(m - 1) : later[i] = x
  <2>1. ASSUME NEW x \in returns
        PROVE  \E i \in 1..(m - 1) : later[i] = x
    <3>1. PICK e \in 2..m : all[e].started = x
      BY <1>4 DEF returns
    <3>2. e - 1 \in 1..(m - 1) /\ (e - 1) + 1 = e
      BY <1>1
    <3> QED
      BY <1>5, <3>1, <3>2
  <2>2. ASSUME NEW i \in 1..(m - 1)
        PROVE  later[i] \in returns
    BY <1>1, <1>4, <1>5 DEF returns
  <2> QED
    BY <2>1, <2>2
<1>8. Cardinality(returns) = m - 1
  <2>1. m - 1 \in Nat
    BY <1>1, <1>2
  <2> QED
    BY <1>5, <1>6, <1>7, <2>1, CountedOff
<1> QED
  BY <1>4, <1>8 DEF n, m, returns

(* An episode that is over ends in the run after its last.                 *)
LEMMA EndsFacts ==
  ASSUME NEW steps \in Seq(Steps), NEW all, Stretches(all, steps)
  PROVE  {k \in 1..Len(steps) : "Resolved" \in Events(steps, k)}
           = {all[e].resolved : e \in DOMAIN all} \ {NoRun}
<1> DEFINE n == Len(steps)
           m == Len(all)
<1>1. /\ n \in Nat /\ m \in Nat /\ DOMAIN all = 1..m
      /\ \A e \in 1..m : /\ all[e].started \in 1..n /\ all[e].last \in 1..n
                         /\ all[e].started <= all[e].last
                         /\ \A j \in all[e].started..all[e].last : At(steps, j)
                         /\ all[e].last < n => ~At(steps, all[e].last + 1)
                                              /\ all[e].resolved = all[e].last + 1
                         /\ all[e].last = n => all[e].resolved = NoRun /\ e = m
  BY StretchesAscend
<1>2. \A k \in 1..n : At(steps, k) => \E e \in 1..m : k \in all[e].started..all[e].last
  BY ComesFacts
<1> HIDE DEF n, m
<1>3. \A k \in 1..n : "Resolved" \in Events(steps, k) <=> ~At(steps, k) /\ k > 1 /\ At(steps, k - 1)
  <2> TAKE k \in 1..n
  <2>1. k \in Nat /\ k > 0
    BY <1>1
  <2> QED
    BY <2>1, EventFacts DEF At
<1>4. ASSUME NEW k \in 1..n, "Resolved" \in Events(steps, k)
      PROVE  k # NoRun /\ \E e \in 1..m : all[e].resolved = k
  <2>1. ~At(steps, k) /\ k > 1 /\ At(steps, k - 1) /\ k - 1 \in 1..n
    BY <1>1, <1>3, <1>4
  <2>2. PICK e \in 1..m : k - 1 \in all[e].started..all[e].last
    BY <1>2, <2>1
  <2>3. all[e].last = k - 1
    <3>1. all[e].last \in 1..n /\ all[e].started \in 1..n
      BY <1>1
    <3>2. k \notin all[e].started..all[e].last
      BY <1>1, <2>1
    <3> QED
      BY <1>1, <2>2, <3>1, <3>2
  <2>4. all[e].resolved = k
    BY <1>1, <2>3
  <2> QED
    BY <2>1, <2>4 DEF NoRun
<1>5. ASSUME NEW e \in 1..m, all[e].resolved # NoRun
      PROVE  all[e].resolved \in 1..n /\ "Resolved" \in Events(steps, all[e].resolved)
  <2>1. all[e].last < n /\ all[e].last \in 1..n /\ all[e].started \in 1..n
    BY <1>1, <1>5
  <2>2. all[e].resolved = all[e].last + 1 /\ ~At(steps, all[e].resolved) /\ At(steps, all[e].last)
    <3>1. all[e].last \in all[e].started..all[e].last
      BY <1>1, <2>1
    <3> QED
      BY <1>1, <2>1, <3>1
  <2>3. all[e].resolved \in 1..n /\ all[e].resolved > 1 /\ all[e].resolved - 1 = all[e].last
    BY <1>1, <2>1, <2>2
  <2> QED
    BY <1>3, <2>2, <2>3
<1> QED
  BY <1>1, <1>4, <1>5 DEF n

-----------------------------------------------------------------------------
(* reappeared_after_absence, one pass with two flags                       *)

(* The flags of the pass: seen, absent since, and back again.              *)
Flags == [seen : BOOLEAN, absent : BOOLEAN, returned : BOOLEAN]
NoFlag == [seen |-> FALSE, absent |-> FALSE, returned |-> FALSE]

(* What one run makes of them.                                             *)
Raised(flags, step) ==
  [seen     |-> flags.seen \/ step.active # 0,
   absent   |-> flags.absent \/ (step.active = 0 /\ flags.seen),
   returned |-> flags.returned \/ (step.active # 0 /\ flags.absent)]

Flagged(steps) ==
  FoldLeft(LAMBDA flags, step :
             [seen     |-> flags.seen \/ step.active # 0,
              absent   |-> flags.absent \/ (step.active = 0 /\ flags.seen),
              returned |-> flags.returned \/ (step.active # 0 /\ flags.absent)],
           [seen |-> FALSE, absent |-> FALSE, returned |-> FALSE], steps)

(* The flags after each run.                                               *)
Raises(h, s) ==
  h[0] = NoFlag /\ \A k \in 0..(Len(s) - 1) : h[k + 1] = Raised(h[k], s[k + 1])

(* The pass is what the runs make of the flags one after another.          *)
LEMMA FlagsFold ==
  ASSUME NEW s \in Seq(Steps)
  PROVE  \E h \in [0..Len(s) -> Flags] : Raises(h, s) /\ Flagged(s) = h[Len(s)]
<1> DEFINE n == Len(s)
           On(a, k) == Raised(a, s[k])
           G == [p \in (1..n) \X Flags |-> On(p[2], p[1])]
           Fold(f) == f = [t \in SUBSET DOMAIN s |->
                             IF t = {} THEN NoFlag ELSE On(f[t \ {Max(t)}], Max(t))]
           chosen == CHOOSE f : Fold(f)
<1>1. n \in Nat /\ DOMAIN s = 1..n /\ NoFlag \in Flags
  <2>1. NoFlag \in Flags
    BY DEF Flags, NoFlag
  <2> QED
    BY <2>1
<1>2. Flagged(s) = chosen[DOMAIN s]
  BY Zenon DEF Flagged, NoFlag, Raised, FoldLeft, MapThenFoldSet
<1>3. \A k \in 1..n, a \in Flags : G[<<k, a>>] = On(a, k)
  OBVIOUS
<1>4. \A k \in 1..n, a \in Flags : On(a, k) \in Flags
  BY DEF Raised, Flags
<1> HIDE DEF G, n, On
<1>5. PICK f \in [SUBSET (1..n) -> Flags] : Folds(f, n, NoFlag, G)
  <2>1. \A k \in 1..n, a \in Flags : G[<<k, a>>] \in Flags
    BY <1>3, <1>4
  <2> QED
    BY <1>1, <2>1, FoldExists
<1>6. Fold(f) /\ \A t \in SUBSET (1..n) : f[t] \in Flags
  <2>1. ASSUME NEW t \in SUBSET (1..n), t # {}
        PROVE  G[<<Max(t), f[t \ {Max(t)}]>>] = On(f[t \ {Max(t)}], Max(t))
    <3>1. Max(t) \in t
      <4>1. IsFiniteSet(1..n) /\ t \subseteq 1..n /\ t \subseteq Int
        BY <1>1, FS_Interval
      <4> QED
        BY <2>1, <4>1, FS_Subset, Extremes
    <3>2. f[t \ {Max(t)}] \in Flags /\ Max(t) \in 1..n
      BY <3>1
    <3> QED
      BY <1>3, <3>2
  <2>2. \A t \in SUBSET (1..n) :
          (IF t = {} THEN NoFlag ELSE G[<<Max(t), f[t \ {Max(t)}]>>])
            = IF t = {} THEN NoFlag ELSE On(f[t \ {Max(t)}], Max(t))
    BY <2>1
  <2>3. f = [t \in SUBSET (1..n) |-> IF t = {} THEN NoFlag ELSE G[<<Max(t), f[t \ {Max(t)}]>>]]
    BY <1>5 DEF Folds
  <2>4. f = [t \in SUBSET (1..n) |-> IF t = {} THEN NoFlag ELSE On(f[t \ {Max(t)}], Max(t))]
    BY <2>2, <2>3
  <2> QED
    BY <1>1, <1>5, <2>4
<1>7. Fold(chosen)
  <2> HIDE DEF Fold
  <2> QED
    BY <1>6
<1> HIDE DEF chosen
<1> DEFINE h == [k \in 0..n |-> chosen[1..k]]
<1>8. \A k \in 0..n : h[k] = chosen[1..k]
  OBVIOUS
<1>9. DOMAIN h = 0..n /\ h = [k \in 0..n |-> h[k]]
  OBVIOUS
<1> HIDE DEF h
<1>10. h[0] = NoFlag
  <2>1. 0 \in 0..n /\ 1..0 = {}
    BY <1>1, InitialSegments
  <2>2. chosen[{}] = NoFlag
    BY <1>7
  <2> QED
    BY <1>8, <2>1, <2>2
<1>11. ASSUME NEW k \in 0..(n - 1)
       PROVE  h[k + 1] = On(h[k], k + 1)
  <2>1. k \in Nat /\ k \in 0..n /\ k + 1 \in 0..n
    BY <1>1
  <2> DEFINE t == 1..(k + 1)
  <2>2. t \in SUBSET DOMAIN s
    BY <1>1
  <2>3. t # {} /\ Max(t) = k + 1 /\ t \ {k + 1} = 1..k
    BY <2>1, InitialSegments
  <2> HIDE DEF t
  <2>4. chosen[t] = On(chosen[t \ {Max(t)}], Max(t))
    BY <1>7, <2>2, <2>3
  <2> QED
    BY <1>8, <2>1, <2>3, <2>4 DEF t
<1>12. Raises(h, s)
  BY <1>10, <1>11 DEF Raises, n, On
<1>13. Flagged(s) = h[n]
  BY <1>1, <1>2, <1>8
<1> DEFINE typed == {k \in Nat : k <= n => h[k] \in Flags}
<1>14. \A k \in Nat : k \in typed
  <2>1. 0 \in typed
    BY <1>1, <1>10
  <2>2. ASSUME NEW k \in Nat, k \in typed
        PROVE  k + 1 \in typed
    <3> SUFFICES ASSUME k + 1 <= n
                 PROVE  h[k + 1] \in Flags
      OBVIOUS
    <3>1. k \in 0..(n - 1) /\ k + 1 \in 1..n /\ k <= n
      BY <1>1
    <3>2. h[k] \in Flags /\ h[k + 1] = On(h[k], k + 1)
      BY <1>11, <2>2, <3>1
    <3> QED
      BY <1>4, <3>1, <3>2
  <2> HIDE DEF typed
  <2> QED
    BY <2>1, <2>2, NatInduct
<1>15. h \in [0..n -> Flags]
  <2>1. \A k \in 0..n : h[k] \in Flags
    BY <1>14
  <2> QED
    BY <1>9, <2>1
<1> QED
  BY <1>12, <1>13, <1>15 DEF n

(* The last flag is up when some run had it again after one had not.       *)
LEMMA FlagsFacts ==
  ASSUME NEW steps \in Seq(Steps), NEW all, Stretches(all, steps)
  PROVE  ReappearedAfterAbsence(steps) <=> Len(all) > 1
<1> DEFINE n == Len(steps)
           m == Len(all)
<1>1. /\ n \in Nat /\ m \in Nat /\ DOMAIN all = 1..m
      /\ \A e \in 1..m : /\ all[e].started \in 1..n /\ all[e].last \in 1..n
                         /\ all[e].started <= all[e].last
                         /\ \A j \in all[e].started..all[e].last : At(steps, j)
                         /\ all[e].last < n => ~At(steps, all[e].last + 1)
      /\ \A e, f \in 1..m : f < e => all[f].last + 1 < all[e].started
  BY StretchesAscend
<1>2. \A k \in 1..n : At(steps, k) => \E e \in 1..m : k \in all[e].started..all[e].last
  BY ComesFacts
<1>3. PICK h \in [0..n -> Flags] : Raises(h, steps) /\ Flagged(steps) = h[n]
  BY FlagsFold
<1>4. ReappearedAfterAbsence(steps) <=> Flagged(steps).returned
  BY DEF ReappearedAfterAbsence, Flagged
<1> HIDE DEF n, m
<1> DEFINE SeenBy(k) == \E i \in 1..k : At(steps, i)
           GoneBy(k) == \E j \in 1..k : ~At(steps, j) /\ SeenBy(j - 1)
           BackBy(k) == \E l \in 1..k : At(steps, l) /\ GoneBy(l - 1)
           Right(k) == /\ h[k].seen <=> SeenBy(k)
                       /\ h[k].absent <=> GoneBy(k)
                       /\ h[k].returned <=> BackBy(k)
           S == {k \in Nat : k <= n => Right(k)}
<1>5. 0 \in S
  <2>1. h[0] = NoFlag
    BY <1>3 DEF Raises
  <2> QED
    BY <2>1 DEF NoFlag
<1>6. ASSUME NEW k \in Nat, k \in S
      PROVE  k + 1 \in S
  <2> SUFFICES ASSUME k + 1 <= n
               PROVE  Right(k + 1)
    OBVIOUS
  <2>1. k \in 0..(n - 1) /\ k \in 0..n /\ k + 1 \in 1..n /\ Right(k)
    BY <1>1, <1>6
  <2>2. h[k + 1] = Raised(h[k], steps[k + 1])
    BY <1>3, <2>1 DEF Raises, n
  <2>3. \A i \in 1..(k + 1) : i \in 1..k \/ i = k + 1
    OBVIOUS
  <2>4. \A i \in 1..k : i \in 1..(k + 1)
    OBVIOUS
  <2>5. k + 1 \in 1..(k + 1) /\ (k + 1) - 1 = k
    OBVIOUS
  <2>6. SeenBy(k + 1) <=> SeenBy(k) \/ At(steps, k + 1)
    BY <2>3, <2>4, <2>5
  <2>7. GoneBy(k + 1) <=> GoneBy(k) \/ (~At(steps, k + 1) /\ SeenBy(k))
    <3> HIDE DEF SeenBy
    <3> QED
      BY <2>3, <2>4, <2>5
  <2>8. BackBy(k + 1) <=> BackBy(k) \/ (At(steps, k + 1) /\ GoneBy(k))
    <3> HIDE DEF GoneBy
    <3> QED
      BY <2>3, <2>4, <2>5
  <2> DEFINE at == steps[k + 1].active # 0
  <2>9. /\ h[k + 1].seen <=> h[k].seen \/ at
        /\ h[k + 1].absent <=> h[k].absent \/ (~at /\ h[k].seen)
        /\ h[k + 1].returned <=> h[k].returned \/ (at /\ h[k].absent)
    <3> DEFINE g == h[k]
               x == steps[k + 1]
    <3>1. /\ Raised(g, x).seen <=> g.seen \/ x.active # 0
          /\ Raised(g, x).absent <=> g.absent \/ (x.active = 0 /\ g.seen)
          /\ Raised(g, x).returned <=> g.returned \/ (x.active # 0 /\ g.absent)
      <4> HIDE DEF g, x
      <4> QED
        BY DEF Raised
    <3> QED
      BY <2>2, <3>1
  <2>10. At(steps, k + 1) <=> at
    BY DEF At
  <2> HIDE DEF SeenBy, GoneBy, BackBy, at
  <2> QED
    BY <2>1, <2>6, <2>7, <2>8, <2>9, <2>10
<1>7. Right(n)
  <2> HIDE DEF S
  <2>1. n \in S
    BY <1>1, <1>5, <1>6, NatInduct
  <2> HIDE DEF Right
  <2> QED
    BY <1>1, <2>1 DEF S
<1>8. ASSUME m > 1
      PROVE  BackBy(n)
  <2>1. 1 \in 1..m /\ 2 \in 1..m
    BY <1>1, <1>8
  <2>2. /\ all[1].started \in 1..n /\ all[1].last \in 1..n /\ all[1].started <= all[1].last
        /\ all[2].started \in 1..n /\ all[2].last \in 1..n /\ all[2].started <= all[2].last
        /\ all[1].last + 1 < all[2].started
    BY <1>1, <2>1
  <2>3. At(steps, all[1].last)
    <3>1. all[1].last \in all[1].started..all[1].last
      BY <1>1, <2>2
    <3> QED
      BY <1>1, <2>1, <3>1
  <2>4. At(steps, all[2].started)
    <3>1. all[2].started \in all[2].started..all[2].last
      BY <1>1, <2>2
    <3> QED
      BY <1>1, <2>1, <3>1
  <2>5. all[1].last < n
    BY <1>1, <2>2
  <2>6. ~At(steps, all[1].last + 1)
    BY <1>1, <2>1, <2>5
  <2>7. SeenBy((all[1].last + 1) - 1)
    <3> DEFINE l == all[1].last
    <3>1. l \in 1..n /\ At(steps, l)
      BY <2>2, <2>3
    <3> HIDE DEF l
    <3>2. (l + 1) - 1 = l /\ l \in 1..l
      BY <1>1, <3>1
    <3>3. SeenBy((l + 1) - 1)
      BY <3>1, <3>2
    <3> QED
      BY <3>3 DEF l
  <2>8. all[1].last + 1 \in 1..(all[2].started - 1)
    BY <1>1, <2>2
  <2> HIDE DEF SeenBy
  <2>9. GoneBy(all[2].started - 1)
    BY <2>6, <2>7, <2>8
  <2> HIDE DEF GoneBy
  <2> QED
    BY <2>2, <2>4, <2>9
<1>9. ASSUME BackBy(n)
      PROVE  m > 1
  <2> HIDE DEF SeenBy, GoneBy
  <2>1. PICK l \in 1..n : At(steps, l) /\ GoneBy(l - 1)
    BY <1>9
  <2>2. PICK j \in 1..(l - 1) : ~At(steps, j) /\ SeenBy(j - 1)
    BY <2>1 DEF GoneBy
  <2>3. PICK i \in 1..(j - 1) : At(steps, i)
    BY <2>2 DEF SeenBy
  <2>4. /\ l \in Nat /\ j \in Nat /\ i \in Nat /\ i < j /\ j < l /\ i \in 1..n
    BY <1>1, <2>1, <2>2, <2>3
  <2>5. PICK e \in 1..m : l \in all[e].started..all[e].last
    BY <1>2, <2>1
  <2>6. PICK f \in 1..m : i \in all[f].started..all[f].last
    BY <1>2, <2>3, <2>4
  <2>7. e # f
    <3>1. SUFFICES ASSUME e = f
                   PROVE  FALSE
      OBVIOUS
    <3>2. j \in all[e].started..all[e].last
      <4>1. all[e].started \in 1..n /\ all[e].last \in 1..n
        BY <1>1
      <4> QED
        BY <1>1, <2>4, <2>5, <2>6, <3>1, <4>1
    <3> QED
      BY <1>1, <2>2, <3>2
  <2> QED
    BY <1>1, <2>7
<1> HIDE DEF SeenBy, GoneBy, BackBy
<1> QED
  BY <1>3, <1>4, <1>7, <1>8, <1>9 DEF m

-----------------------------------------------------------------------------
(* Clean windows                                                           *)

(* The window that starts at a run: where it ends, its kind, and where     *)
(* windows start.                                                          *)
WindowEnd(active, n, k) == Min({n} \cup {j - 1 : j \in {i \in active : i > k}})

WindowKind(active, n, k) ==
  IF WindowEnd(active, n, k) < Min(active) THEN "BeforeFirstSeen"
  ELSE IF WindowEnd(active, n, k) < Max(active) THEN "BetweenEpisodes"
  ELSE "AfterResolution"

WindowOf(active, n, k) ==
  [kind |-> WindowKind(active, n, k), start |-> k, end |-> WindowEnd(active, n, k)]

Starts(active, n) == {k \in (1..n) \ active : k > 1 => k - 1 \in active}

(* The clean windows of a timeline are those of its starts.                *)
LEMMA CleanWindowsAre ==
  ASSUME NEW rows, NEW n \in Nat, DOMAIN rows = 1..n, Len(rows) = n,
         NEW active, \A k : k \in active <=> k \in 1..n /\ rows[k].phase = "Active"
  PROVE  \A w : w \in CleanWindows(rows) <=> \E k \in Starts(active, n) : WindowOf(active, n, k) = w
<1>1. active = {k \in 1..n : rows[k].phase = "Active"}
  OBVIOUS
<1>2. CleanWindows(rows) = {WindowOf(active, n, k) : k \in Starts(active, n)}
  BY Zenon, <1>1 DEF CleanWindows, WindowOf, WindowKind, WindowEnd, Starts
<1> QED
  BY <1>2

(* A window ends before the next active run, or never.                     *)
LEMMA WindowEndFacts ==
  ASSUME NEW n \in Nat, NEW active \in SUBSET (1..n), NEW k \in 1..n
  PROVE  /\ WindowEnd(active, n, k) \in k..n
         /\ \A j \in active : j > k => WindowEnd(active, n, k) <= j - 1
         /\ (\A j \in active : ~(j > k)) => WindowEnd(active, n, k) = n
<1> DEFINE ends == {n} \cup {j - 1 : j \in {i \in active : i > k}}
<1>1. \A x \in ends : x \in k..n
  OBVIOUS
<1>2. n \in ends /\ \A j \in active : j > k => j - 1 \in ends
  OBVIOUS
<1>3. (\A j \in active : ~(j > k)) => ends = {n}
  OBVIOUS
<1>4. WindowEnd(active, n, k) = Min(ends)
  BY DEF WindowEnd
<1> HIDE DEF ends
<1>5. IsFiniteSet(ends)
  <2>1. IsFiniteSet(k..n) /\ ends \subseteq k..n
    BY <1>1, FS_Interval
  <2> QED
    BY <2>1, FS_Subset
<1>6. ends \subseteq Int /\ ends # {}
  BY <1>1, <1>2
<1>7. Min(ends) \in ends /\ \A x \in ends : Min(ends) <= x
  BY <1>5, <1>6, Extremes
<1> QED
  BY <1>1, <1>2, <1>3, <1>4, <1>7

(* The windows between episodes are as many as there are returns, and one  *)
(* comes after the last when it is over.                                   *)
LEMMA WindowsFacts ==
  ASSUME NEW steps \in Seq(Steps), NEW all, Stretches(all, steps), Len(all) > 0,
         NEW active, \A k : k \in active <=> k \in 1..Len(steps) /\ At(steps, k),
         NEW windows,
         \A w : w \in windows <=>
                  \E k \in Starts(active, Len(steps)) : WindowOf(active, Len(steps), k) = w
  PROVE  /\ Cardinality({w \in windows : w.kind = "BetweenEpisodes"}) = Len(all) - 1
         /\ ~At(steps, Len(steps)) <=> \E w \in windows : w.kind = "AfterResolution"
<1> DEFINE n == Len(steps)
           m == Len(all)
           End(k) == WindowEnd(active, n, k)
<1>1. /\ n \in Nat /\ m \in Nat /\ DOMAIN all = 1..m
      /\ \A e \in 1..m : /\ all[e].started \in 1..n /\ all[e].last \in 1..n
                         /\ all[e].started <= all[e].last
                         /\ \A j \in all[e].started..all[e].last : At(steps, j)
                         /\ all[e].last < n => ~At(steps, all[e].last + 1)
                                              /\ all[e].resolved = all[e].last + 1
      /\ \A e, f \in 1..m : f < e => all[f].last + 1 < all[e].started
                                     /\ all[f].resolved = all[f].last + 1
  BY StretchesAscend
<1>2. /\ \A k \in 1..n : At(steps, k) => \E e \in 1..m : k \in all[e].started..all[e].last
      /\ m > 0
  BY ComesFacts
<1>3. \A x : x \in windows <=> \E k \in Starts(active, n) : WindowOf(active, n, k) = x
  OBVIOUS
<1>a. active = {k \in 1..n : At(steps, k)}
  OBVIOUS
<1> HIDE DEF n, m, End
<1>4. /\ active \in SUBSET (1..n)
      /\ Min(active) \in active /\ \A x \in active : Min(active) <= x
      /\ Max(active) \in active /\ \A x \in active : x <= Max(active)
  <2>1. active \subseteq 1..n
    BY <1>a
  <2>2. IsFiniteSet(active)
    <3>1. IsFiniteSet(1..n)
      BY <1>1, FS_Interval
    <3> QED
      BY <2>1, <3>1, FS_Subset
  <2>3. active # {} /\ active \subseteq Int
    <3>1. 1 \in 1..m
      BY <1>1, <1>2
    <3>2. all[1].started \in 1..n /\ all[1].started \in all[1].started..all[1].last
      BY <1>1, <3>1
    <3>3. all[1].started \in active
      BY <1>1, <1>a, <3>1, <3>2
    <3> QED
      BY <1>1, <2>1, <3>3
  <2> QED
    BY <2>1, <2>2, <2>3, Extremes
<1>5. \A k \in 1..n : /\ End(k) \in k..n
                      /\ \A j \in active : j > k => End(k) <= j - 1
                      /\ (\A j \in active : ~(j > k)) => End(k) = n
  BY <1>1, <1>4, WindowEndFacts DEF End
<1>6. \A k : /\ WindowOf(active, n, k).kind = IF End(k) < Min(active) THEN "BeforeFirstSeen"
                                               ELSE IF End(k) < Max(active) THEN "BetweenEpisodes"
                                               ELSE "AfterResolution"
             /\ WindowOf(active, n, k).start = k
  BY DEF WindowOf, WindowKind, End
<1>7. \A k : k \in Starts(active, n) <=> k \in 1..n /\ ~At(steps, k) /\ (k > 1 => At(steps, k - 1))
  <2> TAKE k
  <2>1. k \in 1..n => (k \in active <=> At(steps, k))
    BY <1>a
  <2>2. k \in 1..n /\ k > 1 => k - 1 \in 1..n
    BY <1>1
  <2>3. k \in 1..n /\ k > 1 => (k - 1 \in active <=> At(steps, k - 1))
    BY <1>a, <2>2
  <2> QED
    BY <2>1, <2>3 DEF Starts
<1> HIDE <1>a
<1>8. Min(active) \in 1..n /\ Max(active) \in 1..n /\ \A k \in 1..n : End(k) \in Int
  BY <1>1, <1>4, <1>5
(* A start that is not the first run is the end of an episode.             *)
<1>9. ASSUME NEW k \in Starts(active, n), ~(End(k) < Min(active))
      PROVE  \E e \in 1..m : all[e].last + 1 = k
  <2>1. k \in 1..n /\ ~At(steps, k) /\ (k > 1 => At(steps, k - 1))
    BY <1>7, <1>9
  <2>2. k > 1
    <3>1. SUFFICES ASSUME ~(k > 1)
                   PROVE  FALSE
      OBVIOUS
    <3>2. k = 1
      BY <1>1, <2>1, <3>1
    <3>3. Min(active) # k
      BY <1>a, <1>4, <2>1
    <3>4. Min(active) > k
      BY <1>8, <3>2, <3>3
    <3>5. End(k) <= Min(active) - 1
      BY <1>4, <1>5, <2>1, <3>4
    <3> QED
      BY <1>8, <1>9, <2>1, <3>5
  <2>3. k - 1 \in 1..n /\ At(steps, k - 1)
    BY <1>1, <2>1, <2>2
  <2>4. PICK e \in 1..m : k - 1 \in all[e].started..all[e].last
    BY <1>2, <2>3
  <2>5. all[e].last + 1 = k
    <3>1. all[e].last \in 1..n /\ all[e].started \in 1..n
      BY <1>1
    <3>2. k \notin all[e].started..all[e].last
      BY <1>1, <2>1
    <3> DEFINE a == all[e].started
               b == all[e].last
    <3>3. k - 1 \in a..b /\ k \notin a..b /\ a \in 1..n /\ b \in 1..n /\ k \in 1..n
      BY <2>1, <2>4, <3>1, <3>2
    <3> HIDE DEF a, b
    <3>4. b + 1 = k
      BY <1>1, <3>3
    <3> QED
      BY <3>4 DEF b
  <2> QED
    BY <2>5
(* And the end of an episode is a start, with a window of one kind.        *)
<1>10. ASSUME NEW e \in 1..m, all[e].last < n
       PROVE  LET k == all[e].last + 1
              IN  /\ k \in Starts(active, n)
                  /\ ~(End(k) < Min(active))
                  /\ End(k) < Max(active) <=> e < m
  <2> DEFINE k == all[e].last + 1
             l == all[e].last
  <2>1. /\ l \in 1..n /\ At(steps, l) /\ l < n /\ ~At(steps, l + 1)
    <3>1. all[e].last \in all[e].started..all[e].last
      BY <1>1
    <3> QED
      BY <1>1, <1>10, <3>1
  <2> HIDE DEF l
  <2>2. k = l + 1
    BY DEF l
  <2> HIDE DEF k
  <2>3. k \in 1..n /\ k > 1 /\ k - 1 = l
    BY <1>1, <2>1, <2>2
  <2>4. k \in Starts(active, n)
    BY <1>7, <2>1, <2>2, <2>3
  <2>5. ~(End(k) < Min(active))
    <3>1. l \in active
      BY <1>a, <2>1
    <3>2. Min(active) <= l /\ End(k) \in k..n
      BY <1>4, <1>5, <2>3, <3>1
    <3> QED
      BY <1>1, <1>8, <2>1, <2>2, <3>2
  <2>6. ASSUME e < m
        PROVE  End(k) < Max(active)
    <3>1. m \in 1..m /\ l + 1 < all[m].started /\ all[m].started \in 1..n
      BY <1>1, <1>2, <2>6 DEF l
    <3>2. all[m].started \in active
      <4>1. all[m].started \in all[m].started..all[m].last
        BY <1>1, <3>1
      <4> QED
        BY <1>1, <1>a, <3>1, <4>1
    <3>3. End(k) <= all[m].started - 1 /\ all[m].started <= Max(active)
      BY <1>4, <1>5, <2>1, <2>2, <2>3, <3>1, <3>2
    <3> QED
      BY <1>8, <2>3, <3>1, <3>3
  <2>7. ASSUME ~(e < m)
        PROVE  ~(End(k) < Max(active))
    <3>1. e = m
      BY <1>1, <2>7
    <3>2. \A j \in active : ~(j > k)
      <4> SUFFICES ASSUME NEW j \in active, j > k
                   PROVE  FALSE
        OBVIOUS
      <4>1. j \in 1..n /\ At(steps, j)
        BY <1>a, <1>4
      <4>2. PICK f \in 1..m : j \in all[f].started..all[f].last
        BY <1>2, <4>1
      <4>3. f < m \/ f = m
        BY <1>1
      <4>4. CASE f = m
        BY <1>1, <2>1, <2>2, <3>1, <4>1, <4>2, <4>4 DEF l
      <4>5. CASE f < m
        <5>1. all[f].last + 1 < all[m].started /\ all[m].started <= all[m].last
          BY <1>1, <3>1, <4>5
        <5>2. all[m].last = l /\ all[f].last \in 1..n /\ all[m].started \in 1..n
          BY <1>1, <3>1 DEF l
        <5> QED
          BY <1>1, <2>1, <2>2, <4>1, <4>2, <5>1, <5>2
      <4> QED
        BY <4>3, <4>4, <4>5
    <3>3. End(k) = n
      BY <1>5, <2>3, <3>2
    <3> QED
      BY <1>1, <1>8, <3>3
  <2> QED
    BY <2>4, <2>5, <2>6, <2>7 DEF k
<1> DEFINE between == {w \in windows : w.kind = "BetweenEpisodes"}
           gaps == [i \in 1..(m - 1) |-> WindowOf(active, n, all[i].last + 1)]
<1>11. DOMAIN gaps = 1..(m - 1) /\ \A i \in 1..(m - 1) :
         gaps[i] = WindowOf(active, n, all[i].last + 1)
  OBVIOUS
<1>12. \A i \in 1..(m - 1) : i \in 1..m /\ i < m /\ m \in 1..m
  BY <1>1
<1>13. \A i \in 1..(m - 1) : all[i].last < n
  <2> TAKE i \in 1..(m - 1)
  <2>1. all[i].last + 1 < all[m].started /\ all[m].started \in 1..n /\ all[i].last \in 1..n
    BY <1>1, <1>12
  <2> QED
    BY <1>1, <2>1
<1> HIDE DEF gaps
<1>14. \A i, j \in 1..(m - 1) : gaps[i] = gaps[j] => i = j
  <2> SUFFICES ASSUME NEW i \in 1..(m - 1), NEW j \in 1..(m - 1), gaps[i] = gaps[j]
               PROVE  i = j
    OBVIOUS
  <2>1. all[i].last + 1 = all[j].last + 1
    <3>1. gaps[i].start = all[i].last + 1
      BY <1>6, <1>11
    <3>2. gaps[j].start = all[j].last + 1
      BY <1>6, <1>11
    <3> QED
      BY <3>1, <3>2
  <2>2. /\ i \in 1..m /\ j \in 1..m /\ i \in Int /\ j \in Int
        /\ all[i].started \in 1..n /\ all[i].last \in 1..n /\ all[i].started <= all[i].last
        /\ all[j].started \in 1..n /\ all[j].last \in 1..n /\ all[j].started <= all[j].last
    <3>1. i \in 1..m /\ j \in 1..m
      BY <1>12
    <3>2. all[i].started \in 1..n /\ all[i].last \in 1..n /\ all[i].started <= all[i].last
      BY <1>1, <3>1
    <3>3. all[j].started \in 1..n /\ all[j].last \in 1..n /\ all[j].started <= all[j].last
      BY <1>1, <3>1
    <3> QED
      BY <3>1, <3>2, <3>3
  <2>3. ~(i < j) /\ ~(j < i)
    <3>1. i < j => all[i].last + 1 < all[j].started
      BY <1>1, <2>2
    <3>2. j < i => all[j].last + 1 < all[i].started
      BY <1>1, <2>2
    <3> QED
      BY <1>1, <2>1, <2>2, <3>1, <3>2
  <2> QED
    BY <2>2, <2>3
<1>15. ASSUME NEW x \in between
       PROVE  \E i \in 1..(m - 1) : gaps[i] = x
  <2>1. PICK k \in Starts(active, n) : WindowOf(active, n, k) = x
    BY <1>3
  <2>2. x.kind = "BetweenEpisodes"
    OBVIOUS
  <2>3. ~(End(k) < Min(active)) /\ End(k) < Max(active)
    BY <1>6, <2>1, <2>2
  <2>4. PICK e \in 1..m : all[e].last + 1 = k
    BY <1>9, <2>3
  <2>5. k \in 1..n
    BY <1>7
  <2>6. all[e].last < n
    BY <1>1, <2>4, <2>5
  <2>7. e < m
    BY <1>10, <2>3, <2>4, <2>6
  <2>8. e \in 1..(m - 1)
    BY <1>1, <2>7
  <2> QED
    BY <1>11, <2>1, <2>4, <2>8
<1>16. ASSUME NEW i \in 1..(m - 1)
       PROVE  gaps[i] \in between
  <2>1. i \in 1..m /\ i < m /\ all[i].last < n
    BY <1>12, <1>13
  <2> DEFINE k == all[i].last + 1
  <2>2. k \in Starts(active, n) /\ ~(End(k) < Min(active)) /\ End(k) < Max(active)
    BY <1>10, <2>1
  <2>3. gaps[i] = WindowOf(active, n, k)
    BY <1>11
  <2> HIDE DEF k
  <2>4. gaps[i] \in windows /\ gaps[i].kind = "BetweenEpisodes"
    BY <1>3, <1>6, <2>2, <2>3
  <2> QED
    BY <2>4
<1>17. Cardinality(between) = m - 1
  <2> HIDE DEF between
  <2>1. m - 1 \in Nat
    BY <1>1, <1>2
  <2>2. \A x : x \in between <=> \E i \in 1..(m - 1) : gaps[i] = x
    BY <1>15, <1>16
  <2> QED
    BY <1>11, <1>14, <2>1, <2>2, CountedOff
<1>18. ASSUME ~At(steps, n)
       PROVE  \E w \in windows : w.kind = "AfterResolution"
  <2>1. m \in 1..m
    BY <1>1, <1>2
  <2>2. all[m].last < n
    <3>1. all[m].last \in 1..n /\ all[m].last \in all[m].started..all[m].last
      BY <1>1, <2>1
    <3>2. At(steps, all[m].last)
      BY <1>1, <2>1, <3>1
    <3> QED
      BY <1>1, <1>18, <3>1, <3>2
  <2> DEFINE k == all[m].last + 1
  <2>3. k \in Starts(active, n) /\ ~(End(k) < Min(active)) /\ ~(End(k) < Max(active))
    BY <1>10, <2>1, <2>2
  <2> HIDE DEF k
  <2>4. WindowOf(active, n, k) \in windows /\ WindowOf(active, n, k).kind = "AfterResolution"
    BY <1>3, <1>6, <2>3
  <2> QED
    BY <2>4
<1>19. ASSUME NEW w \in windows, w.kind = "AfterResolution"
       PROVE  ~At(steps, n)
  <2> SUFFICES ASSUME At(steps, n)
               PROVE  FALSE
    OBVIOUS
  <2>1. PICK k \in Starts(active, n) : WindowOf(active, n, k) = w
    BY <1>3
  <2>2. ~(End(k) < Max(active)) /\ k \in 1..n /\ ~At(steps, k)
    BY <1>6, <1>7, <1>19, <2>1
  <2>3. n \in active /\ n > k
    BY <1>1, <1>a, <2>2
  <2>4. End(k) <= n - 1 /\ n <= Max(active)
    BY <1>4, <1>5, <2>2, <2>3
  <2> QED
    BY <1>1, <1>8, <2>2, <2>4
<1> QED
  BY <1>17, <1>18, <1>19 DEF n, m

(* The case file, the timeline and its clean windows tell one story of a   *)
(* diagnostic: the episodes are counted off by the rows with an event, the *)
(* windows between them, and the flags of the pass.                        *)
LEMMA ViewsOfOne ==
  ASSUME Ordered, runs \in Seq(Report), NEW fp \in Known
  PROVE  LET case     == CaseFile(runs, fp)
             episodes == case.episodes
             Span(e)  == episodes[e].started..episodes[e].last
             rows     == Timeline(runs, fp)
             windows  == CleanWindows(rows)
             RowsWith(event) == {k \in DOMAIN rows : event \in rows[k].events}
         IN  /\ case.reappearances = Cardinality(RowsWith("Reappeared"))
             /\ case.reappearances = Cardinality({w \in windows : w.kind = "BetweenEpisodes"})
             /\ (case.reappearances > 0) <=> ReappearedAfterAbsence(Lineage(runs, fp))
             /\ RowsWith("FirstSeen") = {case.first}
             /\ RowsWith("Resolved") = {episodes[e].resolved : e \in DOMAIN episodes} \ {NoRun}
             /\ \A k \in ActiveRuns(fp) : k \in Span(rows[k].episode)
             /\ UNION {Span(e) : e \in DOMAIN episodes} = ActiveRuns(fp)
             /\ \A e \in DOMAIN episodes :
                  /\ episodes[e].observed = Cardinality(Span(e))
                  /\ e > 1 => episodes[e].started > episodes[e - 1].resolved
                  /\ IF e = Len(episodes) /\ case.status = "Active"
                     THEN episodes[e].resolved = NoRun /\ episodes[e].last = Len(runs)
                     ELSE episodes[e].resolved = episodes[e].last + 1
             /\ (case.status = "Resolved") <=> \E w \in windows : w.kind = "AfterResolution"
             /\ case.status = "Active" <=> rows[Len(runs)].phase = "Active"
<1> DEFINE steps == Lineage(runs, fp)
           n == Len(runs)
           case == CaseFile(runs, fp)
           all == BuildEpisodes(steps)
           m == Len(all)
           rows == Timeline(runs, fp)
           windows == CleanWindows(rows)
           active == {k \in 1..n : At(steps, k)}
           RowsWith(event) == {k \in DOMAIN rows : event \in rows[k].events}
<1>1. fp \in Fingerprints /\ \E k \in DOMAIN runs : Instances(runs[k], fp) # 0
  BY DEF Known, Seen
<1>2. /\ n \in Nat /\ DOMAIN runs = 1..n /\ steps \in Seq(Steps) /\ Len(steps) = n
      /\ Numbered(steps)
      /\ \A k \in 1..n : At(steps, k) <=> Instances(runs[k], fp) # 0
  <2>1. n \in Nat /\ DOMAIN runs = 1..n
    OBVIOUS
  <2>2. /\ steps \in Seq(Steps) /\ Len(steps) = Len(runs) /\ DOMAIN steps = DOMAIN runs
        /\ \A k \in DOMAIN runs : /\ steps[k].to_run = k
                                  /\ steps[k].active = Had(runs, fp, k)
    BY <1>1, LineageFacts
  <2>3. \A k \in 1..n : Had(runs, fp, k) = Instances(runs[k], fp)
    BY DEF Had
  <2> HIDE DEF steps, n
  <2> QED
    BY <2>1, <2>2, <2>3 DEF Numbered, At, n
<1>3. Stretches(all, steps)
  BY <1>2, StretchesFacts
<1>4. /\ rows \in Seq(Rows) /\ Len(rows) = n /\ DOMAIN rows = 1..n
      /\ \A k \in 1..n : rows[k] = Row(steps, k)
  BY <1>1, TimelineFacts
<1>5. /\ case.episodes = all /\ case.reappearances = SatSub(m, 1)
      /\ case.status = IF steps[n].active # 0 THEN "Active" ELSE "Resolved"
      /\ case.first = Min({k \in DOMAIN runs : steps[k].active # 0})
  BY DEF CaseFile
<1> HIDE DEF steps, all, rows, windows, case, n
<1>6. /\ m \in Nat /\ DOMAIN all = 1..m
      /\ \A e \in 1..m : /\ all[e].started \in 1..n /\ all[e].last \in 1..n
                         /\ all[e].started <= all[e].last
                         /\ all[e].observed = all[e].last + 1 - all[e].started
                         /\ \A j \in all[e].started..all[e].last : At(steps, j)
                         /\ all[e].last < n => all[e].resolved = all[e].last + 1
                         /\ all[e].last = n => all[e].resolved = NoRun /\ e = m
      /\ \A e, f \in 1..m : f < e => all[f].last + 1 < all[e].started
                                     /\ all[f].resolved = all[f].last + 1
  BY <1>2, <1>3, StretchesAscend
<1>7. \A k \in 1..n : At(steps, k) => \E e \in 1..m : k \in all[e].started..all[e].last
  BY <1>2, <1>3, ComesFacts
<1> HIDE DEF m
<1>8. m > 0 /\ n > 0
  <2>1. PICK k \in 1..n : At(steps, k)
    BY <1>1, <1>2
  <2>2. PICK e \in 1..m : k \in all[e].started..all[e].last
    BY <1>7, <2>1
  <2> QED
    BY <1>2, <1>6, <2>1, <2>2
<1>9. \A k \in 1..n : /\ rows[k].events = Events(steps, k) /\ rows[k].phase = Phase(steps, k)
                      /\ rows[k].episode = EpisodeOf(steps, k)
  BY <1>4 DEF Row
<1>10. \A event : RowsWith(event) = {k \in 1..n : event \in Events(steps, k)}
  BY <1>4, <1>9
<1>11. case.reappearances = m - 1
  BY <1>5, <1>6, <1>8 DEF SatSub
<1>12. /\ Cardinality({k \in 1..n : "Reappeared" \in Events(steps, k)}) = m - 1
       /\ \A k \in 1..n : "FirstSeen" \in Events(steps, k) <=> k = all[1].started
  BY <1>2, <1>3, <1>8, ReturnsFacts DEF m
<1>13. \A k \in 1..n : Phase(steps, k) = "Active" <=> At(steps, k)
  <2> TAKE k \in 1..n
  <2>1. k \in Nat /\ k > 0
    BY <1>2
  <2> QED
    BY <2>1, EventFacts DEF At
<1>14. /\ Cardinality({w \in windows : w.kind = "BetweenEpisodes"}) = m - 1
       /\ ~At(steps, n) <=> \E w \in windows : w.kind = "AfterResolution"
  <2>1. \A k : k \in active <=> k \in 1..n /\ rows[k].phase = "Active"
    BY <1>9, <1>13
  <2>2. \A k : k \in active <=> k \in 1..Len(steps) /\ At(steps, k)
    BY <1>2
  <2> HIDE DEF active
  <2>3. \A w : w \in windows <=> \E k \in Starts(active, n) : WindowOf(active, n, k) = w
    BY <1>2, <1>4, <2>1, CleanWindowsAre DEF windows
  <2>4. Len(all) > 0 /\ Len(steps) = n /\ steps \in Seq(Steps) /\ m = Len(all)
    BY <1>2, <1>8 DEF m
  <2>5. \A w : w \in windows <=>
           \E k \in Starts(active, Len(steps)) : WindowOf(active, Len(steps), k) = w
    BY <2>3, <2>4
  <2>6. /\ Cardinality({w \in windows : w.kind = "BetweenEpisodes"}) = Len(all) - 1
        /\ ~At(steps, Len(steps)) <=> \E w \in windows : w.kind = "AfterResolution"
    BY <1>3, <2>2, <2>4, <2>5, WindowsFacts
  <2> QED
    BY <2>4, <2>6
<1>15. case.status = "Active" <=> At(steps, n)
  BY <1>5 DEF At
<1>16. case.status \in {"Active", "Resolved"}
  BY <1>5
<1>17. case.first = all[1].started
  <2>1. {k \in DOMAIN runs : steps[k].active # 0} = active
    BY <1>2 DEF At
  <2>2. active \subseteq 1..n /\ \A k : k \in active <=> k \in 1..n /\ At(steps, k)
    OBVIOUS
  <2>3. case.first = Min(active)
    BY <1>5, <2>1
  <2> HIDE DEF active
  <2>4. 1 \in 1..m
    BY <1>6, <1>8
  <2>5. all[1].started \in active
    <3>1. all[1].started \in 1..n /\ all[1].started \in all[1].started..all[1].last
      BY <1>6, <2>4
    <3> QED
      BY <1>6, <2>2, <2>4, <3>1
  <2>6. Min(active) \in active /\ \A x \in active : Min(active) <= x
    <3>1. IsFiniteSet(active)
      <4>1. IsFiniteSet(1..n)
        BY <1>2, FS_Interval
      <4> QED
        BY <2>2, <4>1, FS_Subset
    <3>2. active \subseteq Int
      BY <1>2, <2>2
    <3> QED
      BY <2>5, <3>1, <3>2, Extremes
  <2> DEFINE least == Min(active)
             s1 == all[1].started
  <2>7. least \in 1..n /\ s1 \in 1..n /\ least <= s1
    BY <1>6, <2>2, <2>4, <2>5, <2>6
  <2>8. s1 <= least
    <3>1. PICK e \in 1..m : least \in all[e].started..all[e].last
      BY <1>7, <2>2, <2>6
    <3>2. all[e].started \in 1..n /\ all[e].started <= least
      BY <1>6, <2>7, <3>1
    <3>3. CASE e = 1
      BY <3>2, <3>3
    <3>4. CASE e # 1
      <4>1. 1 < e
        BY <1>6, <3>4
      <4>2. all[1].last + 1 < all[e].started /\ all[1].started <= all[1].last
            /\ all[1].last \in 1..n
        BY <1>6, <2>4, <4>1
      <4> HIDE DEF least
      <4> QED
        BY <1>2, <2>7, <3>2, <4>2
    <3> QED
      BY <3>3, <3>4
  <2> QED
    BY <1>2, <2>3, <2>7, <2>8
<1>18. RowsWith("FirstSeen") = {case.first}
  <2>1. all[1].started \in 1..n
    BY <1>6, <1>8
  <2> QED
    BY <1>10, <1>12, <1>17, <2>1
<1>19. RowsWith("Resolved") = {all[e].resolved : e \in DOMAIN all} \ {NoRun}
  <2>1. {k \in 1..n : "Resolved" \in Events(steps, k)} = {all[e].resolved : e \in DOMAIN all} \ {NoRun}
    BY <1>2, <1>3, EndsFacts
  <2> QED
    BY <1>10, <2>1
<1>20. ReappearedAfterAbsence(steps) <=> m > 1
  BY <1>2, <1>3, FlagsFacts DEF m
<1>21. ActiveRuns(fp) = active
  BY <1>2 DEF ActiveRuns
<1>22. \A k \in active : k \in all[rows[k].episode].started..all[rows[k].episode].last
  <2> TAKE k \in active
  <2>1. k \in 1..n /\ At(steps, k)
    OBVIOUS
  <2>2. PICK e \in 1..m : k \in all[e].started..all[e].last
    BY <1>7, <2>1
  <2>3. EpisodeOf(steps, k) = e
    BY <1>2, <1>3, <2>2, EpisodeOfFacts DEF m
  <2> QED
    BY <1>9, <2>1, <2>2, <2>3
<1>23. UNION {all[e].started..all[e].last : e \in DOMAIN all} = active
  <2>1. \A e \in 1..m : \A j \in all[e].started..all[e].last : j \in active
    <3> TAKE e \in 1..m
    <3> TAKE j \in all[e].started..all[e].last
    <3>1. all[e].started \in 1..n /\ all[e].last \in 1..n
      BY <1>6
    <3>2. j \in 1..n
      BY <1>2, <3>1
    <3> QED
      BY <1>6, <3>2
  <2> QED
    BY <1>6, <1>7, <2>1
<1>24. \A e \in DOMAIN all :
         /\ all[e].observed = Cardinality(all[e].started..all[e].last)
         /\ e > 1 => all[e].started > all[e - 1].resolved
         /\ IF e = m /\ case.status = "Active"
            THEN all[e].resolved = NoRun /\ all[e].last = n
            ELSE all[e].resolved = all[e].last + 1
  <2> TAKE e \in DOMAIN all
  <2>1. e \in 1..m
    BY <1>6
  <2>2. /\ all[e].started \in 1..n /\ all[e].last \in 1..n /\ all[e].started <= all[e].last
        /\ all[e].observed = all[e].last + 1 - all[e].started
        /\ all[e].last < n => all[e].resolved = all[e].last + 1
        /\ all[e].last = n => all[e].resolved = NoRun /\ e = m
    BY <1>6, <2>1
  <2>3. all[e].observed = Cardinality(all[e].started..all[e].last)
    <3> DEFINE a == all[e].started
               b == all[e].last
    <3>1. a \in 1..n /\ b \in 1..n /\ a <= b /\ all[e].observed = b + 1 - a
      BY <2>2
    <3> HIDE DEF a, b
    <3>2. a \in Int /\ b \in Int
      BY <1>2, <3>1
    <3>3. Cardinality(a..b) = IF a > b THEN 0 ELSE b - a + 1
      BY <3>2, FS_Interval
    <3>4. Cardinality(a..b) = b + 1 - a
      BY <3>1, <3>2, <3>3
    <3> QED
      BY <3>1, <3>4 DEF a, b
  <2>4. e > 1 => all[e].started > all[e - 1].resolved
    <3>1. e > 1 => e - 1 \in 1..m /\ e - 1 < e
      BY <1>6, <2>1
    <3>2. e > 1 => all[e - 1].last + 1 < all[e].started /\ all[e - 1].resolved = all[e - 1].last + 1
                   /\ all[e - 1].last \in 1..n
      BY <1>6, <2>1, <3>1
    <3> QED
      BY <1>2, <2>2, <3>2
  <2>5. CASE e = m /\ At(steps, n)
    <3>1. n \in 1..n
      BY <1>2, <1>8
    <3>2. PICK f \in 1..m : n \in all[f].started..all[f].last
      BY <1>7, <2>5, <3>1
    <3>3. all[f].last = n
      BY <1>2, <1>6, <3>2
    <3>4. f = e /\ all[e].last = n
      BY <1>6, <2>5, <3>3
    <3> QED
      BY <1>15, <2>2, <2>3, <2>4, <2>5, <3>4
  <2>6. CASE ~(e = m /\ At(steps, n))
    <3>1. all[e].last < n
      <4>1. SUFFICES ASSUME ~(all[e].last < n)
                     PROVE  FALSE
        OBVIOUS
      <4>2. all[e].last = n
        BY <1>2, <2>2, <4>1
      <4>3. e = m /\ n \in all[e].started..all[e].last
        BY <1>2, <2>2, <4>2
      <4>4. At(steps, n)
        BY <1>6, <2>1, <4>3
      <4> QED
        BY <2>6, <4>3, <4>4
    <3> QED
      BY <1>15, <2>2, <2>3, <2>4, <2>6, <3>1
  <2> QED
    BY <2>5, <2>6
<1>25. case.status = "Resolved" <=> \E w \in windows : w.kind = "AfterResolution"
  BY <1>14, <1>15, <1>16
<1>26. case.status = "Active" <=> rows[n].phase = "Active"
  <2>1. n \in 1..n
    BY <1>2, <1>8
  <2> QED
    BY <1>9, <1>13, <1>15, <2>1
<1>27. case.reappearances > 0 <=> ReappearedAfterAbsence(steps)
  BY <1>6, <1>11, <1>20
<1>28. case.reappearances = Cardinality(RowsWith("Reappeared"))
  BY <1>10, <1>11, <1>12
<1>29. case.reappearances = Cardinality({w \in windows : w.kind = "BetweenEpisodes"})
  BY <1>11, <1>14
<1> HIDE DEF active, RowsWith
<1> QED
  BY <1>5, <1>18, <1>19, <1>21, <1>22, <1>23, <1>24, <1>25, <1>26, <1>27, <1>28, <1>29
     DEF steps, case, rows, windows, RowsWith, n, m

(* ViewsAgree follows from what the state has.                             *)
LEMMA OneStory ==
  ASSUME Ordered, runs \in Seq(Report)
  PROVE  ViewsAgree
  BY ViewsOfOne DEF ViewsAgree

(* The views of one diagnostic agree: the episodes of its case file, the   *)
(* events and phases of its timeline, the clean windows and the            *)
(* reappearance flag tell one story (ViewsAgree), for any history of any   *)
(* length (forensics.rs).                                                  *)
THEOREM ViewsHold == Spec => []ViewsAgree
<1>1. Ordered /\ runs \in Seq(Report) => ViewsAgree
  BY OneStory
<1> QED
  BY <1>1, RecordsHold, PTL

-----------------------------------------------------------------------------
(* Replay                                                                  *)

(* The sign of a row is that of the first of its events in the order.      *)
LEMMA MarkerFacts ==
  ASSUME NEW row
  PROVE  /\ TimelineMarker(row) = "Reappeared" <=> "Reappeared" \in row.events
         /\ TimelineMarker(row) = "Clean" <=>
              /\ row.events \cap {"Reappeared", "SeverityIncreased", "Changed", "Resolved", "FirstSeen"} = {}
              /\ row.phase # "Active"
         /\ TimelineMarker(row) = "Resolved" <=>
              /\ "Resolved" \in row.events
              /\ row.events \cap {"Reappeared", "SeverityIncreased", "Changed"} = {}
<1> DEFINE shown == {k \in DOMAIN MarkerOrder : MarkerOrder[k] \in row.events}
           least == Min(shown)
<1>1. /\ DOMAIN MarkerOrder = 1..5
      /\ MarkerOrder[1] = "Reappeared" /\ MarkerOrder[2] = "SeverityIncreased"
      /\ MarkerOrder[3] = "Changed" /\ MarkerOrder[4] = "Resolved" /\ MarkerOrder[5] = "FirstSeen"
  BY DEF MarkerOrder
<1>2. TimelineMarker(row) = IF shown # {} THEN MarkerOrder[least]
                            ELSE IF row.phase = "Active" THEN "Active" ELSE "Clean"
  BY DEF TimelineMarker
<1>3. /\ shown \subseteq 1..5
      /\ 1 \in shown <=> "Reappeared" \in row.events
      /\ 2 \in shown <=> "SeverityIncreased" \in row.events
      /\ 3 \in shown <=> "Changed" \in row.events
      /\ 4 \in shown <=> "Resolved" \in row.events
      /\ 5 \in shown <=> "FirstSeen" \in row.events
  BY <1>1
<1> HIDE DEF shown
<1>4. shown # {} => least \in shown /\ \A x \in shown : least <= x
  <2>1. IsFiniteSet(shown)
    <3>1. IsFiniteSet(1..5)
      <4> DEFINE five == 5
      <4>1. 1 \in Int /\ five \in Int
        OBVIOUS
      <4> HIDE DEF five
      <4>2. IsFiniteSet(1..five)
        BY <4>1, FS_Interval
      <4> QED
        BY <4>2 DEF five
    <3> QED
      BY <1>3, <3>1, FS_Subset
  <2>2. shown \subseteq Int
    BY <1>3
  <2> QED
    BY <2>1, <2>2, Extremes
<1> HIDE DEF least
<1>5. CASE shown = {}
  BY <1>2, <1>3, <1>5
<1>6. CASE shown # {}
  <2>1. least \in {1, 2, 3, 4, 5}
    <3>1. least \in 1..5
      BY <1>3, <1>4, <1>6
    <3> QED
      BY <3>1
  <2>2. least = 1 <=> 1 \in shown
    BY <1>3, <1>4, <1>6, <2>1
  <2>3. least = 4 <=> 4 \in shown /\ 1 \notin shown /\ 2 \notin shown /\ 3 \notin shown
    BY <1>3, <1>4, <1>6, <2>1
  <2>4. \E k \in 1..5 : k \in shown
    BY <1>3, <1>6
  <2>5. ~(row.events \cap {"Reappeared", "SeverityIncreased", "Changed", "Resolved", "FirstSeen"} = {})
    <3>1. 1 \in shown \/ 2 \in shown \/ 3 \in shown \/ 4 \in shown \/ 5 \in shown
      BY <2>4
    <3> QED
      BY <1>3, <3>1
  <2>6. TimelineMarker(row) = MarkerOrder[least]
    BY <1>2, <1>6
  <2>7. TimelineMarker(row) = "Reappeared" <=> least = 1
    BY <1>1, <2>1, <2>6
  <2>8. TimelineMarker(row) = "Resolved" <=> least = 4
    BY <1>1, <2>1, <2>6
  <2>9. TimelineMarker(row) # "Clean"
    BY <1>1, <2>1, <2>6
  <2> QED
    BY <1>3, <2>2, <2>3, <2>5, <2>7, <2>8, <2>9
<1> QED
  BY <1>5, <1>6

(* Two runs with the same list of a fingerprint have no change of it.      *)
LEMMA UnchangedFacts ==
  ASSUME Ordered, NEW b \in Report, NEW c \in Report, NEW fp \in Fingerprints,
         ByDigest(b, fp) = ByDigest(c, fp)
  PROVE  LET counts == CompareObservations(b, c, fp)
         IN  counts.changed = 0 /\ counts.increases = 0
<1> DEFINE shared == Shared(b, c)
           wb == Without(b, shared)
           wc == Without(c, shared)
           left == ByDigest(wb, fp)
           right == ByDigest(wc, fp)
           m == Min({Len(left), Len(right)})
           counts == CompareObservations(b, c, fp)
           A == Of(fp)
<1>1. wb \in Report /\ \A d \in Contents : wb[d] = b[d] - Least(b[d], c[d])
  BY SharedFacts
<1>2. m \in Nat /\ m <= Len(left)
  BY BucketFacts
<1>3. /\ counts.changed = m
      /\ counts.increases = Cardinality({k \in 1..m : Severity[right[k]] > Severity[left[k]]})
  BY DEF CompareObservations
<1>4. \A d \in A : b[d] = c[d]
  <2>1. IsListOf(ByDigest(b, fp), b, fp) /\ IsListOf(ByDigest(c, fp), c, fp)
    BY ByDigestFacts
  <2> QED
    BY <2>1 DEF IsListOf
<1> HIDE DEF wb, m, counts
<1>5. Len(left) = Instances(wb, fp)
  BY <1>1, ListLength
<1>6. A \in SUBSET Contents /\ A \in SUBSET A /\ IsFiniteSet(A)
  BY OfFacts
<1> HIDE DEF A, left, right
<1>7. \A d \in A : wb[d] = 0
  <2> TAKE d \in A
  <2>1. b[d] = c[d] /\ b[d] \in Nat /\ wb[d] = b[d] - Least(b[d], c[d])
    BY <1>1, <1>4, <1>6 DEF Report
  <2> QED
    BY <2>1 DEF Least
<1>8. Instances(wb, fp) = 0
  <2>1. Instances(wb, fp) = SumOver(wb, A)
    BY DEF Instances, SumOver, A
  <2>2. SumOver(wb, A) = 0
    BY <1>6, <1>7, SumsCompare
  <2> QED
    BY <2>1, <2>2
<1>9. m = 0
  BY <1>2, <1>5, <1>8
<1>10. {k \in 1..m : Severity[right[k]] > Severity[left[k]]} = {}
  BY <1>9
<1> QED
  BY <1>3, <1>9, <1>10, FS_EmptySet DEF counts

(* What one receipt is accepted for.                                       *)
LEMMA AcceptsFacts ==
  ASSUME Ordered, runs \in Seq(Report)
  PROVE  \A k, j \in 2..Len(runs) :
           Accepts(runs, j, Receipt(runs[k - 1], runs[k], 0)) <=>
             runs[j - 1] = runs[k - 1] /\ runs[j] = runs[k]
<1> TAKE k, j \in 2..Len(runs)
<1>1. /\ runs[k - 1] \in Report /\ runs[k] \in Report
      /\ runs[j - 1] \in Report /\ runs[j] \in Report
  OBVIOUS
<1>2. EffectFromReceipt(runs[k - 1], runs[k]) = EffectFromHistory(runs[k - 1], runs[k])
  BY <1>1, EffectsAgree
<1> QED
  BY <1>2 DEF Accepts, Receipt

(* What the events of a row say of its run and the one before.             *)
LEMMA RowFacts ==
  ASSUME NEW steps, NEW k \in Nat, k > 0
  PROVE  LET row == Row(steps, k)
         IN  /\ "Resolved" \in row.events <=> ~At(steps, k) /\ k > 1 /\ At(steps, k - 1)
             /\ ("FirstSeen" \in row.events \/ "Reappeared" \in row.events)
                  <=> At(steps, k) /\ ~(k > 1 /\ At(steps, k - 1))
             /\ "Reappeared" \in row.events <=>
                  /\ At(steps, k) /\ ~(k > 1 /\ At(steps, k - 1))
                  /\ \E j \in 1..(k - 1) : At(steps, j)
             /\ row.phase = "Active" <=> At(steps, k)
             /\ TimelineMarker(row) = "Reappeared" <=> "Reappeared" \in row.events
             /\ TimelineMarker(row) = "Clean" <=> ~At(steps, k) /\ ~(k > 1 /\ At(steps, k - 1))
             /\ TimelineMarker(row) \in {"Resolved", "Clean"} <=> ~At(steps, k)
             /\ (k > 1 /\ At(steps, k - 1) /\ At(steps, k)
                 /\ steps[k].changed = 0 /\ steps[k].increases = 0) => row.events = {"Persisting"}
<1> DEFINE row == Row(steps, k)
           at == At(steps, k)
           before == \E j \in 1..(k - 1) : At(steps, j)
           previous == k > 1 /\ At(steps, k - 1)
           E == row.events
<1>1. E = Events(steps, k) /\ row.phase = Phase(steps, k)
  BY DEF Row
<1>2. /\ "FirstSeen" \in E <=> at /\ ~before
      /\ "Reappeared" \in E <=> at /\ before /\ ~previous
      /\ "Resolved" \in E <=> ~at /\ previous
      /\ "Changed" \in E <=> at /\ steps[k].changed # 0
      /\ "SeverityIncreased" \in E <=> at /\ steps[k].increases # 0
      /\ row.phase = "Active" <=> at
  BY <1>1, EventFacts DEF At
<1>3. previous => before
  OBVIOUS
<1>4. /\ TimelineMarker(row) = "Reappeared" <=> "Reappeared" \in E
      /\ TimelineMarker(row) = "Clean" <=>
           /\ E \cap {"Reappeared", "SeverityIncreased", "Changed", "Resolved", "FirstSeen"} = {}
           /\ row.phase # "Active"
      /\ TimelineMarker(row) = "Resolved" <=>
           "Resolved" \in E /\ E \cap {"Reappeared", "SeverityIncreased", "Changed"} = {}
  BY MarkerFacts
<1>5. previous /\ at /\ steps[k].changed = 0 /\ steps[k].increases = 0 => E = {"Persisting"}
  BY <1>1 DEF Events, At
<1> HIDE DEF row, at, before, previous, E
<1>6. TimelineMarker(row) = "Clean" <=> ~at /\ ~previous
  BY <1>2, <1>4
<1>7. TimelineMarker(row) = "Resolved" <=> ~at /\ previous
  BY <1>2, <1>4
<1> QED
  BY <1>2, <1>3, <1>4, <1>5, <1>6, <1>7 DEF row, at, before, previous, E

(* The first run that has it again is the first that returns.              *)
LEMMA LaterFacts ==
  ASSUME NEW steps \in Seq(Steps), NEW k \in 1..Len(steps), k > 1,
         ~At(steps, k), At(steps, k - 1),
         NEW later, later = {j \in (k + 1)..Len(steps) : At(steps, j)},
         NEW returns, returns = {j \in (k + 1)..Len(steps) : "Reappeared" \in Row(steps, j).events}
  PROVE  /\ returns = {} <=> later = {}
         /\ later # {} => Min(later) = Min(returns) /\ Min(later) # NoRun
<1> DEFINE n == Len(steps)
<1>1. n \in Nat /\ k \in Nat
  OBVIOUS
<1>2. /\ \A j : j \in later <=> j \in (k + 1)..n /\ At(steps, j)
      /\ \A j : j \in returns <=> j \in (k + 1)..n /\ "Reappeared" \in Row(steps, j).events
  OBVIOUS
<1> HIDE DEF n
<1>3. \A j \in (k + 1)..n : "Reappeared" \in Row(steps, j).events <=>
         At(steps, j) /\ ~(j > 1 /\ At(steps, j - 1)) /\ \E i \in 1..(j - 1) : At(steps, i)
  <2> TAKE j \in (k + 1)..n
  <2>1. j \in Nat /\ j > 0
    BY <1>1
  <2> QED
    BY <2>1, RowFacts
<1>4. IsFiniteSet((k + 1)..n)
  BY <1>1, FS_Interval
<1>5. later \subseteq (k + 1)..n /\ returns \subseteq later
  BY <1>2, <1>3
<1>6. IsFiniteSet(later) /\ IsFiniteSet(returns) /\ later \subseteq Int /\ returns \subseteq Int
  <2>1. returns \subseteq (k + 1)..n
    BY <1>5
  <2>2. IsFiniteSet(later)
    BY <1>4, <1>5, FS_Subset
  <2>3. IsFiniteSet(returns)
    BY <1>4, <2>1, FS_Subset
  <2>4. (k + 1)..n \subseteq Int
    BY <1>1
  <2> QED
    BY <1>5, <2>1, <2>2, <2>3, <2>4
<1>7. ASSUME later # {}
      PROVE  Min(later) \in returns /\ Min(later) \in (k + 1)..n
  <2> DEFINE l == Min(later)
  <2>1. l \in later /\ \A x \in later : l <= x
    BY <1>6, <1>7, Extremes
  <2> HIDE DEF l
  <2>2. l \in (k + 1)..n /\ At(steps, l) /\ l \in Int
    BY <1>2, <1>5, <1>6, <2>1
  <2>3. ~At(steps, l - 1)
    <3>1. CASE l = k + 1
      BY <1>1, <3>1
    <3>2. CASE l # k + 1
      <4>1. l - 1 \in (k + 1)..n /\ ~(l <= l - 1)
        BY <1>1, <2>2, <3>2
      <4> QED
        BY <1>2, <2>1, <4>1
    <3> QED
      BY <3>1, <3>2
  <2>4. k - 1 \in 1..(l - 1)
    BY <1>1, <2>2
  <2>5. l \in returns
    BY <1>2, <1>3, <2>2, <2>3, <2>4
  <2> QED
    BY <2>2, <2>5 DEF l
<1>8. ASSUME later # {}
      PROVE  Min(later) = Min(returns)
  <2>1. Min(later) \in later /\ \A x \in later : Min(later) <= x
    BY <1>6, <1>8, Extremes
  <2>2. Min(later) \in returns
    BY <1>7, <1>8
  <2>3. Min(returns) \in returns /\ \A x \in returns : Min(returns) <= x
    BY <1>6, <2>2, Extremes
  <2>4. Min(later) <= Min(returns) /\ Min(returns) <= Min(later)
    BY <1>5, <2>1, <2>2, <2>3
  <2>5. Min(later) \in Int /\ Min(returns) \in Int
    BY <1>6, <2>1, <2>3
  <2> QED
    BY <2>4, <2>5
<1> QED
  BY <1>1, <1>5, <1>7, <1>8 DEF NoRun

(* The replay of one transition.                                           *)
LEMMA ReplayOfOne ==
  ASSUME Ordered, runs \in Seq(Report), NEW fp \in Known
  PROVE  LET rows == Timeline(runs, fp)
             Has(k, event) == event \in rows[k].events
             track == <<>> \o [k \in DOMAIN rows |-> TimelineMarker(rows[k])]
         IN  /\ \A checks \in 0..1, k \in 2..Len(runs) :
                  LET step    == RemediationReplay(runs, fp, checks)[k]
                      returns == {j \in (k + 1)..Len(runs) : Has(j, "Reappeared")}
                  IN  /\ (step.transition = "Resolved") <=> Has(k, "Resolved")
                      /\ (step.transition = "Introduced")
                           <=> (Has(k, "FirstSeen") \/ Has(k, "Reappeared"))
                      /\ (step.transition = "Absent") <=> (track[k] = "Clean")
                      /\ step.transition = "Persisting" => rows[k].events = {"Persisting"}
                      /\ step.later = IF Has(k, "Resolved") /\ returns # {} THEN Min(returns)
                                      ELSE NoRun
                      /\ step.regression <=> checks > 0 /\ step.later # NoRun
             /\ \A k \in DOMAIN rows :
                  /\ (track[k] \in {"Resolved", "Clean"}) <=> rows[k].phase # "Active"
                  /\ (track[k] = "Reappeared") <=> Has(k, "Reappeared")
<1> DEFINE steps == Lineage(runs, fp)
           n == Len(runs)
           rows == Timeline(runs, fp)
           Has(k, event) == event \in rows[k].events
           signs == [k \in DOMAIN rows |-> TimelineMarker(rows[k])]
           track == <<>> \o signs
<1>1. fp \in Fingerprints
  BY DEF Known
<1>2. /\ n \in Nat /\ DOMAIN runs = 1..n /\ steps \in Seq(Steps) /\ Len(steps) = n
      /\ \A k \in 1..n : /\ runs[k] \in Report /\ steps[k] = LineageStep(runs, fp, k)
                         /\ At(steps, k) <=> Instances(runs[k], fp) # 0
  <2>1. n \in Nat /\ DOMAIN runs = 1..n /\ \A k \in 1..n : runs[k] \in Report
    OBVIOUS
  <2>2. /\ steps \in Seq(Steps) /\ Len(steps) = Len(runs)
        /\ \A k \in DOMAIN runs : /\ steps[k] = LineageStep(runs, fp, k)
                                  /\ steps[k].active = Had(runs, fp, k)
    BY <1>1, LineageFacts
  <2>3. \A k \in 1..n : Had(runs, fp, k) = Instances(runs[k], fp)
    BY DEF Had
  <2> HIDE DEF steps, n
  <2> QED
    BY <2>1, <2>2, <2>3 DEF At, n
<1>3. /\ rows \in Seq(Rows) /\ DOMAIN rows = 1..n
      /\ \A k \in 1..n : rows[k] = Row(steps, k)
  BY <1>1, TimelineFacts
<1> HIDE DEF rows
<1>4. \A k \in 1..n : track[k] = TimelineMarker(rows[k])
  <2> DEFINE marks == {TimelineMarker(rows[k]) : k \in 1..n}
  <2>1. signs \in [1..n -> marks] /\ \A k \in 1..n : signs[k] = TimelineMarker(rows[k])
    BY <1>3
  <2> HIDE DEF signs, marks
  <2>2. signs \in Seq(marks)
    BY <1>2, <2>1
  <2>3. <<>> \o signs = signs
    BY <2>2
  <2> QED
    BY <2>1, <2>3
<1> HIDE DEF steps, n, track
<1>5. ASSUME NEW k \in 1..n
      PROVE  /\ k \in Nat /\ k > 0
             /\ Has(k, "Resolved") <=> ~At(steps, k) /\ k > 1 /\ At(steps, k - 1)
             /\ (Has(k, "FirstSeen") \/ Has(k, "Reappeared"))
                  <=> At(steps, k) /\ ~(k > 1 /\ At(steps, k - 1))
             /\ rows[k].phase = "Active" <=> At(steps, k)
             /\ track[k] = "Reappeared" <=> Has(k, "Reappeared")
             /\ track[k] = "Clean" <=> ~At(steps, k) /\ ~(k > 1 /\ At(steps, k - 1))
             /\ track[k] \in {"Resolved", "Clean"} <=> ~At(steps, k)
             /\ (k > 1 /\ At(steps, k - 1) /\ At(steps, k)
                 /\ steps[k].changed = 0 /\ steps[k].increases = 0) => rows[k].events = {"Persisting"}
  <2>1. k \in Nat /\ k > 0 /\ rows[k] = Row(steps, k) /\ track[k] = TimelineMarker(Row(steps, k))
    BY <1>2, <1>3, <1>4
  <2> QED
    BY <2>1, RowFacts
<1>6. ASSUME NEW checks \in 0..1, NEW k \in 2..n
      PROVE  LET step    == RemediationReplay(runs, fp, checks)[k]
                 returns == {j \in (k + 1)..n : Has(j, "Reappeared")}
             IN  /\ (step.transition = "Resolved") <=> Has(k, "Resolved")
                 /\ (step.transition = "Introduced") <=> (Has(k, "FirstSeen") \/ Has(k, "Reappeared"))
                 /\ (step.transition = "Absent") <=> (track[k] = "Clean")
                 /\ step.transition = "Persisting" => rows[k].events = {"Persisting"}
                 /\ step.later = IF Has(k, "Resolved") /\ returns # {} THEN Min(returns) ELSE NoRun
                 /\ step.regression <=> checks > 0 /\ step.later # NoRun
  <2> DEFINE step == RemediationReplay(runs, fp, checks)[k]
             returns == {j \in (k + 1)..n : Has(j, "Reappeared")}
             later == {j \in (k + 1)..n : At(steps, j)}
             before == ByDigest(runs[k - 1], fp)
             after == ByDigest(runs[k], fp)
             seen == ClassifyTransition(before, after)
  <2>1. k \in 1..n /\ k - 1 \in 1..n /\ k > 1 /\ k \in Nat
    BY <1>2
  <2>2. /\ runs[k] \in Report /\ runs[k - 1] \in Report
        /\ At(steps, k) <=> Instances(runs[k], fp) # 0
        /\ At(steps, k - 1) <=> Instances(runs[k - 1], fp) # 0
        /\ steps[k] = LineageStep(runs, fp, k)
    BY <1>2, <2>1
  <2>3. step = ReplayStep(runs, fp, k, Status(checks))
    BY DEF RemediationReplay, n
  <2>4. /\ step.transition = seen
        /\ step.later = IF seen = "Resolved" THEN FirstLaterObservation(runs, fp, k + 1) ELSE NoRun
        /\ step.regression <=> Status(checks) = "verified" /\ step.later # NoRun
    <3>1. ReplayStep(runs, fp, k, Status(checks)).transition = seen
      BY DEF ReplayStep, Digests
    <3>2. ReplayStep(runs, fp, k, Status(checks)).later =
            IF seen = "Resolved" THEN FirstLaterObservation(runs, fp, k + 1) ELSE NoRun
      BY DEF ReplayStep, Digests
    <3>3. ReplayStep(runs, fp, k, Status(checks)).regression <=>
            Status(checks) = "verified" /\ ReplayStep(runs, fp, k, Status(checks)).later # NoRun
      BY DEF ReplayStep
    <3> QED
      BY <2>3, <3>1, <3>2, <3>3
  <2>5. /\ before = <<>> <=> ~At(steps, k - 1)
        /\ after = <<>> <=> ~At(steps, k)
    <3>1. \A r \in Report : ByDigest(r, fp) = <<>> <=> Instances(r, fp) = 0
      <4> TAKE r \in Report
      <4>1. ByDigest(r, fp) \in Seq(Of(fp)) /\ Len(ByDigest(r, fp)) = Instances(r, fp)
        BY ListLength
      <4> QED
        BY <4>1
    <3> QED
      BY <2>2, <3>1
  <2> HIDE DEF step, before, after
  <2>6. /\ seen = "Resolved" <=> At(steps, k - 1) /\ ~At(steps, k)
        /\ seen = "Introduced" <=> ~At(steps, k - 1) /\ At(steps, k)
        /\ seen = "Absent" <=> ~At(steps, k - 1) /\ ~At(steps, k)
        /\ seen = "Persisting" <=> At(steps, k - 1) /\ At(steps, k) /\ before = after
    BY <2>5 DEF ClassifyTransition
  <2> HIDE DEF seen
  <2>7. seen = "Persisting" => rows[k].events = {"Persisting"}
    <3> SUFFICES ASSUME seen = "Persisting"
                 PROVE  rows[k].events = {"Persisting"}
      OBVIOUS
    <3> DEFINE counts == CompareObservations(runs[k - 1], runs[k], fp)
    <3>1. counts.changed = 0 /\ counts.increases = 0
      BY <1>1, <2>2, <2>6, UnchangedFacts DEF before, after
    <3>2. steps[k].changed = counts.changed /\ steps[k].increases = counts.increases
      <4>1. k # 1
        BY <2>1
      <4> QED
        BY <2>2, <4>1 DEF LineageStep, Counted
    <3> HIDE DEF counts
    <3> QED
      BY <1>5, <2>1, <2>6, <3>1, <3>2
  <2>8. FirstLaterObservation(runs, fp, k + 1) = IF later = {} THEN NoRun ELSE Min(later)
    <3>1. {j \in (k + 1)..Len(runs) : Instances(runs[j], fp) # 0} = later
      <4>1. \A j \in (k + 1)..n : At(steps, j) <=> Instances(runs[j], fp) # 0
        BY <1>2, <2>1
      <4> QED
        BY <4>1 DEF n
    <3> HIDE DEF later
    <3> QED
      BY <3>1 DEF FirstLaterObservation
  <2>9. Has(k, "Resolved") <=> seen = "Resolved"
    BY <1>5, <2>1, <2>6
  <2>10. ASSUME seen = "Resolved"
         PROVE  /\ returns = {} <=> later = {}
                /\ later # {} => Min(later) = Min(returns) /\ Min(later) # NoRun
    <3>1. returns = {j \in (k + 1)..Len(steps) : "Reappeared" \in Row(steps, j).events}
      <4>1. \A j \in (k + 1)..n : rows[j] = Row(steps, j)
        BY <1>2, <1>3, <2>1
      <4> QED
        BY <1>2, <4>1
    <3>2. later = {j \in (k + 1)..Len(steps) : At(steps, j)}
      BY <1>2
    <3>3. k \in 1..Len(steps)
      BY <1>2, <2>1
    <3> HIDE DEF later, returns
    <3> QED
      BY <1>2, <2>1, <2>6, <2>10, <3>1, <3>2, <3>3, LaterFacts
  <2> HIDE DEF later, returns
  <2>11. step.later = IF Has(k, "Resolved") /\ returns # {} THEN Min(returns) ELSE NoRun
    BY <2>4, <2>8, <2>9, <2>10
  <2>12. Status(checks) = "verified" <=> checks > 0
    BY DEF Status
  <2>13. (step.transition = "Introduced") <=> (Has(k, "FirstSeen") \/ Has(k, "Reappeared"))
    BY <1>5, <2>1, <2>4, <2>6
  <2>14. (step.transition = "Absent") <=> (track[k] = "Clean")
    BY <1>5, <2>1, <2>4, <2>6
  <2> QED
    BY <2>4, <2>7, <2>9, <2>11, <2>12, <2>13, <2>14 DEF step, returns
<1>7. \A k \in DOMAIN rows : /\ (track[k] \in {"Resolved", "Clean"}) <=> rows[k].phase # "Active"
                             /\ (track[k] = "Reappeared") <=> Has(k, "Reappeared")
  BY <1>3, <1>5
<1> QED
  BY <1>6, <1>7 DEF rows, track, n

(* The last row of a timeline returned of exactly what a scan reports.     *)
LEMMA LatestFacts ==
  ASSUME Ordered, runs \in Seq(Report), NEW fp \in Fingerprints, fp \in Known
  PROVE  TimelineMarker(Timeline(runs, fp)[Len(runs)]) = "Reappeared"
           <=> fp \in LatestReappearances(runs)
<1> DEFINE steps == Lineage(runs, fp)
           n == Len(runs)
<1>1. /\ n \in Nat /\ Len(steps) = n
      /\ n > 0 => Timeline(runs, fp)[n] = Row(steps, n)
  BY LineageFacts, TimelineFacts
<1>2. n > 0
  BY DEF Known, Seen
<1>3. \A j : At(steps, j) <=> steps[j].active # 0
  BY DEF At
<1>4. fp \in LatestReappearances(runs) <=>
        /\ n > 1
        /\ steps[n].active # 0 /\ steps[n - 1].active = 0
        /\ \E k \in 1..(n - 1) : steps[k].active # 0
  BY DEF LatestReappearances
<1> HIDE DEF steps, n
<1>5. TimelineMarker(Row(steps, n)) = "Reappeared" <=>
        /\ At(steps, n) /\ ~(n > 1 /\ At(steps, n - 1))
        /\ \E j \in 1..(n - 1) : At(steps, j)
  BY <1>1, <1>2, RowFacts
<1>6. (\E j \in 1..(n - 1) : At(steps, j)) => n > 1
  BY <1>1
<1>7. TimelineMarker(Row(steps, n)) = "Reappeared" <=> fp \in LatestReappearances(runs)
  BY <1>3, <1>4, <1>5, <1>6
<1> QED
  BY <1>1, <1>2, <1>7 DEF n

(* What a scan reports as come back was recorded.                          *)
LEMMA LatestKnown ==
  ASSUME Ordered, runs \in Seq(Report)
  PROVE  LatestReappearances(runs) \subseteq Known
<1> SUFFICES ASSUME NEW fp \in LatestReappearances(runs)
             PROVE  fp \in Known
  OBVIOUS
<1>1. /\ fp \in Fingerprints /\ Len(runs) > 1
      /\ Lineage(runs, fp)[Len(runs)].active # 0
  BY DEF LatestReappearances
<1>2. Len(runs) \in DOMAIN runs
  BY <1>1
<1>3. Lineage(runs, fp)[Len(runs)].active = Had(runs, fp, Len(runs))
  BY <1>1, <1>2, LineageFacts
<1>4. Had(runs, fp, Len(runs)) = Instances(runs[Len(runs)], fp)
  BY <1>1, <1>2 DEF Had
<1> QED
  BY <1>1, <1>2, <1>3, <1>4 DEF Known, Seen

(* ReplayAgrees follows from what the state has.                           *)
LEMMA EvidenceAgrees ==
  ASSUME Ordered, runs \in Seq(Report)
  PROVE  ReplayAgrees
<1>1. \A k, j \in 2..Len(runs) :
        Accepts(runs, j, Receipt(runs[k - 1], runs[k], 0)) <=>
          runs[j - 1] = runs[k - 1] /\ runs[j] = runs[k]
  BY AcceptsFacts
<1>2. {fp \in Known : TimelineMarker(Timeline(runs, fp)[Len(runs)]) = "Reappeared"}
        = LatestReappearances(runs)
  <2>1. Known \subseteq Fingerprints
    BY DEF Known, Seen
  <2>2. \A fp \in Known : TimelineMarker(Timeline(runs, fp)[Len(runs)]) = "Reappeared"
                            <=> fp \in LatestReappearances(runs)
    BY <2>1, LatestFacts
  <2> QED
    BY <2>2, LatestKnown
<1> QED
  BY <1>1, <1>2, ReplayOfOne DEF ReplayAgrees

(* A receipt is accepted for exactly the runs that recorded its reports,   *)
(* and what a replay says of a transition, what the track of a timeline    *)
(* shows and what a scan reports as come back agree (ReplayAgrees), for    *)
(* any history of any length (remediation_evidence.rs,                     *)
(* remediation_replay.rs, diagprint.rs).                                   *)
THEOREM ReplayHolds == Spec => []ReplayAgrees
<1>1. Ordered /\ runs \in Seq(Report) => ReplayAgrees
  BY EvidenceAgrees
<1> QED
  BY <1>1, RecordsHold, PTL
=============================================================================
