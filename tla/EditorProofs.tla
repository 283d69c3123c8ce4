----------------------------- MODULE EditorProofs -----------------------------
(***************************************************************************)
(* What is proved of edits, of the editor session and of the builds that   *)
(* are imported, for any texts, lists of edits, names, revisions, versions *)
(* and lines (EditApply, LanguageServer, SourceCache, Editor, CargoImport).*)
(*                                                                         *)
(* Edits one by one from the end do what they do all at once: by induction *)
(* over the steps, what was applied so far is what the first of the sorted *)
(* list do all at once, and because they are apart, the next range still   *)
(* lies in the part of the text that is as it was.                         *)
(*                                                                         *)
(* A client does the same from lines and characters: the position of a     *)
(* boundary is that of no other, in every encoding.                        *)
(*                                                                         *)
(* A snapshot that is current holds the text of the cache: a revision is   *)
(* of a name and not of an entry, so it is never given twice.  With what   *)
(* the client said of its versions, an offer for the version it shows was  *)
(* validated against the text it shows.                                    *)
(*                                                                         *)
(* Of a diagnostic that was imported, every span that was read became an   *)
(* edit of the text that was read for it, or nothing; a suggestion that is *)
(* machine applicable was hydrated whole and inserts nothing, so what      *)
(* validation found fresh is what was read, and the edits, from the end,   *)
(* do what they do all at once.                                            *)
(***************************************************************************)
EXTENDS Editor, CargoImport, Facts

-----------------------------------------------------------------------------
(* Order                                                                   *)

(* The place of each member of a list in an order of its places.           *)
Places(n, R) == [r \in 1..n |-> CHOOSE i \in 1..n : Cardinality({j \in 1..n : <<j, i>> \in R}) = r - 1]

(* A relation that puts n places in a row.                                 *)
Orders(R, n) ==
  /\ \A i \in 1..n : <<i, i>> \notin R
  /\ \A i, j, k \in 1..n : <<i, j>> \in R /\ <<j, k>> \in R => <<i, k>> \in R
  /\ \A i, j \in 1..n : i # j => <<i, j>> \in R \/ <<j, i>> \in R

(* Every place comes once, in the order of the relation.                   *)
LEMMA PlacesFacts ==
  ASSUME NEW n \in Nat, NEW R, Orders(R, n)
  PROVE  LET place == Places(n, R)
         IN  /\ place \in [1..n -> 1..n]
             /\ \A i \in 1..n : \E r \in 1..n : place[r] = i
             /\ \A r, s \in 1..n : r < s <=> <<place[r], place[s]>> \in R
<1> DEFINE S == 1..n
           Rank(i) == Cardinality({j \in S : <<j, i>> \in R})
           place == Places(n, R)
<1>1. IsFiniteSet(S) /\ Cardinality(S) = n
  BY FS_Interval
<1>2. /\ \A i \in S : <<i, i>> \notin R
      /\ \A i, j, k \in S : <<i, j>> \in R /\ <<j, k>> \in R => <<i, k>> \in R
      /\ \A i, j \in S : i # j => <<i, j>> \in R \/ <<j, i>> \in R
  BY DEF Orders
<1>3. place = [r \in S |-> CHOOSE i \in S : Rank(i) = r - 1]
  BY DEF Places
<1>4. n \in Nat /\ \A k : k \in S <=> k \in Nat /\ 1 <= k /\ k <= n
  OBVIOUS
<1> HIDE DEF S, place
<1>5. /\ \A i \in S : Rank(i) \in 0..(n - 1)
      /\ \A i, j \in S : <<i, j>> \in R <=> Rank(i) < Rank(j)
      /\ \A i, j \in S : Rank(i) = Rank(j) => i = j
      /\ \A k \in 1..n : \E i \in S : Rank(i) = k - 1
  BY <1>1, <1>2, RankFacts
<1> HIDE DEF Rank
<1>6. \A r \in S : place[r] \in S /\ Rank(place[r]) = r - 1
  <2> TAKE r \in S
  <2>1. \E i \in S : Rank(i) = r - 1
    BY <1>4, <1>5
  <2> QED
    BY <1>3, <2>1
<1>7. \A r, s \in S : r < s <=> <<place[r], place[s]>> \in R
  BY <1>4, <1>5, <1>6
<1>8. \A i \in S : \E r \in S : place[r] = i
  <2> TAKE i \in S
  <2>1. Rank(i) + 1 \in S /\ Rank(i) = (Rank(i) + 1) - 1
    BY <1>4, <1>5
  <2> DEFINE r == Rank(i) + 1
  <2>2. r \in S /\ Rank(place[r]) = Rank(i) /\ place[r] \in S
    BY <1>6, <2>1
  <2> HIDE DEF r
  <2> QED
    BY <1>5, <2>2
<1> QED
  BY <1>3, <1>6, <1>7, <1>8 DEF S, place

(* Listed by one number, then by another, then as it comes.                *)
LEMMA ListedFacts ==
  ASSUME NEW n \in Nat, NEW a \in [1..n -> Int], NEW b \in [1..n -> Int], NEW R,
         \A i, j \in 1..n : <<i, j>> \in R <=>
           \/ a[i] < a[j]
           \/ a[i] = a[j] /\ b[i] < b[j]
           \/ a[i] = a[j] /\ b[i] = b[j] /\ i < j
  PROVE  Orders(R, n)
<1> DEFINE Less(i, j) == \/ a[i] < a[j]
                         \/ a[i] = a[j] /\ b[i] < b[j]
                         \/ a[i] = a[j] /\ b[i] = b[j] /\ i < j
<1>1. \A i \in 1..n : i \in Int /\ a[i] \in Int /\ b[i] \in Int
  OBVIOUS
<1>2. \A i \in 1..n : ~Less(i, i)
  BY <1>1
<1>3. \A i, j, k \in 1..n : Less(i, j) /\ Less(j, k) => Less(i, k)
  <2> TAKE i, j, k \in 1..n
  <2>1. i \in Int /\ j \in Int /\ k \in Int /\ a[i] \in Int /\ a[j] \in Int /\ a[k] \in Int
    BY <1>1
  <2>2. b[i] \in Int /\ b[j] \in Int /\ b[k] \in Int
    BY <1>1
  <2> QED
    BY <2>1, <2>2
<1>4. \A i, j \in 1..n : i # j => Less(i, j) \/ Less(j, i)
  <2> TAKE i, j \in 1..n
  <2>1. i \in Int /\ j \in Int /\ a[i] \in Int /\ a[j] \in Int /\ b[i] \in Int /\ b[j] \in Int
    BY <1>1
  <2> QED
    BY <2>1
<1>5. \A i, j \in 1..n : <<i, j>> \in R <=> Less(i, j)
  OBVIOUS
<1> HIDE DEF Less
<1> QED
  BY <1>2, <1>3, <1>4, <1>5 DEF Orders

(* A list of edits by where they start and end: what the order says, and   *)
(* its places.                                                             *)
BySpan(list) ==
  {p \in (1..Len(list)) \X (1..Len(list)) :
     \/ SpanBefore(list[p[1]], list[p[2]])
     \/ ~SpanBefore(list[p[2]], list[p[1]]) /\ p[1] < p[2]}

(* Sorting by span puts the edits in the order of BySpan.                  *)
LEMMA SortedBySpan ==
  ASSUME NEW A, NEW list \in Seq(A), \A e \in A : e.start \in Nat /\ e.end \in Nat
  PROVE  LET n == Len(list)
             R == BySpan(list)
         IN  /\ Orders(R, n)
             /\ \A i, j \in 1..n : <<i, j>> \in R <=>
                  \/ list[i].start < list[j].start
                  \/ list[i].start = list[j].start /\ list[i].end < list[j].end
                  \/ list[i].start = list[j].start /\ list[i].end = list[j].end /\ i < j
             /\ Sorted(list, SpanBefore) = [r \in 1..n |-> list[Places(n, R)[r]]]
<1> DEFINE n == Len(list)
           R == BySpan(list)
           place == Places(n, R)
           a == [i \in 1..n |-> list[i].start]
           b == [i \in 1..n |-> list[i].end]
<1>1. n \in Nat /\ DOMAIN list = 1..n /\ \A i \in 1..n : list[i].start \in Nat /\ list[i].end \in Nat
  OBVIOUS
<1>2. R = {p \in (1..n) \X (1..n) : \/ SpanBefore(list[p[1]], list[p[2]])
                                    \/ ~SpanBefore(list[p[2]], list[p[1]]) /\ p[1] < p[2]}
  BY DEF BySpan
<1>3. n = Len(list)
  OBVIOUS
<1> HIDE DEF n, R
<1>4. \A i, j \in 1..n : <<i, j>> \in R <=>
        SpanBefore(list[i], list[j]) \/ (~SpanBefore(list[j], list[i]) /\ i < j)
  BY <1>2
<1>5. /\ a \in [1..n -> Int] /\ b \in [1..n -> Int]
      /\ \A i \in 1..n : a[i] = list[i].start /\ b[i] = list[i].end
  BY <1>1
<1> HIDE DEF a, b
<1>6. \A i, j \in 1..n : SpanBefore(list[i], list[j]) <=> a[i] < a[j] \/ (a[i] = a[j] /\ b[i] < b[j])
  BY <1>5 DEF SpanBefore
<1>7. \A i, j \in 1..n : <<i, j>> \in R <=>
        \/ a[i] < a[j]
        \/ a[i] = a[j] /\ b[i] < b[j]
        \/ a[i] = a[j] /\ b[i] = b[j] /\ i < j
  <2> TAKE i, j \in 1..n
  <2>1. i \in Int /\ j \in Int /\ a[i] \in Int /\ a[j] \in Int /\ b[i] \in Int /\ b[j] \in Int
    BY <1>1, <1>5
  <2>2. /\ SpanBefore(list[i], list[j]) <=> a[i] < a[j] \/ (a[i] = a[j] /\ b[i] < b[j])
        /\ SpanBefore(list[j], list[i]) <=> a[j] < a[i] \/ (a[j] = a[i] /\ b[j] < b[i])
    BY <1>6
  <2>3. <<i, j>> \in R <=> SpanBefore(list[i], list[j]) \/ (~SpanBefore(list[j], list[i]) /\ i < j)
    BY <1>4
  <2> QED
    BY <2>1, <2>2, <2>3
<1>8. Orders(R, n)
  BY <1>1, <1>5, <1>7, ListedFacts
<1>9. Sorted(list, SpanBefore) = [r \in DOMAIN list |->
        list[CHOOSE i \in DOMAIN list : Cardinality({j \in DOMAIN list :
           SpanBefore(list[j], list[i]) \/ (~SpanBefore(list[i], list[j]) /\ j < i)}) = r - 1]]
  BY DEF Sorted
<1>10. \A i \in 1..n :
         {j \in DOMAIN list : SpanBefore(list[j], list[i]) \/ (~SpanBefore(list[i], list[j]) /\ j < i)}
           = {j \in 1..n : <<j, i>> \in R}
  BY <1>1, <1>4
<1>11. \A r \in 1..n :
        (CHOOSE i \in 1..n : Cardinality({j \in DOMAIN list :
           SpanBefore(list[j], list[i]) \/ (~SpanBefore(list[i], list[j]) /\ j < i)}) = r - 1)
        = (CHOOSE i \in 1..n : Cardinality({j \in 1..n : <<j, i>> \in R}) = r - 1)
  BY <1>10
<1>12. \A r \in 1..n : place[r] = (CHOOSE i \in 1..n : Cardinality({j \in 1..n : <<j, i>> \in R}) = r - 1)
  BY DEF Places
<1> HIDE DEF place
<1>13. Sorted(list, SpanBefore) = [r \in 1..n |-> list[place[r]]]
  <2>1. \A r \in 1..n :
          (CHOOSE i \in 1..n : Cardinality({j \in DOMAIN list :
             SpanBefore(list[j], list[i]) \/ (~SpanBefore(list[i], list[j]) /\ j < i)}) = r - 1)
          = place[r]
    BY <1>11, <1>12
  <2> QED
    BY <1>1, <1>9, <2>1
<1>14. \A i, j \in 1..n : <<i, j>> \in R <=>
        \/ list[i].start < list[j].start
        \/ list[i].start = list[j].start /\ list[i].end < list[j].end
        \/ list[i].start = list[j].start /\ list[i].end = list[j].end /\ i < j
  <2> TAKE i, j \in 1..n
  <2>1. /\ a[i] = list[i].start /\ b[i] = list[i].end
        /\ a[j] = list[j].start /\ b[j] = list[j].end
    BY <1>5
  <2> QED
    BY <1>7, <2>1
<1> QED
  BY <1>8, <1>13, <1>14 DEF n, R, place

(* The same of a list from the last start to the first.                    *)
ByEnd(list) ==
  {p \in (1..Len(list)) \X (1..Len(list)) :
     \/ FromTheEnd(list[p[1]], list[p[2]])
     \/ ~FromTheEnd(list[p[2]], list[p[1]]) /\ p[1] < p[2]}

(* Sorting from the end puts the edits in the order of ByEnd.              *)
LEMMA SortedByEnd ==
  ASSUME NEW A, NEW list \in Seq(A), \A e \in A : e.start \in Nat
  PROVE  LET n == Len(list)
             R == ByEnd(list)
         IN  /\ Orders(R, n)
             /\ \A i, j \in 1..n : <<i, j>> \in R <=>
                  \/ list[j].start < list[i].start
                  \/ list[i].start = list[j].start /\ i < j
             /\ Sorted(list, FromTheEnd) = [r \in 1..n |-> list[Places(n, R)[r]]]
<1> DEFINE n == Len(list)
           R == ByEnd(list)
           place == Places(n, R)
           a == [i \in 1..n |-> -list[i].start]
           b == [i \in 1..n |-> 0]
<1>1. n \in Nat /\ DOMAIN list = 1..n /\ \A i \in 1..n : list[i].start \in Nat
  OBVIOUS
<1>2. R = {p \in (1..n) \X (1..n) : \/ FromTheEnd(list[p[1]], list[p[2]])
                                    \/ ~FromTheEnd(list[p[2]], list[p[1]]) /\ p[1] < p[2]}
  BY DEF ByEnd
<1>3. n = Len(list)
  OBVIOUS
<1> HIDE DEF n, R
<1>4. \A i, j \in 1..n : <<i, j>> \in R <=>
        FromTheEnd(list[i], list[j]) \/ (~FromTheEnd(list[j], list[i]) /\ i < j)
  BY <1>2
<1>5. /\ a \in [1..n -> Int] /\ b \in [1..n -> Int]
      /\ \A i \in 1..n : a[i] = -list[i].start /\ b[i] = 0
  BY <1>1
<1> HIDE DEF a, b
<1>6. \A i, j \in 1..n : FromTheEnd(list[i], list[j]) <=> a[i] < a[j] \/ (a[i] = a[j] /\ b[i] < b[j])
  BY <1>1, <1>5 DEF FromTheEnd
<1>7. \A i, j \in 1..n : <<i, j>> \in R <=>
        \/ a[i] < a[j]
        \/ a[i] = a[j] /\ b[i] < b[j]
        \/ a[i] = a[j] /\ b[i] = b[j] /\ i < j
  <2> TAKE i, j \in 1..n
  <2>1. i \in Int /\ j \in Int /\ a[i] \in Int /\ a[j] \in Int /\ b[i] \in Int /\ b[j] \in Int
    BY <1>1, <1>5
  <2>2. /\ FromTheEnd(list[i], list[j]) <=> a[i] < a[j] \/ (a[i] = a[j] /\ b[i] < b[j])
        /\ FromTheEnd(list[j], list[i]) <=> a[j] < a[i] \/ (a[j] = a[i] /\ b[j] < b[i])
    BY <1>6
  <2>3. <<i, j>> \in R <=> FromTheEnd(list[i], list[j]) \/ (~FromTheEnd(list[j], list[i]) /\ i < j)
    BY <1>4
  <2> QED
    BY <2>1, <2>2, <2>3
<1>8. Orders(R, n)
  BY <1>1, <1>5, <1>7, ListedFacts
<1>9. Sorted(list, FromTheEnd) = [r \in DOMAIN list |->
        list[CHOOSE i \in DOMAIN list : Cardinality({j \in DOMAIN list :
           FromTheEnd(list[j], list[i]) \/ (~FromTheEnd(list[i], list[j]) /\ j < i)}) = r - 1]]
  BY DEF Sorted
<1>10. \A i \in 1..n :
         {j \in DOMAIN list : FromTheEnd(list[j], list[i]) \/ (~FromTheEnd(list[i], list[j]) /\ j < i)}
           = {j \in 1..n : <<j, i>> \in R}
  BY <1>1, <1>4
<1>11. \A r \in 1..n :
        (CHOOSE i \in 1..n : Cardinality({j \in DOMAIN list :
           FromTheEnd(list[j], list[i]) \/ (~FromTheEnd(list[i], list[j]) /\ j < i)}) = r - 1)
        = (CHOOSE i \in 1..n : Cardinality({j \in 1..n : <<j, i>> \in R}) = r - 1)
  BY <1>10
<1>12. \A r \in 1..n : place[r] = (CHOOSE i \in 1..n : Cardinality({j \in 1..n : <<j, i>> \in R}) = r - 1)
  BY DEF Places
<1> HIDE DEF place
<1>13. Sorted(list, FromTheEnd) = [r \in 1..n |-> list[place[r]]]
  <2>1. \A r \in 1..n :
          (CHOOSE i \in 1..n : Cardinality({j \in DOMAIN list :
             FromTheEnd(list[j], list[i]) \/ (~FromTheEnd(list[i], list[j]) /\ j < i)}) = r - 1)
          = place[r]
    BY <1>11, <1>12
  <2> QED
    BY <1>1, <1>9, <2>1
<1>14. \A i, j \in 1..n : <<i, j>> \in R <=>
        \/ list[j].start < list[i].start
        \/ list[i].start = list[j].start /\ i < j
  <2> TAKE i, j \in 1..n
  <2>1. /\ a[i] = -list[i].start /\ b[i] = 0
        /\ a[j] = -list[j].start /\ b[j] = 0 /\ list[i].start \in Nat /\ list[j].start \in Nat
    BY <1>1, <1>5
  <2> QED
    <3>1. <<i, j>> \in R <=>
            \/ a[i] < a[j]
            \/ a[i] = a[j] /\ b[i] < b[j]
            \/ a[i] = a[j] /\ b[i] = b[j] /\ i < j
      BY <1>7
    <3>2. \A x, y \in Nat : (-x < -y <=> y < x) /\ (-x = -y <=> x = y)
      OBVIOUS
    <3> QED
      BY <2>1, <3>1, <3>2
<1> QED
  BY <1>8, <1>13, <1>14 DEF n, R, place

-----------------------------------------------------------------------------
(* All edits at once                                                       *)

(* Edits that fit a text of this length; and ones that keep out of each    *)
(* other's way.                                                            *)
Fitting(E, A, length) ==
  \A e \in E : /\ e.start \in Nat /\ e.end \in Nat /\ e.new \in Seq(A)
               /\ e.start <= e.end /\ e.end <= length

(* No two edits touch one byte or put two texts at one place.              *)
Apart(list) ==
  \A i, j \in DOMAIN list : i # j =>
    /\ list[i].end <= list[j].start \/ list[j].end <= list[i].start
    /\ ~(list[i].start = list[i].end /\ list[j].start = list[j].end /\ list[i].start = list[j].start)

(* What AllAtOnce makes of one place.                                      *)
PieceOf(text, list, p) ==
  PutIn(list, p - 1, TRUE) \o PutIn(list, p - 1, FALSE) \o
  IF p > Len(text) \/ Covered(list, p - 1) THEN <<>> ELSE <<text[p]>>

(* What it makes of all of them.                                           *)
Pieces(text, list) == [p \in 1..(Len(text) + 1) |-> PieceOf(text, list, p)]

(* AllAtOnce is these pieces, one after another.                           *)
LEMMA PiecesAre ==
  ASSUME NEW text, NEW list
  PROVE  AllAtOnce(text, list) = FlattenSeq(Pieces(text, list))
  BY DEF AllAtOnce, Pieces, PieceOf

(* What an edit puts in is a text.                                         *)
LEMMA PutInFacts ==
  ASSUME NEW A, NEW E, NEW length, Fitting(E, A, length), NEW list \in Seq(E), NEW k, NEW empty
  PROVE  /\ PutIn(list, k, empty) \in Seq(A)
         /\ (\A i \in DOMAIN list : list[i].start # k) => PutIn(list, k, empty) = <<>>
<1> DEFINE here == {i \in DOMAIN list : list[i].start = k /\ (list[i].end = k) = empty}
<1>1. PutIn(list, k, empty) = IF here = {} THEN <<>> ELSE list[CHOOSE i \in here : TRUE].new
  BY DEF PutIn
<1>2. \A i \in here : list[i].new \in Seq(A)
  BY DEF Fitting
<1>3. (\A i \in DOMAIN list : list[i].start # k) => here = {}
  OBVIOUS
<1>4. here # {} => (CHOOSE i \in here : TRUE) \in here
  OBVIOUS
<1>5. <<>> \in Seq(A)
  OBVIOUS
<1> HIDE DEF here
<1> QED
  BY <1>1, <1>2, <1>3, <1>4, <1>5

(* An edit listed last puts in its text where it starts, and nothing else  *)
(* anywhere.                                                               *)
LEMMA OneMore ==
  ASSUME NEW A, NEW E, NEW length, Fitting(E, A, length), NEW list \in Seq(E), NEW e \in E,
         Apart(Append(list, e)), NEW k \in Nat
  PROVE  /\ \A empty \in BOOLEAN :
              PutIn(Append(list, e), k, empty) =
                IF e.start = k /\ ((e.end = k) <=> empty) THEN e.new ELSE PutIn(list, k, empty)
         /\ \A empty \in BOOLEAN :
              e.start = k /\ ((e.end = k) <=> empty) => PutIn(list, k, empty) = <<>>
         /\ Covered(Append(list, e), k) <=> Covered(list, k) \/ (e.start <= k /\ k < e.end)
<1> DEFINE n == Len(list)
           more == Append(list, e)
<1>1. /\ n \in Nat /\ DOMAIN list = 1..n /\ DOMAIN more = 1..(n + 1)
      /\ more[n + 1] = e /\ \A i \in 1..n : more[i] = list[i] /\ list[i] \in E
  OBVIOUS
<1>2. \A i \in 1..n :
        /\ list[i].end <= e.start \/ e.end <= list[i].start
        /\ ~(list[i].start = list[i].end /\ e.start = e.end /\ list[i].start = e.start)
  <2> TAKE i \in 1..n
  <2>1. i \in DOMAIN more /\ n + 1 \in DOMAIN more /\ i # n + 1 /\ more[i] = list[i]
    BY <1>1
  <2> HIDE DEF more
  <2> QED
    BY <1>1, <2>1 DEF Apart, more
<1>3. \A d \in E : d.start \in Nat /\ d.end \in Nat /\ d.start <= d.end
  BY DEF Fitting
<1>4. Covered(list, k) <=> \E i \in 1..n : list[i].start <= k /\ k < list[i].end
  BY <1>1 DEF Covered
<1>5. Covered(more, k) <=> \E i \in 1..(n + 1) : more[i].start <= k /\ k < more[i].end
  <2> HIDE DEF more
  <2> QED
    BY <1>1 DEF Covered
<1> HIDE DEF n, more
<1>6. \A i : i \in 1..(n + 1) <=> i \in 1..n \/ i = n + 1
  BY <1>1
<1>7. Covered(more, k) <=> Covered(list, k) \/ (e.start <= k /\ k < e.end)
  BY <1>1, <1>4, <1>5, <1>6
<1>8. ASSUME NEW empty \in BOOLEAN
      PROVE  /\ PutIn(more, k, empty) =
                  IF e.start = k /\ ((e.end = k) <=> empty) THEN e.new ELSE PutIn(list, k, empty)
             /\ e.start = k /\ ((e.end = k) <=> empty) => PutIn(list, k, empty) = <<>>
  <2> DEFINE Here(l) == {i \in DOMAIN l : l[i].start = k /\ (l[i].end = k) = empty}
             before == Here(list)
             after == Here(more)
  <2>1. /\ PutIn(list, k, empty) = IF before = {} THEN <<>> ELSE list[CHOOSE i \in before : TRUE].new
        /\ PutIn(more, k, empty) = IF after = {} THEN <<>> ELSE more[CHOOSE i \in after : TRUE].new
    BY DEF PutIn
  <2>2. \A i : i \in before <=> i \in 1..n /\ list[i].start = k /\ ((list[i].end = k) <=> empty)
    BY <1>1
  <2>3. \A i : i \in after <=> i \in 1..(n + 1) /\ more[i].start = k /\ ((more[i].end = k) <=> empty)
    BY <1>1
  <2> HIDE DEF before, after
  <2>4. CASE e.start = k /\ ((e.end = k) <=> empty)
    <3>1. before = {}
      <4> SUFFICES ASSUME NEW i \in before PROVE FALSE
        OBVIOUS
      <4>1. i \in 1..n /\ list[i].start = k /\ ((list[i].end = k) <=> empty)
        BY <2>2
      <4>2. list[i].start \in Nat /\ list[i].end \in Nat /\ list[i].start <= list[i].end
        BY <1>1, <1>3, <4>1
      <4>3. e.start \in Nat /\ e.end \in Nat /\ e.start <= e.end
        BY <1>3
      <4> QED
        BY <1>2, <2>4, <4>1, <4>2, <4>3
    <3>2. after = {n + 1}
      BY <1>1, <1>6, <2>2, <2>3, <2>4, <3>1
    <3>3. more[CHOOSE i \in after : TRUE] = e
      BY <1>1, <3>2
    <3> QED
      BY <2>1, <2>4, <3>1, <3>2, <3>3
  <2>5. CASE ~(e.start = k /\ ((e.end = k) <=> empty))
    <3>1. after = before
      BY <1>1, <1>6, <2>2, <2>3, <2>5
    <3>2. before # {} => (CHOOSE i \in before : TRUE) \in 1..n
      BY <2>2
    <3> QED
      BY <1>1, <2>1, <2>5, <3>1, <3>2
  <2> QED
    BY <2>4, <2>5
<1> QED
  BY <1>7, <1>8 DEF more

(* The text up to a place and one byte more.                               *)
LEMMA SliceGrows ==
  ASSUME NEW A, NEW text \in Seq(A), NEW k \in Nat, k < Len(text)
  PROVE  Slice(text, 0, k) \o <<text[k + 1]>> = Slice(text, 0, k + 1)
  BY DEF Slice

(* Texts put one after another.                                            *)
LEMMA Joined ==
  ASSUME NEW A, NEW a \in Seq(A), NEW b \in Seq(A), NEW c \in Seq(A)
  PROVE  /\ a \o b \o c \in Seq(A)
         /\ a \o b \o c = a \o (b \o c)
         /\ <<>> \o a = a /\ a \o <<>> = a
  OBVIOUS

Associative(S) == \A a, b, c \in S : a \o b \o c = a \o (b \o c)

LEMMA Associates ==
  ASSUME NEW A
  PROVE  Associative(Seq(A))
  BY Joined DEF Associative

(* A piece is a text.                                                      *)
LEMMA PieceFacts ==
  ASSUME NEW A, NEW text \in Seq(A), NEW E, Fitting(E, A, Len(text)), NEW list \in Seq(E)
  PROVE  /\ Pieces(text, list) \in Seq(Seq(A)) /\ Len(Pieces(text, list)) = Len(text) + 1
         /\ \A p \in 1..(Len(text) + 1) : Pieces(text, list)[p] = PieceOf(text, list, p)
         /\ \A p \in 1..Len(text) :
              (\A i \in DOMAIN list : list[i].start >= p) => PieceOf(text, list, p) = <<text[p]>>
<1> DEFINE m == Len(text)
<1>1. m \in Nat /\ \A p \in 1..m : text[p] \in A
  OBVIOUS
<1>2. \A p \in 1..(m + 1) : PieceOf(text, list, p) \in Seq(A)
  <2> TAKE p \in 1..(m + 1)
  <2> DEFINE rest == IF p > m \/ Covered(list, p - 1) THEN <<>> ELSE <<text[p]>>
  <2>1. rest \in Seq(A)
    <3>1. p > m \/ p \in 1..m
      BY <1>1
    <3> QED
      BY <1>1, <3>1
  <2> DEFINE first == PutIn(list, p - 1, TRUE)
             second == PutIn(list, p - 1, FALSE)
  <2>2. first \in Seq(A) /\ second \in Seq(A)
    BY PutInFacts
  <2>3. PieceOf(text, list, p) = first \o second \o rest
    BY DEF PieceOf
  <2> HIDE DEF rest, first, second
  <2> QED
    BY <2>1, <2>2, <2>3, Joined
<1>3. ASSUME NEW p \in 1..m, \A i \in DOMAIN list : list[i].start >= p
      PROVE  PieceOf(text, list, p) = <<text[p]>>
  <2>1. \A i \in DOMAIN list : list[i].start \in Nat /\ list[i].start >= p
    BY <1>3 DEF Fitting
  <2>2. p \in Nat /\ p <= m
    BY <1>1
  <2>3. PutIn(list, p - 1, TRUE) = <<>> /\ PutIn(list, p - 1, FALSE) = <<>>
    <3>1. \A i \in DOMAIN list : list[i].start # p - 1
      BY <2>1, <2>2
    <3> QED
      BY <3>1, PutInFacts
  <2>4. ~Covered(list, p - 1)
    BY <2>1, <2>2 DEF Covered
  <2> DEFINE first == PutIn(list, p - 1, TRUE)
             second == PutIn(list, p - 1, FALSE)
             rest == IF p > m \/ Covered(list, p - 1) THEN <<>> ELSE <<text[p]>>
  <2>5. PieceOf(text, list, p) = first \o second \o rest
    BY DEF PieceOf
  <2>6. rest = <<text[p]>>
    BY <2>2, <2>4
  <2>7. <<text[p]>> \in Seq(A)
    BY <1>1
  <2>8. first = <<>> /\ second = <<>>
    BY <2>3
  <2> HIDE DEF rest, first, second
  <2> QED
    BY <2>5, <2>6, <2>7, <2>8
<1>4. Pieces(text, list) = [p \in 1..(m + 1) |-> PieceOf(text, list, p)]
  BY DEF Pieces
<1>5. Pieces(text, list) \in Seq(Seq(A)) /\ Len(Pieces(text, list)) = m + 1
  <2>1. Pieces(text, list) \in [1..(m + 1) -> Seq(A)]
    BY <1>2, <1>4
  <2> HIDE DEF m
  <2> QED
    BY <1>1, <2>1
<1> QED
  BY <1>3, <1>4, <1>5

(* What an edit makes of each piece.                                       *)
LEMMA PieceOfMore ==
  ASSUME NEW A, NEW text \in Seq(A), NEW E, Fitting(E, A, Len(text)), NEW list \in Seq(E),
         NEW e \in E, Apart(Append(list, e)), \A i \in DOMAIN list : list[i].start >= e.end,
         NEW p \in 1..(Len(text) + 1)
  PROVE  LET before == PieceOf(text, list, p)
             after  == PieceOf(text, Append(list, e), p)
         IN  /\ p <= e.start => after = <<text[p]>>
             /\ p = e.start + 1 => IF e.start = e.end THEN after = e.new \o before ELSE after = e.new
             /\ p > e.start + 1 /\ p <= e.end => after = <<>>
             /\ p > e.start + 1 /\ p > e.end => after = before
<1> DEFINE k == p - 1
           more == Append(list, e)
           P(empty) == PutIn(list, k, empty)
           Q(empty) == PutIn(more, k, empty)
           p1 == P(TRUE)
           p2 == P(FALSE)
           q1 == Q(TRUE)
           q2 == Q(FALSE)
           was == PieceOf(text, list, p)
           is == PieceOf(text, more, p)
           m == Len(text)
           byte == <<text[p]>>
<1>1. /\ m \in Nat /\ p \in Nat /\ k \in Nat /\ k + 1 = p /\ p <= m + 1
      /\ e.start \in Nat /\ e.end \in Nat /\ e.start <= e.end /\ e.end <= m /\ e.new \in Seq(A)
  BY DEF Fitting
<1>2. /\ \A empty \in BOOLEAN :
           /\ Q(empty) = IF e.start = k /\ ((e.end = k) <=> empty) THEN e.new ELSE P(empty)
           /\ e.start = k /\ ((e.end = k) <=> empty) => P(empty) = <<>>
      /\ Covered(more, k) <=> Covered(list, k) \/ (e.start <= k /\ k < e.end)
  BY <1>1, OneMore
<1>3. p1 \in Seq(A) /\ p2 \in Seq(A)
  BY PutInFacts
<1>4. \A i \in DOMAIN list : list[i].start \in Nat /\ list[i].start >= e.end
  BY DEF Fitting
<1>5. /\ was = p1 \o p2 \o (IF p > m \/ Covered(list, k) THEN <<>> ELSE byte)
      /\ is = q1 \o q2 \o (IF p > m \/ Covered(more, k) THEN <<>> ELSE byte)
  BY DEF PieceOf
<1>6. p <= m => byte \in Seq(A)
  BY <1>1
<1>7. k < e.end => p1 = <<>> /\ p2 = <<>> /\ ~Covered(list, k)
  <2> SUFFICES ASSUME k < e.end PROVE p1 = <<>> /\ p2 = <<>> /\ ~Covered(list, k)
    OBVIOUS
  <2>1. \A i \in DOMAIN list : list[i].start # k /\ ~(list[i].start <= k)
    BY <1>1, <1>4
  <2>2. p1 = <<>> /\ p2 = <<>>
    BY <2>1, PutInFacts
  <2> QED
    BY <2>1, <2>2 DEF Covered
<1>8. /\ q1 = IF e.start = k /\ e.end = k THEN e.new ELSE p1
      /\ q2 = IF e.start = k /\ e.end # k THEN e.new ELSE p2
      /\ e.start = k /\ e.end = k => p1 = <<>>
      /\ e.start = k /\ e.end # k => p2 = <<>>
  BY <1>2
<1>14. Covered(more, k) <=> Covered(list, k) \/ (e.start <= k /\ k < e.end)
  BY <1>2
<1>15. byte = <<text[p]>>
  OBVIOUS
<1> SUFFICES /\ p <= e.start => is = <<text[p]>>
             /\ p = e.start + 1 => IF e.start = e.end THEN is = e.new \o was ELSE is = e.new
             /\ p > e.start + 1 /\ p <= e.end => is = <<>>
             /\ p > e.start + 1 /\ p > e.end => is = was
  OBVIOUS
<1> HIDE DEF k, P, Q, p1, p2, q1, q2, was, is, more, byte, m
<1>9. CASE p <= e.start
  <2>1. k < e.end /\ e.start # k /\ p <= m /\ ~(e.start <= k)
    BY <1>1, <1>9
  <2>2. q1 = <<>> /\ q2 = <<>> /\ ~(p > m) /\ ~Covered(more, k)
    BY <1>1, <1>14, <1>7, <1>8, <2>1
  <2>3. is = <<>> \o <<>> \o byte
    BY <1>5, <2>2
  <2>4. is = byte
    BY <1>6, <2>1, <2>3
  <2> QED
    BY <1>1, <1>9, <1>15, <2>4
<1>10. CASE p = e.start + 1 /\ e.start = e.end
  <2>1. k = e.start /\ k = e.end /\ ~(k < e.end)
    BY <1>1, <1>10
  <2>2. q1 = e.new /\ q2 = p2 /\ p1 = <<>> /\ (Covered(more, k) <=> Covered(list, k))
    BY <1>14, <1>8, <2>1
  <2> DEFINE rest == IF p > m \/ Covered(list, k) THEN <<>> ELSE byte
  <2>3. rest \in Seq(A)
    BY <1>1, <1>6
  <2>4. /\ was = <<>> \o p2 \o rest
        /\ is = e.new \o p2 \o rest
    BY <1>5, <2>2
  <2> HIDE DEF rest
  <2>5. is = e.new \o was
    <3>1. e.new \in Seq(A) /\ p2 \in Seq(A)
      BY <1>1, <1>3
    <3>2. <<>> \o p2 = p2
      BY <3>1, Joined
    <3>3. e.new \o p2 \o rest = e.new \o (p2 \o rest)
      <4>1. Associative(Seq(A))
        BY Associates
      <4> QED
        BY <2>3, <3>1, <4>1, Zenon DEF Associative
    <3> QED
      BY <2>4, <3>2, <3>3
  <2> QED
    BY <1>1, <1>10, <2>5
<1>11. CASE p = e.start + 1 /\ e.start # e.end
  <2>1. k = e.start /\ k # e.end /\ k < e.end /\ e.start <= k
    BY <1>1, <1>11
  <2>2. q1 = <<>> /\ q2 = e.new /\ Covered(more, k)
    BY <1>14, <1>7, <1>8, <2>1
  <2>3. is = <<>> \o e.new \o <<>>
    BY <1>5, <2>2
  <2>4. is = e.new
    BY <1>1, <2>3
  <2> QED
    BY <1>1, <1>11, <2>4
<1>12. CASE p > e.start + 1 /\ p <= e.end
  <2>1. k # e.start /\ k < e.end /\ e.start <= k
    BY <1>1, <1>12
  <2>2. q1 = <<>> /\ q2 = <<>> /\ Covered(more, k)
    BY <1>14, <1>7, <1>8, <2>1
  <2>3. is = <<>> \o <<>> \o <<>>
    BY <1>5, <2>2
  <2> QED
    BY <1>1, <1>12, <2>3
<1>13. CASE p > e.start + 1 /\ p > e.end
  <2>1. k # e.start /\ ~(k < e.end)
    BY <1>1, <1>13
  <2>2. q1 = p1 /\ q2 = p2 /\ (Covered(more, k) <=> Covered(list, k))
    BY <1>14, <1>8, <2>1
  <2>3. is = was
    BY <1>5, <2>2
  <2> QED
    BY <1>1, <1>13, <2>3
<1> QED
  BY <1>1, <1>9, <1>10, <1>11, <1>12, <1>13

(* Texts cut and put together again.                                       *)
LEMMA SliceFacts ==
  ASSUME NEW A, NEW text \in Seq(A), NEW a \in Nat, NEW b \in Nat, a <= b, b <= Len(text)
  PROVE  /\ Slice(text, a, b) \in Seq(A) /\ Len(Slice(text, a, b)) = b - a
         /\ \A k \in 1..(b - a) : Slice(text, a, b)[k] = text[a + k]
<1>1. Slice(text, a, b) = SubSeq(text, a + 1, b)
  BY DEF Slice
<1>2. SubSeq(text, a + 1, b) \in Seq(A)
  <2>1. \A k \in (a + 1)..b : text[k] \in A
    OBVIOUS
  <2> QED
    BY <2>1
<1>3. Len(SubSeq(text, a + 1, b)) = b - a
  OBVIOUS
<1>4. \A k \in 1..(b - a) : SubSeq(text, a + 1, b)[k] = text[a + k]
  OBVIOUS
<1> QED
  BY <1>1, <1>2, <1>3, <1>4

(* The front of a text.                                                    *)
LEMMA FrontFacts ==
  ASSUME NEW A, NEW text \in Seq(A), NEW k \in 0..Len(text)
  PROVE  /\ Slice(text, 0, k) \in Seq(A) /\ Len(Slice(text, 0, k)) = k
         /\ \A i \in 1..k : Slice(text, 0, k)[i] = text[i]
<1>1. 0 \in Nat /\ k \in Nat /\ 0 <= k /\ k <= Len(text) /\ k - 0 = k
  OBVIOUS
<1>2. /\ Slice(text, 0, k) \in Seq(A) /\ Len(Slice(text, 0, k)) = k - 0
      /\ \A i \in 1..(k - 0) : Slice(text, 0, k)[i] = text[0 + i]
  BY <1>1, SliceFacts
<1>3. \A i \in 1..k : 0 + i = i
  OBVIOUS
<1> QED
  BY <1>1, <1>2, <1>3

(* The rest of a text.                                                     *)
LEMMA BackFacts ==
  ASSUME NEW A, NEW text \in Seq(A), NEW k \in 0..Len(text)
  PROVE  /\ Slice(text, k, Len(text)) \in Seq(A) /\ Len(Slice(text, k, Len(text))) = Len(text) - k
         /\ \A i \in 1..(Len(text) - k) : Slice(text, k, Len(text))[i] = text[k + i]
<1>1. k \in Nat /\ Len(text) \in Nat /\ k <= Len(text) /\ Len(text) <= Len(text)
  OBVIOUS
<1> QED
  BY <1>1, SliceFacts

(* Two texts with the same bytes are one.                                  *)
LEMMA SameTexts ==
  ASSUME NEW A, NEW s \in Seq(A), NEW t \in Seq(A), Len(s) = Len(t),
         \A k \in 1..Len(s) : s[k] = t[k]
  PROVE  s = t
  OBVIOUS

(* What is at a place of two texts in a row.                               *)
LEMMA ConcatFacts ==
  ASSUME NEW A, NEW s \in Seq(A), NEW t \in Seq(A)
  PROVE  /\ s \o t \in Seq(A) /\ Len(s \o t) = Len(s) + Len(t)
         /\ \A i \in 1..Len(s) : (s \o t)[i] = s[i]
         /\ \A i \in 1..Len(t) : (s \o t)[Len(s) + i] = t[i]
  OBVIOUS

(* Three texts in a row, either way.                                       *)
LEMMA Glued ==
  ASSUME NEW A, NEW s \in Seq(A), NEW k \in 0..Len(s)
  PROVE  Slice(s, 0, k) \o Slice(s, k, Len(s)) = s
<1> DEFINE front == Slice(s, 0, k)
           back == Slice(s, k, Len(s))
           b == Len(back)
<1>1. front \in Seq(A) /\ Len(front) = k /\ \A i \in 1..k : front[i] = s[i]
  BY FrontFacts
<1>2. back \in Seq(A) /\ b = Len(s) - k /\ \A i \in 1..(Len(s) - k) : back[i] = s[k + i]
  BY BackFacts
<1>3. b \in Nat /\ k \in Nat /\ Len(s) = k + b /\ Len(back) = b
  BY <1>2
<1>4. \A i \in 1..b : back[i] = s[k + i]
  BY <1>2
<1> HIDE DEF front, back, b
<1>5. /\ front \o back \in Seq(A) /\ Len(front \o back) = k + b
      /\ \A i \in 1..k : (front \o back)[i] = front[i]
      /\ \A i \in 1..b : (front \o back)[k + i] = back[i]
  <2>1. front \in Seq(A) /\ back \in Seq(A) /\ Len(front) = k /\ Len(back) = b
    BY <1>1, <1>2, <1>3
  <2>2. /\ front \o back \in Seq(A) /\ Len(front \o back) = Len(front) + Len(back)
        /\ \A i \in 1..Len(front) : (front \o back)[i] = front[i]
        /\ \A i \in 1..Len(back) : (front \o back)[Len(front) + i] = back[i]
    <3>1. front \in Seq(A) /\ back \in Seq(A)
      BY <2>1
    <3> QED
      BY <3>1, ConcatFacts
  <2> QED
    BY <2>1, <2>2
<1>6. \A i \in 1..(k + b) : (front \o back)[i] = s[i]
  <2> TAKE i \in 1..(k + b)
  <2>1. i \in 1..k \/ (i - k \in 1..b /\ k + (i - k) = i)
    BY <1>3
  <2> QED
    BY <1>1, <1>4, <1>5, <2>1
<1> QED
  BY <1>3, <1>5, <1>6, SameTexts DEF front, back

(* A text is its front and its rest.                                       *)
LEMMA CutFacts ==
  ASSUME NEW A, NEW s \in Seq(A), NEW t \in Seq(A)
  PROVE  /\ Slice(s \o t, Len(s), Len(s \o t)) = t
         /\ \A k \in 0..Len(s) : Slice(s \o t, 0, k) = Slice(s, 0, k)
         /\ \A k \in 0..Len(s) : Slice(s, 0, k) \o Slice(s, k, Len(s)) = s
         /\ Slice(s, 0, Len(s)) = s /\ Slice(s, 0, 0) = <<>>
         /\ \A k \in 0..Len(s), j \in 0..Len(s) : j <= k => Slice(Slice(s, 0, k), 0, j) = Slice(s, 0, j)
<1> DEFINE all == s \o t
           n == Len(s)
           m == Len(t)
<1>1. /\ all \in Seq(A) /\ n \in Nat /\ m \in Nat /\ Len(all) = n + m
      /\ \A k \in 1..n : all[k] = s[k]
      /\ \A k \in 1..m : all[n + k] = t[k]
  OBVIOUS
<1>2. n = Len(s) /\ m = Len(t)
  OBVIOUS
<1> HIDE DEF all, n, m
<1>3. Slice(all, n, n + m) = t
  <2>1. n \in 0..Len(all) /\ (n + m) - n = m
    BY <1>1
  <2> DEFINE last == Len(all)
  <2>3. /\ Slice(all, n, last) \in Seq(A) /\ Len(Slice(all, n, last)) = last - n
        /\ \A k \in 1..(last - n) : Slice(all, n, last)[k] = all[n + k]
    BY <1>1, <2>1, BackFacts
  <2>4. last = n + m /\ last - n = m
    BY <1>1
  <2> HIDE DEF last
  <2>2. /\ Slice(all, n, n + m) \in Seq(A) /\ Len(Slice(all, n, n + m)) = m
        /\ \A k \in 1..m : Slice(all, n, n + m)[k] = all[n + k]
    BY <2>3, <2>4
  <2> QED
    BY <1>1, <1>2, <2>2, SameTexts
<1>4. \A k \in 0..n : Slice(all, 0, k) = Slice(s, 0, k)
  <2> TAKE k \in 0..n
  <2>1. k \in Nat /\ k \in 0..Len(all) /\ k \in 0..Len(s)
    BY <1>1, <1>2
  <2>2. /\ Slice(all, 0, k) \in Seq(A) /\ Len(Slice(all, 0, k)) = k
        /\ \A i \in 1..k : Slice(all, 0, k)[i] = all[i]
    BY <1>1, <2>1, FrontFacts
  <2>3. /\ Slice(s, 0, k) \in Seq(A) /\ Len(Slice(s, 0, k)) = k
        /\ \A i \in 1..k : Slice(s, 0, k)[i] = s[i]
    BY <1>2, <2>1, FrontFacts
  <2>4. \A i \in 1..k : all[i] = s[i]
    BY <1>1, <1>2, <2>1
  <2> QED
    BY <2>2, <2>3, <2>4, SameTexts
<1>5. \A k \in 0..n : Slice(s, 0, k) \o Slice(s, k, n) = s
  BY <1>2, Glued
<1>6. Slice(s, 0, n) = s
  <2>1. n \in 0..Len(s)
    BY <1>1, <1>2
  <2>2. /\ Slice(s, 0, n) \in Seq(A) /\ Len(Slice(s, 0, n)) = n
        /\ \A i \in 1..n : Slice(s, 0, n)[i] = s[i]
    BY <2>1, FrontFacts
  <2> QED
    BY <1>2, <2>2, SameTexts
<1>7. Slice(s, 0, 0) = <<>>
  BY DEF Slice
<1>8. \A k \in 0..n, j \in 0..n : j <= k => Slice(Slice(s, 0, k), 0, j) = Slice(s, 0, j)
  <2> TAKE k \in 0..n, j \in 0..n
  <2> HAVE j <= k
  <2> DEFINE front == Slice(s, 0, k)
  <2>1. /\ k \in Nat /\ j \in Nat /\ k \in 0..Len(s) /\ j \in 0..Len(s) /\ j \in 0..k
    BY <1>1, <1>2
  <2>2. front \in Seq(A) /\ Len(front) = k /\ \A i \in 1..k : front[i] = s[i]
    BY <2>1, FrontFacts
  <2> HIDE DEF front
  <2>3. /\ Slice(front, 0, j) \in Seq(A) /\ Len(Slice(front, 0, j)) = j
        /\ \A i \in 1..j : Slice(front, 0, j)[i] = front[i]
    BY <2>1, <2>2, FrontFacts
  <2>4. /\ Slice(s, 0, j) \in Seq(A) /\ Len(Slice(s, 0, j)) = j
        /\ \A i \in 1..j : Slice(s, 0, j)[i] = s[i]
    BY <2>1, FrontFacts
  <2>5. \A i \in 1..j : front[i] = s[i]
    BY <2>1, <2>2
  <2> QED
    BY <2>3, <2>4, <2>5, SameTexts DEF front
<1> QED
  BY <1>1, <1>3, <1>4, <1>5, <1>6, <1>7, <1>8 DEF all, n, m

(* A text that starts as another does.                                     *)
Continues(A, text, front) == \E t \in Seq(A) : text = front \o t

(* The edit applied last.                                                  *)
LEMMA AppliedLast ==
  ASSUME NEW A, NEW text \in Seq(A), NEW E, Fitting(E, A, Len(text)), NEW list \in Seq(E),
         NEW e \in E, Apart(Append(list, e)), \A i \in DOMAIN list : list[i].start >= e.end
  PROVE  /\ Continues(A, AllAtOnce(text, list), Slice(text, 0, e.end))
         /\ Spliced(AllAtOnce(text, list), e) = AllAtOnce(text, Append(list, e))
<1> DEFINE m == Len(text)
           more == Append(list, e)
           from == e.start
           to == e.end
           was == Pieces(text, list)
           is == Pieces(text, more)
           new == e.new
<1>1. /\ m \in Nat /\ from \in Nat /\ to \in Nat /\ from <= to /\ to <= m /\ new \in Seq(A)
      /\ \A i \in DOMAIN list : list[i].start \in Nat /\ list[i].start >= to
      /\ more \in Seq(E)
  BY DEF Fitting
<1>2. /\ was \in Seq(Seq(A)) /\ Len(was) = m + 1
      /\ \A p \in 1..(m + 1) : was[p] = PieceOf(text, list, p)
      /\ \A p \in 1..m : (\A i \in DOMAIN list : list[i].start >= p) => PieceOf(text, list, p) = <<text[p]>>
  BY PieceFacts
<1>3. /\ is \in Seq(Seq(A)) /\ Len(is) = m + 1
      /\ \A p \in 1..(m + 1) : is[p] = PieceOf(text, more, p)
  BY <1>1, PieceFacts
<1>4. \A p \in 1..(m + 1) :
        /\ p <= from => is[p] = <<text[p]>>
        /\ p = from + 1 => IF from = to THEN is[p] = new \o was[p] ELSE is[p] = new
        /\ p > from + 1 /\ p <= to => is[p] = <<>>
        /\ p > from + 1 /\ p > to => is[p] = was[p]
  <2> TAKE p \in 1..(m + 1)
  <2>1. was[p] = PieceOf(text, list, p) /\ is[p] = PieceOf(text, more, p)
    BY <1>2, <1>3
  <2> HIDE DEF was, is
  <2>2. LET old   == PieceOf(text, list, p)
            after == PieceOf(text, Append(list, e), p)
        IN  /\ p <= e.start => after = <<text[p]>>
            /\ p = e.start + 1 => IF e.start = e.end THEN after = e.new \o old ELSE after = e.new
            /\ p > e.start + 1 /\ p <= e.end => after = <<>>
            /\ p > e.start + 1 /\ p > e.end => after = old
    BY PieceOfMore
  <2> QED
    BY <2>1, <2>2
<1>5. PICK f \in [0..(m + 1) -> Seq(A)] : Piles(f, m + 1, was) /\ FlattenSeq(was) = f[m + 1]
  BY <1>2, FlattenFacts
<1>6. PICK g \in [0..(m + 1) -> Seq(A)] : Piles(g, m + 1, is) /\ FlattenSeq(is) = g[m + 1]
  BY <1>3, FlattenFacts
<1>7. /\ f[0] = <<>> /\ \A k \in 0..((m + 1) - 1) : f[k + 1] = f[k] \o was[k + 1]
      /\ g[0] = <<>> /\ \A k \in 0..((m + 1) - 1) : g[k + 1] = g[k] \o is[k + 1]
  BY <1>5, <1>6 DEF Piles
<1>8. AllAtOnce(text, list) = f[m + 1] /\ AllAtOnce(text, more) = g[m + 1]
  BY <1>5, <1>6, PiecesAre
<1>9. \A p \in 1..(m + 1) : was[p] \in Seq(A)
  BY <1>2
<1>10. \A k \in 0..m : f[k + 1] = f[k] \o was[k + 1] /\ g[k + 1] = g[k] \o is[k + 1]
  <2>1. (m + 1) - 1 = m
    BY <1>1
  <2> QED
    BY <1>7, <2>1
<1>11. \A p \in 1..to : was[p] = <<text[p]>>
  <2> TAKE p \in 1..to
  <2>1. p \in 1..m /\ p \in 1..(m + 1) /\ \A i \in DOMAIN list : list[i].start >= p
    BY <1>1
  <2> QED
    BY <1>2, <2>1
<1>22. m \in Nat /\ from \in Nat /\ to \in Nat /\ from <= to /\ to <= m
  BY <1>1
<1> HIDE DEF m, more, from, to, was, is, new
<1>12. m = Len(text)
  BY DEF m
(* Up to the end of the edit there is only text.                           *)
<1>13. \A k \in 0..to : f[k] = Slice(text, 0, k)
  <2> DEFINE S == {k \in Nat : k <= to => f[k] = Slice(text, 0, k)}
  <2>1. 0 \in S
    BY <1>7, CutFacts
  <2>2. ASSUME NEW k \in Nat, k \in S
        PROVE  k + 1 \in S
    <3> SUFFICES ASSUME k + 1 <= to PROVE f[k + 1] = Slice(text, 0, k + 1)
      OBVIOUS
    <3>1. k \in 0..m /\ k + 1 \in 1..to /\ k <= to /\ k < Len(text)
      BY <1>1, <1>12
    <3>2. f[k] = Slice(text, 0, k) /\ f[k + 1] = f[k] \o <<text[k + 1]>>
      BY <1>10, <1>11, <2>2, <3>1
    <3> QED
      BY <3>1, <3>2, SliceGrows
  <2>3. \A k \in Nat : k \in S
    <3> HIDE DEF S
    <3> QED
      BY <2>1, <2>2, NatInduct
  <2> QED
    BY <1>1, <2>3
<1>14. \A k \in 0..from : g[k] = Slice(text, 0, k)
  <2> DEFINE S == {k \in Nat : k <= from => g[k] = Slice(text, 0, k)}
  <2>1. 0 \in S
    BY <1>7, CutFacts
  <2>2. ASSUME NEW k \in Nat, k \in S
        PROVE  k + 1 \in S
    <3> SUFFICES ASSUME k + 1 <= from PROVE g[k + 1] = Slice(text, 0, k + 1)
      OBVIOUS
    <3>1. k \in 0..m /\ k + 1 \in 1..(m + 1) /\ k + 1 <= from /\ k <= from /\ k < Len(text)
      BY <1>1, <1>12
    <3>2. g[k] = Slice(text, 0, k) /\ g[k + 1] = g[k] \o <<text[k + 1]>>
      BY <1>4, <1>10, <2>2, <3>1
    <3> QED
      BY <3>1, <3>2, SliceGrows
  <2>3. \A k \in Nat : k \in S
    <3> HIDE DEF S
    <3> QED
      BY <2>1, <2>2, NatInduct
  <2> QED
    BY <1>1, <2>3
<1> DEFINE before == Slice(text, 0, to)
           lead == Slice(text, 0, from)
<1>15. before \in Seq(A) /\ Len(before) = to /\ lead \in Seq(A) /\ Len(lead) = from
  BY <1>1, <1>12, FrontFacts
<1>16. f[to] = before /\ g[from] = lead
  BY <1>1, <1>13, <1>14
<1> HIDE DEF before, lead
(* At its end the new text is in and the old is left out.                  *)
<1>17. from < to => g[to] = lead \o new
  <2> DEFINE S == {k \in Nat : from + 1 + k <= to => g[from + 1 + k] = lead \o new}
  <2>1. ASSUME from < to
        PROVE  0 \in S
    <3>1. from \in 0..m /\ from + 1 \in 1..(m + 1) /\ from + 1 + 0 = from + 1 /\ from # to
      BY <1>1, <2>1
    <3>2. g[from + 1] = g[from] \o new
      BY <1>4, <1>10, <3>1
    <3> QED
      BY <1>16, <3>1, <3>2
  <2>2. ASSUME NEW k \in Nat, k \in S
        PROVE  k + 1 \in S
    <3> SUFFICES ASSUME from + 1 + (k + 1) <= to PROVE g[from + 1 + (k + 1)] = lead \o new
      OBVIOUS
    <3> DEFINE j == from + 1 + k
    <3>1. /\ j \in 0..m /\ j + 1 \in 1..(m + 1) /\ j + 1 > from + 1 /\ j + 1 <= to /\ j <= to
          /\ from + 1 + (k + 1) = j + 1
      BY <1>1
    <3>2. g[j + 1] = g[j] \o <<>>
      BY <1>4, <1>10, <3>1
    <3>3. g[j] = lead \o new
      BY <2>2, <3>1
    <3>4. lead \o new \o <<>> = lead \o new
      BY <1>1, <1>15
    <3> QED
      BY <3>1, <3>2, <3>3, <3>4
  <2>3. from < to => \A k \in Nat : k \in S
    <3> HIDE DEF S
    <3> QED
      BY <2>1, <2>2, NatInduct
  <2>4. from < to => to - from - 1 \in Nat /\ from + 1 + (to - from - 1) = to
    BY <1>22
  <2>5. ASSUME from < to
        PROVE  g[to] = lead \o new
    <3>1. to - from - 1 \in S
      <4> HIDE DEF S
      <4> QED
        BY <2>3, <2>4, <2>5
    <3>2. from + 1 + (to - from - 1) <= to
      BY <1>22
    <3> QED
      BY <2>4, <2>5, <3>1, <3>2
  <2> QED
    BY <2>5
(* From there on both go on alike.                                         *)
<1>18. f[to + 1] = before \o was[to + 1] /\ g[to + 1] = lead \o new \o was[to + 1]
  <2>1. to \in 0..m /\ to + 1 \in 1..(m + 1)
    BY <1>1
  <2>2. f[to + 1] = before \o was[to + 1]
    BY <1>10, <1>16, <2>1
  <2>3. CASE from < to
    <3>1. to + 1 > from + 1 /\ to + 1 > to
      BY <1>1, <2>3
    <3>2. g[to + 1] = g[to] \o was[to + 1]
      BY <1>4, <1>10, <2>1, <3>1
    <3> QED
      BY <1>17, <2>2, <2>3, <3>2
  <2>4. CASE from = to
    <3>1. g[to + 1] = lead \o (new \o was[to + 1])
      BY <1>4, <1>10, <1>16, <2>1, <2>4
    <3>2. Associative(Seq(A))
      BY Associates
    <3>3. was[to + 1] \in Seq(A)
      BY <1>9, <2>1
    <3>4. lead \o new \o was[to + 1] = lead \o (new \o was[to + 1])
      BY <1>1, <1>15, <3>2, <3>3, Zenon DEF Associative
    <3> QED
      BY <2>2, <3>1, <3>4
  <2>5. from < to \/ from = to
    BY <1>22
  <2> QED
    BY <2>3, <2>4, <2>5
<1>19. \E t \in Seq(A) : f[m + 1] = before \o t /\ g[m + 1] = lead \o new \o t
  <2> DEFINE Same(k) == \E t \in Seq(A) : f[k] = before \o t /\ g[k] = lead \o new \o t
             S == {k \in Nat : to + 1 + k <= m + 1 => Same(to + 1 + k)}
  <2>1. 0 \in S
    <3>1. to + 1 \in 1..(m + 1) /\ to + 1 + 0 = to + 1
      BY <1>1
    <3>2. was[to + 1] \in Seq(A)
      BY <1>9, <3>1
    <3> QED
      BY <1>18, <3>1, <3>2
  <2>2. ASSUME NEW k \in Nat, k \in S
        PROVE  k + 1 \in S
    <3> DEFINE j == to + 1 + k
    <3> SUFFICES ASSUME to + 1 + (k + 1) <= m + 1 PROVE Same(to + 1 + (k + 1))
      <4> HIDE DEF Same
      <4> QED
        OBVIOUS
    <3>1. /\ j \in 0..m /\ j + 1 \in 1..(m + 1) /\ j + 1 > from + 1 /\ j + 1 > to /\ j <= m + 1
          /\ to + 1 + (k + 1) = j + 1
      BY <1>1
    <3>2. Same(j)
      BY <2>2, <3>1
    <3> HIDE DEF j
    <3>3. PICK t \in Seq(A) : f[j] = before \o t /\ g[j] = lead \o new \o t
      BY <3>2
    <3> DEFINE x == was[j + 1]
    <3>4. f[j + 1] = f[j] \o x /\ g[j + 1] = g[j] \o x /\ x \in Seq(A)
      BY <1>4, <1>9, <1>10, <3>1
    <3> HIDE DEF x
    <3>5. Associative(Seq(A))
      BY Associates
    <3>6. lead \o new \in Seq(A)
      BY <1>1, <1>15
    <3>7. before \o t \o x = before \o (t \o x) /\ lead \o new \o t \o x = lead \o new \o (t \o x)
      BY <1>15, <3>4, <3>5, <3>6, Zenon DEF Associative
    <3>8. t \o x \in Seq(A)
      BY <3>4
    <3>9. f[j + 1] = before \o (t \o x) /\ g[j + 1] = lead \o new \o (t \o x)
      BY <3>3, <3>4, <3>7
    <3> QED
      BY <3>1, <3>8, <3>9
  <2>3. \A k \in Nat : k \in S
    <3> HIDE DEF S
    <3> QED
      BY <2>1, <2>2, NatInduct
  <2>4. m - to \in Nat /\ to + 1 + (m - to) = m + 1
    BY <1>1
  <2>5. Same(m + 1)
    <3> HIDE DEF Same
    <3>1. m - to \in S
      <4> HIDE DEF S
      <4> QED
        BY <2>3, <2>4
    <3>2. to + 1 + (m - to) <= m + 1
      BY <1>22
    <3> QED
      BY <2>4, <3>1, <3>2
  <2> QED
    BY <2>5
<1>20. PICK t \in Seq(A) : f[m + 1] = before \o t /\ g[m + 1] = lead \o new \o t
  BY <1>19
<1>21. Spliced(before \o t, e) = lead \o new \o t
  <2>1. Slice(before \o t, 0, from) = Slice(before, 0, from)
    <3>1. from \in 0..Len(before) /\ before \in Seq(A)
      BY <1>15, <1>22
    <3> HIDE DEF before, from
    <3>2. \A k \in 0..Len(before) : Slice(before \o t, 0, k) = Slice(before, 0, k)
      BY <3>1, CutFacts
    <3> QED
      BY <3>1, <3>2
  <2>2. Slice(before, 0, from) = lead
    BY <1>1, <1>12, CutFacts DEF before, lead
  <2>3. Slice(before \o t, to, Len(before \o t)) = t
    BY <1>15, CutFacts
  <2>4. Spliced(before \o t, e) = Slice(before \o t, 0, from) \o new \o Slice(before \o t, to, Len(before \o t))
    BY DEF Spliced, from, to, new
  <2> QED
    BY <2>1, <2>2, <2>3, <2>4
<1>23. Continues(A, AllAtOnce(text, list), before)
  BY <1>8, <1>20 DEF Continues
<1> QED
  BY <1>8, <1>20, <1>21, <1>23 DEF more, before, to

(* A text of the bytes the table knows, in whole characters.               *)
Text(text) == text \in Seq(DOMAIN Width) /\ WellFormed(text)

(* The bytes of a text have a width.                                       *)
LEMMA WholeFacts ==
  ASSUME NEW text \in Seq(DOMAIN Width)
  PROVE  /\ \A k \in 1..Len(text) : text[k] \in DOMAIN Width /\ Width[text[k]] \in 0..4
         /\ WellFormed(text) <=>
              \A k \in 1..Len(text) :
                /\ k + Width[text[k]] <= Len(text) + 1
                /\ (Width[text[k]] = 0) <=> (\E j \in 1..(k - 1) : j + Width[text[j]] > k)
<1>1. \A k \in 1..Len(text) : text[k] \in DOMAIN Width
  OBVIOUS
<1>2. \A k \in 1..Len(text) : Width[text[k]] \in 0..4
  BY <1>1, EditApplyAssumption
<1> QED
  BY <1>1, <1>2 DEF WellFormed

(* No character crosses a boundary, and where none crosses is one.         *)
LEMMA NoneCrosses ==
  ASSUME NEW text, Text(text), NEW o \in 0..Len(text)
  PROVE  IsCharBoundary(text, o) <=> \A j \in 1..o : j + Width[text[j]] <= o + 1
<1> DEFINE n == Len(text)
           w == [k \in 1..n |-> Width[text[k]]]
<1>1. /\ text \in Seq(DOMAIN Width) /\ n \in Nat
      /\ \A k \in 1..n : w[k] = Width[text[k]] /\ w[k] \in 0..4
      /\ \A k \in 1..n : /\ k + w[k] <= n + 1
                         /\ (w[k] = 0) <=> (\E j \in 1..(k - 1) : j + w[j] > k)
  <2>1. text \in Seq(DOMAIN Width) /\ WellFormed(text)
    BY DEF Text
  <2>2. \A k \in 1..n : Width[text[k]] \in 0..4
    BY <2>1, WholeFacts
  <2>3. \A k \in 1..n : w[k] = Width[text[k]]
    OBVIOUS
  <2>4. \A k \in 1..n : /\ k + Width[text[k]] <= n + 1
                        /\ (Width[text[k]] = 0) <=> (\E j \in 1..(k - 1) : j + Width[text[j]] > k)
    BY <2>1 DEF WellFormed
  <2>5. n \in Nat
    BY <2>1
  <2> HIDE DEF w
  <2>6. \A k \in 1..n : /\ k + w[k] <= n + 1
                        /\ (w[k] = 0) <=> (\E j \in 1..(k - 1) : j + w[j] > k)
    <3> TAKE k \in 1..n
    <3>1. \A j \in 1..(k - 1) : j \in 1..n
      BY <2>5
    <3> QED
      BY <2>3, <2>4, <3>1
  <2> QED
    BY <2>1, <2>2, <2>3, <2>5, <2>6
<1> HIDE DEF w
<1>2. IsCharBoundary(text, o) <=> (o \notin {0, n} => w[o + 1] # 0)
  <2>1. o \notin {0, n} => o + 1 \in 1..n
    BY <1>1
  <2> QED
    BY <1>1, <2>1 DEF IsCharBoundary
<1>3. \A j \in 1..o : j \in 1..n /\ Width[text[j]] = w[j]
  BY <1>1
<1> HIDE DEF n
<1>4. CASE o = 0
  <2>1. IsCharBoundary(text, o)
    BY <1>2, <1>4
  <2>2. \A j \in 1..o : FALSE
    BY <1>4
  <2> QED
    BY <2>1, <2>2
<1>5. CASE o = n
  BY <1>1, <1>2, <1>3, <1>5
<1>6. CASE o # 0 /\ o # n
  <2>1. o \in Nat /\ o + 1 \in 1..n /\ (o + 1) - 1 = o
    BY <1>1, <1>6 DEF n
  <2>2. (w[o + 1] = 0) <=> (\E j \in 1..o : j + w[j] > o + 1)
    BY <1>1, <2>1
  <2>3. (\A j \in 1..o : j + w[j] <= o + 1) <=> ~(\E j \in 1..o : j + w[j] > o + 1)
    <3>1. ASSUME NEW j \in 1..o
          PROVE  j + w[j] <= o + 1 <=> ~(j + w[j] > o + 1)
      <4>1. j \in Nat /\ w[j] \in 0..4
        BY <1>1, <1>3, <2>1
      <4> QED
        BY <2>1, <4>1
    <3> QED
      BY <3>1, Zenon
  <2>4. (\A j \in 1..o : j + w[j] <= o + 1) <=> \A j \in 1..o : j + Width[text[j]] <= o + 1
    BY <1>3
  <2> QED
    BY <1>2, <1>6, <2>2, <2>3, <2>4
<1> QED
  BY <1>4, <1>5, <1>6

(* Up to a boundary and from a boundary a text is whole characters.        *)
LEMMA FrontIsWhole ==
  ASSUME NEW text, Text(text), NEW o \in 0..Len(text), IsCharBoundary(text, o)
  PROVE  Text(Slice(text, 0, o))
<1> DEFINE n == Len(text)
           front == Slice(text, 0, o)
<1>1. /\ text \in Seq(DOMAIN Width) /\ n \in Nat /\ o \in Nat /\ o <= n
      /\ \A k \in 1..n : /\ k + Width[text[k]] <= n + 1
                         /\ (Width[text[k]] = 0) <=> (\E j \in 1..(k - 1) : j + Width[text[j]] > k)
  BY DEF Text, WellFormed
<1>2. front \in Seq(DOMAIN Width) /\ Len(front) = o /\ \A k \in 1..o : front[k] = text[k]
  BY <1>1, FrontFacts
<1>3. \A j \in 1..o : j + Width[text[j]] <= o + 1
  BY NoneCrosses
<1> HIDE DEF front
<1>4. ASSUME NEW k \in 1..Len(front)
      PROVE  /\ k + Width[front[k]] <= Len(front) + 1
             /\ (Width[front[k]] = 0) <=> (\E j \in 1..(k - 1) : j + Width[front[j]] > k)
  <2>1. k \in 1..o /\ k \in 1..n /\ front[k] = text[k]
    BY <1>1, <1>2
  <2>2. \A j \in 1..(k - 1) : front[j] = text[j]
    BY <1>1, <1>2
  <2> QED
    BY <1>1, <1>2, <1>3, <2>1, <2>2
<1>5. WellFormed(front)
  BY <1>4 DEF WellFormed
<1> QED
  BY <1>2, <1>5 DEF Text, front

(* From a boundary on, a text is whole characters.                         *)
LEMMA BackIsWhole ==
  ASSUME NEW text, Text(text), NEW o \in 0..Len(text), IsCharBoundary(text, o)
  PROVE  Text(Slice(text, o, Len(text)))
<1> DEFINE n == Len(text)
           back == Slice(text, o, Len(text))
<1>1. /\ text \in Seq(DOMAIN Width) /\ n \in Nat /\ o \in Nat /\ o <= n
      /\ \A k \in 1..n : /\ k + Width[text[k]] <= n + 1
                         /\ (Width[text[k]] = 0) <=> (\E j \in 1..(k - 1) : j + Width[text[j]] > k)
  BY DEF Text, WellFormed
<1>2. back \in Seq(DOMAIN Width) /\ Len(back) = n - o /\ \A k \in 1..(n - o) : back[k] = text[o + k]
  BY <1>1, BackFacts
<1>3. \A j \in 1..o : j + Width[text[j]] <= o + 1
  BY NoneCrosses
<1>4. \A j \in 1..n : Width[text[j]] \in 0..4
  BY <1>1, WholeFacts
<1> HIDE DEF back, n
<1>5. ASSUME NEW k \in 1..Len(back)
      PROVE  /\ k + Width[back[k]] <= Len(back) + 1
             /\ (Width[back[k]] = 0) <=> (\E j \in 1..(k - 1) : j + Width[back[j]] > k)
  <2>1. k \in 1..(n - o) /\ k \in Nat /\ k >= 1 /\ o + k \in 1..n /\ back[k] = text[o + k]
    BY <1>1, <1>2
  <2>2. /\ (o + k) + Width[text[o + k]] <= n + 1
        /\ (Width[text[o + k]] = 0) <=> (\E j \in 1..((o + k) - 1) : j + Width[text[j]] > o + k)
    <3> DEFINE h == o + k
    <3>1. h \in 1..n
      BY <2>1
    <3> HIDE DEF h
    <3>2. h + Width[text[h]] <= n + 1 /\ ((Width[text[h]] = 0) <=> (\E j \in 1..(h - 1) : j + Width[text[j]] > h))
      BY <1>1, <3>1
    <3> QED
      BY <3>2 DEF h
  <2>3. (\E j \in 1..((o + k) - 1) : j + Width[text[j]] > o + k)
          <=> (\E j \in 1..(k - 1) : j + Width[back[j]] > k)
    <3>1. ASSUME NEW j \in 1..((o + k) - 1), j + Width[text[j]] > o + k
          PROVE  \E i \in 1..(k - 1) : i + Width[back[i]] > k
      <4>1. j \in Nat /\ j \in 1..n /\ Width[text[j]] \in 0..4
        BY <1>1, <1>4, <2>1
      <4>2. j > o
        BY <1>1, <1>3, <2>1, <3>1, <4>1
      <4>3. j - o \in 1..(k - 1) /\ j - o \in 1..(n - o) /\ o + (j - o) = j
        BY <1>1, <2>1, <4>1, <4>2
      <4>4. back[j - o] = text[j]
        BY <1>2, <4>3
      <4>5. (j - o) + Width[back[j - o]] > k
        <5>1. \A x, y, z, w \in Nat : y + w > x + z => (y - x) + w > z
          OBVIOUS
        <5>2. o \in Nat /\ j \in Nat /\ k \in Nat /\ Width[text[j]] \in Nat
          BY <1>1, <2>1, <4>1
        <5> QED
          BY <3>1, <4>4, <5>1, <5>2
      <4> QED
        BY <4>3, <4>5
    <3>2. ASSUME NEW i \in 1..(k - 1), i + Width[back[i]] > k
          PROVE  \E j \in 1..((o + k) - 1) : j + Width[text[j]] > o + k
      <4>1. i \in Nat /\ i \in 1..(n - o) /\ o + i \in 1..((o + k) - 1) /\ o + i \in 1..n
        BY <1>1, <2>1
      <4>2. back[i] = text[o + i] /\ Width[text[o + i]] \in 0..4
        BY <1>2, <1>4, <4>1
      <4>3. (o + i) + Width[text[o + i]] > o + k
        BY <1>1, <2>1, <3>2, <4>1, <4>2
      <4> QED
        BY <4>1, <4>3
    <3> QED
      BY <3>1, <3>2
  <2>4. Width[text[o + k]] \in 0..4
    BY <1>4, <2>1
  <2>5. k + Width[back[k]] <= Len(back) + 1
    <3> DEFINE w == Width[text[o + k]]
    <3>1. w \in Nat /\ (o + k) + w <= n + 1
      BY <2>2, <2>4
    <3>2. k \in Nat /\ o \in Nat /\ n \in Nat
      BY <1>1, <2>1
    <3>3. Width[back[k]] = w
      BY <2>1
    <3> HIDE DEF w
    <3>4. k + w <= (n - o) + 1
      BY <3>1, <3>2
    <3> QED
      BY <1>2, <3>3, <3>4
  <2>6. (Width[back[k]] = 0) <=> (\E j \in 1..((o + k) - 1) : j + Width[text[j]] > o + k)
    BY <2>1, <2>2
  <2> QED
    BY <2>3, <2>5, <2>6
<1>6. WellFormed(back)
  BY <1>5 DEF WellFormed
<1> QED
  BY <1>2, <1>6 DEF Text, back, n

(* One text after another.                                                 *)
LEMMA JoinIsWhole ==
  ASSUME NEW s, Text(s), NEW t, Text(t)
  PROVE  Text(s \o t)
<1> DEFINE n == Len(s)
           m == Len(t)
           all == s \o t
<1>1. /\ s \in Seq(DOMAIN Width) /\ t \in Seq(DOMAIN Width) /\ n \in Nat /\ m \in Nat
      /\ \A k \in 1..n : /\ k + Width[s[k]] <= n + 1
                         /\ (Width[s[k]] = 0) <=> (\E j \in 1..(k - 1) : j + Width[s[j]] > k)
      /\ \A k \in 1..m : /\ k + Width[t[k]] <= m + 1
                         /\ (Width[t[k]] = 0) <=> (\E j \in 1..(k - 1) : j + Width[t[j]] > k)
  BY DEF Text, WellFormed
<1>2. /\ all \in Seq(DOMAIN Width) /\ Len(all) = n + m
      /\ \A i \in 1..n : all[i] = s[i]
      /\ \A i \in 1..m : all[n + i] = t[i]
  BY <1>1, ConcatFacts
<1>3. /\ \A j \in 1..n : Width[s[j]] \in 0..4
      /\ \A j \in 1..m : Width[t[j]] \in 0..4
  BY <1>1, WholeFacts
<1> HIDE DEF n, m, all
<1>4. ASSUME NEW k \in 1..Len(all)
      PROVE  /\ k + Width[all[k]] <= Len(all) + 1
             /\ (Width[all[k]] = 0) <=> (\E j \in 1..(k - 1) : j + Width[all[j]] > k)
  <2>1. CASE k <= n
    <3>1. k \in 1..n /\ all[k] = s[k]
      BY <1>1, <1>2, <2>1
    <3>2. \A j \in 1..(k - 1) : all[j] = s[j]
      BY <1>1, <1>2, <3>1
    <3>3. Width[s[k]] \in 0..4 /\ k \in Nat
      BY <1>3, <3>1
    <3>4. k + Width[s[k]] <= n + 1
      BY <1>1, <3>1
    <3>5. k + Width[all[k]] <= Len(all) + 1
      BY <1>1, <1>2, <3>1, <3>3, <3>4
    <3> QED
      BY <1>1, <3>1, <3>2, <3>5
  <2>2. CASE k > n
    <3> DEFINE i == k - n
    <3>1. k \in Nat /\ i \in 1..m /\ i \in Nat /\ n + i = k /\ all[k] = t[i]
      <4>1. k \in Nat /\ i \in 1..m /\ i \in Nat /\ n + i = k
        BY <1>1, <1>2, <2>2
      <4> HIDE DEF i
      <4> QED
        BY <1>2, <4>1
    <3> HIDE DEF i
    <3>2. Width[t[i]] \in 0..4 /\ i + Width[t[i]] <= m + 1
          /\ ((Width[t[i]] = 0) <=> (\E j \in 1..(i - 1) : j + Width[t[j]] > i))
      BY <1>1, <1>3, <3>1
    <3>3. (\E j \in 1..(i - 1) : j + Width[t[j]] > i) <=> (\E j \in 1..(k - 1) : j + Width[all[j]] > k)
      <4>1. ASSUME NEW j \in 1..(i - 1), j + Width[t[j]] > i
            PROVE  \E h \in 1..(k - 1) : h + Width[all[h]] > k
        <5>1. j \in 1..m /\ j \in Nat /\ n + j \in 1..(k - 1)
          BY <1>1, <3>1
        <5>2. all[n + j] = t[j] /\ Width[t[j]] \in 0..4
          BY <1>2, <1>3, <5>1
        <5>3. (n + j) + Width[all[n + j]] > k
          BY <1>1, <3>1, <4>1, <5>1, <5>2
        <5> QED
          BY <5>1, <5>3
      <4>2. ASSUME NEW h \in 1..(k - 1), h + Width[all[h]] > k
            PROVE  \E j \in 1..(i - 1) : j + Width[t[j]] > i
        <5>1. h > n
          <6>1. SUFFICES ASSUME h <= n PROVE FALSE
            BY <1>1, <3>1
          <6>2. h \in 1..n /\ h \in Nat /\ all[h] = s[h] /\ Width[s[h]] \in 0..4
            BY <1>1, <1>2, <1>3, <3>1, <6>1
          <6>3. h + Width[s[h]] <= n + 1
            BY <1>1, <6>2
          <6> QED
            <7>1. h + Width[s[h]] > k
              BY <4>2, <6>2
            <7>2. n \in Nat /\ k \in Nat /\ k > n
              BY <1>1, <2>2, <3>1
            <7> QED
              BY <6>2, <6>3, <7>1, <7>2
        <5>2. h - n \in 1..(i - 1) /\ h - n \in 1..m /\ n + (h - n) = h /\ h \in Nat
          BY <1>1, <3>1, <5>1
        <5>3. all[h] = t[h - n] /\ Width[t[h - n]] \in 0..4
          BY <1>2, <1>3, <5>2
        <5>4. (h - n) + Width[t[h - n]] > i
          BY <1>1, <3>1, <4>2, <5>2, <5>3
        <5> QED
          BY <5>2, <5>4
      <4> QED
        BY <4>1, <4>2
    <3>4. k + Width[all[k]] <= Len(all) + 1
      BY <1>1, <1>2, <3>1, <3>2
    <3> QED
      BY <3>1, <3>2, <3>3, <3>4
  <2>3. k <= n \/ k > n
    BY <1>1, <1>2
  <2> QED
    BY <2>1, <2>2, <2>3
<1>5. WellFormed(all)
  BY <1>4 DEF WellFormed
<1> QED
  BY <1>2, <1>5 DEF Text, all

(* replace_range at two boundaries cuts no character in two.               *)
LEMMA SplicedIsWhole ==
  ASSUME NEW text, Text(text), NEW e, e.start \in Nat, e.end \in Nat, Text(e.new),
         ValidRange(text, e)
  PROVE  Text(Spliced(text, e))
<1>1. /\ Len(text) \in Nat /\ e.start \in 0..Len(text) /\ e.end \in 0..Len(text)
      /\ IsCharBoundary(text, e.start) /\ IsCharBoundary(text, e.end)
  <2>1. text \in Seq(DOMAIN Width)
    BY DEF Text
  <2>2. Len(text) \in Nat
    BY <2>1
  <2> QED
    BY <2>2 DEF ValidRange
<1>2. Text(Slice(text, 0, e.start)) /\ Text(Slice(text, e.end, Len(text)))
  BY <1>1, FrontIsWhole, BackIsWhole
<1>3. Text(Slice(text, 0, e.start) \o e.new)
  BY <1>2, JoinIsWhole
<1>4. Text((Slice(text, 0, e.start) \o e.new) \o Slice(text, e.end, Len(text)))
  BY <1>2, <1>3, JoinIsWhole
<1> QED
  BY <1>4 DEF Spliced

(* A boundary of a text is one of every other that begins like it.         *)
LEMMA BoundaryStays ==
  ASSUME NEW text, Text(text), NEW other, Text(other), NEW k \in 0..Len(text), NEW t \in Seq(DOMAIN Width),
         other = Slice(text, 0, k) \o t, NEW o \in 0..k, IsCharBoundary(text, o)
  PROVE  o \in 0..Len(other) /\ k <= Len(other) /\ IsCharBoundary(other, o)
<1>1. text \in Seq(DOMAIN Width) /\ Len(text) \in Nat /\ k \in Nat /\ o \in Nat /\ o <= k /\ k <= Len(text)
  BY DEF Text
<1> DEFINE front == Slice(text, 0, k)
<1>2. front \in Seq(DOMAIN Width) /\ Len(front) = k /\ \A i \in 1..k : front[i] = text[i]
  BY <1>1, FrontFacts
<1>3. Len(other) = Len(front) + Len(t) /\ \A i \in 1..Len(front) : other[i] = front[i]
  <2> HIDE DEF front
  <2>1. other = front \o t
    BY DEF front
  <2>2. Len(front \o t) = Len(front) + Len(t) /\ \A i \in 1..Len(front) : (front \o t)[i] = front[i]
    BY <1>2, ConcatFacts
  <2> QED
    BY <2>1, <2>2
<1> HIDE DEF front
<1>4. Len(t) \in Nat
  OBVIOUS
<1>5. o \in 0..Len(other) /\ k <= Len(other)
  BY <1>1, <1>2, <1>3, <1>4
<1>6. \A i \in 1..o : other[i] = text[i]
  BY <1>1, <1>2, <1>3
<1>7. o \in 0..Len(text)
  BY <1>1
<1>8. \A j \in 1..o : j + Width[text[j]] <= o + 1
  BY <1>7, NoneCrosses
<1>9. \A j \in 1..o : j + Width[other[j]] <= o + 1
  BY <1>6, <1>8
<1>10. IsCharBoundary(other, o)
  BY <1>5, <1>9, NoneCrosses
<1> QED
  BY <1>5, <1>10

(* A list of edits in another order.                                       *)
Rearranges(other, list, place) ==
  /\ place \in [1..Len(list) -> 1..Len(list)]
  /\ \A i \in 1..Len(list) : \E r \in 1..Len(list) : place[r] = i
  /\ \A r, s \in 1..Len(list) : r # s => place[r] # place[s]
  /\ Len(other) = Len(list)
  /\ \A r \in 1..Len(list) : other[r] = list[place[r]]

(* Where edits are apart, the order they are listed in does not matter.    *)
LEMMA Rearranged ==
  ASSUME NEW A, NEW text \in Seq(A), NEW E, Fitting(E, A, Len(text)), NEW list \in Seq(E), Apart(list),
         NEW other \in Seq(E), NEW place, Rearranges(other, list, place)
  PROVE  Apart(other) /\ AllAtOnce(text, other) = AllAtOnce(text, list)
<1> DEFINE n == Len(list)
           N == 1..n
<1>1. n \in Nat /\ DOMAIN list = N /\ \A i \in N : list[i] \in E
  OBVIOUS
<1>2. \A r \in N : place[r] \in N /\ other[r] = list[place[r]] /\ other[r] \in E
  BY <1>1 DEF Rearranges
<1>3. DOMAIN other = N
  BY <1>1 DEF Rearranges
<1>4. /\ \A i \in N : \E r \in N : place[r] = i
      /\ \A r, s \in N : r # s => place[r] # place[s]
  BY DEF Rearranges
<1>5. \A e \in E : e.start \in Nat /\ e.end \in Nat /\ e.start <= e.end
  BY DEF Fitting
<1>6. \A i, j \in N : i # j =>
        /\ list[i].end <= list[j].start \/ list[j].end <= list[i].start
        /\ ~(list[i].start = list[i].end /\ list[j].start = list[j].end /\ list[i].start = list[j].start)
  BY <1>1 DEF Apart
<1> HIDE DEF n, N
<1>7. Apart(other)
  <2>1. ASSUME NEW r \in N, NEW s \in N, r # s
        PROVE  /\ other[r].end <= other[s].start \/ other[s].end <= other[r].start
               /\ ~(other[r].start = other[r].end /\ other[s].start = other[s].end /\ other[r].start = other[s].start)
    <3> DEFINE i == place[r]
               j == place[s]
    <3>1. i \in N /\ j \in N /\ i # j /\ other[r] = list[i] /\ other[s] = list[j]
      BY <1>2, <1>4, <2>1
    <3> HIDE DEF i, j
    <3> QED
      BY <1>6, <3>1
  <2> QED
    BY <1>3, <2>1 DEF Apart
<1>8. ASSUME NEW k, NEW empty \in BOOLEAN
      PROVE  PutIn(other, k, empty) = PutIn(list, k, empty)
  <2> DEFINE Here(l) == {i \in DOMAIN l : l[i].start = k /\ (l[i].end = k) = empty}
             before == Here(list)
             after == Here(other)
             In(l, h) == IF h = {} THEN <<>> ELSE l[CHOOSE i \in h : TRUE].new
  <2>1. /\ PutIn(list, k, empty) = In(list, before)
        /\ PutIn(other, k, empty) = In(other, after)
    BY DEF PutIn
  <2>2. \A i : i \in before <=> i \in N /\ list[i].start = k /\ ((list[i].end = k) <=> empty)
    BY <1>1
  <2>3. \A i : i \in after <=> i \in N /\ other[i].start = k /\ ((other[i].end = k) <=> empty)
    BY <1>3
  <2> HIDE DEF before, after
  <2>4. \A r \in N : r \in after <=> place[r] \in before
    <3> TAKE r \in N
    <3>1. r \in after <=> other[r].start = k /\ ((other[r].end = k) <=> empty)
      BY <2>3
    <3>2. place[r] \in before <=> list[place[r]].start = k /\ ((list[place[r]].end = k) <=> empty)
      BY <1>2, <2>2
    <3>3. other[r] = list[place[r]]
      BY <1>2
    <3> QED
      BY <3>1, <3>2, <3>3
  <2>5. \A i, j \in before : i = j
    <3> SUFFICES ASSUME NEW i \in before, NEW j \in before, i # j PROVE FALSE
      OBVIOUS
    <3>1. /\ i \in N /\ list[i].start = k /\ ((list[i].end = k) <=> empty)
          /\ j \in N /\ list[j].start = k /\ ((list[j].end = k) <=> empty)
      BY <2>2
    <3>2. /\ list[i].start \in Nat /\ list[i].end \in Nat /\ list[i].start <= list[i].end
          /\ list[j].start \in Nat /\ list[j].end \in Nat /\ list[j].start <= list[j].end
      BY <1>1, <1>5, <3>1
    <3>3. /\ list[i].end <= list[j].start \/ list[j].end <= list[i].start
          /\ ~(list[i].start = list[i].end /\ list[j].start = list[j].end /\ list[i].start = list[j].start)
      BY <1>6, <3>1
    <3>4. (list[i].end = k) <=> (list[j].end = k)
      BY <3>1, Zenon
    <3>5. list[i].start = k /\ list[j].start = k
      BY <3>1
    <3> QED
      BY <3>2, <3>3, <3>4, <3>5
  <2>6. CASE before = {}
    <3>1. after = {}
      BY <1>2, <2>3, <2>4, <2>6
    <3> QED
      BY <2>1, <2>6, <3>1
  <2>7. CASE before # {}
    <3> DEFINE b == CHOOSE i \in before : TRUE
               a == CHOOSE i \in after : TRUE
    <3>1. b \in before
      BY <2>7
    <3>2. after # {}
      BY <1>4, <2>2, <2>4, <3>1
    <3>3. a \in after
      BY <3>2
    <3>4. a \in N /\ place[a] \in before
      BY <2>3, <2>4, <3>3
    <3>5. place[a] = b
      BY <2>5, <3>1, <3>4
    <3>6. In(list, before) = list[b].new /\ In(other, after) = other[a].new
      BY <2>7, <3>2
    <3> HIDE DEF a, b, In
    <3> QED
      BY <1>2, <2>1, <3>4, <3>5, <3>6
  <2> QED
    BY <2>6, <2>7
<1>9. \A k : Covered(other, k) <=> Covered(list, k)
  <2> TAKE k
  <2>1. Covered(list, k) <=> \E i \in N : list[i].start <= k /\ k < list[i].end
    BY <1>1 DEF Covered
  <2>2. Covered(other, k) <=> \E i \in N : other[i].start <= k /\ k < other[i].end
    BY <1>3 DEF Covered
  <2> QED
    <3>1. ASSUME NEW r \in N, other[r].start <= k, k < other[r].end
          PROVE  \E i \in N : list[i].start <= k /\ k < list[i].end
      BY <1>2, <3>1
    <3>2. ASSUME NEW i \in N, list[i].start <= k, k < list[i].end
          PROVE  \E r \in N : other[r].start <= k /\ k < other[r].end
      <4>1. PICK r \in N : place[r] = i
        BY <1>4
      <4>2. other[r] = list[i]
        BY <1>2, <4>1
      <4> QED
        BY <3>2, <4>2
    <3> QED
      BY <2>1, <2>2, <3>1, <3>2
<1>10. \A p \in 1..(Len(text) + 1) : PieceOf(text, other, p) = PieceOf(text, list, p)
  <2> TAKE p \in 1..(Len(text) + 1)
  <2>1. /\ PutIn(other, p - 1, TRUE) = PutIn(list, p - 1, TRUE)
        /\ PutIn(other, p - 1, FALSE) = PutIn(list, p - 1, FALSE)
    BY <1>8
  <2>2. Covered(other, p - 1) <=> Covered(list, p - 1)
    BY <1>9
  <2> QED
    BY <2>1, <2>2, Zenon DEF PieceOf
<1>11. Pieces(text, other) = Pieces(text, list)
  BY <1>10 DEF Pieces
<1>12. AllAtOnce(text, other) = AllAtOnce(text, list)
  BY <1>11, PiecesAre
<1> QED
  BY <1>7, <1>12

(* Nobody to whom nothing is done.                                         *)
LEMMA NoEdits ==
  ASSUME NEW A, NEW text \in Seq(A)
  PROVE  AllAtOnce(text, <<>>) = text
<1> DEFINE m == Len(text)
           none == <<>>
           was == Pieces(text, none)
<1>1. Fitting({}, A, m) /\ none \in Seq({}) /\ m \in Nat /\ DOMAIN none = {}
  BY DEF Fitting
<1>2. /\ was \in Seq(Seq(A)) /\ Len(was) = m + 1
      /\ \A p \in 1..(m + 1) : was[p] = PieceOf(text, none, p)
      /\ \A p \in 1..m : PieceOf(text, none, p) = <<text[p]>>
  <2> DEFINE E == {}
  <2>1. Fitting(E, A, m) /\ none \in Seq(E)
    BY <1>1
  <2> HIDE DEF none, E
  <2>2. /\ was \in Seq(Seq(A)) /\ Len(was) = m + 1
        /\ \A p \in 1..(m + 1) : was[p] = PieceOf(text, none, p)
        /\ \A p \in 1..m :
             (\A i \in DOMAIN none : none[i].start >= p) => PieceOf(text, none, p) = <<text[p]>>
    BY <2>1, PieceFacts
  <2> HIDE DEF was
  <2>3. \A p : \A i \in DOMAIN none : none[i].start >= p
    BY <1>1
  <2> QED
    BY <2>2, <2>3
<1>3. PieceOf(text, <<>>, m + 1) = <<>>
  <2>1. PutIn(none, (m + 1) - 1, TRUE) = <<>> /\ PutIn(none, (m + 1) - 1, FALSE) = <<>>
    BY <1>1, PutInFacts
  <2>2. m + 1 > Len(text)
    BY <1>1
  <2>3. <<>> \o <<>> \o <<>> = <<>>
    BY Joined
  <2> QED
    BY <2>1, <2>2, <2>3 DEF PieceOf
<1>4. PICK f \in [0..(m + 1) -> Seq(A)] : Piles(f, m + 1, was) /\ FlattenSeq(was) = f[m + 1]
  BY <1>2, FlattenFacts
<1>5. f[0] = <<>> /\ \A k \in 0..((m + 1) - 1) : f[k + 1] = f[k] \o was[k + 1]
  BY <1>4 DEF Piles
<1>6. AllAtOnce(text, <<>>) = f[m + 1]
  BY <1>4, PiecesAre
<1> HIDE DEF was
<1>7. \A k \in 0..m : f[k] = Slice(text, 0, k)
  <2>1. f[0] = Slice(text, 0, 0)
    BY <1>5, CutFacts
  <2> DEFINE S == {k \in Nat : k <= m => f[k] = Slice(text, 0, k)}
  <2>2. 0 \in S
    BY <2>1
  <2>3. ASSUME NEW k \in Nat, k \in S
        PROVE  k + 1 \in S
    <3> SUFFICES ASSUME k + 1 <= m PROVE f[k + 1] = Slice(text, 0, k + 1)
      OBVIOUS
    <3>1. k <= m /\ k < Len(text) /\ k \in 0..((m + 1) - 1) /\ k + 1 \in 1..m /\ k + 1 \in 1..(m + 1)
      BY <1>1
    <3>2. was[k + 1] = <<text[k + 1]>>
      BY <1>2, <3>1
    <3>3. f[k + 1] = f[k] \o <<text[k + 1]>>
      BY <1>5, <3>1, <3>2
    <3> QED
      BY <2>3, <3>1, <3>3, SliceGrows
  <2>4. \A k \in Nat : k \in S
    <3> HIDE DEF S
    <3> QED
      BY <2>2, <2>3, NatInduct
  <2> QED
    BY <1>1, <2>4
<1>8. f[m + 1] = f[m] \o <<>>
  <2>1. m \in 0..((m + 1) - 1) /\ m + 1 \in 1..(m + 1)
    BY <1>1
  <2> QED
    BY <1>2, <1>3, <1>5, <2>1
<1>9. m \in 0..m /\ f[m] = Slice(text, 0, m) /\ Slice(text, 0, m) = text
  BY <1>1, <1>7, CutFacts
<1>10. text \o <<>> = text
  OBVIOUS
<1> QED
  BY <1>6, <1>8, <1>9, <1>10

(* Neighbours that do not clash are enough: no two edits do.               *)
LEMMA ValidIsApart ==
  ASSUME NEW A, NEW length, NEW E, Fitting(E, A, length), NEW list \in Seq(E),
         \A i \in 1..(Len(Sorted(list, SpanBefore)) - 1) :
           ~Clash(Sorted(list, SpanBefore)[i], Sorted(list, SpanBefore)[i + 1])
  PROVE  Apart(list)
<1> DEFINE n == Len(list)
           N == 1..n
           R == BySpan(list)
           place == Places(n, R)
           S == Sorted(list, SpanBefore)
<1>1. n \in Nat /\ DOMAIN list = N /\ \A i \in N : list[i] \in E
  OBVIOUS
<1>2. \A e \in E : e.start \in Nat /\ e.end \in Nat /\ e.start <= e.end
  BY DEF Fitting
<1>3. /\ Orders(R, n)
      /\ \A i, j \in N : <<i, j>> \in R <=>
           \/ list[i].start < list[j].start
           \/ list[i].start = list[j].start /\ list[i].end < list[j].end
           \/ list[i].start = list[j].start /\ list[i].end = list[j].end /\ i < j
      /\ S = [r \in N |-> list[place[r]]]
  BY <1>2, SortedBySpan
<1>4. /\ place \in [N -> N]
      /\ \A i \in N : \E r \in N : place[r] = i
      /\ \A r, s \in N : r < s <=> <<place[r], place[s]>> \in R
  BY <1>1, <1>3, PlacesFacts
<1>5. \A i \in 1..(Len(S) - 1) : ~Clash(S[i], S[i + 1])
  OBVIOUS
<1> HIDE DEF n, N, R, place, S
<1>6. Len(S) = n /\ \A r \in N : S[r] = list[place[r]] /\ place[r] \in N
  BY <1>1, <1>3, <1>4 DEF N
<1>7. \A r \in N : S[r].start \in Nat /\ S[r].end \in Nat /\ S[r].start <= S[r].end
  BY <1>1, <1>2, <1>6
<1>8. \A r, s \in N : r < s =>
        \/ S[r].start < S[s].start
        \/ S[r].start = S[s].start /\ S[r].end <= S[s].end
  <2> SUFFICES ASSUME NEW r \in N, NEW s \in N, r < s
               PROVE  \/ S[r].start < S[s].start
                      \/ S[r].start = S[s].start /\ S[r].end <= S[s].end
    OBVIOUS
  <2>1. <<place[r], place[s]>> \in R
    BY <1>4
  <2>2. place[r] \in N /\ place[s] \in N /\ S[r] = list[place[r]] /\ S[s] = list[place[s]]
    BY <1>6
  <2>3. \/ S[r].start < S[s].start
        \/ S[r].start = S[s].start /\ S[r].end < S[s].end
        \/ S[r].start = S[s].start /\ S[r].end = S[s].end
    BY <1>3, <2>1, <2>2
  <2> QED
    BY <1>7, <2>3
<1>9. \A r, s \in N : r < s =>
        /\ S[r].end <= S[s].start
        /\ ~(S[r].start = S[r].end /\ S[s].start = S[s].end /\ S[r].start = S[s].start)
  <2> SUFFICES ASSUME NEW r \in N, NEW s \in N, r < s
               PROVE  /\ S[r].end <= S[s].start
                      /\ ~(S[r].start = S[r].end /\ S[s].start = S[s].end /\ S[r].start = S[s].start)
    OBVIOUS
  <2> DEFINE q == r + 1
  <2>1. r \in Nat /\ s \in Nat /\ q \in N /\ r \in 1..(n - 1) /\ q \in Nat /\ (q < s \/ q = s)
    BY <1>1 DEF N
  <2>2. ~Clash(S[r], S[q])
    BY <1>5, <1>6, <2>1
  <2> HIDE DEF q
  <2>3. /\ S[r].end <= S[q].start
        /\ ~(S[r].start = S[r].end /\ S[q].start = S[q].end /\ S[r].start = S[q].start)
    BY <1>7, <2>1, <2>2 DEF Clash
  <2>4. S[q].start < S[s].start \/ (S[q].start = S[s].start /\ S[q].end <= S[s].end)
    BY <1>7, <1>8, <2>1
  <2> QED
    BY <1>7, <2>1, <2>3, <2>4
<1>10. ASSUME NEW i \in N, NEW j \in N, i # j
       PROVE  /\ list[i].end <= list[j].start \/ list[j].end <= list[i].start
              /\ ~(list[i].start = list[i].end /\ list[j].start = list[j].end /\ list[i].start = list[j].start)
  <2>1. PICK r \in N, s \in N : place[r] = i /\ place[s] = j
    BY <1>4
  <2>2. S[r] = list[i] /\ S[s] = list[j] /\ r # s /\ (r < s \/ s < r)
    BY <1>1, <1>6, <1>10, <2>1 DEF N
  <2>3. CASE r < s
    BY <1>9, <2>2, <2>3
  <2>4. CASE s < r
    BY <1>9, <2>2, <2>4
  <2> QED
    BY <2>2, <2>3, <2>4
<1> QED
  BY <1>1, <1>10 DEF Apart

(* From the end, an edit ends before all that were applied before it start.*)
LEMMA FromTheEndFacts ==
  ASSUME NEW A, NEW text \in Seq(A), NEW E, Fitting(E, A, Len(text)), NEW list \in Seq(E), Apart(list),
         \A i, j \in DOMAIN list :
           i < j /\ list[i].start = list[j].start /\ list[j].start < list[j].end =>
             list[i].start < list[i].end
  PROVE  LET S == Sorted(list, FromTheEnd)
         IN  /\ S \in Seq(E) /\ Len(S) = Len(list) /\ Apart(S)
             /\ \A r, s \in 1..Len(S) : r < s => S[r].start >= S[s].end
             /\ AllAtOnce(text, S) = AllAtOnce(text, list)
<1> DEFINE n == Len(list)
           N == 1..n
           R == ByEnd(list)
           place == Places(n, R)
           S == Sorted(list, FromTheEnd)
<1>1. n \in Nat /\ DOMAIN list = N /\ \A i \in N : list[i] \in E
  OBVIOUS
<1>2. \A e \in E : e.start \in Nat /\ e.end \in Nat /\ e.start <= e.end
  BY DEF Fitting
<1>3. /\ Orders(R, n)
      /\ \A i, j \in N : <<i, j>> \in R <=>
           \/ list[j].start < list[i].start
           \/ list[i].start = list[j].start /\ i < j
      /\ S = [r \in N |-> list[place[r]]]
  BY <1>2, SortedByEnd
<1>4. /\ place \in [N -> N]
      /\ \A i \in N : \E r \in N : place[r] = i
      /\ \A r, s \in N : r < s <=> <<place[r], place[s]>> \in R
  BY <1>1, <1>3, PlacesFacts
<1>5. /\ \A i \in N : <<i, i>> \notin R
      /\ \A r, s \in N : r # s => r < s \/ s < r
  BY <1>1, <1>3 DEF Orders
<1> HIDE DEF R, place, S
<1>6. \A r, s \in N : r # s => place[r] # place[s]
  <2> SUFFICES ASSUME NEW r \in N, NEW s \in N, r < s, place[r] = place[s]
               PROVE  FALSE
    BY <1>5
  <2>1. place[r] \in N /\ <<place[r], place[s]>> \in R
    BY <1>4
  <2> QED
    BY <1>5, <2>1
<1>7. S \in Seq(E) /\ Len(S) = Len(list) /\ \A r \in 1..Len(list) : S[r] = list[place[r]]
  <2>1. \A r \in N : list[place[r]] \in E
    BY <1>1, <1>4
  <2>2. [r \in N |-> list[place[r]]] \in Seq(E)
    BY <1>1, <2>1
  <2> HIDE DEF n, N
  <2>3. Len([r \in N |-> list[place[r]]]) = n
    BY <1>1 DEF N
  <2>4. \A r \in N : S[r] = list[place[r]]
    BY <1>3
  <2> QED
    BY <1>3, <2>2, <2>3, <2>4 DEF n, N
<1>8. S \in Seq(E) /\ Len(S) = n /\ Apart(S) /\ AllAtOnce(text, S) = AllAtOnce(text, list)
  <2>1. Rearranges(S, list, place)
    BY <1>4, <1>6, <1>7 DEF Rearranges
  <2>2. Apart(S) /\ AllAtOnce(text, S) = AllAtOnce(text, list)
    BY <1>7, <2>1, Rearranged
  <2> QED
    BY <1>7, <2>2
<1>9. \A r \in N : S[r] = list[place[r]] /\ place[r] \in N
  BY <1>3, <1>4
<1>10. \A i, j \in N : i < j /\ list[i].start = list[j].start /\ list[j].start < list[j].end =>
         list[i].start < list[i].end
  BY <1>1
<1>11. \A i, j \in N : i # j =>
         /\ list[i].end <= list[j].start \/ list[j].end <= list[i].start
         /\ ~(list[i].start = list[i].end /\ list[j].start = list[j].end /\ list[i].start = list[j].start)
  BY <1>1 DEF Apart
<1> HIDE DEF n, N
<1>12. ASSUME NEW r \in N, NEW s \in N, r < s
       PROVE  S[r].start >= S[s].end
  <2> DEFINE i == place[r]
             j == place[s]
  <2>1. i \in N /\ j \in N /\ i # j /\ S[r] = list[i] /\ S[s] = list[j] /\ <<i, j>> \in R
    <3>1. r # s
      BY <1>1, <1>12 DEF N
    <3> QED
      BY <1>4, <1>6, <1>9, <1>12, <3>1
  <2> HIDE DEF i, j
  <2>2. list[j].start < list[i].start \/ (list[i].start = list[j].start /\ i < j)
    BY <1>3, <2>1
  <2>3. /\ list[i].end <= list[j].start \/ list[j].end <= list[i].start
        /\ ~(list[i].start = list[i].end /\ list[j].start = list[j].end /\ list[i].start = list[j].start)
    BY <1>11, <2>1
  <2>4. i < j /\ list[i].start = list[j].start /\ list[j].start < list[j].end =>
         list[i].start < list[i].end
    BY <1>10, <2>1
  <2>5. /\ list[i].start \in Nat /\ list[i].end \in Nat /\ list[i].start <= list[i].end
        /\ list[j].start \in Nat /\ list[j].end \in Nat /\ list[j].start <= list[j].end
    BY <1>1, <1>2, <2>1
  <2>6. list[i].start >= list[j].end
    BY <2>2, <2>3, <2>4, <2>5
  <2> QED
    BY <2>1, <2>6
<1> QED
  BY <1>8, <1>12 DEF S, n, N

(* What validation lets through.                                           *)
IsEdit(e) == e.start \in Nat /\ e.end \in Nat /\ Text(e.new)

(* The edits of a list that was validated fit the text and are apart.      *)
LEMMA ValidFacts ==
  ASSUME NEW text, Text(text), NEW F, \A e \in F : IsEdit(e), NEW list \in Seq(F), Valid(text, list)
  PROVE  \E E : /\ Fitting(E, DOMAIN Width, Len(text)) /\ list \in Seq(E) /\ Apart(list)
                /\ \A e \in E : e \in F /\ ValidRange(text, e)
<1> DEFINE E == {list[i] : i \in DOMAIN list}
<1>1. text \in Seq(DOMAIN Width) /\ Len(text) \in Nat
  BY DEF Text
<1>2. /\ \A i \in DOMAIN list : ValidRange(text, list[i]) /\ list[i] \in F
      /\ \A i \in 1..(Len(Sorted(list, SpanBefore)) - 1) :
           ~Clash(Sorted(list, SpanBefore)[i], Sorted(list, SpanBefore)[i + 1])
  BY DEF Valid
<1>3. list \in Seq(E)
  OBVIOUS
<1>4. \A e \in E : e \in F /\ ValidRange(text, e)
  BY <1>2
<1> HIDE DEF E
<1>5. Fitting(E, DOMAIN Width, Len(text))
  <2> SUFFICES ASSUME NEW e \in E
               PROVE  /\ e.start \in Nat /\ e.end \in Nat /\ e.new \in Seq(DOMAIN Width)
                      /\ e.start <= e.end /\ e.end <= Len(text)
    BY DEF Fitting
  <2>1. IsEdit(e) /\ ValidRange(text, e)
    BY <1>4
  <2> QED
    BY <2>1 DEF IsEdit, ValidRange, Text
<1>6. Apart(list)
  BY <1>2, <1>3, <1>5, ValidIsApart
<1> QED
  BY <1>3, <1>4, <1>5, <1>6

(* One step of apply_edits: the second look at the range finds what the    *)
(* first found, and the result is that of one more edit all at once.       *)
LEMMA NextEdit ==
  ASSUME NEW text, Text(text), NEW E, Fitting(E, DOMAIN Width, Len(text)), NEW S \in Seq(E), Apart(S),
         \A r, s \in 1..Len(S) : r < s => S[r].start >= S[s].end,
         NEW r \in Nat, r < Len(S), ValidRange(text, S[r + 1]),
         Text(AllAtOnce(text, SubSeq(S, 1, r)))
  PROVE  /\ ValidRange(AllAtOnce(text, SubSeq(S, 1, r)), S[r + 1])
         /\ Spliced(AllAtOnce(text, SubSeq(S, 1, r)), S[r + 1]) = AllAtOnce(text, SubSeq(S, 1, r + 1))
<1> DEFINE list == SubSeq(S, 1, r)
           e == S[r + 1]
           now == AllAtOnce(text, list)
<1>1. /\ list \in Seq(E) /\ Len(list) = r /\ DOMAIN list = 1..r
      /\ \A i \in 1..r : list[i] = S[i] /\ i \in 1..Len(S) /\ i < r + 1
      /\ e \in E /\ r + 1 \in 1..Len(S)
  <2>1. r + 1 \in 1..Len(S) /\ \A i \in 1..r : i \in 1..Len(S) /\ i < r + 1
    OBVIOUS
  <2>2. \A i \in 1..r : S[i] \in E
    BY <2>1
  <2>3. list \in Seq(E) /\ Len(list) = r /\ \A i \in 1..r : list[i] = S[i]
    BY <2>1, <2>2
  <2> QED
    BY <2>1, <2>3
<1>2. SubSeq(S, 1, r + 1) = Append(list, e)
  OBVIOUS
<1>3. text \in Seq(DOMAIN Width) /\ Len(text) \in Nat
  BY DEF Text
<1>4. e.start \in Nat /\ e.end \in Nat /\ e.start <= e.end /\ e.end <= Len(text)
  BY <1>1 DEF Fitting
<1>5. IsCharBoundary(text, e.start) /\ IsCharBoundary(text, e.end) /\ Text(now)
  BY DEF ValidRange
<1>6. \A i \in DOMAIN list : list[i].start >= e.end
  <2> HIDE DEF list
  <2> QED
    BY <1>1
<1> DEFINE more == Append(list, e)
<1> HIDE DEF list, e
<1>7. Apart(more)
  <2>1. /\ DOMAIN more = 1..(r + 1) /\ more[r + 1] = S[r + 1]
        /\ \A i \in 1..r : more[i] = list[i]
    BY <1>1 DEF e
  <2>2. \A i \in 1..(r + 1) : i \in 1..r \/ i = r + 1
    OBVIOUS
  <2> HIDE DEF more
  <2>3. \A i \in DOMAIN more : i \in 1..Len(S) /\ more[i] = S[i]
    BY <1>1, <2>1, <2>2
  <2>4. \A i \in DOMAIN more : i \in DOMAIN S /\ more[i] = S[i]
    BY <2>3
  <2> QED
    BY <2>4 DEF Apart
<1>8. /\ \E t \in Seq(DOMAIN Width) : AllAtOnce(text, list) = Slice(text, 0, e.end) \o t
      /\ Spliced(AllAtOnce(text, list), e) = AllAtOnce(text, Append(list, e))
  <2> DEFINE A == DOMAIN Width
  <2>1. text \in Seq(A) /\ Fitting(E, A, Len(text)) /\ list \in Seq(E) /\ e \in E
    BY <1>1, <1>3
  <2> HIDE DEF A
  <2>2. /\ \E t \in Seq(A) : AllAtOnce(text, list) = Slice(text, 0, e.end) \o t
        /\ Spliced(AllAtOnce(text, list), e) = AllAtOnce(text, Append(list, e))
    <3>1. Spliced(AllAtOnce(text, list), e) = AllAtOnce(text, Append(list, e))
      BY <1>6, <1>7, <2>1, AppliedLast
    <3>2. Continues(A, AllAtOnce(text, list), Slice(text, 0, e.end))
      BY <1>6, <1>7, <2>1, AppliedLast
    <3> QED
      BY <3>1, <3>2 DEF Continues
  <2> QED
    BY <2>2 DEF A
<1>9. ValidRange(now, e)
  <2>1. PICK t \in Seq(DOMAIN Width) : now = Slice(text, 0, e.end) \o t
    BY <1>8
  <2>2. e.end \in 0..Len(text) /\ e.start \in 0..e.end /\ e.end \in 0..e.end
    BY <1>3, <1>4
  <2> HIDE DEF now
  <2>3. e.end \in 0..Len(now) /\ IsCharBoundary(now, e.start) /\ IsCharBoundary(now, e.end)
    BY <1>5, <2>1, <2>2, BoundaryStays
  <2> QED
    BY <1>4, <2>3 DEF ValidRange
<1> QED
  BY <1>2, <1>8, <1>9 DEF list, e

-----------------------------------------------------------------------------
(* The invariant                                                           *)

(* The edits as apply_edits takes them.                                    *)
InOrder == Sorted(edits, FromTheEnd)

(* What was applied so far is what the first of them do all at once.       *)
Applied ==
  /\ phase # "refused"
  /\ \E r \in 0..Len(InOrder) :
       /\ pending = SubSeq(InOrder, r + 1, Len(InOrder))
       /\ content = AllAtOnce(original, SubSeq(InOrder, 1, r))

(* Texts are whole characters between the steps, and what validation let   *)
(* through is applied in order.                                            *)
EditInv ==
  /\ Text(original) /\ Text(content)
  /\ edits \in Seq(Suggestions) /\ pending \in Seq(Suggestions)
  /\ phase \in {"collect", "apply", "done", "refused"}
  /\ phase = "collect" => content = original
  /\ phase = "done" => pending = <<>>
  /\ phase # "collect" /\ Valid(original, edits) /\ InsertsComeLater => Applied

(* What a suggestion lists are edits.                                      *)
LEMMA SuggestionsAreEdits == Text(original) => \A e \in Suggestions : IsEdit(e)
<1> SUFFICES ASSUME Text(original), NEW e \in Suggestions
             PROVE  IsEdit(e)
  OBVIOUS
<1>1. Len(original) \in Nat
  BY DEF Text
<1>2. \A offset \in Offset : offset \in Nat /\ offset + 1 \in Nat
  BY <1>1 DEF Offset
<1>3. \A new \in News : Text(new)
  BY EditApplyAssumption DEF Text
<1> QED
  BY <1>2, <1>3 DEF Suggestions, IsEdit, Replace, Insert

(* Sorting leaves the edits as many as they are.                           *)
LEMMA InOrderFacts ==
  ASSUME Text(original), edits \in Seq(Suggestions)
  PROVE  InOrder \in Seq(Suggestions) /\ Len(InOrder) = Len(edits)
<1> DEFINE n == Len(edits)
           R == ByEnd(edits)
           place == Places(n, R)
           S == InOrder
<1>1. \A e \in Suggestions : e.start \in Nat
  BY SuggestionsAreEdits DEF IsEdit
<1>2. Orders(R, n) /\ S = [r \in 1..n |-> edits[place[r]]]
  BY <1>1, SortedByEnd DEF InOrder
<1>3. n \in Nat
  OBVIOUS
<1>4. place \in [1..n -> 1..n]
  BY <1>2, <1>3, PlacesFacts
<1> HIDE DEF R, place, S
<1>5. \A r \in 1..n : edits[place[r]] \in Suggestions
  BY <1>4
<1>6. S \in Seq(Suggestions) /\ Len(S) = n
  BY <1>2, <1>3, <1>5
<1> QED
  BY <1>6 DEF S

(* The list that was accepted, from the end.                               *)
LEMMA AcceptedFacts ==
  ASSUME Text(original), edits \in Seq(Suggestions), Valid(original, edits), InsertsComeLater
  PROVE  \E E : /\ Fitting(E, DOMAIN Width, Len(original)) /\ InOrder \in Seq(E) /\ Apart(InOrder)
                /\ \A r, s \in 1..Len(InOrder) : r < s => InOrder[r].start >= InOrder[s].end
                /\ AllAtOnce(original, InOrder) = AllAtOnce(original, edits)
                /\ \A e \in E : ValidRange(original, e)
<1>1. \A e \in Suggestions : IsEdit(e)
  BY SuggestionsAreEdits
<1>2. PICK E :
      /\ Fitting(E, DOMAIN Width, Len(original)) /\ edits \in Seq(E) /\ Apart(edits)
      /\ \A e \in E : e \in Suggestions /\ ValidRange(original, e)
  BY <1>1, ValidFacts
<1>3. original \in Seq(DOMAIN Width)
  BY DEF Text
<1>4. \A i, j \in DOMAIN edits :
        i < j /\ edits[i].start = edits[j].start /\ edits[j].start < edits[j].end =>
          edits[i].start < edits[i].end
  BY DEF InsertsComeLater
<1>5. /\ InOrder \in Seq(E) /\ Apart(InOrder)
      /\ \A r, s \in 1..Len(InOrder) : r < s => InOrder[r].start >= InOrder[s].end
      /\ AllAtOnce(original, InOrder) = AllAtOnce(original, edits)
  BY <1>2, <1>3, <1>4, FromTheEndFacts DEF InOrder
<1> QED
  BY <1>2, <1>5

(* A file that was read satisfies the invariant.                           *)
LEMMA EditStarts == Init => EditInv
<1> SUFFICES ASSUME Init PROVE EditInv
  OBVIOUS
<1>1. Text(original)
  BY EditApplyAssumption DEF Init, Text
<1> QED
  BY <1>1 DEF Init, EditInv

(* Every step of the validator and of apply_edits keeps it.                *)
LEMMA EditStep == EditInv /\ [Next]_vars => EditInv'
<1> SUFFICES ASSUME EditInv, [Next]_vars PROVE EditInv'
  OBVIOUS
<1> DEFINE D == InOrder
           n == Len(D)
<1>1. /\ Text(original) /\ Text(content)
      /\ edits \in Seq(Suggestions) /\ pending \in Seq(Suggestions)
      /\ phase = "collect" => content = original
      /\ phase = "done" => pending = <<>>
      /\ phase # "collect" /\ Valid(original, edits) /\ InsertsComeLater => Applied
  BY DEF EditInv
<1>2. original' = original
  BY DEF Next, vars, Suggest, Validate, ApplyEdit, Prepared
<1>3. Suggestions' = Suggestions
  BY <1>2 DEF Suggestions, Offset, Found
<1>4. CASE UNCHANGED vars
  BY <1>4, <1>3 DEF EditInv, vars, Applied, InOrder, InsertsComeLater
<1>5. ASSUME NEW edit \in Suggestions, Suggest(edit)
      PROVE  EditInv'
  <2>1. edits' \in Seq(Suggestions) /\ pending' = pending /\ content' = content /\ phase' = "collect"
        /\ phase = "collect"
    BY <1>1, <1>5 DEF Suggest
  <2> QED
    BY <1>1, <1>2, <1>3, <2>1 DEF EditInv
<1>6. CASE Validate
  <2>1. edits' = edits /\ content' = content /\ content = original /\ phase = "collect"
    BY <1>1, <1>6 DEF Validate
  <2>2. D \in Seq(Suggestions) /\ n \in Nat
    BY <1>1, InOrderFacts
  <2>3. CASE Valid(original, edits) /\ phase' = "apply" /\ pending' = Sorted(edits, FromTheEnd)
    <3>1. D' = D
      BY <2>1 DEF InOrder
    <3>2. pending' = D
      BY <2>3 DEF InOrder
    <3> HIDE DEF D
    <3>3. SubSeq(D, 0 + 1, n) = D /\ SubSeq(D, 1, 0) = <<>> /\ 0 \in 0..n
      BY <2>2
    <3>4. AllAtOnce(original, <<>>) = original
      BY <1>1, NoEdits DEF Text
    <3>5. Applied'
      BY <1>2, <2>1, <2>3, <3>1, <3>2, <3>3, <3>4 DEF Applied, D
    <3> QED
      BY <1>1, <1>2, <1>3, <2>1, <2>2, <2>3, <3>2, <3>5 DEF EditInv
  <2>4. CASE ~Valid(original, edits) /\ phase' = "refused" /\ pending' = pending
    <3>1. ~Valid(original, edits)'
      BY <1>2, <2>1, <2>4
    <3> QED
      BY <1>1, <1>2, <1>3, <2>1, <2>4, <3>1 DEF EditInv
  <2> QED
    BY <1>6, <2>3, <2>4 DEF Validate
<1>7. CASE ApplyEdit
  <2> DEFINE e == Head(pending)
  <2>1. /\ phase = "apply" /\ pending # <<>> /\ edits' = edits
        /\ D' = D /\ (InsertsComeLater' <=> InsertsComeLater)
        /\ (Valid(original, edits)' <=> Valid(original, edits))
    BY <1>2, <1>7 DEF ApplyEdit, InOrder, InsertsComeLater
  <2>2. e \in Suggestions /\ Tail(pending) \in Seq(Suggestions) /\ IsEdit(e)
    BY <1>1, <2>1, SuggestionsAreEdits
  <2>3. ASSUME Valid(original, edits), InsertsComeLater
        PROVE  /\ ValidRange(content, e)
               /\ \E r \in 0..n : /\ Tail(pending) = SubSeq(D, r + 1, n)
                                  /\ Spliced(content, e) = AllAtOnce(original, SubSeq(D, 1, r))
    <3>1. PICK r \in 0..n : /\ pending = SubSeq(D, r + 1, n)
                            /\ content = AllAtOnce(original, SubSeq(D, 1, r))
      BY <1>1, <2>1, <2>3 DEF Applied
    <3>2. PICK E : /\ Fitting(E, DOMAIN Width, Len(original)) /\ D \in Seq(E) /\ Apart(D)
                   /\ \A i, j \in 1..n : i < j => D[i].start >= D[j].end
                   /\ \A d \in E : ValidRange(original, d)
      BY <1>1, <2>3, AcceptedFacts
    <3> HIDE DEF D
    <3>3. r \in Nat /\ r < n /\ e = D[r + 1] /\ D[r + 1] \in E
      BY <2>1, <3>1, <3>2
    <3>4. Tail(pending) = SubSeq(D, (r + 1) + 1, n) /\ r + 1 \in 0..n
      BY <3>1, <3>2, <3>3
    <3> HIDE DEF e
    <3>5. /\ ValidRange(AllAtOnce(original, SubSeq(D, 1, r)), D[r + 1])
          /\ Spliced(AllAtOnce(original, SubSeq(D, 1, r)), D[r + 1])
               = AllAtOnce(original, SubSeq(D, 1, r + 1))
      BY <1>1, <3>1, <3>2, <3>3, NextEdit
    <3> QED
      BY <3>1, <3>3, <3>4, <3>5
  <2>4. CASE /\ ValidRange(content, e)
             /\ content' = Spliced(content, e) /\ pending' = Tail(pending) /\ phase' = phase
    <3>1. Text(content')
      BY <1>1, <2>2, <2>4, SplicedIsWhole DEF IsEdit
    <3>2. Valid(original, edits) /\ InsertsComeLater => Applied'
      BY <1>2, <2>1, <2>3, <2>4 DEF Applied
    <3> QED
      BY <1>1, <1>2, <1>3, <2>1, <2>2, <2>4, <3>1, <3>2 DEF EditInv
  <2>5. CASE /\ ~ValidRange(content, e) /\ phase' = "refused"
             /\ content' = content /\ pending' = pending
    <3>1. ~(Valid(original, edits) /\ InsertsComeLater)
      BY <2>3, <2>5
    <3> QED
      BY <1>1, <1>2, <1>3, <2>1, <2>5, <3>1 DEF EditInv
  <2> QED
    BY <1>7, <2>4, <2>5 DEF ApplyEdit
<1>8. CASE Prepared
  <2>1. /\ phase = "apply" /\ pending = <<>> /\ phase' = "done"
        /\ UNCHANGED <<original, edits, pending, content>>
    BY <1>8 DEF Prepared
  <2>2. /\ D' = D /\ (InsertsComeLater' <=> InsertsComeLater)
        /\ (Valid(original, edits)' <=> Valid(original, edits))
    BY <2>1 DEF InOrder, InsertsComeLater
  <2>3. Valid(original, edits) /\ InsertsComeLater => Applied'
    BY <1>1, <2>1, <2>2 DEF Applied
  <2> QED
    BY <1>1, <1>2, <1>3, <2>1, <2>2, <2>3 DEF EditInv
<1> QED
  BY <1>4, <1>5, <1>6, <1>7, <1>8 DEF Next

(* Simultaneous follows from it.                                           *)
LEMMA EditsEnd == EditInv => Simultaneous
<1> SUFFICES ASSUME EditInv PROVE Simultaneous
  OBVIOUS
<1>1. WellFormed(content)
  BY DEF EditInv, Text
<1>2. ASSUME phase \in {"apply", "done", "refused"}, Valid(original, edits), InsertsComeLater
      PROVE  phase # "refused" /\ (phase = "done" => content = AllAtOnce(original, edits))
  <2>1. Applied
    BY <1>2 DEF EditInv
  <2>2. PICK E : InOrder \in Seq(E) /\ AllAtOnce(original, InOrder) = AllAtOnce(original, edits)
    BY <1>2, AcceptedFacts DEF EditInv
  <2> DEFINE D == InOrder
             n == Len(D)
  <2>3. ASSUME phase = "done"
        PROVE  content = AllAtOnce(original, edits)
    <3>1. PICK r \in 0..n : pending = SubSeq(D, r + 1, n) /\ content = AllAtOnce(original, SubSeq(D, 1, r))
      BY <2>1 DEF Applied
    <3>2. pending = <<>>
      BY <2>3 DEF EditInv
    <3> HIDE DEF D
    <3>3. r = n
      <4>1. n \in Nat /\ D \in Seq(E) /\ r + 1 \in Nat /\ r <= n
        BY <2>2 DEF D
      <4>2. Len(SubSeq(D, r + 1, n)) = IF r + 1 <= n THEN n - r ELSE 0
        BY <4>1
      <4>3. Len(SubSeq(D, r + 1, n)) = 0
        <5>1. SubSeq(D, r + 1, n) = <<>>
          BY <3>1, <3>2
        <5>2. Len(<<>>) = 0
          OBVIOUS
        <5> QED
          BY <5>1, <5>2, Zenon
      <4> QED
        BY <4>1, <4>2, <4>3
    <3>4. SubSeq(D, 1, n) = D
      BY <2>2 DEF D
    <3> QED
      BY <2>2, <3>1, <3>3, <3>4 DEF D
  <2> QED
    BY <2>1, <2>3 DEF Applied
<1> QED
  BY <1>1, <1>2 DEF Simultaneous

(* Edits that validate_edits accepts, applied one after the other from the *)
(* end, do what they do all at once; the second look at a range never      *)
(* refuses one, and no step in between cuts a character in two             *)
(* (src/remediation.rs: validate_edits, apply_edits), for any text, any    *)
(* list and any length of it.                                              *)
THEOREM EditsAreSimultaneous == Spec => []Simultaneous
  BY EditStarts, EditStep, EditsEnd, PTL DEF Spec

-----------------------------------------------------------------------------
(* Positions                                                               *)

(* A sum over more, and of more.                                           *)
LEMMA SumsGrow ==
  ASSUME NEW T, IsFiniteSet(T), NEW S \in SUBSET T, S # T, NEW g, NEW h,
         \A k \in T : h[k] \in Nat \ {0}, \A k \in S : g[k] = h[k]
  PROVE  SumOver(g, S) \in Nat /\ SumOver(h, T) \in Nat /\ SumOver(g, S) < SumOver(h, T)
<1> DEFINE some == [k \in T |-> IF k \in S THEN h[k] ELSE 0]
           rest == [k \in T |-> IF k \in S THEN 0 ELSE h[k]]
<1>1. IsFiniteSet(S) /\ S \in SUBSET S /\ T \in SUBSET T
  BY FS_Subset
<1>2. /\ \A k \in T : some[k] \in Nat /\ rest[k] \in Nat /\ h[k] \in Nat /\ h[k] = some[k] + rest[k]
      /\ \A k \in S : some[k] = g[k] /\ g[k] \in Nat
      /\ \A k \in T \ S : some[k] = 0
      /\ \E x \in T : rest[x] # 0
  OBVIOUS
<1> HIDE DEF some, rest
<1>3. SumOver(some, T) = SumOver(some, S)
  BY <1>2, SumsCompare
<1>4. SumOver(some, S) = SumOver(g, S)
  <2>1. \A k \in S : some[k] \in Nat /\ g[k] \in Nat /\ some[k] = g[k]
    BY <1>2
  <2> QED
    BY <1>1, <2>1, SumsCompare
<1>5. SumOver(h, T) = SumOver(some, T) + SumOver(rest, T)
  BY <1>1, <1>2, SumsAdd
<1>6. SumOver(rest, T) # 0
  <2>1. \A k \in T : rest[k] \in Nat /\ rest[k] \in Nat
    BY <1>2
  <2>2. SumOver(rest, T) = 0 <=> \A k \in T : rest[k] = 0
    BY <2>1, SumsCompare
  <2> QED
    BY <1>2, <2>2
<1>7. SumOver(some, T) \in Nat /\ SumOver(rest, T) \in Nat
  BY <1>1, <1>2, SumFacts
<1> QED
  BY <1>3, <1>4, <1>5, <1>6, <1>7

(* A text that goes on with another character is longer in all encodings.  *)
LEMMA UnitsGrow ==
  ASSUME NEW s \in Seq(DOMAIN Width), NEW t \in Seq(DOMAIN Width), Len(s) < Len(t),
         \A k \in 1..Len(s) : s[k] = t[k], Width[t[Len(s) + 1]] # 0, NEW encoding \in Encodings
  PROVE  /\ EncodedUnits(s, encoding) \in Nat /\ EncodedUnits(t, encoding) \in Nat
         /\ EncodedUnits(s, encoding) < EncodedUnits(t, encoding)
<1> DEFINE S == Starts(s)
           T == Starts(t)
           x == Len(s) + 1
           units(text) == [k \in DOMAIN text |-> IF Width[text[k]] = 4 THEN 2 ELSE 1]
           g == units(s)
           h == units(t)
<1>1. S = {k \in 1..Len(s) : Width[s[k]] # 0} /\ T = {k \in 1..Len(t) : Width[t[k]] # 0}
      /\ Len(s) \in Nat /\ Len(t) \in Nat
  BY DEF Starts
<1>2. S \in SUBSET T /\ x \in T \ S
  BY <1>1
<1>3. IsFiniteSet(T) /\ IsFiniteSet(S)
  <2>1. IsFiniteSet(1..Len(t))
    BY <1>1, FS_Interval
  <2>2. T \subseteq 1..Len(t)
    BY <1>1
  <2> QED
    BY <1>2, <2>1, <2>2, FS_Subset
<1>4. /\ \A k \in T : h[k] \in Nat \ {0}
      /\ \A k \in S : g[k] = h[k]
  BY <1>1
<1>5. CASE encoding = "utf-8"
  BY <1>1, <1>5 DEF EncodedUnits
<1>6. CASE encoding = "utf-16"
  <2>1. EncodedUnits(s, encoding) = SumOver(g, S) /\ EncodedUnits(t, encoding) = SumOver(h, T)
    BY <1>6 DEF EncodedUnits, SumOver
  <2> HIDE DEF g, h, S, T, x
  <2> QED
    <3>1. S # T
      BY <1>2
    <3>2. SumOver(g, S) \in Nat /\ SumOver(h, T) \in Nat /\ SumOver(g, S) < SumOver(h, T)
      BY <1>2, <1>3, <1>4, <3>1, SumsGrow
    <3> QED
      BY <2>1, <3>2
<1>7. CASE encoding = "utf-32"
  <2>1. EncodedUnits(s, encoding) = Cardinality(S) /\ EncodedUnits(t, encoding) = Cardinality(T)
    BY <1>7 DEF EncodedUnits
  <2> HIDE DEF S, T
  <2>2. Cardinality(S) \in Nat /\ Cardinality(T) \in Nat
    BY <1>3, FS_CardinalityType
  <2>3. Cardinality(S) < Cardinality(T)
    <3>1. S \subseteq T /\ S # T
      BY <1>2
    <3>2. Cardinality(S) <= Cardinality(T) /\ (Cardinality(S) = Cardinality(T) => S = T)
      BY <1>3, <3>1, FS_Subset
    <3> QED
      BY <2>2, <3>1, <3>2
  <2> QED
    BY <2>1, <2>2, <2>3
<1> QED
  BY <1>5, <1>6, <1>7 DEF Encodings

(* The length of a text is a number in all of them.                        *)
LEMMA UnitsAreNat ==
  ASSUME NEW s \in Seq(DOMAIN Width), NEW encoding \in Encodings
  PROVE  EncodedUnits(s, encoding) \in Nat
<1> DEFINE t == Append(s, Newline)
<1>1. /\ t \in Seq(DOMAIN Width) /\ Len(s) \in Nat /\ Len(t) = Len(s) + 1
      /\ \A k \in 1..Len(s) : s[k] = t[k]
      /\ t[Len(s) + 1] = Newline
  BY LanguageServerAssumption
<1>2. Len(s) < Len(t) /\ Width[t[Len(s) + 1]] # 0
  BY <1>1, LanguageServerAssumption
<1> HIDE DEF t
<1> QED
  BY <1>1, <1>2, UnitsGrow

(* How many members a set of numbers has up to one.                        *)
CountTo(B, x) == Cardinality({k \in B : k <= x})

(* How many members of a set of numbers there are up to one of them, or    *)
(* none, tells which.                                                      *)
LEMMA CountsTell ==
  ASSUME NEW B, IsFiniteSet(B), B \subseteq Nat \ {0}, NEW p \in {0} \cup B, NEW q \in {0} \cup B,
         CountTo(B, p) = CountTo(B, q)
  PROVE  p = q
<1> DEFINE Upto(x) == {k \in B : k <= x}
<1>1. \A x : IsFiniteSet(Upto(x)) /\ Cardinality(Upto(x)) \in Nat
  <2> TAKE x
  <2>1. Upto(x) \subseteq B
    OBVIOUS
  <2> HIDE DEF Upto
  <2> QED
    BY <2>1, FS_Subset, FS_CardinalityType
<1>2. ASSUME NEW x \in {0} \cup B, NEW y \in {0} \cup B, x < y
      PROVE  Cardinality(Upto(x)) # Cardinality(Upto(y))
  <2>1. y \in B /\ x \in Nat /\ y \in Nat
    BY <1>2
  <2>2. Upto(x) \subseteq Upto(y)
    <3> SUFFICES ASSUME NEW k \in B, k <= x
                 PROVE  k <= y
      OBVIOUS
    <3>1. k \in Nat
      OBVIOUS
    <3> QED
      BY <1>2, <2>1, <3>1
  <2>3. y \in Upto(y) /\ y \notin Upto(x)
    BY <1>2, <2>1
  <2> HIDE DEF Upto
  <2>4. Cardinality(Upto(x)) = Cardinality(Upto(y)) => Upto(x) = Upto(y)
    BY <1>1, <2>2, FS_Subset
  <2> QED
    BY <2>3, <2>4
<1>3. p \in Nat /\ q \in Nat
  OBVIOUS
<1>4. p = q \/ p < q \/ q < p
  BY <1>3
<1>5. Cardinality(Upto(p)) = Cardinality(Upto(q))
  BY DEF CountTo
<1> HIDE DEF Upto
<1> QED
  BY <1>2, <1>4, <1>5

(* Where the line of a place starts.                                       *)
LineStart(text, o) == Max({0} \cup {k \in 1..o : text[k] = Newline})

(* The line of a place starts after the last newline before it.            *)
LEMMA LineStartFacts ==
  ASSUME NEW text, NEW o \in Nat
  PROVE  /\ LineStart(text, o) \in 0..o
         /\ LineStart(text, o) # 0 => text[LineStart(text, o)] = Newline
         /\ \A k \in 1..o : text[k] = Newline => k <= LineStart(text, o)
<1> DEFINE s == {0} \cup {k \in 1..o : text[k] = Newline}
<1>1. s \subseteq 0..o /\ s # {} /\ s \subseteq Int
  OBVIOUS
<1>2. IsFiniteSet(s)
  <2>1. IsFiniteSet(0..o)
    BY FS_Interval
  <2> HIDE DEF s
  <2> QED
    BY <1>1, <2>1, FS_Subset
<1>3. \A k : k \in s <=> k = 0 \/ (k \in 1..o /\ text[k] = Newline)
  OBVIOUS
<1>4. LineStart(text, o) = Max(s)
  BY DEF LineStart
<1> HIDE DEF s
<1>5. Max(s) \in s /\ \A x \in s : x <= Max(s)
  BY <1>1, <1>2, Extremes
<1> QED
  BY <1>1, <1>3, <1>4, <1>5

(* A client takes the position of a place for that place, in every         *)
(* encoding, if no return before it stands without its newline.            *)
LEMMA PositionsReturn ==
  ASSUME NEW text, Text(text), NEW o \in 0..Len(text), IsCharBoundary(text, o),
         \A j \in 1..o : text[j] = Return => j < o /\ text[j + 1] = Newline,
         NEW encoding \in Encodings
  PROVE  ClientOffset(text, OffsetPosition(text, o, encoding), encoding) = o
<1> DEFINE n == Len(text)
           L == LineStart(text, o)
           B == {k \in DOMAIN text : \/ text[k] = Newline
                                     \/ text[k] = Return /\ (k < Len(text) => text[k + 1] # Newline)}
           line == Cardinality({k \in 1..o : text[k] = Newline})
           character == EncodedUnits(Slice(text, L, o), encoding)
           position == OffsetPosition(text, o, encoding)
           start == CHOOSE p \in {0} \cup B : Cardinality({k \in B : k <= p}) = line
           ends == {Len(text)} \cup {k - 1 : k \in {j \in DOMAIN text :
                       j > start /\ text[j] \in {Newline, Return}}}
           stop == Min(ends)
           fits == {p \in start..stop : /\ IsCharBoundary(text, p)
                                        /\ EncodedUnits(Slice(text, start, p), encoding) <= character}
<1>1. /\ text \in Seq(DOMAIN Width) /\ n \in Nat /\ DOMAIN text = 1..n /\ o \in Nat /\ o <= n
      /\ Newline # Return
  BY LanguageServerAssumption DEF Text
<1>2. position.line = line /\ position.character = character
  BY DEF OffsetPosition, LineStart
<1>3. ClientOffset(text, position, encoding) = Max(fits)
  BY <1>2 DEF ClientOffset
<1>4. /\ L \in 0..o
      /\ L # 0 => text[L] = Newline
      /\ \A k \in 1..o : text[k] = Newline => k <= L
  BY <1>1, LineStartFacts
<1>5. \A k : k \in B <=> k \in 1..n /\ (\/ text[k] = Newline
                                        \/ text[k] = Return /\ (k < n => text[k + 1] # Newline))
  BY <1>1
<1>6. B \subseteq Nat \ {0} /\ IsFiniteSet(B)
  <2>1. B \subseteq 1..n
    BY <1>5
  <2>2. IsFiniteSet(1..n)
    BY <1>1, FS_Interval
  <2> HIDE DEF B, n
  <2>3. \A k \in 1..n : k \in Nat \ {0}
    BY <1>1
  <2> QED
    BY <2>1, <2>2, <2>3, FS_Subset
<1> HIDE DEF n, L, B
<1>7. \A k \in B : k <= o => text[k] = Newline
  <2> SUFFICES ASSUME NEW k \in B, k <= o, text[k] # Newline
               PROVE  FALSE
    OBVIOUS
  <2>1. k \in 1..o /\ text[k] = Return /\ (k < n => text[k + 1] # Newline)
    BY <1>1, <1>5
  <2>2. k < o /\ text[k + 1] = Newline
    BY <2>1
  <2> QED
    BY <1>1, <2>1, <2>2
<1>8. {k \in B : k <= L} = {k \in 1..o : text[k] = Newline}
  <2>1. ASSUME NEW k \in B, k <= L
        PROVE  k \in 1..o /\ text[k] = Newline
    <3>1. k \in 1..n /\ k <= o
      BY <1>1, <1>4, <1>5, <2>1
    <3> QED
      BY <1>1, <1>7, <3>1
  <2>2. ASSUME NEW k \in 1..o, text[k] = Newline
        PROVE  k \in B /\ k <= L
    <3>1. k \in 1..n
      BY <1>1
    <3> QED
      BY <1>4, <1>5, <2>2, <3>1
  <2> QED
    BY <2>1, <2>2
<1>9. L \in {0} \cup B /\ L \in Nat
  <2>1. L \in Nat /\ (L # 0 => L \in 1..n)
    BY <1>1, <1>4
  <2> QED
    BY <1>4, <1>5, <2>1
<1>10. start = L
  <2>1. L \in {0} \cup B /\ CountTo(B, L) = line
    BY <1>8, <1>9 DEF CountTo
  <2>2. start \in {0} \cup B /\ CountTo(B, start) = line
    BY <2>1 DEF CountTo
  <2> HIDE DEF start, line
  <2> QED
    BY <1>6, <2>1, <2>2, CountsTell
<1> HIDE DEF start, line, position
(* No line ends between the start of the line and the place.               *)
<1>11. \A j \in 1..n : j > L /\ text[j] \in {Newline, Return} => o <= j - 1
  <2> SUFFICES ASSUME NEW j \in 1..n, j > L, text[j] \in {Newline, Return}, ~(o <= j - 1)
               PROVE  FALSE
    OBVIOUS
  <2>1. j \in 1..o /\ j \in Nat
    BY <1>1
  <2>2. text[j] # Newline
    BY <1>4, <1>9, <2>1
  <2>3. j < o /\ text[j + 1] = Newline
    BY <2>1, <2>2
  <2>4. j + 1 \in 1..o
    BY <1>1, <2>1, <2>3
  <2>5. j + 1 <= L
    BY <1>4, <2>3, <2>4
  <2> QED
    BY <1>9, <2>1, <2>5
<1>12. stop \in Int /\ o <= stop /\ stop <= n
  <2>1. \A x : x \in ends <=> x = n \/ \E j \in 1..n : j > L /\ text[j] \in {Newline, Return} /\ x = j - 1
    BY <1>1, <1>10 DEF n
  <2>2. \A x \in ends : x \in 0..n /\ o <= x
    <3> SUFFICES ASSUME NEW x \in ends PROVE x \in 0..n /\ o <= x
      OBVIOUS
    <3> HIDE DEF ends
    <3>1. CASE x = n
      BY <1>1, <3>1
    <3>2. CASE \E j \in 1..n : j > L /\ text[j] \in {Newline, Return} /\ x = j - 1
      <4>1. PICK j \in 1..n : j > L /\ text[j] \in {Newline, Return} /\ x = j - 1
        BY <3>2
      <4>2. o <= j - 1
        BY <1>11, <4>1
      <4> QED
        BY <1>1, <4>1, <4>2
    <3> QED
      BY <2>1, <3>1, <3>2
  <2>3. n \in ends
    BY <2>1
  <2> HIDE DEF ends
  <2>4. ends \subseteq 0..n /\ ends \subseteq Int /\ ends # {}
    BY <2>2, <2>3
  <2>5. IsFiniteSet(0..n)
    BY <1>1, FS_Interval
  <2>6. IsFiniteSet(ends)
    BY <2>4, <2>5, FS_Subset
  <2>7. Min(ends) \in ends /\ Min(ends) <= n
    BY <2>3, <2>4, <2>6, Extremes
  <2> QED
    BY <1>1, <2>2, <2>7
<1> HIDE DEF ends, stop
(* From the start of the line, farther is more units.                      *)
<1>13. ASSUME NEW p \in Nat, o < p, p <= n, IsCharBoundary(text, p)
       PROVE  ~(EncodedUnits(Slice(text, L, p), encoding) <= character)
  <2> DEFINE s == Slice(text, L, o)
             t == Slice(text, L, p)
  <2>1. L \in Nat /\ L <= o /\ L <= p
    BY <1>1, <1>4, <1>13
  <2>2. /\ s \in Seq(DOMAIN Width) /\ Len(s) = o - L
        /\ \A k \in 1..(o - L) : s[k] = text[L + k]
    BY <1>1, <2>1, SliceFacts DEF n
  <2>3. /\ t \in Seq(DOMAIN Width) /\ Len(t) = p - L
        /\ \A k \in 1..(p - L) : t[k] = text[L + k]
    BY <1>1, <1>13, <2>1, SliceFacts DEF n
  <2>4. Width[text[o + 1]] # 0
    <3>1. o # n
      BY <1>1, <1>13
    <3>2. CASE o = 0
      <4>1. 1 \in 1..n
        BY <1>1, <1>13, <3>2
      <4>2. Width[text[1]] # 0
        <5>1. WellFormed(text)
          BY DEF Text
        <5>2. (Width[text[1]] = 0) <=> (\E j \in 1..(1 - 1) : j + Width[text[j]] > 1)
          BY <4>1, <5>1 DEF WellFormed, n
        <5>3. \A j \in 1..(1 - 1) : FALSE
          OBVIOUS
        <5> QED
          BY <5>2, <5>3
      <4> QED
        BY <3>2, <4>2
    <3>3. CASE o # 0
      BY <3>1, <3>3 DEF IsCharBoundary, n
    <3> QED
      BY <3>2, <3>3
  <2> HIDE DEF s, t
  <2>5. Len(s) < Len(t) /\ L + (Len(s) + 1) = o + 1 /\ Len(s) + 1 \in 1..(p - L) /\ Len(s) \in Nat
    BY <1>1, <1>13, <2>1, <2>2, <2>3
  <2>6. \A k \in 1..Len(s) : s[k] = t[k]
    <3> TAKE k \in 1..Len(s)
    <3>1. k \in 1..(o - L) /\ k \in 1..(p - L)
      BY <1>1, <1>13, <2>1, <2>2, <2>5
    <3> QED
      BY <2>2, <2>3, <3>1
  <2>7. Width[t[Len(s) + 1]] # 0
    BY <2>3, <2>4, <2>5
  <2>8. /\ EncodedUnits(s, encoding) \in Nat /\ EncodedUnits(t, encoding) \in Nat
        /\ EncodedUnits(s, encoding) < EncodedUnits(t, encoding)
    BY <2>2, <2>3, <2>5, <2>6, <2>7, UnitsGrow
  <2> QED
    BY <2>8 DEF s, t
<1>14. o \in fits
  <2>1. o \in start..stop
    BY <1>1, <1>4, <1>10, <1>12
  <2>2. EncodedUnits(Slice(text, start, o), encoding) <= character
    <3>1. character \in Nat
      <4>1. L \in Nat /\ L <= o
        BY <1>1, <1>4
      <4>2. Slice(text, L, o) \in Seq(DOMAIN Width)
        BY <1>1, <4>1, SliceFacts DEF n
      <4> QED
        BY <4>2, UnitsAreNat
    <3> QED
      BY <1>10, <3>1
  <2> QED
    BY <2>1, <2>2
<1>15. \A p \in fits : p \in Int /\ p <= o
  <2> SUFFICES ASSUME NEW p \in fits, ~(p <= o)
               PROVE  FALSE
    BY <1>1, <1>4, <1>10, <1>12
  <2>1. p \in Nat /\ o < p /\ p <= n
    BY <1>1, <1>4, <1>10, <1>12
  <2>2. IsCharBoundary(text, p) /\ EncodedUnits(Slice(text, L, p), encoding) <= character
    BY <1>10
  <2> QED
    BY <1>13, <2>1, <2>2
<1>16. Max(fits) = o
  <2>1. \A p \in fits : o >= p
    BY <1>1, <1>15
  <2> HIDE DEF fits
  <2>2. Max(fits) = CHOOSE x \in fits : \A y \in fits : x >= y
    BY DEF Max
  <2>3. \A x \in fits : (\A y \in fits : x >= y) => x = o
    BY <1>1, <1>14, <1>15
  <2> QED
    BY <1>14, <2>1, <2>2, <2>3
<1> QED
  BY <1>3, <1>16 DEF position

(* What edits do all at once is all in their ranges and texts.             *)
LEMMA SameEdits ==
  ASSUME NEW text, NEW list, NEW other, DOMAIN list = DOMAIN other,
         \A i \in DOMAIN list : /\ list[i].start = other[i].start /\ list[i].end = other[i].end
                                /\ list[i].new = other[i].new
  PROVE  AllAtOnce(text, list) = AllAtOnce(text, other)
<1>1. ASSUME NEW k, NEW empty
      PROVE  PutIn(list, k, empty) = PutIn(other, k, empty)
  <2> DEFINE Here(l) == {i \in DOMAIN l : l[i].start = k /\ (l[i].end = k) = empty}
             before == Here(list)
             after == Here(other)
             In(l, h) == IF h = {} THEN <<>> ELSE l[CHOOSE i \in h : TRUE].new
  <2>1. /\ PutIn(list, k, empty) = In(list, before)
        /\ PutIn(other, k, empty) = In(other, after)
    BY DEF PutIn
  <2>2. before = after
    OBVIOUS
  <2>3. before # {} => (CHOOSE i \in before : TRUE) \in DOMAIN list
    OBVIOUS
  <2> HIDE DEF before, after
  <2> QED
    BY <2>1, <2>2, <2>3
<1>2. \A k : Covered(list, k) <=> Covered(other, k)
  BY DEF Covered
<1>3. \A p \in 1..(Len(text) + 1) : PieceOf(text, list, p) = PieceOf(text, other, p)
  <2> TAKE p \in 1..(Len(text) + 1)
  <2>1. /\ PutIn(list, p - 1, TRUE) = PutIn(other, p - 1, TRUE)
        /\ PutIn(list, p - 1, FALSE) = PutIn(other, p - 1, FALSE)
    BY <1>1
  <2>2. Covered(list, p - 1) <=> Covered(other, p - 1)
    BY <1>2
  <2> QED
    BY <2>1, <2>2, Zenon DEF PieceOf
<1>4. Pieces(text, list) = Pieces(text, other)
  BY <1>3 DEF Pieces
<1> QED
  BY <1>4, PiecesAre

(* A list in the order of its spans.                                       *)
LEMMA SpansFacts ==
  ASSUME NEW E, \A e \in E : e.start \in Nat /\ e.end \in Nat, NEW list \in Seq(E)
  PROVE  /\ Sorted(list, SpanBefore) \in Seq(E)
         /\ \E place : Rearranges(Sorted(list, SpanBefore), list, place)
         /\ \A r, s \in 1..Len(list) : r < s =>
              Sorted(list, SpanBefore)[r].start <= Sorted(list, SpanBefore)[s].start
<1> DEFINE n == Len(list)
           N == 1..n
           R == BySpan(list)
           place == Places(n, R)
           S == Sorted(list, SpanBefore)
<1>1. n \in Nat /\ DOMAIN list = N /\ \A i \in N : list[i] \in E
  OBVIOUS
<1>3. /\ Orders(R, n)
      /\ \A i, j \in N : <<i, j>> \in R <=>
           \/ list[i].start < list[j].start
           \/ list[i].start = list[j].start /\ list[i].end < list[j].end
           \/ list[i].start = list[j].start /\ list[i].end = list[j].end /\ i < j
      /\ S = [r \in N |-> list[place[r]]]
  BY SortedBySpan
<1>4. /\ place \in [N -> N]
      /\ \A i \in N : \E r \in N : place[r] = i
      /\ \A r, s \in N : r < s <=> <<place[r], place[s]>> \in R
  BY <1>1, <1>3, PlacesFacts
<1>5. /\ \A i \in N : <<i, i>> \notin R
      /\ \A r, s \in N : r # s => r < s \/ s < r
  BY <1>1, <1>3 DEF Orders
<1> HIDE DEF R, place, S
<1>6. \A r, s \in N : r # s => place[r] # place[s]
  <2> SUFFICES ASSUME NEW r \in N, NEW s \in N, r < s, place[r] = place[s]
               PROVE  FALSE
    BY <1>5
  <2>1. place[r] \in N /\ <<place[r], place[s]>> \in R
    BY <1>4
  <2> QED
    BY <1>5, <2>1
<1>7. S \in Seq(E) /\ Len(S) = Len(list) /\ \A r \in 1..Len(list) : S[r] = list[place[r]]
  <2>1. \A r \in N : list[place[r]] \in E
    BY <1>1, <1>4
  <2>2. [r \in N |-> list[place[r]]] \in Seq(E)
    BY <1>1, <2>1
  <2> HIDE DEF n, N
  <2>3. Len([r \in N |-> list[place[r]]]) = n
    BY <1>1 DEF N
  <2>4. \A r \in N : S[r] = list[place[r]]
    BY <1>3
  <2> QED
    BY <1>3, <2>2, <2>3, <2>4 DEF n, N
<1>8. Rearranges(S, list, place)
  BY <1>4, <1>6, <1>7 DEF Rearranges
<1> HIDE DEF n, N
<1>9. ASSUME NEW r \in N, NEW s \in N, r < s
      PROVE  S[r].start <= S[s].start
  <2> DEFINE i == place[r]
             j == place[s]
  <2>1. i \in N /\ j \in N /\ S[r] = list[i] /\ S[s] = list[j] /\ <<i, j>> \in R
    BY <1>4, <1>7, <1>9 DEF N, n
  <2> HIDE DEF i, j
  <2>2. list[i].start < list[j].start \/ list[i].start = list[j].start
    BY <1>3, <2>1
  <2>3. list[i].start \in Nat /\ list[j].start \in Nat
    BY <1>1, <2>1
  <2>4. list[i].start <= list[j].start
    BY <2>2, <2>3
  <2> QED
    BY <2>1, <2>4
<1> QED
  BY <1>7, <1>8, <1>9 DEF S, n, N

(* What the adapter offers, validate_edits accepts, and no two of its      *)
(* edits start together.                                                   *)
LEMMA OfferedIsValid ==
  ASSUME NEW text, NEW E, \A e \in E : e.start \in Nat /\ e.end \in Nat, NEW list \in Seq(E),
         NEW machine, Offered(text, list, machine)
  PROVE  /\ Valid(text, list)
         /\ \A i, j \in DOMAIN list : i # j => list[i].start # list[j].start
<1> DEFINE S == Sorted(list, SpanBefore)
           n == Len(list)
<1>1. S \in Seq(E) /\ n \in Nat /\ DOMAIN list = 1..n
  BY SpansFacts
<1>2. PICK place : Rearranges(S, list, place)
  BY SpansFacts
<1>3. \A r, s \in 1..n : r < s => S[r].start <= S[s].start
  BY SpansFacts
<1>4. /\ Len(S) = n /\ \A r \in 1..n : S[r] = list[place[r]] /\ place[r] \in 1..n
      /\ \A i \in 1..n : \E r \in 1..n : place[r] = i
  BY <1>2 DEF Rearranges
<1>5. /\ \A i \in DOMAIN list : ValidRange(text, list[i]) /\ Fresh(text, list[i])
      /\ \A i \in 1..(n - 1) : ~Overlaps(S[i], S[i + 1])
  BY <1>4 DEF Offered, ValidEdit, ValidNonOverlapping
<1>6. \A r \in 1..n : S[r].start \in Nat /\ S[r].end \in Nat
  BY <1>1, <1>4
<1> HIDE DEF S, n
<1>7. \A i \in 1..(n - 1) : i \in 1..n /\ i + 1 \in 1..n /\ i < i + 1
  BY <1>1
<1>8. \A i \in 1..(n - 1) : ~Clash(S[i], S[i + 1]) /\ S[i].start < S[i + 1].start
  <2> TAKE i \in 1..(n - 1)
  <2>1. /\ S[i].start \in Nat /\ S[i].end \in Nat /\ S[i + 1].start \in Nat /\ S[i + 1].end \in Nat
        /\ S[i].start <= S[i + 1].start
    BY <1>3, <1>6, <1>7
  <2>2. ~(S[i + 1].start < S[i].end) /\ S[i + 1].start # S[i].start
    BY <1>5 DEF Overlaps
  <2> QED
    BY <2>1, <2>2 DEF Clash
<1>9. Valid(text, list)
  BY <1>4, <1>5, <1>8 DEF Valid, S
<1>10. ASSUME NEW r \in 1..n, NEW s \in 1..n, r < s
       PROVE  S[r].start < S[s].start
  <2>1. r \in 1..(n - 1) /\ r + 1 \in 1..n /\ (r + 1 < s \/ r + 1 = s)
    BY <1>1, <1>10
  <2>2. S[r].start < S[r + 1].start
    BY <1>8, <2>1
  <2>3. S[r + 1].start <= S[s].start
    BY <1>3, <1>6, <2>1
  <2>4. S[r].start \in Nat /\ S[r + 1].start \in Nat /\ S[s].start \in Nat
    BY <1>6, <2>1
  <2> QED
    BY <2>2, <2>3, <2>4
<1>11. ASSUME NEW i \in 1..n, NEW j \in 1..n, i # j
       PROVE  list[i].start # list[j].start
  <2>1. PICK r \in 1..n, s \in 1..n : place[r] = i /\ place[s] = j
    BY <1>4
  <2>2. S[r] = list[i] /\ S[s] = list[j] /\ r # s
    BY <1>4, <1>11, <2>1
  <2>3. r < s \/ s < r
    BY <1>1, <2>2
  <2>4. S[r].start \in Nat /\ S[s].start \in Nat
    BY <1>6
  <2>5. S[r].start < S[s].start \/ S[s].start < S[r].start
    BY <1>10, <2>3
  <2>6. S[r].start # S[s].start
    BY <2>4, <2>5
  <2> QED
    BY <2>2, <2>6
<1> QED
  BY <1>1, <1>9, <1>11

(* No return up to a place stands without its newline.                     *)
LinesEnd(text, o) == \A j \in 1..o : text[j] = Return => j < o /\ text[j + 1] = Newline

(* The client does what the list says all at once.                         *)
LEMMA ClientFacts ==
  ASSUME NEW text, Text(text), NEW F, \A e \in F : IsEdit(e), NEW list \in Seq(F),
         NEW machine, Offered(text, list, machine), NEW encoding \in Encodings,
         \A i \in DOMAIN list : LinesEnd(text, list[i].start) /\ LinesEnd(text, list[i].end)
  PROVE  ClientApplies(text, TextEdits(text, list, encoding), encoding) = AllAtOnce(text, list)
<1> DEFINE S == Sorted(list, SpanBefore)
           n == Len(list)
           edited == TextEdits(text, list, encoding)
           found == [i \in DOMAIN edited |->
                      [start |-> ClientOffset(text, edited[i].start, encoding),
                       end   |-> ClientOffset(text, edited[i].end, encoding),
                       new   |-> edited[i].new]]
<1>1. n \in Nat /\ DOMAIN list = 1..n /\ \A e \in F : e.start \in Nat /\ e.end \in Nat
  BY DEF IsEdit
<1>2. S \in Seq(F)
  BY <1>1, SpansFacts
<1>3. PICK place : Rearranges(S, list, place)
  BY <1>1, SpansFacts
<1>4. Valid(text, list)
  BY <1>1, OfferedIsValid
<1>5. PICK E : /\ Fitting(E, DOMAIN Width, Len(text)) /\ list \in Seq(E) /\ Apart(list)
               /\ \A e \in E : e \in F /\ ValidRange(text, e)
  BY <1>4, ValidFacts
<1>6. Len(S) = n /\ \A r \in 1..n : S[r] = list[place[r]] /\ place[r] \in 1..n
  BY <1>3 DEF Rearranges
<1>7. ClientApplies(text, edited, encoding) = AllAtOnce(text, found)
  BY DEF ClientApplies
<1>8. /\ DOMAIN edited = 1..n
      /\ \A i \in 1..n : /\ edited[i].start = OffsetPosition(text, S[i].start, encoding)
                         /\ edited[i].end = OffsetPosition(text, S[i].end, encoding)
                         /\ edited[i].new = S[i].new
  BY <1>1 DEF TextEdits
<1> HIDE DEF S, n, edited
<1>9. \A r \in 1..n : S[r] \in F /\ S[r] \in E /\ ValidRange(text, S[r])
                      /\ LinesEnd(text, S[r].start) /\ LinesEnd(text, S[r].end)
  <2> TAKE r \in 1..n
  <2> DEFINE i == place[r]
  <2>1. i \in 1..n /\ S[r] = list[i]
    BY <1>6
  <2> HIDE DEF i
  <2>2. list[i] \in E /\ LinesEnd(text, list[i].start) /\ LinesEnd(text, list[i].end)
    BY <1>1, <1>5, <2>1
  <2>3. list[i] \in F /\ ValidRange(text, list[i])
    BY <1>5, <2>2
  <2> QED
    BY <2>1, <2>2, <2>3
<1>10. \A r \in 1..n : /\ ClientOffset(text, OffsetPosition(text, S[r].start, encoding), encoding) = S[r].start
                       /\ ClientOffset(text, OffsetPosition(text, S[r].end, encoding), encoding) = S[r].end
  <2> TAKE r \in 1..n
  <2> DEFINE from == S[r].start
             to == S[r].end
  <2>1. /\ from \in 0..Len(text) /\ to \in 0..Len(text)
        /\ IsCharBoundary(text, from) /\ IsCharBoundary(text, to)
        /\ LinesEnd(text, from) /\ LinesEnd(text, to)
    <3>1. Len(text) \in Nat
      BY DEF Text
    <3>2. IsEdit(S[r]) /\ ValidRange(text, S[r])
      BY <1>9
    <3> QED
      BY <1>9, <3>1, <3>2 DEF IsEdit, ValidRange
  <2> HIDE DEF from, to
  <2>2. /\ ClientOffset(text, OffsetPosition(text, from, encoding), encoding) = from
        /\ ClientOffset(text, OffsetPosition(text, to, encoding), encoding) = to
    BY <2>1, PositionsReturn DEF LinesEnd
  <2> QED
    BY <2>2 DEF from, to
<1>11. DOMAIN found = DOMAIN S
  BY <1>2, <1>6, <1>8
<1>12. \A i \in DOMAIN found : found[i].start = S[i].start /\ found[i].end = S[i].end /\ found[i].new = S[i].new
  BY <1>8, <1>10
<1> HIDE DEF found
<1>13. AllAtOnce(text, found) = AllAtOnce(text, S)
  BY <1>11, <1>12, SameEdits
<1>14. AllAtOnce(text, S) = AllAtOnce(text, list)
  <2> DEFINE A == DOMAIN Width
  <2>1. text \in Seq(A) /\ Fitting(E, A, Len(text))
    BY <1>5 DEF Text
  <2> HIDE DEF A
  <2>2. S \in Seq(E)
    <3>1. n \in Nat /\ S \in Seq(F) /\ Len(S) = n /\ \A r \in 1..n : S[r] \in E
      BY <1>1, <1>2, <1>6, <1>9
    <3> QED
      BY <3>1
  <2>3. Apart(list) /\ list \in Seq(E)
    BY <1>5
  <2> QED
    BY <1>3, <2>1, <2>2, <2>3, Rearranged
<1> QED
  BY <1>7, <1>13, <1>14 DEF edited

-----------------------------------------------------------------------------
(* Labels                                                                  *)

(* Every count of a set of numbers is that up to one of them, or none.     *)
LEMMA CountsReach ==
  ASSUME NEW B, IsFiniteSet(B), B \subseteq Nat \ {0}, NEW n \in 0..Cardinality(B)
  PROVE  \E k \in {0} \cup B : CountTo(B, k) = n
<1>1. CASE n = 0
  <2>1. {j \in B : j <= 0} = {}
    <3>1. \A j \in B : j \in Nat /\ j # 0
      OBVIOUS
    <3>2. \A j \in B : ~(j <= 0)
      BY <3>1
    <3> QED
      BY <3>2
  <2>2. Cardinality({j \in B : j <= 0}) = 0
    BY <2>1, FS_EmptySet
  <2> QED
    BY <1>1, <2>2 DEF CountTo
<1>2. CASE n # 0
  <2> DEFINE R == {p \in B \X B : p[1] < p[2]}
             Below(x) == {y \in B : <<y, x>> \in R}
             Upto(x) == {y \in B : y <= x}
  <2>1. \A x, y \in B : x \in Nat /\ y \in Nat /\ (<<x, y>> \in R <=> x < y)
    OBVIOUS
  <2>2. Cardinality(B) \in Nat /\ n \in 1..Cardinality(B)
    BY <1>2, FS_CardinalityType
  <2> HIDE DEF R
  <2>3. /\ \A x \in B : <<x, x>> \notin R
        /\ \A x, y, z \in B : <<x, y>> \in R /\ <<y, z>> \in R => <<x, z>> \in R
        /\ \A x, y \in B : x # y => <<x, y>> \in R \/ <<y, x>> \in R
    BY <2>1
  <2>4. PICK x \in B : Cardinality(Below(x)) = n - 1
    <3>1. \A k \in 1..Cardinality(B) : \E x \in B : Cardinality({y \in B : <<y, x>> \in R}) = k - 1
      BY <2>3, RankFacts
    <3> QED
      BY <2>2, <3>1
  <2>5. Upto(x) = Below(x) \cup {x} /\ x \notin Below(x)
    <3>1. \A y \in B : y <= x <=> <<y, x>> \in R \/ y = x
      BY <2>1
    <3>2. \A y : y \in Upto(x) <=> y \in B /\ y <= x
      OBVIOUS
    <3>3. \A y : y \in Below(x) <=> y \in B /\ <<y, x>> \in R
      OBVIOUS
    <3> HIDE DEF Upto, Below
    <3>4. \A y : y \in Upto(x) <=> y \in Below(x) \/ y = x
      BY <3>1, <3>2, <3>3
    <3>5. x \notin Below(x)
      BY <2>3, <3>3
    <3> QED
      BY <3>4, <3>5
  <2>6. IsFiniteSet(Below(x))
    <3>1. Below(x) \subseteq B
      OBVIOUS
    <3> HIDE DEF Below
    <3> QED
      BY <3>1, FS_Subset
  <2> HIDE DEF Upto, Below
  <2>7. Cardinality(Upto(x)) = Cardinality(Below(x)) + 1
    BY <2>5, <2>6, FS_AddElement
  <2>8. Cardinality(Upto(x)) = n
    BY <2>2, <2>4, <2>7
  <2> QED
    BY <2>8 DEF Upto, CountTo
<1> QED
  BY <1>1, <1>2

(* More of a set of numbers are up to a greater number.                    *)
LEMMA CountsGrow ==
  ASSUME NEW B, IsFiniteSet(B), B \subseteq Nat, NEW p \in Nat, NEW q \in Nat, p <= q
  PROVE  /\ CountTo(B, p) \in Nat /\ CountTo(B, q) \in Nat /\ CountTo(B, p) <= CountTo(B, q)
         /\ CountTo(B, p) = CountTo(B, q) => \A k \in B : k <= q => k <= p
         /\ Cardinality({k \in B : p < k /\ k <= q}) = CountTo(B, q) - CountTo(B, p)
<1> DEFINE P == {k \in B : k <= p}
           Q == {k \in B : k <= q}
           M == {k \in B : p < k /\ k <= q}
<1>1. \A k \in B : k \in Nat
  OBVIOUS
<1>2. P \subseteq Q /\ Q \subseteq B
  <2> SUFFICES ASSUME NEW k \in B, k <= p PROVE k <= q
    OBVIOUS
  <2> QED
    BY <1>1
<1>3. M = Q \ P /\ Q \cap P = P
  <2>1. \A k \in B : (p < k <=> ~(k <= p)) /\ (k <= p => k <= q)
    BY <1>1
  <2> QED
    BY <2>1
<1>4. \A k \in B : k <= q => k \in Q
  OBVIOUS
<1>5. \A k \in P : k <= p
  OBVIOUS
<1> HIDE DEF P, Q, M
<1>6. IsFiniteSet(Q)
  BY <1>2, FS_Subset
<1>7. IsFiniteSet(P) /\ Cardinality(P) <= Cardinality(Q) /\ (Cardinality(Q) = Cardinality(P) => Q = P)
  BY <1>2, <1>6, FS_Subset
<1>8. Cardinality(P) \in Nat /\ Cardinality(Q) \in Nat
  BY <1>6, <1>7, FS_CardinalityType
<1>9. Cardinality(M) = Cardinality(Q) - Cardinality(P)
  BY <1>3, <1>6, FS_Difference
<1>10. Cardinality(P) = Cardinality(Q) => \A k \in B : k <= q => k <= p
  BY <1>4, <1>5, <1>7
<1> QED
  BY <1>7, <1>8, <1>9, <1>10 DEF P, Q, M, CountTo

(* The newlines of a text.                                                 *)
LEMMA NewlinesFacts ==
  ASSUME NEW text, Text(text)
  PROVE  /\ IsFiniteSet(Newlines(text)) /\ Newlines(text) \subseteq Nat \ {0}
         /\ Cardinality(Newlines(text)) \in Nat
         /\ \A k : k \in Newlines(text) <=> k \in 1..Len(text) /\ text[k] = Newline
<1> DEFINE B == Newlines(text)
           n == Len(text)
<1>1. n \in Nat /\ DOMAIN text = 1..n
  BY DEF Text
<1>2. \A k : k \in B <=> k \in 1..n /\ text[k] = Newline
  BY <1>1 DEF Newlines
<1>3. \A k \in 1..n : k \in Nat \ {0}
  BY <1>1
<1> HIDE DEF B, n
<1>4. IsFiniteSet(1..n)
  BY <1>1, FS_Interval
<1>5. B \subseteq 1..n /\ B \subseteq Nat \ {0}
  BY <1>2, <1>3
<1>6. IsFiniteSet(B)
  BY <1>4, <1>5, FS_Subset
<1>7. Cardinality(B) \in Nat
  BY <1>6, FS_CardinalityType
<1> QED
  BY <1>2, <1>5, <1>6, <1>7 DEF B, n

(* The line after n newlines starts after the n-th, and no other newline   *)
(* is before the next.                                                     *)
LEMMA LineAtFacts ==
  ASSUME NEW text, Text(text), NEW n \in 0..Cardinality(Newlines(text))
  PROVE  /\ LineAt(text, n) \in {0} \cup Newlines(text)
         /\ CountTo(Newlines(text), LineAt(text, n)) = n
<1> DEFINE B == Newlines(text)
<1>1. IsFiniteSet(B) /\ B \subseteq Nat \ {0}
  BY NewlinesFacts
<1>2. LineAt(text, n) = CHOOSE k \in {0} \cup B : CountTo(B, k) = n
  BY DEF LineAt, CountTo
<1> HIDE DEF B
<1>3. \E k \in {0} \cup B : CountTo(B, k) = n
  <2>1. n \in 0..Cardinality(B)
    BY DEF B
  <2> QED
    BY <1>1, <2>1, CountsReach
<1> QED
  BY <1>2, <1>3 DEF B

(* Where the line after n newlines ends: before a newline, or the return   *)
(* before it, or with the text.                                            *)
EndsLine(text, b, q) ==
  /\ q \in b..Len(text)
  /\ \A k \in (b + 1)..q : text[k] # Newline
  /\ q = Len(text) \/ text[q + 1] \in {Newline, Return}
  /\ ~(q > b /\ q < Len(text) /\ text[q] = Return /\ text[q + 1] = Newline)

(* The text of a line is what is between its start and where it ends.      *)
LEMMA LineTextFacts ==
  ASSUME NEW text, Text(text), NEW n \in 0..Cardinality(Newlines(text))
  PROVE  \E q \in Nat : /\ EndsLine(text, LineAt(text, n), q)
                        /\ LineText(text, n) = Slice(text, LineAt(text, n), q)
<1> DEFINE B == Newlines(text)
           b == LineAt(text, n)
           m == Len(text)
           stop == IF n = Cardinality(B) THEN m ELSE LineAt(text, n + 1) - 1
           raw == Slice(text, b, stop)
<1>1. text \in Seq(DOMAIN Width) /\ m \in Nat
  BY DEF Text
<1>2. /\ IsFiniteSet(B) /\ B \subseteq Nat \ {0} /\ B \subseteq Nat /\ Cardinality(B) \in Nat
      /\ \A k : k \in B <=> k \in 1..m /\ text[k] = Newline
  BY NewlinesFacts
<1>3. b \in {0} \cup B /\ CountTo(B, b) = n /\ n \in Nat
  BY LineAtFacts
<1>4. LineText(text, n) = IF raw # <<>> /\ Last(raw) = Return THEN Slice(raw, 0, Len(raw) - 1) ELSE raw
  BY DEF LineText
<1>5. b \in 0..m /\ b \in Nat
  BY <1>1, <1>2, <1>3
<1>p. n \in 0..Cardinality(B)
  OBVIOUS
<1>6. /\ stop \in Nat /\ b <= stop /\ stop <= m
      /\ \A k \in B : b < k => k > stop
      /\ stop = m \/ (stop < m /\ text[stop + 1] = Newline)
  <2> HIDE DEF B, b, m
  <2>1. CASE n = Cardinality(B)
    <3>1. stop = m
      BY <2>1
    <3>2. \A k \in B : ~(b < k)
      <4>1. \A k \in B : k \in Nat /\ k <= m
        BY <1>1, <1>2
      <4>2. {j \in B : j <= m} = B
        BY <4>1
      <4>3. CountTo(B, b) = CountTo(B, m)
        BY <1>3, <2>1, <4>2 DEF CountTo
      <4>4. \A k \in B : k <= m => k <= b
        <5>1. IsFiniteSet(B) /\ B \subseteq Nat /\ b \in Nat /\ m \in Nat /\ b <= m
          BY <1>1, <1>2, <1>5
        <5> QED
          BY <4>3, <5>1, CountsGrow
      <4> QED
        BY <1>5, <4>1, <4>4
    <3> QED
      BY <1>1, <1>5, <3>1, <3>2
  <2>2. CASE n # Cardinality(B)
    <3> DEFINE e == LineAt(text, n + 1)
    <3>1. n + 1 \in 0..Cardinality(B)
      BY <1>2, <1>p, <2>2
    <3>2. e \in {0} \cup B /\ CountTo(B, e) = n + 1
      BY <3>1, LineAtFacts DEF B
    <3>3. stop = e - 1
      BY <2>2
    <3> HIDE DEF stop, e
    <3>4. e \in Nat /\ b < e
      <4>1. e \in Nat
        BY <1>2, <3>2
      <4>2. e <= b => n + 1 <= n
        <5> SUFFICES ASSUME e <= b PROVE n + 1 <= n
          OBVIOUS
        <5>1. IsFiniteSet(B) /\ B \subseteq Nat /\ b \in Nat
          BY <1>2, <1>5
        <5>2. CountTo(B, e) <= CountTo(B, b)
          BY <4>1, <5>1, CountsGrow
        <5> QED
          BY <1>3, <3>2, <5>2
      <4> QED
        BY <1>3, <1>5, <4>1, <4>2
    <3>5. e \in 1..m /\ text[e] = Newline
      BY <1>2, <1>5, <3>2, <3>4
    <3>6. \A k \in B : b < k => e <= k
      <4> SUFFICES ASSUME NEW k \in B, b < k, k < e
                   PROVE  FALSE
        BY <1>2, <3>4
      <4>1. k \in Nat
        BY <1>2
      <4> DEFINE c == CountTo(B, k)
      <4>f. IsFiniteSet(B) /\ B \subseteq Nat /\ b \in Nat /\ k \in Nat /\ e \in Nat /\ b <= k /\ k <= e
        BY <1>2, <1>5, <3>4, <4>1
      <4>2. n <= c /\ c <= n + 1 /\ c \in Nat
        <5>1. CountTo(B, b) <= c /\ c <= CountTo(B, e) /\ c \in Nat
          BY <4>f, CountsGrow
        <5> QED
          BY <1>3, <3>2, <5>1
      <4>3. c # n
        <5> SUFFICES ASSUME c = n PROVE FALSE
          OBVIOUS
        <5>1. \A j \in B : j <= k => j <= b
          <6>1. CountTo(B, b) = CountTo(B, k)
            BY <1>3
          <6> QED
            BY <4>f, <6>1, CountsGrow
        <5> QED
          BY <1>5, <4>1, <5>1
      <4>4. c # n + 1
        <5> SUFFICES ASSUME c = n + 1 PROVE FALSE
          OBVIOUS
        <5>1. \A j \in B : j <= e => j <= k
          <6>1. CountTo(B, k) = CountTo(B, e)
            BY <3>2
          <6> QED
            BY <4>f, <6>1, CountsGrow
        <5>2. e \in B /\ e <= e
          BY <1>2, <3>4, <3>5
        <5> QED
          BY <3>4, <4>1, <5>1, <5>2
      <4> HIDE DEF c
      <4> QED
        BY <1>3, <4>2, <4>3, <4>4
    <3>7. \A k \in B : b < k => k > stop
      BY <1>2, <3>3, <3>4, <3>6
    <3>8. stop \in Nat /\ b <= stop /\ stop < m /\ stop + 1 = e
      BY <1>1, <1>5, <3>3, <3>4, <3>5
    <3>9. stop < m /\ text[stop + 1] = Newline
      BY <3>5, <3>8
    <3>10. stop \in Nat /\ b <= stop /\ stop <= m
      BY <1>1, <3>8
    <3> QED
      BY <3>7, <3>9, <3>10
  <2> QED
    BY <2>1, <2>2
<1>s. b \in Nat /\ stop \in Nat /\ m \in Nat /\ b <= stop /\ stop <= m
  BY <1>1, <1>5, <1>6
<1>7. /\ raw \in Seq(DOMAIN Width) /\ Len(raw) = stop - b
      /\ \A k \in 1..(stop - b) : raw[k] = text[b + k]
  <2>1. text \in Seq(DOMAIN Width) /\ stop <= Len(text)
    BY <1>1, <1>s
  <2> HIDE DEF b, m, stop
  <2> QED
    BY <1>s, <2>1, SliceFacts
<1>8. \A k \in (b + 1)..stop : text[k] # Newline
  <2> SUFFICES ASSUME NEW k \in (b + 1)..stop, text[k] = Newline
               PROVE  FALSE
    OBVIOUS
  <2> HIDE DEF b, m, stop
  <2>1. k \in 1..m /\ b < k /\ ~(k > stop)
    BY <1>1, <1>5, <1>6
  <2> QED
    BY <1>2, <1>6, <2>1
<1> HIDE DEF B, b, m, stop
<1>9. CASE raw # <<>> /\ Last(raw) = Return
  <2> DEFINE q == stop - 1
  <2>1. Len(raw) # 0
    BY <1>7, <1>9
  <2>2. stop - b \in 1..(stop - b) /\ b + (stop - b) = stop /\ b <= q /\ q \in Nat /\ Len(raw) - 1 = q - b
        /\ stop - b \in Nat /\ q + 1 = stop /\ q < m
    <3>1. Len(raw) = stop - b
      BY <1>7
    <3>2. b < stop
      BY <1>s, <2>1, <3>1
    <3> QED
      BY <1>s, <3>1, <3>2
  <2>3. text[stop] = Return
    <3>1. raw[stop - b] = Return /\ raw[stop - b] = text[b + (stop - b)]
      BY <1>7, <1>9, <2>2 DEF Last
    <3> QED
      BY <2>2, <3>1
  <2>4. Slice(raw, 0, Len(raw) - 1) = Slice(text, b, q)
    <3> DEFINE s == Slice(raw, 0, q - b)
               t == Slice(text, b, q)
    <3>1. q - b \in 0..Len(raw) /\ q <= m /\ q - b \in Nat
      <4>1. Len(raw) = stop - b
        BY <1>7
      <4> HIDE DEF q
      <4> QED
        BY <1>s, <2>2, <4>1
    <3>2. s \in Seq(DOMAIN Width) /\ Len(s) = q - b /\ \A k \in 1..(q - b) : s[k] = raw[k]
      BY <1>7, <3>1, FrontFacts
    <3>3. t \in Seq(DOMAIN Width) /\ Len(t) = q - b /\ \A k \in 1..(q - b) : t[k] = text[b + k]
      <4>1. b \in Nat /\ q \in Nat /\ b <= q /\ q <= Len(text)
        BY <1>s, <2>2, <3>1 DEF m
      <4> HIDE DEF q
      <4> QED
        BY <1>1, <4>1, SliceFacts
    <3> HIDE DEF s, t
    <3>4. \A k \in 1..(q - b) : k \in 1..(stop - b)
      BY <1>5, <1>6, <2>2
    <3>5. \A k \in 1..Len(s) : s[k] = t[k]
      BY <1>7, <3>2, <3>3, <3>4
    <3>6. s = t
      BY <3>2, <3>3, <3>5, SameTexts
    <3> QED
      BY <2>2, <3>6 DEF s, t
  <2> HIDE DEF q
  <2>5. EndsLine(text, b, q)
    <3>1. q \in b..m
      BY <1>1, <1>5, <2>2
    <3>2. \A k \in (b + 1)..q : k \in (b + 1)..stop
      BY <1>5, <1>6, <2>2
    <3>3. text[q + 1] = Return /\ Return # Newline
      BY <2>2, <2>3, LanguageServerAssumption
    <3> QED
      BY <1>8, <3>1, <3>2, <3>3 DEF EndsLine, m
  <2> QED
    BY <1>4, <1>9, <2>2, <2>4, <2>5 DEF b
<1>10. CASE ~(raw # <<>> /\ Last(raw) = Return)
  <2>1. EndsLine(text, b, stop)
    <3>1. stop \in b..m
      BY <1>1, <1>5, <1>6
    <3>2. stop = m \/ text[stop + 1] \in {Newline, Return}
      BY <1>6
    <3>3. stop > b => text[stop] # Return
      <4> SUFFICES ASSUME stop > b, text[stop] = Return
                   PROVE  FALSE
        OBVIOUS
      <4>1. stop - b \in 1..(stop - b) /\ b + (stop - b) = stop /\ Len(raw) # 0
        <5>1. Len(raw) = stop - b
          BY <1>7
        <5>2. b < stop
          BY <1>s
        <5> QED
          BY <1>s, <5>1, <5>2
      <4>2. Last(raw) = text[stop]
        BY <1>7, <4>1 DEF Last
      <4>3. raw # <<>>
        BY <4>1
      <4> QED
        BY <1>10, <4>2, <4>3
    <3> QED
      BY <1>8, <3>1, <3>2, <3>3 DEF EndsLine, m
  <2>2. LineText(text, n) = raw
    BY <1>4, <1>10
  <2> QED
    BY <1>6, <2>1, <2>2 DEF b
<1> QED
  BY <1>9, <1>10

(* byte_for_scalar: as many characters start before it as are asked for.   *)
LEMMA ByteFacts ==
  ASSUME NEW W \in Seq(DOMAIN Width), NEW n \in 0..Cardinality(Starts(W))
  PROVE  /\ ByteForScalar(W, n) \in 0..Len(W)
         /\ CountTo(Starts(W), ByteForScalar(W, n)) = n
         /\ ByteForScalar(W, n) # Len(W) => Width[W[ByteForScalar(W, n) + 1]] # 0
<1> DEFINE S == Starts(W)
           m == Len(W)
           count == Cardinality(S)
           k == CHOOSE i \in S : Cardinality({j \in S : j < i}) = n
<1>1. m \in Nat /\ \A j : j \in S <=> j \in 1..m /\ Width[W[j]] # 0
  BY DEF Starts
<1>2. S \subseteq Nat \ {0} /\ S \subseteq Nat /\ IsFiniteSet(S) /\ count \in Nat
  <2>1. IsFiniteSet(1..m) /\ \A j \in 1..m : j \in Nat \ {0}
    BY <1>1, FS_Interval
  <2> HIDE DEF S, m
  <2>2. S \subseteq 1..m /\ S \subseteq Nat \ {0}
    BY <1>1, <2>1
  <2>3. IsFiniteSet(S)
    BY <2>1, <2>2, FS_Subset
  <2> QED
    BY <2>2, <2>3, FS_CardinalityType
<1>3. ByteForScalar(W, n) = IF n = count THEN m ELSE k - 1
  BY DEF ByteForScalar
<1>p. n \in 0..count
  OBVIOUS
<1> HIDE DEF S, m, count
<1>4. CASE n = count
  <2>1. {j \in S : j <= m} = S
    <3>1. \A j \in S : j <= m
      BY <1>1
    <3> QED
      BY <3>1
  <2>2. ByteForScalar(W, n) = m
    BY <1>3, <1>4
  <2> QED
    <3>1. CountTo(S, m) = n
      BY <1>4, <2>1 DEF CountTo, count
    <3> QED
      BY <1>1, <2>2, <3>1 DEF S, m
<1>5. CASE n # count
  <2>1. n + 1 \in 0..count /\ n \in Nat
    BY <1>2, <1>5, <1>p
  <2>2. PICK i \in {0} \cup S : CountTo(S, i) = n + 1
    BY <1>2, <2>1, CountsReach DEF count
  <2>3. i \in S
    <3> SUFFICES ASSUME i = 0 PROVE FALSE
      BY <2>2
    <3>1. \A j \in S : ~(j <= 0)
      BY <1>2
    <3>2. {j \in S : j <= i} = {}
      BY <3>1
    <3> QED
      <4>1. CountTo(S, i) = Cardinality({})
        BY <3>2 DEF CountTo
      <4> QED
        BY <2>1, <2>2, <4>1, FS_EmptySet
  <2>4. Cardinality({j \in S : j < i}) = n
    <3> DEFINE U == {j \in S : j <= i}
               V == {j \in S : j < i}
    <3>1. \A j \in S : j \in Nat /\ i \in Nat /\ (j <= i <=> j < i \/ j = i) /\ ~(i < i)
      BY <1>2, <2>3
    <3>2. i \in U /\ V = U \ {i} /\ U \subseteq S
      BY <2>3, <3>1
    <3>3. Cardinality(U) = n + 1
      BY <2>2 DEF CountTo
    <3> HIDE DEF U, V
    <3>4. IsFiniteSet(U)
      BY <1>2, <3>2, FS_Subset
    <3>5. Cardinality(V) = (n + 1) - 1
      BY <3>2, <3>3, <3>4, FS_RemoveElement
    <3>6. Cardinality(V) = n
      BY <2>1, <3>5
    <3> QED
      BY <3>6 DEF V
  <2>5. k \in S /\ Cardinality({j \in S : j < k}) = n
    BY <2>3, <2>4
  <2> HIDE DEF k
  <2>6. k \in 1..m /\ k - 1 \in 0..m /\ (k - 1) + 1 = k /\ Width[W[k]] # 0 /\ k \in Nat
    BY <1>1, <2>5
  <2>7. {j \in S : j <= k - 1} = {j \in S : j < k}
    <3>1. \A j \in S : j <= k - 1 <=> j < k
      BY <1>2, <2>6
    <3> QED
      BY <3>1
  <2>8. ByteForScalar(W, n) = k - 1
    BY <1>3, <1>5
  <2> QED
    BY <2>5, <2>6, <2>7, <2>8 DEF S, m, CountTo
<1> QED
  BY <1>4, <1>5

(* Every return is followed by its newline.                                *)
ReturnsEndLines(text) ==
  \A j \in DOMAIN text : text[j] = Return => j < Len(text) /\ text[j + 1] = Newline

(* The place before the c-th character of the line after n newlines.       *)
Point(text, n, c) == LineAt(text, n) + ByteForScalar(LineText(text, n), c)

(* The adapter's position for a character of a line is that of its place,  *)
(* and the client finds the place.                                         *)
LEMMA PointFacts ==
  ASSUME NEW text, Text(text), ReturnsEndLines(text), NEW n \in 0..Cardinality(Newlines(text)),
         NEW c \in 0..Cardinality(Starts(LineText(text, n))), NEW encoding \in Encodings
  PROVE  /\ ClientOffset(text, [line |-> n,
              character |-> EncodedUnits(Slice(LineText(text, n), 0, ByteForScalar(LineText(text, n), c)), encoding)],
              encoding) = Point(text, n, c)
         /\ Point(text, n, c) \in 0..Len(text)
         /\ CountTo(Newlines(text), Point(text, n, c)) = n
<1> DEFINE NL == Newlines(text)
           b == LineAt(text, n)
           m == Len(text)
           W == LineText(text, n)
           B == ByteForScalar(W, c)
           o == b + B
           front == Slice(W, 0, B)
           back == Slice(text, b, o)
           character == EncodedUnits(front, encoding)
<1>1. /\ text \in Seq(DOMAIN Width) /\ m \in Nat /\ n \in Nat
      /\ Width[Newline] # 0 /\ Width[Return] # 0 /\ Newline # Return
  BY LanguageServerAssumption DEF Text
<1>2. /\ IsFiniteSet(NL) /\ NL \subseteq Nat
      /\ \A k : k \in NL <=> k \in 1..m /\ text[k] = Newline
  BY NewlinesFacts
<1>3. b \in {0} \cup NL /\ CountTo(NL, b) = n
  BY LineAtFacts
<1>4. PICK q \in Nat : EndsLine(text, b, q) /\ W = Slice(text, b, q)
  BY LineTextFacts
<1>5. /\ q \in b..m
      /\ \A k \in (b + 1)..q : text[k] # Newline
      /\ q = m \/ text[q + 1] \in {Newline, Return}
      /\ ~(q > b /\ q < m /\ text[q] = Return /\ text[q + 1] = Newline)
  BY <1>4 DEF EndsLine
<1>6. b \in 0..m /\ (b # 0 => text[b] = Newline)
  BY <1>1, <1>2, <1>3
<1>n. b \in Nat /\ q \in Nat /\ m \in Nat /\ b <= q /\ q <= m
  BY <1>1, <1>5, <1>6
<1> HIDE DEF b, m
<1>7. W \in Seq(DOMAIN Width) /\ Len(W) = q - b /\ \A k \in 1..(q - b) : W[k] = text[b + k]
  <2> DEFINE S == Slice(text, b, q)
  <2>1. b \in Nat /\ q \in Nat /\ b <= q /\ q <= Len(text)
    BY <1>n DEF m
  <2>2. S \in Seq(DOMAIN Width) /\ Len(S) = q - b /\ \A k \in 1..(q - b) : S[k] = text[b + k]
    BY <1>1, <2>1, SliceFacts
  <2>3. W = S
    BY <1>4 DEF b
  <2> HIDE DEF S, W
  <2> QED
    BY <2>2, <2>3
<1>8. B \in 0..Len(W) /\ (B # Len(W) => Width[W[B + 1]] # 0)
  <2>1. c \in 0..Cardinality(Starts(W))
    OBVIOUS
  <2> HIDE DEF W
  <2> QED
    BY <1>7, <2>1, ByteFacts
<1> HIDE DEF B, W
<1>9. B \in Nat /\ o \in Nat /\ b <= o /\ o <= q /\ o \in 0..m
  <2>1. B \in 0..(q - b)
    BY <1>7, <1>8
  <2> QED
    BY <1>n, <2>1
<1>10. front = back
  <2>1. B \in 0..Len(W)
    BY <1>8
  <2>2. front \in Seq(DOMAIN Width) /\ Len(front) = B /\ \A k \in 1..B : front[k] = W[k]
    BY <1>7, <2>1, FrontFacts
  <2>3. o \in Nat /\ b <= o /\ o <= Len(text) /\ o - b = B
    BY <1>n, <1>9 DEF m
  <2> HIDE DEF o
  <2>4. back \in Seq(DOMAIN Width) /\ Len(back) = B /\ \A k \in 1..B : back[k] = text[b + k]
    <3>1. b \in Nat
      BY <1>n
    <3>2. back \in Seq(DOMAIN Width) /\ Len(back) = o - b /\ \A k \in 1..(o - b) : back[k] = text[b + k]
      BY <1>1, <2>3, <3>1, SliceFacts
    <3> HIDE DEF back
    <3> QED
      BY <2>3, <3>2
  <2>5. \A k \in 1..B : k \in 1..(q - b)
    BY <1>7, <1>8
  <2> HIDE DEF front, back
  <2>6. \A k \in 1..Len(front) : front[k] = back[k]
    BY <1>7, <2>2, <2>4, <2>5
  <2> QED
    BY <2>2, <2>4, <2>6, SameTexts
(* It is a boundary, ...                                                   *)
<1>11. IsCharBoundary(text, o)
  <2> SUFFICES ASSUME o # m PROVE Width[text[o + 1]] # 0
    BY DEF IsCharBoundary, m
  <2>1. CASE B = Len(W)
    <3>1. o = q
      BY <1>n, <1>7, <2>1
    <3>2. text[o + 1] \in {Newline, Return}
      BY <1>5, <3>1
    <3> HIDE DEF o
    <3> QED
      BY <1>1, <3>2
  <2>2. CASE B # Len(W)
    <3>1. B + 1 \in 1..(q - b) /\ b + (B + 1) = o + 1
      <4>1. B \in 0..(q - b) /\ B # q - b
        BY <1>7, <1>8, <2>2
      <4> QED
        BY <1>n, <4>1
    <3>2. W[B + 1] = text[o + 1]
      BY <1>7, <3>1
    <3> HIDE DEF o
    <3> QED
      BY <1>8, <2>2, <3>2
  <2> QED
    BY <2>1, <2>2
<1>o. o = b + B
  OBVIOUS
<1> HIDE DEF o, front, back
(* ... it is not inside the end of a line, ...                             *)
<1>12. LinesEnd(text, o)
  <2> SUFFICES ASSUME NEW j \in 1..o, text[j] = Return
               PROVE  j < o /\ text[j + 1] = Newline
    BY DEF LinesEnd
  <2>1. j \in 1..m /\ j \in Nat /\ j <= o
    BY <1>n, <1>9
  <2>2. j < m /\ text[j + 1] = Newline
    BY <1>1, <2>1 DEF ReturnsEndLines, m
  <2>3. j # o
    <3> SUFFICES ASSUME j = o PROVE FALSE
      OBVIOUS
    <3>1. o # b
      BY <1>1, <1>6, <1>9, <2>1
    <3>2. o < m /\ text[o] = Return /\ text[o + 1] = Newline /\ o > b
      BY <1>n, <1>9, <2>2, <3>1
    <3>3. o = q \/ o + 1 \in (b + 1)..q
      BY <1>n, <1>9
    <3> QED
      BY <1>5, <3>2, <3>3
  <2> QED
    BY <1>9, <2>1, <2>2, <2>3
(* ... it is in the line after n newlines, which starts at b.              *)
<1>13. \A k \in 1..o : text[k] = Newline => k <= b
  <2> SUFFICES ASSUME NEW k \in 1..o, text[k] = Newline, ~(k <= b)
               PROVE  FALSE
    OBVIOUS
  <2>1. k \in (b + 1)..q
    BY <1>n, <1>9
  <2> QED
    BY <1>5, <2>1
<1>14. {k \in 1..o : text[k] = Newline} = {k \in NL : k <= b} /\ {k \in NL : k <= o} = {k \in NL : k <= b}
  <2>1. ASSUME NEW k \in 1..o, text[k] = Newline
        PROVE  k \in NL /\ k <= b
    <3>1. k \in 1..m
      BY <1>n, <1>9
    <3> QED
      BY <1>2, <1>13, <2>1, <3>1
  <2>2. ASSUME NEW k \in NL, k <= b
        PROVE  k \in 1..o /\ text[k] = Newline /\ k <= o
    <3>1. k \in 1..m /\ text[k] = Newline
      BY <1>2
    <3> QED
      BY <1>n, <1>9, <2>2, <3>1
  <2>3. ASSUME NEW k \in NL, k <= o
        PROVE  k <= b
    <3>1. k \in 1..m /\ text[k] = Newline
      BY <1>2
    <3>2. k \in 1..o
      BY <1>n, <1>9, <2>3, <3>1
    <3> QED
      BY <1>13, <3>1, <3>2
  <2> HIDE DEF NL
  <2> QED
    BY <2>1, <2>2, <2>3
<1>15. LineStart(text, o) = b
  <2>1. /\ LineStart(text, o) \in 0..o
        /\ LineStart(text, o) # 0 => text[LineStart(text, o)] = Newline
        /\ \A k \in 1..o : text[k] = Newline => k <= LineStart(text, o)
    BY <1>9, LineStartFacts
  <2> DEFINE L == LineStart(text, o)
  <2> HIDE DEF L
  <2>2. L \in Nat /\ (L # 0 => L \in 1..o /\ text[L] = Newline)
    BY <1>9, <2>1 DEF L
  <2>3. L <= b
    BY <1>n, <1>13, <2>2
  <2>4. b <= L
    <3>1. CASE b = 0
      BY <2>2, <3>1
    <3>2. CASE b # 0
      <4>1. b \in 1..o /\ text[b] = Newline
        BY <1>n, <1>6, <1>9, <3>2
      <4> QED
        BY <2>1, <4>1 DEF L
    <3> QED
      BY <3>1, <3>2
  <2>5. L = b
    BY <1>n, <2>2, <2>3, <2>4
  <2> QED
    BY <2>5 DEF L
<1>16. CountTo(NL, o) = n /\ Cardinality({k \in 1..o : text[k] = Newline}) = n
  BY <1>3, <1>14 DEF CountTo
<1>17. OffsetPosition(text, o, encoding) = [line |-> n, character |-> character]
  <2>1. OffsetPosition(text, o, encoding) =
          [line      |-> Cardinality({k \in 1..o : text[k] = Newline}),
           character |-> EncodedUnits(Slice(text, LineStart(text, o), o), encoding)]
    BY DEF OffsetPosition, LineStart
  <2>2. Slice(text, LineStart(text, o), o) = front
    BY <1>10, <1>15 DEF back
  <2> QED
    BY <1>16, <2>1, <2>2
<1>18. ClientOffset(text, OffsetPosition(text, o, encoding), encoding) = o
  BY <1>9, <1>11, <1>12, PositionsReturn DEF LinesEnd, m
<1>19. Point(text, n, c) = o
  BY <1>o DEF Point, b, B, W
<1> QED
  BY <1>9, <1>16, <1>17, <1>18, <1>19 DEF m, front, W, B

(* Numbers moved by d are as many.                                         *)
LEMMA ShiftedAreAsMany ==
  ASSUME NEW B, IsFiniteSet(B), NEW C, NEW d \in Nat, B \subseteq Nat, C \subseteq Nat,
         \A k \in B : k >= d /\ k - d \in C, \A k \in C : k + d \in B
  PROVE  Cardinality(C) = Cardinality(B)
<1> DEFINE f == [k \in B |-> k - d]
<1>1. f \in [B -> C]
  OBVIOUS
<1>2. \A j, k \in B : f[j] = f[k] => j = k
  <2> SUFFICES ASSUME NEW j \in B, NEW k \in B, f[j] = f[k] PROVE j = k
    OBVIOUS
  <2>1. j \in Nat /\ k \in Nat /\ j - d = k - d
    OBVIOUS
  <2> QED
    BY <2>1
<1>3. \A t \in C : \E k \in B : f[k] = t
  <2> SUFFICES ASSUME NEW t \in C PROVE \E k \in B : f[k] = t
    OBVIOUS
  <2>1. t + d \in B /\ t \in Nat
    OBVIOUS
  <2>2. (t + d) - d = t
    BY <2>1
  <2>3. f[t + d] = t
    BY <2>1, <2>2
  <2> QED
    BY <2>1, <2>3
<1> HIDE DEF f
<1>4. f \in Bijection(B, C)
  BY <1>1, <1>2, <1>3 DEF Bijection, Injection, Surjection, IsInjective
<1>5. ExistsBijection(B, C)
  BY <1>4 DEF ExistsBijection
<1> QED
  BY <1>5, FS_Bijection

(* The bytes that start a character.                                       *)
LEMMA StartsFacts ==
  ASSUME NEW W \in Seq(DOMAIN Width)
  PROVE  /\ IsFiniteSet(Starts(W)) /\ Starts(W) \subseteq Nat
         /\ \A k : k \in Starts(W) <=> k \in 1..Len(W) /\ Width[W[k]] # 0
<1> DEFINE S == Starts(W)
           m == Len(W)
<1>1. m \in Nat /\ \A j : j \in S <=> j \in 1..m /\ Width[W[j]] # 0
  BY DEF Starts
<1>2. IsFiniteSet(1..m) /\ \A j \in 1..m : j \in Nat
  BY <1>1, FS_Interval
<1> HIDE DEF S, m
<1>3. S \subseteq 1..m /\ S \subseteq Nat
  BY <1>1, <1>2
<1>4. IsFiniteSet(S)
  BY <1>2, <1>3, FS_Subset
<1> QED
  BY <1>1, <1>3, <1>4 DEF S, m

(* A line has bytes the table knows.                                       *)
LEMMA LineIsText ==
  ASSUME NEW text, Text(text), NEW n \in 0..Cardinality(Newlines(text))
  PROVE  LineText(text, n) \in Seq(DOMAIN Width)
<1> DEFINE b == LineAt(text, n)
<1>1. text \in Seq(DOMAIN Width) /\ Len(text) \in Nat
  BY DEF Text
<1>2. b \in 0..Len(text)
  <2>1. b \in {0} \cup Newlines(text) /\ \A k : k \in Newlines(text) <=> k \in 1..Len(text) /\ text[k] = Newline
    BY LineAtFacts, NewlinesFacts
  <2> HIDE DEF b
  <2> QED
    BY <1>1, <2>1
<1>3. PICK q \in Nat : EndsLine(text, b, q) /\ LineText(text, n) = Slice(text, b, q)
  BY LineTextFacts
<1>4. q \in b..Len(text)
  BY <1>3 DEF EndsLine
<1> HIDE DEF b
<1>5. b \in Nat /\ q \in Nat /\ b <= q /\ q <= Len(text)
  BY <1>1, <1>2, <1>4
<1>6. Slice(text, b, q) \in Seq(DOMAIN Width)
  BY <1>1, <1>5, SliceFacts
<1> QED
  BY <1>3, <1>6

(* Between two characters of a line are the characters between them.       *)
LEMMA BetweenFacts ==
  ASSUME NEW text, Text(text), NEW n \in 0..Cardinality(Newlines(text)),
         NEW c \in Nat, NEW d \in Nat, c <= d, d <= Cardinality(Starts(LineText(text, n)))
  PROVE  /\ Point(text, n, c) \in Nat /\ Point(text, n, d) \in Nat
         /\ Point(text, n, c) <= Point(text, n, d) /\ Point(text, n, d) <= Len(text)
         /\ Cardinality(Starts(Slice(text, Point(text, n, c), Point(text, n, d)))) = d - c
<1> DEFINE b == LineAt(text, n)
           m == Len(text)
           W == LineText(text, n)
           B == ByteForScalar(W, c)
           D == ByteForScalar(W, d)
           from == b + B
           to == b + D
           T == Slice(text, from, to)
<1>1. text \in Seq(DOMAIN Width) /\ m \in Nat
  BY DEF Text
<1>2. b \in 0..m
  <2>1. b \in {0} \cup Newlines(text) /\ \A k : k \in Newlines(text) <=> k \in 1..Len(text) /\ text[k] = Newline
    BY LineAtFacts, NewlinesFacts
  <2> HIDE DEF b
  <2> QED
    BY <1>1, <2>1
<1>3. PICK q \in Nat : EndsLine(text, b, q) /\ W = Slice(text, b, q)
  BY LineTextFacts
<1>4. b \in Nat /\ q \in Nat /\ m \in Nat /\ b <= q /\ q <= m
  <2>1. q \in b..m
    BY <1>3 DEF EndsLine
  <2> HIDE DEF b, m
  <2> QED
    BY <1>1, <1>2, <2>1
<1> HIDE DEF b, m
<1>5. W \in Seq(DOMAIN Width) /\ Len(W) = q - b /\ \A k \in 1..(q - b) : W[k] = text[b + k]
  <2> DEFINE S == Slice(text, b, q)
  <2>1. b \in Nat /\ q \in Nat /\ b <= q /\ q <= Len(text)
    BY <1>4 DEF m
  <2>2. S \in Seq(DOMAIN Width) /\ Len(S) = q - b /\ \A k \in 1..(q - b) : S[k] = text[b + k]
    BY <1>1, <2>1, SliceFacts
  <2>3. W = S
    BY <1>3 DEF b
  <2> HIDE DEF S, W
  <2> QED
    BY <2>2, <2>3
<1>c. c \in 0..Cardinality(Starts(W)) /\ d \in 0..Cardinality(Starts(W))
  <2>1. Cardinality(Starts(W)) \in Nat
    <3> HIDE DEF W
    <3> QED
      BY <1>5, StartsFacts, FS_CardinalityType
  <2> QED
    BY <2>1
<1> HIDE DEF W
<1> DEFINE S == Starts(W)
<1>6. IsFiniteSet(S) /\ S \subseteq Nat /\ \A k : k \in S <=> k \in 1..(q - b) /\ Width[W[k]] # 0
  BY <1>5, StartsFacts
<1>7. B \in 0..(q - b) /\ D \in 0..(q - b) /\ CountTo(S, B) = c /\ CountTo(S, D) = d
  BY <1>5, <1>c, ByteFacts
<1>e. c = d => B = D
  OBVIOUS
<1> HIDE DEF B, D, S
<1>8. B \in Nat /\ D \in Nat /\ B <= D /\ D <= q - b /\ q - b \in Nat
  <2>1. B \in Nat /\ D \in Nat /\ q - b \in Nat /\ D <= q - b
    BY <1>4, <1>7
  <2>2. ~(B <= D) => FALSE
    <3> SUFFICES ASSUME ~(B <= D) PROVE FALSE
      OBVIOUS
    <3>1. D <= B
      BY <2>1
    <3>2. CountTo(S, D) <= CountTo(S, B)
      BY <1>6, <2>1, <3>1, CountsGrow
    <3>3. c = d
      BY <1>7, <3>2
    <3> QED
      BY <1>e, <2>1, <3>3
  <2> QED
    BY <2>1, <2>2
<1>9. from \in Nat /\ to \in Nat /\ from <= to /\ to <= m /\ to - from = D - B
  BY <1>4, <1>8
<1> DEFINE M == {k \in S : B < k /\ k <= D}
           C == Starts(T)
<1>10. Cardinality(M) = d - c
  BY <1>6, <1>7, <1>8, CountsGrow
<1>11. T \in Seq(DOMAIN Width) /\ Len(T) = D - B /\ \A k \in 1..(D - B) : T[k] = text[from + k]
  <2>1. from \in Nat /\ to \in Nat /\ from <= to /\ to <= Len(text)
    BY <1>9 DEF m
  <2> HIDE DEF from, to
  <2>2. T \in Seq(DOMAIN Width) /\ Len(T) = to - from /\ \A k \in 1..(to - from) : T[k] = text[from + k]
    BY <1>1, <2>1, SliceFacts
  <2> HIDE DEF T
  <2> QED
    BY <1>9, <2>2
<1> HIDE DEF T
<1>12. IsFiniteSet(C) /\ C \subseteq Nat /\ \A k : k \in C <=> k \in 1..(D - B) /\ Width[T[k]] # 0
  BY <1>11, StartsFacts
<1>13. \A k \in 1..(D - B) : k + B \in 1..(q - b) /\ T[k] = W[k + B]
  <2> SUFFICES ASSUME NEW k \in 1..(D - B) PROVE k + B \in 1..(q - b) /\ T[k] = W[k + B]
    OBVIOUS
  <2>1. k + B \in 1..(q - b) /\ from + k = b + (k + B)
    BY <1>4, <1>8
  <2>2. T[k] = text[b + (k + B)]
    BY <1>11, <2>1
  <2>3. W[k + B] = text[b + (k + B)]
    BY <1>5, <2>1
  <2> QED
    BY <2>1, <2>2, <2>3
<1> HIDE DEF C
<1>14. \A k \in M : k >= B /\ k - B \in C
  <2> SUFFICES ASSUME NEW k \in S, B < k, k <= D PROVE k >= B /\ k - B \in C
    OBVIOUS
  <2>1. k \in Nat /\ Width[W[k]] # 0
    BY <1>6
  <2>2. k - B \in 1..(D - B) /\ (k - B) + B = k /\ k >= B
    BY <1>8, <2>1
  <2>3. T[k - B] = W[k]
    BY <1>13, <2>2
  <2> QED
    BY <1>12, <2>1, <2>2, <2>3
<1>15. \A k \in C : k + B \in M
  <2> SUFFICES ASSUME NEW k \in C PROVE k + B \in M
    OBVIOUS
  <2>1. k \in 1..(D - B) /\ Width[T[k]] # 0
    BY <1>12
  <2>2. k + B \in 1..(q - b) /\ T[k] = W[k + B]
    BY <1>13, <2>1
  <2>3. k + B \in S
    BY <1>6, <2>1, <2>2
  <2>4. B < k + B /\ k + B <= D
    BY <1>8, <2>1
  <2> QED
    BY <2>3, <2>4
<1>16. IsFiniteSet(M) /\ M \subseteq Nat
  <2>1. M \subseteq S
    OBVIOUS
  <2> HIDE DEF M
  <2> QED
    BY <1>6, <2>1, FS_Subset
<1> HIDE DEF M
<1>17. Cardinality(C) = Cardinality(M)
  BY <1>8, <1>12, <1>14, <1>15, <1>16, ShiftedAreAsMany
<1>18. Point(text, n, c) = from /\ Point(text, n, d) = to
  BY DEF Point, b, W, B, D
<1> HIDE DEF from, to
<1> QED
  BY <1>9, <1>10, <1>17, <1>18 DEF C, T, m

(* Labels point at what they count in a text whose returns end lines.      *)
LEMMA LabelsFacts ==
  ASSUME NEW text, Text(text), ReturnsEndLines(text)
  PROVE  LabelsPoint(text)
<1> SUFFICES ASSUME NEW encoding \in Encodings, NEW line \in 1..(Len(text) + 1), NEW column \in 1..(Len(text) + 1),
                    NEW length \in 0..Len(text),
                    LabelRange(text, [line |-> line, column |-> column, length |-> length], encoding) # InvalidLabel
             PROVE  LET range == LabelRange(text, [line |-> line, column |-> column, length |-> length], encoding)
                        from  == ClientOffset(text, range.start, encoding)
                        to    == ClientOffset(text, range.end, encoding)
                        lead  == Slice(text, 0, from)
                    IN  /\ Cardinality(Starts(Slice(text, from, to))) = length
                        /\ Cardinality({k \in DOMAIN lead : lead[k] = Newline}) = line - 1
                        /\ Newline \notin {text[k] : k \in (from + 1)..to}
  BY DEF LabelsPoint
<1> DEFINE label == [line |-> line, column |-> column, length |-> length]
           range == LabelRange(text, label, encoding)
           n == line - 1
           c == column - 1
           d == c + length
           W == LineText(text, n)
           NL == Newlines(text)
           At(k) == [line |-> n, character |-> EncodedUnits(Slice(W, 0, ByteForScalar(W, k)), encoding)]
<1>0. text \in Seq(DOMAIN Width) /\ Len(text) \in Nat
  BY DEF Text
<1>1. /\ line \in 1..(Cardinality(NL) + 1) /\ d <= Cardinality(Starts(W))
      /\ range = [start |-> At(c), end |-> At(d)]
  <2> DEFINE Bad == \/ label.line \notin 1..(Cardinality(Newlines(text)) + 1) \/ label.column = 0
                    \/ label.column - 1 + label.length > Cardinality(Starts(LineText(text, label.line - 1)))
             Fine == [start |-> [line |-> label.line - 1,
                                 character |-> EncodedUnits(Slice(LineText(text, label.line - 1), 0,
                                   ByteForScalar(LineText(text, label.line - 1), label.column - 1)), encoding)],
                      end |-> [line |-> label.line - 1,
                               character |-> EncodedUnits(Slice(LineText(text, label.line - 1), 0,
                                   ByteForScalar(LineText(text, label.line - 1), label.column - 1 + label.length)), encoding)]]
  <2>1. range = IF Bad THEN InvalidLabel ELSE Fine
    BY DEF LabelRange
  <2>2. label.line = line /\ label.column = column /\ label.length = length
    OBVIOUS
  <2>3. ~Bad /\ range = Fine
    <3> HIDE DEF Bad, Fine
    <3> QED
      BY <2>1
  <2>4. Cardinality(Starts(W)) \in Int
    <3>1. line \in 1..(Cardinality(Newlines(text)) + 1)
      BY <2>3, <2>2
    <3>2. n \in 0..Cardinality(Newlines(text))
      BY <3>1, NewlinesFacts
    <3>3. W \in Seq(DOMAIN Width)
      BY <3>2, LineIsText
    <3> HIDE DEF W
    <3>4. Cardinality(Starts(W)) \in Nat
      BY <3>3, StartsFacts, FS_CardinalityType
    <3> QED
      BY <3>4
  <2>5. line \in 1..(Cardinality(NL) + 1) /\ ~(d > Cardinality(Starts(W)))
    BY <2>2, <2>3
  <2>6. d \in Int
    BY <1>0
  <2>7. d <= Cardinality(Starts(W))
    <3> HIDE DEF d, W
    <3> QED
      BY <2>4, <2>5, <2>6
  <2>8. Fine = [start |-> At(c), end |-> At(d)]
    BY <2>2
  <2> QED
    BY <2>3, <2>5, <2>7, <2>8
<1>2. n \in 0..Cardinality(NL) /\ c \in Nat /\ d \in Nat /\ c <= d /\ d - c = length
  BY <1>0, <1>1, NewlinesFacts
<1>3. c \in 0..Cardinality(Starts(W)) /\ d \in 0..Cardinality(Starts(W))
  <2>1. Cardinality(Starts(W)) \in Nat
    <3>1. W \in Seq(DOMAIN Width)
      BY <1>2, LineIsText
    <3> HIDE DEF W
    <3> QED
      BY <3>1, StartsFacts, FS_CardinalityType
  <2> HIDE DEF c, d, W
  <2> QED
    BY <1>1, <1>2, <2>1
<1> DEFINE from == Point(text, n, c)
           to == Point(text, n, d)
           lead == Slice(text, 0, from)
<1>4. ClientOffset(text, range.start, encoding) = from /\ CountTo(NL, from) = n
  <2>1. range.start = At(c)
    BY <1>1
  <2> HIDE DEF c, n
  <2> QED
    BY <1>2, <1>3, <2>1, PointFacts
<1>5. ClientOffset(text, range.end, encoding) = to /\ CountTo(NL, to) = n
  <2>1. range.end = At(d)
    BY <1>1
  <2> HIDE DEF d, n
  <2> QED
    BY <1>2, <1>3, <2>1, PointFacts
<1>6. from \in Nat /\ to \in Nat /\ from <= to /\ to <= Len(text) /\ Cardinality(Starts(Slice(text, from, to))) = d - c
  <2> HIDE DEF c, d, n
  <2> QED
    BY <1>1, <1>2, BetweenFacts
<1>7. Cardinality({k \in DOMAIN lead : lead[k] = Newline}) = n
  <2> HIDE DEF from, to
  <2>1. from \in 0..Len(text)
    BY <1>0, <1>6
  <2>2. Len(lead) = from /\ DOMAIN lead = 1..from /\ \A k \in 1..from : lead[k] = text[k]
    BY <1>0, <2>1, FrontFacts
  <2> HIDE DEF lead
  <2>3. \A k : k \in NL <=> k \in 1..Len(text) /\ text[k] = Newline
    BY NewlinesFacts
  <2>4. \A k : (k \in 1..from <=> k \in 1..Len(text) /\ k <= from)
    BY <1>0, <2>1
  <2> HIDE DEF NL
  <2>5. {k \in DOMAIN lead : lead[k] = Newline} = {k \in NL : k <= from}
    BY <2>2, <2>3, <2>4
  <2> QED
    BY <1>4, <2>5 DEF CountTo
<1>8. Newline \notin {text[k] : k \in (from + 1)..to}
  <2> HIDE DEF from, to
  <2> SUFFICES ASSUME NEW k \in (from + 1)..to, text[k] = Newline PROVE FALSE
    OBVIOUS
  <2>1. k \in 1..Len(text) /\ k \in Nat /\ k <= to /\ ~(k <= from)
    BY <1>0, <1>6
  <2>2. k \in NL /\ IsFiniteSet(NL) /\ NL \subseteq Nat
    BY <2>1, NewlinesFacts
  <2> HIDE DEF NL
  <2>3. \A j \in NL : j <= to => j <= from
    <3>1. CountTo(NL, from) = CountTo(NL, to)
      BY <1>4, <1>5
    <3>2. from \in Nat /\ to \in Nat /\ from <= to
      BY <1>6
    <3> QED
      BY <2>2, <3>1, <3>2, CountsGrow
  <2> QED
    BY <2>1, <2>2, <2>3
<1> HIDE DEF from, to, c, d, n
<1>9. Cardinality(Starts(Slice(text, from, to))) = length
  BY <1>2, <1>6
<1> QED
  BY <1>4, <1>5, <1>7, <1>8, <1>9 DEF n, label

(* The file is one of those the constants name.                            *)
AgreesInv == EditInv /\ original \in Texts

(* It is when a session starts.                                            *)
LEMMA AgreesStarts == EditorInit => AgreesInv
<1> SUFFICES ASSUME EditorInit PROVE AgreesInv
  OBVIOUS
<1>1. Init
  BY DEF EditorInit
<1>2. EditInv
  BY <1>1, EditStarts
<1> QED
  BY <1>1, <1>2 DEF AgreesInv, Init

(* It stays one, whatever the session does.                                *)
LEMMA AgreesStep == AgreesInv /\ [EditorNext]_<<vars, cache, session>> => AgreesInv'
<1> SUFFICES ASSUME AgreesInv, [EditorNext]_<<vars, cache, session>> PROVE AgreesInv'
  OBVIOUS
<1>1. [Next]_vars
  BY DEF EditorNext
<1>2. EditInv'
  BY <1>1, EditStep DEF AgreesInv
<1>3. Texts' = Texts /\ original' = original
  BY <1>1 DEF Next, vars, Suggest, Validate, ApplyEdit, Prepared
<1> QED
  BY <1>2, <1>3 DEF AgreesInv

(* EditorAgrees follows, position by position.                             *)
LEMMA AgreesFacts ==
  ASSUME \A text \in Texts : ReturnsEndLines(text), AgreesInv
  PROVE  EditorAgrees
<1>1. Text(original) /\ ReturnsEndLines(original) /\ edits \in Seq(Suggestions)
  BY DEF AgreesInv, EditInv
<1>2. LabelsPoint(original)
  BY <1>1, LabelsFacts
<1>3. \A e \in Suggestions : IsEdit(e)
  BY <1>1, SuggestionsAreEdits
<1>4. ASSUME NEW machine, Offered(original, edits, machine)
      PROVE  /\ Valid(original, edits)
             /\ phase # "refused"
             /\ phase = "done" /\ OutsideLineEnds(original, edits) =>
                  \A encoding \in Encodings :
                    ClientApplies(original, TextEdits(original, edits, encoding), encoding) = content
  <2>1. Valid(original, edits) /\ \A i, j \in DOMAIN edits : i # j => edits[i].start # edits[j].start
    <3>1. \A e \in Suggestions : e.start \in Nat /\ e.end \in Nat
      BY <1>3 DEF IsEdit
    <3> QED
      BY <1>1, <1>4, <3>1, OfferedIsValid
  <2>2. InsertsComeLater
    <3> SUFFICES ASSUME NEW i \in DOMAIN edits, NEW j \in DOMAIN edits, i < j, edits[i].start = edits[j].start
                 PROVE  FALSE
      BY DEF InsertsComeLater
    <3>1. i # j
      BY <1>1
    <3> QED
      BY <2>1, <3>1
  <2>3. phase \in {"collect", "apply", "done", "refused"} /\ Simultaneous
    BY EditsEnd DEF AgreesInv, EditInv
  <2>4. phase # "refused" /\ (phase = "done" => content = AllAtOnce(original, edits))
    BY <2>1, <2>2, <2>3 DEF Simultaneous
  <2>5. ASSUME OutsideLineEnds(original, edits), NEW encoding \in Encodings
        PROVE  ClientApplies(original, TextEdits(original, edits, encoding), encoding) = AllAtOnce(original, edits)
    <3>1. ASSUME NEW i \in DOMAIN edits, NEW o \in {edits[i].start, edits[i].end}
          PROVE  LinesEnd(original, o)
      <4>1. o \in Nat /\ o <= Len(original) /\ Len(original) \in Nat /\ DOMAIN original = 1..Len(original)
        <5>1. edits[i] \in Suggestions /\ ValidRange(original, edits[i])
          BY <1>1, <2>1 DEF Valid
        <5>2. IsEdit(edits[i])
          BY <1>3, <5>1
        <5> QED
          BY <1>1, <5>1, <5>2 DEF IsEdit, ValidRange, Text
      <4>2. ~(o > 0 /\ o < Len(original) /\ original[o] = Return /\ original[o + 1] = Newline)
        BY <2>5 DEF OutsideLineEnds
      <4> HIDE DEF Text
      <4>3. ASSUME NEW j \in 1..o, original[j] = Return
            PROVE  j < o /\ original[j + 1] = Newline
        <5>1. j \in DOMAIN original /\ j \in Nat
          BY <4>1
        <5>2. j < Len(original) /\ original[j + 1] = Newline
          BY <1>1, <4>3, <5>1 DEF ReturnsEndLines
        <5>3. j # o
          <6> SUFFICES ASSUME j = o PROVE FALSE
            OBVIOUS
          <6>1. o > 0
            BY <4>1
          <6> QED
            BY <4>2, <4>3, <5>2, <6>1
        <5> QED
          BY <4>1, <5>1, <5>2, <5>3
      <4> QED
        BY <4>3 DEF LinesEnd
    <3>2. \A i \in DOMAIN edits : LinesEnd(original, edits[i].start) /\ LinesEnd(original, edits[i].end)
      BY <3>1
    <3> QED
      BY <1>1, <1>3, <1>4, <3>2, ClientFacts
  <2> QED
    BY <2>1, <2>4, <2>5
<1> QED
  BY <1>2, <1>4 DEF EditorAgrees

(* What diagprint-lsp offers a client, validate_edits accepts, and a       *)
(* client that applies it all at once to the lines and characters it was   *)
(* sent ends with the text apply_edits makes, in every encoding; labels    *)
(* point at what they count (crates/diagprint-lsp/src/position.rs,         *)
(* actions.rs). For any texts in which a return is followed by a newline:  *)
(* the adapter takes no other for the end of a line, a client does.        *)
THEOREM EditorsAgree ==
  ASSUME \A text \in Texts : ReturnsEndLines(text)
  PROVE  EditorSpec => []EditorAgrees
<1>1. AgreesInv => EditorAgrees
  BY AgreesFacts
<1> QED
  BY <1>1, AgreesStarts, AgreesStep, PTL DEF EditorSpec

-----------------------------------------------------------------------------
(* The cache                                                               *)

(* Every entry is a revision with a text; only what was inserted has one.  *)
EntriesInv ==
  /\ revisions \in [Names -> Nat]
  /\ entries = [name \in Names |-> [revision |-> entries[name].revision,
                                    text     |-> entries[name].text]]
  /\ \A name \in Names : /\ entries[name].revision \in 0..revisions[name]
                         /\ entries[name].revision = 0 => entries[name] = NoEntry

(* The revision of an entry was given to no other text of its name, so a   *)
(* snapshot with the revision of today has the text of today.              *)
Snapshot == captured.sources[Document]

SnapshotInv ==
  captured # NoCaptured =>
    /\ Snapshot.revision \in 0..revisions[Document]
    /\ Snapshot.revision = 0 => Snapshot = NoEntry
    /\ Snapshot.revision # 0 /\ Snapshot.revision = entries[Document].revision =>
         Snapshot.text = entries[Document].text

CacheInv == EntriesInv /\ SnapshotInv

USE EditorAssumption DEF Snapshot

-----------------------------------------------------------------------------
(* The cache, once empty, satisfies the invariant.                         *)
LEMMA CacheStarts == EditorInit => CacheInv
<1> SUFFICES ASSUME EditorInit PROVE CacheInv
  OBVIOUS
<1> USE DEF EditorInit, SessionInit, CacheInit, NoEntry
<1>1. EntriesInv
  BY DEF EntriesInv
<1>2. SnapshotInv
  BY DEF SnapshotInv
<1> QED
  BY <1>1, <1>2 DEF CacheInv

(* A step that leaves the cache and what was captured alone.               *)
LEMMA QuietEditorStep == CacheInv /\ UNCHANGED <<cache, captured>> => CacheInv'
  BY DEF CacheInv, EntriesInv, SnapshotInv, cache, NoEntry, NoCaptured

(* insert: the new revision is above every one that was given before.      *)
LEMMA InsertStep ==
  ASSUME CacheInv, NEW text, InsertSource(Document, text), captured' = captured
  PROVE  CacheInv'
<1> USE DEF CacheInv, InsertSource, NextRevision
<1>1. entries'[Document] = [revision |-> revisions[Document] + 1, text |-> text]
  BY DEF EntriesInv
<1>2. revisions'[Document] = revisions[Document] + 1 /\ revisions' \in [Names -> Nat]
  BY DEF EntriesInv
<1>3. \A name \in Names \ {Document} : /\ entries'[name] = entries[name]
                                       /\ revisions'[name] = revisions[name]
  BY DEF EntriesInv
<1>4. EntriesInv'
  <2>1. entries' = [name \in Names |-> [revision |-> entries'[name].revision,
                                        text     |-> entries'[name].text]]
    BY <1>1, <1>3 DEF EntriesInv
  <2>2. ASSUME NEW name \in Names
        PROVE  /\ entries'[name].revision \in 0..revisions'[name]
               /\ entries'[name].revision = 0 => entries'[name] = NoEntry
    BY <1>1, <1>2, <1>3 DEF EntriesInv
  <2> QED
    BY <1>2, <2>1, <2>2 DEF EntriesInv, NoEntry
<1>5. SnapshotInv'
  BY <1>1, <1>2 DEF SnapshotInv, EntriesInv, NoEntry, NoCaptured
<1> QED
  BY <1>4, <1>5

(* remove and clear: an entry that is gone has no revision a snapshot with *)
(* a source could have.                                                    *)
LEMMA RemoveStep ==
  ASSUME CacheInv, NEW names \in SUBSET Names,
         entries' = [name \in Names |-> IF name \in names THEN NoEntry ELSE entries[name]],
         revisions' = revisions, captured' = captured
  PROVE  CacheInv'
<1>1. EntriesInv'
  BY DEF CacheInv, EntriesInv, NoEntry
<1>2. SnapshotInv'
  BY DEF CacheInv, SnapshotInv, EntriesInv, NoEntry, NoCaptured
<1> QED
  BY <1>1, <1>2 DEF CacheInv

(* CapturedDiagnostic::new takes the cache as it is.                       *)
LEMMA AnalyzeStep ==
  ASSUME CacheInv, NEW revision, NEW suggestion, Analyze(revision, suggestion)
  PROVE  CacheInv'
<1>1. EntriesInv'
  BY DEF CacheInv, EntriesInv, Analyze, cache, NoEntry
<1>2. SnapshotInv'
  BY DEF CacheInv, EntriesInv, SnapshotInv, Analyze, cache, NoEntry, NoCaptured
<1> QED
  BY <1>1, <1>2 DEF CacheInv

(* Every step of the client, the server and the renderer.                  *)
LEMMA CacheStep == CacheInv /\ [EditorNext]_<<vars, cache, session>> => CacheInv'
<1> SUFFICES ASSUME CacheInv, [EditorNext]_<<vars, cache, session>> PROVE CacheInv'
  OBVIOUS
<1>1. CASE UNCHANGED <<cache, session>>
  BY <1>1, QuietEditorStep DEF session
<1>2. CASE SessionNext
  <2>1. ASSUME NEW text \in Typed, Type(text) PROVE CacheInv'
    BY <2>1, QuietEditorStep DEF Type
  <2>2. CASE Close
    BY <2>2, QuietEditorStep DEF Close
  <2>3. CASE Answer
    BY <2>3, QuietEditorStep DEF Answer
  <2>4. CASE Handle
    <3> DEFINE note == Head(notes)
    <3>1. captured' = captured
      BY <2>4 DEF Handle
    <3>2. CASE InsertSource(Document, note.text)
      BY <3>1, <3>2, InsertStep
    <3>3. CASE InsertSourcePanics(Document)
      BY <3>1, <3>3, QuietEditorStep DEF InsertSourcePanics
    <3>4. CASE RemoveSource(Document)
      <4>1. entries' = [name \in Names |->
                          IF name \in {Document} THEN NoEntry ELSE entries[name]]
        BY <3>4 DEF RemoveSource, CacheInv, EntriesInv
      <4>2. revisions' = revisions
        BY <3>4 DEF RemoveSource
      <4> QED
        BY <3>1, <4>1, <4>2, RemoveStep
    <3> QED
      BY <2>4, <3>2, <3>3, <3>4 DEF Handle
  <2>5. CASE ClearCache
    <3>1. entries' = [name \in Names |-> IF name \in Names THEN NoEntry ELSE entries[name]]
      BY <2>5 DEF ClearCache, ClearSources
    <3>2. revisions' = revisions /\ captured' = captured
      BY <2>5 DEF ClearCache, ClearSources, session
    <3> QED
      BY <3>1, <3>2, RemoveStep
  <2>6. ASSUME NEW revision \in 0..LastRevision, NEW suggestion \in Suggested,
               Analyze(revision, suggestion)
        PROVE  CacheInv'
    BY <2>6, AnalyzeStep
  <2>7. CASE OfferCodeAction
    BY <2>7, QuietEditorStep DEF OfferCodeAction
  <2>8. ASSUME NEW live \in BOOLEAN, CheckRevision(live) PROVE CacheInv'
    BY <2>8, QuietEditorStep DEF CheckRevision
  <2>9. CASE LoadText
    BY <2>9, QuietEditorStep DEF LoadText
  <2> QED
    BY <1>2, <2>1, <2>2, <2>3, <2>4, <2>5, <2>6, <2>7, <2>8, <2>9 DEF SessionNext
<1> QED
  BY <1>1, <1>2 DEF EditorNext

(* A snapshot that is_current for a name holds the text the cache holds    *)
(* (src/source.rs; src/captured.rs), however often the name was replaced,  *)
(* removed or cleared since it was taken.                                  *)
THEOREM SnapshotsAreTrue == EditorSpec => []CurrentMeansSame
<1>1. CacheInv => CurrentMeansSame
  BY DEF CacheInv, SnapshotInv, CurrentMeansSame, IsCurrent, HasSource, Revision
<1> QED
  BY CacheStarts, CacheStep, <1>1, PTL DEF EditorSpec

-----------------------------------------------------------------------------
(* The session                                                             *)

(* No typed text starts with a return.                                     *)
StartsPlain == \A text \in Typed : text[1] # Return

(* What was said of a version of the document is true of it, as long as it *)
(* is the version the client shows.                                        *)
Told(shown, version, text) ==
  version <= shown.version /\ (version = shown.version => shown.text = text)

(* What a client shows, and a notification of it.                          *)
Shows == [open : BOOLEAN, version : Nat, text : Seq(DOMAIN Width)]

(* The notifications on their way, and the version and the text the server *)
(* has of the document, are of the client.                                 *)
ToldInv ==
  /\ client \in Shows /\ WellFormed(client.text)
  /\ notes \in Seq(Shows)
  /\ \A i \in DOMAIN notes : notes[i].open =>
       Text(notes[i].text) /\ Told(client, notes[i].version, notes[i].text)
  /\ HasSource(entries, Document) => Text(entries[Document].text)
  /\ document.version \in Nat
  /\ document.known /\ document.version # Unversioned /\ HasSource(entries, Document) =>
       Told(client, document.version, entries[Document].text)

(* A captured diagnostic whose source is there is bound to a revision of   *)
(* it.                                                                     *)
CapturedInv ==
  captured # NoCaptured =>
    /\ captured.suggestion \in Suggested
    /\ HasSource(captured.sources, Document) => captured.revision # 0 /\ Text(Snapshot.text)

(* The first byte, which is no return, gives way.                          *)
IsFirst(e) == e.start = 0 /\ e.end = 1 /\ ~e.insert /\ e.expected[1] # Return /\ Len(e.expected) = 1 /\ Text(e.new)

(* An offer was validated against the text it is for.                      *)
OfferInv ==
  offer # NoOffer =>
    /\ offer.version \in Nat /\ Told(client, offer.version, offer.text)
    /\ Text(offer.text)
    /\ IsFirst(offer.edit)
    /\ \E machine \in BOOLEAN : Offered(offer.text, <<offer.edit>>, machine)
    /\ offer.edits = TextEdits(offer.text, <<offer.edit>>, Encoding)

(* The invariant of a session.                                             *)
FitInv == CacheInv /\ ToldInv /\ CapturedInv /\ OfferInv

-----------------------------------------------------------------------------
(* One edit offered of the first byte does what apply_edits does.          *)
LEMMA FirstFacts ==
  ASSUME NEW text, Text(text), NEW e, IsFirst(e), NEW machine, Offered(text, <<e>>, machine)
  PROVE  /\ Valid(text, <<e>>) /\ ValidRange(text, e)
         /\ ClientApplies(text, TextEdits(text, <<e>>, Encoding), Encoding) = Spliced(text, e)
<1> DEFINE list == <<e>>
           none == <<>>
           A == DOMAIN Width
<1>1. text \in Seq(A) /\ Len(text) \in Nat
  BY DEF Text
<1>2. /\ list \in Seq({e}) /\ DOMAIN list = {1} /\ list[1] = e
      /\ none \in Seq({e}) /\ DOMAIN none = {} /\ Append(none, e) = list
  OBVIOUS
<1>3. e.start = 0 /\ e.end = 1 /\ e.start \in Nat /\ e.end \in Nat /\ Text(e.new) /\ e.new \in Seq(A) /\ IsEdit(e)
  BY DEF IsFirst, IsEdit, Text
<1> HIDE DEF list, none
<1>4. Valid(text, list)
  <2>1. \A d \in {e} : d.start \in Nat /\ d.end \in Nat
    BY <1>3
  <2>2. Offered(text, list, machine)
    BY DEF list
  <2> QED
    BY <1>2, <2>1, <2>2, OfferedIsValid
<1>5. ValidRange(text, e) /\ Fresh(text, e)
  BY <1>2, <1>4 DEF Valid
<1>6. 1 <= Len(text)
  BY <1>3, <1>5 DEF ValidRange
<1>7. text[1] # Return
  <2>1. Slice(text, 0, 1) = e.expected
    BY <1>3, <1>5 DEF Fresh, IsFirst
  <2>2. 1 \in 0..Len(text)
    BY <1>1, <1>6
  <2>3. Slice(text, 0, 1)[1] = text[1]
    BY <1>1, <2>2, FrontFacts
  <2> QED
    BY <2>1, <2>3 DEF IsFirst
<1>8. ClientApplies(text, TextEdits(text, list, Encoding), Encoding) = AllAtOnce(text, list)
  <2>1. LinesEnd(text, 0) /\ LinesEnd(text, 1)
    BY <1>7 DEF LinesEnd
  <2>2. \A i \in DOMAIN list : LinesEnd(text, list[i].start) /\ LinesEnd(text, list[i].end)
    BY <1>2, <1>3, <2>1
  <2>3. \A d \in {e} : IsEdit(d)
    BY <1>3
  <2>4. Offered(text, list, machine)
    BY DEF list
  <2> QED
    BY <1>2, <2>2, <2>3, <2>4, ClientFacts, EditorAssumption
<1>9. AllAtOnce(text, none) = text
  BY <1>1, NoEdits DEF none
<1>10. Spliced(AllAtOnce(text, none), e) = AllAtOnce(text, Append(none, e))
  <2> DEFINE E == {e}
  <2>1. Fitting(E, A, Len(text))
    BY <1>1, <1>3, <1>6 DEF Fitting
  <2>2. Apart(Append(none, e))
    BY <1>2 DEF Apart
  <2>3. \A i \in DOMAIN none : none[i].start >= e.end
    BY <1>2
  <2>4. e \in E /\ none \in Seq(E) /\ text \in Seq(A)
    BY <1>1, <1>2
  <2> HIDE DEF E, A
  <2> QED
    BY <2>1, <2>2, <2>3, <2>4, AppliedLast
<1>11. ClientApplies(text, TextEdits(text, list, Encoding), Encoding) = Spliced(text, e)
  BY <1>2, <1>8, <1>9, <1>10
<1> QED
  BY <1>4, <1>5, <1>11 DEF list

(* ActionsFit follows from it.                                             *)
LEMMA FitIsFit == FitInv => ActionsFit
<1> SUFFICES ASSUME FitInv, offer # NoOffer, Shown, client.version = offer.version
             PROVE  /\ client.text = offer.text
                    /\ Valid(client.text, <<offer.edit>>)
                    /\ ClientApplies(client.text, offer.edits, Encoding) = Spliced(client.text, offer.edit)
  BY DEF ActionsFit
<1>1. client.text = offer.text /\ Text(client.text)
  BY DEF FitInv, OfferInv, Told
<1>2. PICK machine \in BOOLEAN : Offered(client.text, <<offer.edit>>, machine)
  BY <1>1 DEF FitInv, OfferInv
<1>3. IsFirst(offer.edit) /\ offer.edits = TextEdits(client.text, <<offer.edit>>, Encoding)
  BY <1>1 DEF FitInv, OfferInv
<1> QED
  BY <1>1, <1>2, <1>3, FirstFacts

-----------------------------------------------------------------------------
(* A session that starts satisfies it.                                     *)
LEMMA FitStarts == EditorInit => FitInv
<1> SUFFICES ASSUME EditorInit PROVE FitInv
  OBVIOUS
<1>1. CacheInv
  BY CacheStarts
<1>2. ToldInv
  <2>1. WellFormed(<<>>)
    BY DEF WellFormed
  <2>2. client \in Shows /\ client.text = <<>> /\ notes = <<>> /\ document.version = 0
        /\ document.known = FALSE /\ ~HasSource(entries, Document)
    BY EditorAssumption DEF EditorInit, SessionInit, CacheInit, Shows, HasSource, Missing, NoEntry
  <2>3. notes \in Seq(Shows) /\ DOMAIN notes = {}
    BY <2>2
  <2> QED
    BY <2>1, <2>2, <2>3 DEF ToldInv
<1> QED
  BY <1>1, <1>2 DEF EditorInit, SessionInit, FitInv, CapturedInv, OfferInv

(* The client gets a new version: what was said of another stays.          *)
LEMMA ChangedFacts ==
  ASSUME ToldInv, NEW text, Text(text), Changed(text), UNCHANGED <<cache, document>>
  PROVE  /\ ToldInv'
         /\ \A version \in Nat : \A t : Told(client, version, t) => Told(client', version, t)
<1>1. client \in Shows /\ text \in Seq(DOMAIN Width) /\ WellFormed(text)
  BY DEF ToldInv, Text
<1> DEFINE shown == [open |-> TRUE, version |-> client.version + 1, text |-> text]
<1>2. client' = shown /\ notes' = Append(notes, shown)
  BY DEF Changed
<1>3. client.version \in Nat /\ shown \in Shows /\ shown.version = client.version + 1 /\ shown.text = text
  BY <1>1 DEF Shows
<1> HIDE DEF shown
<1>4. ASSUME NEW version \in Nat, NEW t, Told(client, version, t)
      PROVE  Told(client', version, t)
  BY <1>2, <1>3, <1>4 DEF Told
<1>5. Told(client', shown.version, shown.text)
  BY <1>2, <1>3 DEF Told
<1>6. notes \in Seq(Shows) /\ notes' \in Seq(Shows)
  BY <1>2, <1>3 DEF ToldInv
<1>7. ASSUME NEW i \in DOMAIN notes', notes'[i].open
      PROVE  Text(notes'[i].text) /\ Told(client', notes'[i].version, notes'[i].text)
  <2>1. CASE i \in DOMAIN notes
    <3>1. notes'[i] = notes[i] /\ notes[i] \in Shows
      BY <1>2, <1>6, <2>1
    <3>2. Text(notes[i].text) /\ Told(client, notes[i].version, notes[i].text) /\ notes[i].version \in Nat
      BY <1>7, <2>1, <3>1 DEF ToldInv, Shows
    <3> QED
      BY <1>4, <3>1, <3>2
  <2>2. CASE i \notin DOMAIN notes
    <3>1. notes'[i] = shown
      BY <1>2, <1>6, <2>2
    <3> QED
      BY <1>3, <1>5, <3>1
  <2> QED
    BY <2>1, <2>2
<1>8. /\ HasSource(entries, Document) => Text(entries[Document].text)
      /\ document.version \in Nat
      /\ document.known /\ document.version # Unversioned /\ HasSource(entries, Document) =>
           Told(client, document.version, entries[Document].text)
  BY DEF ToldInv
<1>9. entries' = entries /\ document' = document
  BY DEF cache
<1>10. document.known /\ document.version # Unversioned /\ HasSource(entries, Document) =>
         Told(client', document.version, entries[Document].text)
  BY <1>4, <1>8, <1>9
<1>11. ToldInv'
  <2>1. client' \in Shows /\ WellFormed(client'.text)
    BY <1>1, <1>2, <1>3
  <2> QED
    BY <1>6, <1>7, <1>8, <1>9, <1>10, <2>1 DEF ToldInv, HasSource
<1> QED
  BY <1>4, <1>11

(* What a step of the server leaves alone.                                 *)
LEMMA SameFit ==
  /\ CapturedInv /\ UNCHANGED captured => CapturedInv'
  /\ OfferInv /\ UNCHANGED <<client, offer>> => OfferInv'
  /\ ToldInv /\ UNCHANGED <<cache, client, notes, document>> => ToldInv'
<1>1. CapturedInv /\ UNCHANGED captured => CapturedInv'
  BY DEF CapturedInv, HasSource, Snapshot
<1>2. OfferInv /\ UNCHANGED <<client, offer>> => OfferInv'
  BY DEF OfferInv
<1>3. ToldInv /\ UNCHANGED <<cache, client, notes, document>> => ToldInv'
  BY DEF ToldInv, HasSource, cache
<1> QED
  BY <1>1, <1>2, <1>3

(* The client types a text.                                                *)
LEMMA TypeFit ==
  ASSUME FitInv, NEW text \in Typed, Type(text)
  PROVE  ToldInv' /\ CapturedInv' /\ OfferInv'
<1>1. ToldInv /\ CapturedInv /\ OfferInv
  BY DEF FitInv
<1>2. Text(text)
  BY EditorAssumption DEF Text
<1>3. Changed(text) /\ UNCHANGED <<cache, document, captured, offer>>
  BY DEF Type
<1>4. ToldInv' /\ \A version \in Nat : \A t : Told(client, version, t) => Told(client', version, t)
  <2>1. UNCHANGED <<cache, document>>
    BY <1>3
  <2> QED
    BY <1>1, <1>2, <1>3, <2>1, ChangedFacts
<1>5. OfferInv'
  BY <1>1, <1>3, <1>4 DEF OfferInv
<1> QED
  BY <1>1, <1>3, <1>4, <1>5, SameFit

(* The client closes the document: what it said of a version stays true.   *)
LEMMA CloseFit ==
  ASSUME FitInv, Close
  PROVE  ToldInv' /\ CapturedInv' /\ OfferInv'
<1> DEFINE closed == [open |-> FALSE, version |-> 0, text |-> <<>>]
<1>1. ToldInv /\ CapturedInv /\ OfferInv
  BY DEF FitInv
<1>2. /\ client' = [client EXCEPT !.open = FALSE] /\ notes' = Append(notes, closed)
      /\ UNCHANGED <<cache, document, captured, offer>>
  BY DEF Close
<1>3. client' \in Shows /\ client'.version = client.version /\ client'.text = client.text
  BY <1>1, <1>2 DEF ToldInv, Shows
<1>4. closed \in Shows /\ ~closed.open
  BY DEF Shows
<1> HIDE DEF closed
<1>5. notes \in Seq(Shows) /\ notes' \in Seq(Shows)
  BY <1>1, <1>2, <1>4 DEF ToldInv
<1>6. \A i \in DOMAIN notes' : notes'[i].open => i \in DOMAIN notes /\ notes'[i] = notes[i]
  BY <1>2, <1>4, <1>5
<1>7. \A version, t : Told(client, version, t) <=> Told(client', version, t)
  BY <1>3 DEF Told
<1>8. ToldInv'
  <2>1. \A i \in DOMAIN notes' : notes'[i].open =>
          Text(notes'[i].text) /\ Told(client', notes'[i].version, notes'[i].text)
    BY <1>1, <1>6, <1>7 DEF ToldInv
  <2>2. WellFormed(client'.text)
    BY <1>1, <1>3 DEF ToldInv
  <2> QED
    BY <1>1, <1>2, <1>3, <1>5, <1>7, <2>1, <2>2 DEF ToldInv, HasSource, cache
<1>9. OfferInv'
  BY <1>1, <1>2, <1>7 DEF OfferInv
<1> QED
  BY <1>1, <1>2, <1>8, <1>9, SameFit

(* What the client makes of an offer is a text.                            *)
LEMMA AnswerFit ==
  ASSUME FitInv, Answer
  PROVE  ToldInv' /\ CapturedInv' /\ OfferInv'
<1>1. ToldInv /\ CapturedInv /\ OfferInv
  BY DEF FitInv
<1>2. offer # NoOffer /\ offer' = NoOffer /\ UNCHANGED <<cache, document, captured>>
  BY DEF Answer
<1>3. CapturedInv' /\ OfferInv'
  BY <1>1, <1>2, SameFit DEF OfferInv
<1>4. CASE Shown /\ client.version = offer.version
  <2> DEFINE text == ClientApplies(client.text, offer.edits, Encoding)
             e == offer.edit
  <2>1. Changed(text)
    BY <1>4 DEF Answer
  <2>2. client.text = offer.text /\ Text(client.text)
    BY <1>1, <1>2, <1>4 DEF OfferInv, Told
  <2>3. PICK machine \in BOOLEAN : Offered(client.text, <<e>>, machine)
    BY <1>1, <1>2, <2>2 DEF OfferInv
  <2>4. IsFirst(e) /\ offer.edits = TextEdits(client.text, <<e>>, Encoding)
    BY <1>1, <1>2, <2>2 DEF OfferInv
  <2> HIDE DEF e
  <2>5. ValidRange(client.text, e) /\ text = Spliced(client.text, e)
    BY <2>2, <2>3, <2>4, FirstFacts
  <2>6. Text(text)
    <3>1. e.start \in Nat /\ e.end \in Nat /\ Text(e.new)
      BY <2>4 DEF IsFirst
    <3>2. Text(Spliced(client.text, e))
      BY <2>2, <2>5, <3>1, SplicedIsWhole
    <3> QED
      BY <2>5, <3>2
  <2> HIDE DEF text
  <2>7. UNCHANGED <<cache, document>>
    BY <1>2
  <2>8. ToldInv'
    BY <1>1, <2>1, <2>6, <2>7, ChangedFacts
  <2> QED
    BY <1>3, <2>8
<1>5. CASE ~(Shown /\ client.version = offer.version)
  <2>1. UNCHANGED <<client, notes>>
    BY <1>5 DEF Answer
  <2> QED
    BY <1>1, <1>2, <1>3, <2>1, SameFit
<1> QED
  BY <1>4, <1>5

(* The server takes a notification: of what the client said it keeps the   *)
(* text and the version, or nothing.                                       *)
LEMMA HandleFit ==
  ASSUME FitInv, Handle
  PROVE  ToldInv' /\ CapturedInv' /\ OfferInv'
<1> DEFINE note == Head(notes)
<1>1. ToldInv /\ CapturedInv /\ OfferInv /\ EntriesInv
  BY DEF FitInv, CacheInv
<1>2. notes # <<>> /\ notes' = Tail(notes) /\ UNCHANGED <<client, captured, offer>>
  BY DEF Handle
<1>3. CapturedInv' /\ OfferInv'
  BY <1>1, <1>2, SameFit
<1>4. /\ notes' \in Seq(Shows) /\ note \in Shows
      /\ note.open => Text(note.text) /\ Told(client, note.version, note.text)
      /\ \A i \in DOMAIN notes' : notes'[i].open =>
           Text(notes'[i].text) /\ Told(client, notes'[i].version, notes'[i].text)
  <2>1. notes \in Seq(Shows) /\ \A i \in DOMAIN notes : notes[i].open =>
          Text(notes[i].text) /\ Told(client, notes[i].version, notes[i].text)
    BY <1>1 DEF ToldInv
  <2>2. notes' \in Seq(Shows) /\ note = notes[1] /\ 1 \in DOMAIN notes
        /\ \A i \in DOMAIN notes' : i + 1 \in DOMAIN notes /\ notes'[i] = notes[i + 1]
    BY <1>2, <2>1
  <2>3. note \in Shows
    BY <2>1, <2>2
  <2> HIDE DEF note
  <2> QED
    BY <2>1, <2>2, <2>3
<1> HIDE DEF note
<1>5. note.version \in Nat /\ client' = client
  BY <1>2, <1>4 DEF Shows
<1>6. client \in Shows /\ WellFormed(client.text)
  BY <1>1 DEF ToldInv
<1>7. CASE /\ note.open /\ InsertSource(Document, note.text)
           /\ document' \in [known : {TRUE}, version : {note.version, Unversioned}]
  <2>1. entries' = [entries EXCEPT ![Document] = [revision |-> NextRevision(Document), text |-> note.text]]
    BY <1>7 DEF InsertSource
  <2>2. entries'[Document].text = note.text
    <3>1. Document \in DOMAIN entries
      BY <1>1, EditorAssumption DEF EntriesInv
    <3> QED
      BY <2>1, <3>1
  <2>3. document'.version \in {note.version, Unversioned} /\ Unversioned \in Nat
    BY <1>7 DEF Unversioned
  <2> QED
    BY <1>3, <1>4, <1>5, <1>6, <1>7, <2>2, <2>3 DEF ToldInv
<1>8. CASE InsertSourcePanics(Document) /\ UNCHANGED document
  <2>1. entries' = entries /\ document' = document
    BY <1>8 DEF InsertSourcePanics, cache
  <2> QED
    BY <1>1, <1>3, <1>4, <1>5, <1>6, <2>1 DEF ToldInv, HasSource
<1>9. CASE RemoveSource(Document) /\ document' = Missing
  <2>1. entries' = [entries EXCEPT ![Document] = NoEntry] /\ document'.version = 0 /\ document'.known = FALSE
    BY <1>9 DEF RemoveSource, Missing
  <2>2. entries'[Document] = NoEntry
    <3>1. Document \in DOMAIN entries
      BY <1>1, EditorAssumption DEF EntriesInv
    <3> QED
      BY <2>1, <3>1
  <2> QED
    BY <1>3, <1>4, <1>5, <1>6, <2>1, <2>2 DEF ToldInv, HasSource, NoEntry
<1> QED
  BY <1>7, <1>8, <1>9 DEF Handle, note

(* The cache is cleared: there is no text left to be true.                 *)
LEMMA ClearFit ==
  ASSUME FitInv, ClearCache
  PROVE  ToldInv' /\ CapturedInv' /\ OfferInv'
<1>1. ToldInv /\ CapturedInv /\ OfferInv
  BY DEF FitInv
<1>2. UNCHANGED <<client, notes, document, captured, offer>>
  BY DEF ClearCache, session
<1>3. entries'[Document] = NoEntry
  BY EditorAssumption DEF ClearCache, ClearSources
<1>4. ToldInv'
  BY <1>1, <1>2, <1>3 DEF ToldInv, HasSource, NoEntry
<1> QED
  BY <1>1, <1>2, <1>4, SameFit

(* A label is bound to the snapshot it comes with, if that has its source. *)
LEMMA AnalyzeFit ==
  ASSUME FitInv, NEW revision \in 0..LastRevision, NEW suggestion \in Suggested, Analyze(revision, suggestion)
  PROVE  ToldInv' /\ CapturedInv' /\ OfferInv'
<1>1. ToldInv /\ CapturedInv /\ OfferInv /\ EntriesInv
  BY DEF FitInv, CacheInv
<1>2. /\ captured' = [sources |-> entries, revision |-> Bound(revision, entries), suggestion |-> suggestion]
      /\ UNCHANGED <<cache, client, notes, document, offer>>
  BY DEF Analyze
<1>3. HasSource(entries, Document) => Text(entries[Document].text) /\ Revision(entries, Document) # 0
  BY <1>1, EditorAssumption DEF ToldInv, EntriesInv, HasSource, Revision
<1>4. HasSource(entries, Document) => Bound(revision, entries) # 0
  BY <1>3 DEF Bound
<1>5. CapturedInv'
  BY <1>2, <1>3, <1>4 DEF CapturedInv, HasSource, Snapshot
<1> QED
  BY <1>1, <1>2, <1>5, SameFit

(* A current capture has the text of the cache, which is that of the       *)
(* version in the document map; the code action was validated against it.  *)
LEMMA OfferFit ==
  ASSUME StartsPlain, FitInv, OfferCodeAction
  PROVE  ToldInv' /\ CapturedInv' /\ OfferInv'
<1> DEFINE text == captured.sources[Document].text
           suggestion == captured.suggestion
           action == CodeAction(text, suggestion, Encoding)
           e == suggestion.edits[1]
<1>1. ToldInv /\ CapturedInv /\ OfferInv /\ EntriesInv /\ SnapshotInv
  BY DEF FitInv, CacheInv
<1>2. UNCHANGED <<cache, client, notes, document, captured>>
  BY DEF OfferCodeAction
<1>3. /\ captured # NoCaptured /\ ~IsStale /\ RevisionVerified /\ document.known
      /\ action.enabled /\ document.version # Unversioned
      /\ offer' = [version |-> document.version, edits |-> action.edits, text |-> text, edit |-> e]
  BY DEF OfferCodeAction
<1>4. HasSource(captured.sources, Document) /\ captured.revision # 0 /\ Text(text) /\ suggestion \in Suggested
  BY <1>1, <1>3 DEF RevisionVerified, CapturedInv, Snapshot
<1>5. /\ captured.sources[Document].revision = captured.revision
      /\ entries[Document].revision = captured.revision
  BY <1>3, <1>4 DEF RevisionVerified, IsStale, Revision
<1>6. text = entries[Document].text /\ HasSource(entries, Document)
  BY <1>1, <1>3, <1>4, <1>5 DEF SnapshotInv, HasSource, NoEntry, Snapshot
<1>7. document.version \in Nat /\ Told(client, document.version, text)
  BY <1>1, <1>3, <1>6 DEF ToldInv
<1>8. PICK kind \in {"MachineApplicable", "Manual"}, typed \in Typed, new \in News :
        suggestion = [commands |-> FALSE, applicability |-> kind, edits |-> <<Replace(0, 1, <<typed[1]>>, new)>>]
  <2>1. \A s \in Suggested : \E kind \in {"MachineApplicable", "Manual"}, typed \in Typed, new \in News :
          s = [commands |-> FALSE, applicability |-> kind, edits |-> <<Replace(0, 1, <<typed[1]>>, new)>>]
    <3> DEFINE Made(kind, t, new) ==
                 [commands |-> FALSE, applicability |-> kind, edits |-> <<Replace(0, 1, <<t[1]>>, new)>>]
    <3>1. Suggested = {Made(kind, t, new) : kind \in {"MachineApplicable", "Manual"}, t \in Typed, new \in News}
      BY DEF Suggested
    <3> HIDE DEF Made
    <3>2. \A s \in Suggested : \E kind \in {"MachineApplicable", "Manual"}, t \in Typed, new \in News :
            s = Made(kind, t, new)
      BY <3>1
    <3> QED
      BY <3>2, Zenon DEF Made
  <2> HIDE DEF suggestion
  <2> QED
    BY <1>4, <2>1
<1>9. e = Replace(0, 1, <<typed[1]>>, new) /\ suggestion.edits = <<e>>
  BY <1>8
<1>10. IsFirst(e)
  <2>1. Text(new)
    BY EditApplyAssumption DEF Text
  <2>2. typed[1] # Return
    BY DEF StartsPlain
  <2> QED
    BY <1>9, <2>1, <2>2 DEF IsFirst, Replace
<1> HIDE DEF text, suggestion, e
<1>11. \E machine \in BOOLEAN : Offered(text, <<e>>, machine)
  <2>1. Offered(text, suggestion.edits, suggestion.applicability = "MachineApplicable")
    BY <1>3 DEF CodeAction
  <2>2. (suggestion.applicability = "MachineApplicable") \in BOOLEAN
    OBVIOUS
  <2> QED
    BY <1>9, <2>1, <2>2
<1>12. action.edits = TextEdits(text, <<e>>, Encoding)
  BY <1>3, <1>9 DEF CodeAction
<1> HIDE DEF action
<1>13. OfferInv'
  BY <1>2, <1>3, <1>4, <1>7, <1>10, <1>11, <1>12 DEF OfferInv
<1> QED
  BY <1>1, <1>2, <1>13, SameFit

(* Every step of the client, the server and the renderer.                  *)
LEMMA FitStep ==
  ASSUME StartsPlain, FitInv, [EditorNext]_<<vars, cache, session>>
  PROVE  FitInv'
<1>0. CacheInv'
  BY CacheStep DEF FitInv
<1>1. ASSUME UNCHANGED <<cache, client, notes, document, captured, offer>>
      PROVE  ToldInv' /\ CapturedInv' /\ OfferInv'
  BY <1>1, SameFit DEF FitInv
<1>2. CASE UNCHANGED <<cache, session>>
  BY <1>0, <1>1, <1>2 DEF FitInv, session
<1>3. CASE SessionNext
  <2>1. ASSUME NEW text \in Typed, Type(text) PROVE FitInv'
    BY <1>0, <2>1, TypeFit DEF FitInv
  <2>2. CASE Close
    BY <1>0, <2>2, CloseFit DEF FitInv
  <2>3. CASE Answer
    BY <1>0, <2>3, AnswerFit DEF FitInv
  <2>4. CASE Handle
    BY <1>0, <2>4, HandleFit DEF FitInv
  <2>5. CASE ClearCache
    BY <1>0, <2>5, ClearFit DEF FitInv
  <2>6. ASSUME NEW revision \in 0..LastRevision, NEW suggestion \in Suggested,
               Analyze(revision, suggestion)
        PROVE  FitInv'
    BY <1>0, <2>6, AnalyzeFit DEF FitInv
  <2>7. CASE OfferCodeAction
    BY <1>0, <2>7, OfferFit DEF FitInv
  <2>8. ASSUME NEW live \in BOOLEAN, CheckRevision(live) PROVE FitInv'
    BY <1>0, <1>1, <2>8 DEF FitInv, CheckRevision
  <2>9. CASE LoadText
    BY <1>0, <1>1, <2>9 DEF FitInv, LoadText
  <2> QED
    BY <1>3, <2>1, <2>2, <2>3, <2>4, <2>5, <2>6, <2>7, <2>8, <2>9 DEF SessionNext
<1> QED
  BY <1>2, <1>3 DEF EditorNext

(* The edits a client still may apply, because they name the version it    *)
(* shows, fit the text it shows and do there what apply_edits does,        *)
(* whatever was typed, closed, cleared, captured or analyzed in between    *)
(* (crates/diagprint-lsp; src/captured.rs; src/source.rs), for any number  *)
(* of versions and any texts that do not start with a return, which the    *)
(* edit of the model would part from its newline.                          *)
THEOREM OfferedActionsFit ==
  ASSUME StartsPlain
  PROVE  EditorSpec => []ActionsFit
<1>1. FitInv /\ [EditorNext]_<<vars, cache, session>> => FitInv'
  BY FitStep
<1> QED
  BY <1>1, FitStarts, FitIsFit, PTL DEF EditorSpec

-----------------------------------------------------------------------------
(* Lists of lists                                                          *)

(* What a list of lists holds, the list of all of it holds.                *)
LEMMA PilesHold ==
  ASSUME NEW A, NEW seqs \in Seq(Seq(A))
  PROVE  /\ FlattenSeq(seqs) \in Seq(A)
         /\ \A c \in 1..Len(seqs) : \A i \in 1..Len(seqs[c]) :
              \E p \in 1..Len(FlattenSeq(seqs)) : FlattenSeq(seqs)[p] = seqs[c][i]
<1> DEFINE n == Len(seqs)
<1>1. PICK h \in [0..n -> Seq(A)] : Piles(h, n, seqs) /\ FlattenSeq(seqs) = h[n]
  BY FlattenFacts
<1>2. n \in Nat /\ \A k \in 1..n : seqs[k] \in Seq(A)
  OBVIOUS
<1>3. /\ h[0] = <<>>
      /\ \A k \in 0..(n - 1) : h[k + 1] = h[k] \o seqs[k + 1]
  BY <1>1 DEF Piles
<1> HIDE DEF n
<1> DEFINE Has(k, c) == \A i \in 1..Len(seqs[c]) : \E p \in 1..Len(h[k]) : h[k][p] = seqs[c][i]
           S == {k \in Nat : k <= n => \A c \in 1..k : Has(k, c)}
<1>4. 0 \in S
  <2>1. 1..0 = {}
    OBVIOUS
  <2> HIDE DEF Has
  <2> QED
    BY <2>1
<1>5. ASSUME NEW k \in Nat, k \in S
      PROVE  k + 1 \in S
  <2> HIDE DEF Has
  <2>1. SUFFICES ASSUME k + 1 <= n, NEW c \in 1..(k + 1)
                 PROVE  Has(k + 1, c)
    OBVIOUS
  <2> USE DEF Has
  <2> SUFFICES ASSUME NEW i \in 1..Len(seqs[c])
               PROVE  \E p \in 1..Len(h[k + 1]) : h[k + 1][p] = seqs[c][i]
    OBVIOUS
  <2> DEFINE s == h[k]
             t == seqs[k + 1]
  <2>2. /\ k \in 0..n /\ k \in 0..(n - 1) /\ k + 1 \in 1..n /\ k <= n
    BY <1>2, <2>1
  <2>3. s \in Seq(A) /\ t \in Seq(A) /\ h[k + 1] = s \o t
    BY <1>1, <1>2, <1>3, <2>2
  <2>4. CASE c = k + 1
    <3>1. i \in 1..Len(t) /\ seqs[c][i] = t[i]
      BY <2>4
    <3> HIDE DEF s, t
    <3>2. (s \o t)[Len(s) + i] = t[i] /\ Len(s) + i \in 1..Len(s \o t)
      BY <2>3, <3>1
    <3> QED
      BY <2>3, <3>1, <3>2
  <2>5. CASE c # k + 1
    <3>1. c \in 1..k
      BY <2>5
    <3>2. PICK p \in 1..Len(s) : s[p] = seqs[c][i]
      BY <1>5, <2>2, <3>1
    <3> HIDE DEF s, t
    <3>3. (s \o t)[p] = s[p] /\ p \in 1..Len(s \o t)
      BY <2>3, <3>2
    <3> QED
      BY <2>3, <3>2, <3>3
  <2> QED
    BY <2>4, <2>5
<1>6. \A k \in Nat : k \in S
  <2> HIDE DEF S
  <2> QED
    BY <1>4, <1>5, NatInduct
<1>7. \A c \in 1..n : Has(n, c)
  <2>1. n \in S /\ n <= n
    <3> HIDE DEF S
    <3>1. n \in S
      BY <1>2, <1>6
    <3>2. n <= n
      BY <1>2
    <3> QED
      BY <3>1, <3>2
  <2> HIDE DEF Has
  <2> QED
    BY <2>1
<1>8. n \in 0..n
  BY <1>2
<1> QED
  BY <1>1, <1>7, <1>8 DEF n

(* A list of the lists of one is the list of all.                          *)
LEMMA SinglesFacts ==
  ASSUME NEW A, NEW list \in Seq(A)
  PROVE  FlattenSeq([i \in 1..Len(list) |-> <<list[i]>>]) = list
<1> DEFINE n == Len(list)
           seqs == [i \in 1..n |-> <<list[i]>>]
<1>1. n \in Nat /\ \A i \in 1..n : list[i] \in A
  OBVIOUS
<1>2. seqs \in Seq(Seq(A)) /\ Len(seqs) = n /\ \A i \in 1..n : seqs[i] = <<list[i]>>
  <2>1. \A i \in 1..n : <<list[i]>> \in Seq(A)
    BY <1>1
  <2> HIDE DEF n
  <2> QED
    BY <1>1, <2>1
<1> HIDE DEF seqs
<1>3. PICK h \in [0..n -> Seq(A)] : Piles(h, n, seqs) /\ FlattenSeq(seqs) = h[n]
  BY <1>2, FlattenFacts
<1>4. /\ h[0] = <<>>
      /\ \A k \in 0..(n - 1) : h[k + 1] = h[k] \o <<list[k + 1]>>
  <2>1. /\ h[0] = <<>>
        /\ \A k \in 0..(n - 1) : h[k + 1] = h[k] \o seqs[k + 1]
    BY <1>3 DEF Piles
  <2>2. \A k \in 0..(n - 1) : k + 1 \in 1..n
    BY <1>1
  <2> QED
    BY <1>2, <2>1, <2>2
<1> DEFINE S == {k \in Nat : k <= n => h[k] = SubSeq(list, 1, k)}
<1>5. 0 \in S
  <2>1. SubSeq(list, 1, 0) = <<>>
    OBVIOUS
  <2> QED
    BY <1>4, <2>1
<1>6. ASSUME NEW k \in Nat, k \in S
      PROVE  k + 1 \in S
  <2>1. SUFFICES ASSUME k + 1 <= n
                 PROVE  h[k + 1] = SubSeq(list, 1, k + 1)
    OBVIOUS
  <2>2. h[k + 1] = SubSeq(list, 1, k) \o <<list[k + 1]>>
    BY <1>1, <1>4, <1>6, <2>1
  <2>3. SubSeq(list, 1, k) \o <<list[k + 1]>> = SubSeq(list, 1, k + 1)
    BY <2>1
  <2> QED
    BY <2>2, <2>3
<1>7. \A k \in Nat : k \in S
  <2> HIDE DEF S
  <2> QED
    BY <1>5, <1>6, NatInduct
<1>8. h[n] = SubSeq(list, 1, n)
  BY <1>1, <1>7
<1>9. SubSeq(list, 1, n) = list
  OBVIOUS
<1> QED
  BY <1>3, <1>8, <1>9 DEF seqs

(* apply_edits of a valid list of spans that are not empty does what they  *)
(* do all at once.                                                         *)
LEMMA AppliedAll ==
  ASSUME NEW text, Text(text), NEW F, \A e \in F : IsEdit(e), NEW list \in Seq(F), Valid(text, list),
         \A i \in DOMAIN list : list[i].start < list[i].end
  PROVE  LET after == ApplyAll(text, Sorted(list, FromTheEnd))
         IN  Text(after) /\ after = AllAtOnce(text, list)
<1> DEFINE D == Sorted(list, FromTheEnd)
           n == Len(D)
<1>1. PICK E :
      /\ Fitting(E, DOMAIN Width, Len(text)) /\ list \in Seq(E) /\ Apart(list)
      /\ \A e \in E : e \in F /\ ValidRange(text, e)
  BY ValidFacts
<1>2. text \in Seq(DOMAIN Width)
  BY DEF Text
<1>3. /\ D \in Seq(E) /\ Apart(D)
      /\ \A r, s \in 1..n : r < s => D[r].start >= D[s].end
      /\ AllAtOnce(text, D) = AllAtOnce(text, list)
  BY <1>1, <1>2, FromTheEndFacts
<1>4. n \in Nat /\ \A k \in 1..n : D[k] \in E
  BY <1>3
<1>5. ApplyAll(text, D) = (CHOOSE f : f = [k \in 0..n |-> IF k = 0 THEN text ELSE Spliced(f[k - 1], D[k])])[n]
  BY DEF ApplyAll
<1> HIDE DEF D
<1> DEFINE Now(k) == AllAtOnce(text, SubSeq(D, 1, k))
           whole == {k \in Nat : k <= n => Text(Now(k))}
<1>6. Now(0) = text
  <2>1. SubSeq(D, 1, 0) = <<>>
    BY <1>3
  <2> QED
    BY <1>2, <2>1, NoEdits
<1>7. ASSUME NEW k \in Nat, k < n, Text(Now(k))
      PROVE  Text(Now(k + 1)) /\ Now(k + 1) = Spliced(Now(k), D[k + 1])
  <2>1. k + 1 \in 1..n
    BY <1>4, <1>7
  <2>2. D[k + 1] \in E /\ ValidRange(text, D[k + 1]) /\ IsEdit(D[k + 1])
    BY <1>1, <1>4, <2>1
  <2>3. ValidRange(Now(k), D[k + 1]) /\ Spliced(Now(k), D[k + 1]) = Now(k + 1)
    BY <1>1, <1>3, <1>7, <2>2, NextEdit
  <2> HIDE DEF Now
  <2>4. Text(Spliced(Now(k), D[k + 1]))
    BY <1>7, <2>2, <2>3, SplicedIsWhole DEF IsEdit
  <2> QED
    BY <2>3, <2>4
<1> HIDE DEF Now
<1>8. \A k \in Nat : k \in whole
  <2>1. 0 \in whole
    BY <1>6
  <2>2. ASSUME NEW k \in Nat, k \in whole
        PROVE  k + 1 \in whole
    BY <1>4, <1>7, <2>2
  <2> HIDE DEF whole
  <2> QED
    BY <2>1, <2>2, NatInduct
<1> DEFINE Body(f) == [k \in 0..n |-> IF k = 0 THEN text ELSE Spliced(f[k - 1], D[k])]
           first == [k \in 0..n |-> Now(k)]
           after == CHOOSE f : f = Body(f)
<1>9. first = Body(first)
  <2>1. ASSUME NEW k \in 0..n
        PROVE  Now(k) = IF k = 0 THEN text ELSE Spliced(first[k - 1], D[k])
    <3>1. CASE k = 0
      BY <1>6, <3>1
    <3>2. CASE k # 0
      <4>1. k - 1 \in Nat /\ k - 1 \in 0..n /\ k = (k - 1) + 1 /\ k - 1 < n
        BY <1>4, <3>2
      <4>2. Text(Now(k - 1))
        BY <1>4, <1>8, <4>1
      <4>3. Now((k - 1) + 1) = Spliced(Now(k - 1), D[(k - 1) + 1])
        BY <1>7, <4>1, <4>2
      <4>4. first[k - 1] = Now(k - 1)
        BY <4>1
      <4> HIDE DEF first
      <4>5. Now(k) = Spliced(first[k - 1], D[k])
        BY <4>1, <4>3, <4>4
      <4> QED
        BY <3>2, <4>5
    <3> QED
      BY <3>1, <3>2
  <2> QED
    BY <2>1
<1>10. after = Body(after)
  <2> HIDE DEF Body, first
  <2> QED
    BY <1>9
<1>11. ApplyAll(text, D) = after[n]
  BY <1>5
<1> HIDE DEF after
<1> DEFINE S == {k \in Nat : k <= n => after[k] = Now(k)}
<1>12. 0 \in S
  BY <1>4, <1>6, <1>10
<1>13. ASSUME NEW k \in Nat, k \in S
       PROVE  k + 1 \in S
  <2>1. SUFFICES ASSUME k + 1 <= n
                 PROVE  after[k + 1] = Now(k + 1)
    OBVIOUS
  <2>2. k + 1 \in 0..n /\ k + 1 # 0 /\ (k + 1) - 1 = k /\ k < n /\ k <= n
    BY <1>4, <2>1
  <2>3. after[k + 1] = Spliced(after[k], D[k + 1])
    BY <1>10, <2>2
  <2>4. after[k] = Now(k) /\ Text(Now(k))
    BY <1>8, <1>13, <2>2
  <2> QED
    BY <1>7, <2>2, <2>3, <2>4
<1>14. \A k \in Nat : k \in S
  <2> HIDE DEF S
  <2> QED
    BY <1>12, <1>13, NatInduct
<1>15. after[n] = Now(n) /\ Text(Now(n))
  BY <1>4, <1>8, <1>14
<1>16. SubSeq(D, 1, n) = D
  BY <1>3
<1> QED
  BY <1>3, <1>11, <1>15, <1>16 DEF Now, D

(* What is chosen from a list is of the list and is what was to be chosen. *)
LEMMA ChosenFacts ==
  ASSUME NEW A, NEW list \in Seq(A), NEW T
  PROVE  FlattenSeq([n \in DOMAIN list |-> IF list[n] \in T THEN <<list[n]>> ELSE <<>>])
           \in Seq(A \cap T)
<1> DEFINE B == A \cap T
           seqs == [n \in DOMAIN list |-> IF list[n] \in T THEN <<list[n]>> ELSE <<>>]
<1>1. \A n \in 1..Len(list) : list[n] \in A
  OBVIOUS
<1>2. \A n \in 1..Len(list) : (IF list[n] \in T THEN <<list[n]>> ELSE <<>>) \in Seq(B)
  <2> TAKE n \in 1..Len(list)
  <2>1. list[n] \in T => list[n] \in B
    BY <1>1
  <2> HIDE DEF B
  <2> QED
    BY <2>1
<1> HIDE DEF B
<1>3. seqs \in Seq(Seq(B))
  <2> DEFINE C == Seq(B)
             One(n) == IF list[n] \in T THEN <<list[n]>> ELSE <<>>
  <2>1. \A n \in 1..Len(list) : One(n) \in C
    BY <1>2
  <2>2. DOMAIN list = 1..Len(list) /\ Len(list) \in Nat
    OBVIOUS
  <2> HIDE DEF C, One
  <2>3. [n \in 1..Len(list) |-> One(n)] \in Seq(C)
    BY <2>1, <2>2
  <2> QED
    BY <2>2, <2>3 DEF C, One
<1> QED
  BY <1>3, PilesHold DEF B

-----------------------------------------------------------------------------
(* Builds                                                                  *)

(* A child as hydration leaves it: every span that was read became an edit *)
(* of the text that was read for it, or nothing.                           *)
IsChild(child) ==
  /\ child = [spans |-> child.spans, edits |-> child.edits, reads |-> child.reads]
  /\ child.spans \in Seq({span \in Spans : Replaces(span)})
  /\ child.reads \in Seq(Strings)
  /\ Len(child.reads) <= Len(child.spans)
  /\ child.edits = [n \in 1..Len(child.reads) |-> HydratedSpan(child.spans[n], child.reads[n])]

DiagnosisInv ==
  /\ diagnosis = [package |-> diagnosis.package, children |-> diagnosis.children]
  /\ \E S : diagnosis.children \in Seq(S) /\ \A child \in S : IsChild(child)

ImportInv ==
  /\ source \in Strings
  /\ IsFiniteSet(workspace)
  /\ DiagnosisInv
  /\ FixesAreMeant

(* Its spans are of rustc and replace something.                           *)
LEMMA ChildFacts ==
  ASSUME NEW child, IsChild(child)
  PROVE  /\ child.spans \in Seq(Spans) /\ Len(child.spans) \in Nat
         /\ DOMAIN child.spans = 1..Len(child.spans)
         /\ \A n \in 1..Len(child.spans) : child.spans[n] \in Spans /\ Replaces(child.spans[n])
         /\ child.reads \in Seq(Strings)
<1> DEFINE R == {span \in Spans : Replaces(span)}
           spans == child.spans
<1>1. spans \in Seq(R) /\ child.reads \in Seq(Strings)
  BY DEF IsChild
<1>2. \A span \in R : span \in Spans /\ Replaces(span)
  OBVIOUS
<1> HIDE DEF R, spans
<1>3. \A n \in 1..Len(spans) : spans[n] \in Spans /\ Replaces(spans[n])
  BY <1>1, <1>2
<1>4. spans \in Seq(Spans) /\ Len(spans) \in Nat /\ DOMAIN spans = 1..Len(spans)
  BY <1>1, <1>3
<1> QED
  BY <1>1, <1>3, <1>4 DEF spans

(* The edit of a span that is replaced.                                    *)
SpanEdit(span, text) ==
  Replace(span.start, span.end, Slice(text, span.start, span.end), span.new)

(* An automatic suggestion is hydrated whole, and replaces a text each.    *)
LEMMA AutomaticFacts ==
  ASSUME NEW child, IsChild(child), Len(child.reads) = Len(child.spans), Automatic(child)
  PROVE  /\ \A n \in DOMAIN child.spans :
              /\ importer.root /\ importer.hydrate /\ child.spans[n].file = "inside"
              /\ child.spans[n].kind = "MachineApplicable" /\ child.spans[n].start < child.spans[n].end
              /\ ValidRange(child.reads[n], child.spans[n])
         /\ CompilerSuggestion(child).edits
              = [n \in 1..Len(child.spans) |-> SpanEdit(child.spans[n], child.reads[n])]
<1> DEFINE spans == child.spans
           reads == child.reads
           list == child.edits
           m == Len(spans)
           flat == FlattenSeq(list)
           Edit(n) == IF spans[n].start = spans[n].end
                      THEN Insert(spans[n].start, InsertionContext(reads[n], spans[n].start), spans[n].new)
                      ELSE SpanEdit(spans[n], reads[n])
           A == {Edit(n) : n \in 1..m}
           edit == [n \in 1..m |-> Edit(n)]
<1>1. /\ spans \in Seq({span \in Spans : Replaces(span)}) /\ reads \in Seq(Strings)
      /\ Len(reads) = m /\ m \in Nat
      /\ list = [n \in 1..m |-> HydratedSpan(spans[n], reads[n])]
  BY DEF IsChild
<1>2. /\ <<>> \notin ToSet(list)
      /\ CombinedApplicability(spans) = "MachineApplicable"
      /\ ~ \E e \in ToSet(flat) : e.insert
      /\ CompilerSuggestion(child).edits = flat
  <2>1. CompilerSuggestion(child).applicability = "MachineApplicable"
    BY DEF Automatic
  <2> HIDE DEF flat, list, spans
  <2>2. /\ CompilerSuggestion(child).applicability
             = IF <<>> \in ToSet(list) THEN "Manual"
               ELSE IF CombinedApplicability(spans) = "MachineApplicable" /\ \E e \in ToSet(flat) : e.insert
                    THEN "MaybeIncorrect" ELSE CombinedApplicability(spans)
        /\ CompilerSuggestion(child).edits = flat
    BY DEF CompilerSuggestion, flat, list, spans
  <2> QED
    BY <2>1, <2>2
<1>3. \A n \in 1..m : spans[n].kind = "MachineApplicable"
  <2> DEFINE kinds == {ApplicabilityFromRustc(span.kind) : span \in ToSet(spans)}
  <2>1. kinds = {"MachineApplicable"}
    <3> HIDE DEF kinds
    <3>1. CombinedApplicability(spans)
            = IF kinds = {"MachineApplicable"} THEN "MachineApplicable"
              ELSE IF "Manual" \in kinds THEN "Manual"
              ELSE IF "HasPlaceholders" \in kinds THEN "HasPlaceholders"
              ELSE "MaybeIncorrect"
      BY DEF CombinedApplicability, kinds
    <3> QED
      BY <1>2, <3>1
  <2>2. \A n \in 1..m : spans[n] \in ToSet(spans)
    BY <1>1 DEF ToSet
  <2>3. \A n \in 1..m : ApplicabilityFromRustc(spans[n].kind) = "MachineApplicable"
    BY <2>1, <2>2
  <2> QED
    BY <2>3 DEF ApplicabilityFromRustc
<1>4. \A n \in 1..m : spans[n] \in Spans /\ spans[n].start \in Nat /\ spans[n].end \in Nat
  <2>1. \A n \in 1..m : spans[n] \in Spans
    BY <1>1
  <2> QED
    BY <2>1 DEF Spans
<1> HIDE DEF spans, reads, m, list, flat
<1>5. \A n \in 1..m : list[n] # <<>> /\ list[n] = HydratedSpan(spans[n], reads[n])
  <2>1. \A n \in 1..m : list[n] \in ToSet(list)
    BY <1>1 DEF ToSet
  <2> QED
    BY <1>1, <1>2, <2>1
<1>6. \A n \in 1..m :
        /\ importer.root /\ importer.hydrate /\ spans[n].file = "inside"
        /\ ValidRange(reads[n], spans[n])
        /\ list[n] = <<Edit(n)>>
  BY <1>5 DEF HydratedSpan, SpanEdit
<1> HIDE DEF Edit
<1>7. /\ edit \in Seq(A) /\ Len(edit) = m /\ \A n \in 1..m : edit[n] = Edit(n)
  <2>1. \A n \in 1..m : Edit(n) \in A
    OBVIOUS
  <2> HIDE DEF A
  <2> QED
    BY <1>1, <2>1
<1> HIDE DEF A, edit
<1>8. flat = edit
  <2>1. list = [n \in 1..Len(edit) |-> <<edit[n]>>]
    BY <1>1, <1>6, <1>7
  <2> QED
    BY <1>7, <2>1, SinglesFacts DEF flat
<1>9. ASSUME NEW n \in 1..m
      PROVE  /\ spans[n].start < spans[n].end
             /\ Edit(n) = SpanEdit(spans[n], reads[n])
  <2>1. Edit(n) \in ToSet(flat)
    BY <1>1, <1>7, <1>8 DEF ToSet
  <2>2. ~ Edit(n).insert
    BY <1>2, <2>1
  <2>3. spans[n].start # spans[n].end
    BY <2>2 DEF Edit, Insert
  <2>4. spans[n].start <= spans[n].end
    BY <1>6 DEF ValidRange
  <2> QED
    BY <1>4, <2>3, <2>4 DEF Edit
<1>10. edit = [n \in 1..m |-> SpanEdit(spans[n], reads[n])]
  BY <1>7, <1>9 DEF edit
<1>11. DOMAIN spans = 1..m
  BY <1>1 DEF m
<1> QED
  BY <1>2, <1>3, <1>6, <1>8, <1>9, <1>10, <1>11 DEF spans, reads, m

(* What an automatic suggestion edits.                                     *)
SureEdits == {e \in [insert : {FALSE}, start : Nat, end : Nat, expected : Seq(DOMAIN Width), new : Strings] :
                e.start < e.end}

(* They are edits of texts.                                                *)
LEMMA SureFacts ==
  ASSUME NEW child, IsChild(child), Len(child.reads) = Len(child.spans), Automatic(child)
  PROVE  CompilerSuggestion(child).edits \in Seq(SureEdits)
<1> DEFINE spans == child.spans
           reads == child.reads
           m == Len(spans)
<1>1. /\ \A n \in 1..m : spans[n] \in Spans /\ Replaces(spans[n])
      /\ reads \in Seq(Strings) /\ Len(reads) = m /\ m \in Nat /\ DOMAIN spans = 1..m
  BY ChildFacts
<1>2. /\ \A n \in 1..m : spans[n].start < spans[n].end /\ ValidRange(reads[n], spans[n])
      /\ CompilerSuggestion(child).edits = [n \in 1..m |-> SpanEdit(spans[n], reads[n])]
  BY <1>1, AutomaticFacts
<1> HIDE DEF spans, reads, m
<1>3. \A n \in 1..m : spans[n] \in Spans /\ Replaces(spans[n]) /\ reads[n] \in Strings
  BY <1>1
<1>4. ASSUME NEW n \in 1..m
      PROVE  SpanEdit(spans[n], reads[n]) \in SureEdits
  <2> DEFINE span == spans[n]
             text == reads[n]
  <2>1. span.start \in Nat /\ span.end \in Nat /\ span.new \in Strings
    BY <1>3 DEF Spans, Replaces
  <2>2. text \in Seq(DOMAIN Width) /\ Len(text) \in Nat
    BY <1>3 DEF Strings
  <2>3. span.start < span.end /\ span.start <= span.end /\ span.end <= Len(text)
    BY <1>2, <2>1 DEF ValidRange
  <2> HIDE DEF span, text
  <2>4. Slice(text, span.start, span.end) \in Seq(DOMAIN Width)
    BY <2>1, <2>2, <2>3, SliceFacts
  <2>5. SpanEdit(span, text) \in SureEdits
    BY <2>1, <2>3, <2>4 DEF SpanEdit, Replace, SureEdits
  <2> QED
    BY <2>5 DEF span, text
<1> HIDE DEF SureEdits
<1> QED
  BY <1>1, <1>2, <1>4

(* A fix is what the compiler meant.                                       *)
LEMMA FixFacts ==
  ASSUME ImportInv, ApplyFix
  PROVE  source' \in Strings /\ FixesAreMeant'
<1> DEFINE list == diagnosis.children
           applicable == Only(list, Automatic)
           pieces == [c \in DOMAIN applicable |-> CompilerSuggestion(applicable[c]).edits]
           all == FlattenSeq(pieces)
           m == Len(applicable)
<1>1. PICK S : list \in Seq(S) /\ \A child \in S : IsChild(child)
  BY DEF ImportInv, DiagnosisInv
<1>2. /\ Settled /\ Valid(source, all)
      /\ source' = ApplyAll(source, Sorted(all, FromTheEnd))
      /\ fix' = [before |-> source, children |-> applicable]
      /\ built' = built /\ importer' = importer
  BY DEF ApplyFix
<1> DEFINE A == {child \in S : Len(child.reads) = Len(child.spans)}
           T == {child \in A : Automatic(child)}
<1>3. list \in Seq(A)
  <2>1. ASSUME NEW c \in DOMAIN list
        PROVE  Len(list[c].reads) = Len(list[c].spans)
    <3>1. IsChild(list[c])
      BY <1>1
    <3>2. Len(list[c].reads) <= Len(list[c].spans)
          /\ Len(list[c].reads) \in Nat /\ Len(list[c].spans) \in Nat
      BY <3>1 DEF IsChild
    <3>3. ~(Len(list[c].reads) < Len(list[c].spans))
      BY <1>2 DEF Settled, Unread
    <3> QED
      BY <3>2, <3>3
  <2> QED
    BY <1>1, <2>1
<1>4. applicable \in Seq(T)
  <2>1. \A n \in DOMAIN list : list[n] \in T <=> Automatic(list[n])
    BY <1>3
  <2>2. A \cap T = T
    OBVIOUS
  <2> HIDE DEF A, T, list
  <2>3. applicable = FlattenSeq([n \in DOMAIN list |-> IF list[n] \in T THEN <<list[n]>> ELSE <<>>])
    BY <2>1 DEF Only
  <2> HIDE DEF applicable
  <2> QED
    BY <1>3, <2>2, <2>3, ChosenFacts
<1>5. \A child \in T : /\ IsChild(child) /\ Len(child.reads) = Len(child.spans) /\ Automatic(child)
  BY <1>1
<1>6. m \in Nat /\ DOMAIN applicable = 1..m /\ \A c \in 1..m : applicable[c] \in T
  <2> HIDE DEF applicable, T
  <2> QED
    BY <1>4
<1> HIDE DEF A, T, applicable
<1>7. ASSUME NEW c \in 1..m
      PROVE  /\ IsChild(applicable[c]) /\ Len(applicable[c].reads) = Len(applicable[c].spans)
             /\ \A n \in DOMAIN applicable[c].spans :
                  /\ importer.root /\ importer.hydrate /\ applicable[c].spans[n].file = "inside"
                  /\ applicable[c].spans[n].kind = "MachineApplicable"
                  /\ applicable[c].spans[n].start < applicable[c].spans[n].end
             /\ CompilerSuggestion(applicable[c]).edits
                  = [n \in 1..Len(applicable[c].spans) |->
                       SpanEdit(applicable[c].spans[n], applicable[c].reads[n])]
             /\ CompilerSuggestion(applicable[c]).edits \in Seq(SureEdits)
  <2> DEFINE child == applicable[c]
  <2>1. IsChild(child) /\ Len(child.reads) = Len(child.spans) /\ Automatic(child)
    BY <1>5, <1>6
  <2> HIDE DEF child
  <2> QED
    BY <2>1, AutomaticFacts, SureFacts DEF child
<1>8. /\ pieces \in Seq(Seq(SureEdits)) /\ Len(pieces) = m
      /\ \A c \in 1..m : pieces[c] = CompilerSuggestion(applicable[c]).edits
  <2> DEFINE C == Seq(SureEdits)
             One(c) == CompilerSuggestion(applicable[c]).edits
  <2>1. \A c \in 1..m : One(c) \in C
    BY <1>7
  <2>2. pieces = [c \in 1..m |-> One(c)]
    BY <1>6
  <2> HIDE DEF C, One, m, pieces
  <2>3. pieces \in Seq(C) /\ Len(pieces) = m /\ \A c \in 1..m : pieces[c] = One(c)
    BY <1>6, <2>1, <2>2
  <2> QED
    BY <2>3 DEF C, One
<1> HIDE DEF m, pieces
<1>9. all \in Seq(SureEdits)
      /\ \A c \in 1..m : \A i \in 1..Len(pieces[c]) : \E p \in 1..Len(all) : all[p] = pieces[c][i]
  BY <1>8, PilesHold
<1> HIDE DEF all
<1>10. \A e \in SureEdits : IsEdit(e)
  BY DEF SureEdits, IsEdit, Strings, Text
<1>11. \A i \in DOMAIN all : all[i].start < all[i].end
  <2>1. \A i \in DOMAIN all : all[i] \in SureEdits
    BY <1>9
  <2> QED
    BY <2>1 DEF SureEdits
<1>12. Text(source)
  BY DEF ImportInv, Strings, Text
<1>13. Text(source') /\ source' = AllAtOnce(source, all)
  BY <1>2, <1>9, <1>10, <1>11, <1>12, AppliedAll
<1>14. ASSUME NEW c \in 1..m, NEW n \in DOMAIN applicable[c].spans
       PROVE  LET span == applicable[c].spans[n]
              IN  Slice(source, span.start, span.end) = Slice(applicable[c].reads[n], span.start, span.end)
  <2> DEFINE span == applicable[c].spans[n]
             text == applicable[c].reads[n]
  <2>1. n \in 1..Len(applicable[c].spans) /\ Len(applicable[c].spans) \in Nat
    BY <1>7, ChildFacts
  <2>2. pieces[c] = [k \in 1..Len(applicable[c].spans) |->
                       SpanEdit(applicable[c].spans[k], applicable[c].reads[k])]
    BY <1>7, <1>8
  <2>3. n \in 1..Len(pieces[c]) /\ pieces[c][n] = SpanEdit(span, text)
    BY <2>1, <2>2
  <2>4. PICK p \in 1..Len(all) : all[p] = SpanEdit(span, text)
    BY <1>9, <2>3
  <2> HIDE DEF span, text
  <2>5. Fresh(source, SpanEdit(span, text))
    BY <1>2, <1>9, <2>4 DEF Valid
  <2>6. Slice(source, span.start, span.end) = Slice(text, span.start, span.end)
    BY <2>5 DEF Fresh, SpanEdit, Replace
  <2> QED
    BY <2>6 DEF span, text
<1>15. ASSUME \A child \in ToSet(applicable) : ToSet(child.reads) = {built}
       PROVE  all = FlattenSeq([c \in DOMAIN applicable |->
                [n \in DOMAIN applicable[c].spans |-> SpanEdit(applicable[c].spans[n], built)]])
  <2>1. ASSUME NEW c \in 1..m
        PROVE  pieces[c] = [n \in DOMAIN applicable[c].spans |-> SpanEdit(applicable[c].spans[n], built)]
    <3> DEFINE child == applicable[c]
    <3>1. child.spans \in Seq(Spans) /\ child.reads \in Seq(Strings) /\ Len(child.reads) = Len(child.spans)
      BY <1>7, ChildFacts
    <3>2. ToSet(child.reads) = {built}
      BY <1>6, <1>15 DEF ToSet
    <3>3. pieces[c] = [n \in 1..Len(child.spans) |-> SpanEdit(child.spans[n], child.reads[n])]
      BY <1>7, <1>8
    <3> HIDE DEF child
    <3>4. \A n \in 1..Len(child.spans) : child.reads[n] = built
      <4>1. \A n \in 1..Len(child.spans) : child.reads[n] \in ToSet(child.reads)
        BY <3>1 DEF ToSet
      <4> QED
        BY <3>2, <4>1
    <3>5. DOMAIN child.spans = 1..Len(child.spans)
      BY <3>1
    <3>6. pieces[c] = [n \in DOMAIN child.spans |-> SpanEdit(child.spans[n], built)]
      BY <3>3, <3>4, <3>5
    <3> QED
      BY <3>6 DEF child
  <2>2. pieces = [c \in 1..m |->
          [n \in DOMAIN applicable[c].spans |-> SpanEdit(applicable[c].spans[n], built)]]
    BY <1>8, <2>1
  <2> QED
    BY <1>6, <2>2 DEF all
<1>16. FixesAreMeant'
  <2>1. fix'.before = source /\ fix'.children = applicable
    BY <1>2
  <2>2. Meant' = FlattenSeq([c \in DOMAIN applicable |->
                [n \in DOMAIN applicable[c].spans |-> SpanEdit(applicable[c].spans[n], built)]])
    BY <1>2, <2>1 DEF Meant, SpanEdit
  <2>3. ASSUME \A child \in ToSet(applicable) : ToSet(child.reads) = {built}
        PROVE  source' = AllAtOnce(source, Meant')
    BY <1>13, <1>15, <2>2, <2>3
  <2>4. ASSUME NEW child \in ToSet(applicable), NEW n \in DOMAIN child.spans
        PROVE  LET span == child.spans[n]
               IN  /\ importer.root /\ importer.hydrate /\ span.file = "inside"
                   /\ span.kind = "MachineApplicable" /\ span.start < span.end
                   /\ Slice(source, span.start, span.end) = Slice(child.reads[n], span.start, span.end)
    <3>1. PICK c \in 1..m : child = applicable[c]
      BY <1>6, <2>4 DEF ToSet
    <3> QED
      BY <1>7, <1>14, <2>4, <3>1
  <2> QED
    BY <1>2, <2>1, <2>3, <2>4 DEF FixesAreMeant
<1> QED
  BY <1>13, <1>16 DEF Strings, Text

(* A line leaves children of which nothing was read.                       *)
LEMMA LineFacts ==
  ASSUME NEW line \in Lines
  PROVE  LET fresh == Converted(line)
         IN  /\ fresh = [package |-> fresh.package, children |-> fresh.children]
             /\ \E S : fresh.children \in Seq(S) /\ \A child \in S : IsChild(child)
<1> DEFINE R == {span \in Spans : Replaces(span)}
           list == [c \in DOMAIN line.helps |-> ReplacementSpans(line.helps[c])]
           children == Only(list, Replacing)
           S == {[spans |-> spans, edits |-> <<>>, reads |-> <<>>] : spans \in Seq(R)}
<1>1. line.helps \in Seq(Seq(Spans))
  BY CargoImportAssumption
<1>2. ASSUME NEW child \in Seq(Spans)
      PROVE  ReplacementSpans(child) \in Seq(R)
  <2>1. \A n \in DOMAIN child : child[n] \in R <=> Replaces(child[n])
    OBVIOUS
  <2>2. Spans \cap R = R
    OBVIOUS
  <2> HIDE DEF R
  <2>3. ReplacementSpans(child)
          = FlattenSeq([n \in DOMAIN child |-> IF child[n] \in R THEN <<child[n]>> ELSE <<>>])
    BY <2>1 DEF ReplacementSpans, Only
  <2> QED
    BY <2>2, <2>3, ChosenFacts
<1> HIDE DEF R
<1>3. list \in Seq(Seq(R))
  <2> DEFINE C == Seq(R)
             D == Seq(Spans)
             One(c) == ReplacementSpans(line.helps[c])
             m == Len(line.helps)
  <2>1. m \in Nat /\ DOMAIN line.helps = 1..m /\ \A c \in 1..m : line.helps[c] \in D
    <3> HIDE DEF D
    <3> QED
      BY <1>1 DEF D
  <2>2. \A c \in 1..m : One(c) \in C
    BY <1>2, <2>1
  <2> HIDE DEF C, D, One, m
  <2>3. [c \in 1..m |-> One(c)] \in Seq(C)
    BY <2>1, <2>2
  <2> QED
    BY <2>1, <2>3 DEF C, One, m
<1> HIDE DEF list
<1>4. children \in Seq(Seq(R))
  <2> DEFINE C == Seq(R)
             T == {spans \in C : Replacing(spans)}
  <2>1. \A n \in DOMAIN list : list[n] \in T <=> Replacing(list[n])
    BY <1>3
  <2>2. C \cap T = T /\ \A x \in T : x \in C
    OBVIOUS
  <2> HIDE DEF C, T
  <2>3. children = FlattenSeq([n \in DOMAIN list |-> IF list[n] \in T THEN <<list[n]>> ELSE <<>>])
    BY <2>1 DEF Only
  <2>4. list \in Seq(C)
    BY <1>3 DEF C
  <2> HIDE DEF children
  <2>5. children \in Seq(T)
    BY <2>2, <2>3, <2>4, ChosenFacts
  <2>6. children \in Seq(C)
    BY <2>2, <2>5
  <2> QED
    BY <2>6 DEF C
<1> DEFINE made == [c \in DOMAIN children |-> [spans |-> children[c], edits |-> <<>>, reads |-> <<>>]]
<1>5. Converted(line) = [package |-> line.package, children |-> made]
  BY DEF Converted, list
<1> HIDE DEF children
<1>6. made \in Seq(S)
  <2> DEFINE C == Seq(R)
             One(c) == [spans |-> children[c], edits |-> <<>>, reads |-> <<>>]
             m == Len(children)
  <2>1. m \in Nat /\ DOMAIN children = 1..m /\ \A c \in 1..m : children[c] \in C
    <3> HIDE DEF C
    <3> QED
      BY <1>4 DEF C
  <2>2. \A c \in 1..m : One(c) \in S
    BY <2>1
  <2> HIDE DEF One, S, C, m
  <2>3. [c \in 1..m |-> One(c)] \in Seq(S)
    BY <2>1, <2>2
  <2> QED
    BY <2>1, <2>3 DEF One
<1>7. \A child \in S : IsChild(child)
  <2> SUFFICES ASSUME NEW spans \in Seq(R)
               PROVE  IsChild([spans |-> spans, edits |-> <<>>, reads |-> <<>>])
    OBVIOUS
  <2> DEFINE child == [spans |-> spans, edits |-> <<>>, reads |-> <<>>]
  <2>1. /\ child = [spans |-> child.spans, edits |-> child.edits, reads |-> child.reads]
        /\ child.spans = spans /\ child.reads = <<>> /\ child.edits = <<>>
    OBVIOUS
  <2> HIDE DEF child
  <2>2. child.reads \in Seq(Strings) /\ Len(child.reads) = 0
    BY <2>1
  <2>3. Len(child.reads) <= Len(child.spans)
    BY <2>1, <2>2
  <2>4. child.edits = [n \in 1..Len(child.reads) |-> HydratedSpan(child.spans[n], child.reads[n])]
    <3>1. 1..Len(child.reads) = {}
      BY <2>2
    <3> QED
      BY <2>1, <3>1
  <2>5. IsChild(child)
    BY <2>1, <2>2, <2>3, <2>4 DEF IsChild, R
  <2> QED
    BY <2>5 DEF child
<1> HIDE DEF S, made
<1> QED
  BY <1>5, <1>6, <1>7

(* A span that was read has become an edit of what was read, or nothing.   *)
LEMMA HydratedFacts ==
  ASSUME NEW child, IsChild(child), NEW text \in Strings, Len(child.reads) < Len(child.spans)
  PROVE  IsChild([spans |-> child.spans,
                  edits |-> Append(child.edits, HydratedSpan(child.spans[Len(child.reads) + 1], text)),
                  reads |-> Append(child.reads, text)])
<1> DEFINE k == Len(child.reads)
           one == HydratedSpan(child.spans[k + 1], text)
           Edit(n) == HydratedSpan(child.spans[n], child.reads[n])
           edited == Append(child.edits, one)
           found == Append(child.reads, text)
           after == [spans |-> child.spans, edits |-> edited, reads |-> found]
<1>1. /\ child = [spans |-> child.spans, edits |-> child.edits, reads |-> child.reads]
      /\ child.edits = [n \in 1..k |-> Edit(n)]
      /\ child.spans \in Seq({span \in Spans : Replaces(span)})
  BY DEF IsChild
<1>2. child.reads \in Seq(Strings) /\ k \in Nat /\ Len(child.spans) \in Nat /\ k < Len(child.spans)
  BY ChildFacts
<1> HIDE DEF k
<1>4. /\ found \in Seq(Strings) /\ Len(found) = k + 1
      /\ found[k + 1] = text /\ \A n \in 1..k : found[n] = child.reads[n]
  BY <1>2 DEF k
<1> HIDE DEF found
<1>5. edited = [n \in 1..(k + 1) |-> HydratedSpan(child.spans[n], found[n])]
  <2> DEFINE A == {one} \cup {Edit(n) : n \in 1..k}
  <2>1. one \in A /\ \A n \in 1..k : Edit(n) \in A
    OBVIOUS
  <2> HIDE DEF A, one, Edit
  <2>2. child.edits \in Seq(A) /\ Len(child.edits) = k /\ \A n \in 1..k : child.edits[n] = Edit(n)
    <3>1. child.edits = [n \in 1..k |-> Edit(n)]
      BY <1>1 DEF Edit
    <3>2. [n \in 1..k |-> Edit(n)] \in Seq(A)
      BY <1>2, <2>1
    <3> QED
      BY <1>2, <3>1, <3>2
  <2>3. Append(child.edits, one) = [n \in 1..(k + 1) |-> IF n = k + 1 THEN one ELSE Edit(n)]
    BY <1>2, <2>1, <2>2
  <2>4. \A n \in 1..(k + 1) : HydratedSpan(child.spans[n], found[n]) = IF n = k + 1 THEN one ELSE Edit(n)
    BY <1>2, <1>4 DEF one, Edit
  <2> QED
    BY <2>3, <2>4
<1> HIDE DEF edited
<1>6. IsChild(after)
  <2>1. after.spans = child.spans /\ after.edits = edited /\ after.reads = found
        /\ after = [spans |-> after.spans, edits |-> after.edits, reads |-> after.reads]
    OBVIOUS
  <2> HIDE DEF after
  <2> QED
    BY <1>1, <1>2, <1>4, <1>5, <2>1 DEF IsChild
<1> QED
  BY <1>6 DEF k, edited, found

(* The next span is of a child.                                            *)
LEMMA HydrateFacts ==
  ASSUME ImportInv, HydrateSpan
  PROVE  DiagnosisInv'
<1> DEFINE list == diagnosis.children
<1>1. PICK S : list \in Seq(S) /\ \A child \in S : IsChild(child)
  BY DEF ImportInv, DiagnosisInv
<1>2. diagnosis = [package |-> diagnosis.package, children |-> list]
  BY DEF ImportInv, DiagnosisInv
<1>3. PICK c \in Unread :
        diagnosis' = [diagnosis EXCEPT !.children[c] =
          [spans |-> list[c].spans,
           edits |-> Append(list[c].edits, HydratedSpan(list[c].spans[Len(list[c].reads) + 1], source)),
           reads |-> Append(list[c].reads, source)]]
  BY DEF HydrateSpan
<1>4. importer' = importer
  BY DEF HydrateSpan
<1> DEFINE one == HydratedSpan(list[c].spans[Len(list[c].reads) + 1], source)
           after == [spans |-> list[c].spans, edits |-> Append(list[c].edits, one),
                     reads |-> Append(list[c].reads, source)]
           T == S \cup {after}
<1>5. c \in DOMAIN list /\ Len(list[c].reads) < Len(list[c].spans) /\ list[c] \in S
  BY <1>1 DEF Unread
<1>6. IsChild(list[c])
  BY <1>1, <1>5
<1>7. IsChild(after)
  BY <1>5, <1>6, HydratedFacts DEF ImportInv
<1>8. diagnosis' = [package |-> diagnosis.package, children |-> [list EXCEPT ![c] = after]]
  <2>1. diagnosis' = [diagnosis EXCEPT !.children[c] = after]
    BY <1>3
  <2> HIDE DEF after
  <2> QED
    BY <1>2, <2>1
<1> HIDE DEF after, list
<1>9. [list EXCEPT ![c] = after] \in Seq(T)
  BY <1>1, <1>5
<1>10. \A child \in T : IsChild(child)
  BY <1>1, <1>7
<1>11. \A child : IsChild(child)' <=> IsChild(child)
  BY <1>4 DEF IsChild, HydratedSpan
<1> HIDE DEF T
<1> QED
  BY <1>8, <1>9, <1>10, <1>11 DEF DiagnosisInv

(* A build that begins satisfies the invariant.                            *)
LEMMA ImportStarts == ImportInit => ImportInv
<1> SUFFICES ASSUME ImportInit PROVE ImportInv
  OBVIOUS
<1>1. source \in Strings /\ IsFiniteSet(workspace)
  BY CargoImportAssumption, FS_EmptySet DEF ImportInit
<1>2. DiagnosisInv
  <2>1. diagnosis = [package |-> diagnosis.package, children |-> diagnosis.children]
        /\ diagnosis.children \in Seq({})
    BY DEF ImportInit, NoDiagnosis
  <2> QED
    BY <2>1 DEF DiagnosisInv
<1>3. FixesAreMeant
  BY DEF ImportInit, FixesAreMeant
<1> QED
  BY <1>1, <1>2, <1>3 DEF ImportInv

(* Every step of a build, and of others, keeps it.                         *)
LEMMA ImportStep == ImportInv /\ [ImportNext]_importVars => ImportInv'
<1> SUFFICES ASSUME ImportInv, [ImportNext]_importVars PROVE ImportInv'
  OBVIOUS
<1>1. source \in Strings /\ IsFiniteSet(workspace) /\ DiagnosisInv /\ FixesAreMeant
  BY DEF ImportInv
<1>2. importer' = importer /\ built' = built
  BY DEF ImportNext, importVars, LoadMetadata, ImportLine, HydrateSpan, ApplyFix, EditSource
<1>3. \A child : IsChild(child)' <=> IsChild(child)
  BY <1>2 DEF IsChild, HydratedSpan
<1>4. diagnosis' = diagnosis => DiagnosisInv'
  BY <1>1, <1>3 DEF DiagnosisInv
<1>5. source' = source /\ fix' = fix => FixesAreMeant'
  BY <1>1, <1>2 DEF FixesAreMeant, Meant
<1>6. fix' = NoFix => FixesAreMeant'
  BY DEF FixesAreMeant
<1>7. CASE UNCHANGED importVars
  BY <1>1, <1>4, <1>5, <1>7 DEF importVars, ImportInv
<1>8. ASSUME NEW metadata \in Metadata, LoadMetadata(metadata)
      PROVE  ImportInv'
  BY <1>1, <1>4, <1>5, <1>8, CargoImportAssumption DEF LoadMetadata, ImportInv
<1>9. ASSUME NEW line \in Lines, ImportLine(line)
      PROVE  ImportInv'
  <2>1. diagnosis' = Converted(line) \/ diagnosis' = NoDiagnosis
    BY <1>9 DEF ImportLine
  <2>2. DiagnosisInv'
    <3>1. CASE diagnosis' = Converted(line)
      BY <1>3, <3>1, LineFacts DEF DiagnosisInv
    <3>2. CASE diagnosis' = NoDiagnosis
      <4>1. diagnosis' = [package |-> diagnosis'.package, children |-> diagnosis'.children]
            /\ diagnosis'.children \in Seq({})
        BY <3>2 DEF NoDiagnosis
      <4> QED
        BY <4>1 DEF DiagnosisInv
    <3> QED
      BY <2>1, <3>1, <3>2
  <2>3. source' = source /\ workspace' = workspace /\ fix' = NoFix
    BY <1>9 DEF ImportLine
  <2> QED
    BY <1>1, <1>6, <2>2, <2>3 DEF ImportInv
<1>10. CASE HydrateSpan
  <2>1. source' = source /\ workspace' = workspace /\ fix' = fix
    BY <1>10 DEF HydrateSpan
  <2> QED
    BY <1>1, <1>5, <1>10, <2>1, HydrateFacts DEF ImportInv
<1>11. CASE ApplyFix
  <2>1. diagnosis' = diagnosis /\ workspace' = workspace
    BY <1>11 DEF ApplyFix
  <2> QED
    BY <1>1, <1>4, <1>11, <2>1, FixFacts DEF ImportInv
<1>12. ASSUME NEW text \in Sources, EditSource(text)
       PROVE  ImportInv'
  BY <1>1, <1>4, <1>6, <1>12, CargoImportAssumption DEF EditSource, ImportInv
<1> QED
  BY <1>7, <1>8, <1>9, <1>10, <1>11, <1>12 DEF ImportNext

(* Documentation is pinned to the version that was built.                  *)
LEMMA PinnedFacts ==
  ASSUME IsFiniteSet(workspace)
  PROVE  DocumentationIsPinned
<1> SUFFICES ASSUME NEW named \in PackageIdentity(diagnosis.package).named
             PROVE  UniquePackageVersion(named[1]) \subseteq {named[2]}
  BY DEF DocumentationIsPinned
<1> DEFINE name == named[1]
           known == {p \in workspace : p.name = name}
           versions == {package.version : package \in known}
<1>1. PICK package \in workspace : named = <<package.name, package.version>>
  BY DEF PackageIdentity
<1>2. PackageVersions(name) = versions
  BY DEF PackageVersions
<1>3. named[2] \in versions
  BY <1>1
<1>4. IsFiniteSet(versions)
  <2>1. IsFiniteSet(known)
    BY FS_Subset
  <2> HIDE DEF known
  <2> DEFINE image == [p \in known |-> p.version]
  <2>2. image \in [known -> versions] /\ \A version \in versions : \E p \in known : image[p] = version
    OBVIOUS
  <2> HIDE DEF image
  <2>3. image \in Surjection(known, versions)
    BY <2>2 DEF Surjection
  <2> QED
    BY <2>1, <2>3, FS_Surjection
<1> HIDE DEF versions
<1>5. CASE Cardinality(versions) = 1
  <2>1. PICK version : versions = {version}
    BY <1>4, <1>5, FS_Singleton
  <2> QED
    BY <1>2, <1>3, <2>1 DEF UniquePackageVersion
<1>6. CASE Cardinality(versions) # 1
  BY <1>2, <1>6 DEF UniquePackageVersion
<1> QED
  BY <1>5, <1>6

(* ImportsAreFaithful follows from the invariant.                          *)
LEMMA ImportEnd == ImportInv => ImportsAreFaithful
  BY PinnedFacts DEF ImportInv, ImportsAreFaithful

(* An automatic fix of a build is the whole of every suggestion it         *)
(* applies, of spans in the trusted root that are machine applicable and   *)
(* whose text is still what the importer read; if that is what the         *)
(* compiler read, the fix does what the compiler meant, all at once; and   *)
(* documentation is pinned to the version that was built (src/compiler.rs, *)
(* src/fixer.rs, src/documentation.rs), for any build, texts and edits of  *)
(* others.                                                                 *)
THEOREM BuildsAreImported == ImportSpec => []ImportsAreFaithful
  BY ImportStarts, ImportStep, ImportEnd, PTL DEF ImportSpec
=============================================================================
