------------------------- MODULE ReportFocusProofs -------------------------
(***************************************************************************)
(* What a report puts first, for any texts, any number of items and any    *)
(* way of splitting them.                                                  *)
(***************************************************************************)
EXTENDS ReportFocus, TLAPS, FiniteSetTheorems, SequenceTheorems

-----------------------------------------------------------------------------
(*                     Lists that are put in order by counting             *)

StrictlyOrders(R, S) ==
  /\ \A x \in S : <<x, x>> \notin R
  /\ \A x, y, z \in S : <<x, y>> \in R /\ <<y, z>> \in R => <<x, z>> \in R
  /\ \A x, y \in S : x # y => <<x, y>> \in R \/ <<y, x>> \in R

Preceding(x, S, R) == {y \in S : <<y, x>> \in R}

(* Finitely many elements of a finite set come before any element.         *)
LEMMA PrecedingIsFinite ==
  ASSUME NEW S, IsFiniteSet(S), NEW R, NEW x
  PROVE  /\ IsFiniteSet(Preceding(x, S, R))
         /\ Cardinality(Preceding(x, S, R)) \in Nat
<1>1. Preceding(x, S, R) \subseteq S
  BY DEF Preceding
<1>2. IsFiniteSet(Preceding(x, S, R))
  BY <1>1, FS_Subset
<1> QED  BY <1>2, FS_CardinalityType

(* More elements come before a later element than before an earlier one.   *)
LEMMA PrecedingGrows ==
  ASSUME NEW S, IsFiniteSet(S), NEW R, StrictlyOrders(R, S),
         NEW x \in S, NEW y \in S, <<x, y>> \in R
  PROVE  Cardinality(Preceding(x, S, R)) < Cardinality(Preceding(y, S, R))
<1>1. Preceding(x, S, R) \subseteq Preceding(y, S, R)
  BY DEF Preceding, StrictlyOrders
<1>2. x \in Preceding(y, S, R) /\ x \notin Preceding(x, S, R)
  BY DEF Preceding, StrictlyOrders
<1>3. Cardinality(Preceding(x, S, R)) <= Cardinality(Preceding(y, S, R))
  BY <1>1, PrecedingIsFinite, FS_Subset
<1>4. Cardinality(Preceding(x, S, R)) # Cardinality(Preceding(y, S, R))
  BY <1>1, <1>2, PrecedingIsFinite, FS_Subset
<1> QED  BY <1>3, <1>4, PrecedingIsFinite

(* InOrder lists every element of S once, as R orders them.                *)
LEMMA InOrderEnumerates ==
  ASSUME NEW S, IsFiniteSet(S), NEW R, StrictlyOrders(R, S)
  PROVE  /\ Cardinality(S) \in Nat
         /\ InOrder(S, R) \in [1 .. Cardinality(S) -> S]
         /\ \A x \in S : \E n \in 1 .. Cardinality(S) : InOrder(S, R)[n] = x
         /\ \A n \in 1 .. Cardinality(S) :
              Cardinality(Preceding(InOrder(S, R)[n], S, R)) = n - 1
         /\ \A m, n \in 1 .. Cardinality(S) :
              m < n <=> <<InOrder(S, R)[m], InOrder(S, R)[n]>> \in R
<1> DEFINE size == Cardinality(S)
           order == InOrder(S, R)
           rank == [x \in S |-> Cardinality(Preceding(x, S, R))]
<1>1. size \in Nat
  BY FS_CardinalityType
<1>2. rank \in [S -> 0 .. size - 1]
  <2> SUFFICES ASSUME NEW x \in S
               PROVE  Cardinality(Preceding(x, S, R)) \in 0 .. size - 1
    OBVIOUS
  <2>1. Preceding(x, S, R) \subseteq S /\ x \notin Preceding(x, S, R)
    BY DEF Preceding, StrictlyOrders
  <2>2. /\ Cardinality(Preceding(x, S, R)) <= size
        /\ Cardinality(Preceding(x, S, R)) # size
    BY <2>1, FS_Subset
  <2> QED  BY <1>1, <2>2, PrecedingIsFinite
<1>3. rank \in Injection(S, 0 .. size - 1)
  <2> SUFFICES ASSUME NEW x \in S, NEW y \in S, x # y
               PROVE  rank[x] # rank[y]
    BY <1>2 DEF Injection, IsInjective
  <2>1. <<x, y>> \in R \/ <<y, x>> \in R
    BY DEF StrictlyOrders
  <2> QED  BY <1>2, <2>1, PrecedingGrows
<1>4. IsFiniteSet(0 .. size - 1) /\ Cardinality(0 .. size - 1) = size
  BY <1>1, FS_Interval
<1>5. rank \in Surjection(S, 0 .. size - 1)
  BY <1>3, <1>4, FS_Injection
<1>6. \A n \in 1 .. size : \E x \in S : rank[x] = n - 1
  <2>1. \A m \in 0 .. size - 1 : \E x \in S : rank[x] = m
    <3> HIDE DEF size, rank
    <3> QED  BY <1>5 DEF Surjection
  <2>2. \A n \in 1 .. size : n - 1 \in 0 .. size - 1
    BY <1>1
  <2> HIDE DEF size, rank
  <2> QED  BY <2>1, <2>2
<1>7. \A n \in 1 .. size :
        order[n] = CHOOSE x \in S : rank[x] = n - 1
  BY DEF InOrder, Preceding
<1>8. \A n \in 1 .. size : order[n] \in S /\ rank[order[n]] = n - 1
  BY <1>6, <1>7
<1>9. order \in [1 .. size -> S]
  BY <1>8 DEF InOrder
<1>10. \A x \in S : \E n \in 1 .. size : order[n] = x
  <2> SUFFICES ASSUME NEW x \in S
               PROVE  \E n \in 1 .. size : order[n] = x
    OBVIOUS
  <2>1. rank[x] \in 0 .. size - 1
    BY <1>2
  <2>2. rank[x] + 1 \in 1 .. size /\ (rank[x] + 1) - 1 = rank[x]
    BY <1>1, <2>1
  <2>3. rank[order[rank[x] + 1]] = rank[x] /\ order[rank[x] + 1] \in S
    BY <1>8, <2>2
  <2>4. order[rank[x] + 1] = x
    BY <1>3, <2>3 DEF Injection, IsInjective
  <2> QED  BY <2>2, <2>4
<1>11. ASSUME NEW m \in 1 .. size, NEW n \in 1 .. size
       PROVE  m < n <=> <<order[m], order[n]>> \in R
  <2>1. /\ order[m] \in S /\ order[n] \in S
        /\ rank[order[m]] = m - 1 /\ rank[order[n]] = n - 1
    BY <1>8
  <2>2. <<order[m], order[n]>> \in R => rank[order[m]] < rank[order[n]]
    BY <2>1, PrecedingGrows
  <2>3. <<order[n], order[m]>> \in R => rank[order[n]] < rank[order[m]]
    BY <2>1, PrecedingGrows
  <2>4. order[m] = order[n] => m = n
    BY <1>1, <2>1
  <2>5. m < n => <<order[m], order[n]>> \in R
    BY <1>1, <2>1, <2>3, <2>4 DEF StrictlyOrders
  <2>6. <<order[m], order[n]>> \in R => m < n
    BY <1>1, <2>1, <2>2
  <2> QED  BY <2>5, <2>6
<1> QED  BY <1>1, <1>8, <1>9, <1>10, <1>11

(* Ascending, the order in which Pick lists places, is a strict order.     *)
LEMMA AscendingOrders ==
  ASSUME NEW S \in SUBSET Nat
  PROVE  StrictlyOrders(Ascending(S), S)
BY DEF StrictlyOrders, Ascending

(* Lexicographic, the order of the places of all parts of all items, is a  *)
(* strict order.                                                           *)
LEMMA LexicographicOrders ==
  ASSUME NEW S \in SUBSET (Nat \X Nat)
  PROVE  StrictlyOrders(Lexicographic(S), S)
<1>1. \A x, y \in S : <<x, y>> \in Lexicographic(S) <=>
        \/ x[1] < y[1]
        \/ x[1] = y[1] /\ x[2] < y[2]
  BY DEF Lexicographic
<1>2. \A x \in S : x[1] \in Nat /\ x[2] \in Nat /\ x = <<x[1], x[2]>>
  OBVIOUS
<1>3. \A x \in S : <<x, x>> \notin Lexicographic(S)
  BY <1>1, <1>2
<1>4. ASSUME NEW x \in S, NEW y \in S, NEW z \in S,
             <<x, y>> \in Lexicographic(S), <<y, z>> \in Lexicographic(S)
      PROVE  <<x, z>> \in Lexicographic(S)
  BY <1>1, <1>2, <1>4
<1>5. ASSUME NEW x \in S, NEW y \in S, x # y
      PROVE  <<x, y>> \in Lexicographic(S) \/ <<y, x>> \in Lexicographic(S)
  BY <1>1, <1>2, <1>5
<1> QED  BY <1>3, <1>4, <1>5 DEF StrictlyOrders

(* Pick keeps the order of the places and lists what is at each of them.   *)
Sorted(places) == InOrder(places, Ascending(places))

PicksInOrder(seq, places, T) ==
  /\ Cardinality(places) \in Nat
  /\ Sorted(places) \in [1 .. Cardinality(places) -> places]
  /\ \A i \in places :
       \E m \in 1 .. Cardinality(places) : Sorted(places)[m] = i
  /\ \A l, m \in 1 .. Cardinality(places) :
       l < m <=> Sorted(places)[l] < Sorted(places)[m]
  /\ Pick(seq, places) \in [1 .. Cardinality(places) -> T]
  /\ \A m \in 1 .. Cardinality(places) :
       Pick(seq, places)[m] = seq[Sorted(places)[m]]

LEMMA PickLists ==
  ASSUME NEW T, NEW n \in Nat, NEW seq \in [1 .. n -> T],
         NEW places \in SUBSET (1 .. n)
  PROVE  PicksInOrder(seq, places, T)
<1> DEFINE order == InOrder(places, Ascending(places))
<1>1. IsFiniteSet(places) /\ places \in SUBSET Nat
  <2>1. IsFiniteSet(1 .. n)
    BY FS_Interval
  <2>2. IsFiniteSet(places)
    BY <2>1, FS_Subset
  <2> QED  BY <2>2
<1>2. StrictlyOrders(Ascending(places), places)
  BY <1>1, AscendingOrders
<1>3. /\ Cardinality(places) \in Nat
      /\ order \in [1 .. Cardinality(places) -> places]
      /\ \A i \in places : \E m \in 1 .. Cardinality(places) : order[m] = i
      /\ \A l, m \in 1 .. Cardinality(places) :
           l < m <=> <<order[l], order[m]>> \in Ascending(places)
  BY <1>1, <1>2, InOrderEnumerates
<1>4. \A l, m \in 1 .. Cardinality(places) :
        <<order[l], order[m]>> \in Ascending(places) <=> order[l] < order[m]
  <2> HIDE DEF order
  <2> QED  BY <1>3 DEF Ascending
<1>5. /\ Pick(seq, places) \in [1 .. Cardinality(places) -> T]
      /\ \A m \in 1 .. Cardinality(places) :
           Pick(seq, places)[m] = seq[order[m]]
  <2>1. Pick(seq, places) = [m \in DOMAIN order |-> seq[order[m]]]
    BY DEF Pick
  <2> HIDE DEF order
  <2> QED  BY <1>3, <2>1
<1> HIDE DEF order
<1>6. \A l, m \in 1 .. Cardinality(places) : l < m <=> order[l] < order[m]
  BY <1>3, <1>4
<1> QED  BY <1>3, <1>5, <1>6 DEF order, Sorted, PicksInOrder

-----------------------------------------------------------------------------
(*                               Scores                                    *)

Lists(signals) ==
  \A w \in DOMAIN signals :
    Len(signals[w]) \in Nat /\ DOMAIN signals[w] = 1 .. Len(signals[w])

(* A table of phrases by weight is worth finitely many points.             *)
LEMMA PointsAreFinite ==
  ASSUME NEW signals, NEW n \in Nat, DOMAIN signals = 1 .. n, Lists(signals)
  PROVE  IsFiniteSet(Points(signals))
<1> DEFINE worth(w) == Range(signals[w]) \X (1 .. w)
           all == {worth(w) : w \in 1 .. n}
<1>1. ASSUME NEW w \in 1 .. n
      PROVE  IsFiniteSet(worth(w))
  <2> DEFINE list == [i \in 1 .. Len(signals[w]) |-> signals[w][i]]
  <2>1. Len(signals[w]) \in Nat /\ DOMAIN signals[w] = 1 .. Len(signals[w])
    BY DEF Lists
  <2>2. list \in Surjection(1 .. Len(signals[w]), Range(signals[w]))
    BY <2>1 DEF Surjection, Range
  <2>3. IsFiniteSet(Range(signals[w])) /\ IsFiniteSet(1 .. w)
    BY <2>1, <2>2, FS_Interval, FS_Surjection
  <2> QED  BY <2>3, FS_Product
<1>2. IsFiniteSet(all)
  <2> HIDE DEF worth
  <2>1. [w \in 1 .. n |-> worth(w)] \in Surjection(1 .. n, all)
    BY DEF Surjection
  <2> HIDE DEF all
  <2> QED  BY <2>1, FS_Interval, FS_Surjection
<1>3. IsFiniteSet(UNION all)
  BY <1>1, <1>2, FS_UNION
<1> QED  BY <1>3 DEF Points

(* The keyword tables of impact.py are finite: Score counts a finite set.  *)
LEMMA FiniteSignals ==
  /\ IsFiniteSet(Points(NegativeSignals))
  /\ IsFiniteSet(Points(ImportantSignals))
  /\ IsFiniteSet(Points(PositiveSignals))
<1>1. DOMAIN NegativeSignals = 1 .. 7 /\ Lists(NegativeSignals)
  BY DEF Lists, NegativeSignals
<1>2. DOMAIN ImportantSignals = 1 .. 6 /\ Lists(ImportantSignals)
  BY DEF Lists, ImportantSignals
<1>3. DOMAIN PositiveSignals = 1 .. 3 /\ Lists(PositiveSignals)
  BY DEF Lists, PositiveSignals
<1> QED  BY <1>1, <1>2, <1>3, PointsAreFinite

(* A text that has all the words of another one scores at least as much    *)
(* (the sums of _collect_signal_hits).                                     *)
LEMMA ScoresGrow ==
  ASSUME NEW signals, IsFiniteSet(Points(signals)), NEW t, NEW u
  PROVE  /\ Score(t, signals) \in Nat
         /\ Words[t] \subseteq Words[u]
              => Score(t, signals) <= Score(u, signals)
<1> DEFINE hits(v) ==
      {p \in Points(signals) :
         \E w \in Words[v] : p[1] = w \/ <<p[1], w>> \in Inside}
<1>1. hits(t) \subseteq Points(signals) /\ hits(u) \subseteq Points(signals)
  OBVIOUS
<1>2. /\ IsFiniteSet(hits(t)) /\ Cardinality(hits(t)) \in Nat
      /\ IsFiniteSet(hits(u)) /\ Cardinality(hits(u)) \in Nat
  <2> HIDE DEF hits
  <2> QED  BY <1>1, FS_Subset, FS_CardinalityType
<1>3. ASSUME Words[t] \subseteq Words[u]
      PROVE  Cardinality(hits(t)) <= Cardinality(hits(u))
  <2>1. hits(t) \subseteq hits(u)
    BY <1>3
  <2> HIDE DEF hits
  <2> QED  BY <1>2, <2>1, FS_Subset
<1> QED  BY <1>2, <1>3 DEF Score

(* The item of a text has natural scores, and no words can lower its       *)
(* positive one.                                                           *)
LEMMA ItemsAreScored ==
  /\ \A t \in Texts : Item[t] \in Items /\ Item[t].text = t
  /\ \A t, u \in Texts :
       Words[t] \subseteq Words[u] => Item[t].positive <= Item[u].positive
<1>1. \A t \in Texts :
        /\ t \in Nat
        /\ Score(t, NegativeSignals) \in Nat
        /\ Score(t, ImportantSignals) \in Nat
        /\ Score(t, PositiveSignals) \in Nat
  BY FiniteSignals, ScoresGrow, TextAssumption
<1>2. \A t, u : Words[t] \subseteq Words[u] =>
        Score(t, PositiveSignals) <= Score(u, PositiveSignals)
  BY FiniteSignals, ScoresGrow
<1> QED  BY <1>1, <1>2 DEF Item, Items

-----------------------------------------------------------------------------
(*                     The key of rank_text_items                          *)

(* The kinds of scores and polarities an item can have.                    *)
LEMMA ScoresAreNat ==
  ASSUME NEW i \in Items, NEW d \in Domains
  PROVE  /\ ImpactScore(i, d) \in Nat
         /\ SortScore(i, d) \in Nat
         /\ PolarityOrder(i, d) \in Nat
         /\ Material(i, d) \in BOOLEAN
BY DEF Items, Domains, ImpactScore, SortScore, PolarityOrder, Polarity,
       Adverse, Material

(* The sort key is a strict order in which items with different texts are  *)
(* never tied: a list without duplicates has exactly one ranking, whatever *)
(* order its items come in.                                                *)
THEOREM BeforeIsStrictTotalOrder ==
  ASSUME NEW d \in Domains
  PROVE  /\ \A i \in Items : ~ Before(i, i, d)
         /\ \A i, j, k \in Items :
              Before(i, j, d) /\ Before(j, k, d) => Before(i, k, d)
         /\ \A i, j \in Items :
              i.text # j.text => Before(i, j, d) \/ Before(j, i, d)
<1>1. \A i \in Items : i.text \in Nat
  BY DEF Items
<1> QED
  BY <1>1, ScoresAreNat DEF Before

(* In the news only an adverse item can be material, however much good     *)
(* news its text contains.                                                 *)
THEOREM MaterialNewsIsAdverse ==
  ASSUME NEW i \in Items, Material(i, "news")
  PROVE  Adverse(i)
BY DEF Items, Material, ImpactScore, Polarity, Adverse

(* An adverse item of the news comes before every other one.               *)
THEOREM AdverseNewsIsBefore ==
  ASSUME NEW i \in Items, NEW j \in Items, Adverse(i), ~ Adverse(j)
  PROVE  Before(i, j, "news")
<1>1. PolarityOrder(i, "news") = 0
  BY DEF PolarityOrder, Polarity
<1>2. PolarityOrder(j, "news") \in {1, 2}
  BY DEF PolarityOrder, Polarity
<1>3. ~ Material(j, "news")
  BY MaterialNewsIsAdverse
<1> QED
  BY <1>1, <1>2, <1>3, ScoresAreNat DEF Before, Domains

(* Adverse weight moves an item up, in the news and in litigation, unless  *)
(* it takes good news away.                                                *)
THEOREM MoreAdverseIsBefore ==
  ASSUME NEW d \in Domains, NEW i \in Items, NEW j \in Items,
         i.positive >= j.positive,
         i.negative + i.important > j.negative + j.important
  PROVE  Before(i, j, d)
<1>1. /\ Adverse(i)
      /\ i.negative \in Nat /\ i.important \in Nat /\ i.positive \in Nat
      /\ j.negative \in Nat /\ j.important \in Nat /\ j.positive \in Nat
  BY DEF Items, Adverse
<1>2. ImpactScore(i, d) > ImpactScore(j, d)
  BY <1>1 DEF ImpactScore, Domains
<1>3. Polarity(i, d) = "negative"
  BY <1>1 DEF Polarity
<1>4. Material(j, d) => Material(i, d)
  BY <1>2, <1>3, ScoresAreNat DEF Material, Domains
<1>5. PolarityOrder(i, d) = 0
  BY <1>3 DEF PolarityOrder
<1>6. SortScore(i, d) > SortScore(j, d)
  BY <1>2, <1>3, ScoresAreNat DEF SortScore
<1> QED
  BY <1>4, <1>5, <1>6, ScoresAreNat DEF Before

-----------------------------------------------------------------------------
(*                     Splitting and deduplicating                         *)

(* An item is split into its long parts, or left whole when it has none.   *)
LEMMA NormalizeTextItemLists ==
  ASSUME NEW t \in Texts
  PROVE  /\ \E n \in Nat : NormalizeTextItem(t) \in [1 .. n -> Texts]
         /\ Range(NormalizeTextItem(t)) =
              IF LongParts(t) = {} THEN {t} ELSE Range(Parts[t]) \ Short
<1>1. CASE LongParts(t) = {}
  <2>1. NormalizeTextItem(t) = <<t>>
    BY <1>1 DEF NormalizeTextItem
  <2>2. <<t>> \in [1 .. 1 -> Texts] /\ Range(<<t>>) = {t}
    BY DEF Range
  <2> QED  BY <1>1, <2>1, <2>2
<1>2. CASE LongParts(t) # {}
  <2> DEFINE parts == Parts[t]
             long == LongParts(t)
  <2>1. PICK n \in Nat : parts \in [1 .. n -> Texts]
    <3>1. parts \in Seq(Texts)
      BY TextAssumption
    <3> QED  BY <3>1, LenProperties
  <2>2. NormalizeTextItem(t) = Pick(parts, long)
    BY <1>2 DEF NormalizeTextItem
  <2>3. long \in SUBSET (1 .. n)
    BY <2>1 DEF LongParts
  <2> HIDE DEF long
  <2>4. PicksInOrder(parts, long, Texts)
    BY <2>1, <2>3, PickLists
  <2>5. Range(Pick(parts, long)) = {parts[i] : i \in long}
    <3> HIDE DEF parts
    <3> QED  BY <2>4 DEF PicksInOrder, Range
  <2>6. {parts[i] : i \in long} = Range(parts) \ Short
    BY <2>1 DEF Range, LongParts, long
  <2> QED  BY <1>2, <2>2, <2>4, <2>5, <2>6 DEF PicksInOrder, long
<1> QED  BY <1>1, <1>2

(* A finite set of places has a first one.                                 *)
LEMMA FirstPlace ==
  ASSUME NEW S \in SUBSET (Nat \X Nat), IsFiniteSet(S), S # {}
  PROVE  \E p \in S : \A q \in S : <<q, p>> \notin Lexicographic(S)
<1> DEFINE R == Lexicographic(S)
           p == InOrder(S, R)[1]
<1>1. StrictlyOrders(R, S)
  BY LexicographicOrders
<1>2. Cardinality(S) \in Nat /\ Cardinality(S) # 0
  BY FS_CardinalityType, FS_EmptySet
<1>3. 1 \in 1 .. Cardinality(S)
  BY <1>2
<1> HIDE DEF R
<1>4. p \in S /\ Cardinality(Preceding(p, S, R)) = 0
  BY <1>1, <1>3, InOrderEnumerates
<1>5. Preceding(p, S, R) = {}
  BY <1>4, PrecedingIsFinite, FS_EmptySet
<1>6. \A q \in S : <<q, p>> \notin R
  BY <1>5 DEF Preceding
<1> QED  BY <1>4, <1>6 DEF R

(* Every text that the items are split into is listed once.                *)
LEMMA NormalizeTextListLists ==
  ASSUME NEW seq \in Seq(Texts)
  PROVE  /\ \E n \in Nat : NormalizeTextList(seq) \in [1 .. n -> Texts]
         /\ IsInjective(NormalizeTextList(seq))
         /\ Range(NormalizeTextList(seq)) =
              UNION {Range(NormalizeTextItem(t)) : t \in Range(seq)}
<1> DEFINE of == [i \in DOMAIN seq |-> NormalizeTextItem(seq[i])]
           all == Places(seq)
           text(p) == of[p[1]][p[2]]
           first == {p \in all : \A q \in all : <<q, p>> \in Lexicographic(all)
                                                  => text(q) # text(p)}
           R == Lexicographic(first)
           order == InOrder(first, R)
           list == [m \in DOMAIN order |-> text(order[m])]
<1>1. PICK n \in Nat :
         DOMAIN seq = 1 .. n /\ \A i \in 1 .. n : seq[i] \in Texts
  BY LenProperties
<1>2. \A i \in 1 .. n : \E m \in Nat : of[i] \in [1 .. m -> Texts]
  BY <1>1, NormalizeTextItemLists
<1>3. \A i, j : <<i, j>> \in all <=> i \in 1 .. n /\ j \in DOMAIN of[i]
  BY <1>1 DEF Places
<1>4. \A p \in all :
        p[1] \in 1 .. n /\ p[2] \in DOMAIN of[p[1]] /\ p = <<p[1], p[2]>>
  BY <1>1 DEF Places
<1>5. all \in SUBSET (Nat \X Nat) /\ IsFiniteSet(all)
  <2> DEFINE row(i) == {i} \X DOMAIN of[i]
             rows == {row(i) : i \in 1 .. n}
  <2>1. all = UNION rows
    BY <1>1 DEF Places
  <2>2. ASSUME NEW i \in 1 .. n
        PROVE  IsFiniteSet(row(i)) /\ row(i) \subseteq Nat \X Nat
    <3>1. PICK m \in Nat : DOMAIN of[i] = 1 .. m
      BY <1>2
    <3>2. IsFiniteSet({i})
      BY FS_Singleton
    <3>3. IsFiniteSet(1 .. m)
      BY FS_Interval
    <3> HIDE DEF of
    <3>4. IsFiniteSet({i} \X (1 .. m))
      BY <3>2, <3>3, FS_Product
    <3> QED  BY <3>1, <3>4
  <2>3. IsFiniteSet(rows)
    <3> HIDE DEF row
    <3>1. [i \in 1 .. n |-> row(i)] \in Surjection(1 .. n, rows)
      BY DEF Surjection
    <3> HIDE DEF rows
    <3> QED  BY <3>1, FS_Interval, FS_Surjection
  <2>4. IsFiniteSet(UNION rows)
    <3> HIDE DEF row
    <3>1. \A r \in rows : IsFiniteSet(r)
      BY <2>2
    <3> HIDE DEF rows
    <3> QED  BY <2>3, <3>1, FS_UNION
  <2>5. UNION rows \subseteq Nat \X Nat
    <3> HIDE DEF row
    <3> QED  BY <2>2
  <2> HIDE DEF all, rows
  <2> QED  BY <2>1, <2>4, <2>5
<1>6. \A p \in all : text(p) \in Texts
  BY <1>1, <1>2, <1>4
<1>7. NormalizeTextList(seq) = list
  BY DEF NormalizeTextList
<1>8. first \subseteq all /\ IsFiniteSet(first) /\ first \in SUBSET (Nat \X Nat)
  <2>1. first \subseteq all
    OBVIOUS
  <2> HIDE DEF first
  <2> QED  BY <1>5, <2>1, FS_Subset
<1>9. /\ Cardinality(first) \in Nat
      /\ order \in [1 .. Cardinality(first) -> first]
      /\ \A p \in first : \E m \in 1 .. Cardinality(first) : order[m] = p
      /\ \A l, m \in 1 .. Cardinality(first) :
           l < m <=> <<order[l], order[m]>> \in R
  <2> HIDE DEF first
  <2>1. StrictlyOrders(R, first)
    BY <1>8, LexicographicOrders
  <2> HIDE DEF R
  <2> QED  BY <1>8, <2>1, InOrderEnumerates
<1>10. list \in [1 .. Cardinality(first) -> Texts]
  <2> HIDE DEF order, all, text, first
  <2> QED  BY <1>6, <1>8, <1>9
<1>11. \A p, q \in first : text(p) = text(q) => p = q
  <2>1. StrictlyOrders(Lexicographic(all), all)
    BY <1>5, LexicographicOrders
  <2> HIDE DEF all, text
  <2> QED  BY <2>1 DEF StrictlyOrders
<1>12. IsInjective(list)
  <2> SUFFICES ASSUME NEW l \in 1 .. Cardinality(first),
                      NEW m \in 1 .. Cardinality(first), list[l] = list[m]
               PROVE  l = m
    <3> HIDE DEF list, first
    <3> QED  BY <1>10 DEF IsInjective
  <2>1. order[l] = order[m]
    <3> HIDE DEF order, text, first
    <3> QED  BY <1>9, <1>11
  <2>2. <<order[l], order[l]>> \notin R
    BY <1>8, <1>9, LexicographicOrders DEF StrictlyOrders
  <2> HIDE DEF order, R, first
  <2> QED  BY <1>9, <2>1, <2>2
<1>13. \A p \in all : \E q \in first : text(q) = text(p)
  <2> SUFFICES ASSUME NEW p \in all
               PROVE  \E q \in first : text(q) = text(p)
    OBVIOUS
  <2> DEFINE same == {q \in all : text(q) = text(p)}
  <2>1. same \in SUBSET (Nat \X Nat) /\ IsFiniteSet(same) /\ same # {}
    <3>1. same \subseteq all /\ p \in same
      OBVIOUS
    <3> HIDE DEF same, all
    <3> QED  BY <1>5, <3>1, FS_Subset
  <2>2. PICK q \in same : \A r \in same : <<r, q>> \notin Lexicographic(same)
    <3> HIDE DEF same
    <3> QED  BY <2>1, FirstPlace
  <2>3. \A r \in same : <<r, q>> \notin Lexicographic(all)
    <3> HIDE DEF all, text
    <3> QED  BY <2>2 DEF Lexicographic
  <2> HIDE DEF all, text
  <2> QED  BY <2>3
<1>14. Range(list) = {text(p) : p \in all}
  <2> HIDE DEF order, text, first, all
  <2>1. Range(list) = {text(order[m]) : m \in 1 .. Cardinality(first)}
    BY <1>9 DEF Range
  <2>2. {text(order[m]) : m \in 1 .. Cardinality(first)}
          = {text(p) : p \in first}
    BY <1>9
  <2>3. {text(p) : p \in first} = {text(p) : p \in all}
    BY <1>8, <1>13
  <2> QED  BY <2>1, <2>2, <2>3
<1>15. {text(p) : p \in all}
         = UNION {Range(NormalizeTextItem(t)) : t \in Range(seq)}
  <2>1. ASSUME NEW p \in all
        PROVE  text(p) \in Range(NormalizeTextItem(seq[p[1]]))
                 /\ seq[p[1]] \in Range(seq)
    BY <1>1, <1>4 DEF Range
  <2>2. ASSUME NEW t \in Range(seq), NEW u \in Range(NormalizeTextItem(t))
        PROVE  \E p \in all : text(p) = u
    <3>1. PICK i \in 1 .. n : seq[i] = t
      BY <1>1 DEF Range
    <3>2. PICK j \in DOMAIN of[i] : of[i][j] = u
      BY <1>1, <3>1 DEF Range
    <3>3. <<i, j>> \in all
      BY <1>3, <3>2
    <3> QED  BY <3>2, <3>3
  <2> HIDE DEF all, text
  <2> QED  BY <2>1, <2>2
<1> HIDE DEF list, first
<1> QED  BY <1>7, <1>9, <1>10, <1>12, <1>14, <1>15

-----------------------------------------------------------------------------
(*                               Ranking                                   *)

(* ranked lists the texts of S, each once and in the order of the key.     *)
IsRanking(ranked, S, d) ==
  /\ \E n \in Nat : ranked \in [1 .. n -> S]
  /\ Range(ranked) = S
  /\ \A j, k \in DOMAIN ranked :
       j < k <=> Before(Item[ranked[j]], Item[ranked[k]], d)

(* Different texts are never tied in the key of rank_text_items.           *)
LEMMA TextsAreOrdered ==
  ASSUME NEW d \in Domains
  PROVE  /\ \A t \in Texts : ~ Before(Item[t], Item[t], d)
         /\ \A t, u, v \in Texts :
              Before(Item[t], Item[u], d) /\ Before(Item[u], Item[v], d)
                => Before(Item[t], Item[v], d)
         /\ \A t, u \in Texts :
              t # u => \/ Before(Item[t], Item[u], d)
                       \/ Before(Item[u], Item[t], d)
BY ItemsAreScored, BeforeIsStrictTotalOrder

(* What rank_text_items returns for a list without duplicates is a ranking *)
(* of the texts that are not empty.                                        *)
LEMMA RankTextItemsRanks ==
  ASSUME domain \in Domains,
         NEW n \in Nat, NEW texts \in [1 .. n -> Texts], IsInjective(texts)
  PROVE  IsRanking(RankTextItems(texts), Range(texts) \ {EmptyText}, domain)
<1> DEFINE of == [k \in DOMAIN texts |-> Item[texts[k]]]
           kept == {k \in DOMAIN texts : texts[k] # EmptyText}
           precedes ==
             {p \in kept \X kept :
                \/ Before(of[p[1]], of[p[2]], domain)
                \/ ~ Before(of[p[2]], of[p[1]], domain) /\ p[1] < p[2]}
           order == InOrder(kept, precedes)
           ranked == [m \in DOMAIN order |-> texts[order[m]]]
           R(j, k) == Before(Item[texts[j]], Item[texts[k]], domain)
<1>1. RankTextItems(texts) = ranked
  BY DEF RankTextItems
<1>2. kept \in SUBSET (1 .. n) /\ IsFiniteSet(kept)
  <2>1. kept \in SUBSET (1 .. n) /\ IsFiniteSet(1 .. n)
    BY FS_Interval
  <2> HIDE DEF kept
  <2> QED  BY <2>1, FS_Subset
<1>3. /\ \A j \in kept : ~ R(j, j)
      /\ \A j, k, l \in kept : R(j, k) /\ R(k, l) => R(j, l)
      /\ \A j, k \in kept : j # k => R(j, k) \/ R(k, j)
  <2>1. \A j \in kept : texts[j] \in Texts
    BY <1>2
  <2>2. \A j, k \in kept : j # k => texts[j] # texts[k]
    BY <1>2 DEF IsInjective
  <2> HIDE DEF kept
  <2> QED  BY <2>1, <2>2, TextsAreOrdered
<1>4. \A j, k \in kept : <<j, k>> \in precedes <=> R(j, k)
  <2>1. \A j \in kept : of[j] = Item[texts[j]] /\ j \in Nat
    BY <1>2
  <2>2. \A j, k \in kept : <<j, k>> \in precedes <=>
          \/ R(j, k)
          \/ ~ R(k, j) /\ j < k
    <3>1. \A j, k \in kept : <<j, k>> \in precedes <=>
            \/ Before(of[j], of[k], domain)
            \/ ~ Before(of[k], of[j], domain) /\ j < k
      <4> HIDE DEF kept, of
      <4> QED  OBVIOUS
    <3> HIDE DEF kept, of, precedes
    <3> QED  BY <2>1, <3>1
  <2>3. \A j, k \in kept : j < k => j # k
    BY <2>1
  <2> HIDE DEF kept, precedes
  <2> QED  BY <1>3, <2>2, <2>3
<1>5. StrictlyOrders(precedes, kept)
  <2> HIDE DEF kept, precedes, R
  <2> QED  BY <1>3, <1>4 DEF StrictlyOrders
<1>6. /\ Cardinality(kept) \in Nat
      /\ order \in [1 .. Cardinality(kept) -> kept]
      /\ \A k \in kept : \E m \in 1 .. Cardinality(kept) : order[m] = k
      /\ \A l, m \in 1 .. Cardinality(kept) :
           l < m <=> <<order[l], order[m]>> \in precedes
  <2> HIDE DEF kept, precedes
  <2> QED  BY <1>2, <1>5, InOrderEnumerates
<1>7. Range(texts) \ {EmptyText} = {texts[k] : k \in kept}
  BY DEF Range
<1>8. ranked \in [1 .. Cardinality(kept) -> {texts[k] : k \in kept}]
  <2> HIDE DEF kept, order
  <2> QED  BY <1>6
<1>9. Range(ranked) = {texts[k] : k \in kept}
  <2> HIDE DEF kept, order
  <2> QED  BY <1>6 DEF Range
<1>10. \A j, k \in 1 .. Cardinality(kept) :
         j < k <=> Before(Item[ranked[j]], Item[ranked[k]], domain)
  <2>1. \A j \in 1 .. Cardinality(kept) :
          ranked[j] = texts[order[j]] /\ order[j] \in kept
    <3> HIDE DEF kept, order
    <3> QED  BY <1>6
  <2> HIDE DEF kept, order, precedes, ranked
  <2> QED  BY <1>4, <1>6, <2>1
<1> HIDE DEF kept, ranked
<1>11. DOMAIN ranked = 1 .. Cardinality(kept)
  BY <1>8
<1> QED
  BY <1>1, <1>6, <1>7, <1>8, <1>9, <1>10, <1>11 DEF IsRanking

(* A set of texts has exactly one ranking.                                 *)
LEMMA RankingIsUnique ==
  ASSUME NEW d \in Domains, NEW S \in SUBSET Texts, NEW r, NEW s,
         IsRanking(r, S, d), IsRanking(s, S, d)
  PROVE  r = s
<1> DEFINE R == {p \in S \X S : Before(Item[p[1]], Item[p[2]], d)}
<1>1. StrictlyOrders(R, S)
  <2>1. \A t, u \in S : <<t, u>> \in R <=> Before(Item[t], Item[u], d)
    OBVIOUS
  <2> HIDE DEF R
  <2> QED  BY <2>1, TextsAreOrdered DEF StrictlyOrders
<1>2. \A t, u \in S : <<t, u>> \in R <=> Before(Item[t], Item[u], d)
  OBVIOUS
<1> HIDE DEF R
<1>3. ASSUME NEW q, IsRanking(q, S, d)
      PROVE  /\ IsFiniteSet(S) /\ q \in [1 .. Cardinality(S) -> S]
             /\ \A k \in 1 .. Cardinality(S) :
                  Cardinality(Preceding(q[k], S, R)) = k - 1
  <2>1. PICK n \in Nat : q \in [1 .. n -> S]
    BY <1>3 DEF IsRanking
  <2>2. /\ \A t \in S : \E k \in 1 .. n : q[k] = t
        /\ \A j, k \in 1 .. n : j < k <=> <<q[j], q[k]>> \in R
    BY <1>2, <1>3, <2>1 DEF IsRanking, Range
  <2>3. ASSUME NEW j \in 1 .. n, NEW k \in 1 .. n, q[j] = q[k]
        PROVE  j = k
    <3>1. ~ (j < k) /\ ~ (k < j)
      BY <1>1, <2>1, <2>2, <2>3 DEF StrictlyOrders
    <3> QED  BY <3>1
  <2>4. q \in Surjection(1 .. n, S) /\ q \in Injection(1 .. n, S)
    BY <2>1, <2>2, <2>3 DEF Surjection, Injection, IsInjective
  <2>5. IsFiniteSet(1 .. n) /\ Cardinality(1 .. n) = n
    BY FS_Interval
  <2>6. IsFiniteSet(S) /\ Cardinality(S) = n
    BY <2>4, <2>5, FS_Surjection
  <2>7. ASSUME NEW k \in 1 .. n
        PROVE  Cardinality(Preceding(q[k], S, R)) = k - 1
    <3> DEFINE before == [j \in 1 .. k - 1 |-> q[j]]
               T == Preceding(q[k], S, R)
    <3>1. T = {q[j] : j \in 1 .. k - 1}
      <4>1. \A t \in T : \E j \in 1 .. k - 1 : t = q[j]
        <5> SUFFICES ASSUME NEW t \in S, <<t, q[k]>> \in R
                     PROVE  \E j \in 1 .. k - 1 : t = q[j]
          BY DEF Preceding
        <5>1. PICK j \in 1 .. n : q[j] = t
          BY <2>2
        <5>2. j < k
          BY <2>2, <5>1
        <5> QED  BY <5>1, <5>2
      <4>2. \A j \in 1 .. k - 1 : j \in 1 .. n /\ j < k
        OBVIOUS
      <4>3. \A j \in 1 .. k - 1 : q[j] \in T
        BY <2>1, <2>2, <4>2 DEF Preceding
      <4> HIDE DEF T
      <4> QED  BY <4>1, <4>3
    <3>2. \A j \in 1 .. k - 1 : j \in 1 .. n
      OBVIOUS
    <3>3. before \in Surjection(1 .. k - 1, T)
      <4> HIDE DEF T
      <4> QED  BY <3>1 DEF Surjection
    <3>4. before \in Injection(1 .. k - 1, T)
      <4> HIDE DEF T
      <4> QED  BY <2>3, <3>1, <3>2 DEF Injection, IsInjective
    <3>5. IsFiniteSet(1 .. k - 1) /\ Cardinality(1 .. k - 1) = k - 1
      BY FS_Interval
    <3> HIDE DEF T
    <3>6. Cardinality(T) = k - 1
      BY <3>3, <3>4, <3>5, FS_Surjection
    <3> QED  BY <3>6 DEF T
  <2> QED  BY <2>1, <2>6, <2>7
<1>4. \A k \in 1 .. Cardinality(S) : r[k] = s[k]
  <2> SUFFICES ASSUME NEW k \in 1 .. Cardinality(S)
               PROVE  r[k] = s[k]
    OBVIOUS
  <2>1. /\ IsFiniteSet(S) /\ r[k] \in S /\ s[k] \in S
        /\ Cardinality(Preceding(r[k], S, R))
             = Cardinality(Preceding(s[k], S, R))
    BY <1>3
  <2>2. <<r[k], s[k]>> \notin R /\ <<s[k], r[k]>> \notin R
    BY <1>1, <2>1, PrecedingGrows, PrecedingIsFinite
  <2> QED  BY <1>1, <2>1, <2>2 DEF StrictlyOrders
<1>5. r \in [1 .. Cardinality(S) -> S] /\ s \in [1 .. Cardinality(S) -> S]
  BY <1>3
<1> DEFINE N == 1 .. Cardinality(S)
<1> HIDE DEF N
<1>6. r \in [N -> S] /\ s \in [N -> S] /\ \A k \in N : r[k] = s[k]
  BY <1>4, <1>5 DEF N
<1> QED  BY <1>6

-----------------------------------------------------------------------------
(*                           The brief                                     *)

(* What the items are split into.                                          *)
SplitInto(seq) == UNION {Range(NormalizeTextItem(t)) : t \in Range(seq)}

(* A list without duplicates is as long as its texts are many.             *)
LEMMA LengthOfList ==
  ASSUME NEW n \in Nat, NEW list \in [1 .. n -> Texts], IsInjective(list)
  PROVE  Len(list) = Cardinality(Range(list))
<1>1. list \in Seq(Texts)
  BY SeqDef
<1>2. Len(list) \in Nat /\ DOMAIN list = 1 .. Len(list)
  BY <1>1, LenProperties
<1> DEFINE length == Len(list)
<1> HIDE DEF length
<1>3. length \in Nat /\ DOMAIN list = 1 .. length
  BY <1>2 DEF length
<1>4. list \in Surjection(1 .. length, Range(list))
  BY <1>3 DEF Surjection, Range
<1>5. list \in Injection(1 .. length, Range(list))
  BY <1>3, <1>4 DEF Surjection, Injection
<1>6. IsFiniteSet(1 .. length) /\ Cardinality(1 .. length) = length
  BY <1>3, FS_Interval
<1> QED  BY <1>4, <1>5, <1>6, FS_Surjection DEF length

(* The counted texts and the ranking are those of a set of texts.          *)
LEMMA DossierRanks ==
  ASSUME domain \in Domains, NEW seq \in Seq(Texts)
  PROVE  /\ SplitInto(seq) \subseteq Texts
         /\ Dossier(seq).count = Cardinality(SplitInto(seq))
         /\ IsRanking(Dossier(seq).ranked, SplitInto(seq) \ {EmptyText}, domain)
<1> DEFINE texts == NormalizeTextList(seq)
<1>1. PICK n \in Nat : texts \in [1 .. n -> Texts]
  BY NormalizeTextListLists
<1>2. IsInjective(texts) /\ Range(texts) = SplitInto(seq)
  BY NormalizeTextListLists DEF SplitInto
<1>3. /\ Dossier(seq).count = Len(texts)
      /\ Dossier(seq).ranked = RankTextItems(texts)
  BY DEF Dossier
<1> HIDE DEF texts
<1>4. SplitInto(seq) \subseteq Texts
  BY <1>1, <1>2 DEF Range
<1> QED  BY <1>1, <1>2, <1>3, <1>4, LengthOfList, RankTextItemsRanks

(* Items of the same texts get the same brief.                             *)
LEMMA DossierOfTheSameTexts ==
  ASSUME domain \in Domains, NEW seq \in Seq(Texts), NEW other \in Seq(Texts),
         Range(seq) = Range(other)
  PROVE  Dossier(seq) = Dossier(other)
<1>1. SplitInto(seq) = SplitInto(other)
  BY DEF SplitInto
<1>2. Dossier(seq).count = Dossier(other).count
  BY <1>1, DossierRanks
<1>3. Dossier(seq).ranked = Dossier(other).ranked
  BY <1>1, DossierRanks, RankingIsUnique
<1>4. /\ Dossier(seq).count = Len(NormalizeTextList(seq))
      /\ Dossier(other).count = Len(NormalizeTextList(other))
      /\ Dossier(seq).ranked = RankTextItems(NormalizeTextList(seq))
      /\ Dossier(other).ranked = RankTextItems(NormalizeTextList(other))
  BY DEF Dossier
<1> QED  BY <1>2, <1>3, <1>4 DEF Dossier

(* What holds of the state: the brief, once there, is that of the items.   *)
FocusInv ==
  /\ domain \in Domains
  /\ items \in Seq(Texts)
  /\ dossier \in {NoDossier, Dossier(items)}

(* The inductive invariant of the module.                                  *)
LEMMA FocusInvariant == Spec => []FocusInv
<1>1. Init => FocusInv
  <2>1. UNION {[1 .. n -> Texts] : n \in 0 .. MaxItems} \subseteq Seq(Texts)
    BY SeqDef, ItemsAssumption
  <2> QED  BY <2>1 DEF Init, FocusInv
<1>2. FocusInv /\ [Next]_vars => FocusInv'
  <2> SUFFICES ASSUME FocusInv, [Next]_vars
               PROVE  FocusInv'
    OBVIOUS
  <2>1. items' = items /\ domain' = domain
    BY DEF Next, Synthesize, vars
  <2>2. Dossier(items)' = Dossier(items)
    BY <2>1 DEF Dossier, RankTextItems
  <2>3. dossier' \in {dossier, Dossier(items)}
    BY DEF Next, Synthesize, vars
  <2> QED  BY <2>1, <2>2, <2>3 DEF FocusInv, NoDossier
<1> QED  BY <1>1, <1>2, PTL DEF Spec

(* The order in which an agent found its items has no influence on the     *)
(* brief.                                                                  *)
THEOREM OrderOfItemsIsIrrelevantHolds == Spec => []OrderOfItemsIsIrrelevant
<1>1. FocusInv => OrderOfItemsIsIrrelevant
  <2> SUFFICES ASSUME FocusInv, dossier # NoDossier,
                      NEW p \in Bijection(DOMAIN items, DOMAIN items)
               PROVE  Dossier([k \in DOMAIN items |-> items[p[k]]]) = dossier
    BY DEF OrderOfItemsIsIrrelevant, Synthesized
  <2> DEFINE other == [k \in DOMAIN items |-> items[p[k]]]
  <2>1. PICK n \in Nat : items \in [1 .. n -> Texts]
    BY LenProperties DEF FocusInv
  <2>2. /\ p \in [1 .. n -> 1 .. n]
        /\ \A k \in 1 .. n : \E j \in 1 .. n : p[j] = k
    BY <2>1 DEF Bijection, Injection, Surjection
  <2>3. other \in [1 .. n -> Texts]
    BY <2>1, <2>2
  <2>4. Range(other) = Range(items)
    BY <2>1, <2>2 DEF Range
  <2> HIDE DEF other
  <2>5. other \in Seq(Texts)
    BY <2>3, SeqDef
  <2>6. Dossier(other) = Dossier(items)
    BY <2>4, <2>5, DossierOfTheSameTexts DEF FocusInv
  <2> QED  BY <2>6 DEF FocusInv, other
<1> QED  BY <1>1, FocusInvariant, PTL

(* More adverse signals never move a text down.                            *)
THEOREM AdverseSignalNeverDemotesHolds == Spec => []AdverseSignalNeverDemotes
<1>1. FocusInv => AdverseSignalNeverDemotes
  <2> SUFFICES ASSUME FocusInv, dossier # NoDossier,
                      NEW j \in DOMAIN dossier.ranked,
                      NEW k \in DOMAIN dossier.ranked,
                      Words[dossier.ranked[j]]
                        \subseteq Words[dossier.ranked[k]],
                      Item[dossier.ranked[k]].negative
                        + Item[dossier.ranked[k]].important
                        > Item[dossier.ranked[j]].negative
                            + Item[dossier.ranked[j]].important
               PROVE  k < j
    BY DEF AdverseSignalNeverDemotes, Synthesized
  <2> DEFINE t == dossier.ranked[j]  u == dossier.ranked[k]
  <2>1. PICK S \in SUBSET Texts : IsRanking(dossier.ranked, S, domain)
    BY DossierRanks DEF FocusInv
  <2>2. t \in Texts /\ u \in Texts
    BY <2>1 DEF IsRanking
  <2>3. Before(Item[u], Item[t], domain)
    BY <2>2, ItemsAreScored, MoreAdverseIsBefore DEF FocusInv
  <2> QED  BY <2>1, <2>3 DEF IsRanking
<1> QED  BY <1>1, FocusInvariant, PTL

Joins(list, s, a, t, b, T) ==
  /\ list \in [1 .. a + b -> T]
  /\ \A i \in 1 .. a : list[i] = s[i]
  /\ \A i \in 1 .. b : list[a + i] = t[i]

(* What \o makes of two lists.                                             *)
LEMMA ConcatLists ==
  ASSUME NEW T, NEW a \in Nat, NEW b \in Nat,
         NEW s \in [1 .. a -> T], NEW t \in [1 .. b -> T]
  PROVE  Joins(s \o t, s, a, t, b, T)
<1>1. s \in Seq(T) /\ t \in Seq(T)
  BY SeqDef
<1>2. Len(s) = a /\ Len(t) = b
  OBVIOUS
<1>3. /\ s \o t \in Seq(T) /\ Len(s \o t) = a + b
      /\ \A i \in 1 .. a + b :
           (s \o t)[i] = IF i <= a THEN s[i] ELSE t[i - a]
  BY <1>1, <1>2, ConcatProperties
<1>4. s \o t \in [1 .. a + b -> T]
  BY <1>3, LenProperties
<1>5. \A i \in 1 .. a : i \in 1 .. a + b /\ i <= a
  OBVIOUS
<1>6. \A i \in 1 .. b :
        a + i \in 1 .. a + b /\ ~ (a + i <= a) /\ (a + i) - a = i
  OBVIOUS
<1> QED  BY <1>3, <1>4, <1>5, <1>6 DEF Joins

Divided(list, M, n) == Pick(list, M) \o Pick(list, (1 .. n) \ M)

(* Dividing a list loses and repeats nothing.                              *)
LEMMA DividedListsAll ==
  ASSUME NEW T, NEW n \in Nat, NEW list \in [1 .. n -> T], IsInjective(list),
         NEW M \in SUBSET (1 .. n)
  PROVE  /\ IsInjective(Divided(list, M, n))
         /\ Range(Divided(list, M, n)) = Range(list)
<1> DEFINE C == (1 .. n) \ M
           a == Cardinality(M)
           b == Cardinality(C)
           listed == Pick(list, M) \o Pick(list, C)
           place(i) == IF i <= a THEN Sorted(M)[i] ELSE Sorted(C)[i - a]
<1>1. PicksInOrder(list, M, T) /\ PicksInOrder(list, C, T)
  BY PickLists
<1>2. M \cup C = 1 .. n /\ M \cap C = {}
  OBVIOUS
<1> HIDE DEF C
<1>3. /\ a \in Nat /\ b \in Nat
      /\ Pick(list, M) \in [1 .. a -> T] /\ Pick(list, C) \in [1 .. b -> T]
  BY <1>1 DEF PicksInOrder
<1>4. /\ Sorted(M) \in [1 .. a -> M] /\ Sorted(C) \in [1 .. b -> C]
      /\ \A i \in M : \E m \in 1 .. a : Sorted(M)[m] = i
      /\ \A i \in C : \E m \in 1 .. b : Sorted(C)[m] = i
      /\ \A m \in 1 .. a : Pick(list, M)[m] = list[Sorted(M)[m]]
      /\ \A m \in 1 .. b : Pick(list, C)[m] = list[Sorted(C)[m]]
  BY <1>1 DEF PicksInOrder
<1>5. \A l, m \in 1 .. a : Sorted(M)[l] = Sorted(M)[m] => l = m
  <2>1. \A l, m \in 1 .. a : l < m <=> Sorted(M)[l] < Sorted(M)[m]
    BY <1>1 DEF PicksInOrder
  <2>2. \A m \in 1 .. a : Sorted(M)[m] \in Nat
    BY <1>2, <1>4
  <2> HIDE DEF a
  <2> QED  BY <1>3, <2>1, <2>2
<1>6. \A l, m \in 1 .. b : Sorted(C)[l] = Sorted(C)[m] => l = m
  <2>1. \A l, m \in 1 .. b : l < m <=> Sorted(C)[l] < Sorted(C)[m]
    BY <1>1 DEF PicksInOrder
  <2>2. \A m \in 1 .. b : Sorted(C)[m] \in Nat
    BY <1>2, <1>4
  <2> HIDE DEF b
  <2> QED  BY <1>3, <2>1, <2>2
<1> HIDE DEF a, b
<1>7. /\ listed \in [1 .. a + b -> T]
      /\ \A i \in 1 .. a : listed[i] = Pick(list, M)[i]
      /\ \A i \in 1 .. b : listed[a + i] = Pick(list, C)[i]
  <2>1. Joins(listed, Pick(list, M), a, Pick(list, C), b, T)
    BY <1>3, ConcatLists
  <2> HIDE DEF listed
  <2> QED  BY <2>1 DEF Joins
<1>8. \A i \in 1 .. a + b :
        i \in 1 .. a \/ (i - a \in 1 .. b /\ a + (i - a) = i)
  BY <1>3
<1> HIDE DEF listed
<1>9. \A i \in 1 .. a + b : listed[i] = list[place(i)] /\ place(i) \in 1 .. n
  <2> SUFFICES ASSUME NEW i \in 1 .. a + b
               PROVE  listed[i] = list[place(i)] /\ place(i) \in 1 .. n
    OBVIOUS
  <2>1. CASE i \in 1 .. a
    BY <1>2, <1>3, <1>4, <1>7, <2>1
  <2>2. CASE i \notin 1 .. a
    <3>1. ~ (i <= a) /\ i - a \in 1 .. b /\ a + (i - a) = i
      BY <1>3, <1>8, <2>2
    <3>2. listed[i] = list[Sorted(C)[i - a]] /\ Sorted(C)[i - a] \in 1 .. n
      BY <1>2, <1>4, <1>7, <3>1
    <3> QED  BY <3>1, <3>2
  <2> QED  BY <2>1, <2>2
<1>10. \A i, j \in 1 .. a + b : place(i) = place(j) => i = j
  <2> SUFFICES ASSUME NEW i \in 1 .. a + b, NEW j \in 1 .. a + b,
                      place(i) = place(j)
               PROVE  i = j
    OBVIOUS
  <2>1. \A k \in 1 .. a + b :
          \/ k <= a /\ k \in 1 .. a /\ Sorted(M)[k] \in M
          \/ ~ (k <= a) /\ k - a \in 1 .. b /\ Sorted(C)[k - a] \in C
    BY <1>3, <1>4
  <2>2. CASE i <= a /\ j <= a
    BY <1>5, <2>1, <2>2
  <2>3. CASE ~ (i <= a) /\ ~ (j <= a)
    <3>1. i - a = j - a
      BY <1>6, <2>1, <2>3
    <3> QED  BY <1>3, <3>1
  <2>4. CASE i <= a /\ ~ (j <= a)
    BY <1>2, <2>1, <2>4
  <2>5. CASE ~ (i <= a) /\ j <= a
    BY <1>2, <2>1, <2>5
  <2> QED  BY <2>2, <2>3, <2>4, <2>5
<1>11. \A k \in 1 .. n : \E i \in 1 .. a + b : place(i) = k
  <2>1. ASSUME NEW k \in M
        PROVE  \E i \in 1 .. a + b : place(i) = k
    <3>1. PICK m \in 1 .. a : Sorted(M)[m] = k
      BY <1>4
    <3>2. m \in 1 .. a + b /\ m <= a
      BY <1>3
    <3> QED  BY <3>1, <3>2
  <2>2. ASSUME NEW k \in C
        PROVE  \E i \in 1 .. a + b : place(i) = k
    <3>1. PICK m \in 1 .. b : Sorted(C)[m] = k
      BY <1>4
    <3>2. a + m \in 1 .. a + b /\ ~ (a + m <= a) /\ (a + m) - a = m
      BY <1>3
    <3> QED  BY <3>1, <3>2
  <2> QED  BY <1>2, <2>1, <2>2
<1> HIDE DEF place
<1>12. IsInjective(listed)
  <2>1. \A i, j \in 1 .. a + b : listed[i] = listed[j] => i = j
    BY <1>9, <1>10 DEF IsInjective
  <2> QED  BY <1>7, <2>1 DEF IsInjective
<1>13. Range(listed) = Range(list)
  BY <1>7, <1>9, <1>11 DEF Range
<1> QED  BY <1>12, <1>13 DEF listed, C, Divided

(* An interval in ascending order, from its first element on.              *)
LEMMA SortedInterval ==
  ASSUME NEW a \in Nat, NEW S \in SUBSET Nat, IsFiniteSet(S),
         \A x \in S : x > a /\ (a + 1) .. (x - 1) \subseteq S
  PROVE  \A m \in 1 .. Cardinality(S) : Sorted(S)[m] = a + m
<1> SUFFICES ASSUME NEW m \in 1 .. Cardinality(S)
             PROVE  Sorted(S)[m] = a + m
  OBVIOUS
<1> DEFINE x == Sorted(S)[m]
           R == Ascending(S)
<1>1. x \in S /\ Cardinality(Preceding(x, S, R)) = m - 1
  BY AscendingOrders, InOrderEnumerates DEF Sorted
<1> HIDE DEF x, R
<1>2. Preceding(x, S, R) = (a + 1) .. (x - 1)
  <2>1. \A y \in S : <<y, x>> \in R <=> y < x
    BY <1>1 DEF Ascending, R
  <2>2. \A y \in S : y < x => y \in (a + 1) .. (x - 1)
    BY <1>1
  <2>3. \A y \in (a + 1) .. (x - 1) : y \in S /\ y < x
    BY <1>1
  <2> QED  BY <2>1, <2>2, <2>3 DEF Preceding
<1>3. x \in Nat /\ x > a
  BY <1>1
<1>4. Cardinality((a + 1) .. (x - 1)) = (x - 1) - a
  BY <1>3, FS_Interval
<1>5. m \in Nat
  <2>1. Cardinality(S) \in Nat
    BY FS_CardinalityType
  <2> QED  BY <2>1
<1> QED  BY <1>1, <1>2, <1>3, <1>4, <1>5 DEF x

(* A list that begins with the places of M is not changed by dividing it.  *)
LEMMA DividedInOrder ==
  ASSUME NEW T, NEW n \in Nat, NEW list \in [1 .. n -> T],
         NEW M \in SUBSET (1 .. n),
         \A k \in M : \A j \in 1 .. n : j < k => j \in M
  PROVE  Divided(list, M, n) = list
<1> DEFINE C == (1 .. n) \ M
           a == Cardinality(M)
           b == Cardinality(C)
           joined == Pick(list, M) \o Pick(list, C)
<1>1. PicksInOrder(list, M, T) /\ PicksInOrder(list, C, T)
  BY PickLists
<1>2. /\ M \subseteq Nat /\ IsFiniteSet(M)
      /\ C \subseteq Nat /\ IsFiniteSet(C)
  <2>1. IsFiniteSet(1 .. n)
    BY FS_Interval
  <2>2. IsFiniteSet(M)
    BY <2>1, FS_Subset
  <2>3. C \subseteq 1 .. n
    OBVIOUS
  <2> HIDE DEF C
  <2>4. IsFiniteSet(C)
    BY <2>1, <2>3, FS_Subset
  <2> QED  BY <2>2, <2>3, <2>4
<1>3. /\ a \in Nat /\ b \in Nat
      /\ Sorted(M) \in [1 .. a -> M] /\ Sorted(C) \in [1 .. b -> C]
      /\ \A i \in M : \E m \in 1 .. a : Sorted(M)[m] = i
      /\ \A i \in C : \E m \in 1 .. b : Sorted(C)[m] = i
      /\ Pick(list, M) \in [1 .. a -> T] /\ Pick(list, C) \in [1 .. b -> T]
      /\ \A m \in 1 .. a : Pick(list, M)[m] = list[Sorted(M)[m]]
      /\ \A m \in 1 .. b : Pick(list, C)[m] = list[Sorted(C)[m]]
  <2> HIDE DEF C
  <2> QED  BY <1>1 DEF PicksInOrder
<1>4. \A m \in 1 .. a : Sorted(M)[m] = 0 + m
  <2>1. \A k \in M : k > 0 /\ (0 + 1) .. (k - 1) \subseteq M
    OBVIOUS
  <2> HIDE DEF a
  <2> QED  BY <1>2, <2>1, SortedInterval DEF a
<1> HIDE DEF a
<1>5. M = 1 .. a
  <2>1. \A m \in 1 .. a : Sorted(M)[m] = m
    BY <1>3, <1>4
  <2>2. \A m \in 1 .. a : m \in M
    BY <1>3, <2>1
  <2>3. \A k \in M : k \in 1 .. a
    <3> SUFFICES ASSUME NEW k \in M
                 PROVE  k \in 1 .. a
      OBVIOUS
    <3>1. PICK m \in 1 .. a : Sorted(M)[m] = k
      BY <1>3
    <3> QED  BY <2>1, <3>1
  <2> QED  BY <2>2, <2>3
<1>6. \A m \in 1 .. b : Sorted(C)[m] = a + m
  <2>1. \A k \in C : k > a /\ (a + 1) .. (k - 1) \subseteq C
    BY <1>3, <1>5
  <2> HIDE DEF C
  <2> QED  BY <1>2, <1>3, <2>1, SortedInterval
<1>7. a + b = n
  <2>1. a <= n
    <3>1. CASE a = 0
      BY <3>1
    <3>2. CASE a # 0
      <4>1. a \in M
        BY <1>3, <1>5, <3>2
      <4> QED  BY <4>1
    <3> QED  BY <3>1, <3>2
  <2>2. C = (a + 1) .. n
    BY <1>3, <1>5, <2>1
  <2>3. Cardinality((a + 1) .. n) = n - a
    <3>1. a + 1 \in Int /\ n \in Int
      BY <1>3
    <3>2. Cardinality((a + 1) .. n)
            = IF a + 1 <= n THEN n - (a + 1) + 1 ELSE 0
      BY <3>1, FS_Interval
    <3> QED  BY <1>3, <2>1, <3>2
  <2> HIDE DEF C
  <2>4. b = n - a
    BY <2>2, <2>3
  <2> HIDE DEF b
  <2> QED  BY <1>3, <2>4
<1> HIDE DEF b
<1>8. Joins(joined, Pick(list, M), a, Pick(list, C), b, T)
  <2> HIDE DEF C
  <2> QED  BY <1>3, ConcatLists
<1> HIDE DEF joined, C
<1>9. joined \in [1 .. n -> T]
  BY <1>7, <1>8 DEF Joins
<1>10. \A i \in 1 .. n : joined[i] = list[i]
  <2> SUFFICES ASSUME NEW i \in 1 .. n
               PROVE  joined[i] = list[i]
    OBVIOUS
  <2>1. CASE i <= a
    <3>1. i \in 1 .. a
      BY <1>3, <2>1
    <3>2. joined[i] = Pick(list, M)[i] /\ Pick(list, M)[i] = list[0 + i]
      BY <1>3, <1>4, <1>8, <3>1 DEF Joins
    <3> QED  BY <3>2
  <2>2. CASE ~ (i <= a)
    <3>1. i - a \in 1 .. b /\ a + (i - a) = i
      BY <1>3, <1>7, <2>2
    <3>2. joined[a + (i - a)] = Pick(list, C)[i - a]
      BY <1>8, <3>1 DEF Joins
    <3>3. Pick(list, C)[i - a] = list[a + (i - a)]
      BY <1>3, <1>6, <3>1
    <3> QED  BY <3>1, <3>2, <3>3
  <2> QED  BY <2>1, <2>2
<1>11. joined = list
  BY <1>9, <1>10
<1> QED  BY <1>11 DEF joined, C, Divided

(* The lists of the brief divide the ranking.                              *)
MaterialPlaces ==
  {k \in DOMAIN dossier.ranked : Material(Item[dossier.ranked[k]], domain)}

LEMMA BriefDivides ==
  ASSUME FocusInv, dossier # NoDossier
  PROVE  \E n \in Nat :
           /\ dossier.ranked \in [1 .. n -> Texts]
           /\ IsInjective(dossier.ranked)
           /\ Range(dossier.ranked) = SplitInto(items) \ {EmptyText}
           /\ MaterialPlaces \in SUBSET (1 .. n)
           /\ \A j, k \in 1 .. n :
                j < k => Before(Item[dossier.ranked[j]],
                                Item[dossier.ranked[k]], domain)
           /\ dossier.material \o dossier.contextual
                = Divided(dossier.ranked, MaterialPlaces, n)
<1> DEFINE ranked == dossier.ranked
<1>1. dossier = Dossier(items) /\ domain \in Domains /\ items \in Seq(Texts)
  BY DEF FocusInv
<1>2. /\ SplitInto(items) \subseteq Texts
      /\ IsRanking(ranked, SplitInto(items) \ {EmptyText}, domain)
  BY <1>1, DossierRanks
<1>3. /\ dossier.material = Pick(ranked, MaterialPlaces)
      /\ dossier.contextual = Pick(ranked, DOMAIN ranked \ MaterialPlaces)
  <2>1. /\ Dossier(items).material =
             Pick(Dossier(items).ranked,
                  {k \in DOMAIN Dossier(items).ranked :
                     Material(Item[Dossier(items).ranked[k]], domain)})
        /\ Dossier(items).contextual =
             Pick(Dossier(items).ranked,
                  DOMAIN Dossier(items).ranked \
                    {k \in DOMAIN Dossier(items).ranked :
                       Material(Item[Dossier(items).ranked[k]], domain)})
    BY DEF Dossier
  <2> QED  BY <1>1, <2>1 DEF MaterialPlaces
<1> HIDE DEF ranked
<1>4. PICK n \in Nat : ranked \in [1 .. n -> SplitInto(items) \ {EmptyText}]
  BY <1>2 DEF IsRanking
<1>5. ranked \in [1 .. n -> Texts] /\ DOMAIN ranked = 1 .. n
  BY <1>2, <1>4
<1>6. /\ Range(ranked) = SplitInto(items) \ {EmptyText}
      /\ \A j, k \in 1 .. n :
           j < k <=> Before(Item[ranked[j]], Item[ranked[k]], domain)
  BY <1>2, <1>5 DEF IsRanking
<1>7. IsInjective(ranked)
  <2> SUFFICES ASSUME NEW j \in 1 .. n, NEW k \in 1 .. n,
                      ranked[j] = ranked[k]
               PROVE  j = k
    BY <1>5 DEF IsInjective
  <2>1. ~ (j < k) /\ ~ (k < j)
    BY <1>1, <1>5, <1>6, TextsAreOrdered
  <2> QED  BY <2>1
<1>8. MaterialPlaces \in SUBSET (1 .. n)
  BY <1>5 DEF MaterialPlaces, ranked
<1> QED  BY <1>3, <1>5, <1>6, <1>7, <1>8 DEF ranked, Divided

(* Splitting, deduplicating and dividing repeat nothing and lose no signal *)
(* but those of short parts.                                               *)
THEOREM EverySignalIsListedOnceHolds == Spec => []EverySignalIsListedOnce
<1>1. FocusInv => EverySignalIsListedOnce
  <2> SUFFICES ASSUME FocusInv, dossier # NoDossier
               PROVE  LET listed == dossier.material \o dossier.contextual
                      IN  /\ IsInjective(listed)
                          /\ UNION {Words[t] : t \in Range(listed)}
                               = UNION {Says(t) : t \in Range(items)}
    BY DEF EverySignalIsListedOnce, Synthesized
  <2> DEFINE listed == dossier.material \o dossier.contextual
  <2>1. IsInjective(listed) /\ Range(listed) = SplitInto(items) \ {EmptyText}
    <3>1. PICK n \in Nat :
             /\ dossier.ranked \in [1 .. n -> Texts]
             /\ IsInjective(dossier.ranked)
             /\ Range(dossier.ranked) = SplitInto(items) \ {EmptyText}
             /\ MaterialPlaces \in SUBSET (1 .. n)
             /\ listed = Divided(dossier.ranked, MaterialPlaces, n)
      BY BriefDivides
    <3> HIDE DEF listed
    <3>2. IsInjective(Divided(dossier.ranked, MaterialPlaces, n))
      BY <3>1, DividedListsAll
    <3>3. Range(Divided(dossier.ranked, MaterialPlaces, n))
            = Range(dossier.ranked)
      BY <3>1, DividedListsAll
    <3> QED  BY <3>1, <3>2, <3>3
  <2> HIDE DEF listed
  <2>2. UNION {Words[t] : t \in Range(listed)}
          = UNION {Words[t] : t \in SplitInto(items)}
    BY <2>1, TextAssumption
  <2>3. \A t \in Range(items) : t \in Texts
    BY LenProperties DEF FocusInv, Range
  <2>4. ASSUME NEW t \in Texts
        PROVE  Says(t) = UNION {Words[p] : p \in Range(NormalizeTextItem(t))}
    <3>1. LongParts(t) = {} <=> Range(Parts[t]) \ Short = {}
      BY DEF LongParts, Range
    <3>2. Range(NormalizeTextItem(t)) =
            IF Range(Parts[t]) \ Short = {}
            THEN {t} ELSE Range(Parts[t]) \ Short
      BY <3>1, NormalizeTextItemLists
    <3> QED  BY <3>2 DEF Says
  <2>5. UNION {Words[t] : t \in SplitInto(items)}
          = UNION {Says(t) : t \in Range(items)}
    BY <2>3, <2>4 DEF SplitInto
  <2> QED  BY <2>1, <2>2, <2>5 DEF listed
<1> QED  BY <1>1, FocusInvariant, PTL

(* News with an adverse signal comes first, and material news leads.       *)
THEOREM AdverseNewsComesFirstHolds == Spec => []AdverseNewsComesFirst
<1>1. FocusInv => AdverseNewsComesFirst
  <2> SUFFICES ASSUME FocusInv, dossier # NoDossier, domain = "news"
               PROVE  /\ dossier.ranked = dossier.material \o dossier.contextual
                      /\ \A j, k \in DOMAIN dossier.ranked :
                           j < k /\ Adverse(Item[dossier.ranked[k]])
                             => Adverse(Item[dossier.ranked[j]])
    BY DEF AdverseNewsComesFirst, Synthesized
  <2> DEFINE ranked == dossier.ranked
  <2>1. PICK n \in Nat :
           /\ ranked \in [1 .. n -> Texts]
           /\ MaterialPlaces \in SUBSET (1 .. n)
           /\ \A j, k \in 1 .. n :
                j < k => Before(Item[ranked[j]], Item[ranked[k]], domain)
           /\ dossier.material \o dossier.contextual
                = Divided(ranked, MaterialPlaces, n)
    BY BriefDivides
  <2>2. \A k \in 1 .. n : Item[ranked[k]] \in Items
    BY <2>1, ItemsAreScored
  <2>3. ASSUME NEW k \in MaterialPlaces, NEW j \in 1 .. n, j < k
        PROVE  j \in MaterialPlaces
    <3>1. Before(Item[ranked[j]], Item[ranked[k]], domain)
      BY <2>1, <2>3
    <3>2. Material(Item[ranked[k]], domain)
      BY DEF MaterialPlaces
    <3>3. Material(Item[ranked[j]], domain)
      BY <3>1, <3>2 DEF Before
    <3> QED  BY <2>1, <3>3 DEF MaterialPlaces
  <2>4. Divided(ranked, MaterialPlaces, n) = ranked
    <3>1. \A k \in MaterialPlaces :
            \A j \in 1 .. n : j < k => j \in MaterialPlaces
      BY <2>3
    <3> HIDE DEF ranked
    <3>2. ranked \in [1 .. n -> Texts] /\ MaterialPlaces \in SUBSET (1 .. n)
      BY <2>1
    <3> QED  BY <3>1, <3>2, DividedInOrder
  <2>5. ASSUME NEW j \in 1 .. n, NEW k \in 1 .. n, j < k,
               Adverse(Item[ranked[k]]), ~ Adverse(Item[ranked[j]])
        PROVE  FALSE
    <3>1. Before(Item[ranked[k]], Item[ranked[j]], domain)
      BY <2>2, <2>5, AdverseNewsIsBefore
    <3>2. Before(Item[ranked[j]], Item[ranked[k]], domain)
      BY <2>1, <2>5
    <3>3. ~ Before(Item[ranked[j]], Item[ranked[j]], domain)
      BY <2>1, TextsAreOrdered DEF FocusInv
    <3> QED  BY <2>1, <3>1, <3>2, <3>3, TextsAreOrdered DEF FocusInv
  <2> QED  BY <2>1, <2>4, <2>5
<1> QED  BY <1>1, FocusInvariant, PTL

=============================================================================
