----------------------------- MODULE ScanProofs -----------------------------
(***************************************************************************)
(* What a search keeps while it reads and what it answers, for any rows in *)
(* any order, any facts, any page and any pool.                            *)
(*                                                                         *)
(* The heap: HitBeats orders rows of different numbers totally, so that a  *)
(* finite heap has exactly one worst row, and a row that enters a full     *)
(* heap beats that one (ScanInv).                                          *)
(*                                                                         *)
(* The short rows: the shortest of a set stay the shortest when they are   *)
(* determined anew with every row that comes (OneAtATime), so that what is *)
(* kept for an id is the shortest of a set that has all the last short     *)
(* rows with this id (ShortsInv).                                          *)
(*                                                                         *)
(* The page: what is returned has no row twice, since no row is read twice *)
(* and a short row that is a hit is not added (FoundOnce); to filter,      *)
(* sort, cut, join and score lists without repetition leaves such lists,   *)
(* of known lengths (Picked, PickedOnce, JoinedOnce, Counted, PageInv).    *)
(***************************************************************************)
EXTENDS Scan, SequenceTheorems, FiniteSetTheorems, WellFoundedInduction, TLAPS

(* Rows that a set of rows may hold: a sequence number belongs to one.     *)
Distinct(rows) == \A r, s \in rows : r.seq = s.seq => r = s

(* The inductive invariant: what is read are rows of different numbers,    *)
(* and the heap is finite, within the pool and the best of them.           *)
ScanInv ==
    /\ scanned \in Seq(Rows)
    /\ Distinct(ToSet(scanned))
    /\ IsFiniteSet(heap)
    /\ Cardinality(heap) <= Pool
    /\ ScanIsTop

-----------------------------------------------------------------------------
(* Lemmas *)

(* A row has a score and a number. *)
LEMMA RowTyped ==
    ASSUME NEW r \in Rows
    PROVE  r.score \in Nat /\ r.seq \in Nat
  BY ScanAssumption DEF Rows, ScanAssumption

(* Of two rows of different numbers one beats the other. *)
LEMMA BeatsTotal ==
    ASSUME NEW r \in Rows, NEW s \in Rows, r.seq # s.seq
    PROVE  HitBeats(r, s) \/ HitBeats(s, r)
  BY RowTyped DEF HitBeats

LEMMA BeatsTransitive ==
    ASSUME NEW r \in Rows, NEW s \in Rows, NEW t \in Rows,
           HitBeats(r, s), HitBeats(s, t)
    PROVE  HitBeats(r, t)
  BY RowTyped DEF HitBeats

LEMMA BeatsOneWay ==
    ASSUME NEW r \in Rows, NEW s \in Rows, HitBeats(r, s)
    PROVE  ~HitBeats(s, r)
  BY RowTyped DEF HitBeats

(* The pool has room for a row. *)
LEMMA PoolTyped == Pool \in Nat \ {0}
  <1>1. \A a, b \in Nat \ {0} : Max({a, b}) \in Nat \ {0}
    <2> TAKE a, b \in Nat \ {0}
    <2>1. \E m \in {a, b} : \A y \in {a, b} : m >= y
      BY SMT
    <2> QED
      BY <2>1 DEF Max
  <1> QED
    BY <1>1, ScanAssumption DEF Pool, ScanAssumption

(* The rows that a row beats are fewer the worse it is, and one of them    *)
(* beats nothing: a finite set of rows has a worst one, and only one.      *)
LEMMA OneWorst ==
    ASSUME NEW rows, rows \subseteq Rows, Distinct(rows), IsFiniteSet(rows), rows # {}
    PROVE  \E w \in rows :
              /\ Worst(rows) = {w}
              /\ \A s \in rows \ {w} : HitBeats(s, w)
  <1> DEFINE Below(r) == {s \in rows : HitBeats(r, s)}
             Lots == {Below(r) : r \in rows}
  <1>1. Lots # {} /\ Lots \subseteq FiniteSubsetsOf(rows)
    <2>1. \A r \in rows : Below(r) \in SUBSET rows /\ IsFiniteSet(Below(r))
      BY FS_Subset
    <2> QED
      BY <2>1 DEF FiniteSubsetsOf
  <1>2. PICK least \in Lots : \A lot \in Lots : <<lot, least>> \notin StrictSubsetOrdering(rows)
    <2> HIDE DEF Lots
    <2> QED
      BY <1>1, FS_StrictSubsetOrderingWellFounded, WFMin
  <1>3. PICK w \in rows : least = Below(w)
    OBVIOUS
  <1>4. Below(w) = {}
    <2> SUFFICES ASSUME NEW s \in Below(w)
                 PROVE  FALSE
      OBVIOUS
    <2>1. s \in rows /\ HitBeats(w, s)
      OBVIOUS
    <2>2. Below(s) \subseteq Below(w)
      BY <2>1, BeatsTransitive
    <2>3. s \notin Below(s)
      BY <2>1, BeatsOneWay
    <2>4. <<Below(s), Below(w)>> \in StrictSubsetOrdering(rows)
      BY <2>2, <2>3 DEF StrictSubsetOrdering
    <2> QED
      BY <1>2, <1>3, <2>1, <2>4
  <1>5. \A s \in rows \ {w} : HitBeats(s, w)
    BY <1>4, BeatsTotal DEF Distinct
  <1>6. \A v \in Worst(rows) : v = w
    BY <1>4 DEF Worst
  <1> QED
    BY <1>5, <1>6 DEF Worst

(* A row that is read joins what was read. *)
LEMMA ReadJoins ==
    ASSUME ScanInv, NEW r \in Rows, ReadsRow(r)
    PROVE  /\ scanned' \in Seq(Rows)
           /\ ToSet(scanned') = ToSet(scanned) \cup {r}
           /\ Distinct(ToSet(scanned'))
           /\ Pool' = Pool
           /\ ToSet(scanned) \subseteq Rows
           /\ r \notin ToSet(scanned)
  <1>1. scanned' \in Seq(Rows) /\ Pool' = Pool /\ scanned' = Append(scanned, r)
    BY DEF ScanInv, ReadsRow, Pool
  <1>2. ToSet(scanned') = ToSet(scanned) \cup {r}
    <2>1. Len(scanned') = Len(scanned) + 1 /\ DOMAIN scanned' = 1 .. Len(scanned')
      BY <1>1 DEF ScanInv
    <2>2. scanned'[Len(scanned')] = r /\ \A i \in 1 .. Len(scanned) : scanned'[i] = scanned[i]
      BY <1>1 DEF ScanInv
    <2>3. DOMAIN scanned' = (DOMAIN scanned) \cup {Len(scanned')}
      BY <2>1 DEF ScanInv
    <2> QED
      BY <2>1, <2>2, <2>3 DEF ToSet, ScanInv
  <1>3. ToSet(scanned) \subseteq Rows
    BY DEF ToSet, ScanInv
  <1>4. \A s \in ToSet(scanned) : s.seq # r.seq
    BY DEF ReadsRow
  <1> QED
    BY <1>1, <1>2, <1>3, <1>4 DEF Distinct, ScanInv

-----------------------------------------------------------------------------
(* The steps *)

(* A row that enters: it takes a free place, or that of the one worst row, *)
(* which it beats.                                                         *)
LEMMA RankedTop ==
    ASSUME ScanInv, NEW r \in Rows, Ranked(r)
    PROVE  ScanInv'
  <1>1. ReadsRow(r) /\ IsRanked(r) /\ heap' = PushTop(heap, r, Pool)
    BY DEF Ranked
  <1>2. Candidates' = Candidates \cup {r}
    BY <1>1, ReadJoins DEF Candidates, IsRanked
  <1>3. heap \subseteq Candidates /\ heap \subseteq Rows /\ r \notin Candidates /\ Candidates \subseteq Rows
    BY <1>1, ReadJoins DEF ScanInv, ScanIsTop, Candidates
  <1>4. Distinct(Candidates')
    BY <1>1, ReadJoins DEF Distinct, Candidates
  <1>5. Cardinality(heap) \in Nat /\ Pool \in Nat \ {0}
    BY PoolTyped, FS_CardinalityType DEF ScanInv
  <1>6. CASE Cardinality(heap) < Pool
    <2>1. heap' = heap \cup {r}
      BY <1>1, <1>5, <1>6 DEF PushTop
    <2>2. Candidates \ heap = {}
      BY <1>5, <1>6 DEF ScanInv, ScanIsTop
    <2>3. Cardinality(heap') = Cardinality(heap) + 1 /\ IsFiniteSet(heap')
      BY <1>3, <2>1, FS_AddElement DEF ScanInv
    <2>4. Candidates' \ heap' = {} /\ heap' \subseteq Candidates'
      BY <1>2, <1>3, <2>1, <2>2
    <2>5. ScanIsTop'
      BY <2>4 DEF ScanIsTop
    <2> QED
      BY <1>1, <1>5, <1>6, <2>3, <2>5, ReadJoins DEF ScanInv
  <1>7. CASE Cardinality(heap) = Pool
    <2>1. heap # {}
      BY <1>5, <1>7, FS_EmptySet
    <2>2. PICK w \in heap : Worst(heap) = {w} /\ \A s \in heap \ {w} : HitBeats(s, w)
      <3>1. Distinct(heap)
        BY <1>2, <1>3, <1>4 DEF Distinct
      <3> QED
        BY <1>3, <2>1, <3>1, OneWorst DEF ScanInv
    <2>3. heap' = (heap \ {w}) \cup {r}
      BY <1>1, <1>5, <1>7, <2>2 DEF PushTop
    <2>4. HitBeats(r, w)
      <3>1. PICK h \in heap : HitBeats(r, h)
        BY <1>1, <1>5, <1>7 DEF IsRanked, EntersTop
      <3> QED
        BY <1>3, <2>2, <3>1, BeatsTransitive
    <2>5. IsFiniteSet(heap') /\ Cardinality(heap') = Pool
      <3>1. IsFiniteSet(heap \ {w}) /\ Cardinality(heap \ {w}) = Cardinality(heap) - 1
        BY <2>2, FS_RemoveElement DEF ScanInv
      <3>2. r \notin heap \ {w}
        BY <1>3
      <3> QED
        BY <1>5, <1>7, <2>3, <3>1, <3>2, FS_AddElement
    <2>6. \A x \in Candidates' \ heap' : \A h \in heap' : HitBeats(h, x)
      <3> SUFFICES ASSUME NEW x \in Candidates' \ heap', NEW h \in heap'
                   PROVE  HitBeats(h, x)
        OBVIOUS
      <3>1. x = w \/ x \in Candidates \ heap
        BY <1>2, <2>3
      <3>2. h = r \/ h \in heap \ {w}
        BY <2>3
      <3>3. CASE x = w
        BY <2>2, <2>4, <3>2, <3>3
      <3>4. CASE x \in Candidates \ heap
        <4>1. \A g \in heap : HitBeats(g, x)
          BY <3>4 DEF ScanInv, ScanIsTop
        <4> QED
          BY <1>3, <2>2, <2>4, <3>2, <3>4, <4>1, BeatsTransitive
      <3> QED
        BY <3>1, <3>3, <3>4
    <2>7. ScanIsTop'
      <3>1. heap' \subseteq Candidates'
        BY <1>2, <1>3, <2>3
      <3>2. Cardinality(heap') = Pool'
        BY <1>1, <2>5, ReadJoins
      <3> QED
        BY <2>6, <3>1, <3>2 DEF ScanIsTop
    <2> QED
      BY <1>1, <1>5, <2>5, <2>7, ReadJoins DEF ScanInv
  <1> QED
    BY <1>5, <1>6, <1>7 DEF ScanInv

(* A row that does not enter: it has no score, or every row of a full heap *)
(* beats it.                                                               *)
LEMMA UnrankedTop ==
    ASSUME ScanInv, NEW r \in Rows, Unranked(r)
    PROVE  ScanInv'
  <1>1. ReadsRow(r) /\ r.passes /\ ~IsRanked(r) /\ heap' = heap
    BY DEF Unranked
  <1>2. Candidates' = Candidates \cup (IF r.score > 0 THEN {r} ELSE {})
    BY <1>1, ReadJoins DEF Candidates
  <1>3. heap \subseteq Candidates /\ heap \subseteq Rows /\ r \notin Candidates
    BY <1>1, ReadJoins DEF ScanInv, ScanIsTop, Candidates
  <1>4. ASSUME r.score > 0
        PROVE  Cardinality(heap) = Pool /\ \A h \in heap : HitBeats(h, r)
    <2>1. ~EntersTop(heap, r, Pool)
      BY <1>1, <1>4 DEF IsRanked
    <2>2. Cardinality(heap) = Pool
      BY <2>1, PoolTyped, FS_CardinalityType DEF EntersTop, ScanInv
    <2>3. \A h \in heap : h.seq # r.seq
      BY <1>1, <1>3 DEF Candidates, ReadsRow
    <2> QED
      BY <1>3, <2>1, <2>2, <2>3, BeatsTotal DEF EntersTop
  <1>5. ScanIsTop'
    BY <1>1, <1>2, <1>3, <1>4, ReadJoins DEF ScanIsTop, ScanInv
  <1> QED
    BY <1>1, <1>5, ReadJoins DEF ScanInv

(* A row that the filters hold back is no candidate. *)
LEMMA FilteredTop ==
    ASSUME ScanInv, NEW r \in Rows, Filtered(r)
    PROVE  ScanInv'
  <1>1. ReadsRow(r) /\ ~r.passes /\ heap' = heap
    BY DEF Filtered
  <1>2. Candidates' = Candidates
    BY <1>1, ReadJoins DEF Candidates
  <1>3. ScanIsTop'
    BY <1>1, <1>2, ReadJoins DEF ScanIsTop, ScanInv
  <1> QED
    BY <1>1, <1>3, ReadJoins DEF ScanInv

(* With nothing read there is nothing to keep. *)
LEMMA NothingIsTop ==
    ASSUME NothingRead
    PROVE  ScanInv
  <1>1. scanned = <<>> /\ heap = {} /\ ToSet(scanned) = {} /\ Candidates = {}
    BY DEF NothingRead, ToSet, Candidates
  <1> QED
    BY <1>1, FS_EmptySet, PoolTyped DEF ScanInv, ScanIsTop, Distinct

(* Every step keeps it; one that ends the scan leaves nothing read. *)
LEMMA ScanStep ==
    ASSUME ScanInv, [ScanNext]_scanVars
    PROVE  ScanInv'
  <1>1. ASSUME UNCHANGED <<scanned, heap, search>>
        PROVE  ScanInv'
    BY <1>1 DEF ScanInv, ScanIsTop, Candidates, Pool, Distinct
  <1>2. ASSUME scanned' = <<>>, heap' = {}, UNCHANGED search
        PROVE  ScanInv'
    <2>1. ToSet(scanned)' = {} /\ Candidates' = {}
      BY <1>2 DEF ToSet, Candidates
    <2>2. Pool' \in Nat
      BY <1>2, PoolTyped DEF Pool
    <2>3. ScanIsTop' /\ Distinct(ToSet(scanned))'
      BY <1>2, <2>1 DEF ScanIsTop, Distinct
    <2>4. IsFiniteSet(heap') /\ Cardinality(heap') = 0 /\ scanned' \in Seq(Rows)
      BY <1>2, FS_EmptySet
    <2> QED
      BY <2>2, <2>3, <2>4 DEF ScanInv
  <1>3. CASE \E r \in Rows : Filtered(r) \/ Ranked(r) \/ Unranked(r)
    BY <1>3, FilteredTop, RankedTop, UnrankedTop
  <1>4. CASE EndOfScan \/ BadLine
    BY <1>2, <1>4 DEF EndOfScan, BadLine
  <1>5. CASE Plain \/ FallThrough \/ Jev \/ Laya
    BY <1>1, <1>5 DEF Plain, FallThrough, Jev, Laya, Answers
  <1>6. CASE UNCHANGED scanVars
    BY <1>1, <1>6 DEF scanVars
  <1> QED
    BY <1>3, <1>4, <1>5, <1>6 DEF ScanNext

-----------------------------------------------------------------------------
(* ScanIsTop: at every moment of every scan the heap is the best of the    *)
(* rows that were read (enters_top, push_top).                             *)
THEOREM BestOfRead == ScanSpec => []ScanIsTop
  <1>1. ScanInit => ScanInv
    BY NothingIsTop DEF ScanInit
  <1>2. ScanInv /\ [ScanNext]_scanVars => ScanInv'
    BY ScanStep
  <1>3. ScanInv => ScanIsTop
    BY DEF ScanInv
  <1> QED
    BY <1>1, <1>2, <1>3, PTL DEF ScanSpec

-----------------------------------------------------------------------------
(* Lists *)

(* The pairs in before order S. *)
Ordered(S, before) ==
    /\ \A x \in S : <<x, x>> \notin before
    /\ \A x, y, z \in S : <<x, y>> \in before /\ <<y, z>> \in before => <<x, z>> \in before
    /\ \A x, y \in S : x = y \/ <<x, y>> \in before \/ <<y, x>> \in before

Ahead(S, before, x) == {y \in S : <<y, x>> \in before}

Rank(S, before, x) == Cardinality(Ahead(S, before, x))

(* The first k of S. *)
Top(k, S, before) == {x \in S : Rank(S, before, x) < k}

LEMMA RankTyped ==
    ASSUME NEW S, NEW before, IsFiniteSet(S), NEW x \in S, Ordered(S, before)
    PROVE  /\ Cardinality(S) \in Nat /\ Rank(S, before, x) \in Nat
           /\ Rank(S, before, x) < Cardinality(S)
<1>1. Ahead(S, before, x) \in SUBSET S /\ x \notin Ahead(S, before, x)
  BY DEF Ahead, Ordered
<1>2. /\ IsFiniteSet(Ahead(S, before, x))
      /\ Cardinality(Ahead(S, before, x)) <= Cardinality(S)
      /\ Cardinality(Ahead(S, before, x)) # Cardinality(S)
  BY <1>1, FS_Subset
<1>3. Cardinality(S) \in Nat /\ Cardinality(Ahead(S, before, x)) \in Nat
  BY <1>2, FS_CardinalityType
<1> QED
  BY <1>2, <1>3 DEF Rank

LEMMA RankRises ==
    ASSUME NEW S, NEW before, IsFiniteSet(S), Ordered(S, before),
           NEW x \in S, NEW y \in S, <<x, y>> \in before
    PROVE  Rank(S, before, x) < Rank(S, before, y)
<1> DEFINE a == Ahead(S, before, x)
           b == Ahead(S, before, y)
<1>1. a \in SUBSET b /\ x \in b /\ x \notin a /\ b \in SUBSET S
  BY DEF Ahead, Ordered
<1> HIDE DEF a, b
<1>2. IsFiniteSet(b)
  BY <1>1, FS_Subset
<1>3. IsFiniteSet(a) /\ Cardinality(a) <= Cardinality(b) /\ Cardinality(a) # Cardinality(b)
  BY <1>1, <1>2, FS_Subset
<1>4. Cardinality(a) \in Nat /\ Cardinality(b) \in Nat
  BY <1>2, <1>3, FS_CardinalityType
<1> QED
  BY <1>3, <1>4 DEF a, b, Rank

(* Who is ahead in rank is ahead. *)
LEMMA RankTells ==
    ASSUME NEW S, NEW before, IsFiniteSet(S), Ordered(S, before),
           NEW x \in S, NEW y \in S
    PROVE  /\ Rank(S, before, x) = Rank(S, before, y) => x = y
           /\ Rank(S, before, x) < Rank(S, before, y) => <<x, y>> \in before
<1>1. x = y \/ <<x, y>> \in before \/ <<y, x>> \in before
  BY DEF Ordered
<1>2. Rank(S, before, x) \in Nat /\ Rank(S, before, y) \in Nat
  BY RankTyped
<1>3. /\ <<x, y>> \in before => Rank(S, before, x) < Rank(S, before, y)
      /\ <<y, x>> \in before => Rank(S, before, y) < Rank(S, before, x)
  BY RankRises
<1> QED
  BY <1>1, <1>2, <1>3

LEMMA Numbers ==
    ASSUME NEW n \in Nat
    PROVE  IsFiniteSet(1 .. n) /\ Cardinality(1 .. n) = n
<1>1. 1 \in Int /\ n \in Int
  OBVIOUS
<1>2. IsFiniteSet(1 .. n) /\ Cardinality(1 .. n) = IF 1 > n THEN 0 ELSE n - 1 + 1
  BY <1>1, FS_Interval
<1> QED
  BY <1>2

(* Every rank is somebody's. *)
LEMMA RankOnto ==
    ASSUME NEW S, NEW before, IsFiniteSet(S), Ordered(S, before),
           NEW n \in 1 .. Cardinality(S)
    PROVE  \E x \in S : Rank(S, before, x) = n - 1
<1> DEFINE size == Cardinality(S)
           f == [x \in S |-> Rank(S, before, x) + 1]
<1>1. size \in Nat
  BY FS_CardinalityType
<1>2. \A x \in S : Rank(S, before, x) \in Nat /\ Rank(S, before, x) < size
  BY RankTyped
<1>3. f \in [S -> 1 .. size]
  BY <1>1, <1>2
<1>4. ASSUME NEW x \in S, NEW y \in S, f[x] = f[y]
      PROVE  x = y
  <2>1. Rank(S, before, x) = Rank(S, before, y)
    BY <1>2, <1>4
  <2> QED
    BY <2>1, RankTells
<1>5. f \in Injection(S, 1 .. size)
  BY <1>3, <1>4 DEF Injection, IsInjective
<1> HIDE DEF f
<1>6. f \in Surjection(S, 1 .. size)
  <2>1. IsFiniteSet(1 .. size) /\ Cardinality(1 .. size) = size
    BY <1>1, Numbers
  <2> QED
    BY <1>5, <2>1, FS_Injection
<1>7. PICK x \in S : f[x] = n
  BY <1>6 DEF Surjection
<1> QED
  BY <1>2, <1>7 DEF f

(* Each member of S is in the list, once, in the order of before. *)
LEMMA Listing ==
    ASSUME NEW S, NEW before, IsFiniteSet(S), Ordered(S, before)
    PROVE  /\ Cardinality(S) \in Nat
           /\ Listed(S, before) \in [1 .. Cardinality(S) -> S]
           /\ \A n \in 1 .. Cardinality(S) : Rank(S, before, Listed(S, before)[n]) = n - 1
           /\ \A x \in S : \E n \in 1 .. Cardinality(S) : Listed(S, before)[n] = x
           /\ \A m, n \in 1 .. Cardinality(S) :
                 /\ m # n => Listed(S, before)[m] # Listed(S, before)[n]
                 /\ m < n => <<Listed(S, before)[m], Listed(S, before)[n]>> \in before
<1> DEFINE size == Cardinality(S)
           nth(n) == CHOOSE x \in S : Rank(S, before, x) = n - 1
           list == Listed(S, before)
<1>1. size \in Nat
  BY FS_CardinalityType
<1>2. list = [n \in 1 .. size |-> nth(n)]
  BY DEF Listed, Rank, Ahead
<1>3. \A n \in 1 .. size : nth(n) \in S /\ Rank(S, before, nth(n)) = n - 1
  BY RankOnto
<1> HIDE DEF nth, list
<1>4. list \in [1 .. size -> S] /\ \A n \in 1 .. size : Rank(S, before, list[n]) = n - 1
  BY <1>2, <1>3
<1>5. ASSUME NEW x \in S
      PROVE  \E n \in 1 .. size : list[n] = x
  <2>1. Rank(S, before, x) \in Nat /\ Rank(S, before, x) < size
    BY RankTyped
  <2>2. Rank(S, before, x) + 1 \in 1 .. size
    BY <1>1, <2>1
  <2>3. Rank(S, before, list[Rank(S, before, x) + 1]) = Rank(S, before, x)
    BY <1>4, <2>1, <2>2
  <2>4. list[Rank(S, before, x) + 1] \in S
    BY <1>4, <2>2
  <2> QED
    BY <2>2, <2>3, <2>4, RankTells
<1>6. ASSUME NEW m \in 1 .. size, NEW n \in 1 .. size
      PROVE  /\ m # n => list[m] # list[n]
             /\ m < n => <<list[m], list[n]>> \in before
  <2>1. /\ list[m] \in S /\ list[n] \in S
        /\ Rank(S, before, list[m]) = m - 1 /\ Rank(S, before, list[n]) = n - 1
    BY <1>4
  <2>2. m # n => list[m] # list[n]
    BY <1>1, <2>1
  <2>3. m < n => Rank(S, before, list[m]) < Rank(S, before, list[n])
    BY <1>1, <2>1
  <2> QED
    BY <2>1, <2>2, <2>3, RankTells
<1> QED
  BY <1>1, <1>4, <1>5, <1>6 DEF list

(* Who is not among the first k has k before it. *)
LEMMA TopFull ==
    ASSUME NEW S, NEW before, IsFiniteSet(S), Ordered(S, before), NEW k \in Nat,
           NEW x \in S \ Top(k, S, before)
    PROVE  /\ IsFiniteSet(Top(k, S, before)) /\ Cardinality(Top(k, S, before)) = k
           /\ \A t \in Top(k, S, before) : <<t, x>> \in before
<1> DEFINE T == Top(k, S, before)
           f == [t \in T |-> Rank(S, before, t) + 1]
<1>1. /\ \A t \in S : Rank(S, before, t) \in Nat /\ Rank(S, before, t) < Cardinality(S)
      /\ Cardinality(S) \in Nat
  BY RankTyped
<1>2. T = {t \in S : Rank(S, before, t) < k}
  BY DEF Top
<1>3. Rank(S, before, x) >= k /\ k < Cardinality(S)
  BY <1>1, <1>2
<1> HIDE DEF T
<1>4. \A t \in T : <<t, x>> \in before
  BY <1>1, <1>2, <1>3, RankTells
<1>5. f \in [T -> 1 .. k] /\ \A s, t \in T : f[s] = f[t] => s = t
  <2>1. ASSUME NEW s \in T, NEW t \in T, f[s] = f[t]
        PROVE  s = t
    <3>1. s \in S /\ t \in S /\ Rank(S, before, s) = Rank(S, before, t)
      BY <1>1, <1>2, <2>1
    <3> QED
      BY <3>1, RankTells
  <2>2. f \in [T -> 1 .. k]
    BY <1>1, <1>2
  <2> QED
    BY <2>1, <2>2
<1>6. ASSUME NEW n \in 1 .. k
      PROVE  \E t \in T : f[t] = n
  <2>1. n \in 1 .. Cardinality(S) /\ n - 1 < k
    BY <1>1, <1>3
  <2>2. PICK t \in S : Rank(S, before, t) = n - 1
    BY <2>1, RankOnto
  <2>3. t \in T
    BY <1>2, <2>1, <2>2
  <2> QED
    BY <2>2, <2>3
<1> HIDE DEF f
<1>7. f \in Injection(T, 1 .. k) /\ f \in Surjection(T, 1 .. k)
  BY <1>5, <1>6 DEF Injection, IsInjective, Surjection
<1>8. IsFiniteSet(1 .. k) /\ Cardinality(1 .. k) = k
  BY Numbers
<1>9. IsFiniteSet(T) /\ (Cardinality(T) = Cardinality(1 .. k) <=> f \in Surjection(T, 1 .. k))
  BY <1>7, <1>8, FS_Injection
<1> QED
  BY <1>4, <1>7, <1>8, <1>9 DEF T

With(S, x) == S \cup {x}

(* The first k stay the first k when they are determined anew with every   *)
(* member that comes: those that were dropped never come back.             *)
LEMMA OneAtATime ==
    ASSUME NEW S, NEW r, NEW before, IsFiniteSet(S), Ordered(With(S, r), before), NEW k \in Nat
    PROVE  Top(k, With(Top(k, S, before), r), before) = Top(k, With(S, r), before)
<1> DEFINE T == Top(k, S, before)
           U == With(S, r)
           V == With(T, r)
<1>0. U = S \cup {r} /\ V = T \cup {r}
  BY DEF With
<1> HIDE DEF U, V
<1>1. IsFiniteSet(U)
  BY <1>0, FS_AddElement
<1>2. Ordered(S, before) /\ Ordered(V, before) /\ T \subseteq S /\ V \subseteq U
  BY <1>0 DEF Ordered, Top, U
<1>3. ASSUME NEW x \in U
      PROVE  /\ Ahead(S, before, x) \in SUBSET Ahead(U, before, x)
             /\ Ahead(V, before, x) \in SUBSET Ahead(U, before, x)
             /\ IsFiniteSet(Ahead(U, before, x))
  BY <1>0, <1>1, <1>2, FS_Subset DEF Ahead
<1>4. ASSUME NEW x \in U
      PROVE  /\ Rank(U, before, x) \in Nat /\ Rank(S, before, x) \in Nat /\ Rank(V, before, x) \in Nat
             /\ Rank(S, before, x) <= Rank(U, before, x) /\ Rank(V, before, x) <= Rank(U, before, x)
  BY <1>3, FS_Subset, FS_CardinalityType DEF Rank
<1>5. ASSUME NEW x \in Top(k, U, before)
      PROVE  x \in Top(k, V, before)
  <2>1. x \in U /\ Rank(U, before, x) < k
    BY DEF Top
  <2>2. Rank(S, before, x) < k /\ Rank(V, before, x) < k
    BY <1>4, <2>1
  <2>3. x \in V
    BY <1>0, <2>1, <2>2 DEF Top
  <2> QED
    BY <2>2, <2>3 DEF Top
<1>6. ASSUME NEW x \in Top(k, V, before)
      PROVE  x \in Top(k, U, before)
  <2>1. x \in V /\ x \in U /\ Rank(V, before, x) < k
    BY <1>2 DEF Top
  <2>2. ASSUME NEW y \in Ahead(U, before, x), y \notin V
        PROVE  FALSE
    <3>1. y \in S \ T /\ <<y, x>> \in before
      BY <1>0, <2>2 DEF Ahead
    <3>2. IsFiniteSet(T) /\ Cardinality(T) = k /\ \A t \in T : <<t, y>> \in before
      BY <1>2, <3>1, TopFull
    <3>3. T \in SUBSET Ahead(V, before, x)
      <4> SUFFICES ASSUME NEW t \in T
                   PROVE  <<t, x>> \in before
        BY <1>0 DEF Ahead
      <4>1. t \in U /\ y \in U
        BY <1>0, <1>2, <3>1
      <4> QED
        BY <2>1, <3>1, <3>2, <4>1 DEF Ordered, U
    <3>4. IsFiniteSet(Ahead(V, before, x))
      BY <1>3, <2>1, FS_Subset
    <3>5. k <= Rank(V, before, x)
      BY <3>2, <3>3, <3>4, FS_Subset DEF Rank
    <3> QED
      BY <1>4, <2>1, <3>5
  <2>3. Ahead(U, before, x) = Ahead(V, before, x)
    BY <1>2, <2>2 DEF Ahead
  <2> QED
    BY <2>1, <2>3 DEF Top, Rank
<1> QED
  BY <1>5, <1>6 DEF U, V

-----------------------------------------------------------------------------
(* Short rows *)

(* What a short row is kept as that was read as the n-th. *)
ShortOf(row, n) == [id |-> row.id, seq |-> row.seq, score |-> 0, len |-> row.len, at |-> n]

Turns == {n \in DOMAIN scanned : scanned[n].passes /\ IsShort(scanned[n])}

ShortsRead == {ShortOf(scanned[n], n) : n \in Turns}

Shorts(rows) ==
    /\ IsFiniteSet(rows)
    /\ \A s \in rows : s.len \in Nat /\ s.at \in Nat
    /\ \A s, t \in rows : s.at = t.at => s = t

ByLength(rows) == {pair \in rows \X rows : Shorter(pair[1], pair[2])}

ByTurn(rows) == {pair \in rows \X rows : pair[1].at > pair[2].at}

(* For each id in ids at least the last rows with this id have been taken  *)
(* into account, and of all that were the shortest are kept.               *)
KeptOf(kept, ids, read, last) ==
    /\ kept \in [Ids -> SUBSET read]
    /\ \A i \in Ids \ ids : kept[i] = {}
    /\ \A i \in ids : \E all \in SUBSET read :
          /\ \A s \in all : s.id = i
          /\ {s \in last : s.id = i} \subseteq all
          /\ kept[i] = Shortest(all)

(* The short rows of a scan: the last ones that were read, and for each id *)
(* in the heap the shortest of those that were taken into account.         *)
ShortsInv ==
    /\ tracked = IdsOf(heap)
    /\ recent = Latest(ShortsRead)
    /\ KeptOf(shorts, tracked, ShortsRead, recent)

LEMMA ShortsOrdered ==
    ASSUME NEW rows, Shorts(rows)
    PROVE  Ordered(rows, ByLength(rows)) /\ Ordered(rows, ByTurn(rows))
<1>1. \A s, t \in rows : /\ <<s, t>> \in ByLength(rows) <=> Shorter(s, t)
                         /\ <<s, t>> \in ByTurn(rows) <=> s.at > t.at
  BY DEF ByLength, ByTurn
<1>2. \A s \in rows : s.len \in Nat /\ s.at \in Nat
  BY DEF Shorts
<1>3. \A s, t \in rows : s.at = t.at => s = t
  BY DEF Shorts
<1>4. Ordered(rows, ByLength(rows))
  <2>1. \A s \in rows : ~Shorter(s, s)
    BY <1>2 DEF Shorter
  <2>2. \A s, t, u \in rows : Shorter(s, t) /\ Shorter(t, u) => Shorter(s, u)
    BY <1>2 DEF Shorter
  <2>3. \A s, t \in rows : s = t \/ Shorter(s, t) \/ Shorter(t, s)
    BY <1>2, <1>3 DEF Shorter
  <2> QED
    BY <1>1, <2>1, <2>2, <2>3 DEF Ordered
<1>5. Ordered(rows, ByTurn(rows))
  <2>1. \A s \in rows : ~(s.at > s.at)
    BY <1>2
  <2>2. \A s, t, u \in rows : s.at > t.at /\ t.at > u.at => s.at > u.at
    BY <1>2
  <2>3. \A s, t \in rows : s = t \/ s.at > t.at \/ t.at > s.at
    BY <1>2, <1>3
  <2> QED
    BY <1>1, <2>1, <2>2, <2>3 DEF Ordered
<1> QED
  BY <1>4, <1>5

LEMMA TopsAre ==
    ASSUME NEW rows, NEW part \in SUBSET rows
    PROVE  /\ Shortest(part) = Top(SiblingsPerId, part, ByLength(rows))
           /\ Latest(part) = Top(RecentShorts, part, ByTurn(rows))
<1>1. \A r \in part : /\ {s \in part : Shorter(s, r)} = Ahead(part, ByLength(rows), r)
                      /\ {s \in part : s.at > r.at} = Ahead(part, ByTurn(rows), r)
  BY DEF ByLength, ByTurn, Ahead
<1> QED
  BY <1>1 DEF Shortest, Latest, Top, Rank

LEMMA Caps == SiblingsPerId \in Nat \ {0} /\ RecentShorts \in Nat \ {0}
BY ScanAssumption

LEMMA OneMore ==
    ASSUME NEW read, NEW s, Shorts(read \cup {s}), NEW part \in SUBSET read
    PROVE  /\ Shortest(Shortest(part) \cup {s}) = Shortest(part \cup {s})
           /\ Latest(Latest(part) \cup {s}) = Latest(part \cup {s})
<1> DEFINE rows == read \cup {s}
<1>1. part \in SUBSET rows /\ part \cup {s} \in SUBSET rows
  OBVIOUS
<1>2. Shortest(part) \cup {s} \in SUBSET rows /\ Latest(part) \cup {s} \in SUBSET rows
  BY DEF Shortest, Latest
<1> DEFINE len == ByLength(rows)
           turn == ByTurn(rows)
<1>3. IsFiniteSet(part) /\ Ordered(part \cup {s}, len) /\ Ordered(part \cup {s}, turn)
  <2>1. IsFiniteSet(rows) /\ Ordered(rows, ByLength(rows)) /\ Ordered(rows, ByTurn(rows))
    BY ShortsOrdered DEF Shorts
  <2> HIDE DEF rows
  <2> QED
    BY <1>1, <2>1, FS_Subset DEF Ordered
<1> HIDE DEF len, turn
<1>4. Top(SiblingsPerId, Top(SiblingsPerId, part, len) \cup {s}, len) = Top(SiblingsPerId, part \cup {s}, len)
  <2>1. SiblingsPerId \in Nat
    BY Caps
  <2>2. Ordered(With(part, s), len)
    BY <1>3 DEF With
  <2>3. Top(SiblingsPerId, With(Top(SiblingsPerId, part, len), s), len) = Top(SiblingsPerId, With(part, s), len)
    BY <1>3, <2>1, <2>2, OneAtATime
  <2> QED
    BY <2>3 DEF With
<1>5. Top(RecentShorts, Top(RecentShorts, part, turn) \cup {s}, turn) = Top(RecentShorts, part \cup {s}, turn)
  <2>1. RecentShorts \in Nat
    BY Caps
  <2>2. Ordered(With(part, s), turn)
    BY <1>3 DEF With
  <2>3. Top(RecentShorts, With(Top(RecentShorts, part, turn), s), turn) = Top(RecentShorts, With(part, s), turn)
    BY <1>3, <2>1, <2>2, OneAtATime
  <2> QED
    BY <2>3 DEF With
<1> HIDE DEF rows
<1> QED
  BY <1>1, <1>2, <1>4, <1>5, TopsAre DEF len, turn

(* A row that is read is taken into account for its id. *)
LEMMA KeepOne ==
    ASSUME NEW ids \in SUBSET Ids, NEW read, NEW last, NEW s, NEW newLast,
           NEW kept, KeptOf(kept, ids, read, last),
           Shorts(read \cup {s}), \A t \in read : t.seq # s.seq,
           newLast \subseteq last \cup {s}, s.id \in ids
    PROVE  KeptOf([kept EXCEPT ![s.id] = Remember(@, s)], ids, read \cup {s}, newLast)
<1> DEFINE new == [kept EXCEPT ![s.id] = Remember(@, s)]
<1>1. kept \in [Ids -> SUBSET read] /\ s.id \in Ids
  BY DEF KeptOf
<1>2. Remember(kept[s.id], s) = Shortest(kept[s.id] \cup {s})
  BY <1>1 DEF Remember
<1>3. new[s.id] = Shortest(kept[s.id] \cup {s}) /\ \A i \in Ids \ {s.id} : new[i] = kept[i]
  BY <1>1, <1>2
<1>4. new \in [Ids -> SUBSET (read \cup {s})]
  <2>1. Remember(kept[s.id], s) \in SUBSET (read \cup {s})
    BY <1>1, <1>2 DEF Shortest
  <2> QED
    BY <1>1, <2>1
<1> HIDE DEF new
<1>5. \A i \in Ids \ ids : new[i] = {}
  BY <1>3 DEF KeptOf
<1>6. ASSUME NEW i \in ids
      PROVE  \E all \in SUBSET (read \cup {s}) :
                /\ \A t \in all : t.id = i
                /\ {t \in newLast : t.id = i} \subseteq all
                /\ new[i] = Shortest(all)
  <2>1. PICK all \in SUBSET read : /\ \A t \in all : t.id = i
                                   /\ {t \in last : t.id = i} \subseteq all
                                   /\ kept[i] = Shortest(all)
    BY DEF KeptOf
  <2>2. CASE i = s.id
    <3>1. new[i] = Shortest(all \cup {s})
      <4>1. Shortest(Shortest(all) \cup {s}) = Shortest(all \cup {s})
        BY <2>1, OneMore
      <4> QED
        BY <1>3, <2>1, <2>2, <4>1
    <3>2. \A t \in all \cup {s} : t.id = i
      BY <2>1, <2>2
    <3>3. {t \in newLast : t.id = i} \subseteq all \cup {s}
      BY <2>1
    <3> QED
      BY <3>1, <3>2, <3>3
  <2>3. CASE i # s.id
    <3>1. new[i] = Shortest(all)
      BY <1>3, <2>1, <2>3
    <3>2. {t \in newLast : t.id = i} \subseteq all
      BY <2>1, <2>3
    <3> QED
      BY <2>1, <3>1, <3>2
  <2> QED
    BY <2>2, <2>3
<1> QED
  BY <1>4, <1>5, <1>6 DEF KeptOf, new

(* A row of an id that is not tracked changes nothing. *)
LEMMA KeepNone ==
    ASSUME NEW ids \in SUBSET Ids, NEW read, NEW last, NEW s, NEW newLast,
           NEW kept, KeptOf(kept, ids, read, last),
           newLast \subseteq last \cup {s}, s.id \notin ids
    PROVE  KeptOf(kept, ids, read \cup {s}, newLast)
<1>1. kept \in [Ids -> SUBSET (read \cup {s})]
  BY DEF KeptOf
<1>2. ASSUME NEW i \in ids
      PROVE  \E all \in SUBSET (read \cup {s}) :
                /\ \A t \in all : t.id = i
                /\ {t \in newLast : t.id = i} \subseteq all
                /\ kept[i] = Shortest(all)
  <2>1. PICK all \in SUBSET read : /\ \A t \in all : t.id = i
                                   /\ {t \in last : t.id = i} \subseteq all
                                   /\ kept[i] = Shortest(all)
    BY DEF KeptOf
  <2>2. {t \in newLast : t.id = i} \subseteq all
    BY <2>1
  <2> QED
    BY <2>1, <2>2
<1> QED
  BY <1>1, <1>2 DEF KeptOf

(* An id that is new in the heap starts with the last rows. *)
LEMMA NoteKeeps ==
    ASSUME ShortsInv, NEW top, IdsOf(top) \subseteq Ids
    PROVE  KeptOf(NoteTracked(top), IdsOf(top), ShortsRead, recent)
<1> DEFINE now == IdsOf(top)
           new == NoteTracked(top)
<1>1. /\ shorts \in [Ids -> SUBSET ShortsRead] /\ recent \subseteq ShortsRead
  BY DEF ShortsInv, KeptOf, Latest
<1>2. ASSUME NEW i \in Ids
      PROVE  /\ i \notin now => new[i] = {}
             /\ i \in now /\ i \in tracked => new[i] = shorts[i]
             /\ i \in now /\ i \notin tracked => new[i] = Shortest({s \in recent : s.id = i})
  BY DEF NoteTracked
<1>3. new \in [Ids -> SUBSET ShortsRead]
  <2>1. \A i \in Ids : new[i] \in SUBSET ShortsRead
    BY <1>1, <1>2 DEF Shortest
  <2>2. new = [i \in Ids |-> new[i]]
    BY DEF NoteTracked
  <2> HIDE DEF new
  <2> QED
    BY <2>1, <2>2
<1> HIDE DEF new, now
<1>4. ASSUME NEW i \in now
      PROVE  \E all \in SUBSET ShortsRead :
                /\ \A s \in all : s.id = i
                /\ {s \in recent : s.id = i} \subseteq all
                /\ new[i] = Shortest(all)
  <2>0. i \in Ids
    BY DEF now
  <2>1. CASE i \in tracked
    <3>1. PICK all \in SUBSET ShortsRead : /\ \A s \in all : s.id = i
                                           /\ {s \in recent : s.id = i} \subseteq all
                                           /\ shorts[i] = Shortest(all)
      BY <2>1 DEF ShortsInv, KeptOf
    <3> QED
      BY <1>2, <2>0, <2>1, <3>1
  <2>2. CASE i \notin tracked
    BY <1>1, <1>2, <2>0, <2>2
  <2> QED
    BY <2>1, <2>2
<1>5. \A i \in Ids \ now : new[i] = {}
  BY <1>2
<1> QED
  BY <1>3, <1>4, <1>5 DEF KeptOf, new, now

LEMMA ShortsOfRows ==
    ASSUME ScanInv
    PROVE  /\ Shorts(ShortsRead)
           /\ \A n \in Turns : n \in 1 .. Len(scanned) /\ scanned[n] \in Rows
           /\ \A s \in ShortsRead : \E n \in Turns : s = ShortOf(scanned[n], n) /\ scanned[n].seq = s.seq
<1>1. /\ scanned \in Seq(Rows) /\ Len(scanned) \in Nat /\ DOMAIN scanned = 1 .. Len(scanned)
      /\ \A n \in 1 .. Len(scanned) : scanned[n] \in Rows
  BY DEF ScanInv
<1>2. \A n \in Turns : n \in 1 .. Len(scanned) /\ n \in Nat /\ scanned[n] \in Rows
  BY <1>1 DEF Turns
<1>3. \A r \in Rows : r.len \in Nat
  BY ScanAssumption DEF Rows
<1>4. IsFiniteSet(Turns)
  <2>1. Turns \in SUBSET (1 .. Len(scanned))
    BY <1>2
  <2> QED
    BY <1>1, <2>1, Numbers, FS_Subset
<1>5. IsFiniteSet(ShortsRead)
  <2> DEFINE f == [n \in Turns |-> ShortOf(scanned[n], n)]
  <2>1. f \in Surjection(Turns, ShortsRead)
    BY DEF ShortsRead, Surjection
  <2> HIDE DEF f
  <2> QED
    BY <1>4, <2>1, FS_Surjection
<1>6. \A n \in Turns : ShortOf(scanned[n], n).at = n /\ ShortOf(scanned[n], n).len = scanned[n].len /\ ShortOf(scanned[n], n).seq = scanned[n].seq
  BY DEF ShortOf
<1>7. \A s \in ShortsRead : \E n \in Turns : s = ShortOf(scanned[n], n)
  BY DEF ShortsRead
<1> QED
  BY <1>2, <1>3, <1>5, <1>6, <1>7 DEF Shorts

(* A row that is read joins the short rows if it is one. *)
LEMMA ShortJoins ==
    ASSUME ScanInv, NEW r \in Rows, ReadsRow(r), ScanInv'
    PROVE  /\ r.passes /\ IsShort(r) => ShortsRead' = ShortsRead \cup {ShortHit(r)}
           /\ ~(r.passes /\ IsShort(r)) => ShortsRead' = ShortsRead
           /\ \A t \in ShortsRead : t.seq # r.seq
           /\ Shorts(ShortsRead')
<1> DEFINE n == Len(scanned) + 1
<1>1. /\ scanned \in Seq(Rows) /\ Len(scanned) \in Nat /\ DOMAIN scanned = 1 .. Len(scanned)
      /\ scanned' = Append(scanned, r)
  BY DEF ScanInv, ReadsRow
<1>2. /\ Len(scanned') = n /\ DOMAIN scanned' = (DOMAIN scanned) \cup {n}
      /\ scanned'[n] = r /\ \A m \in DOMAIN scanned : scanned'[m] = scanned[m]
  BY <1>1
<1>3. n \notin DOMAIN scanned
  BY <1>1
<1>4. ShortHit(r) = [id |-> r.id, seq |-> r.seq, score |-> 0, len |-> r.len, at |-> n]
  BY DEF ShortHit
<1> HIDE DEF n
<1>5. Turns' = Turns \cup (IF r.passes /\ IsShort(r) THEN {n} ELSE {})
  BY <1>2, <1>3 DEF Turns, IsShort
<1>6. /\ \A m \in Turns : ShortOf(scanned'[m], m) = ShortOf(scanned[m], m)
      /\ ShortOf(scanned'[n], n) = ShortHit(r)
  <2>1. \A m \in Turns : scanned'[m] = scanned[m]
    BY <1>2 DEF Turns
  <2> QED
    BY <1>2, <1>4, <2>1 DEF ShortOf
<1>7. ShortsRead' = {ShortOf(scanned'[m], m) : m \in Turns'}
  BY DEF ShortsRead
<1>8. \A t \in ShortsRead : t.seq # r.seq
  <2>1. \A m \in Turns : scanned[m] \in ToSet(scanned)
    BY DEF Turns, ToSet
  <2> QED
    BY <2>1, ShortsOfRows DEF ReadsRow
<1>9. Shorts(ShortsRead')
  <2>1. Shorts(ShortsRead)'
    BY ShortsOfRows, PTL
  <2> QED
    BY <2>1 DEF Shorts
<1>10. ASSUME r.passes /\ IsShort(r)
       PROVE  ShortsRead' = ShortsRead \cup {ShortHit(r)}
  <2>1. Turns' = Turns \cup {n}
    BY <1>5, <1>10
  <2> QED
    BY <1>6, <1>7, <2>1 DEF ShortsRead
<1>11. ASSUME ~(r.passes /\ IsShort(r))
       PROVE  ShortsRead' = ShortsRead
  <2>1. Turns' = Turns
    BY <1>5, <1>11
  <2> QED
    BY <1>6, <1>7, <2>1 DEF ShortsRead
<1> QED
  BY <1>8, <1>9, <1>10, <1>11

LEMMA HeapIds ==
    ASSUME ScanInv
    PROVE  IdsOf(heap) \subseteq Ids
<1>1. heap \subseteq Rows
  <2>1. ToSet(scanned) \subseteq Rows
    BY DEF ScanInv, ToSet
  <2> QED
    BY <2>1 DEF ScanInv, ScanIsTop, Candidates
<1> QED
  BY <1>1 DEF IdsOf, Ids, Rows

(* What a row does to the short rows, once it is known what is tracked. *)
LEMMA RowKept ==
    ASSUME ScanInv, ScanInv', NEW r \in Rows, ReadsRow(r), r.passes,
           NEW kept, NEW ids \in SUBSET Ids, NEW keptThen,
           recent = Latest(ShortsRead), recent' = PushRecent(r),
           KeptOf(kept, ids, ShortsRead, recent),
           keptThen = KeepShort(kept, r, ids)
    PROVE  recent' = Latest(ShortsRead') /\ KeptOf(keptThen, ids, ShortsRead', recent')
<1> DEFINE s == ShortHit(r)
<1>1. s.id = r.id /\ s.seq = r.seq
  BY DEF ShortHit
<1>2. /\ IsShort(r) => ShortsRead' = ShortsRead \cup {s}
      /\ ~IsShort(r) => ShortsRead' = ShortsRead
      /\ \A t \in ShortsRead : t.seq # s.seq
      /\ Shorts(ShortsRead')
  BY <1>1, ShortJoins
<1>3. /\ IsShort(r) => recent' = Latest(recent \cup {s})
      /\ ~IsShort(r) => recent' = recent
  BY DEF PushRecent
<1>4. /\ IsShort(r) /\ r.id \in ids => keptThen = [kept EXCEPT ![s.id] = Remember(@, s)]
      /\ ~(IsShort(r) /\ r.id \in ids) => keptThen = kept
  BY <1>1 DEF KeepShort
<1> HIDE DEF s
<1>5. CASE IsShort(r)
  <2>1. recent' = Latest(ShortsRead \cup {s})
    <3>1. Shorts(ShortsRead \cup {s})
      BY <1>2, <1>5
    <3>2. Latest(Latest(ShortsRead) \cup {s}) = Latest(ShortsRead \cup {s})
      BY <3>1, OneMore
    <3>3. recent' = Latest(Latest(ShortsRead) \cup {s})
      BY <1>3, <1>5
    <3> QED
      BY <3>2, <3>3
  <2>2. recent' \subseteq recent \cup {s}
    BY <1>3, <1>5 DEF Latest
  <2>3. Shorts(ShortsRead \cup {s}) /\ ShortsRead' = ShortsRead \cup {s}
    BY <1>2, <1>5
  <2>4. CASE r.id \in ids
    <3>1. s.id \in ids
      BY <1>1, <2>4
    <3>2. KeptOf([kept EXCEPT ![s.id] = Remember(@, s)], ids, ShortsRead \cup {s}, recent')
      BY <1>2, <2>2, <2>3, <3>1, KeepOne
    <3> QED
      BY <1>4, <1>5, <2>1, <2>3, <2>4, <3>2
  <2>5. CASE r.id \notin ids
    <3>1. s.id \notin ids
      BY <1>1, <2>5
    <3>2. KeptOf(kept, ids, ShortsRead \cup {s}, recent')
      BY <2>2, <3>1, KeepNone
    <3> QED
      BY <1>4, <1>5, <2>1, <2>3, <2>5, <3>2
  <2> QED
    BY <2>4, <2>5
<1>6. CASE ~IsShort(r)
  BY <1>2, <1>3, <1>4, <1>6
<1> QED
  BY <1>5, <1>6

LEMMA RankedShorts ==
    ASSUME ScanInv, ScanInv', ShortsInv, NEW r \in Rows, Ranked(r)
    PROVE  ShortsInv'
<1>1. /\ ReadsRow(r) /\ r.passes /\ tracked' = IdsOf(heap') /\ recent' = PushRecent(r)
      /\ shorts' = KeepShort(NoteTracked(heap'), r, tracked')
  BY DEF Ranked, IsRanked
<1>2. IdsOf(heap') \subseteq Ids
  <2>1. (IdsOf(heap) \subseteq Ids)'
    BY HeapIds, PTL
  <2> QED
    BY <2>1 DEF IdsOf, Ids
<1>3. KeptOf(NoteTracked(heap'), tracked', ShortsRead, recent)
  BY <1>1, <1>2, NoteKeeps
<1>4. recent = Latest(ShortsRead)
  BY DEF ShortsInv
<1>5. recent' = Latest(ShortsRead') /\ KeptOf(shorts', tracked', ShortsRead', recent')
  BY <1>1, <1>2, <1>3, <1>4, RowKept
<1> QED
  BY <1>1, <1>5 DEF ShortsInv

LEMMA UnrankedShorts ==
    ASSUME ScanInv, ScanInv', ShortsInv, NEW r \in Rows, Unranked(r)
    PROVE  ShortsInv'
<1>1. /\ ReadsRow(r) /\ r.passes /\ tracked' = tracked /\ heap' = heap /\ recent' = PushRecent(r)
      /\ shorts' = KeepShort(shorts, r, tracked)
  BY DEF Unranked
<1>2. tracked = IdsOf(heap) /\ tracked \subseteq Ids
  BY HeapIds DEF ShortsInv
<1>3. recent = Latest(ShortsRead) /\ KeptOf(shorts, tracked, ShortsRead, recent)
  BY DEF ShortsInv
<1>4. recent' = Latest(ShortsRead') /\ KeptOf(shorts', tracked, ShortsRead', recent')
  BY <1>1, <1>2, <1>3, RowKept
<1> QED
  BY <1>1, <1>2, <1>4 DEF ShortsInv

LEMMA FilteredShorts ==
    ASSUME ScanInv, ScanInv', ShortsInv, NEW r \in Rows, Filtered(r)
    PROVE  ShortsInv'
<1>1. ReadsRow(r) /\ ~r.passes /\ UNCHANGED <<heap, tracked, shorts, recent>>
  BY DEF Filtered
<1>2. ShortsRead' = ShortsRead
  BY <1>1, ShortJoins
<1> QED
  BY <1>1, <1>2 DEF ShortsInv

LEMMA NothingShort ==
    ASSUME NothingRead
    PROVE  ShortsInv
<1>1. heap = {} /\ tracked = {} /\ shorts = [i \in Ids |-> {}] /\ recent = {} /\ scanned = <<>>
  BY DEF NothingRead, NoShorts
<1>2. ShortsRead = {}
  BY <1>1 DEF ShortsRead, Turns
<1>3. IdsOf(heap) = {} /\ Latest({}) = {}
  BY <1>1 DEF IdsOf, Latest
<1>4. KeptOf(shorts, {}, {}, {})
  BY <1>1 DEF KeptOf
<1> QED
  BY <1>1, <1>2, <1>3, <1>4 DEF ShortsInv

(* Who is among the last short rows is one of the rows of recent. *)
LEMMA LastAreRecent ==
    ASSUME ScanInv, ShortsInv, NEW r \in LastShorts
    PROVE  \E s \in recent : s.seq = r.seq /\ s.id = r.id /\ s.len = r.len
<1>1. PICK n \in Turns : r = scanned[n] /\ Cardinality({j \in Turns : j > n}) < RecentShorts
  BY DEF LastShorts, Turns
<1> DEFINE s == ShortOf(scanned[n], n)
           later == {j \in Turns : j > n}
           rows == {t \in ShortsRead : t.at > s.at}
           f == [j \in later |-> ShortOf(scanned[j], j)]
<1>2. s \in ShortsRead /\ s.at = n /\ s.seq = r.seq /\ s.id = r.id /\ s.len = r.len
  BY <1>1 DEF ShortsRead, ShortOf
<1>3. IsFiniteSet(later)
  <2>1. later \in SUBSET (1 .. Len(scanned)) /\ Len(scanned) \in Nat
    BY ShortsOfRows DEF ScanInv
  <2> QED
    BY <2>1, Numbers, FS_Subset
<1>4. f \in Surjection(later, rows)
  <2>1. \A j \in Turns : ShortOf(scanned[j], j).at = j
    BY DEF ShortOf
  <2>2. f \in [later -> rows] /\ \A t \in rows : \E j \in later : f[j] = t
    BY <1>2, <2>1 DEF ShortsRead
  <2> QED
    BY <2>2 DEF Surjection
<1> HIDE DEF f
<1>5. IsFiniteSet(rows) /\ Cardinality(rows) <= Cardinality(later)
  BY <1>3, <1>4, FS_Surjection
<1>6. Cardinality(rows) \in Nat /\ Cardinality(later) \in Nat /\ RecentShorts \in Nat
  BY <1>3, <1>5, Caps, FS_CardinalityType
<1>7. Cardinality(rows) < RecentShorts
  BY <1>1, <1>5, <1>6
<1>8. s \in recent
  BY <1>2, <1>7 DEF ShortsInv, Latest
<1> QED
  BY <1>2, <1>8

LEMMA ShortsShow ==
    ASSUME ScanInv, ShortsInv
    PROVE  SiblingsKept
<1> SUFFICES ASSUME NEW r \in LastShorts, r.id \in IdsOf(heap)
             PROVE  \/ \E s \in shorts[r.id] : s.seq = r.seq
                    \/ /\ Cardinality(shorts[r.id]) = SiblingsPerId
                       /\ \A s \in shorts[r.id] : s.len <= r.len
  BY DEF SiblingsKept
<1>1. PICK s \in recent : s.seq = r.seq /\ s.id = r.id /\ s.len = r.len
  BY LastAreRecent
<1>2. PICK all \in SUBSET ShortsRead : /\ {t \in recent : t.id = r.id} \subseteq all
                                       /\ shorts[r.id] = Shortest(all)
  BY DEF ShortsInv, KeptOf
<1>3. s \in all
  BY <1>1, <1>2
<1> DEFINE kept == Top(SiblingsPerId, all, ByLength(ShortsRead))
<1>4. shorts[r.id] = kept
  BY <1>2, TopsAre
<1>5. CASE s \in kept
  BY <1>1, <1>4, <1>5
<1>6. CASE s \notin kept
  <2>1. IsFiniteSet(all) /\ Ordered(all, ByLength(ShortsRead))
    <3>1. IsFiniteSet(ShortsRead) /\ Ordered(ShortsRead, ByLength(ShortsRead))
      BY ShortsOfRows, ShortsOrdered DEF Shorts
    <3> QED
      BY <1>2, <3>1, FS_Subset DEF Ordered
  <2>2. SiblingsPerId \in Nat /\ s \in all \ kept
    BY <1>3, <1>6, Caps
  <2>3. /\ Cardinality(kept) = SiblingsPerId
        /\ \A t \in kept : <<t, s>> \in ByLength(ShortsRead)
    BY <2>1, <2>2, TopFull
  <2>4. \A t \in kept : t \in ShortsRead /\ Shorter(t, s)
    BY <2>3 DEF ByLength
  <2>5. \A t \in kept : t.len <= s.len
    BY <1>3, <2>4, ShortsOfRows DEF Shorts, Shorter
  <2> QED
    BY <1>1, <1>4, <2>3, <2>5
<1> QED
  BY <1>5, <1>6


LEMMA ShortsStep ==
    ASSUME ScanInv, ScanInv', ShortsInv, [ScanNext]_scanVars
    PROVE  ShortsInv'
<1>1. ASSUME UNCHANGED <<scanned, heap, tracked, shorts, recent>>
      PROVE  ShortsInv'
  <2>1. ShortsRead' = ShortsRead
    BY <1>1 DEF ShortsRead, Turns
  <2> QED
    BY <1>1, <2>1 DEF ShortsInv
<1>2. CASE \E r \in Rows : Filtered(r) \/ Ranked(r) \/ Unranked(r)
  BY <1>2, FilteredShorts, RankedShorts, UnrankedShorts
<1>3. CASE EndOfScan \/ BadLine
  <2>1. NothingRead'
    BY <1>3 DEF EndOfScan, BadLine, NothingRead, NoShorts
  <2> QED
    BY <2>1, NothingShort, PTL
<1>4. CASE Plain \/ FallThrough \/ Jev \/ Laya
  BY <1>1, <1>4 DEF Plain, FallThrough, Jev, Laya, Answers
<1>5. CASE UNCHANGED scanVars
  BY <1>1, <1>5 DEF scanVars
<1> QED
  BY <1>2, <1>3, <1>4, <1>5 DEF ScanNext

(* SiblingsKept: of the last short rows, each that shares its id with a    *)
(* hit is kept for this id, or there are enough others that are no longer  *)
(* (note_tracked, remember_short, push_recent).                            *)
THEOREM ShortsStayNear == ScanSpec => []SiblingsKept
<1>1. ScanInit => ScanInv /\ ShortsInv
  BY NothingIsTop, NothingShort DEF ScanInit
<1>2. ScanInv /\ ShortsInv /\ [ScanNext]_scanVars => ScanInv' /\ ShortsInv'
  BY ScanStep, ShortsStep
<1>3. ScanInv /\ ShortsInv => SiblingsKept
  BY ShortsShow
<1> QED
  BY <1>1, <1>2, <1>3, PTL DEF ScanSpec

-----------------------------------------------------------------------------
(* Lists again *)

LEMMA Sized ==
    ASSUME NEW S, NEW list \in Seq(S)
    PROVE  /\ Len(list) \in Nat /\ DOMAIN list = 1 .. Len(list)
           /\ \A i \in 1 .. Len(list) : list[i] \in S
BY LenProperties, ElementOfSeq

LEMMA AsList ==
    ASSUME NEW S, NEW n \in Nat, NEW list \in [1 .. n -> S]
    PROVE  list \in Seq(S) /\ Len(list) = n
<1>1. list \in Seq(S)
  BY SeqDef
<1>2. Len(list) \in Nat /\ DOMAIN list = 1 .. Len(list) /\ DOMAIN list = 1 .. n
  BY <1>1, LenProperties
<1>3. Cardinality(1 .. Len(list)) = Len(list) /\ Cardinality(1 .. n) = n
  BY <1>2, Numbers
<1> QED
  BY <1>1, <1>2, <1>3

LEMMA Least ==
    ASSUME NEW m \in Nat, NEW n \in Nat
    PROVE  /\ Min({m, n}) \in Nat /\ Min({m, n}) <= m /\ Min({m, n}) <= n
           /\ Min({m, n}) \in {m, n}
<1>1. \E x \in {m, n} : \A y \in {m, n} : x <= y
  BY SMT
<1>2. Min({m, n}) \in {m, n} /\ \A y \in {m, n} : Min({m, n}) <= y
  BY <1>1 DEF Min
<1> QED
  BY <1>2

(* The first members of a list. *)
LEMMA FirstAre ==
    ASSUME NEW S, NEW list \in Seq(S), NEW n \in Nat
    PROVE  /\ FirstOf(list, n) \in Seq(S)
           /\ Len(FirstOf(list, n)) = Min({n, Len(list)})
           /\ Len(FirstOf(list, n)) \in Nat
           /\ Len(FirstOf(list, n)) <= Len(list) /\ Len(FirstOf(list, n)) <= n
           /\ \A i \in 1 .. Len(FirstOf(list, n)) : FirstOf(list, n)[i] = list[i]
<1> DEFINE k == Min({n, Len(list)})
           u == SubSeq(list, 1, k)
<1>1. Len(list) \in Nat /\ \A i \in 1 .. Len(list) : list[i] \in S
  BY Sized
<1>2. k \in Nat /\ k <= n /\ k <= Len(list)
  BY <1>1, Least
<1>3. FirstOf(list, n) = u
  BY DEF FirstOf
<1> HIDE DEF k
<1>4. 1 \in Int /\ k \in Int /\ \A i \in 1 .. k : list[i] \in S
  BY <1>1, <1>2
<1>5. /\ u \in Seq(S) /\ Len(u) = (IF 1 <= k THEN k - 1 + 1 ELSE 0)
      /\ \A i \in 1 .. (k - 1 + 1) : u[i] = list[1 + i - 1]
  BY <1>4, SubSeqProperties
<1> HIDE DEF u
<1>6. Len(u) = k
  BY <1>2, <1>5
<1>7. ASSUME NEW i \in 1 .. Len(u)
      PROVE  u[i] = list[i]
  <2>1. i \in 1 .. (k - 1 + 1) /\ 1 + i - 1 = i
    BY <1>2, <1>6
  <2> QED
    BY <1>5, <2>1
<1> QED
  BY <1>2, <1>3, <1>5, <1>6, <1>7 DEF k

(* A list of the members of another at the places in S, each once. *)
Picked(new, list, S) ==
    \E place \in [1 .. Len(new) -> S] :
        /\ \A n \in 1 .. Len(new) : new[n] = list[place[n]]
        /\ \A m, n \in 1 .. Len(new) : m # n => place[m] # place[n]
        /\ \A i \in S : \E n \in 1 .. Len(new) : place[n] = i

LEMMA Places ==
    ASSUME NEW X, NEW list \in Seq(X), NEW S \in SUBSET DOMAIN list
    PROVE  IsFiniteSet(S) /\ Cardinality(S) \in Nat /\ Cardinality(S) <= Len(list)
<1>1. Len(list) \in Nat /\ DOMAIN list = 1 .. Len(list)
  BY Sized
<1>2. IsFiniteSet(1 .. Len(list)) /\ Cardinality(1 .. Len(list)) = Len(list)
  BY <1>1, Numbers
<1>3. IsFiniteSet(S) /\ Cardinality(S) <= Cardinality(1 .. Len(list))
  BY <1>1, <1>2, FS_Subset
<1> QED
  BY <1>2, <1>3, FS_CardinalityType

LEMMA Arranged ==
    ASSUME NEW X, NEW list \in Seq(X), NEW S \in SUBSET DOMAIN list,
           NEW before, Ordered(S, before), NEW new,
           new = [n \in 1 .. Cardinality(S) |-> list[Listed(S, before)[n]]]
    PROVE  /\ new \in Seq(X) /\ Len(new) = Cardinality(S) /\ Picked(new, list, S)
<1> DEFINE size == Cardinality(S)
           place == Listed(S, before)
<1>1. IsFiniteSet(S) /\ size \in Nat
  BY Places
<1>2. /\ place \in [1 .. size -> S]
      /\ \A i \in S : \E n \in 1 .. size : place[n] = i
      /\ \A m, n \in 1 .. size : m # n => place[m] # place[n]
  BY <1>1, Listing
<1> HIDE DEF size, place
<1>3. new = [n \in 1 .. size |-> list[place[n]]]
  BY DEF size, place
<1>4. \A i \in S : list[i] \in X
  BY Sized
<1>5. new \in [1 .. size -> X]
  BY <1>2, <1>3, <1>4
<1>6. new \in Seq(X) /\ Len(new) = size
  BY <1>1, <1>5, AsList
<1>7. Picked(new, list, S)
  BY <1>2, <1>3, <1>6 DEF Picked
<1> QED
  BY <1>6, <1>7 DEF size

LEMMA RisingOrdered ==
    ASSUME NEW X, NEW list \in Seq(X), NEW S \in SUBSET DOMAIN list
    PROVE  Ordered(S, Rising(S))
<1>1. \A i \in S : i \in Nat
  BY Sized
<1>2. \A i, j \in S : <<i, j>> \in Rising(S) <=> i < j
  BY DEF Rising
<1> QED
  BY <1>1, <1>2 DEF Ordered

LEMMA ListAtPicks ==
    ASSUME NEW X, NEW list \in Seq(X), NEW S \in SUBSET DOMAIN list
    PROVE  /\ ListAt(list, S) \in Seq(X) /\ Len(ListAt(list, S)) = Cardinality(S)
           /\ Picked(ListAt(list, S), list, S)
<1> DEFINE place == Listed(S, Rising(S))
<1>1. DOMAIN place = 1 .. Cardinality(S)
  BY DEF Listed
<1> HIDE DEF place
<1>2. ListAt(list, S) = [n \in 1 .. Cardinality(S) |-> list[place[n]]]
  BY <1>1 DEF ListAt, place
<1>3. Ordered(S, Rising(S))
  BY RisingOrdered
<1> QED
  BY <1>2, <1>3, Arranged DEF place

-----------------------------------------------------------------------------
(* Rows of a page *)

Keys == Nat \cup UNION {{list[i].key : i \in DOMAIN list} : list \in FactLists}

PageRows == [side : {"fact", "event"}, key : Keys, score : Nat]

RowIds(list) == {RowId(list[i]) : i \in DOMAIN list}

(* No row is in the list twice. *)
Once(list) == \A i, j \in DOMAIN list : i # j => RowId(list[i]) # RowId(list[j])

LEMMA Counted ==
    ASSUME NEW list \in Seq(PageRows), Once(list)
    PROVE  IsFiniteSet(RowIds(list)) /\ Cardinality(RowIds(list)) = Len(list)
<1> DEFINE f == [i \in 1 .. Len(list) |-> RowId(list[i])]
           ids == RowIds(list)
<1>1. Len(list) \in Nat /\ DOMAIN list = 1 .. Len(list)
  BY Sized
<1>2. f \in [1 .. Len(list) -> ids]
  BY <1>1 DEF RowIds
<1>3. \A i, j \in 1 .. Len(list) : f[i] = f[j] => i = j
  BY <1>1 DEF Once
<1>4. \A id \in ids : \E i \in 1 .. Len(list) : f[i] = id
  BY <1>1 DEF RowIds
<1> HIDE DEF f, ids
<1>5. f \in Surjection(1 .. Len(list), ids) /\ f \in Injection(1 .. Len(list), ids)
  BY <1>2, <1>3, <1>4 DEF Surjection, Injection, IsInjective
<1>6. IsFiniteSet(1 .. Len(list)) /\ Cardinality(1 .. Len(list)) = Len(list)
  BY <1>1, Numbers
<1>7. /\ IsFiniteSet(ids)
      /\ Cardinality(ids) = Cardinality(1 .. Len(list)) <=> f \in Injection(1 .. Len(list), ids)
  BY <1>5, <1>6, FS_Surjection
<1> QED
  BY <1>5, <1>6, <1>7 DEF ids

(* Picking rows repeats none. *)
LEMMA PickedOnce ==
    ASSUME NEW list \in Seq(PageRows), NEW new \in Seq(PageRows), NEW S \in SUBSET DOMAIN list,
           Once(list), Picked(new, list, S)
    PROVE  Once(new) /\ RowIds(new) = {RowId(list[i]) : i \in S}
<1>1. DOMAIN new = 1 .. Len(new)
  BY Sized
<1>2. PICK place \in [1 .. Len(new) -> S] :
         /\ \A n \in 1 .. Len(new) : new[n] = list[place[n]]
         /\ \A m, n \in 1 .. Len(new) : m # n => place[m] # place[n]
         /\ \A i \in S : \E n \in 1 .. Len(new) : place[n] = i
  BY DEF Picked
<1>3. ASSUME NEW m \in DOMAIN new, NEW n \in DOMAIN new, m # n
      PROVE  RowId(new[m]) # RowId(new[n])
  <2>1. place[m] # place[n] /\ place[m] \in DOMAIN list /\ place[n] \in DOMAIN list
    BY <1>1, <1>2, <1>3
  <2>2. new[m] = list[place[m]] /\ new[n] = list[place[n]]
    BY <1>1, <1>2, <1>3
  <2> QED
    BY <2>1, <2>2 DEF Once
<1>4. \A n \in 1 .. Len(new) : RowId(new[n]) = RowId(list[place[n]])
  BY <1>2
<1>5. RowIds(new) = {RowId(list[i]) : i \in S}
  <2>1. RowIds(new) = {RowId(new[n]) : n \in 1 .. Len(new)}
    BY <1>1 DEF RowIds
  <2>2. \A n \in 1 .. Len(new) : place[n] \in S
    BY <1>2
  <2>3. ASSUME NEW i \in S
        PROVE  \E n \in 1 .. Len(new) : RowId(new[n]) = RowId(list[i])
    <3>1. PICK n \in 1 .. Len(new) : place[n] = i
      BY <1>2
    <3> QED
      BY <1>4, <3>1
  <2>4. ASSUME NEW id \in RowIds(new)
        PROVE  \E i \in S : id = RowId(list[i])
    <3>1. PICK n \in 1 .. Len(new) : id = RowId(new[n])
      BY <2>1
    <3>2. place[n] \in S /\ id = RowId(list[place[n]])
      BY <1>4, <2>2, <3>1
    <3> QED
      BY <3>2
  <2>5. \A i \in S : RowId(list[i]) \in RowIds(new)
    BY <2>1, <2>3
  <2> QED
    BY <2>4, <2>5
<1> QED
  BY <1>3, <1>5 DEF Once

LEMMA FirstOnce ==
    ASSUME NEW list \in Seq(PageRows), Once(list), NEW n \in Nat
    PROVE  Once(FirstOf(list, n)) /\ RowIds(FirstOf(list, n)) \subseteq RowIds(list)
<1> DEFINE u == FirstOf(list, n)
<1>1. /\ Len(list) \in Nat /\ DOMAIN list = 1 .. Len(list)
      /\ Len(u) \in Nat /\ DOMAIN u = 1 .. Len(u) /\ Len(u) <= Len(list)
      /\ \A i \in 1 .. Len(u) : u[i] = list[i]
  BY FirstAre, Sized
<1> HIDE DEF u
<1>2. \A i \in DOMAIN u : i \in DOMAIN list /\ u[i] = list[i]
  BY <1>1
<1> QED
  BY <1>2 DEF Once, RowIds, u

LEMMA JoinedOnce ==
    ASSUME NEW a \in Seq(PageRows), NEW b \in Seq(PageRows), Once(a), Once(b),
           RowIds(a) \cap RowIds(b) = {}
    PROVE  /\ a \o b \in Seq(PageRows) /\ Len(a \o b) = Len(a) + Len(b)
           /\ Once(a \o b) /\ RowIds(a \o b) = RowIds(a) \cup RowIds(b)
<1> DEFINE u == a \o b
<1>1. /\ u \in Seq(PageRows) /\ Len(u) = Len(a) + Len(b)
      /\ \A i \in 1 .. Len(a) + Len(b) : u[i] = IF i <= Len(a) THEN a[i] ELSE b[i - Len(a)]
  BY ConcatProperties
<1>2. /\ Len(a) \in Nat /\ Len(b) \in Nat /\ DOMAIN a = 1 .. Len(a) /\ DOMAIN b = 1 .. Len(b)
      /\ DOMAIN u = 1 .. Len(a) + Len(b)
  BY <1>1, Sized
<1> HIDE DEF u
<1>3. ASSUME NEW i \in DOMAIN u
      PROVE  \/ i \in DOMAIN a /\ u[i] = a[i]
             \/ i > Len(a) /\ i - Len(a) \in DOMAIN b /\ u[i] = b[i - Len(a)]
  BY <1>1, <1>2
<1>4. ASSUME NEW i \in DOMAIN u, NEW j \in DOMAIN u, i # j
      PROVE  RowId(u[i]) # RowId(u[j])
  <2>1. CASE i \in DOMAIN a /\ u[i] = a[i] /\ j \in DOMAIN a /\ u[j] = a[j]
    BY <1>4, <2>1 DEF Once
  <2>2. CASE i \in DOMAIN a /\ u[i] = a[i] /\ j - Len(a) \in DOMAIN b /\ u[j] = b[j - Len(a)]
    BY <2>2 DEF RowIds
  <2>3. CASE i - Len(a) \in DOMAIN b /\ u[i] = b[i - Len(a)] /\ j \in DOMAIN a /\ u[j] = a[j]
    BY <2>3 DEF RowIds
  <2>4. CASE /\ i - Len(a) \in DOMAIN b /\ u[i] = b[i - Len(a)]
             /\ j - Len(a) \in DOMAIN b /\ u[j] = b[j - Len(a)]
    <3>1. i - Len(a) # j - Len(a)
      BY <1>2, <1>4
    <3> QED
      BY <2>4, <3>1 DEF Once
  <2> QED
    BY <1>3, <2>1, <2>2, <2>3, <2>4
<1>5. \A i \in DOMAIN a : i \in DOMAIN u /\ u[i] = a[i]
  BY <1>1, <1>2
<1>6. ASSUME NEW i \in DOMAIN b
      PROVE  Len(a) + i \in DOMAIN u /\ u[Len(a) + i] = b[i]
  <2>1. Len(a) + i \in 1 .. Len(a) + Len(b) /\ ~(Len(a) + i <= Len(a)) /\ (Len(a) + i) - Len(a) = i
    BY <1>2
  <2> QED
    BY <1>1, <1>2, <2>1
<1>7. RowIds(u) = RowIds(a) \cup RowIds(b)
  <2>1. ASSUME NEW id \in RowIds(u)
        PROVE  id \in RowIds(a) \cup RowIds(b)
    <3>1. PICK i \in DOMAIN u : id = RowId(u[i])
      BY DEF RowIds
    <3> QED
      BY <1>3, <3>1 DEF RowIds
  <2>2. ASSUME NEW i \in DOMAIN a
        PROVE  RowId(a[i]) \in RowIds(u)
    BY <1>5 DEF RowIds
  <2>3. ASSUME NEW i \in DOMAIN b
        PROVE  RowId(b[i]) \in RowIds(u)
    <3>1. RowId(u[Len(a) + i]) \in RowIds(u)
      BY <1>6 DEF RowIds
    <3> QED
      BY <1>6, <3>1
  <2> QED
    BY <2>1, <2>2, <2>3 DEF RowIds
<1> QED
  BY <1>1, <1>4, <1>7 DEF Once, u

(* Sorting by score keeps the rows. *)
LEMMA BestPicks ==
    ASSUME NEW list \in Seq(PageRows), NEW S \in SUBSET DOMAIN list
    PROVE  /\ BestAt(list, S) \in Seq(PageRows) /\ Len(BestAt(list, S)) = Cardinality(S)
           /\ Picked(BestAt(list, S), list, S)
<1> DEFINE isAbove(i, j) == list[i].score > list[j].score \/ (list[i].score = list[j].score /\ i < j)
           before == {pair \in S \X S : isAbove(pair[1], pair[2])}
<1>1. /\ Len(list) \in Nat /\ DOMAIN list = 1 .. Len(list)
      /\ \A i \in S : i \in Nat /\ list[i].score \in Nat
  <2>1. Len(list) \in Nat /\ DOMAIN list = 1 .. Len(list) /\ \A i \in 1 .. Len(list) : list[i] \in PageRows
    BY Sized
  <2> QED
    BY <2>1 DEF PageRows
<1>2. IsFiniteSet(S)
  <2>1. IsFiniteSet(1 .. Len(list)) /\ S \in SUBSET (1 .. Len(list))
    BY <1>1, Numbers
  <2> HIDE DEF isAbove, before
  <2> QED
    BY <2>1, FS_Subset
<1>3. \A i, j \in S : <<i, j>> \in before <=> isAbove(i, j)
  OBVIOUS
<1>4. /\ \A i \in S : ~isAbove(i, i)
      /\ \A i, j, k \in S : isAbove(i, j) /\ isAbove(j, k) => isAbove(i, k)
      /\ \A i, j \in S : i = j \/ isAbove(i, j) \/ isAbove(j, i)
  BY <1>1
<1> DEFINE place == Listed(S, before)
<1>5. BestAt(list, S) = [n \in DOMAIN place |-> list[place[n]]] /\ DOMAIN place = 1 .. Cardinality(S)
  BY DEF BestAt, Listed
<1> HIDE DEF isAbove, before
<1>6. Ordered(S, before)
  BY <1>3, <1>4 DEF Ordered
<1>7. BestAt(list, S) = [n \in 1 .. Cardinality(S) |-> list[Listed(S, before)[n]]]
  BY <1>5
<1> QED
  BY <1>2, <1>6, <1>7, Arranged

LEMMA ByScorePicks ==
    ASSUME NEW list \in Seq(PageRows)
    PROVE  /\ ByScore(list) \in Seq(PageRows) /\ Len(ByScore(list)) = Len(list)
           /\ Picked(ByScore(list), list, DOMAIN list)
<1> DEFINE S == DOMAIN list
<1>1. ByScore(list) = BestAt(list, S) /\ S \in SUBSET DOMAIN list
  BY DEF ByScore
<1>2. Len(list) \in Nat /\ S = 1 .. Len(list)
  BY Sized
<1>3. Cardinality(S) = Len(list)
  BY <1>2, Numbers
<1> HIDE DEF S
<1> QED
  BY <1>1, <1>3, BestPicks DEF S

LEMMA ByScoreOnce ==
    ASSUME NEW list \in Seq(PageRows), Once(list)
    PROVE  Once(ByScore(list)) /\ RowIds(ByScore(list)) = RowIds(list)
<1>1. Once(ByScore(list)) /\ RowIds(ByScore(list)) = {RowId(list[i]) : i \in DOMAIN list}
  <2>1. DOMAIN list \in SUBSET DOMAIN list
    OBVIOUS
  <2> QED
    BY <2>1, ByScorePicks, PickedOnce
<1> QED
  BY <1>1 DEF RowIds

(* A score of a judge changes no row. *)
LEMMA ScoredRows ==
    ASSUME NEW list \in Seq(PageRows), Once(list), NEW scores \in [DOMAIN list -> 0 .. 1]
    PROVE  /\ Scored(list, scores) \in Seq(PageRows) /\ Len(Scored(list, scores)) = Len(list)
           /\ Once(Scored(list, scores)) /\ RowIds(Scored(list, scores)) = RowIds(list)
<1> DEFINE new == Scored(list, scores)
<1>1. /\ Len(list) \in Nat /\ DOMAIN list = 1 .. Len(list)
      /\ \A i \in 1 .. Len(list) : list[i] \in PageRows
  BY Sized
<1>2. DOMAIN new = DOMAIN list /\ \A i \in DOMAIN list : new[i] = [list[i] EXCEPT !.score = scores[i]]
  BY DEF Scored
<1>3. ASSUME NEW i \in DOMAIN list
      PROVE  new[i] \in PageRows /\ RowId(new[i]) = RowId(list[i])
  BY <1>1, <1>2 DEF PageRows, RowId
<1>4. new = [i \in 1 .. Len(list) |-> new[i]]
  BY <1>1 DEF Scored
<1> HIDE DEF new
<1>5. new \in [1 .. Len(list) -> PageRows]
  BY <1>1, <1>3, <1>4
<1>6. new \in Seq(PageRows) /\ Len(new) = Len(list)
  BY <1>1, <1>5, AsList
<1> QED
  BY <1>2, <1>3, <1>6 DEF Once, RowIds, new

-----------------------------------------------------------------------------
(* The rows that are ranked *)

Hits == Rows \cup {ShortOf(r, n) : r \in Rows, n \in Nat}

SearchTyped == search \in [facts : FactLists, rerank : BOOLEAN, factsOnly : BOOLEAN]

(* What the scan returns has no row twice. *)
FoundOnce ==
    /\ found \in Seq(Hits)
    /\ \A i, j \in DOMAIN found : i # j => found[i].seq # found[j].seq

LEMMA PickedFrom ==
    ASSUME NEW X, NEW list \in Seq(X), NEW new \in Seq(X), NEW S \in SUBSET DOMAIN list,
           Picked(new, list, S)
    PROVE  \A n \in DOMAIN new : \E i \in S : new[n] = list[i]
<1>1. DOMAIN new = 1 .. Len(new)
  BY Sized
<1> QED
  BY <1>1 DEF Picked

LEMMA MatchingPicks ==
    ASSUME NEW list \in Seq(PageRows), Once(list)
    PROVE  /\ Matching(list) \in Seq(PageRows) /\ Once(Matching(list))
           /\ \A n \in DOMAIN Matching(list) :
                 Matching(list)[n].score > 0 /\ \E i \in DOMAIN list : Matching(list)[n] = list[i]
<1> DEFINE S == {i \in DOMAIN list : list[i].score > 0}
           new == Matching(list)
<1>1. S \in SUBSET DOMAIN list /\ new = ListAt(list, S)
  BY DEF Matching
<1>2. \A i \in S : i \in DOMAIN list /\ list[i].score > 0
  OBVIOUS
<1> HIDE DEF S, new
<1>3. new \in Seq(PageRows) /\ Picked(new, list, S)
  BY <1>1, ListAtPicks
<1>4. Once(new)
  BY <1>1, <1>3, PickedOnce
<1>5. \A n \in DOMAIN new : \E i \in S : new[n] = list[i]
  BY <1>1, <1>3, PickedFrom
<1> QED
  BY <1>2, <1>3, <1>4, <1>5 DEF new

(* The facts that match: each once. *)
LEMMA FoundFacts ==
    ASSUME SearchTyped
    PROVE  /\ FactsFound \in Seq(PageRows) /\ Once(FactsFound)
           /\ \A n \in DOMAIN FactsFound : FactsFound[n].side = "fact" /\ FactsFound[n].score > 0
<1> DEFINE all == search.facts
           facts == [i \in DOMAIN all |-> [side |-> "fact", key |-> all[i].key, score |-> all[i].score]]
           cap == IF search.rerank THEN 20 ELSE Min({PageLimit, 20})
           match == {i \in DOMAIN facts : facts[i].score > 0}
           best == BestAt(facts, match)
<1>0. all \in FactLists
  BY DEF SearchTyped
<1>1. /\ all \in Seq(ToSet(all)) /\ \A f \in ToSet(all) : f.score \in Nat
      /\ \A i, j \in DOMAIN all : i # j => all[i].key # all[j].key
  BY <1>0, ScanAssumption, FactsOnce DEF ScanAssumption, FactsOnce
<1>2. FactsFound = FirstOf(best, cap)
  BY DEF FactsFound
<1>3. cap \in Nat
  <2>1. PageLimit \in Nat /\ 20 \in Nat
    BY ScanAssumption
  <2>2. Min({PageLimit, 20}) \in Nat
    BY <2>1, Least
  <2> QED
    BY <2>2
<1> HIDE DEF all, cap
<1>4. Len(all) \in Nat /\ DOMAIN all = 1 .. Len(all)
  BY <1>1, Sized
<1>5. facts \in Seq(PageRows) /\ DOMAIN facts = DOMAIN all
  <2>1. ASSUME NEW i \in DOMAIN all
        PROVE  [side |-> "fact", key |-> all[i].key, score |-> all[i].score] \in PageRows
    <3>1. all[i].score \in Nat
      BY <1>1 DEF ToSet
    <3>2. all[i].key \in Keys
      BY <1>0 DEF Keys
    <3> QED
      BY <3>1, <3>2 DEF PageRows
  <2>2. facts \in [1 .. Len(all) -> PageRows]
    BY <1>4, <2>1
  <2> QED
    BY <1>4, <2>2, AsList
<1>6. Once(facts)
  BY <1>1 DEF Once, RowId
<1>7. \A i \in DOMAIN facts : facts[i].side = "fact"
  OBVIOUS
<1> HIDE DEF facts
<1>8. match \in SUBSET DOMAIN facts /\ \A i \in match : i \in DOMAIN facts /\ facts[i].score > 0
  OBVIOUS
<1> HIDE DEF match
<1>9. /\ best \in Seq(PageRows) /\ Once(best)
      /\ \A n \in DOMAIN best : best[n].score > 0 /\ best[n].side = "fact"
  <2>1. best \in Seq(PageRows) /\ Picked(best, facts, match)
    BY <1>5, <1>8, BestPicks
  <2> HIDE DEF best
  <2>2. Once(best)
    BY <1>5, <1>6, <1>8, <2>1, PickedOnce
  <2>3. \A n \in DOMAIN best : \E i \in match : best[n] = facts[i]
    BY <1>5, <1>8, <2>1, PickedFrom
  <2> QED
    BY <1>7, <1>8, <2>1, <2>2, <2>3
<1> HIDE DEF best
<1>10. /\ FactsFound \in Seq(PageRows) /\ Len(FactsFound) <= Len(best) /\ Len(FactsFound) \in Nat
       /\ \A i \in 1 .. Len(FactsFound) : FactsFound[i] = best[i]
  BY <1>2, <1>3, <1>9, FirstAre
<1>11. Once(FactsFound)
  BY <1>2, <1>3, <1>9, FirstOnce
<1>12. \A n \in DOMAIN FactsFound : n \in DOMAIN best /\ FactsFound[n] = best[n]
  BY <1>9, <1>10, Sized
<1> QED
  BY <1>9, <1>10, <1>11, <1>12

(* Those that the filters leave: each once. *)
LEMMA FactRows ==
    ASSUME SearchTyped
    PROVE  /\ FactHits \in Seq(PageRows) /\ Once(FactHits)
           /\ \A n \in DOMAIN FactHits : FactHits[n].side = "fact" /\ FactHits[n].score > 0
<1> DEFINE best == FactsFound
           passing == {f.key : f \in {f \in ToSet(search.facts) : f.passes}}
           S == {i \in DOMAIN best : best[i].key \in passing}
<1>1. S \in SUBSET DOMAIN best /\ FactHits = ListAt(best, S)
  BY DEF FactHits
<1>2. /\ best \in Seq(PageRows) /\ Once(best)
      /\ \A n \in DOMAIN best : best[n].side = "fact" /\ best[n].score > 0
  BY FoundFacts
<1> HIDE DEF best, S
<1>3. FactHits \in Seq(PageRows) /\ Picked(FactHits, best, S)
  BY <1>1, <1>2, ListAtPicks
<1>4. Once(FactHits)
  BY <1>1, <1>2, <1>3, PickedOnce
<1>5. \A n \in DOMAIN FactHits : \E i \in S : FactHits[n] = best[i]
  BY <1>1, <1>2, <1>3, PickedFrom
<1> QED
  BY <1>1, <1>2, <1>3, <1>4, <1>5

(* The rows of the scan: each once. *)
LEMMA EventRows ==
    ASSUME FoundOnce
    PROVE  /\ EventHits \in Seq(PageRows) /\ Once(EventHits)
           /\ \A n \in DOMAIN EventHits :
                 EventHits[n].side = "event" /\ (~search.rerank => EventHits[n].score > 0)
<1> DEFINE events == [i \in DOMAIN found |-> [side |-> "event", key |-> found[i].seq, score |-> found[i].score]]
<1>1. EventHits = IF search.rerank THEN events ELSE Matching(events)
  BY DEF EventHits
<1>2. \A h \in Hits : h.seq \in Nat /\ h.score \in Nat
  BY RowTyped DEF Hits, ShortOf
<1>3. Len(found) \in Nat /\ DOMAIN found = 1 .. Len(found) /\ \A i \in DOMAIN found : found[i] \in Hits
  BY Sized DEF FoundOnce
<1>4. events \in Seq(PageRows)
  <2>1. ASSUME NEW i \in DOMAIN found
        PROVE  [side |-> "event", key |-> found[i].seq, score |-> found[i].score] \in PageRows
    BY <1>2, <1>3 DEF PageRows, Keys
  <2>2. events \in [1 .. Len(found) -> PageRows]
    BY <1>3, <2>1
  <2> QED
    BY <1>3, <2>2, AsList
<1>5. Once(events) /\ \A i \in DOMAIN events : events[i].side = "event"
  BY DEF FoundOnce, Once, RowId
<1> HIDE DEF events
<1>6. /\ Matching(events) \in Seq(PageRows) /\ Once(Matching(events))
      /\ \A n \in DOMAIN Matching(events) :
            Matching(events)[n].score > 0 /\ Matching(events)[n].side = "event"
  BY <1>4, <1>5, MatchingPicks
<1> QED
  BY <1>1, <1>4, <1>5, <1>6

(* Whoever nobody is ahead of is the first of a list, and whoever only     *)
(* that one is ahead of is the second.                                     *)
LEMMA FirstTwo ==
    ASSUME NEW S, NEW before, IsFiniteSet(S), Ordered(S, before),
           NEW x \in S, NEW y \in S, Ahead(S, before, x) = {}, Ahead(S, before, y) = {x}
    PROVE  Cardinality(S) \in Nat /\ Cardinality(S) >= 2
           /\ Listed(S, before)[1] = x /\ Listed(S, before)[2] = y
<1> DEFINE size == Cardinality(S)
           list == Listed(S, before)
<1>1. Rank(S, before, x) = 0 /\ Rank(S, before, y) = 1
  BY FS_EmptySet, FS_Singleton DEF Rank
<1>2. size \in Nat /\ Rank(S, before, y) < size
  BY RankTyped
<1>3. 1 \in 1 .. size /\ 2 \in 1 .. size
  BY <1>1, <1>2
<1>4. /\ list \in [1 .. size -> S]
      /\ \A n \in 1 .. size : Rank(S, before, list[n]) = n - 1
  BY Listing
<1> HIDE DEF list
<1>5. list[1] \in S /\ Rank(S, before, list[1]) = 0 /\ list[2] \in S /\ Rank(S, before, list[2]) = 1
  BY <1>3, <1>4
<1>6. \A s, t \in S : Rank(S, before, s) = Rank(S, before, t) => s = t
  BY RankTells
<1>7. list[1] = x /\ list[2] = y
  BY <1>1, <1>5, <1>6
<1> QED
  BY <1>1, <1>2, <1>7 DEF list

TurnsOf(facts, events) == ((DOMAIN facts) \X {1}) \cup ((DOMAIN events) \X {2})

TurnBefore(turns) ==
    {pair \in turns \X turns : pair[1][1] < pair[2][1] \/ (pair[1][1] = pair[2][1] /\ pair[1][2] < pair[2][2])}

LEMMA TurnsOrdered ==
    ASSUME NEW facts \in Seq(PageRows), NEW events \in Seq(PageRows)
    PROVE  /\ IsFiniteSet(TurnsOf(facts, events))
           /\ Ordered(TurnsOf(facts, events), TurnBefore(TurnsOf(facts, events)))
<1> DEFINE turns == TurnsOf(facts, events)
           isBefore(s, t) == s[1] < t[1] \/ (s[1] = t[1] /\ s[2] < t[2])
           before == TurnBefore(turns)
<1>1. /\ Len(facts) \in Nat /\ DOMAIN facts = 1 .. Len(facts)
      /\ Len(events) \in Nat /\ DOMAIN events = 1 .. Len(events)
  BY Sized
<1>2. IsFiniteSet(DOMAIN facts) /\ IsFiniteSet(DOMAIN events) /\ IsFiniteSet({1}) /\ IsFiniteSet({2})
  BY <1>1, Numbers, FS_Singleton
<1>3. IsFiniteSet((DOMAIN facts) \X {1}) /\ IsFiniteSet((DOMAIN events) \X {2})
  BY <1>2, FS_Product
<1>4. IsFiniteSet(turns)
  BY <1>3, FS_Union DEF TurnsOf
<1>5. \A t \in turns : t[1] \in Nat /\ t[2] \in {1, 2} /\ t = <<t[1], t[2]>>
  BY <1>1 DEF TurnsOf
<1>6. \A s, t \in turns : <<s, t>> \in before <=> isBefore(s, t)
  BY DEF TurnBefore
<1> HIDE DEF turns, before
<1>7. /\ \A t \in turns : ~isBefore(t, t)
      /\ \A s, t, u \in turns : isBefore(s, t) /\ isBefore(t, u) => isBefore(s, u)
      /\ \A s, t \in turns : s = t \/ isBefore(s, t) \/ isBefore(t, s)
  <2>1. \A t \in turns : ~isBefore(t, t)
    BY <1>5
  <2>2. \A s, t, u \in turns : isBefore(s, t) /\ isBefore(t, u) => isBefore(s, u)
    BY <1>5
  <2>3. ASSUME NEW s \in turns, NEW t \in turns
        PROVE  s = t \/ isBefore(s, t) \/ isBefore(t, s)
    <3>1. s[1] \in Nat /\ t[1] \in Nat /\ s[2] \in {1, 2} /\ t[2] \in {1, 2}
      BY <1>5
    <3>2. s[1] = t[1] /\ s[2] = t[2] => s = t
      BY <1>5
    <3> QED
      BY <3>1, <3>2
  <2> QED
    BY <2>1, <2>2, <2>3
<1> HIDE DEF isBefore
<1>8. Ordered(turns, before)
  BY <1>6, <1>7 DEF Ordered
<1> QED
  BY <1>4, <1>8 DEF turns, before

(* The rows of both sides in turn: each once, and none has no score unless *)
(* there is a ranker.                                                      *)
LEMMA BaselineRows ==
    ASSUME SearchTyped, FoundOnce
    PROVE  /\ Baseline \in Seq(PageRows) /\ Once(Baseline)
           /\ ~search.rerank => \A n \in DOMAIN Baseline : Baseline[n].score > 0
           /\ FactHits # <<>> /\ EventHits # <<>> =>
                 /\ Len(Baseline) >= 2
                 /\ Baseline[1].side = "fact" /\ Baseline[2].side = "event"
<1> DEFINE facts == FactHits
           events == EventHits
           turns == TurnsOf(facts, events)
           before == TurnBefore(turns)
           turn == Listed(turns, before)
           size == Cardinality(turns)
           row(t) == IF t[2] = 1 THEN facts[t[1]] ELSE events[t[1]]
<1>1. /\ facts \in Seq(PageRows) /\ Once(facts)
      /\ \A n \in DOMAIN facts : facts[n].side = "fact" /\ facts[n].score > 0
  BY FactRows
<1>2. /\ events \in Seq(PageRows) /\ Once(events)
      /\ \A n \in DOMAIN events : events[n].side = "event" /\ (~search.rerank => events[n].score > 0)
  BY EventRows
<1>3. Baseline = [n \in DOMAIN turn |-> row(turn[n])]
  BY DEF Baseline, TurnsOf, TurnBefore
<1> HIDE DEF facts, events
<1>4. /\ Len(facts) \in Nat /\ DOMAIN facts = 1 .. Len(facts) /\ \A i \in DOMAIN facts : facts[i] \in PageRows
      /\ Len(events) \in Nat /\ DOMAIN events = 1 .. Len(events) /\ \A i \in DOMAIN events : events[i] \in PageRows
  BY <1>1, <1>2, Sized
<1>5. IsFiniteSet(turns) /\ Ordered(turns, before)
  BY <1>1, <1>2, TurnsOrdered
<1>6. ASSUME NEW t \in turns
      PROVE  /\ row(t) \in PageRows /\ (~search.rerank => row(t).score > 0)
             /\ t[2] = 1 => row(t).side = "fact" /\ t[1] \in DOMAIN facts /\ row(t) = facts[t[1]]
             /\ t[2] # 1 => row(t).side = "event" /\ t[1] \in DOMAIN events /\ row(t) = events[t[1]]
             /\ t[2] \in {1, 2} /\ t = <<t[1], t[2]>>
  <2>1. CASE t \in (DOMAIN facts) \X {1}
    BY <1>1, <1>4, <2>1
  <2>2. CASE t \in (DOMAIN events) \X {2}
    BY <1>2, <1>4, <2>2
  <2> QED
    BY <2>1, <2>2 DEF TurnsOf
<1>7. \A s, t \in turns : s # t => RowId(row(s)) # RowId(row(t))
  <2> SUFFICES ASSUME NEW s \in turns, NEW t \in turns, s # t
               PROVE  RowId(row(s)) # RowId(row(t))
    OBVIOUS
  <2> HIDE DEF turns, row
  <2>1. CASE s[2] = t[2]
    <3>1. s[1] # t[1]
      BY <1>6, <2>1
    <3>2. CASE s[2] = 1
      BY <1>1, <1>6, <2>1, <3>1, <3>2 DEF Once
    <3>3. CASE s[2] # 1
      BY <1>2, <1>6, <2>1, <3>1, <3>3 DEF Once
    <3> QED
      BY <3>2, <3>3
  <2>2. CASE s[2] # t[2]
    BY <1>6, <2>2 DEF RowId
  <2> QED
    BY <2>1, <2>2
<1>8. DOMAIN turn = 1 .. size
  BY DEF Listed
<1>9. /\ size \in Nat /\ turn \in [1 .. size -> turns]
      /\ \A m, n \in 1 .. size : m # n => turn[m] # turn[n]
  BY <1>5, Listing
<1>10. facts # <<>> /\ events # <<>> => size >= 2 /\ turn[1] = <<1, 1>> /\ turn[2] = <<1, 2>>
  <2> SUFFICES ASSUME facts # <<>>, events # <<>>
               PROVE  size >= 2 /\ turn[1] = <<1, 1>> /\ turn[2] = <<1, 2>>
    OBVIOUS
  <2>1. 1 \in DOMAIN facts /\ 1 \in DOMAIN events
    <3>1. Len(facts) \in Nat \ {0} /\ Len(events) \in Nat \ {0}
      BY <1>1, <1>2, EmptySeq
    <3> QED
      BY <1>4, <3>1
  <2>2. <<1, 1>> \in turns /\ <<1, 2>> \in turns
    BY <2>1 DEF TurnsOf
  <2>3. \A t \in turns : t[1] \in Nat \ {0} /\ t[2] \in {1, 2} /\ t = <<t[1], t[2]>>
    BY <1>4 DEF TurnsOf
  <2>4. \A s, t \in turns : <<s, t>> \in before <=> s[1] < t[1] \/ (s[1] = t[1] /\ s[2] < t[2])
    BY DEF TurnBefore
  <2> HIDE DEF turns, before
  <2>5. Ahead(turns, before, <<1, 1>>) = {}
    BY <2>2, <2>3, <2>4 DEF Ahead
  <2>6. Ahead(turns, before, <<1, 2>>) = {<<1, 1>>}
    <3>1. <<1, 1>> \in Ahead(turns, before, <<1, 2>>)
      BY <2>2, <2>4 DEF Ahead
    <3>2. ASSUME NEW t \in Ahead(turns, before, <<1, 2>>)
          PROVE  t = <<1, 1>>
      <4>1. t \in turns /\ (t[1] < 1 \/ (t[1] = 1 /\ t[2] < 2))
        BY <2>2, <2>4 DEF Ahead
      <4>2. t[1] \in Nat \ {0} /\ t[2] \in {1, 2} /\ t = <<t[1], t[2]>>
        BY <2>3, <4>1
      <4>3. t[1] = 1 /\ t[2] = 1
        BY <4>1, <4>2
      <4> QED
        BY <4>2, <4>3
    <3> QED
      BY <3>1, <3>2
  <2> QED
    BY <1>5, <2>2, <2>5, <2>6, FirstTwo
<1>11. row(<<1, 1>>) = facts[1] /\ row(<<1, 2>>) = events[1]
  OBVIOUS
<1> HIDE DEF turns, before, turn, size
<1>12. \A n \in 1 .. size : turn[n] \in turns /\ Baseline[n] = row(turn[n])
  BY <1>3, <1>8, <1>9
<1> HIDE DEF row
<1>13. Baseline \in [1 .. size -> PageRows]
  BY <1>3, <1>6, <1>8, <1>12
<1>14. Baseline \in Seq(PageRows) /\ Len(Baseline) = size /\ DOMAIN Baseline = 1 .. size
  BY <1>9, <1>13, AsList, Sized
<1>15. Once(Baseline)
  BY <1>7, <1>9, <1>12, <1>14 DEF Once
<1>16. ~search.rerank => \A n \in DOMAIN Baseline : Baseline[n].score > 0
  BY <1>6, <1>12, <1>14
<1>17. ASSUME facts # <<>>, events # <<>>
       PROVE  Len(Baseline) >= 2 /\ Baseline[1].side = "fact" /\ Baseline[2].side = "event"
  <2>1. size >= 2 /\ turn[1] = <<1, 1>> /\ turn[2] = <<1, 2>>
    BY <1>10, <1>17
  <2>2. 1 \in 1 .. size /\ 2 \in 1 .. size
    BY <1>9, <2>1
  <2>3. /\ turn[1] \in turns /\ Baseline[1] = row(<<1, 1>>)
        /\ turn[2] \in turns /\ Baseline[2] = row(<<1, 2>>)
    BY <1>12, <2>1, <2>2
  <2>4. <<1, 1>>[2] = 1 /\ <<1, 2>>[2] # 1 /\ <<1, 1>> \in turns /\ <<1, 2>> \in turns
    BY <2>1, <2>3
  <2>5. row(<<1, 1>>).side = "fact" /\ row(<<1, 2>>).side = "event"
    BY <1>6, <2>4
  <2> QED
    BY <1>14, <2>1, <2>3, <2>5
<1> QED
  BY <1>14, <1>15, <1>16, <1>17 DEF facts, events

-----------------------------------------------------------------------------
(* The page *)

(* What PageIsFull says of the rows of an answer. *)
Full(rows) ==
    LET matched == IF search.rerank THEN Baseline ELSE Matching(Baseline)
        sides == {h.side : h \in ToSet(rows)}
    IN  /\ Len(rows) = Min({PageLimit, Len(matched)})
        /\ \A i, j \in DOMAIN rows : i # j => RowId(rows[i]) # RowId(rows[j])
        /\ ~search.rerank /\ PageLimit > 1 /\ FactHits # <<>> /\ EventHits # <<>>
            => sides = {"fact", "event"}

LEMMA Limits ==
    /\ PageLimit \in Nat \ {0} /\ JevCap \in Nat \ {0} /\ JevLeaders \in Nat \ {0}
    /\ SiblingsOnPage \in Nat
BY ScanAssumption

(* A page of a ranker is full if the ranker loses no row and repeats none. *)
LEMMA RankedPage ==
    ASSUME NEW all \in Seq(PageRows), Once(all), Len(all) = Len(Baseline), search.rerank
    PROVE  FirstOf(all, PageLimit) \in Seq(PageRows) /\ Full(FirstOf(all, PageLimit))
<1>1. /\ FirstOf(all, PageLimit) \in Seq(PageRows)
      /\ Len(FirstOf(all, PageLimit)) = Min({PageLimit, Len(all)})
  BY Limits, FirstAre
<1>2. Once(FirstOf(all, PageLimit))
  BY Limits, FirstOnce
<1> QED
  BY <1>1, <1>2 DEF Full, Once

(* Without a ranker each row of the baseline has matched, and the first    *)
(* two are one of each side.                                               *)
LEMMA PlainPage ==
    ASSUME SearchTyped, FoundOnce, ~search.rerank
    PROVE  /\ FirstOf(Matching(Baseline), PageLimit) \in Seq(PageRows)
           /\ Full(FirstOf(Matching(Baseline), PageLimit))
<1> DEFINE base == Baseline
           all == Matching(base)
           rows == FirstOf(all, PageLimit)
           S == {i \in DOMAIN base : base[i].score > 0}
           place == Listed(S, Rising(S))
<1>1. /\ base \in Seq(PageRows) /\ Once(base)
      /\ \A n \in DOMAIN base : base[n].score > 0
      /\ FactHits # <<>> /\ EventHits # <<>> =>
            Len(base) >= 2 /\ base[1].side = "fact" /\ base[2].side = "event"
  BY BaselineRows
<1> HIDE DEF base
<1>2. /\ all \in Seq(PageRows) /\ Once(all)
  BY <1>1, MatchingPicks
<1>3. /\ rows \in Seq(PageRows) /\ Len(rows) = Min({PageLimit, Len(all)})
      /\ \A i \in 1 .. Len(rows) : rows[i] = all[i]
      /\ Len(rows) \in Nat /\ Len(all) \in Nat
  <2> HIDE DEF all
  <2> QED
    BY <1>2, Limits, FirstAre, Sized
<1>4. Once(rows)
  <2> HIDE DEF all
  <2> QED
    BY <1>2, Limits, FirstOnce
<1>5. ASSUME PageLimit > 1, FactHits # <<>>, EventHits # <<>>
      PROVE  {h.side : h \in ToSet(rows)} = {"fact", "event"}
  <2>1. Len(base) \in Nat /\ Len(base) >= 2 /\ DOMAIN base = 1 .. Len(base)
    BY <1>1, <1>5, Sized
  <2>2. S = DOMAIN base
    BY <1>1
  <2>3. IsFiniteSet(S) /\ Ordered(S, Rising(S)) /\ S \in SUBSET DOMAIN base
    <3>1. S \in SUBSET DOMAIN base
      OBVIOUS
    <3> HIDE DEF S
    <3> QED
      BY <1>1, <3>1, Places, RisingOrdered
  <2>4. all = ListAt(base, S)
    BY DEF Matching
  <2> HIDE DEF S
  <2>5. 1 \in S /\ 2 \in S /\ \A i \in S : i \in Nat \ {0}
    BY <2>1, <2>2
  <2>6. Ahead(S, Rising(S), 1) = {} /\ Ahead(S, Rising(S), 2) = {1}
    <3>1. \A i, j \in S : <<i, j>> \in Rising(S) <=> i < j
      BY DEF Rising
    <3>2. Ahead(S, Rising(S), 1) = {i \in S : i < 1} /\ Ahead(S, Rising(S), 2) = {i \in S : i < 2}
      BY <2>5, <3>1 DEF Ahead
    <3>3. {i \in S : i < 1} = {} /\ {i \in S : i < 2} = {1}
      BY <2>5
    <3> QED
      BY <3>2, <3>3
  <2>7. Cardinality(S) \in Nat /\ Cardinality(S) >= 2 /\ place[1] = 1 /\ place[2] = 2
    BY <2>3, <2>5, <2>6, FirstTwo
  <2>8. DOMAIN place = 1 .. Cardinality(S)
    BY DEF Listed
  <2> HIDE DEF place
  <2>9. all = [n \in 1 .. Cardinality(S) |-> base[place[n]]]
    BY <2>4, <2>8 DEF ListAt, place
  <2>10. all[1] = base[1] /\ all[2] = base[2] /\ Len(all) = Cardinality(S)
    <3>1. 1 \in 1 .. Cardinality(S) /\ 2 \in 1 .. Cardinality(S)
      BY <2>7
    <3>2. all[1] = base[1] /\ all[2] = base[2]
      BY <2>7, <2>9, <3>1
    <3>3. Len(all) = Cardinality(S)
      BY <1>1, <2>3, <2>4, ListAtPicks
    <3> QED
      BY <3>2, <3>3
  <2> HIDE DEF all
  <2>11. Len(rows) >= 2
    <3>1. PageLimit \in Nat /\ Min({PageLimit, Len(all)}) \in {PageLimit, Len(all)}
      BY <1>3, Limits, Least
    <3> QED
      BY <1>3, <1>5, <2>7, <2>10, <3>1
  <2>12. rows[1].side = "fact" /\ rows[2].side = "event" /\ 1 \in DOMAIN rows /\ 2 \in DOMAIN rows
    <3>1. 1 \in 1 .. Len(rows) /\ 2 \in 1 .. Len(rows)
      BY <1>3, <2>11
    <3>2. DOMAIN rows = 1 .. Len(rows)
      BY <1>3, Sized
    <3> QED
      BY <1>1, <1>3, <1>5, <2>10, <3>1, <3>2
  <2>13. \A h \in ToSet(rows) : h.side \in {"fact", "event"}
    <3>1. DOMAIN rows = 1 .. Len(rows) /\ \A i \in 1 .. Len(rows) : rows[i] \in PageRows
      BY <1>3, Sized
    <3> QED
      BY <3>1 DEF ToSet, PageRows
  <2>14. rows[1] \in ToSet(rows) /\ rows[2] \in ToSet(rows)
    BY <2>12 DEF ToSet
  <2> HIDE DEF rows
  <2> QED
    BY <2>12, <2>13, <2>14
<1> HIDE DEF all, rows
<1> QED
  BY <1>3, <1>4, <1>5 DEF Full, Once, base, all, rows

(* What JEV judges are rows of the baseline, each once. *)
LEMMA JevPoolRows ==
    ASSUME SearchTyped, FoundOnce
    PROVE  /\ JevPool \in Seq(PageRows) /\ Once(JevPool)
           /\ RowIds(JevPool) \subseteq RowIds(Baseline)
<1> DEFINE base == Baseline
           matching == Matching(base)
           leaders == FirstOf(matching, JevLeaders)
           S == {i \in DOMAIN base : base[i].score = 0}
           rest == ListAt(base, S)
           room == IF JevCap > Len(leaders) THEN JevCap - Len(leaders) ELSE 0
           others == FirstOf(rest, room)
<1>1. JevPool = IF leaders = <<>> THEN FirstOf(base, JevCap) ELSE leaders \o others
  BY DEF JevPool
<1>2. base \in Seq(PageRows) /\ Once(base)
  BY BaselineRows
<1>3. Baseline = base
  OBVIOUS
<1> HIDE DEF base
<1>4. /\ matching \in Seq(PageRows) /\ Once(matching)
      /\ \A n \in DOMAIN matching : matching[n].score > 0 /\ \E i \in DOMAIN base : matching[n] = base[i]
  BY <1>2, MatchingPicks
<1> HIDE DEF matching
<1>5. /\ leaders \in Seq(PageRows) /\ Len(leaders) \in Nat /\ Once(leaders)
      /\ RowIds(leaders) \subseteq RowIds(matching)
  BY <1>4, Limits, FirstAre, FirstOnce
<1>6. S \in SUBSET DOMAIN base /\ \A i \in S : base[i].score = 0
  OBVIOUS
<1> HIDE DEF S
<1>7. rest \in Seq(PageRows) /\ Once(rest) /\ RowIds(rest) = {RowId(base[i]) : i \in S}
  <2>1. rest \in Seq(PageRows) /\ Picked(rest, base, S)
    BY <1>2, <1>6, ListAtPicks
  <2> HIDE DEF rest
  <2> QED
    BY <1>2, <1>6, <2>1, PickedOnce
<1> HIDE DEF leaders, rest
<1>8. room \in Nat
  BY <1>5, Limits
<1> HIDE DEF room
<1>9. others \in Seq(PageRows) /\ Once(others) /\ RowIds(others) \subseteq RowIds(rest)
  BY <1>7, <1>8, FirstAre, FirstOnce
<1> HIDE DEF others
<1>10. ASSUME NEW id \in RowIds(matching)
       PROVE  \E i \in DOMAIN base : id = RowId(base[i]) /\ base[i].score > 0
  <2>1. PICK n \in DOMAIN matching : id = RowId(matching[n])
    BY DEF RowIds
  <2> QED
    BY <1>4, <2>1
<1>11. RowIds(leaders) \cap RowIds(others) = {}
  <2> SUFFICES ASSUME NEW id, id \in RowIds(leaders), id \in RowIds(others)
               PROVE  FALSE
    OBVIOUS
  <2>1. PICK i \in DOMAIN base : id = RowId(base[i]) /\ base[i].score > 0
    BY <1>5, <1>10
  <2>2. PICK j \in S : id = RowId(base[j])
    BY <1>7, <1>9
  <2>3. i # j
    BY <1>6, <2>1, <2>2
  <2> QED
    BY <1>2, <1>6, <2>1, <2>2, <2>3 DEF Once
<1>12. RowIds(leaders) \subseteq RowIds(base) /\ RowIds(others) \subseteq RowIds(base)
  <2>1. \A i \in DOMAIN base : RowId(base[i]) \in RowIds(base)
    BY DEF RowIds
  <2>2. RowIds(leaders) \subseteq RowIds(base)
    BY <1>5, <1>10, <2>1
  <2>3. ASSUME NEW id \in RowIds(others)
        PROVE  id \in RowIds(base)
    <3>1. PICK j \in S : id = RowId(base[j])
      BY <1>7, <1>9
    <3> QED
      BY <1>6, <2>1, <3>1
  <2> QED
    BY <2>2, <2>3
<1>13. CASE leaders = <<>>
  <2>1. FirstOf(base, JevCap) \in Seq(PageRows) /\ Once(FirstOf(base, JevCap))
        /\ RowIds(FirstOf(base, JevCap)) \subseteq RowIds(base)
    BY <1>2, Limits, FirstAre, FirstOnce
  <2> QED
    BY <1>1, <1>3, <1>13, <2>1
<1>14. CASE leaders # <<>>
  <2>1. /\ leaders \o others \in Seq(PageRows) /\ Once(leaders \o others)
        /\ RowIds(leaders \o others) = RowIds(leaders) \cup RowIds(others)
    BY <1>5, <1>9, <1>11, JoinedOnce
  <2> QED
    BY <1>1, <1>3, <1>12, <1>14, <2>1
<1> QED
  BY <1>13, <1>14

(* JEV loses no row: those that it did not judge follow. *)
LEMMA JevPageFull ==
    ASSUME SearchTyped, FoundOnce, search.rerank, NEW scores \in [DOMAIN JevPool -> 0 .. 1]
    PROVE  JevPage(scores) \in Seq(PageRows) /\ Full(JevPage(scores))
<1> DEFINE base == Baseline
           pool == JevPool
           judged == {RowId(h) : h \in ToSet(pool)}
           S == {i \in DOMAIN base : RowId(base[i]) \notin judged}
           others == ListAt(base, S)
           marked == Scored(pool, scores)
           best == ByScore(marked)
<1>1. JevPage(scores) = FirstOf(best \o others, PageLimit)
  BY DEF JevPage
<1>2. base \in Seq(PageRows) /\ Once(base)
  BY BaselineRows
<1>3. pool \in Seq(PageRows) /\ Once(pool) /\ RowIds(pool) \subseteq RowIds(base)
  BY JevPoolRows
<1>4. Len(base) = Len(Baseline) /\ scores \in [DOMAIN pool -> 0 .. 1]
  OBVIOUS
<1> HIDE DEF base, pool
<1>5. judged = RowIds(pool)
  <2>1. ASSUME NEW h \in ToSet(pool)
        PROVE  RowId(h) \in RowIds(pool)
    BY DEF ToSet, RowIds
  <2>2. ASSUME NEW id \in RowIds(pool)
        PROVE  id \in judged
    <3>1. PICK i \in DOMAIN pool : id = RowId(pool[i])
      BY DEF RowIds
    <3>2. pool[i] \in ToSet(pool)
      BY DEF ToSet
    <3> QED
      BY <3>1, <3>2
  <2> QED
    BY <2>1, <2>2
<1>6. marked \in Seq(PageRows) /\ Once(marked) /\ RowIds(marked) = RowIds(pool)
  BY <1>3, <1>4, ScoredRows
<1> HIDE DEF marked, judged
<1>7. best \in Seq(PageRows) /\ Once(best) /\ RowIds(best) = RowIds(pool)
  BY <1>6, ByScorePicks, ByScoreOnce
<1>8. S \in SUBSET DOMAIN base /\ \A i \in DOMAIN base : i \in S <=> RowId(base[i]) \notin RowIds(pool)
  BY <1>5
<1> HIDE DEF S
<1>9. others \in Seq(PageRows) /\ Once(others) /\ RowIds(others) = {RowId(base[i]) : i \in S}
  <2>1. others \in Seq(PageRows) /\ Picked(others, base, S)
    BY <1>2, <1>8, ListAtPicks
  <2> HIDE DEF others
  <2> QED
    BY <1>2, <1>8, <2>1, PickedOnce
<1> HIDE DEF best, others
<1>10. RowIds(best) \cap RowIds(others) = {}
  BY <1>7, <1>8, <1>9
<1>11. RowIds(best) \cup RowIds(others) = RowIds(base)
  <2>1. \A i \in S : RowId(base[i]) \in RowIds(base)
    BY <1>8 DEF RowIds
  <2>2. ASSUME NEW id \in RowIds(base), id \notin RowIds(pool)
        PROVE  id \in RowIds(others)
    <3>1. PICK i \in DOMAIN base : id = RowId(base[i])
      BY DEF RowIds
    <3> QED
      BY <1>8, <1>9, <2>2, <3>1
  <2> QED
    BY <1>3, <1>7, <1>9, <2>1, <2>2
<1> DEFINE all == best \o others
<1>12. all \in Seq(PageRows) /\ Once(all) /\ RowIds(all) = RowIds(base)
  BY <1>7, <1>9, <1>10, <1>11, JoinedOnce
<1>13. JevPage(scores) = FirstOf(all, PageLimit)
  BY <1>1
<1> HIDE DEF all
<1>14. Len(all) = Len(base)
  <2>1. Cardinality(RowIds(all)) = Len(all) /\ Cardinality(RowIds(base)) = Len(base)
    BY <1>2, <1>12, Counted
  <2> QED
    BY <1>12, <2>1
<1> QED
  BY <1>4, <1>12, <1>13, <1>14, RankedPage

LEMMA LayaPageFull ==
    ASSUME SearchTyped, FoundOnce, search.rerank, NEW scores \in [DOMAIN Baseline -> 0 .. 1]
    PROVE  LayaPage(scores) \in Seq(PageRows) /\ Full(LayaPage(scores))
<1> DEFINE marked == Scored(Baseline, scores)
<1>1. Baseline \in Seq(PageRows) /\ Once(Baseline)
  BY BaselineRows
<1>2. marked \in Seq(PageRows) /\ Once(marked) /\ Len(marked) = Len(Baseline)
  BY <1>1, ScoredRows
<1>3. LayaPage(scores) = FirstOf(ByScore(marked), PageLimit)
  BY DEF LayaPage
<1> HIDE DEF marked
<1>4. ByScore(marked) \in Seq(PageRows) /\ Once(ByScore(marked)) /\ Len(ByScore(marked)) = Len(Baseline)
  BY <1>2, ByScorePicks, ByScoreOnce
<1> QED
  BY <1>3, <1>4, RankedPage

(* Whoever answers, the page is full. *)
LEMMA AnswersFull ==
    ASSUME SearchTyped, FoundOnce, Plain \/ FallThrough \/ Jev \/ Laya
    PROVE  /\ stage' = "done" /\ UNCHANGED <<search, scanned, heap, tracked, shorts, recent, found>>
           /\ page' \in Seq(PageRows) /\ Full(page')
<1>1. CASE Plain
  BY <1>1, PlainPage DEF Plain, Answers
<1>2. CASE FallThrough
  <2>1. Baseline \in Seq(PageRows) /\ Once(Baseline)
    BY BaselineRows
  <2> QED
    BY <1>2, <2>1, RankedPage DEF FallThrough, Answers
<1>3. CASE Jev
  BY <1>3, JevPageFull DEF Jev, Answers
<1>4. CASE Laya
  BY <1>4, LayaPageFull DEF Laya, Answers
<1> QED
  BY <1>1, <1>2, <1>3, <1>4

-----------------------------------------------------------------------------
(* What the scan returns *)

(* No row of the journal is read twice. *)
OnceRead == \A m, n \in DOMAIN scanned : scanned[m].seq = scanned[n].seq => m = n

(* A list of rows that has none twice. *)
SeqOnce(list) ==
    /\ list \in Seq(Hits)
    /\ \A i, j \in DOMAIN list : i # j => list[i].seq # list[j].seq

LEMMA ListedOnce ==
    ASSUME NEW S \in SUBSET Hits, NEW before, IsFiniteSet(S), Ordered(S, before),
           \A s, t \in S : s.seq = t.seq => s = t
    PROVE  /\ SeqOnce(Listed(S, before)) /\ Len(Listed(S, before)) = Cardinality(S)
           /\ \A n \in DOMAIN Listed(S, before) : Listed(S, before)[n] \in S
<1> DEFINE list == Listed(S, before)
           size == Cardinality(S)
<1>1. /\ size \in Nat /\ list \in [1 .. size -> S]
      /\ \A m, n \in 1 .. size : m # n => list[m] # list[n]
  BY Listing
<1> HIDE DEF list, size
<1>2. list \in [1 .. size -> Hits] /\ DOMAIN list = 1 .. size
  BY <1>1
<1>3. list \in Seq(Hits) /\ Len(list) = size
  BY <1>1, <1>2, AsList
<1> QED
  BY <1>1, <1>2, <1>3 DEF SeqOnce, list, size

LEMMA HitsListed ==
    ASSUME ScanInv
    PROVE  /\ SeqOnce(HitsInOrder) /\ Len(HitsInOrder) = Cardinality(heap)
           /\ \A n \in DOMAIN HitsInOrder : HitsInOrder[n] \in heap
<1> DEFINE before == {pair \in heap \X heap : HitBeats(pair[1], pair[2])}
<1>1. heap \subseteq Rows /\ IsFiniteSet(heap) /\ \A s, t \in heap : s.seq = t.seq => s = t
  <2>1. ToSet(scanned) \subseteq Rows
    BY DEF ScanInv, ToSet
  <2> QED
    BY <2>1 DEF ScanInv, ScanIsTop, Candidates, Distinct
<1>2. HitsInOrder = Listed(heap, before)
  BY DEF HitsInOrder
<1>3. \A s, t \in heap : <<s, t>> \in before <=> HitBeats(s, t)
  OBVIOUS
<1> HIDE DEF before
<1>4. Ordered(heap, before)
  <2>1. \A s \in heap : ~HitBeats(s, s)
    BY <1>1, BeatsOneWay
  <2>2. \A s, t, u \in heap : HitBeats(s, t) /\ HitBeats(t, u) => HitBeats(s, u)
    BY <1>1, BeatsTransitive
  <2>3. \A s, t \in heap : s = t \/ HitBeats(s, t) \/ HitBeats(t, s)
    BY <1>1, BeatsTotal
  <2> QED
    BY <1>3, <2>1, <2>2, <2>3 DEF Ordered
<1>5. heap \in SUBSET Hits
  BY <1>1 DEF Hits
<1> QED
  BY <1>1, <1>2, <1>4, <1>5, ListedOnce

(* The place of a hit among the first three orders the ids. *)
LEMMA Leaders ==
    ASSUME NEW hits, SeqOnce(hits), NEW i, NEW j, Leading(hits, i) # {}, Leading(hits, j) # {}
    PROVE  /\ Min(Leading(hits, i)) \in Nat
           /\ Min(Leading(hits, i)) = Min(Leading(hits, j)) => i = j
<1>1. ASSUME NEW k, Leading(hits, k) # {}
      PROVE  Min(Leading(hits, k)) \in Nat /\ hits[Min(Leading(hits, k))].id = k
  <2> DEFINE S == Leading(hits, k)
  <2>1. DOMAIN FirstOf(hits, 3) \subseteq {1, 2, 3}
    <3>1. hits \in Seq(Hits) /\ 3 \in Nat
      BY DEF SeqOnce
    <3>2. /\ FirstOf(hits, 3) \in Seq(Hits) /\ Len(FirstOf(hits, 3)) \in Nat
          /\ Len(FirstOf(hits, 3)) <= 3
      BY <3>1, FirstAre
    <3>3. DOMAIN FirstOf(hits, 3) = 1 .. Len(FirstOf(hits, 3))
      BY <3>2, Sized
    <3> QED
      BY <3>2, <3>3
  <2>2. S \subseteq {1, 2, 3} /\ S # {} /\ \A n \in S : hits[n].id = k
    BY <1>1, <2>1 DEF Leading
  <2> HIDE DEF S
  <2>3. \E n \in S : \A m \in S : n <= m
    <3>1. CASE 1 \in S
      BY <2>2, <3>1
    <3>2. CASE 1 \notin S /\ 2 \in S
      BY <2>2, <3>2
    <3>3. CASE 1 \notin S /\ 2 \notin S
      <4>1. S = {3}
        BY <2>2, <3>3
      <4> QED
        BY <4>1
    <3> QED
      BY <3>1, <3>2, <3>3
  <2>4. Min(S) \in S
    BY <2>3 DEF Min
  <2> QED
    BY <2>2, <2>4 DEF S
<1> QED
  BY <1>1

LEMMA SiblingsListed ==
    ASSUME ScanInv, ShortsInv, OnceRead, NEW hits, SeqOnce(hits)
    PROVE  /\ SeqOnce(Siblings(hits)) /\ Len(Siblings(hits)) <= SiblingsOnPage
           /\ \A n \in DOMAIN Siblings(hits) : \A h \in heap : h.seq # Siblings(hits)[n].seq
<1> DEFINE kept == UNION {shorts[i] : i \in Ids}
           extra == {s \in kept : /\ Leading(hits, s.id) # {}
                                  /\ s.len >= Acknowledges /\ \A h \in heap : h.seq # s.seq}
           leader(s) == Min(Leading(hits, s.id))
           isAhead(s, t) == \/ s.len < t.len
                            \/ s.len = t.len /\ leader(s) < leader(t)
                            \/ s.len = t.len /\ s.id = t.id /\ s.at < t.at
           before == {pair \in extra \X extra : isAhead(pair[1], pair[2])}
           list == Listed(extra, before)
<1>1. Siblings(hits) = FirstOf(list, SiblingsOnPage)
  BY DEF Siblings
<1>2. kept \subseteq ShortsRead
  BY DEF ShortsInv, KeptOf
<1>3. /\ extra \subseteq ShortsRead
      /\ \A s \in extra : Leading(hits, s.id) # {} /\ \A h \in heap : h.seq # s.seq
  BY <1>2
<1> HIDE DEF extra
<1>4. IsFiniteSet(extra) /\ \A s \in extra : s.len \in Nat /\ s.at \in Nat
  <2>1. Shorts(ShortsRead)
    BY ShortsOfRows
  <2> QED
    BY <1>3, <2>1, FS_Subset DEF Shorts
<1>5. \A s, t \in extra : s.at = t.at => s = t
  BY <1>3, ShortsOfRows DEF Shorts
<1>6. \A s, t \in extra : /\ leader(s) \in Nat
                          /\ leader(s) = leader(t) => s.id = t.id
  BY <1>3, Leaders
<1>7. \A s, t \in extra : s.id = t.id => leader(s) = leader(t)
  OBVIOUS
<1>8. \A s, t \in extra : <<s, t>> \in before <=> isAhead(s, t)
  OBVIOUS
<1> HIDE DEF leader, before
<1>9. Ordered(extra, before)
  <2>1. \A s \in extra : ~isAhead(s, s)
    BY <1>4, <1>6
  <2>2. ASSUME NEW s \in extra, NEW t \in extra, NEW u \in extra, isAhead(s, t), isAhead(t, u)
        PROVE  isAhead(s, u)
    <3>1. s.len \in Nat /\ t.len \in Nat /\ u.len \in Nat /\ s.at \in Nat /\ t.at \in Nat /\ u.at \in Nat
      BY <1>4
    <3>2. leader(s) \in Nat /\ leader(t) \in Nat /\ leader(u) \in Nat
      BY <1>6
    <3>3. (s.id = t.id => leader(s) = leader(t)) /\ (t.id = u.id => leader(t) = leader(u))
      BY <1>7
    <3> QED
      BY <2>2, <3>1, <3>2, <3>3
  <2>3. ASSUME NEW s \in extra, NEW t \in extra
        PROVE  s = t \/ isAhead(s, t) \/ isAhead(t, s)
    <3>1. s.len \in Nat /\ t.len \in Nat /\ s.at \in Nat /\ t.at \in Nat /\ leader(s) \in Nat /\ leader(t) \in Nat
      BY <1>4, <1>6
    <3>2. (leader(s) = leader(t) => s.id = t.id) /\ (s.at = t.at => s = t)
      BY <1>5, <1>6
    <3> QED
      BY <3>1, <3>2
  <2> QED
    BY <1>8, <2>1, <2>2, <2>3 DEF Ordered
<1>10. extra \in SUBSET Hits /\ \A s, t \in extra : s.seq = t.seq => s = t
  <2>1. \A n \in Turns : n \in Nat /\ n \in DOMAIN scanned /\ scanned[n] \in Rows
    BY ShortsOfRows DEF Turns
  <2>2. ASSUME NEW s \in extra
        PROVE  \E n \in Turns : s = ShortOf(scanned[n], n) /\ scanned[n].seq = s.seq
    BY <1>3, ShortsOfRows
  <2>3. ASSUME NEW s \in extra
        PROVE  s \in Hits
    <3>1. PICK n \in Turns : s = ShortOf(scanned[n], n)
      BY <2>2
    <3> QED
      BY <2>1, <3>1 DEF Hits
  <2>4. ASSUME NEW s \in extra, NEW t \in extra, s.seq = t.seq
        PROVE  s = t
    <3>1. PICK m \in Turns : s = ShortOf(scanned[m], m) /\ scanned[m].seq = s.seq
      BY <2>2
    <3>2. PICK n \in Turns : t = ShortOf(scanned[n], n) /\ scanned[n].seq = t.seq
      BY <2>2
    <3>3. m = n
      BY <2>1, <2>4, <3>1, <3>2 DEF OnceRead
    <3> QED
      BY <3>1, <3>2, <3>3
  <2> QED
    BY <2>3, <2>4
<1>11. SeqOnce(list) /\ \A n \in DOMAIN list : list[n] \in extra
  BY <1>4, <1>9, <1>10, ListedOnce
<1> HIDE DEF list
<1> DEFINE u == FirstOf(list, SiblingsOnPage)
<1>12. /\ u \in Seq(Hits) /\ Len(u) \in Nat /\ Len(u) <= Len(list) /\ Len(u) <= SiblingsOnPage
       /\ \A n \in 1 .. Len(u) : u[n] = list[n]
  BY <1>11, Limits, FirstAre DEF SeqOnce
<1>13. /\ DOMAIN u = 1 .. Len(u) /\ DOMAIN list = 1 .. Len(list) /\ Len(list) \in Nat
  <2>1. list \in Seq(Hits)
    BY <1>11 DEF SeqOnce
  <2> HIDE DEF u
  <2> QED
    BY <1>12, <2>1, Sized
<1> HIDE DEF u
<1>14. \A n \in DOMAIN u : n \in DOMAIN list /\ u[n] = list[n]
  BY <1>12, <1>13
<1>15. SeqOnce(u) /\ \A n \in DOMAIN u : \A h \in heap : h.seq # u[n].seq
  BY <1>3, <1>11, <1>12, <1>14 DEF SeqOnce
<1> QED
  BY <1>1, <1>12, <1>15 DEF u

LEMMA FoundAtTheEnd ==
    ASSUME ScanInv, ShortsInv, OnceRead, EndOfScan
    PROVE  FoundOnce' /\ Len(found') <= Pool + SiblingsOnPage
<1> DEFINE a == HitsInOrder
           b == Siblings(a)
           u == a \o b
<1>1. found' = u
  BY DEF EndOfScan
<1>2. SeqOnce(a) /\ Len(a) = Cardinality(heap) /\ \A n \in DOMAIN a : a[n] \in heap
  BY HitsListed
<1> HIDE DEF a
<1>3. SeqOnce(b) /\ Len(b) <= SiblingsOnPage /\ \A n \in DOMAIN b : \A h \in heap : h.seq # b[n].seq
  BY <1>2, SiblingsListed
<1> HIDE DEF b
<1>4. /\ u \in Seq(Hits) /\ Len(u) = Len(a) + Len(b)
      /\ \A i \in 1 .. Len(a) + Len(b) : u[i] = IF i <= Len(a) THEN a[i] ELSE b[i - Len(a)]
  BY <1>2, <1>3, ConcatProperties DEF SeqOnce
<1>5. /\ Len(a) \in Nat /\ Len(b) \in Nat /\ DOMAIN a = 1 .. Len(a) /\ DOMAIN b = 1 .. Len(b)
      /\ DOMAIN u = 1 .. Len(a) + Len(b)
  <2>1. a \in Seq(Hits) /\ b \in Seq(Hits)
    BY <1>2, <1>3 DEF SeqOnce
  <2> HIDE DEF u
  <2> QED
    BY <1>4, <2>1, Sized
<1> HIDE DEF u
<1>6. ASSUME NEW i \in DOMAIN u
      PROVE  \/ i \in DOMAIN a /\ u[i] = a[i]
             \/ i > Len(a) /\ i - Len(a) \in DOMAIN b /\ u[i] = b[i - Len(a)]
  BY <1>4, <1>5
<1>7. ASSUME NEW i \in DOMAIN u, NEW j \in DOMAIN u, i # j
      PROVE  u[i].seq # u[j].seq
  <2>1. CASE i \in DOMAIN a /\ u[i] = a[i] /\ j \in DOMAIN a /\ u[j] = a[j]
    BY <1>2, <1>7, <2>1 DEF SeqOnce
  <2>2. CASE i \in DOMAIN a /\ u[i] = a[i] /\ j - Len(a) \in DOMAIN b /\ u[j] = b[j - Len(a)]
    BY <1>2, <1>3, <2>2
  <2>3. CASE i - Len(a) \in DOMAIN b /\ u[i] = b[i - Len(a)] /\ j \in DOMAIN a /\ u[j] = a[j]
    BY <1>2, <1>3, <2>3
  <2>4. CASE /\ i - Len(a) \in DOMAIN b /\ u[i] = b[i - Len(a)]
             /\ j - Len(a) \in DOMAIN b /\ u[j] = b[j - Len(a)]
    <3>1. i - Len(a) # j - Len(a)
      BY <1>5, <1>7
    <3> QED
      BY <1>3, <2>4, <3>1 DEF SeqOnce
  <2> QED
    BY <1>6, <2>1, <2>2, <2>3, <2>4
<1>8. Len(u) <= Pool + SiblingsOnPage
  <2>1. Pool \in Nat /\ SiblingsOnPage \in Nat /\ Len(a) <= Pool
    BY <1>2, PoolTyped, Limits DEF ScanInv
  <2> QED
    BY <1>3, <1>4, <1>5, <2>1
<1>9. FoundOnce'
  BY <1>1, <1>4, <1>7 DEF FoundOnce, Hits, ShortOf, Rows
<1> QED
  BY <1>1, <1>8, <1>9

-----------------------------------------------------------------------------
(* The inductive invariant of the answer: no row is read twice, none is    *)
(* returned twice, what is counted stays within its bounds, and the page   *)
(* is full once it is there.                                               *)
PageInv ==
    /\ SearchTyped
    /\ OnceRead
    /\ FoundOnce
    /\ stage \in {"scan", "rank", "done", "failed"}
    /\ Len(scanned) <= MaxRows /\ Len(found) <= Pool + SiblingsOnPage
    /\ page \in Seq(PageRows)
    /\ PageIsFull

LEMMA OnceStays ==
    ASSUME ScanInv, OnceRead, NEW r \in Rows, ReadsRow(r)
    PROVE  OnceRead'
<1>1. /\ scanned \in Seq(Rows) /\ Len(scanned) \in Nat /\ DOMAIN scanned = 1 .. Len(scanned)
      /\ scanned' = Append(scanned, r)
  BY DEF ScanInv, ReadsRow
<1>2. /\ DOMAIN scanned' = (DOMAIN scanned) \cup {Len(scanned) + 1}
      /\ scanned'[Len(scanned) + 1] = r /\ \A m \in DOMAIN scanned : scanned'[m] = scanned[m]
  BY <1>1
<1>3. \A m \in DOMAIN scanned : scanned[m].seq # r.seq
  BY DEF ReadsRow, ToSet
<1> QED
  BY <1>2, <1>3 DEF OnceRead

(* What does not touch the list of rows or the answer. *)
LEMMA PageStays ==
    ASSUME PageInv, UNCHANGED <<search, stage, scanned, found, page>>
    PROVE  PageInv'
<1>1. Pool' = Pool /\ OnceRead' /\ FoundOnce' /\ SearchTyped'
  BY DEF PageInv, Pool, OnceRead, FoundOnce, Hits, ShortOf, Rows, SearchTyped
<1>2. FactHits' = FactHits /\ EventHits' = EventHits /\ Baseline' = Baseline
  <2>1. FactsFound' = FactsFound
    BY DEF FactsFound, BestAt
  <2> QED
    BY <2>1 DEF FactHits, EventHits, Baseline
<1>3. PageIsFull'
  BY <1>2 DEF PageInv, PageIsFull
<1>4. page' \in Seq(PageRows) /\ Len(scanned') <= MaxRows /\ Len(found') <= Pool + SiblingsOnPage
  BY DEF PageInv
<1> QED
  BY <1>1, <1>3, <1>4 DEF PageInv

LEMMA PageStep ==
    ASSUME ScanInv, ShortsInv, PageInv, [ScanNext]_scanVars
    PROVE  PageInv'
<1>1. UNCHANGED search /\ SearchTyped' /\ Pool' = Pool /\ Pool \in Nat
  <2>1. UNCHANGED search
    BY DEF ScanNext, Filtered, Ranked, Unranked, ReadsRow, EndOfScan, BadLine,
           Plain, FallThrough, Jev, Laya, Answers, scanVars
  <2> QED
    BY <2>1, PoolTyped DEF PageInv, SearchTyped, Pool
<1>2. CASE \E r \in Rows : Filtered(r) \/ Ranked(r) \/ Unranked(r)
  <2>1. PICK r \in Rows : ReadsRow(r)
    BY <1>2 DEF Filtered, Ranked, Unranked
  <2>2. OnceRead'
    BY <2>1, OnceStays DEF PageInv
  <2>3. stage = "scan" /\ UNCHANGED <<stage, found, page>>
    BY <2>1 DEF ReadsRow
  <2>4. FoundOnce'
    BY <2>3 DEF PageInv, FoundOnce, Hits, ShortOf, Rows
  <2>5. Len(scanned') <= MaxRows
    <3>1. MaxRows \in Nat /\ Len(scanned) \in Nat /\ Len(scanned) < MaxRows /\ Len(scanned') = Len(scanned) + 1
      BY <2>1, ScanAssumption DEF ReadsRow, ScanInv
    <3> QED
      BY <3>1
  <2>6. page' \in Seq(PageRows) /\ Len(found') <= Pool' + SiblingsOnPage
    BY <1>1, <2>3 DEF PageInv
  <2>7. stage' \in {"scan", "rank", "done", "failed"} /\ PageIsFull'
    BY <2>3 DEF PageIsFull
  <2> QED
    BY <1>1, <2>2, <2>4, <2>5, <2>6, <2>7 DEF PageInv
<1>3. ASSUME stage' \in {"rank", "failed"}, scanned' = <<>>, FoundOnce', UNCHANGED page,
             Len(found') <= Pool + SiblingsOnPage
      PROVE  PageInv'
  <2>1. OnceRead' /\ Len(scanned') <= MaxRows
    <3>1. Len(<<>>) = 0 /\ MaxRows \in Nat
      BY ScanAssumption
    <3> QED
      BY <1>3, <3>1 DEF OnceRead
  <2>2. page' \in Seq(PageRows) /\ Len(found') <= Pool' + SiblingsOnPage
    BY <1>1, <1>3 DEF PageInv
  <2>3. stage' \in {"scan", "rank", "done", "failed"} /\ PageIsFull'
    BY <1>3 DEF PageIsFull
  <2> QED
    BY <1>1, <1>3, <2>1, <2>2, <2>3 DEF PageInv
<1>4. CASE EndOfScan
  <2>1. FoundOnce' /\ Len(found') <= Pool + SiblingsOnPage
    BY <1>4, FoundAtTheEnd DEF PageInv
  <2> QED
    BY <1>3, <1>4, <2>1 DEF EndOfScan
<1>5. CASE BadLine
  <2>1. FoundOnce' /\ Len(found') <= Pool + SiblingsOnPage
    BY <1>5 DEF BadLine, PageInv, FoundOnce, Hits, ShortOf, Rows
  <2> QED
    BY <1>3, <1>5, <2>1 DEF BadLine
<1>6. CASE Plain \/ FallThrough \/ Jev \/ Laya
  <2>1. /\ stage' = "done" /\ UNCHANGED <<search, scanned, heap, tracked, shorts, recent, found>>
        /\ page' \in Seq(PageRows) /\ Full(page')
    BY <1>6, AnswersFull DEF PageInv
  <2>2. OnceRead' /\ FoundOnce'
    BY <2>1 DEF PageInv, OnceRead, FoundOnce, Hits, ShortOf, Rows
  <2>3. FactHits' = FactHits /\ EventHits' = EventHits /\ Baseline' = Baseline
    <3>1. FactsFound' = FactsFound
      BY <2>1 DEF FactsFound, BestAt
    <3> QED
      BY <2>1, <3>1 DEF FactHits, EventHits, Baseline
  <2>4. PageIsFull'
    BY <2>1, <2>3 DEF PageIsFull, Full
  <2>5. Len(scanned') <= MaxRows /\ Len(found') <= Pool' + SiblingsOnPage
    BY <1>1, <2>1 DEF PageInv
  <2> QED
    BY <1>1, <2>1, <2>2, <2>4, <2>5 DEF PageInv
<1>7. CASE UNCHANGED scanVars
  BY <1>7, PageStays DEF scanVars
<1> QED
  BY <1>2, <1>4, <1>5, <1>6, <1>7 DEF ScanNext

LEMMA PageInit ==
    ASSUME ScanInit
    PROVE  PageInv
<1>1. /\ scanned = <<>> /\ found = <<>> /\ page = <<>> /\ stage \in {"scan", "rank"} /\ SearchTyped
  BY DEF ScanInit, NothingRead, SearchTyped
<1>2. Len(<<>>) = 0 /\ MaxRows \in Nat /\ Pool \in Nat /\ SiblingsOnPage \in Nat
  BY ScanAssumption, PoolTyped
<1>3. OnceRead
  BY <1>1 DEF OnceRead
<1>4. FoundOnce
  <2>1. found \in Seq(Hits) /\ DOMAIN found = {}
    BY <1>1
  <2> QED
    BY <2>1 DEF FoundOnce
<1>5. page \in Seq(PageRows)
  BY <1>1
<1>6. Len(scanned) <= MaxRows /\ Len(found) <= Pool + SiblingsOnPage
  BY <1>1, <1>2
<1> QED
  BY <1>1, <1>3, <1>4, <1>5, <1>6 DEF PageInv, PageIsFull

(* The three invariants together. *)
ScanIInv == ScanInv /\ ShortsInv /\ PageInv

LEMMA ScanInductive == ScanSpec => []ScanIInv
<1>1. ScanInit => ScanIInv
  BY NothingIsTop, NothingShort, PageInit DEF ScanInit, ScanIInv
<1>2. ScanIInv /\ [ScanNext]_scanVars => ScanIInv'
  BY ScanStep, ShortsStep, PageStep DEF ScanIInv
<1> QED
  BY <1>1, <1>2, PTL DEF ScanSpec

(* PageIsFull: whoever judges, and whatever the scores: the page is as     *)
(* full as was asked for, shows no row twice, and without a judge shows    *)
(* both sides (combined_search, JevRerankAdapter::rerank).                 *)
THEOREM PageStaysFull == ScanSpec => []PageIsFull
<1>1. ScanIInv => PageIsFull
  BY DEF ScanIInv, PageInv
<1> QED
  BY <1>1, ScanInductive, PTL

-----------------------------------------------------------------------------
(* The bounds *)

LEMMA TopBounded ==
    ASSUME NEW S, NEW before, IsFiniteSet(S), Ordered(S, before), NEW k \in Nat
    PROVE  Cardinality(Top(k, S, before)) <= k
<1>1. CASE \E x \in S : x \notin Top(k, S, before)
  <2>1. Cardinality(Top(k, S, before)) = k
    BY <1>1, TopFull
  <2> QED
    BY <2>1
<1>2. CASE \A x \in S : x \in Top(k, S, before)
  <2>1. Top(k, S, before) = S
    BY <1>2 DEF Top
  <2>2. Cardinality(S) \in Nat
    BY FS_CardinalityType
  <2>3. ASSUME Cardinality(S) > k
        PROVE  FALSE
    <3>1. Cardinality(S) \in 1 .. Cardinality(S)
      BY <2>2, <2>3
    <3>2. PICK x \in S : Rank(S, before, x) = Cardinality(S) - 1
      BY <3>1, RankOnto
    <3>3. Rank(S, before, x) < k
      BY <1>2 DEF Top
    <3> QED
      BY <2>2, <2>3, <3>2, <3>3
  <2> QED
    BY <2>1, <2>2, <2>3
<1> QED
  BY <1>1, <1>2

LEMMA ShortsBounded ==
    ASSUME ScanInv, NEW part \in SUBSET ShortsRead
    PROVE  /\ Cardinality(Shortest(part)) <= SiblingsPerId
           /\ Cardinality(Latest(part)) <= RecentShorts
<1>1. /\ IsFiniteSet(ShortsRead)
      /\ Ordered(ShortsRead, ByLength(ShortsRead)) /\ Ordered(ShortsRead, ByTurn(ShortsRead))
  BY ShortsOfRows, ShortsOrdered DEF Shorts
<1>2. IsFiniteSet(part) /\ Ordered(part, ByLength(ShortsRead)) /\ Ordered(part, ByTurn(ShortsRead))
  BY <1>1, FS_Subset DEF Ordered
<1>3. /\ Cardinality(Top(SiblingsPerId, part, ByLength(ShortsRead))) <= SiblingsPerId
      /\ Cardinality(Top(RecentShorts, part, ByTurn(ShortsRead))) <= RecentShorts
  BY <1>2, Caps, TopBounded
<1> QED
  BY <1>3, TopsAre

(* ScanTypeOK: the types, and that the heap, the rows kept of an id, the   *)
(* last rows and the rows returned stay within their bounds (push_top,     *)
(* remember_short, push_recent, search_detailed).                          *)
THEOREM ScanTyped == ScanSpec => []ScanTypeOK
<1>1. ScanIInv => ScanTypeOK
  <2> SUFFICES ASSUME ScanIInv
               PROVE  ScanTypeOK
    OBVIOUS
  <2> USE DEF ScanIInv
  <2>1. ToSet(scanned) \subseteq Rows /\ heap \subseteq Rows
    <3>1. ToSet(scanned) \subseteq Rows
      BY DEF ScanInv, ToSet
    <3> QED
      BY <3>1 DEF ScanInv, ScanIsTop, Candidates
  <2>2. \A s \in ShortsRead : ShortRow(s)
    <3> SUFFICES ASSUME NEW s \in ShortsRead
                 PROVE  ShortRow(s)
      OBVIOUS
    <3>1. PICK n \in Turns : s = ShortOf(scanned[n], n)
      BY ShortsOfRows
    <3>2. n \in 1 .. MaxRows /\ scanned[n] \in Rows
      <4>1. n \in 1 .. Len(scanned) /\ scanned[n] \in Rows
        BY ShortsOfRows
      <4>2. Len(scanned) \in Nat /\ MaxRows \in Nat /\ Len(scanned) <= MaxRows
        BY ScanAssumption DEF ScanInv, PageInv
      <4> QED
        BY <4>1, <4>2
    <3> QED
      BY <3>1, <3>2 DEF ShortRow, ShortOf
  <2>3. ASSUME NEW i \in Ids
        PROVE  /\ Cardinality(shorts[i]) <= SiblingsPerId
               /\ \A r \in shorts[i] : ShortRow(r) /\ r.id = i
    <3>1. CASE i \in tracked
      <4>1. PICK all \in SUBSET ShortsRead : (\A s \in all : s.id = i) /\ shorts[i] = Shortest(all)
        BY <3>1 DEF ShortsInv, KeptOf
      <4>2. Cardinality(shorts[i]) <= SiblingsPerId
        BY <4>1, ShortsBounded
      <4>3. shorts[i] \subseteq all
        BY <4>1 DEF Shortest
      <4> QED
        BY <2>2, <4>1, <4>2, <4>3
    <3>2. CASE i \notin tracked
      <4>1. shorts[i] = {}
        BY <3>2 DEF ShortsInv, KeptOf
      <4>2. 0 <= SiblingsPerId
        BY Caps
      <4> QED
        BY <4>1, <4>2, FS_EmptySet
    <3> QED
      BY <3>1, <3>2
  <2>4. Cardinality(recent) <= RecentShorts /\ \A r \in recent : ShortRow(r)
    <3>1. recent = Latest(ShortsRead) /\ ShortsRead \in SUBSET ShortsRead
      BY DEF ShortsInv
    <3>2. recent \subseteq ShortsRead
      BY <3>1 DEF Latest
    <3> QED
      BY <2>2, <3>1, <3>2, ShortsBounded
  <2>5. \A h \in ToSet(page) : PageRow(h)
    <3>1. page \in Seq(PageRows)
      BY DEF PageInv
    <3>2. DOMAIN page = 1 .. Len(page) /\ \A i \in 1 .. Len(page) : page[i] \in PageRows
      BY <3>1, Sized
    <3> QED
      BY <3>2 DEF ToSet, PageRow, PageRows
  <2> QED
    BY <2>1, <2>3, <2>4, <2>5 DEF ScanTypeOK, ScanInv, ShortsInv, PageInv
<1> QED
  BY <1>1, ScanInductive, PTL
=============================================================================
