----------------------------- MODULE FilesProofs -----------------------------
(***************************************************************************)
(* That edits of other programs' files leave people's lines alone and do   *)
(* not pile up, for any processes, lines, hooks and number of edits.       *)
(***************************************************************************)
EXTENDS Files, SequenceTheorems, FiniteSetTheorems, WellFoundedInduction, TLAPS

-----------------------------------------------------------------------------
(* Texts *)

(* u is t with the line e behind its first i lines. *)
Inserted(u, t, i, e) ==
    /\ Len(u) = Len(t) + 1
    /\ \A j \in 1 .. i : u[j] = t[j]
    /\ u[i + 1] = e
    /\ \A j \in (i + 1) .. Len(t) : u[j + 1] = t[j]

(* u is t and then v. *)
Joined(u, t, v) ==
    /\ Len(u) = Len(t) + Len(v)
    /\ \A j \in 1 .. Len(t) : u[j] = t[j]
    /\ \A j \in 1 .. Len(v) : u[Len(t) + j] = v[j]

LEMMA Sized ==
    ASSUME NEW S, NEW t \in Seq(S)
    PROVE  Len(t) \in Nat /\ DOMAIN t = 1 .. Len(t) /\ \A i \in 1 .. Len(t) : t[i] \in S
BY LenProperties, ElementOfSeq

LEMMA Joining ==
    ASSUME NEW S, NEW t \in Seq(S), NEW v \in Seq(S)
    PROVE  t \o v \in Seq(S) /\ Joined(t \o v, t, v)
<1>1. /\ t \o v \in Seq(S) /\ Len(t \o v) = Len(t) + Len(v)
      /\ \A i \in 1 .. Len(t) + Len(v) :
            (t \o v)[i] = IF i <= Len(t) THEN t[i] ELSE v[i - Len(t)]
  BY ConcatProperties
<1>2. Len(t) \in Nat /\ Len(v) \in Nat
  BY Sized
<1> DEFINE u == t \o v
<1> HIDE DEF u
<1>3. \A j \in 1 .. Len(t) : u[j] = t[j]
  BY <1>1, <1>2 DEF u
<1>4. ASSUME NEW j \in 1 .. Len(v)
      PROVE  u[Len(t) + j] = v[j]
  <2>1. Len(t) + j \in 1 .. Len(t) + Len(v) /\ ~(Len(t) + j <= Len(t)) /\ Len(t) + j - Len(t) = j
    BY <1>2
  <2> QED
    BY <1>1, <2>1 DEF u
<1> QED
  BY <1>1, <1>3, <1>4 DEF Joined, u

LEMMA Cutting ==
    ASSUME NEW S, NEW t \in Seq(S), NEW m \in 1 .. Len(t) + 1, NEW n \in 0 .. Len(t)
    PROVE  /\ SubSeq(t, m, n) \in Seq(S)
           /\ Len(SubSeq(t, m, n)) = IF m <= n THEN n - m + 1 ELSE 0
           /\ \A i \in 1 .. (n - m + 1) : SubSeq(t, m, n)[i] = t[m + i - 1]
<1>1. Len(t) \in Nat /\ \A i \in 1 .. Len(t) : t[i] \in S
  BY Sized
<1>2. m \in Int /\ n \in Int /\ \A i \in m .. n : t[i] \in S
  BY <1>1
<1> QED
  BY <1>2, SubSeqProperties

LEMMA Inserting ==
    ASSUME NEW S, NEW t \in Seq(S), NEW i \in 0 .. Len(t), NEW e \in S
    PROVE  InsertAt(t, i + 1, e) \in Seq(S) /\ Inserted(InsertAt(t, i + 1, e), t, i, e)
<1> DEFINE a == SubSeq(t, 1, i)
           b == SubSeq(t, i + 1, Len(t))
           u == (a \o <<e>>) \o b
<1>1. Len(t) \in Nat /\ i \in Nat /\ i <= Len(t) /\ (i + 1) - 1 = i
  BY Sized
<1>2. a \in Seq(S) /\ Len(a) = i /\ \A j \in 1 .. i : a[j] = t[j]
  <2>1. 1 \in 1 .. Len(t) + 1
    BY <1>1
  <2>2. /\ a \in Seq(S) /\ Len(a) = (IF 1 <= i THEN i - 1 + 1 ELSE 0)
        /\ \A j \in 1 .. (i - 1 + 1) : a[j] = t[1 + j - 1]
    BY <2>1, Cutting
  <2> HIDE DEF a
  <2>3. Len(a) = i
    BY <1>1, <2>2
  <2>4. ASSUME NEW j \in 1 .. i
        PROVE  a[j] = t[j]
    <3>1. j \in 1 .. (i - 1 + 1) /\ 1 + j - 1 = j
      BY <1>1
    <3> QED
      BY <2>2, <3>1
  <2> QED
    BY <2>2, <2>3, <2>4
<1>3. b \in Seq(S) /\ Len(b) = Len(t) - i /\ \A j \in 1 .. (Len(t) - i) : b[j] = t[i + j]
  <2>1. i + 1 \in 1 .. Len(t) + 1 /\ Len(t) \in 0 .. Len(t)
    BY <1>1
  <2>2. /\ b \in Seq(S) /\ Len(b) = (IF i + 1 <= Len(t) THEN Len(t) - (i + 1) + 1 ELSE 0)
        /\ \A j \in 1 .. (Len(t) - (i + 1) + 1) : b[j] = t[(i + 1) + j - 1]
    BY <2>1, Cutting
  <2> HIDE DEF b
  <2>3. Len(b) = Len(t) - i
    BY <1>1, <2>2
  <2>4. ASSUME NEW j \in 1 .. (Len(t) - i)
        PROVE  b[j] = t[i + j]
    <3>1. j \in 1 .. (Len(t) - (i + 1) + 1) /\ (i + 1) + j - 1 = i + j
      BY <1>1
    <3> QED
      BY <2>2, <3>1
  <2> QED
    BY <2>2, <2>3, <2>4
<1> HIDE DEF a, b
<1>4. <<e>> \in Seq(S) /\ Len(<<e>>) = 1 /\ <<e>>[1] = e
  OBVIOUS
<1>5. a \o <<e>> \in Seq(S) /\ Joined(a \o <<e>>, a, <<e>>)
  BY <1>2, <1>4, Joining
<1>6. u \in Seq(S) /\ Joined(u, a \o <<e>>, b)
  BY <1>3, <1>5, Joining
<1> DEFINE c == a \o <<e>>
<1> HIDE DEF c, u
<1>7. Len(c) = i + 1 /\ (\A j \in 1 .. i : c[j] = t[j]) /\ c[i + 1] = e
  <2>1. Len(c) = i + 1
    BY <1>1, <1>2, <1>4, <1>5 DEF c, Joined
  <2>2. \A j \in 1 .. i : c[j] = t[j]
    <3>1. \A j \in 1 .. Len(a) : c[j] = a[j]
      BY <1>5 DEF c, Joined
    <3> QED
      BY <1>2, <3>1
  <2>3. c[i + 1] = e
    <3>1. 1 \in 1 .. Len(<<e>>)
      BY <1>4
    <3>2. c[Len(a) + 1] = <<e>>[1]
      BY <1>5, <3>1 DEF c, Joined
    <3> QED
      BY <1>2, <1>4, <3>2
  <2> QED
    BY <2>1, <2>2, <2>3
<1>8. Len(u) = Len(t) + 1
  <2>1. Len(u) = Len(c) + Len(b)
    BY <1>6 DEF c, Joined
  <2> QED
    BY <1>1, <1>3, <1>7, <2>1
<1>9. (\A j \in 1 .. i : u[j] = t[j]) /\ u[i + 1] = e
  <2>1. \A j \in 1 .. (i + 1) : u[j] = c[j]
    BY <1>6, <1>7 DEF c, Joined
  <2>2. i + 1 \in 1 .. (i + 1) /\ \A j \in 1 .. i : j \in 1 .. (i + 1)
    BY <1>1
  <2> QED
    BY <1>7, <2>1, <2>2
<1>10. ASSUME NEW j \in (i + 1) .. Len(t)
       PROVE  u[j + 1] = t[j]
  <2>1. j - i \in 1 .. (Len(t) - i) /\ (i + 1) + (j - i) = j + 1 /\ i + (j - i) = j
    BY <1>1
  <2>2. u[(i + 1) + (j - i)] = b[j - i]
    BY <1>3, <1>6, <1>7, <2>1 DEF c, Joined
  <2> QED
    BY <1>3, <2>1, <2>2
<1>11. InsertAt(t, i + 1, e) = u
  <2>1. InsertAt(t, i + 1, e) = SubSeq(t, 1, (i + 1) - 1) \o <<e>> \o SubSeq(t, i + 1, Len(t))
    BY DEF InsertAt
  <2> QED
    BY <1>1, <2>1 DEF u, a, b
<1> QED
  BY <1>6, <1>8, <1>9, <1>10, <1>11 DEF Inserted

(* u is t without its line i. *)
Removed(u, t, i) ==
    /\ Len(u) = Len(t) - 1
    /\ \A j \in 1 .. (i - 1) : u[j] = t[j]
    /\ \A j \in (i + 1) .. Len(t) : u[j - 1] = t[j]

LEMMA Removing ==
    ASSUME NEW S, NEW t \in Seq(S), NEW i \in 1 .. Len(t)
    PROVE  RemoveAt(t, i) \in Seq(S) /\ Removed(RemoveAt(t, i), t, i)
<1> DEFINE a == SubSeq(t, 1, i - 1)
           b == SubSeq(t, i + 1, Len(t))
           u == a \o b
<1>1. Len(t) \in Nat /\ i \in Nat /\ 1 <= i /\ i <= Len(t)
  BY Sized
<1>2. a \in Seq(S) /\ Len(a) = i - 1 /\ \A j \in 1 .. (i - 1) : a[j] = t[j]
  <2>1. 1 \in 1 .. Len(t) + 1 /\ i - 1 \in 0 .. Len(t)
    BY <1>1
  <2>2. /\ a \in Seq(S) /\ Len(a) = (IF 1 <= i - 1 THEN (i - 1) - 1 + 1 ELSE 0)
        /\ \A j \in 1 .. ((i - 1) - 1 + 1) : a[j] = t[1 + j - 1]
    BY <2>1, Cutting
  <2> HIDE DEF a
  <2>3. Len(a) = i - 1
    BY <1>1, <2>2
  <2>4. ASSUME NEW j \in 1 .. (i - 1)
        PROVE  a[j] = t[j]
    <3>1. j \in 1 .. ((i - 1) - 1 + 1) /\ 1 + j - 1 = j
      BY <1>1
    <3> QED
      BY <2>2, <3>1
  <2> QED
    BY <2>2, <2>3, <2>4
<1>3. b \in Seq(S) /\ Len(b) = Len(t) - i /\ \A j \in 1 .. (Len(t) - i) : b[j] = t[i + j]
  <2>1. i + 1 \in 1 .. Len(t) + 1 /\ Len(t) \in 0 .. Len(t)
    BY <1>1
  <2>2. /\ b \in Seq(S) /\ Len(b) = (IF i + 1 <= Len(t) THEN Len(t) - (i + 1) + 1 ELSE 0)
        /\ \A j \in 1 .. (Len(t) - (i + 1) + 1) : b[j] = t[(i + 1) + j - 1]
    BY <2>1, Cutting
  <2> HIDE DEF b
  <2>3. Len(b) = Len(t) - i
    BY <1>1, <2>2
  <2>4. ASSUME NEW j \in 1 .. (Len(t) - i)
        PROVE  b[j] = t[i + j]
    <3>1. j \in 1 .. (Len(t) - (i + 1) + 1) /\ (i + 1) + j - 1 = i + j
      BY <1>1
    <3> QED
      BY <2>2, <3>1
  <2> QED
    BY <2>2, <2>3, <2>4
<1>4. RemoveAt(t, i) = u
  BY DEF RemoveAt
<1>5. u \in Seq(S) /\ Joined(u, a, b)
  BY <1>2, <1>3, Joining
<1> HIDE DEF a, b, u
<1>6. Len(u) = Len(t) - 1
  BY <1>1, <1>2, <1>3, <1>5 DEF Joined
<1>7. \A j \in 1 .. (i - 1) : u[j] = t[j]
  BY <1>2, <1>5 DEF Joined
<1>8. ASSUME NEW j \in (i + 1) .. Len(t)
      PROVE  u[j - 1] = t[j]
  <2>1. j - i \in 1 .. (Len(t) - i) /\ (i - 1) + (j - i) = j - 1 /\ i + (j - i) = j
    BY <1>1
  <2>2. u[(i - 1) + (j - i)] = b[j - i]
    BY <1>2, <1>3, <1>5, <2>1 DEF Joined
  <2> QED
    BY <1>3, <2>1, <2>2
<1> QED
  BY <1>4, <1>5, <1>6, <1>7, <1>8 DEF Removed

(* What is taken out of a text in its order is all the lines at the places *)
(* that are kept: the n-th place is there for each n, since no two places  *)
(* have the same number before them.                                       *)
LEMMA Taking ==
    ASSUME NEW L, NEW t \in Seq(L), NEW S, S \subseteq DOMAIN t
    PROVE  /\ LinesAt(t, S) \in Seq(L)
           /\ \A n \in DOMAIN LinesAt(t, S) : \E i \in S : LinesAt(t, S)[n] = t[i]
           /\ \A i \in S : \E n \in DOMAIN LinesAt(t, S) : LinesAt(t, S)[n] = t[i]
<1> DEFINE Upto(i) == {j \in S : j <= i}
           rank == [i \in S |-> Cardinality(Upto(i))]
           size == Cardinality(S)
           u == LinesAt(t, S)
<1>1. Len(t) \in Nat /\ S \subseteq 1 .. Len(t) /\ (\A i \in 1 .. Len(t) : t[i] \in L)
  BY Sized
<1>2. IsFiniteSet(S) /\ size \in Nat
  <2>1. IsFiniteSet(1 .. Len(t))
    BY <1>1, FS_Interval
  <2>2. IsFiniteSet(S)
    BY <1>1, <2>1, FS_Subset
  <2> QED
    BY <2>2, FS_CardinalityType
<1>3. ASSUME NEW i \in S
      PROVE  IsFiniteSet(Upto(i)) /\ rank[i] \in 1 .. size
  <2>1. Upto(i) \in SUBSET S /\ i \in Upto(i)
    BY <1>1
  <2>2. IsFiniteSet(Upto(i)) /\ Cardinality(Upto(i)) <= size
    BY <1>2, <2>1, FS_Subset
  <2>3. Cardinality(Upto(i)) \in Nat /\ Cardinality(Upto(i)) # 0
    BY <2>1, <2>2, FS_EmptySet, FS_CardinalityType
  <2>4. rank[i] = Cardinality(Upto(i))
    OBVIOUS
  <2> HIDE DEF rank, Upto, size
  <2> QED
    BY <1>2, <2>2, <2>3, <2>4
<1>4. ASSUME NEW i \in S, NEW j \in S, i < j
      PROVE  rank[i] # rank[j]
  <2>1. Upto(i) \in SUBSET Upto(j) /\ j \in Upto(j) /\ j \notin Upto(i)
    BY <1>1, <1>4
  <2>2. Cardinality(Upto(i)) # Cardinality(Upto(j))
    BY <1>3, <2>1, FS_Subset
  <2> QED
    BY <2>2
<1>5. rank \in Injection(S, 1 .. size)
  <2>1. rank \in [S -> 1 .. size]
    BY <1>3
  <2>2. \A i, j \in S : rank[i] = rank[j] => i = j
    <3>1. \A i, j \in S : i < j \/ j < i \/ i = j
      BY <1>1
    <3> HIDE DEF rank
    <3> QED
      BY <1>4, <3>1
  <2> HIDE DEF rank
  <2> QED
    BY <2>1, <2>2 DEF Injection, IsInjective
<1>6. \A n \in 1 .. size : \E i \in S : rank[i] = n
  <2>1. IsFiniteSet(1 .. size) /\ Cardinality(1 .. size) = size
    <3> HIDE DEF size
    <3>1. 1 \in Int /\ size \in Int
      BY <1>2
    <3>2. IsFiniteSet(1 .. size) /\ Cardinality(1 .. size) = IF 1 > size THEN 0 ELSE size - 1 + 1
      BY <3>1, FS_Interval
    <3> QED
      BY <1>2, <3>2
  <2>2. rank \in Surjection(S, 1 .. size)
    BY <1>2, <1>5, <2>1, FS_Injection
  <2> QED
    BY <2>2 DEF Surjection
<1>7. ASSUME NEW n \in 1 .. size
      PROVE  PlaceOfNth(S, n) \in S /\ rank[PlaceOfNth(S, n)] = n
  BY <1>6 DEF PlaceOfNth
<1>8. u = [n \in 1 .. size |-> t[PlaceOfNth(S, n)]] /\ DOMAIN u = 1 .. size
  BY DEF LinesAt
<1>9. u \in Seq(L)
  <2>1. \A n \in 1 .. size : t[PlaceOfNth(S, n)] \in L
    BY <1>1, <1>7
  <2> HIDE DEF size
  <2> QED
    BY <1>2, <1>8, <2>1
<1>10. ASSUME NEW i \in S
       PROVE  \E n \in DOMAIN u : u[n] = t[i]
  <2>1. rank[i] \in 1 .. size
    BY <1>3
  <2>2. rank[PlaceOfNth(S, rank[i])] = rank[i] /\ PlaceOfNth(S, rank[i]) \in S
    BY <1>7, <2>1
  <2>3. PlaceOfNth(S, rank[i]) = i
    BY <1>5, <2>2 DEF Injection, IsInjective
  <2> HIDE DEF rank, size, u
  <2> QED
    BY <1>8, <2>1, <2>3
<1>11. ASSUME NEW n \in DOMAIN u
       PROVE  \E i \in S : u[n] = t[i]
  <2>1. PlaceOfNth(S, n) \in S
    BY <1>7, <1>8
  <2> HIDE DEF size
  <2> QED
    BY <1>8, <2>1
<1> QED
  BY <1>9, <1>10, <1>11

LEMMA FirstPlace ==
    ASSUME NEW L, NEW t \in Seq(L), NEW kind, Has(t, kind)
    PROVE  PlaceOfFirst(t, kind) \in DOMAIN t /\ t[PlaceOfFirst(t, kind)] = LineOf(kind)
<1> DEFINE T == {i \in DOMAIN t : t[i] = LineOf(kind)}
<1>1. Len(t) \in Nat /\ DOMAIN t = 1 .. Len(t)
  BY Sized
<1>2. T # {} /\ T \subseteq Nat
  BY <1>1 DEF Has, ToSet
<1>3. PICK i \in T : \A j \in T : <<j, i>> \notin OpToRel(<, Nat)
  <2> HIDE DEF T
  <2> QED
    BY <1>2, NatLessThanWellFounded, WFMin
<1>4. \A j \in 1 .. (i - 1) : t[j] # LineOf(kind)
  <2> SUFFICES ASSUME NEW j \in 1 .. (i - 1), t[j] = LineOf(kind)
               PROVE  FALSE
    OBVIOUS
  <2>1. j \in T /\ j < i /\ j \in Nat /\ i \in Nat
    BY <1>1, <1>2
  <2>2. <<j, i>> \in OpToRel(<, Nat)
    BY <2>1 DEF OpToRel
  <2> QED
    BY <1>3, <2>1, <2>2
<1> QED
  BY <1>3, <1>4 DEF PlaceOfFirst

LEMMA Lined ==
    /\ \A kind : LineOf(kind).kind = kind /\ LineOf(kind).of = Ours
    /\ \A l \in TextLine : l.of = Ours => l = LineOf(l.kind)
    /\ \A kind \in OtherKinds \cup HookEvents : LineOf(kind) \in TextLine
BY DEF LineOf, TextLine

LEMMA OwnLinesAre ==
    ASSUME NEW L, NEW t \in Seq(L)
    PROVE  \A u : u \in OwnLines(t) <=> u \in OwnLine /\ \E i \in 1 .. Len(t) : t[i].of = u
<1>1. DOMAIN t = 1 .. Len(t)
  BY Sized
<1> QED
  BY <1>1 DEF OwnLines, ToSet

-----------------------------------------------------------------------------
(* What the texts look like as long as no edit went wrong. *)

OursIn(file) ==
    CASE file = "agents" -> {"begin", "fact", "end"}
      [] file = "config" -> {"header", "key", "sub"}
      [] file = "settings" -> HookEvents
      [] OTHER -> {"entry"}

OwnIn(file) ==
    CASE file = "config" -> {"table"}
      [] file = "settings" -> HookEvents
      [] OTHER -> {"own"}

OnlyOnce(t) == \A i, j \in 1 .. Len(t) : i # j /\ t[i].of = Ours => t[i] # t[j]

BlockWhole(t) ==
    \A i \in 1 .. Len(t) :
        /\ t[i] = LineOf("begin") =>
              i + 2 <= Len(t) /\ t[i + 1] = LineOf("fact") /\ t[i + 2] = LineOf("end")
        /\ t[i] = LineOf("fact") => i > 1 /\ t[i - 1] = LineOf("begin")
        /\ t[i] = LineOf("end") => i > 2 /\ t[i - 2] = LineOf("begin")

KeyInTable(t) ==
    \A i \in 1 .. Len(t) : t[i] = LineOf("key") => i > 1 /\ t[i - 1] = LineOf("header")

Neat(file, t) ==
    /\ \A i \in 1 .. Len(t) : t[i].of # Ours => t[i].kind \in OwnIn(file)
    /\ \A i \in 1 .. Len(t) : t[i].of = Ours => t[i].kind \in OursIn(file)
    /\ OnlyOnce(t)
    /\ file = "agents" => BlockWhole(t)
    /\ file = "config" => KeyInTable(t)

LEMMA NeatNone ==
    ASSUME NEW file, NEW t \in Seq(TextLine),
           \A i \in 1 .. Len(t) : t[i].of # Ours /\ t[i].kind \in OwnIn(file)
    PROVE  Neat(file, t)
BY Lined DEF Neat, OnlyOnce, BlockWhole, KeyInTable

LEMMA InsertedNeat ==
    ASSUME NEW file, NEW t \in Seq(TextLine), Neat(file, t),
           NEW i \in 0 .. Len(t), NEW e \in TextLine,
           NEW u \in Seq(TextLine), Inserted(u, t, i, e),
           e.of # Ours => e.kind \in OwnIn(file),
           e.of = Ours => /\ e.kind \in OursIn(file) \cap {"sub", "entry"}
                          /\ \A j \in 1 .. Len(t) : t[j] # e,
           file = "agents" => ~\E b \in 1 .. i, c \in (i + 1) .. Len(t) :
                                  t[b] = LineOf("begin") /\ t[c] = LineOf("end"),
           file = "config" /\ i < Len(t) => t[i + 1] # LineOf("key")
    PROVE  Neat(file, u)
<1>1. Len(t) \in Nat /\ i \in Nat /\ i <= Len(t) /\ Len(u) = Len(t) + 1
  BY Sized DEF Inserted
<1>2. ASSUME NEW j \in 1 .. Len(u)
      PROVE  \/ j <= i /\ j \in 1 .. Len(t) /\ u[j] = t[j]
             \/ j = i + 1 /\ u[j] = e
             \/ j > i + 1 /\ j - 1 \in (i + 1) .. Len(t) /\ j - 1 \in 1 .. Len(t) /\ u[j] = t[j - 1]
  <2>1. CASE j <= i
    <3>1. j \in 1 .. i /\ j \in 1 .. Len(t)
      BY <1>1, <2>1
    <3> QED
      BY <2>1, <3>1 DEF Inserted
  <2>2. CASE j = i + 1
    BY <2>2 DEF Inserted
  <2>3. CASE j > i + 1
    <3>1. j - 1 \in (i + 1) .. Len(t) /\ j - 1 \in 1 .. Len(t) /\ (j - 1) + 1 = j
      BY <1>1, <2>3
    <3>2. u[(j - 1) + 1] = t[j - 1]
      BY <3>1 DEF Inserted
    <3> QED
      BY <2>3, <3>1, <3>2
  <2> QED
    BY <1>1, <2>1, <2>2, <2>3
<1>3. \A j \in 1 .. Len(t) : \/ j <= i /\ u[j] = t[j]
                             \/ j > i /\ u[j + 1] = t[j]
  BY <1>1 DEF Inserted
<1>4. \A kind \in {"begin", "fact", "end", "key", "header"} : e # LineOf(kind)
  BY Lined
<1>5. \A j \in 1 .. Len(u) : /\ u[j].of # Ours => u[j].kind \in OwnIn(file)
                             /\ u[j].of = Ours => u[j].kind \in OursIn(file)
  BY <1>2 DEF Neat
<1>6. OnlyOnce(u)
  <2> SUFFICES ASSUME NEW j \in 1 .. Len(u), NEW k \in 1 .. Len(u), j # k, u[j].of = Ours
               PROVE  u[j] # u[k]
    BY DEF OnlyOnce
  <2>1. \A a, b \in 1 .. Len(t) : a # b /\ t[a].of = Ours => t[a] # t[b]
    BY DEF Neat, OnlyOnce
  <2>2. CASE j = i + 1
    <3>1. u[j] = e /\ k # i + 1
      BY <1>1, <1>2, <2>2
    <3> QED
      BY <1>2, <3>1
  <2>3. CASE k = i + 1
    <3>1. u[k] = e /\ j # i + 1
      BY <1>1, <1>2, <2>3
    <3>2. PICK a \in 1 .. Len(t) : u[j] = t[a]
      BY <1>2, <3>1
    <3> QED
      BY <3>1, <3>2
  <2>4. CASE j # i + 1 /\ k # i + 1
    <3> DEFINE at(x) == IF x <= i THEN x ELSE x - 1
    <3>1. at(j) \in 1 .. Len(t) /\ u[j] = t[at(j)] /\ at(k) \in 1 .. Len(t) /\ u[k] = t[at(k)]
      BY <1>1, <1>2, <2>4
    <3>2. at(j) # at(k)
      BY <1>1, <2>4
    <3> HIDE DEF at
    <3> QED
      BY <2>1, <3>1, <3>2
  <2> QED
    BY <2>2, <2>3, <2>4
<1>7. ASSUME file = "agents"
      PROVE  BlockWhole(u)
  <2> SUFFICES ASSUME NEW j \in 1 .. Len(u)
               PROVE  /\ u[j] = LineOf("begin") =>
                            j + 2 <= Len(u) /\ u[j + 1] = LineOf("fact") /\ u[j + 2] = LineOf("end")
                      /\ u[j] = LineOf("fact") => j > 1 /\ u[j - 1] = LineOf("begin")
                      /\ u[j] = LineOf("end") => j > 2 /\ u[j - 2] = LineOf("begin")
    BY DEF BlockWhole
  <2>1. BlockWhole(t)
    BY <1>7 DEF Neat
  <2>2. ASSUME NEW a \in 1 .. Len(t), t[a] = LineOf("begin")
        PROVE  /\ a + 2 <= Len(t) /\ t[a + 1] = LineOf("fact") /\ t[a + 2] = LineOf("end")
               /\ a + 2 <= i \/ a > i
    <3>1. a + 2 <= Len(t) /\ t[a + 1] = LineOf("fact") /\ t[a + 2] = LineOf("end")
      BY <2>1, <2>2 DEF BlockWhole
    <3>2. a + 2 <= i \/ a > i
      <4> SUFFICES ASSUME ~(a + 2 <= i), ~(a > i)
                   PROVE  FALSE
        OBVIOUS
      <4>1. a \in 1 .. i /\ a + 2 \in (i + 1) .. Len(t)
        BY <1>1, <3>1
      <4> QED
        BY <1>7, <2>2, <3>1, <4>1
    <3> QED
      BY <3>1, <3>2
  <2>3. ASSUME u[j] = LineOf("begin")
        PROVE  j + 2 <= Len(u) /\ u[j + 1] = LineOf("fact") /\ u[j + 2] = LineOf("end")
    <3>1. CASE j <= i
      <4>1. j \in 1 .. Len(t) /\ t[j] = LineOf("begin")
        BY <1>1, <1>2, <2>3, <3>1
      <4>2. j + 2 <= Len(t) /\ j + 2 <= i /\ t[j + 1] = LineOf("fact") /\ t[j + 2] = LineOf("end")
        BY <2>2, <3>1, <4>1, <1>1
      <4>3. u[j + 1] = t[j + 1] /\ u[j + 2] = t[j + 2]
        <5>1. j + 1 \in 1 .. Len(t) /\ j + 2 \in 1 .. Len(t) /\ j + 1 <= i
          BY <1>1, <4>2
        <5> QED
          BY <1>1, <1>3, <4>2, <5>1
      <4> QED
        BY <1>1, <4>2, <4>3
    <3>2. CASE ~(j <= i)
      <4>1. j - 1 \in 1 .. Len(t) /\ t[j - 1] = LineOf("begin") /\ j - 1 > i
        BY <1>1, <1>2, <1>4, <2>3, <3>2
      <4>2. (j - 1) + 2 <= Len(t) /\ t[(j - 1) + 1] = LineOf("fact") /\ t[(j - 1) + 2] = LineOf("end")
        BY <2>2, <4>1
      <4>3. j \in 1 .. Len(t) /\ j + 1 \in 1 .. Len(t) /\ (j - 1) + 1 = j /\ (j - 1) + 2 = j + 1
            /\ j + 2 <= Len(u) /\ (j + 1) + 1 = j + 2
        BY <1>1, <4>2
      <4>4. u[j + 1] = t[j] /\ u[(j + 1) + 1] = t[j + 1]
        BY <1>1, <1>3, <3>2, <4>3
      <4> QED
        BY <4>2, <4>3, <4>4
    <3> QED
      BY <3>1, <3>2
  <2>4. ASSUME u[j] = LineOf("fact")
        PROVE  j > 1 /\ u[j - 1] = LineOf("begin")
    <3>1. CASE j <= i
      <4>1. j \in 1 .. Len(t) /\ t[j] = LineOf("fact")
        BY <1>1, <1>2, <2>4, <3>1
      <4>2. j > 1 /\ t[j - 1] = LineOf("begin")
        BY <2>1, <4>1 DEF BlockWhole
      <4>3. j - 1 \in 1 .. Len(t) /\ ~(j - 1 > i)
        BY <1>1, <3>1, <4>2
      <4> QED
        BY <1>3, <4>2, <4>3
    <3>2. CASE ~(j <= i)
      <4>1. j - 1 \in 1 .. Len(t) /\ t[j - 1] = LineOf("fact") /\ j - 1 > i
        BY <1>1, <1>2, <1>4, <2>4, <3>2
      <4>2. j - 1 > 1 /\ t[(j - 1) - 1] = LineOf("begin")
        BY <2>1, <4>1 DEF BlockWhole
      <4>3. j - 2 \in 1 .. Len(t) /\ (j - 1) - 1 = j - 2 /\ (j - 2) + 1 = j - 1 /\ j > 1
        BY <1>1, <4>1, <4>2
      <4>4. j - 2 > i
        <5>1. (j - 2) + 2 <= i \/ j - 2 > i
          BY <2>2, <4>2, <4>3
        <5> QED
          BY <1>1, <3>2, <5>1
      <4>5. u[(j - 2) + 1] = t[j - 2]
        <5>1. ~(j - 2 <= i)
          BY <1>1, <4>3, <4>4
        <5> QED
          BY <1>3, <4>3, <5>1
      <4> QED
        BY <4>2, <4>3, <4>5
    <3> QED
      BY <3>1, <3>2
  <2>5. ASSUME u[j] = LineOf("end")
        PROVE  j > 2 /\ u[j - 2] = LineOf("begin")
    <3>1. CASE j <= i
      <4>1. j \in 1 .. Len(t) /\ t[j] = LineOf("end")
        BY <1>1, <1>2, <2>5, <3>1
      <4>2. j > 2 /\ t[j - 2] = LineOf("begin")
        BY <2>1, <4>1 DEF BlockWhole
      <4>3. j - 2 \in 1 .. Len(t) /\ ~(j - 2 > i)
        BY <1>1, <3>1, <4>2
      <4> QED
        BY <1>3, <4>2, <4>3
    <3>2. CASE ~(j <= i)
      <4>1. j - 1 \in 1 .. Len(t) /\ t[j - 1] = LineOf("end") /\ j - 1 > i
        BY <1>1, <1>2, <1>4, <2>5, <3>2
      <4>2. j - 1 > 2 /\ t[(j - 1) - 2] = LineOf("begin")
        BY <2>1, <4>1 DEF BlockWhole
      <4>3. j - 3 \in 1 .. Len(t) /\ (j - 1) - 2 = j - 3 /\ (j - 3) + 1 = j - 2 /\ (j - 3) + 2 = j - 1 /\ j > 2
        BY <1>1, <4>1, <4>2
      <4>4. j - 3 > i
        <5>1. (j - 3) + 2 <= i \/ j - 3 > i
          BY <2>2, <4>2, <4>3
        <5> QED
          BY <1>1, <4>1, <5>1
      <4>5. u[(j - 3) + 1] = t[j - 3]
        <5>1. ~(j - 3 <= i)
          BY <1>1, <4>3, <4>4
        <5> QED
          BY <1>3, <4>3, <5>1
      <4> QED
        BY <4>2, <4>3, <4>5
    <3> QED
      BY <3>1, <3>2
  <2> QED
    BY <2>3, <2>4, <2>5
<1>8. ASSUME file = "config"
      PROVE  KeyInTable(u)
  <2> SUFFICES ASSUME NEW j \in 1 .. Len(u), u[j] = LineOf("key")
               PROVE  j > 1 /\ u[j - 1] = LineOf("header")
    BY DEF KeyInTable
  <2>1. KeyInTable(t)
    BY <1>8 DEF Neat
  <2>2. CASE j <= i
    <3>1. j \in 1 .. Len(t) /\ t[j] = LineOf("key")
      BY <1>1, <1>2, <2>2
    <3>2. j > 1 /\ t[j - 1] = LineOf("header")
      BY <2>1, <3>1 DEF KeyInTable
    <3>3. j - 1 \in 1 .. Len(t) /\ ~(j - 1 > i)
      BY <1>1, <2>2, <3>2
    <3> QED
      BY <1>3, <3>2, <3>3
  <2>3. CASE ~(j <= i)
    <3>1. j - 1 \in 1 .. Len(t) /\ t[j - 1] = LineOf("key") /\ j - 1 > i
      BY <1>1, <1>2, <1>4, <2>3
    <3>2. j - 1 > 1 /\ t[(j - 1) - 1] = LineOf("header")
      BY <2>1, <3>1 DEF KeyInTable
    <3>3. j - 2 \in 1 .. Len(t) /\ (j - 1) - 1 = j - 2 /\ (j - 2) + 1 = j - 1 /\ j > 1
      BY <1>1, <3>1, <3>2
    <3>4. j - 1 # i + 1
      BY <1>1, <1>8, <3>1
    <3>5. j - 2 > i
      BY <1>1, <3>1, <3>4
    <3> QED
      BY <1>1, <1>3, <3>2, <3>3, <3>5
  <2> QED
    BY <2>2, <2>3
<1> QED
  BY <1>5, <1>6, <1>7, <1>8 DEF Neat

LEMMA RemovedNeat ==
    ASSUME NEW file, NEW t \in Seq(TextLine), Neat(file, t),
           NEW i \in 1 .. Len(t), t[i].of # Ours,
           NEW u \in Seq(TextLine), Removed(u, t, i)
    PROVE  Neat(file, u)
<1>1. Len(t) \in Nat /\ i \in Nat /\ 1 <= i /\ i <= Len(t) /\ Len(u) = Len(t) - 1
  BY Sized DEF Removed
<1>2. ASSUME NEW j \in 1 .. Len(u)
      PROVE  \/ j < i /\ j \in 1 .. Len(t) /\ u[j] = t[j]
             \/ ~(j < i) /\ j + 1 > i /\ j + 1 \in 1 .. Len(t) /\ u[j] = t[j + 1]
  <2>1. CASE j < i
    <3>1. j \in 1 .. (i - 1) /\ j \in 1 .. Len(t)
      BY <1>1, <2>1
    <3> QED
      BY <2>1, <3>1 DEF Removed
  <2>2. CASE ~(j < i)
    <3>1. j + 1 \in (i + 1) .. Len(t) /\ j + 1 \in 1 .. Len(t) /\ (j + 1) - 1 = j /\ j + 1 > i
      BY <1>1, <2>2
    <3>2. u[(j + 1) - 1] = t[j + 1]
      BY <3>1 DEF Removed
    <3> QED
      BY <2>2, <3>1, <3>2
  <2> QED
    BY <2>1, <2>2
<1>3. \A j \in 1 .. Len(t) : j # i => \/ j < i /\ u[j] = t[j]
                                      \/ j > i /\ u[j - 1] = t[j]
  BY <1>1 DEF Removed
<1>4. \A kind : t[i] # LineOf(kind)
  BY Lined
<1>5. \A j \in 1 .. Len(u) : /\ u[j].of # Ours => u[j].kind \in OwnIn(file)
                             /\ u[j].of = Ours => u[j].kind \in OursIn(file)
  BY <1>2 DEF Neat
<1>6. OnlyOnce(u)
  <2> SUFFICES ASSUME NEW j \in 1 .. Len(u), NEW k \in 1 .. Len(u), j # k, u[j].of = Ours
               PROVE  u[j] # u[k]
    BY DEF OnlyOnce
  <2>1. \A a, b \in 1 .. Len(t) : a # b /\ t[a].of = Ours => t[a] # t[b]
    BY DEF Neat, OnlyOnce
  <2> DEFINE at(x) == IF x < i THEN x ELSE x + 1
  <2>2. at(j) \in 1 .. Len(t) /\ u[j] = t[at(j)] /\ at(k) \in 1 .. Len(t) /\ u[k] = t[at(k)]
    BY <1>1, <1>2
  <2>3. at(j) # at(k)
    BY <1>1
  <2> HIDE DEF at
  <2> QED
    BY <2>1, <2>2, <2>3
<1>7. ASSUME file = "agents"
      PROVE  BlockWhole(u)
  <2> SUFFICES ASSUME NEW j \in 1 .. Len(u)
               PROVE  /\ u[j] = LineOf("begin") =>
                            j + 2 <= Len(u) /\ u[j + 1] = LineOf("fact") /\ u[j + 2] = LineOf("end")
                      /\ u[j] = LineOf("fact") => j > 1 /\ u[j - 1] = LineOf("begin")
                      /\ u[j] = LineOf("end") => j > 2 /\ u[j - 2] = LineOf("begin")
    BY DEF BlockWhole
  <2>1. BlockWhole(t)
    BY <1>7 DEF Neat
  <2>2. ASSUME NEW a \in 1 .. Len(t), t[a] = LineOf("begin")
        PROVE  /\ a + 2 <= Len(t) /\ t[a + 1] = LineOf("fact") /\ t[a + 2] = LineOf("end")
               /\ a + 2 < i \/ a > i
    <3>1. a + 2 <= Len(t) /\ t[a + 1] = LineOf("fact") /\ t[a + 2] = LineOf("end")
      BY <2>1, <2>2 DEF BlockWhole
    <3>2. i # a /\ i # a + 1 /\ i # a + 2
      BY <1>4, <2>2, <3>1
    <3> QED
      BY <1>1, <3>1, <3>2
  <2>3. ASSUME u[j] = LineOf("begin")
        PROVE  j + 2 <= Len(u) /\ u[j + 1] = LineOf("fact") /\ u[j + 2] = LineOf("end")
    <3>1. CASE j < i
      <4>1. j \in 1 .. Len(t) /\ t[j] = LineOf("begin")
        BY <1>1, <1>2, <2>3, <3>1
      <4>2. j + 2 <= Len(t) /\ j + 2 < i /\ t[j + 1] = LineOf("fact") /\ t[j + 2] = LineOf("end")
        BY <2>2, <3>1, <4>1, <1>1
      <4>3. u[j + 1] = t[j + 1] /\ u[j + 2] = t[j + 2]
        <5>1. j + 1 \in 1 .. Len(t) /\ j + 2 \in 1 .. Len(t) /\ j + 1 < i
          BY <1>1, <4>2
        <5> QED
          BY <1>1, <1>3, <4>2, <5>1
      <4> QED
        BY <1>1, <4>2, <4>3
    <3>2. CASE ~(j < i)
      <4>1. j + 1 \in 1 .. Len(t) /\ t[j + 1] = LineOf("begin") /\ j + 1 > i
        BY <1>1, <1>2, <2>3, <3>2
      <4>2. (j + 1) + 2 <= Len(t) /\ t[(j + 1) + 1] = LineOf("fact") /\ t[(j + 1) + 2] = LineOf("end")
        BY <2>2, <4>1
      <4>3. j + 2 \in 1 .. Len(t) /\ j + 3 \in 1 .. Len(t) /\ (j + 1) + 1 = j + 2 /\ (j + 1) + 2 = j + 3
            /\ j + 2 <= Len(u) /\ (j + 2) - 1 = j + 1 /\ (j + 3) - 1 = j + 2
            /\ j + 2 # i /\ j + 3 # i /\ ~(j + 2 < i) /\ ~(j + 3 < i)
        BY <1>1, <3>2, <4>2
      <4>4. u[(j + 2) - 1] = t[j + 2] /\ u[(j + 3) - 1] = t[j + 3]
        BY <1>3, <4>3
      <4> QED
        BY <4>2, <4>3, <4>4
    <3> QED
      BY <3>1, <3>2
  <2>4. ASSUME u[j] = LineOf("fact")
        PROVE  j > 1 /\ u[j - 1] = LineOf("begin")
    <3>1. CASE j < i
      <4>1. j \in 1 .. Len(t) /\ t[j] = LineOf("fact")
        BY <1>1, <1>2, <2>4, <3>1
      <4>2. j > 1 /\ t[j - 1] = LineOf("begin")
        BY <2>1, <4>1 DEF BlockWhole
      <4>3. j - 1 \in 1 .. Len(t) /\ ~(j - 1 > i) /\ j - 1 # i
        BY <1>1, <3>1, <4>2
      <4> QED
        BY <1>3, <4>2, <4>3
    <3>2. CASE ~(j < i)
      <4>1. j + 1 \in 1 .. Len(t) /\ t[j + 1] = LineOf("fact") /\ j + 1 > i
        BY <1>1, <1>2, <2>4, <3>2
      <4>2. j + 1 > 1 /\ t[(j + 1) - 1] = LineOf("begin")
        BY <2>1, <4>1 DEF BlockWhole
      <4>3. j \in 1 .. Len(t) /\ (j + 1) - 1 = j
        BY <1>1, <3>2
      <4>4. j > i
        <5>1. j + 2 < i \/ j > i
          BY <2>2, <4>2, <4>3
        <5> QED
          BY <1>1, <3>2, <5>1
      <4>5. u[j - 1] = t[j]
        <5>1. ~(j < i) /\ j # i
          BY <1>1, <4>3, <4>4
        <5> QED
          BY <1>3, <4>3, <5>1
      <4> QED
        BY <1>1, <4>2, <4>3, <4>4, <4>5
    <3> QED
      BY <3>1, <3>2
  <2>5. ASSUME u[j] = LineOf("end")
        PROVE  j > 2 /\ u[j - 2] = LineOf("begin")
    <3>1. CASE j < i
      <4>1. j \in 1 .. Len(t) /\ t[j] = LineOf("end")
        BY <1>1, <1>2, <2>5, <3>1
      <4>2. j > 2 /\ t[j - 2] = LineOf("begin")
        BY <2>1, <4>1 DEF BlockWhole
      <4>3. j - 2 \in 1 .. Len(t) /\ ~(j - 2 > i) /\ j - 2 # i
        BY <1>1, <3>1, <4>2
      <4> QED
        BY <1>3, <4>2, <4>3
    <3>2. CASE ~(j < i)
      <4>1. j + 1 \in 1 .. Len(t) /\ t[j + 1] = LineOf("end") /\ j + 1 > i
        BY <1>1, <1>2, <2>5, <3>2
      <4>2. j + 1 > 2 /\ t[(j + 1) - 2] = LineOf("begin")
        BY <2>1, <4>1 DEF BlockWhole
      <4>3. j - 1 \in 1 .. Len(t) /\ (j + 1) - 2 = j - 1 /\ (j - 1) + 2 = j + 1
        BY <1>1, <4>1, <4>2
      <4>4. j - 1 > i
        <5>1. (j - 1) + 2 < i \/ j - 1 > i
          BY <2>2, <4>2, <4>3
        <5> QED
          BY <1>1, <3>2, <5>1
      <4>5. u[(j - 1) - 1] = t[j - 1]
        <5>1. ~(j - 1 < i) /\ j - 1 # i
          BY <1>1, <4>3, <4>4
        <5> QED
          BY <1>3, <4>3, <5>1
      <4>6. j > 2 /\ (j - 1) - 1 = j - 2
        BY <1>1, <4>3, <4>4
      <4> QED
        BY <4>2, <4>3, <4>5, <4>6
    <3> QED
      BY <3>1, <3>2
  <2> QED
    BY <2>3, <2>4, <2>5
<1>8. ASSUME file = "config"
      PROVE  KeyInTable(u)
  <2> SUFFICES ASSUME NEW j \in 1 .. Len(u), u[j] = LineOf("key")
               PROVE  j > 1 /\ u[j - 1] = LineOf("header")
    BY DEF KeyInTable
  <2>1. KeyInTable(t)
    BY <1>8 DEF Neat
  <2>2. CASE j < i
    <3>1. j \in 1 .. Len(t) /\ t[j] = LineOf("key")
      BY <1>1, <1>2, <2>2
    <3>2. j > 1 /\ t[j - 1] = LineOf("header")
      BY <2>1, <3>1 DEF KeyInTable
    <3>3. j - 1 \in 1 .. Len(t) /\ ~(j - 1 > i) /\ j - 1 # i
      BY <1>1, <2>2, <3>2
    <3> QED
      BY <1>3, <3>2, <3>3
  <2>3. CASE ~(j < i)
    <3>1. j + 1 \in 1 .. Len(t) /\ t[j + 1] = LineOf("key") /\ j + 1 > i
      BY <1>1, <1>2, <2>3
    <3>2. j + 1 > 1 /\ t[(j + 1) - 1] = LineOf("header")
      BY <2>1, <3>1 DEF KeyInTable
    <3>3. j \in 1 .. Len(t) /\ (j + 1) - 1 = j
      BY <1>1, <2>3
    <3>4. i # j
      BY <1>4, <3>2, <3>3
    <3>5. u[j - 1] = t[j]
      <4>1. ~(j < i) /\ j # i
        BY <2>3, <3>4
      <4> QED
        BY <1>3, <3>3, <4>1
    <3> QED
      BY <1>1, <2>3, <3>2, <3>3, <3>4, <3>5
  <2> QED
    BY <2>2, <2>3
<1> QED
  BY <1>5, <1>6, <1>7, <1>8 DEF Neat

LEMMA JoinedNeat ==
    ASSUME NEW file, NEW t \in Seq(TextLine), Neat(file, t), NEW v \in Seq(TextLine), Neat(file, v),
           \A i \in 1 .. Len(t), j \in 1 .. Len(v) : t[i].of = Ours => t[i] # v[j],
           NEW u \in Seq(TextLine), Joined(u, t, v)
    PROVE  Neat(file, u)
<1>1. Len(t) \in Nat /\ Len(v) \in Nat /\ Len(u) = Len(t) + Len(v)
  BY Sized DEF Joined
<1>2. ASSUME NEW j \in 1 .. Len(u)
      PROVE  \/ j \in 1 .. Len(t) /\ u[j] = t[j]
             \/ j > Len(t) /\ j - Len(t) \in 1 .. Len(v) /\ u[j] = v[j - Len(t)]
  <2>1. CASE j <= Len(t)
    <3>1. j \in 1 .. Len(t)
      BY <1>1, <2>1
    <3> QED
      BY <3>1 DEF Joined
  <2>2. CASE ~(j <= Len(t))
    <3>1. j > Len(t) /\ j - Len(t) \in 1 .. Len(v) /\ Len(t) + (j - Len(t)) = j
      BY <1>1, <2>2
    <3>2. u[Len(t) + (j - Len(t))] = v[j - Len(t)]
      BY <3>1 DEF Joined
    <3> QED
      BY <3>1, <3>2
  <2> QED
    BY <2>1, <2>2
<1>3. (\A j \in 1 .. Len(t) : u[j] = t[j]) /\ \A j \in 1 .. Len(v) : u[Len(t) + j] = v[j]
  BY DEF Joined
<1>4. \A j \in 1 .. Len(u) : /\ u[j].of # Ours => u[j].kind \in OwnIn(file)
                             /\ u[j].of = Ours => u[j].kind \in OursIn(file)
  BY <1>2 DEF Neat
<1>5. OnlyOnce(u)
  <2> SUFFICES ASSUME NEW j \in 1 .. Len(u), NEW k \in 1 .. Len(u), j # k, u[j].of = Ours, u[j] = u[k]
               PROVE  FALSE
    BY DEF OnlyOnce
  <2>1. /\ \A a, b \in 1 .. Len(t) : a # b /\ t[a].of = Ours => t[a] # t[b]
        /\ \A a, b \in 1 .. Len(v) : a # b /\ v[a].of = Ours => v[a] # v[b]
    BY DEF Neat, OnlyOnce
  <2>2. CASE j \in 1 .. Len(t) /\ k \in 1 .. Len(t)
    BY <1>3, <2>1, <2>2
  <2>3. CASE ~(j \in 1 .. Len(t)) /\ ~(k \in 1 .. Len(t))
    <3>1. /\ j - Len(t) \in 1 .. Len(v) /\ u[j] = v[j - Len(t)]
          /\ k - Len(t) \in 1 .. Len(v) /\ u[k] = v[k - Len(t)]
      BY <1>2, <2>3
    <3>2. j - Len(t) # k - Len(t)
      BY <1>1
    <3> QED
      BY <2>1, <3>1, <3>2
  <2>4. CASE j \in 1 .. Len(t) /\ ~(k \in 1 .. Len(t))
    <3>1. k - Len(t) \in 1 .. Len(v) /\ u[k] = v[k - Len(t)] /\ u[j] = t[j]
      BY <1>2, <1>3, <2>4
    <3> QED
      BY <2>4, <3>1
  <2>5. CASE ~(j \in 1 .. Len(t)) /\ k \in 1 .. Len(t)
    <3>1. j - Len(t) \in 1 .. Len(v) /\ u[j] = v[j - Len(t)] /\ u[k] = t[k]
      BY <1>2, <1>3, <2>5
    <3> QED
      BY <2>5, <3>1
  <2> QED
    BY <2>2, <2>3, <2>4, <2>5
<1>6. ASSUME file = "agents"
      PROVE  BlockWhole(u)
  <2> SUFFICES ASSUME NEW j \in 1 .. Len(u)
               PROVE  /\ u[j] = LineOf("begin") =>
                            j + 2 <= Len(u) /\ u[j + 1] = LineOf("fact") /\ u[j + 2] = LineOf("end")
                      /\ u[j] = LineOf("fact") => j > 1 /\ u[j - 1] = LineOf("begin")
                      /\ u[j] = LineOf("end") => j > 2 /\ u[j - 2] = LineOf("begin")
    BY DEF BlockWhole
  <2>1. BlockWhole(t) /\ BlockWhole(v)
    BY <1>6 DEF Neat
  <2>2. CASE j \in 1 .. Len(t)
    <3>1. u[j] = t[j]
      BY <1>3, <2>2
    <3>2. ASSUME t[j] = LineOf("begin")
          PROVE  j + 2 <= Len(u) /\ u[j + 1] = LineOf("fact") /\ u[j + 2] = LineOf("end")
      <4>1. j + 2 <= Len(t) /\ t[j + 1] = LineOf("fact") /\ t[j + 2] = LineOf("end")
        BY <2>1, <2>2, <3>2 DEF BlockWhole
      <4>2. j + 1 \in 1 .. Len(t) /\ j + 2 \in 1 .. Len(t) /\ j + 2 <= Len(u)
        BY <1>1, <4>1
      <4> QED
        BY <1>3, <4>1, <4>2
    <3>3. ASSUME t[j] = LineOf("fact")
          PROVE  j > 1 /\ u[j - 1] = LineOf("begin")
      <4>1. j > 1 /\ t[j - 1] = LineOf("begin")
        BY <2>1, <2>2, <3>3 DEF BlockWhole
      <4>2. j - 1 \in 1 .. Len(t)
        BY <1>1, <2>2, <4>1
      <4> QED
        BY <1>3, <4>1, <4>2
    <3>4. ASSUME t[j] = LineOf("end")
          PROVE  j > 2 /\ u[j - 2] = LineOf("begin")
      <4>1. j > 2 /\ t[j - 2] = LineOf("begin")
        BY <2>1, <2>2, <3>4 DEF BlockWhole
      <4>2. j - 2 \in 1 .. Len(t)
        BY <1>1, <2>2, <4>1
      <4> QED
        BY <1>3, <4>1, <4>2
    <3> QED
      BY <3>1, <3>2, <3>3, <3>4
  <2>3. CASE ~(j \in 1 .. Len(t))
    <3> DEFINE n == Len(t)
               m == j - Len(t)
    <3>1. m \in 1 .. Len(v) /\ u[j] = v[m] /\ j = n + m /\ n \in Nat
      BY <1>1, <1>2, <2>3
    <3> HIDE DEF m
    <3>2. \A x \in 1 .. Len(v) : u[n + x] = v[x]
      BY <1>3
    <3> HIDE DEF n
    <3>3. ASSUME v[m] = LineOf("begin")
          PROVE  j + 2 <= Len(u) /\ u[j + 1] = LineOf("fact") /\ u[j + 2] = LineOf("end")
      <4>1. m + 2 <= Len(v) /\ v[m + 1] = LineOf("fact") /\ v[m + 2] = LineOf("end")
        BY <2>1, <3>1, <3>3 DEF BlockWhole
      <4>2. /\ m + 1 \in 1 .. Len(v) /\ m + 2 \in 1 .. Len(v)
            /\ n + (m + 1) = j + 1 /\ n + (m + 2) = j + 2
        BY <1>1, <3>1, <4>1
      <4>3. j + 2 <= Len(u)
        BY <1>1, <3>1, <4>1 DEF n
      <4>4. u[n + (m + 1)] = v[m + 1] /\ u[n + (m + 2)] = v[m + 2]
        BY <3>2, <4>2
      <4> QED
        BY <4>1, <4>2, <4>3, <4>4
    <3>4. ASSUME v[m] = LineOf("fact")
          PROVE  j > 1 /\ u[j - 1] = LineOf("begin")
      <4>1. m > 1 /\ v[m - 1] = LineOf("begin")
        BY <2>1, <3>1, <3>4 DEF BlockWhole
      <4>2. m - 1 \in 1 .. Len(v) /\ n + (m - 1) = j - 1 /\ j > 1
        BY <1>1, <3>1, <4>1
      <4>3. u[n + (m - 1)] = v[m - 1]
        BY <3>2, <4>2
      <4> QED
        BY <4>1, <4>2, <4>3
    <3>5. ASSUME v[m] = LineOf("end")
          PROVE  j > 2 /\ u[j - 2] = LineOf("begin")
      <4>1. m > 2 /\ v[m - 2] = LineOf("begin")
        BY <2>1, <3>1, <3>5 DEF BlockWhole
      <4>2. m - 2 \in 1 .. Len(v) /\ n + (m - 2) = j - 2 /\ j > 2
        BY <1>1, <3>1, <4>1
      <4>3. u[n + (m - 2)] = v[m - 2]
        BY <3>2, <4>2
      <4> QED
        BY <4>1, <4>2, <4>3
    <3> QED
      BY <3>1, <3>3, <3>4, <3>5
  <2> QED
    BY <2>2, <2>3
<1>7. ASSUME file = "config"
      PROVE  KeyInTable(u)
  <2> SUFFICES ASSUME NEW j \in 1 .. Len(u), u[j] = LineOf("key")
               PROVE  j > 1 /\ u[j - 1] = LineOf("header")
    BY DEF KeyInTable
  <2>1. KeyInTable(t) /\ KeyInTable(v)
    BY <1>7 DEF Neat
  <2>2. CASE j \in 1 .. Len(t)
    <3>1. j > 1 /\ t[j - 1] = LineOf("header")
      BY <1>3, <2>1, <2>2 DEF KeyInTable
    <3>2. j - 1 \in 1 .. Len(t)
      BY <1>1, <2>2, <3>1
    <3> QED
      BY <1>3, <3>1, <3>2
  <2>3. CASE ~(j \in 1 .. Len(t))
    <3> DEFINE n == Len(t)
               m == j - Len(t)
    <3>1. m \in 1 .. Len(v) /\ u[j] = v[m] /\ j = n + m /\ n \in Nat
      BY <1>1, <1>2, <2>3
    <3> HIDE DEF m
    <3>2. \A x \in 1 .. Len(v) : u[n + x] = v[x]
      BY <1>3
    <3> HIDE DEF n
    <3>3. m > 1 /\ v[m - 1] = LineOf("header")
      BY <2>1, <3>1 DEF KeyInTable
    <3>4. m - 1 \in 1 .. Len(v) /\ n + (m - 1) = j - 1 /\ j > 1
      BY <1>1, <3>1, <3>3
    <3>5. u[n + (m - 1)] = v[m - 1]
      BY <3>2, <3>4
    <3> QED
      BY <3>3, <3>4, <3>5
  <2> QED
    BY <2>2, <2>3
<1> QED
  BY <1>4, <1>5, <1>6, <1>7 DEF Neat

-----------------------------------------------------------------------------
(* What each edit does to a text. *)

Kept(file, t, u) ==
    /\ u \in Seq(TextLine)
    /\ Neat(file, t) => Neat(file, u) /\ OwnLines(t) \subseteq OwnLines(u)

LEMMA KeptSame ==
    ASSUME NEW file, NEW t \in Seq(TextLine)
    PROVE  Kept(file, t, t)
BY DEF Kept

LEMMA KeptJoined ==
    ASSUME NEW file, NEW t \in Seq(TextLine), NEW v \in Seq(TextLine),
           Neat(file, t) => /\ Neat(file, v)
                            /\ \A i \in 1 .. Len(t), j \in 1 .. Len(v) : t[i].of = Ours => t[i] # v[j]
    PROVE  Kept(file, t, t \o v)
<1> DEFINE u == t \o v
<1>1. u \in Seq(TextLine) /\ Joined(u, t, v)
  BY Joining
<1>2. Len(t) \in Nat /\ Len(v) \in Nat
  BY Sized
<1> HIDE DEF u
<1>3. Neat(file, t) => Neat(file, u)
  BY <1>1, JoinedNeat
<1>4. \A i \in 1 .. Len(t) : i \in 1 .. Len(u) /\ u[i] = t[i]
  BY <1>1, <1>2 DEF Joined
<1>5. OwnLines(t) \subseteq OwnLines(u)
  BY <1>1, <1>4, OwnLinesAre
<1> QED
  BY <1>1, <1>3, <1>5 DEF Kept, u

(* Nothing of `mem` is left, and all that others wrote. *)
LEMMA KeptTaken ==
    ASSUME NEW file, NEW t \in Seq(TextLine), NEW S, S \subseteq DOMAIN t,
           Neat(file, t) => \A i \in 1 .. Len(t) : i \in S <=> t[i].of # Ours
    PROVE  Kept(file, t, LinesAt(t, S))
<1> DEFINE u == LinesAt(t, S)
<1>1. /\ u \in Seq(TextLine)
      /\ \A n \in DOMAIN u : \E i \in S : u[n] = t[i]
      /\ \A i \in S : \E n \in DOMAIN u : u[n] = t[i]
  BY Taking
<1> HIDE DEF u
<1>2. DOMAIN u = 1 .. Len(u) /\ DOMAIN t = 1 .. Len(t)
  BY <1>1, Sized
<1>3. ASSUME Neat(file, t)
      PROVE  Neat(file, u) /\ OwnLines(t) \subseteq OwnLines(u)
  <2>1. \A n \in 1 .. Len(u) : u[n].of # Ours /\ u[n].kind \in OwnIn(file)
    BY <1>1, <1>2, <1>3 DEF Neat
  <2>2. \A i \in 1 .. Len(t) : t[i].of \in OwnLine => i \in S
    BY <1>3, FilesAssumption
  <2>3. \A w : w \in OwnLines(t) => w \in OwnLines(u)
    BY <1>1, <1>2, <2>2, OwnLinesAre
  <2> QED
    BY <1>1, <2>1, <2>3, NeatNone
<1> QED
  BY <1>1, <1>3 DEF Kept, u

LEMMA TheBlock ==
    /\ Block \in Seq(TextLine) /\ Len(Block) = 3
    /\ Block[1] = LineOf("begin") /\ Block[2] = LineOf("fact") /\ Block[3] = LineOf("end")
    /\ Neat("agents", Block)
<1>1. LineOf("begin") \in TextLine /\ LineOf("fact") \in TextLine /\ LineOf("end") \in TextLine
  BY Lined DEF OtherKinds
<1>2. /\ Block \in Seq(TextLine) /\ Len(Block) = 3
      /\ Block[1] = LineOf("begin") /\ Block[2] = LineOf("fact") /\ Block[3] = LineOf("end")
  BY <1>1 DEF Block
<1>3. /\ LineOf("begin") # LineOf("fact") /\ LineOf("begin") # LineOf("end")
      /\ LineOf("fact") # LineOf("end")
      /\ \A kind : LineOf(kind).of = Ours /\ LineOf(kind).kind = kind
  BY Lined
<1> HIDE DEF Block
<1>4. \A i \in 1 .. Len(Block) : i = 1 \/ i = 2 \/ i = 3
  BY <1>2
<1>5. OnlyOnce(Block)
  BY <1>2, <1>3, <1>4 DEF OnlyOnce
<1>6. BlockWhole(Block)
  <2> SUFFICES ASSUME NEW i \in 1 .. Len(Block)
               PROVE  /\ Block[i] = LineOf("begin") =>
                            i + 2 <= Len(Block) /\ Block[i + 1] = LineOf("fact") /\ Block[i + 2] = LineOf("end")
                      /\ Block[i] = LineOf("fact") => i > 1 /\ Block[i - 1] = LineOf("begin")
                      /\ Block[i] = LineOf("end") => i > 2 /\ Block[i - 2] = LineOf("begin")
    BY DEF BlockWhole
  <2>1. CASE i = 1
    BY <1>2, <1>3, <2>1
  <2>2. CASE i = 2
    BY <1>2, <1>3, <2>2
  <2>3. CASE i = 3
    BY <1>2, <1>3, <2>3
  <2> QED
    BY <1>4, <2>1, <2>2, <2>3
<1>7. \A i \in 1 .. Len(Block) : Block[i].of = Ours /\ Block[i].kind \in OursIn("agents")
  BY <1>2, <1>3, <1>4 DEF OursIn
<1> QED
  BY <1>2, <1>5, <1>6, <1>7 DEF Neat

(* In a neat text the block is taken out and put back. *)
LEMMA Splicing ==
    ASSUME NEW t \in Seq(TextLine)
    PROVE  Kept("agents", t, Splice(t))
<1> DEFINE b == PlaceOfFirst(t, "begin")
           e == PlaceOfFirst(t, "end")
<1>1. Len(t) \in Nat /\ DOMAIN t = 1 .. Len(t)
  BY Sized
<1>2. CASE Has(t, "begin") /\ Has(t, "end") /\ e > b
  <2> DEFINE a == SubSeq(t, 1, b - 1)
             c == SubSeq(t, e + 1, Len(t))
             u == (a \o Block) \o c
  <2>1. /\ b \in 1 .. Len(t) /\ t[b] = LineOf("begin")
        /\ e \in 1 .. Len(t) /\ t[e] = LineOf("end")
    BY <1>1, <1>2, FirstPlace
  <2> HIDE DEF b, e
  <2>2. /\ a \in Seq(TextLine) /\ Len(a) = b - 1
        /\ \A j \in 1 .. (b - 1) : a[j] = t[j]
    <3>1. 1 \in 1 .. Len(t) + 1 /\ b - 1 \in 0 .. Len(t)
      BY <1>1, <2>1
    <3>2. /\ a \in Seq(TextLine) /\ Len(a) = (IF 1 <= b - 1 THEN (b - 1) - 1 + 1 ELSE 0)
          /\ \A j \in 1 .. ((b - 1) - 1 + 1) : a[j] = t[1 + j - 1]
      BY <3>1, Cutting
    <3> HIDE DEF a
    <3>3. Len(a) = b - 1
      BY <1>1, <2>1, <3>2
    <3>4. ASSUME NEW j \in 1 .. (b - 1)
          PROVE  a[j] = t[j]
      <4>1. j \in 1 .. ((b - 1) - 1 + 1) /\ 1 + j - 1 = j
        BY <2>1
      <4> QED
        BY <3>2, <4>1
    <3> QED
      BY <3>2, <3>3, <3>4
  <2>3. /\ c \in Seq(TextLine) /\ Len(c) = Len(t) - e
        /\ \A j \in 1 .. (Len(t) - e) : c[j] = t[e + j]
    <3>1. e + 1 \in 1 .. Len(t) + 1 /\ Len(t) \in 0 .. Len(t)
      BY <1>1, <2>1
    <3>2. /\ c \in Seq(TextLine) /\ Len(c) = (IF e + 1 <= Len(t) THEN Len(t) - (e + 1) + 1 ELSE 0)
          /\ \A j \in 1 .. (Len(t) - (e + 1) + 1) : c[j] = t[(e + 1) + j - 1]
      BY <3>1, Cutting
    <3> HIDE DEF c
    <3>3. Len(c) = Len(t) - e
      <4>1. e \in Nat /\ e <= Len(t) /\ Len(t) \in Nat
        BY <1>1, <2>1
      <4>2. Len(c) = IF e + 1 <= Len(t) THEN Len(t) - (e + 1) + 1 ELSE 0
        BY <3>2
      <4> QED
        BY <4>1, <4>2
    <3>4. ASSUME NEW j \in 1 .. (Len(t) - e)
          PROVE  c[j] = t[e + j]
      <4>1. j \in 1 .. (Len(t) - (e + 1) + 1) /\ (e + 1) + j - 1 = e + j
        BY <1>1, <2>1
      <4> QED
        BY <3>2, <4>1
    <3> QED
      BY <3>2, <3>3, <3>4
  <2> HIDE DEF a, c
  <2>4. a \o Block \in Seq(TextLine) /\ Joined(a \o Block, a, Block)
    BY <2>2, TheBlock, Joining
  <2>5. u \in Seq(TextLine) /\ Joined(u, a \o Block, c)
    BY <2>3, <2>4, Joining
  <2>6. Splice(t) = u
    BY <1>2 DEF Splice, u, a, c, b, e
  <2> DEFINE d == a \o Block
  <2> HIDE DEF d, u
  <2>7. /\ Len(d) = b + 2
        /\ \A j \in 1 .. (b - 1) : d[j] = t[j]
        /\ d[b] = LineOf("begin") /\ d[b + 1] = LineOf("fact") /\ d[b + 2] = LineOf("end")
    <3>1. Len(d) = Len(a) + Len(Block) /\ \A j \in 1 .. Len(a) : d[j] = a[j]
      BY <2>4 DEF d, Joined
    <3>2. \A j \in 1 .. Len(Block) : d[Len(a) + j] = Block[j]
      BY <2>4 DEF d, Joined
    <3>3. d[Len(a) + 1] = LineOf("begin") /\ d[Len(a) + 2] = LineOf("fact") /\ d[Len(a) + 3] = LineOf("end")
      BY <3>2, TheBlock
    <3>4. Len(a) + 1 = b /\ Len(a) + 2 = b + 1 /\ Len(a) + 3 = b + 2
      BY <2>1, <2>2
    <3>5. Len(d) = b + 2
      BY <2>1, <2>2, <3>1, TheBlock
    <3>6. \A j \in 1 .. (b - 1) : d[j] = t[j]
      BY <2>2, <3>1
    <3> QED
      BY <3>3, <3>4, <3>5, <3>6
  <2>8. ASSUME Neat("agents", t)
        PROVE  u = t
    <3>1. /\ b + 2 <= Len(t) /\ t[b + 1] = LineOf("fact") /\ t[b + 2] = LineOf("end")
      BY <2>1, <2>8 DEF Neat, BlockWhole
    <3>2. e = b + 2
      <4>1. b + 2 \in 1 .. Len(t) /\ t[b + 2] = t[e] /\ t[e].of = Ours
        BY <1>1, <2>1, <3>1, Lined
      <4> QED
        BY <2>1, <2>8, <4>1 DEF Neat, OnlyOnce
    <3>3. Len(u) = Len(t)
      <4>1. Len(u) = Len(d) + Len(c)
        BY <2>5 DEF d, Joined
      <4> QED
        BY <1>1, <2>1, <2>3, <2>7, <3>2, <4>1
    <3>4. ASSUME NEW j \in 1 .. Len(t)
          PROVE  u[j] = t[j]
      <4>1. (\A k \in 1 .. Len(d) : u[k] = d[k]) /\ \A k \in 1 .. Len(c) : u[Len(d) + k] = c[k]
        BY <2>5 DEF d, Joined
      <4>2. CASE j < b
        <5>1. j \in 1 .. Len(d) /\ j \in 1 .. (b - 1)
          BY <1>1, <2>1, <2>7, <4>2
        <5> QED
          BY <2>7, <4>1, <5>1
      <4>3. CASE j \in {b, b + 1, b + 2}
        <5>1. j \in 1 .. Len(d)
          BY <1>1, <2>1, <2>7, <4>3
        <5> QED
          BY <2>1, <2>7, <3>1, <4>1, <4>3, <5>1
      <4>4. CASE j > b + 2
        <5>1. j - e \in 1 .. (Len(t) - e) /\ e + (j - e) = j /\ Len(d) + (j - e) = j
          BY <1>1, <2>1, <2>7, <3>2, <4>4
        <5>2. u[Len(d) + (j - e)] = c[j - e] /\ c[j - e] = t[e + (j - e)]
          BY <2>3, <4>1, <5>1
        <5> QED
          BY <5>1, <5>2
      <4> QED
        BY <1>1, <2>1, <4>2, <4>3, <4>4
    <3> QED
      BY <2>5, <3>3, <3>4, SeqEqual
  <2> QED
    BY <2>5, <2>6, <2>8 DEF Kept
<1>3. CASE ~(Has(t, "begin") /\ Has(t, "end") /\ e > b)
  <2>1. Splice(t) = t \o Block
    BY <1>3 DEF Splice
  <2>2. ASSUME Neat("agents", t), NEW i \in 1 .. Len(t), t[i].of = Ours
        PROVE  FALSE
    <3>1. BlockWhole(t) /\ OnlyOnce(t) /\ t[i].kind \in OursIn("agents") /\ t[i] \in TextLine
      BY <2>2, Sized DEF Neat
    <3>2. t[i] \in {LineOf("begin"), LineOf("fact"), LineOf("end")}
      BY <2>2, <3>1, Lined DEF OursIn
    <3>3. PICK k \in 1 .. Len(t) : t[k] = LineOf("begin")
      <4>1. CASE t[i] = LineOf("fact")
        <5>1. i > 1 /\ t[i - 1] = LineOf("begin")
          BY <3>1, <4>1 DEF BlockWhole
        <5> QED
          BY <1>1, <5>1
      <4>2. CASE t[i] = LineOf("end")
        <5>1. i > 2 /\ t[i - 2] = LineOf("begin")
          BY <3>1, <4>2 DEF BlockWhole
        <5> QED
          BY <1>1, <5>1
      <4> QED
        BY <3>2, <4>1, <4>2
    <3>4. k + 2 <= Len(t) /\ t[k + 2] = LineOf("end")
      BY <3>1, <3>3 DEF BlockWhole
    <3>5. k + 2 \in 1 .. Len(t)
      BY <1>1, <3>4
    <3>6. Has(t, "begin") /\ Has(t, "end")
      BY <1>1, <3>3, <3>4, <3>5 DEF Has, ToSet
    <3>7. /\ b \in 1 .. Len(t) /\ t[b] = LineOf("begin")
          /\ e \in 1 .. Len(t) /\ t[e] = LineOf("end")
      BY <1>1, <3>6, FirstPlace
    <3> HIDE DEF b, e
    <3>8. b = k /\ e = k + 2
      <4>1. t[b].of = Ours /\ t[e].of = Ours
        BY <3>7, Lined
      <4>2. b = k
        BY <3>1, <3>3, <3>7, <4>1 DEF OnlyOnce
      <4>3. e = k + 2
        BY <3>1, <3>4, <3>5, <3>7, <4>1 DEF OnlyOnce
      <4> QED
        BY <4>2, <4>3
    <3> QED
      BY <1>1, <1>3, <3>6, <3>8
  <2>3. Neat("agents", t) => \A i \in 1 .. Len(t), j \in 1 .. Len(Block) : t[i].of = Ours => t[i] # Block[j]
    BY <2>2
  <2> QED
    BY <2>1, <2>3, TheBlock, KeptJoined
<1> QED
  BY <1>2, <1>3

LEMMA HasIs ==
    ASSUME NEW t \in Seq(TextLine), NEW kind
    PROVE  Has(t, kind) <=> \E i \in 1 .. Len(t) : t[i] = LineOf(kind)
<1>1. DOMAIN t = 1 .. Len(t)
  BY Sized
<1> QED
  BY <1>1 DEF Has, ToSet

LEMMA TableAdding ==
    ASSUME NEW t \in Seq(TextLine)
    PROVE  Kept("config", t, AddTable(t))
<1> DEFINE v == <<LineOf("header"), LineOf("key")>>
<1>1. LineOf("header") \in TextLine /\ LineOf("key") \in TextLine
  BY Lined DEF OtherKinds
<1>2. /\ v \in Seq(TextLine) /\ Len(v) = 2 /\ v[1] = LineOf("header") /\ v[2] = LineOf("key")
  BY <1>1
<1> HIDE DEF v
<1>3. /\ LineOf("header") # LineOf("key")
      /\ \A kind : LineOf(kind).of = Ours /\ LineOf(kind).kind = kind
  BY Lined
<1>4. \A j \in 1 .. Len(v) : j = 1 \/ j = 2
  BY <1>2
<1>5. Neat("config", v)
  <2>1. OnlyOnce(v)
    BY <1>2, <1>3, <1>4 DEF OnlyOnce
  <2>2. KeyInTable(v)
    BY <1>2, <1>3, <1>4 DEF KeyInTable
  <2>3. \A j \in 1 .. Len(v) : v[j].of = Ours /\ v[j].kind \in OursIn("config")
    BY <1>2, <1>3, <1>4 DEF OursIn
  <2> QED
    BY <2>1, <2>2, <2>3 DEF Neat
<1>6. CASE Has(t, "header")
  BY <1>6, KeptSame DEF AddTable
<1>7. CASE ~Has(t, "header")
  <2>1. \A i \in 1 .. Len(t) : t[i] # LineOf("header")
    BY <1>7, HasIs
  <2>2. ASSUME Neat("config", t), NEW i \in 1 .. Len(t)
        PROVE  t[i] # LineOf("key")
    <3> SUFFICES ASSUME t[i] = LineOf("key")
                 PROVE  FALSE
      OBVIOUS
    <3>1. i > 1 /\ t[i - 1] = LineOf("header") /\ Len(t) \in Nat
      BY <2>2, Sized DEF Neat, KeyInTable
    <3>2. i - 1 \in 1 .. Len(t)
      BY <3>1
    <3> QED
      BY <2>1, <3>1, <3>2
  <2>3. Neat("config", t) => \A i \in 1 .. Len(t), j \in 1 .. Len(v) : t[i].of = Ours => t[i] # v[j]
    BY <1>2, <1>4, <2>1, <2>2
  <2>4. AddTable(t) = t \o v
    BY <1>7 DEF AddTable, v
  <2> QED
    BY <1>2, <1>5, <2>3, <2>4, KeptJoined
<1> QED
  BY <1>6, <1>7

LEMMA TableRemoving ==
    ASSUME NEW t \in Seq(TextLine)
    PROVE  Kept("config", t, RemoveTable(t))
<1> DEFINE Opens(i) == \E k \in 1 .. i : /\ t[k].kind \in {"header", "sub"}
                                         /\ \A j \in (k + 1) .. i : t[j].kind # "table"
           S == {i \in DOMAIN t : ~Opens(i)}
<1>1. Len(t) \in Nat /\ DOMAIN t = 1 .. Len(t) /\ \A i \in 1 .. Len(t) : t[i] \in TextLine
  BY Sized
<1>2. CASE ~Has(t, "header")
  BY <1>2, KeptSame DEF RemoveTable
<1>3. CASE Has(t, "header")
  <2>1. RemoveTable(t) = LinesAt(t, S)
    BY <1>3 DEF RemoveTable
  <2>2. ASSUME Neat("config", t), NEW i \in 1 .. Len(t)
        PROVE  Opens(i) <=> t[i].of = Ours
    <3>1. CASE t[i].of # Ours
      <4>1. t[i].kind = "table"
        BY <2>2, <3>1 DEF Neat, OwnIn
      <4>2. ASSUME NEW k \in 1 .. i, t[k].kind \in {"header", "sub"},
                   \A j \in (k + 1) .. i : t[j].kind # "table"
            PROVE  FALSE
        <5>1. k # i
          BY <4>1, <4>2
        <5>2. i \in (k + 1) .. i
          BY <1>1, <5>1
        <5> QED
          BY <4>1, <4>2, <5>2
      <4> QED
        BY <3>1, <4>2
    <3>2. CASE t[i].of = Ours
      <4>1. t[i].kind \in {"header", "key", "sub"} /\ t[i] = LineOf(t[i].kind)
        BY <1>1, <2>2, <3>2, Lined DEF Neat, OursIn
      <4>2. CASE t[i].kind \in {"header", "sub"}
        <5>1. i \in 1 .. i /\ ~(\E j : j \in (i + 1) .. i)
          BY <1>1
        <5> QED
          BY <3>2, <4>2, <5>1
      <4>3. CASE t[i].kind = "key"
        <5>1. i > 1 /\ t[i - 1] = LineOf("header")
          BY <2>2, <4>1, <4>3 DEF Neat, KeyInTable
        <5>2. i - 1 \in 1 .. i /\ t[i - 1].kind = "header"
          BY <1>1, <5>1, Lined
        <5>3. \A j \in ((i - 1) + 1) .. i : j = i
          BY <1>1
        <5>4. \A j \in ((i - 1) + 1) .. i : t[j].kind # "table"
          BY <4>3, <5>3
        <5> QED
          BY <3>2, <5>2, <5>4
      <4> QED
        BY <4>1, <4>2, <4>3
    <3> QED
      BY <3>1, <3>2
  <2>3. Neat("config", t) => \A i \in 1 .. Len(t) : i \in S <=> t[i].of # Ours
    <3> HIDE DEF Opens
    <3> QED
      BY <1>1, <2>2
  <2>4. S \subseteq DOMAIN t
    OBVIOUS
  <2> HIDE DEF S
  <2> QED
    BY <2>1, <2>3, <2>4, KeptTaken
<1> QED
  BY <1>2, <1>3

LEMMA HooksAdding ==
    ASSUME NEW t \in Seq(TextLine)
    PROVE  Kept("settings", t, AddHooks(t))
<1> DEFINE M == {h \in HookEvents : ~Has(t, h)}
           G == {LineOf(event) : event \in M}
           v == SetToSeq(G)
<1>1. IsFiniteSet(G) /\ G \subseteq TextLine
  <2>1. IsFiniteSet(M)
    BY FilesAssumption, FS_Subset
  <2>2. IsFiniteSet(G)
    <3> DEFINE f == [event \in M |-> LineOf(event)]
    <3>1. f \in Surjection(M, G)
      <4>1. f \in [M -> G] /\ \A g \in G : \E event \in M : f[event] = g
        OBVIOUS
      <4> HIDE DEF f, M, G
      <4> QED
        BY <4>1 DEF Surjection
    <3> HIDE DEF f, M, G
    <3> QED
      BY <2>1, <3>1, FS_Surjection
  <2>3. G \subseteq TextLine
    BY Lined
  <2> QED
    BY <2>2, <2>3
<1>2. \A g \in G : g.of = Ours /\ g.kind \in HookEvents /\ ~Has(t, g.kind) /\ g = LineOf(g.kind)
  BY Lined
<1> HIDE DEF G, M
<1>3. Cardinality(G) \in Nat /\ v \in [1 .. Cardinality(G) -> G] /\ IsInjective(v)
  <2>1. Cardinality(G) \in Nat /\ ExistsBijection(1 .. Cardinality(G), G)
    BY <1>1, FS_CardinalityType
  <2>2. PICK f \in Bijection(1 .. Cardinality(G), G) : TRUE
    BY <2>1 DEF ExistsBijection
  <2>3. f \in [1 .. Cardinality(G) -> G] /\ IsInjective(f)
    BY <2>2 DEF Bijection, Injection
  <2> QED
    BY <2>1, <2>3 DEF SetToSeq
<1> HIDE DEF v
<1>4. v \in Seq(TextLine) /\ DOMAIN v = 1 .. Len(v) /\ \A j \in 1 .. Len(v) : v[j] \in G
  <2>1. v \in Seq(TextLine)
    BY <1>1, <1>3
  <2>2. DOMAIN v = 1 .. Len(v)
    BY <2>1, Sized
  <2> QED
    BY <1>3, <2>1, <2>2
<1>5. Neat("settings", v)
  <2>1. OnlyOnce(v)
    BY <1>3, <1>4 DEF OnlyOnce, IsInjective
  <2>2. \A j \in 1 .. Len(v) : v[j].of = Ours /\ v[j].kind \in OursIn("settings")
    BY <1>2, <1>4 DEF OursIn
  <2> QED
    BY <2>1, <2>2 DEF Neat
<1>6. \A i \in 1 .. Len(t), j \in 1 .. Len(v) : t[i] # v[j]
  <2> SUFFICES ASSUME NEW i \in 1 .. Len(t), NEW j \in 1 .. Len(v), t[i] = v[j]
               PROVE  FALSE
    OBVIOUS
  <2>1. ~Has(t, v[j].kind) /\ v[j] = LineOf(v[j].kind)
    BY <1>2, <1>4
  <2> QED
    BY <2>1, HasIs
<1>7. AddHooks(t) = t \o v
  BY DEF AddHooks, v, G, M
<1> QED
  BY <1>4, <1>5, <1>6, <1>7, KeptJoined

LEMMA HooksRemoving ==
    ASSUME NEW t \in Seq(TextLine)
    PROVE  Kept("settings", t, RemoveHooks(t))
<1>1. DOMAIN t = 1 .. Len(t)
  BY Sized
<1> DEFINE S == {i \in DOMAIN t : t[i].of # Ours}
<1>2. S \subseteq DOMAIN t /\ \A i \in 1 .. Len(t) : i \in S <=> t[i].of # Ours
  BY <1>1
<1>3. RemoveHooks(t) = LinesAt(t, S)
  BY DEF RemoveHooks
<1> HIDE DEF S
<1> QED
  BY <1>2, <1>3, KeptTaken

LEMMA EntryAdding ==
    ASSUME NEW t \in Seq(TextLine)
    PROVE  Kept("exclude", t, AddEntry(t))
<1> DEFINE v == <<LineOf("entry")>>
<1>1. LineOf("entry") \in TextLine
  BY Lined DEF OtherKinds
<1>2. v \in Seq(TextLine) /\ Len(v) = 1 /\ v[1] = LineOf("entry")
  BY <1>1
<1>3. Append(t, LineOf("entry")) = t \o v
  BY <1>1, AppendIsConcat
<1> HIDE DEF v
<1>4. \A j \in 1 .. Len(v) : j = 1
  BY <1>2
<1>5. Neat("exclude", v)
  <2>1. OnlyOnce(v)
    BY <1>4 DEF OnlyOnce
  <2>2. \A j \in 1 .. Len(v) : v[j].of = Ours /\ v[j].kind \in OursIn("exclude")
    BY <1>2, <1>4, Lined DEF OursIn
  <2> QED
    BY <2>1, <2>2 DEF Neat
<1>6. CASE Has(t, "entry")
  BY <1>6, KeptSame DEF AddEntry
<1>7. CASE ~Has(t, "entry")
  <2>1. \A i \in 1 .. Len(t), j \in 1 .. Len(v) : t[i] # v[j]
    BY <1>2, <1>4, <1>7, HasIs
  <2> QED
    BY <1>2, <1>3, <1>5, <1>7, <2>1, KeptJoined DEF AddEntry
<1> QED
  BY <1>6, <1>7

LEMMA Editing ==
    ASSUME target \in Target, NEW t \in Seq(TextLine), NEW edit \in Edits(target)
    PROVE  /\ NewText(edit, t) \in Seq(TextLine)
           /\ Neat(target, t) => Neat(target, NewText(edit, t))
           /\ Neat(target, t) /\ edit # "force" => OwnLines(t) \subseteq OwnLines(NewText(edit, t))
<1>1. CASE target = "agents"
  <2>1. edit \in {"writeback", "force"}
    BY <1>1 DEF Edits
  <2>2. CASE edit = "writeback"
    <3>1. NewText(edit, t) = Splice(t)
      BY <1>1, <2>2 DEF NewText
    <3> QED
      BY <1>1, <3>1, Splicing DEF Kept
  <2>3. CASE edit = "force"
    <3>1. NewText(edit, t) = Block
      BY <1>1, <2>3 DEF NewText
    <3> QED
      BY <1>1, <2>3, <3>1, TheBlock
  <2> QED
    BY <2>1, <2>2, <2>3
<1>2. CASE target = "config"
  <2>1. edit \in {"add", "remove"}
    BY <1>2 DEF Edits
  <2>2. NewText(edit, t) = IF edit = "add" THEN AddTable(t) ELSE RemoveTable(t)
    BY <1>2, <2>1 DEF NewText
  <2> QED
    BY <1>2, <2>2, TableAdding, TableRemoving DEF Kept
<1>3. CASE target = "settings"
  <2>1. edit \in {"add", "remove"}
    BY <1>3 DEF Edits
  <2>2. NewText(edit, t) = IF edit = "add" THEN AddHooks(t) ELSE RemoveHooks(t)
    BY <1>3, <2>1 DEF NewText
  <2> QED
    BY <1>3, <2>2, HooksAdding, HooksRemoving DEF Kept
<1>4. CASE target = "exclude"
  <2>1. edit = "add"
    BY <1>4 DEF Edits
  <2>2. NewText(edit, t) = AddEntry(t)
    BY <1>4, <2>1 DEF NewText
  <2> QED
    BY <1>4, <2>2, EntryAdding DEF Kept
<1> QED
  BY <1>1, <1>2, <1>3, <1>4 DEF Target

LEMMA LinesInserted ==
    ASSUME NEW t \in Seq(TextLine), NEW i \in 0 .. Len(t), NEW e,
           NEW u \in Seq(TextLine), Inserted(u, t, i, e)
    PROVE  /\ OwnLines(t) \subseteq OwnLines(u)
           /\ e.of \in OwnLine => e.of \in OwnLines(u)
<1>1. Len(t) \in Nat /\ i \in Nat /\ i <= Len(t) /\ Len(u) = Len(t) + 1
  BY Sized DEF Inserted
<1>2. ASSUME NEW j \in 1 .. Len(t)
      PROVE  \E k \in 1 .. Len(u) : u[k] = t[j]
  <2>1. CASE j <= i
    <3>1. j \in 1 .. i /\ j \in 1 .. Len(u)
      BY <1>1, <2>1
    <3> QED
      BY <3>1 DEF Inserted
  <2>2. CASE ~(j <= i)
    <3>1. j \in (i + 1) .. Len(t) /\ j + 1 \in 1 .. Len(u)
      BY <1>1, <2>2
    <3>2. u[j + 1] = t[j]
      BY <3>1 DEF Inserted
    <3> QED
      BY <3>1, <3>2
  <2> QED
    BY <2>1, <2>2
<1>3. i + 1 \in 1 .. Len(u) /\ u[i + 1] = e
  BY <1>1 DEF Inserted
<1> QED
  BY <1>2, <1>3, OwnLinesAre

LEMMA LinesRemoved ==
    ASSUME NEW t \in Seq(TextLine), NEW i \in 1 .. Len(t),
           NEW u \in Seq(TextLine), Removed(u, t, i)
    PROVE  OwnLines(t) \ {t[i].of} \subseteq OwnLines(u)
<1>1. Len(t) \in Nat /\ Len(u) = Len(t) - 1
  BY Sized DEF Removed
<1>2. ASSUME NEW j \in 1 .. Len(t), j # i
      PROVE  \E k \in 1 .. Len(u) : u[k] = t[j]
  <2>1. CASE j < i
    <3>1. j \in 1 .. (i - 1) /\ j \in 1 .. Len(u)
      BY <1>1, <2>1
    <3> QED
      BY <3>1 DEF Removed
  <2>2. CASE ~(j < i)
    <3>1. j \in (i + 1) .. Len(t) /\ j - 1 \in 1 .. Len(u)
      BY <1>1, <1>2, <2>2
    <3>2. u[j - 1] = t[j]
      BY <3>1 DEF Removed
    <3> QED
      BY <3>1, <3>2
  <2> QED
    BY <2>1, <2>2
<1>3. ASSUME NEW w \in OwnLines(t), w # t[i].of
      PROVE  w \in OwnLines(u)
  <2>1. w \in OwnLine
    BY OwnLinesAre
  <2>2. PICK j \in 1 .. Len(t) : t[j].of = w
    BY OwnLinesAre
  <2>3. PICK k \in 1 .. Len(u) : u[k] = t[j]
    BY <1>2, <1>3, <2>2
  <2> QED
    BY <2>1, <2>2, <2>3, OwnLinesAre
<1> QED
  BY <1>3

-----------------------------------------------------------------------------
(* The invariant: until an edit is killed in its write or reads in         *)
(* another's, the file and all that is about to be written to it are neat, *)
(* and no text has lost a settled line, the file but while it is written.  *)

Ready(c) ==
    c.step # "away" => /\ Neat(target, c.hand)
                       /\ c.edit # "force" => settled \subseteq OwnLines(c.hand)

InOrder ==
    /\ Neat(target, content)
    /\ \A p \in Editor : Ready(editor[p])
    /\ ~BeingWritten => settled \subseteq OwnLines(content)

FilesInv == FilesTypeOK /\ (spoiled \/ InOrder)

Editings == [step : {"away", "computed", "writes"},
             edit : {"none"} \cup UNION {Edits(f) : f \in Target},
             hand : Seq(TextLine)]

LEMMA InitFiles == ASSUME FilesInit PROVE FilesInv
<1>1. <<>> \in Seq(TextLine) /\ Len(<<>>) = 0
  BY EmptySeq
<1>2. Away \in Editings /\ Away.step = "away"
  BY <1>1 DEF Away, Editings
<1>3. FilesTypeOK
  <2>1. editor \in [Editor -> Editings]
    BY <1>2 DEF FilesInit
  <2>2. saves \in 0 .. MaxSaves
    BY FilesAssumption DEF FilesInit
  <2> QED
    BY <1>1, <2>1, <2>2 DEF FilesInit, FilesTypeOK, Editings
<1>4. InOrder
  <2>1. content = <<>> /\ settled = {} /\ \A p \in Editor : editor[p] = Away
    BY DEF FilesInit
  <2>2. Neat(target, <<>>)
    <3>1. \A i \in 1 .. Len(<<>>) : FALSE
      BY <1>1
    <3> QED
      BY <1>1, <3>1, NeatNone
  <2> QED
    BY <1>2, <2>1, <2>2 DEF InOrder, Ready
<1> QED
  BY <1>3, <1>4 DEF FilesInv

(* An edit that does not take the file for none has all of it in hand.     *)
LEMMA ReadsStep ==
    ASSUME FilesInv, NEW p \in Editor, NEW edit \in Edits(target), ReadsFile(p, edit)
    PROVE  FilesInv'
<1> DEFINE new == NewText(edit, TextRead)
           c == IF Idle(edit) THEN Away
                ELSE [step |-> "computed", edit |-> edit, hand |-> new]
<1>1. /\ target \in Target /\ content \in Seq(TextLine) /\ editor \in [Editor -> Editings]
      /\ saves \in 0 .. MaxSaves /\ settled \subseteq OwnLine /\ spoiled \in BOOLEAN
      /\ utf8 \in BOOLEAN
  BY DEF FilesInv, FilesTypeOK, Editings
<1>2. /\ TextRead \in Seq(TextLine)
      /\ utf8 => TextRead = content
      /\ Neat(target, content) => Neat(target, TextRead)
  <2>1. <<>> \in Seq(TextLine) /\ \A i \in 1 .. Len(<<>>) : FALSE
    BY EmptySeq
  <2>2. Neat(target, <<>>)
    BY <2>1, NeatNone
  <2> QED
    BY <1>1, <2>1, <2>2 DEF TextRead
<1>3. /\ new \in Seq(TextLine)
      /\ Neat(target, TextRead) => Neat(target, new)
      /\ Neat(target, TextRead) /\ edit # "force" => OwnLines(TextRead) \subseteq OwnLines(new)
  BY <1>1, <1>2, Editing
<1>4. /\ editor' = [editor EXCEPT ![p] = c] /\ saves < MaxSaves /\ saves' = saves + 1
      /\ settled' = (IF TakesForNone(edit) THEN {} ELSE settled)
      /\ spoiled' = (spoiled \/ BeingWritten) /\ UNCHANGED <<target, content, utf8>>
      /\ ~Refused(edit)
  <2>1. /\ editor' = [editor EXCEPT ![p] = c] /\ saves < MaxSaves /\ saves' = saves + 1
        /\ settled' = (IF TakesForNone(edit) THEN {} ELSE settled)
    BY Zenon DEF ReadsFile
  <2>2. spoiled' = (spoiled \/ BeingWritten) /\ UNCHANGED <<target, content, utf8>> /\ ~Refused(edit)
    BY Zenon DEF ReadsFile
  <2> QED
    BY <2>1, <2>2
<1>5. c.step = "computed" /\ edit # "force" => utf8 \/ TakesForNone(edit)
  <2>1. CASE target = "agents"
    <3>1. edit \in {"writeback", "force"}
      BY <2>1 DEF Edits
    <3> QED
      BY <1>1, <1>4, <2>1, <3>1 DEF Refused
  <2>2. CASE target # "agents"
    BY <1>1, <2>2 DEF TakesForNone, Away
  <2> QED
    BY <2>1, <2>2
<1> HIDE DEF new
<1>6. c \in Editings /\ c.step \in {"away", "computed"} /\ (c.step = "computed" => c.edit = edit /\ c.hand = new)
  <2>1. Away \in Editings /\ Away.step = "away"
    BY EmptySeq DEF Away, Editings
  <2>2. [step |-> "computed", edit |-> edit, hand |-> new] \in Editings
    BY <1>1, <1>3 DEF Editings
  <2> QED
    BY <2>1, <2>2
<1> HIDE DEF c
<1>7. editor' \in [Editor -> Editings] /\ editor'[p] = c /\ \A q \in Editor \ {p} : editor'[q] = editor[q]
  BY <1>1, <1>4, <1>6
<1>8. settled' \subseteq settled /\ (TakesForNone(edit) => settled' = {})
  BY <1>4
<1>9. FilesTypeOK'
  BY <1>1, <1>4, <1>7, <1>8, FilesAssumption DEF FilesTypeOK, Editings
<1>10. ASSUME ~spoiled'
       PROVE  InOrder'
  <2>1. InOrder /\ ~BeingWritten /\ settled \subseteq OwnLines(content)
    BY <1>1, <1>4, <1>10 DEF FilesInv, InOrder
  <2>2. Neat(target, new)
    BY <1>2, <1>3, <2>1 DEF InOrder
  <2>3. c.step # "away" /\ c.edit # "force" => settled' \subseteq OwnLines(new)
    <3> SUFFICES ASSUME c.step = "computed", edit # "force"
                 PROVE  settled' \subseteq OwnLines(new)
      BY <1>6
    <3>1. CASE TakesForNone(edit)
      BY <1>8, <3>1
    <3>2. CASE utf8
      <4>1. TextRead = content /\ Neat(target, TextRead)
        BY <1>2, <2>1, <3>2 DEF InOrder
      <4>2. OwnLines(content) \subseteq OwnLines(new)
        BY <1>3, <4>1
      <4> QED
        BY <1>8, <2>1, <4>2
    <3> QED
      BY <1>5, <3>1, <3>2
  <2>4. \A q \in Editor : Ready(editor[q])'
    BY <1>4, <1>6, <1>7, <1>8, <2>1, <2>2, <2>3 DEF InOrder, Ready
  <2> QED
    BY <1>4, <1>8, <2>1, <2>4 DEF InOrder
<1> QED
  BY <1>9, <1>10 DEF FilesInv

LEMMA TruncatesStep ==
    ASSUME FilesInv, NEW p \in Editor, TruncatesFile(p)
    PROVE  FilesInv'
<1> DEFINE c == [editor[p] EXCEPT !.step = "writes"]
<1>1. /\ target \in Target /\ content \in Seq(TextLine) /\ editor \in [Editor -> Editings]
  BY DEF FilesInv, FilesTypeOK, Editings
<1>2. /\ editor[p].step = "computed" /\ content' = <<>> /\ editor' = [editor EXCEPT ![p] = c]
      /\ utf8' = TRUE /\ UNCHANGED <<target, saves, settled, spoiled>>
  BY DEF TruncatesFile, EditorAt
<1>3. c \in Editings /\ c.step = "writes" /\ c.edit = editor[p].edit /\ c.hand = editor[p].hand
  <2>1. editor[p] \in Editings
    BY <1>1
  <2> QED
    BY <2>1 DEF Editings
<1> HIDE DEF c
<1>4. editor' \in [Editor -> Editings] /\ editor'[p] = c /\ \A q \in Editor \ {p} : editor'[q] = editor[q]
  BY <1>1, <1>2, <1>3
<1>5. content' \in Seq(TextLine) /\ Len(content') = 0
  BY <1>2, EmptySeq
<1>6. FilesTypeOK'
  BY <1>2, <1>4, <1>5 DEF FilesInv, FilesTypeOK, Editings
<1>7. ASSUME InOrder
      PROVE  InOrder'
  <2>1. Neat(target, content)'
    <3>1. Neat(target, <<>>)
      <4>1. <<>> \in Seq(TextLine) /\ \A i \in 1 .. Len(<<>>) : FALSE
        BY EmptySeq
      <4> QED
        BY <4>1, NeatNone
    <3> QED
      BY <1>2, <3>1
  <2>2. \A q \in Editor : Ready(editor[q])'
    BY <1>2, <1>3, <1>4, <1>7 DEF InOrder, Ready
  <2>3. BeingWritten'
    BY <1>3, <1>4 DEF BeingWritten, EditorAt
  <2> QED
    BY <2>1, <2>2, <2>3 DEF InOrder
<1> QED
  BY <1>2, <1>6, <1>7 DEF FilesInv

LEMMA WritesStep ==
    ASSUME FilesInv, NEW p \in Editor, WritesFile(p)
    PROVE  FilesInv'
<1>1. /\ target \in Target /\ content \in Seq(TextLine) /\ editor \in [Editor -> Editings]
      /\ settled \subseteq OwnLine
  BY DEF FilesInv, FilesTypeOK, Editings
<1>2. /\ editor[p].step = "writes" /\ content' = editor[p].hand /\ editor' = [editor EXCEPT ![p] = Away]
      /\ settled' = (IF editor[p].edit = "force" THEN {} ELSE settled)
      /\ utf8' = TRUE /\ UNCHANGED <<target, saves, spoiled>>
  BY DEF WritesFile, EditorAt
<1>3. Away \in Editings /\ Away.step = "away"
  BY EmptySeq DEF Away, Editings
<1>4. editor' \in [Editor -> Editings] /\ editor'[p] = Away /\ \A q \in Editor \ {p} : editor'[q] = editor[q]
  BY <1>1, <1>2, <1>3
<1>5. editor[p].hand \in Seq(TextLine) /\ settled' \subseteq settled
  BY <1>1, <1>2 DEF Editings
<1>6. FilesTypeOK'
  BY <1>1, <1>2, <1>4, <1>5 DEF FilesInv, FilesTypeOK, Editings
<1>7. ASSUME InOrder
      PROVE  InOrder'
  <2>1. Neat(target, content)' /\ settled' \subseteq OwnLines(content')
    BY <1>2, <1>7 DEF InOrder, Ready
  <2>2. \A q \in Editor : Ready(editor[q])'
    BY <1>2, <1>3, <1>4, <1>5, <1>7 DEF InOrder, Ready
  <2> QED
    BY <2>1, <2>2 DEF InOrder
<1> QED
  BY <1>2, <1>6, <1>7 DEF FilesInv

LEMMA KillStep ==
    ASSUME FilesInv, NEW p \in Editor, KillEditor(p)
    PROVE  FilesInv'
<1>1. /\ target \in Target /\ content \in Seq(TextLine) /\ editor \in [Editor -> Editings]
      /\ spoiled \in BOOLEAN /\ utf8 \in BOOLEAN
  BY DEF FilesInv, FilesTypeOK, Editings
<1>2. /\ editor' = [editor EXCEPT ![p] = Away] /\ UNCHANGED <<target, saves, settled>>
      /\ \/ /\ editor[p].step = "writes" /\ content' \in Remains(editor[p].hand) /\ spoiled' = TRUE
            /\ utf8' \in {TRUE, content' = editor[p].hand}
         \/ editor[p].step # "writes" /\ UNCHANGED <<content, utf8, spoiled>>
  BY DEF KillEditor, EditorAt
<1>3. Away \in Editings /\ Away.step = "away"
  BY EmptySeq DEF Away, Editings
<1>4. editor' \in [Editor -> Editings] /\ editor'[p] = Away /\ \A q \in Editor \ {p} : editor'[q] = editor[q]
  BY <1>1, <1>2, <1>3
<1>5. content' \in Seq(TextLine) /\ utf8' \in BOOLEAN /\ spoiled' \in BOOLEAN
  <2>1. editor[p].hand \in Seq(TextLine)
    BY <1>1 DEF Editings
  <2>2. ASSUME NEW r \in Remains(editor[p].hand)
        PROVE  r \in Seq(TextLine)
    <3>1. CASE target = "settings"
      <4>1. LineOf("torn") \in TextLine
        BY Lined DEF OtherKinds
      <4>2. <<LineOf("torn")>> \in Seq(TextLine)
        BY <4>1
      <4> QED
        BY <2>1, <2>2, <3>1, <4>2 DEF Remains
    <3>2. CASE target # "settings"
      <4>1. PICK k \in 0 .. Len(editor[p].hand) : r = SubSeq(editor[p].hand, 1, k)
        BY <2>2, <3>2 DEF Remains
      <4>2. 1 \in 1 .. Len(editor[p].hand) + 1
        BY <2>1, Sized
      <4> QED
        BY <2>1, <4>1, <4>2, Cutting
    <3> QED
      BY <3>1, <3>2
  <2> QED
    BY <1>1, <1>2, <2>2
<1>6. FilesTypeOK'
  BY <1>2, <1>4, <1>5 DEF FilesInv, FilesTypeOK, Editings
<1>7. ASSUME ~spoiled'
      PROVE  InOrder'
  <2>1. editor[p].step # "writes" /\ UNCHANGED <<content, spoiled>> /\ InOrder
    BY <1>2, <1>7 DEF FilesInv
  <2>2. \A q \in Editor : Ready(editor[q])'
    BY <1>2, <1>3, <1>4, <2>1 DEF InOrder, Ready
  <2>3. BeingWritten' <=> BeingWritten
    BY <1>3, <1>4, <2>1 DEF BeingWritten, EditorAt
  <2> QED
    BY <1>2, <2>1, <2>2, <2>3 DEF InOrder
<1> QED
  BY <1>6, <1>7 DEF FilesInv

(* Nobody's hand changes, and what settles does so while all are away. *)
LEMMA PersonStep ==
    ASSUME FilesInv, saves < MaxSaves, saves' = saves + 1, UNCHANGED <<target, editor, spoiled>>,
           content' \in Seq(TextLine), utf8' \in BOOLEAN,
           Neat(target, content) => Neat(target, content'),
           settled' \subseteq OwnLine,
           settled' \subseteq settled \/ \A p \in Editor : editor[p].step = "away",
           settled \subseteq OwnLines(content) => settled' \subseteq OwnLines(content'),
           ~BeingWritten
    PROVE  FilesInv'
<1>1. FilesTypeOK'
  BY FilesAssumption DEF FilesInv, FilesTypeOK
<1>2. ASSUME InOrder
      PROVE  InOrder'
  <2>1. \A p \in Editor : Ready(editor[p])'
    BY <1>2 DEF InOrder, Ready
  <2> QED
    BY <1>2, <2>1 DEF InOrder
<1> QED
  BY <1>1, <1>2 DEF FilesInv

LEMMA AddsStep ==
    ASSUME FilesInv, NEW u \in OwnLine, NEW kind \in OwnKinds, PersonAdds(u, kind)
    PROVE  FilesInv'
<1> DEFINE e == [kind |-> kind, of |-> u]
<1>1. /\ content \in Seq(TextLine) /\ settled \subseteq OwnLine /\ utf8 \in BOOLEAN
  BY DEF FilesInv, FilesTypeOK
<1>2. OwnKinds = OwnIn(target) /\ OwnIn(target) \subseteq OtherKinds \cup HookEvents
  BY DEF OwnKinds, OwnIn, OtherKinds
<1>3. e \in TextLine /\ e.of = u /\ e.kind \in OwnIn(target) /\ u # Ours
  BY <1>2, FilesAssumption DEF TextLine
<1>4. PICK i \in 0 .. Len(content) : Apart(i) /\ content' = InsertAt(content, i + 1, e)
  BY DEF PersonAdds
<1> HIDE DEF e
<1>5. content' \in Seq(TextLine) /\ Inserted(content', content, i, e)
  BY <1>1, <1>3, <1>4, Inserting
<1>6. /\ target = "agents" => ~\E b \in 1 .. i, c \in (i + 1) .. Len(content) :
                                  content[b] = LineOf("begin") /\ content[c] = LineOf("end")
      /\ target = "config" /\ i < Len(content) => content[i + 1] # LineOf("key")
  BY <1>4, Lined DEF Apart
<1>7. Neat(target, content) => Neat(target, content')
  BY <1>1, <1>3, <1>5, <1>6, InsertedNeat
<1>8. OwnLines(content) \cup {u} \subseteq OwnLines(content')
  BY <1>1, <1>3, <1>5, LinesInserted
<1>9. /\ saves < MaxSaves /\ ~BeingWritten /\ saves' = saves + 1 /\ UNCHANGED <<target, utf8, editor, spoiled>>
      /\ settled' = IF \A p \in Editor : editor[p].step = "away" THEN settled \cup {u} ELSE settled
  BY DEF PersonAdds, EditorAt
<1> QED
  BY <1>1, <1>5, <1>7, <1>8, <1>9, PersonStep

LEMMA AddsSubStep ==
    ASSUME FilesInv, PersonAddsSub
    PROVE  FilesInv'
<1> DEFINE e == LineOf("sub")
<1>1. content \in Seq(TextLine) /\ settled \subseteq OwnLine /\ Len(content) \in Nat /\ utf8 \in BOOLEAN
  BY Sized DEF FilesInv, FilesTypeOK
<1>2. /\ target = "config" /\ ~Has(content, "sub") /\ saves < MaxSaves /\ ~BeingWritten
      /\ saves' = saves + 1 /\ UNCHANGED <<target, utf8, editor, settled, spoiled>>
      /\ content' = Append(content, e) \/ content' = <<e>> \o content
  BY DEF PersonAddsSub
<1>3. e \in TextLine /\ e.of = Ours /\ e.kind = "sub"
  BY Lined DEF OtherKinds
<1>4. \A j \in 1 .. Len(content) : content[j] # e
  BY <1>1, <1>2, HasIs
<1> HIDE DEF e
<1>5. CASE content' = Append(content, e)
  <2>1. content' \in Seq(TextLine) /\ Inserted(content', content, Len(content), e)
    <3>1. /\ content' \in Seq(TextLine) /\ Len(content') = Len(content) + 1
          /\ \A j \in 1 .. Len(content) : content'[j] = content[j]
          /\ content'[Len(content) + 1] = e
      BY <1>1, <1>3, <1>5, AppendProperties
    <3>2. ~(\E j : j \in (Len(content) + 1) .. Len(content))
      BY <1>1
    <3> QED
      BY <3>1, <3>2 DEF Inserted
  <2>2. Len(content) \in 0 .. Len(content) /\ ~(Len(content) < Len(content))
    BY <1>1
  <2>3. Neat(target, content) => Neat(target, content')
    BY <1>1, <1>2, <1>3, <1>4, <2>1, <2>2, InsertedNeat DEF OursIn
  <2>4. OwnLines(content) \subseteq OwnLines(content')
    BY <1>1, <2>1, <2>2, LinesInserted
  <2> QED
    BY <1>1, <1>2, <2>1, <2>3, <2>4, PersonStep
<1>6. CASE content' = <<e>> \o content
  <2>1. content' \in Seq(TextLine) /\ Inserted(content', content, 0, e)
    <3>1. <<e>> \in Seq(TextLine) /\ Len(<<e>>) = 1 /\ <<e>>[1] = e
      BY <1>3
    <3>2. content' \in Seq(TextLine) /\ Joined(content', <<e>>, content)
      BY <1>1, <1>6, <3>1, Joining
    <3>3. content'[1] = e /\ Len(content') = Len(content) + 1
      BY <1>1, <3>1, <3>2 DEF Joined
    <3>4. \A j \in (0 + 1) .. Len(content) : content'[j + 1] = content[j]
      BY <1>1, <3>1, <3>2 DEF Joined
    <3>5. \A j \in 1 .. 0 : content'[j] = content[j]
      OBVIOUS
    <3> QED
      BY <3>2, <3>3, <3>4, <3>5 DEF Inserted
  <2>2. 0 \in 0 .. Len(content)
    BY <1>1
  <2>3. Neat(target, content) => Neat(target, content')
    <3> SUFFICES ASSUME Neat(target, content)
                 PROVE  Neat(target, content')
      OBVIOUS
    <3>1. 0 < Len(content) => content[0 + 1] # LineOf("key")
      BY <1>1, <1>2 DEF Neat, KeyInTable
    <3> QED
      BY <1>1, <1>2, <1>3, <1>4, <2>1, <2>2, <3>1, InsertedNeat DEF OursIn
  <2>4. OwnLines(content) \subseteq OwnLines(content')
    BY <1>1, <2>1, <2>2, LinesInserted
  <2> QED
    BY <1>1, <1>2, <2>1, <2>3, <2>4, PersonStep
<1> QED
  BY <1>2, <1>5, <1>6

LEMMA RemovesStep ==
    ASSUME FilesInv, NEW u \in OwnLine, PersonRemoves(u)
    PROVE  FilesInv'
<1>1. /\ content \in Seq(TextLine) /\ settled \subseteq OwnLine /\ DOMAIN content = 1 .. Len(content)
      /\ utf8 \in BOOLEAN
  BY Sized DEF FilesInv, FilesTypeOK
<1>2. PICK i \in 1 .. Len(content) : content[i].of = u /\ content' = RemoveAt(content, i)
  BY <1>1 DEF PersonRemoves
<1>3. content' \in Seq(TextLine) /\ Removed(content', content, i)
  BY <1>1, <1>2, Removing
<1>4. content[i].of # Ours
  BY <1>2, FilesAssumption
<1>5. Neat(target, content) => Neat(target, content')
  BY <1>1, <1>3, <1>4, RemovedNeat
<1>6. OwnLines(content) \ {u} \subseteq OwnLines(content')
  BY <1>1, <1>2, <1>3, LinesRemoved
<1>7. /\ saves < MaxSaves /\ ~BeingWritten /\ saves' = saves + 1 /\ UNCHANGED <<target, utf8, editor, spoiled>>
      /\ settled' = settled \ {u}
  BY DEF PersonRemoves
<1> QED
  BY <1>1, <1>3, <1>5, <1>6, <1>7, PersonStep

LEMMA RecodesStep ==
    ASSUME FilesInv, PersonRecodes
    PROVE  FilesInv'
<1>1. content \in Seq(TextLine) /\ settled \subseteq OwnLine /\ utf8 \in BOOLEAN
  BY DEF FilesInv, FilesTypeOK
<1>2. /\ saves < MaxSaves /\ ~BeingWritten /\ saves' = saves + 1 /\ utf8' = ~utf8
      /\ UNCHANGED <<target, content, editor, settled, spoiled>>
  BY DEF PersonRecodes
<1> QED
  BY <1>1, <1>2, PersonStep

LEMMA FilesStep ==
    ASSUME FilesInv, [FilesNext]_filesVars
    PROVE  FilesInv'
<1>1. CASE UNCHANGED filesVars
  BY <1>1 DEF filesVars, FilesInv, FilesTypeOK, InOrder, Ready, BeingWritten, EditorAt
<1>2. ASSUME NEW p \in Editor, NEW edit \in Edits(target), ReadsFile(p, edit)
      PROVE  FilesInv'
  BY <1>2, ReadsStep
<1>3. ASSUME NEW p \in Editor, TruncatesFile(p) \/ WritesFile(p) \/ KillEditor(p)
      PROVE  FilesInv'
  BY <1>3, TruncatesStep, WritesStep, KillStep
<1>4. ASSUME NEW u \in OwnLine, NEW kind \in OwnKinds, PersonAdds(u, kind)
      PROVE  FilesInv'
  BY <1>4, AddsStep
<1>5. ASSUME NEW u \in OwnLine, PersonRemoves(u)
      PROVE  FilesInv'
  BY <1>5, RemovesStep
<1>6. CASE PersonAddsSub
  BY <1>6, AddsSubStep
<1>7. CASE PersonRecodes
  BY <1>7, RecodesStep
<1> QED
  BY <1>1, <1>2, <1>3, <1>4, <1>5, <1>6, <1>7 DEF FilesNext

LEMMA FilesInvariant == FilesSpec => []FilesInv
BY InitFiles, FilesStep, PTL DEF FilesSpec

(* Texts stay texts, whatever is cut short. *)
THEOREM FilesTyped == FilesSpec => []FilesTypeOK
<1>1. FilesInv => FilesTypeOK
  BY DEF FilesInv
<1> QED
  BY <1>1, FilesInvariant, PTL

(* "Text outside the block is never touched": whatever edits run, together *)
(* or one after another, in whatever order, a line that somebody saved     *)
(* while no edit was under way stays until its owner takes it out or       *)
(* forces the file; unless an edit is killed in the middle of its write or *)
(* reads in the middle of another's, or setup or the entry in exclude      *)
(* takes a file that is not UTF-8 for none and writes over it.  In         *)
(* AGENTS.md the line stays in such a file too.                            *)
THEOREM OwnTextOutlivesEdits == FilesSpec => []OwnTextKept
<1>1. FilesInv => OwnTextKept
  BY DEF FilesInv, InOrder, OwnTextKept
<1> QED
  BY <1>1, FilesInvariant, PTL

(* "Running setup again changes nothing": with the same proviso there is   *)
(* never a second block, table, hook or entry, nor half a block.           *)
THEOREM EditsDoNotPileUp == FilesSpec => []OneOfEach
<1>1. FilesInv => OneOfEach
  <2> SUFFICES ASSUME FilesInv, ~spoiled
               PROVE  /\ \A i, j \in DOMAIN content :
                            i # j /\ content[i].of = Ours => content[i] # content[j]
                      /\ Has(content, "begin") <=> Has(content, "end")
    BY DEF OneOfEach
  <2>1. /\ content \in Seq(TextLine) /\ Neat(target, content) /\ target \in Target
        /\ DOMAIN content = 1 .. Len(content) /\ Len(content) \in Nat
    BY Sized DEF FilesInv, FilesTypeOK, InOrder
  <2>2. \A i, j \in DOMAIN content : i # j /\ content[i].of = Ours => content[i] # content[j]
    BY <2>1 DEF Neat, OnlyOnce
  <2>3. CASE target = "agents"
    <3>1. BlockWhole(content)
      BY <2>1, <2>3 DEF Neat
    <3>2. ASSUME NEW i \in 1 .. Len(content), content[i] = LineOf("begin")
          PROVE  i + 2 \in 1 .. Len(content) /\ content[i + 2] = LineOf("end")
      BY <2>1, <3>1, <3>2 DEF BlockWhole
    <3>3. ASSUME NEW i \in 1 .. Len(content), content[i] = LineOf("end")
          PROVE  i - 2 \in 1 .. Len(content) /\ content[i - 2] = LineOf("begin")
      BY <2>1, <3>1, <3>3 DEF BlockWhole
    <3> QED
      BY <2>1, <2>2, <3>2, <3>3, HasIs
  <2>4. CASE target # "agents"
    <3>1. OursIn(target) \cap {"begin", "end"} = {}
      BY <2>1, <2>4, FilesAssumption DEF Target, OursIn, OtherKinds
    <3>2. \A i \in 1 .. Len(content) : content[i] # LineOf("begin") /\ content[i] # LineOf("end")
      BY <2>1, <3>1, Lined DEF Neat
    <3> QED
      BY <2>1, <2>2, <3>2, HasIs
  <2> QED
    BY <2>3, <2>4
<1> QED
  BY <1>1, FilesInvariant, PTL
=============================================================================
