--------------------------- MODULE CurationProofs ---------------------------
(* Proofs about Curation: types, that what is forgotten or erased is never *)
(* created again, and that a memory file's facts are from its latest       *)
(* version; then, of the files of an entity and its spill files, that what *)
(* was remembered is readable, a fact is in one file, a corrected fact is  *)
(* hidden, what is readable can be reached, and INDEX.md counts what the   *)
(* files have.  Those hold under conditions of their own, stated with      *)
(* each; the README says what happens without them.                        *)
EXTENDS Curation, FiniteSetTheorems, WellFoundedInduction, TLAPS

-----------------------------------------------------------------------------
(* Data *)

(* A set of facts has a size, and none is larger than a set it is part of. *)
LEMMA Sizes ==
    ASSUME NEW T \in SUBSET Fact, NEW S \in SUBSET T
    PROVE  Cardinality(S) \in Nat /\ Cardinality(T) \in Nat /\ Cardinality(S) <= Cardinality(T)
<1>1. IsFiniteSet(T) /\ IsFiniteSet(S)
  BY FactAssumption, FS_Subset
<1>2. Cardinality(S) <= Cardinality(T)
  BY <1>1, FS_Subset
<1> QED
  BY <1>1, <1>2, FS_CardinalityType

(* What a file or its absence stands for is a content. *)
LEMMA ContentType ==
    ASSUME NEW fs \in [Name -> Content \cup {Absent}], NEW n \in Name
    PROVE  ContentOf(fs, n) \in Content
BY DEF ContentOf, Content, Blank

(* Dropping facts leaves a content with the other facts, unchanged. *)
LEMMA WithoutFacts ==
    ASSUME NEW c \in Content, NEW gone
    PROVE  /\ Without(c, gone) \in Content
           /\ Held(Without(c, gone)) = Held(c) \ gone
           /\ \A f \in Fact \ gone : Without(c, gone)[f] = c[f]
BY DEF Without, Content, Held, Has

(* An upsert makes a content with one fact more at most. *)
LEMMA UpsertFacts ==
    ASSUME NEW c \in Content, NEW f \in Fact, NEW e \in Entry
    PROVE  /\ [c EXCEPT ![f] = e] \in Content
           /\ Held([c EXCEPT ![f] = e]) \subseteq Held(c) \cup {f}
           /\ \A g \in Fact \ {f} : [c EXCEPT ![f] = e][g] = c[g]
BY DEF Content, Held, Has

(* An active entry is an entry. *)
LEMMA ActiveEntry ==
    ASSUME NEW o \in Event \cup {NoEvent}
    PROVE  Active(o) \in Entry
BY DEF Active, Entry

(* INDEX.md has a number for every file. *)
LEMMA IndexType ==
    ASSUME NEW fs \in [Name -> Content \cup {Absent}]
    PROVE  IndexOf(fs) \in [Name -> Nat]
<1> SUFFICES ASSUME NEW n \in Name, fs[n] # Absent
             PROVE  Cardinality(Current(fs[n])) \in Nat
  BY DEF IndexOf
<1>1. Current(fs[n]) \in SUBSET Fact
  BY DEF Current
<1> QED
  BY <1>1, Sizes

(* A batch stays a batch when the head moves. *)
LEMMA HeadMovesType ==
    ASSUME work \in Batch \cup {NoWork}, HeadMoves
    PROVE  /\ work' \in Batch \cup {NoWork}
           /\ work' # NoWork => work # NoWork /\ work'.end = work.end /\ ~work'.fresh
                                /\ work'.files = work.files /\ work'.said = work.said
BY NoWorkAssumption DEF HeadMoves, Batch

(* What PublishFile publishes. *)
LEMMA PublishFileFacts ==
    ASSUME TypeOK, NEW n \in Name, NEW c \in Content, NEW gone, PublishFile(n, c, gone)
    PROVE  /\ files' \in [Name -> Content \cup {Absent}]
           /\ files'[n] = Without(c, gone) /\ files'[n] # Absent
           /\ \A m \in Name \ {n} : files'[m] = files[m]
           /\ index' \in [Name -> Nat]
           /\ \A m \in Name : Cardinality(Held(ContentOf(files', m))) <= HardRoom
<1>1. Without(c, gone) \in Content
  BY WithoutFacts
<1>2. /\ files' \in [Name -> Content \cup {Absent}]
      /\ files'[n] = Without(c, gone)
      /\ \A m \in Name \ {n} : files'[m] = files[m]
  BY <1>1 DEF PublishFile, TypeOK
<1>3. index' \in [Name -> Nat]
  BY <1>2, IndexType DEF PublishFile
<1>4. files'[n] # Absent
  BY <1>1, <1>2, AbsentAssumption
<1>5. ASSUME NEW m \in Name
      PROVE  Cardinality(Held(ContentOf(files', m))) <= HardRoom
  <2>1. CASE m = n
    <3>1. ContentOf(files', m) = Without(c, gone)
      BY <1>2, <1>4, <2>1 DEF ContentOf
    <3> QED
      BY <3>1 DEF PublishFile
  <2>2. CASE m # n
    <3>1. ContentOf(files', m) = ContentOf(files, m)
      BY <1>2, <2>2 DEF ContentOf
    <3> QED
      BY <3>1 DEF TypeOK
  <2> QED
    BY <2>1, <2>2
<1> QED
  BY <1>2, <1>3, <1>4, <1>5

(* Where a remembered fact goes, what was in that file before. *)
LEMMA FileBeforeType ==
    ASSUME TypeOK, NEW n \in Name
    PROVE  FileBefore(n) \in Content
BY ContentType DEF FileBefore, TypeOK, Content, Blank

(* A holder's file is a content and has the fact. *)
LEMMA HolderFacts ==
    ASSUME TypeOK, NEW n \in Name, NEW f \in Fact, IsHolder(n, f)
    PROVE  /\ files[n] # Absent
           /\ files[n] \in Content
           /\ ContentOf(files, n) = files[n]
           /\ Has(files[n], f)
<1>1. Has(ContentOf(files, n), f)
  BY DEF IsHolder, Copies
<1>2. files[n] # Absent
  BY <1>1 DEF ContentOf, Blank, Has
<1> QED
  BY <1>1, <1>2 DEF ContentOf, TypeOK

(* What `correct` writes: the old fact superseded, the new one active.     *)
LEMMA CorrectedFacts ==
    ASSUME NEW c \in Content, NEW old \in Fact, NEW f \in Fact, Has(c, old)
    PROVE  LET new == [Supersede(c, old) EXCEPT ![f] = Active(NoEvent)]
           IN  /\ new \in Content
               /\ Held(new) \subseteq Held(c) \cup {f}
               /\ \A g \in Fact \ {old, f} : new[g] = c[g]
<1>1. c[old] \in Entry
  BY DEF Content, Has
<1>2. [c[old] EXCEPT !.status = "superseded"] \in Entry
  BY <1>1 DEF Entry
<1> DEFINE e == [c[old] EXCEPT !.status = "superseded"]
           s == Supersede(c, old)
           a == Active(NoEvent)
<1>3. s = [c EXCEPT ![old] = e]
  BY DEF Supersede
<1>4. e \in Entry /\ a \in Entry
  BY <1>2, ActiveEntry
<1> HIDE DEF e, s, a
<1>5. /\ s \in Content
      /\ Held(s) \subseteq Held(c) \cup {old}
      /\ \A g \in Fact \ {old} : s[g] = c[g]
  <2>1. /\ [c EXCEPT ![old] = e] \in Content
        /\ Held([c EXCEPT ![old] = e]) \subseteq Held(c) \cup {old}
        /\ \A g \in Fact \ {old} : [c EXCEPT ![old] = e][g] = c[g]
    BY <1>4, UpsertFacts
  <2> QED
    BY <1>3, <2>1
<1>6. old \in Held(c)
  BY DEF Held
<1>7. /\ [s EXCEPT ![f] = a] \in Content
      /\ Held([s EXCEPT ![f] = a]) \subseteq Held(s) \cup {f}
      /\ \A g \in Fact \ {f} : [s EXCEPT ![f] = a][g] = s[g]
  BY <1>4, <1>5, UpsertFacts
<1> QED
  BY <1>5, <1>6, <1>7 DEF s, a

-----------------------------------------------------------------------------
(* Type correctness *)

(* Between its start and its end a batch works on contents. *)
LEMMA PlaceFacts ==
    ASSUME TypeOK, NEW i \in 1..Len(journal), NEW f \in Fact, Place(i, f)
    PROVE  /\ work \in Batch /\ work' \in Batch
           /\ work'.end = work.end /\ work'.fresh = work.fresh /\ work'.blocked = work.blocked
           /\ work'.said = work.said \cup {f}
           /\ f \notin work.blocked
           /\ i \in (through + 1)..work.end
           /\ journal[i] \in Event
           /\ \E n \in Name :
                 /\ work'.files[n] = [ContentOf(work.files, n) EXCEPT ![f] = Active(journal[i])]
                 /\ work'.files[n] \in Content
                 /\ \A m \in Name \ {n} : work'.files[m] = work.files[m]
                 /\ work'.changed = work.changed \cup {n}
<1>1. work \in Batch
  BY DEF TypeOK, Place
<1>2. journal[i] \in Event
  BY DEF TypeOK
<1>3. PICK n \in Name :
         work' = [work EXCEPT
                     !.files[n] = [ContentOf(work.files, n) EXCEPT ![f] = Active(journal[i])],
                     !.changed = @ \cup {n},
                     !.said = @ \cup {f}]
  BY DEF Place
<1> DEFINE c == [ContentOf(work.files, n) EXCEPT ![f] = Active(journal[i])]
<1>4. work.files \in [Name -> Content \cup {Absent}]
  BY <1>1 DEF Batch
<1>5. c \in Content
  BY <1>2, <1>4, ContentType, ActiveEntry, UpsertFacts
<1> HIDE DEF c
<1>6. work' = [work EXCEPT !.files[n] = c, !.changed = @ \cup {n}, !.said = @ \cup {f}]
  BY <1>3 DEF c
<1>7. /\ work' \in Batch
      /\ work'.files = [work.files EXCEPT ![n] = c]
      /\ work'.changed = work.changed \cup {n}
      /\ work'.said = work.said \cup {f}
      /\ work'.end = work.end /\ work'.fresh = work.fresh /\ work'.blocked = work.blocked
  BY <1>1, <1>5, <1>6 DEF Batch
<1>8. /\ work'.files[n] = c
      /\ \A m \in Name \ {n} : work'.files[m] = work.files[m]
  BY <1>4, <1>7
<1>9. f \notin work.blocked /\ i \in (through + 1)..work.end
  BY DEF Place
<1> QED
  BY <1>1, <1>2, <1>5, <1>7, <1>8, <1>9 DEF c

(* What a batch starts with. *)
LEMMA StartFacts ==
    ASSUME TypeOK, NEW end \in 1..Len(journal), StartBatch(end)
    PROVE  /\ work' \in Batch /\ work' # NoWork
           /\ work'.end = end /\ end \in through..Len(journal)
           /\ work'.fresh = TRUE /\ work'.said = {} /\ work'.changed = {}
           /\ work'.blocked = suppressed \cup deleted
           /\ \A n \in Name : work'.files[n] = IF files[n] = Absent THEN Absent
                                               ELSE Without(files[n], Forgotten)
<1> DEFINE fs == [n \in Name |-> IF files[n] = Absent THEN Absent
                                 ELSE Without(files[n], Forgotten)]
<1>1. fs \in [Name -> Content \cup {Absent}]
  BY WithoutFacts DEF TypeOK
<1>2. suppressed \cup deleted \in SUBSET Fact
  BY DEF TypeOK
<1>3. end \in through..Len(journal) /\ end \in Nat
  BY DEF StartBatch, TypeOK
<1> HIDE DEF fs
<1>4. work' = [files |-> fs, blocked |-> suppressed \cup deleted,
               changed |-> {}, end |-> end, said |-> {}, fresh |-> TRUE]
  BY DEF StartBatch, fs
<1>5. work' \in Batch
  BY <1>1, <1>2, <1>3, <1>4 DEF Batch
<1> QED
  BY <1>3, <1>4, <1>5, NoWorkAssumption DEF fs

(* Retiring leaves a content with the same facts. *)
LEMMA RetireFacts ==
    ASSUME NEW c \in Content, NEW from, NEW to
    PROVE  /\ Retire(c, from, to) \in Content
           /\ Held(Retire(c, from, to)) = Held(c)
<1>1. ASSUME NEW f \in Fact
      PROVE  /\ Retire(c, from, to)[f] \in Entry \cup {None}
             /\ Has(Retire(c, from, to), f) <=> Has(c, f)
  <2>1. CASE IsOutdated(c[f], from, to)
    <3>1. c[f] \in Entry
      BY <2>1 DEF IsOutdated, Content
    <3>2. [c[f] EXCEPT !.status = "superseded"] \in Entry
      BY <3>1 DEF Entry
    <3> QED
      BY <2>1, <3>1, <3>2, NoneAssumption DEF Retire, Has
  <2>2. CASE ~IsOutdated(c[f], from, to)
    BY <2>2 DEF Retire, Has, Content
  <2> QED
    BY <2>1, <2>2
<1>2. Retire(c, from, to) \in Content
  BY <1>1 DEF Retire, Content
<1> QED
  BY <1>1, <1>2 DEF Held

(* What a batch publishes. *)
LEMMA PublishBatchFacts ==
    ASSUME TypeOK, PublishBatch
    PROVE  /\ work \in Batch /\ work' = NoWork /\ work.fresh
           /\ files' \in [Name -> Content \cup {Absent}]
           /\ index' \in [Name -> Nat]
           /\ \A n \in Name :
                 \/ files'[n] = files[n] /\ n \notin work.changed
                    /\ Retired(work.files, through + 1, work.end)[n] = work.files[n]
                 \/ files'[n] = Retired(work.files, through + 1, work.end)[n]
                    /\ Cardinality(Held(files'[n])) <= HardRoom
<1> DEFINE new == Retired(work.files, through + 1, work.end)
           changed == work.changed \cup {n \in Name : new[n] # work.files[n]}
<1>1. work \in Batch /\ work.fresh /\ work' = NoWork
  BY DEF PublishBatch, TypeOK
<1>2. work.files \in [Name -> Content \cup {Absent}]
  BY <1>1 DEF Batch
<1>3. new \in [Name -> Content \cup {Absent}]
  BY <1>2, RetireFacts DEF Retired
<1> HIDE DEF new
<1>4. /\ files' = [n \in Name |-> IF n \in changed THEN new[n] ELSE files[n]]
      /\ index' = IF changed = {} THEN index ELSE IndexOf(new)
      /\ \A n \in changed : Cardinality(Held(new[n])) <= HardRoom
  BY DEF PublishBatch, new
<1>5. files' \in [Name -> Content \cup {Absent}]
  BY <1>3, <1>4 DEF TypeOK
<1>6. index' \in [Name -> Nat]
  BY <1>3, <1>4, IndexType DEF TypeOK
<1>7. ASSUME NEW n \in Name
      PROVE  \/ files'[n] = files[n] /\ n \notin work.changed /\ new[n] = work.files[n]
             \/ files'[n] = new[n] /\ Cardinality(Held(files'[n])) <= HardRoom
  BY <1>4
<1> QED
  BY <1>1, <1>5, <1>6, <1>7 DEF new

(* The part of TypeOK about a batch and the journal, when neither changes  *)
(* but that the head moves.                                                *)
LEMMA HeadMovesTypeOK ==
    ASSUME TypeOK, HeadMoves, UNCHANGED <<journal, through>>
    PROVE  /\ work' \in Batch \cup {NoWork}
           /\ work' # NoWork => work'.end \in through'..Len(journal')
           /\ journal' \in Seq(Event) /\ through' \in 0..Len(journal')
<1>1. work \in Batch \cup {NoWork}
  BY DEF TypeOK
<1> QED
  BY <1>1, HeadMovesType DEF TypeOK

(* TypeOK is kept by the operations of change.rs. *)
LEMMA ChangeTypeOK ==
    ASSUME TypeOK, Change
    PROVE  TypeOK'
<1>1. ASSUME NEW n \in Name, NEW c \in Content, NEW gone, PublishFile(n, c, gone),
             named' \subseteq Fact, kept' \subseteq Fact, corrected' \subseteq Fact,
             suppressed' \subseteq Fact, retracted' \subseteq Fact, deleted' \subseteq Fact
      PROVE  TypeOK'
  <2>1. /\ files' \in [Name -> Content \cup {Absent}]
        /\ index' \in [Name -> Nat]
        /\ \A m \in Name : Cardinality(Held(ContentOf(files', m))) <= HardRoom
    BY <1>1, PublishFileFacts
  <2>2. HeadMoves /\ UNCHANGED <<journal, through>>
    BY <1>1 DEF PublishFile
  <2> QED
    BY <1>1, <2>1, <2>2, HeadMovesTypeOK DEF TypeOK
<1>2. ASSUME NEW f \in Fact, Remember(f)
      PROVE  TypeOK'
  <2>1. PICK n \in Name :
           PublishFile(n, [FileBefore(n) EXCEPT ![f] = Active(NoEvent)], Forgotten)
    BY <1>2 DEF Remember
  <2>2. [FileBefore(n) EXCEPT ![f] = Active(NoEvent)] \in Content
    BY FileBeforeType, ActiveEntry, UpsertFacts
  <2>3. /\ named' \subseteq Fact /\ kept' \subseteq Fact /\ corrected' \subseteq Fact
        /\ suppressed' \subseteq Fact /\ retracted' \subseteq Fact /\ deleted' \subseteq Fact
    BY <1>2 DEF Remember, TypeOK, controls
  <2> QED
    BY <1>1, <2>1, <2>2, <2>3
<1>3. ASSUME NEW f \in Fact, NEW old \in Fact, Correct(old, f)
      PROVE  TypeOK'
  <2> DEFINE new(n) == [Supersede(files[n], old) EXCEPT ![f] = Active(NoEvent)]
  <2>1. PICK n \in Name : IsHolder(n, old) /\ PublishFile(n, new(n), Forgotten)
    BY <1>3 DEF Correct
  <2>2. new(n) \in Content
    BY <2>1, HolderFacts, CorrectedFacts
  <2>3. /\ named' \subseteq Fact /\ kept' \subseteq Fact /\ corrected' \subseteq Fact
        /\ suppressed' \subseteq Fact /\ retracted' \subseteq Fact /\ deleted' \subseteq Fact
    BY <1>3 DEF Correct, TypeOK, controls
  <2> HIDE DEF new
  <2> QED
    BY <1>1, <2>1, <2>2, <2>3
<1>4. ASSUME NEW f \in Fact, Forget(f)
      PROVE  TypeOK'
  <2>1. PICK n \in Name :
           IsHolder(n, f) /\ PublishFile(n, files[n], suppressed' \cap retracted')
    BY <1>4 DEF Forget
  <2>2. files[n] \in Content
    BY <2>1, HolderFacts
  <2>3. /\ named' \subseteq Fact /\ kept' \subseteq Fact /\ corrected' \subseteq Fact
        /\ suppressed' \subseteq Fact /\ retracted' \subseteq Fact /\ deleted' \subseteq Fact
    BY <1>4 DEF Forget, TypeOK
  <2> QED
    BY <1>1, <2>1, <2>2, <2>3
<1> QED
  BY <1>2, <1>3, <1>4 DEF Change

(* A file from which facts are dropped is not larger. *)
LEMMA SmallerFile ==
    ASSUME NEW c \in Content, NEW d \in Content, Held(d) \subseteq Held(c),
           Cardinality(Held(c)) <= HardRoom
    PROVE  Cardinality(Held(d)) <= HardRoom
<1>1. Held(c) \in SUBSET Fact /\ Held(d) \in SUBSET Held(c)
  BY DEF Held
<1>2. Cardinality(Held(d)) \in Nat /\ Cardinality(Held(c)) \in Nat
      /\ Cardinality(Held(d)) <= Cardinality(Held(c))
  BY <1>1, Sizes
<1> QED
  BY <1>2, RoomAssumption

(* Erasing in one file leaves a file with fewer facts, or none. *)
LEMMA ErasedFacts ==
    ASSUME TypeOK, NEW n \in Name, NEW gone
    PROVE  LET new == Erased(files[n], gone)
               d == IF new = Absent THEN Blank ELSE new
           IN  /\ new \in Content \cup {Absent}
               /\ d \in Content
               /\ Held(d) \subseteq Held(ContentOf(files, n))
               /\ \A f \in Fact : Has(d, f) => d[f] = ContentOf(files, n)[f]
<1>1. CASE files[n] = Absent
  BY <1>1 DEF Erased, ContentOf, Blank, Content, Held, Has
<1>2. CASE files[n] # Absent
  <2>1. files[n] \in Content /\ ContentOf(files, n) = files[n]
    BY <1>2 DEF TypeOK, ContentOf
  <2>2. /\ Without(files[n], gone) \in Content
        /\ Held(Without(files[n], gone)) = Held(files[n]) \ gone
        /\ \A f \in Fact \ gone : Without(files[n], gone)[f] = files[n][f]
    BY <2>1, WithoutFacts
  <2>3. Blank \in Content /\ Held(Blank) = {}
    BY DEF Blank, Content, Held, Has
  <2>4. Erased(files[n], gone) \in {Absent, files[n], Without(files[n], gone)}
    BY <1>2 DEF Erased
  <2>5. Without(files[n], gone) # Absent
    BY <2>2, AbsentAssumption
  <2>6. ASSUME NEW f \in Fact, Has(Without(files[n], gone), f)
        PROVE  Without(files[n], gone)[f] = files[n][f]
    BY <2>2, <2>6 DEF Held
  <2>7. \A f \in Fact : ~Has(Blank, f)
    BY DEF Blank, Has
  <2> QED
    BY <1>2, <2>1, <2>2, <2>3, <2>4, <2>5, <2>6, <2>7
<1> QED
  BY <1>1, <1>2

(* Tidying drops facts from every file. *)
LEMMA TidyFacts ==
    ASSUME TypeOK, NEW found \in SUBSET Fact, Tidy(found)
    PROVE  /\ files' \in [Name -> Content \cup {Absent}]
           /\ \A n \in Name :
                 /\ ContentOf(files', n) \in Content
                 /\ Held(ContentOf(files', n)) \subseteq Held(ContentOf(files, n))
                 /\ \A f \in Fact : Has(ContentOf(files', n), f) =>
                        ContentOf(files', n)[f] = ContentOf(files, n)[f]
<1> DEFINE gone == suppressed' \cap retracted'
<1>1. files' = [n \in Name |-> IF files[n] = Absent THEN Absent ELSE Without(files[n], gone)]
  BY DEF Tidy
<1> HIDE DEF gone
<1>2. files' \in [Name -> Content \cup {Absent}]
  BY <1>1, WithoutFacts DEF TypeOK
<1>3. ASSUME NEW n \in Name
      PROVE  /\ ContentOf(files', n) \in Content
             /\ Held(ContentOf(files', n)) \subseteq Held(ContentOf(files, n))
             /\ \A f \in Fact : Has(ContentOf(files', n), f) =>
                    ContentOf(files', n)[f] = ContentOf(files, n)[f]
  <2>1. CASE files[n] = Absent
    <3>1. ContentOf(files', n) = Blank /\ ContentOf(files, n) = Blank
      BY <1>1, <2>1 DEF ContentOf
    <3> QED
      BY <3>1 DEF Blank, Content
  <2>2. CASE files[n] # Absent
    <3>1. files[n] \in Content
      BY <2>2 DEF TypeOK
    <3>2. /\ Without(files[n], gone) \in Content
          /\ Held(Without(files[n], gone)) = Held(files[n]) \ gone
          /\ \A f \in Fact \ gone : Without(files[n], gone)[f] = files[n][f]
      BY <3>1, WithoutFacts
    <3>3. files'[n] = Without(files[n], gone) /\ files'[n] # Absent
      BY <1>1, <2>2, <3>2, AbsentAssumption
    <3>4. ContentOf(files', n) = Without(files[n], gone) /\ ContentOf(files, n) = files[n]
      BY <2>2, <3>3 DEF ContentOf
    <3> QED
      BY <3>2, <3>4 DEF Held
  <2> QED
    BY <2>1, <2>2
<1> QED
  BY <1>2, <1>3

(* TypeOK is kept when facts are dropped. *)
LEMMA RemoveTypeOK ==
    ASSUME TypeOK, Remove
    PROVE  TypeOK'
<1>1. ASSUME files' \in [Name -> Content \cup {Absent}],
             \A n \in Name : /\ ContentOf(files', n) \in Content
                             /\ Held(ContentOf(files', n)) \subseteq Held(ContentOf(files, n)),
             index' = IndexOf(files') \/ index' = index,
             HeadMoves, UNCHANGED <<journal, through, named, corrected>>, kept' \subseteq kept,
             suppressed' \subseteq Fact, retracted' \subseteq Fact, deleted' \subseteq Fact
      PROVE  TypeOK'
  <2>1. index' \in [Name -> Nat]
    BY <1>1, IndexType DEF TypeOK
  <2>2. ASSUME NEW n \in Name
        PROVE  Cardinality(Held(ContentOf(files', n))) <= HardRoom
    <3>1. ContentOf(files, n) \in Content
      BY ContentType DEF TypeOK
    <3>2. Cardinality(Held(ContentOf(files, n))) <= HardRoom
      BY DEF TypeOK
    <3> QED
      BY <1>1, <3>1, <3>2, SmallerFile
  <2>3. /\ work' \in Batch \cup {NoWork}
        /\ work' # NoWork => work'.end \in through'..Len(journal')
        /\ journal' \in Seq(Event) /\ through' \in 0..Len(journal')
    BY <1>1, HeadMovesTypeOK
  <2> QED
    BY <1>1, <2>1, <2>2, <2>3 DEF TypeOK
<1>2. ASSUME NEW found \in SUBSET Fact, Tidy(found)
      PROVE  TypeOK'
  <2>1. /\ files' \in [Name -> Content \cup {Absent}]
        /\ \A n \in Name : /\ ContentOf(files', n) \in Content
                           /\ Held(ContentOf(files', n)) \subseteq Held(ContentOf(files, n))
    BY <1>2, TidyFacts
  <2>2. /\ index' = IndexOf(files') /\ HeadMoves
        /\ UNCHANGED <<journal, through, named, corrected>> /\ kept' \subseteq kept
        /\ suppressed' \subseteq Fact /\ retracted' \subseteq Fact /\ deleted' \subseteq Fact
    BY <1>2 DEF Tidy, TypeOK
  <2> QED
    BY <1>1, <2>1, <2>2
<1>3. ASSUME NEW f \in Fact, EraseFact(f)
      PROVE  TypeOK'
  <2>1. files' = [n \in Name |-> Erased(files[n], {f})]
    BY <1>3 DEF EraseFact
  <2>2. ASSUME NEW n \in Name
        PROVE  /\ files'[n] \in Content \cup {Absent}
               /\ ContentOf(files', n) \in Content
               /\ Held(ContentOf(files', n)) \subseteq Held(ContentOf(files, n))
    BY <2>1, ErasedFacts DEF ContentOf
  <2>3. files' \in [Name -> Content \cup {Absent}]
    BY <2>1, <2>2
  <2>4. /\ index' = IndexOf(files') \/ index' = index
        /\ HeadMoves
        /\ UNCHANGED <<journal, through, named, corrected>> /\ kept' \subseteq kept
        /\ suppressed' \subseteq Fact /\ retracted' \subseteq Fact /\ deleted' \subseteq Fact
    BY <1>3 DEF EraseFact, RecordErased, TypeOK
  <2> QED
    BY <1>1, <2>2, <2>3, <2>4
<1>4. ASSUME NEW k \in Name, EraseEntity(k)
      PROVE  TypeOK'
  <2>1. files' = [files EXCEPT ![k] = Absent]
    BY <1>4 DEF EraseEntity
  <2>2. files' \in [Name -> Content \cup {Absent}]
    BY <2>1 DEF TypeOK
  <2>3. ASSUME NEW n \in Name
        PROVE  /\ ContentOf(files', n) \in Content
               /\ Held(ContentOf(files', n)) \subseteq Held(ContentOf(files, n))
    <3>1. ContentOf(files', n) \in {Blank, ContentOf(files, n)}
      BY <2>1 DEF ContentOf, TypeOK
    <3>2. ContentOf(files', n) \in Content
      BY <2>2, ContentType
    <3>3. Held(Blank) = {}
      BY DEF Blank, Held, Has
    <3> QED
      BY <3>1, <3>2, <3>3
  <2>4. Held(files[k]) \subseteq Fact
    BY DEF Held
  <2>5. /\ index' = IndexOf(files')
        /\ HeadMoves
        /\ UNCHANGED <<journal, through, named, corrected>> /\ kept' \subseteq kept
        /\ suppressed' \subseteq Fact /\ retracted' \subseteq Fact /\ deleted' \subseteq Fact
    BY <1>4, <2>4 DEF EraseEntity, RecordErased, TypeOK
  <2> QED
    BY <1>1, <2>2, <2>3, <2>5
<1> QED
  BY <1>2, <1>3, <1>4 DEF Remove

(* TypeOK is kept by the journal's growth. *)
LEMMA IngestTypeOK ==
    ASSUME TypeOK, NEW e \in Event, Ingest(e)
    PROVE  TypeOK'
<1>1. /\ journal' \in Seq(Event)
      /\ Len(journal') = Len(journal) + 1
      /\ Len(journal) \in Nat
  BY DEF Ingest, TypeOK
<1>2. work # NoWork => work.end \in Nat
  BY DEF TypeOK, Batch
<1>3. /\ through' \in 0..Len(journal')
      /\ work' # NoWork => work'.end \in through'..Len(journal')
  BY <1>1, <1>2 DEF Ingest, TypeOK
<1> QED
  BY <1>1, <1>3 DEF Ingest, TypeOK, controls, ContentOf

(* TypeOK is kept by a batch. *)
LEMMA ConsolidateTypeOK ==
    ASSUME TypeOK, Consolidate
    PROVE  TypeOK'
<1>1. ASSUME NEW end \in 1..Len(journal), StartBatch(end)
      PROVE  TypeOK'
  <2>1. /\ work' \in Batch /\ work'.end \in through..Len(journal)
    BY <1>1, StartFacts
  <2>2. UNCHANGED <<files, controls, index, journal, through, named, kept, corrected>>
    BY <1>1 DEF StartBatch
  <2> QED
    BY <2>1, <2>2 DEF TypeOK, controls, ContentOf
<1>2. ASSUME NEW i \in 1..Len(journal), NEW f \in Fact, Place(i, f)
      PROVE  TypeOK'
  <2>1. work \in Batch /\ work' \in Batch /\ work'.end = work.end
    BY <1>2, PlaceFacts
  <2>2. UNCHANGED <<files, controls, index, journal, through, named, kept, corrected>>
        /\ work # NoWork
    BY <1>2 DEF Place
  <2> QED
    BY <2>1, <2>2 DEF TypeOK, controls, ContentOf
<1>3. ASSUME PublishBatch
      PROVE  TypeOK'
  <2>1. /\ work \in Batch /\ work' = NoWork
        /\ files' \in [Name -> Content \cup {Absent}]
        /\ index' \in [Name -> Nat]
        /\ \A n \in Name : files'[n] = files[n] \/ Cardinality(Held(files'[n])) <= HardRoom
    BY <1>3, PublishBatchFacts
  <2>2. ASSUME NEW n \in Name
        PROVE  Cardinality(Held(ContentOf(files', n))) <= HardRoom
    <3>1. CASE files'[n] = files[n]
      <4>1. ContentOf(files', n) = ContentOf(files, n)
        BY <3>1 DEF ContentOf
      <4> QED
        BY <4>1 DEF TypeOK
    <3>2. CASE files'[n] = Absent
      <4>1. Held(ContentOf(files', n)) = {}
        BY <3>2 DEF ContentOf, Held, Has, Blank
      <4> QED
        BY <4>1, FS_EmptySet, RoomAssumption
    <3>3. CASE files'[n] # Absent /\ files'[n] # files[n]
      BY <2>1, <3>3 DEF ContentOf
    <3> QED
      BY <3>1, <3>2, <3>3
  <2>3. /\ through' \in 0..Len(journal') /\ journal' \in Seq(Event)
    <3>1. work.end \in through..Len(journal) /\ through \in Nat
      BY <2>1, NoWorkAssumption DEF TypeOK
    <3> QED
      BY <1>3, <3>1 DEF PublishBatch, TypeOK
  <2>4. /\ named' \subseteq Fact /\ kept' \subseteq Fact /\ corrected' \subseteq Fact
        /\ suppressed' \subseteq Fact /\ retracted' \subseteq Fact /\ deleted' \subseteq Fact
    BY <1>3, <2>1 DEF PublishBatch, TypeOK, Batch, controls
  <2> QED
    BY <2>1, <2>2, <2>3, <2>4 DEF TypeOK
<1>4. ASSUME AbandonBatch
      PROVE  TypeOK'
  BY <1>4 DEF AbandonBatch, TypeOK, controls, ContentOf
<1> QED
  BY <1>1, <1>2, <1>3, <1>4 DEF Consolidate

(* TypeOK: every variable holds what its file holds, and no entity file    *)
(* outgrows 64 KiB, for any number of facts, files and events.             *)
THEOREM TypeCorrect == Spec => []TypeOK
<1>1. ASSUME Init PROVE TypeOK
  <2>1. \A n \in Name : Held(ContentOf(files, n)) = {}
    BY <1>1 DEF Init, ContentOf, Held, Has, Blank
  <2>2. Cardinality({}) = 0
    BY FS_EmptySet
  <2>3. journal \in Seq(Event) /\ through \in 0..Len(journal)
    BY <1>1 DEF Init
  <2>4. /\ files \in [Name -> Content \cup {Absent}]
        /\ index \in [Name -> Nat]
        /\ work = NoWork
        /\ suppressed = {} /\ retracted = {} /\ deleted = {}
        /\ named = {} /\ kept = {} /\ corrected = {}
    BY <1>1 DEF Init
  <2>5. \A n \in Name : Cardinality(Held(ContentOf(files, n))) <= HardRoom
    BY <2>1, <2>2, RoomAssumption
  <2> QED
    BY <2>3, <2>4, <2>5 DEF TypeOK
<1>2. ASSUME TypeOK, [Next]_vars PROVE TypeOK'
  <2>1. CASE UNCHANGED vars
    BY <1>2, <2>1 DEF vars, controls, TypeOK, ContentOf
  <2> QED
    BY <1>2, <2>1, ChangeTypeOK, RemoveTypeOK, IngestTypeOK, ConsolidateTypeOK DEF Next
<1> QED
  BY <1>1, <1>2, PTL DEF Spec

-----------------------------------------------------------------------------
(* What every publication but a batch's does to the files *)

(* How one file's entry for one fact changes: not at all, dropped,         *)
(* superseded, or written by a caller, who then had a new id for it unless *)
(* the file had the fact.                                                  *)
Rewritten(n, f) ==
    LET x == ContentOf(files', n)[f]
        y == ContentOf(files, n)[f]
    IN  \/ x = y
        \/ x = None
        \/ y # None /\ x = [y EXCEPT !.status = "superseded"]
        \/ /\ x = Active(NoEvent)
           /\ y # None \/ (f \in named' /\ (FreshOnly => f \notin named))

(* A change or a removal as a whole. *)
HeadWritten ==
    /\ HeadMoves
    /\ UNCHANGED <<journal, through>>
    /\ suppressed \subseteq suppressed' /\ named \subseteq named'
    /\ \A f \in (suppressed \cup deleted)' :
          \/ f \in suppressed \cup deleted
          \/ \E n \in Name : f \in Held(ContentOf(files, n))
    /\ \A n \in Name, f \in Fact : Rewritten(n, f)

(* A change that publishes one file rewrites the others not at all. *)
LEMMA FileRewritten ==
    ASSUME TypeOK, NEW n \in Name, NEW c \in Content, NEW gone, PublishFile(n, c, gone)
    PROVE  /\ \A m \in Name \ {n} : ContentOf(files', m) = ContentOf(files, m)
           /\ \A f \in Fact : ContentOf(files', n)[f] \in {None, c[f]}
<1>1. /\ files'[n] = Without(c, gone) /\ files'[n] # Absent
      /\ \A m \in Name \ {n} : files'[m] = files[m]
  BY PublishFileFacts
<1>2. ContentOf(files', n) = Without(c, gone)
  BY <1>1 DEF ContentOf
<1>3. \A f \in Fact : Without(c, gone)[f] \in {None, c[f]}
  BY DEF Without
<1> QED
  BY <1>1, <1>2, <1>3 DEF ContentOf

(* remember writes one fact into what was there. *)
LEMMA RememberWritten ==
    ASSUME TypeOK, NEW f \in Fact, Remember(f)
    PROVE  HeadWritten
<1> DEFINE new(n) == [FileBefore(n) EXCEPT ![f] = Active(NoEvent)]
<1>1. PICK n \in Name : PublishFile(n, new(n), Forgotten)
  BY DEF Remember
<1>2. FileBefore(n) \in Content
  BY FileBeforeType
<1>3. /\ new(n) \in Content /\ \A g \in Fact \ {f} : new(n)[g] = FileBefore(n)[g]
      /\ new(n)[f] = Active(NoEvent)
  BY <1>2, ActiveEntry, UpsertFacts DEF Content
<1>4. \A g \in Fact : FileBefore(n)[g] \in {None, ContentOf(files, n)[g]}
  BY DEF FileBefore, Blank
<1> HIDE DEF new
<1>5. /\ \A m \in Name \ {n} : ContentOf(files', m) = ContentOf(files, m)
      /\ \A g \in Fact : ContentOf(files', n)[g] \in {None, new(n)[g]}
  BY <1>1, <1>3, FileRewritten
<1>6. f \in named' /\ (FreshOnly => f \notin named)
  BY DEF Remember, IsNewId
<1>7. \A m \in Name, g \in Fact : Rewritten(m, g)
  <2>1. ASSUME NEW m \in Name, NEW g \in Fact, m # n
        PROVE  Rewritten(m, g)
    BY <1>5, <2>1 DEF Rewritten
  <2>2. ASSUME NEW g \in Fact, g # f
        PROVE  Rewritten(n, g)
    <3>1. ContentOf(files', n)[g] \in {None, ContentOf(files, n)[g]}
      BY <1>3, <1>4, <1>5, <2>2
    <3> QED
      BY <3>1 DEF Rewritten
  <2>3. Rewritten(n, f)
    <3>1. ContentOf(files', n)[f] \in {None, Active(NoEvent)}
      BY <1>3, <1>5
    <3> QED
      BY <3>1, <1>6 DEF Rewritten
  <2> QED
    BY <2>1, <2>2, <2>3
<1>8. HeadMoves /\ UNCHANGED <<journal, through>>
  BY <1>1 DEF PublishFile
<1> QED
  BY <1>7, <1>8 DEF HeadWritten, Remember, controls

(* correct supersedes one fact and writes another into the same file. *)
LEMMA CorrectWritten ==
    ASSUME TypeOK, NEW f \in Fact, NEW old \in Fact, Correct(old, f)
    PROVE  HeadWritten
<1> DEFINE sup(n) == Supersede(files[n], old)
           new(n) == [sup(n) EXCEPT ![f] = Active(NoEvent)]
<1>1. PICK n \in Name : IsHolder(n, old) /\ PublishFile(n, new(n), Forgotten)
  BY DEF Correct
<1>2. /\ files[n] \in Content /\ ContentOf(files, n) = files[n] /\ Has(files[n], old)
  BY <1>1, HolderFacts
<1>3. new(n) \in Content /\ \A g \in Fact \ {old, f} : new(n)[g] = files[n][g]
  BY <1>2, CorrectedFacts
<1>4. /\ f # old => new(n)[old] = [files[n][old] EXCEPT !.status = "superseded"]
      /\ new(n)[f] = Active(NoEvent)
  BY <1>2 DEF Content, Supersede
<1> HIDE DEF new
<1>5. /\ \A m \in Name \ {n} : ContentOf(files', m) = ContentOf(files, m)
      /\ \A g \in Fact : ContentOf(files', n)[g] \in {None, new(n)[g]}
  BY <1>1, <1>3, FileRewritten
<1>6. f = old \/ (f \in named' /\ (FreshOnly => f \notin named))
  BY DEF Correct, IsNewId
<1>7. \A m \in Name, g \in Fact : Rewritten(m, g)
  <2>1. ASSUME NEW m \in Name, NEW g \in Fact, m # n
        PROVE  Rewritten(m, g)
    BY <1>5, <2>1 DEF Rewritten
  <2>2. ASSUME NEW g \in Fact, g \notin {old, f}
        PROVE  Rewritten(n, g)
    BY <1>2, <1>3, <1>5, <2>2 DEF Rewritten
  <2>3. Rewritten(n, f)
    <3>1. ContentOf(files', n)[f] \in {None, Active(NoEvent)}
      BY <1>4, <1>5
    <3>2. f = old => ContentOf(files, n)[f] # None
      BY <1>2 DEF Has
    <3> QED
      BY <3>1, <3>2, <1>6 DEF Rewritten
  <2>4. ASSUME f # old
        PROVE  Rewritten(n, old)
    <3>1. ContentOf(files', n)[old] \in {None, [files[n][old] EXCEPT !.status = "superseded"]}
      BY <1>4, <1>5, <2>4
    <3> QED
      BY <3>1, <1>2 DEF Rewritten, Has
  <2> QED
    BY <2>1, <2>2, <2>3, <2>4
<1>8. HeadMoves /\ UNCHANGED <<journal, through>>
  BY <1>1 DEF PublishFile
<1> QED
  BY <1>7, <1>8 DEF HeadWritten, Correct, controls

(* forget drops what is forgotten from the file of the fact. *)
LEMMA ForgetWritten ==
    ASSUME TypeOK, NEW f \in Fact, Forget(f)
    PROVE  HeadWritten
<1>1. PICK n \in Name : IsHolder(n, f) /\ PublishFile(n, files[n], suppressed' \cap retracted')
  BY DEF Forget
<1>2. files[n] \in Content /\ ContentOf(files, n) = files[n] /\ Has(files[n], f)
  BY <1>1, HolderFacts
<1>3. /\ \A m \in Name \ {n} : ContentOf(files', m) = ContentOf(files, m)
      /\ \A g \in Fact : ContentOf(files', n)[g] \in {None, files[n][g]}
  BY <1>1, <1>2, FileRewritten
<1>4. \A m \in Name, g \in Fact : Rewritten(m, g)
  BY <1>2, <1>3 DEF Rewritten
<1>5. HeadMoves /\ UNCHANGED <<journal, through>>
  BY <1>1 DEF PublishFile
<1>6. /\ suppressed' = suppressed \cup {f} /\ deleted' = deleted /\ named' = named
  BY DEF Forget
<1>7. \A g \in (suppressed \cup deleted)' :
         g \in suppressed \cup deleted \/ \E m \in Name : g \in Held(ContentOf(files, m))
  BY <1>2, <1>6 DEF Held
<1> QED
  BY <1>4, <1>5, <1>6, <1>7 DEF HeadWritten

(* tidy and erase only drop facts. *)
LEMMA RemoveWritten ==
    ASSUME TypeOK, Remove
    PROVE  HeadWritten
<1>1. ASSUME NEW n \in Name, NEW f \in Fact,
             Has(ContentOf(files', n), f) => ContentOf(files', n)[f] = ContentOf(files, n)[f]
      PROVE  Rewritten(n, f)
  BY <1>1 DEF Rewritten, Has
<1>2. ASSUME NEW found \in SUBSET Fact, Tidy(found)
      PROVE  HeadWritten
  <2>1. \A n \in Name, f \in Fact : Rewritten(n, f)
    BY <1>1, <1>2, TidyFacts
  <2>2. \A f \in found : \E n \in Name : f \in Held(ContentOf(files, n))
    BY <1>2 DEF Tidy, Readable, Current, Held
  <2>3. /\ HeadMoves /\ UNCHANGED <<journal, through, deleted, named>>
        /\ suppressed' = suppressed \cup found
    BY <1>2 DEF Tidy
  <2> QED
    BY <2>1, <2>2, <2>3 DEF HeadWritten
<1>3. ASSUME NEW g \in Fact, EraseFact(g)
      PROVE  HeadWritten
  <2>1. files' = [n \in Name |-> Erased(files[n], {g})]
    BY <1>3 DEF EraseFact
  <2>2. ASSUME NEW n \in Name, NEW f \in Fact, Has(ContentOf(files', n), f)
        PROVE  ContentOf(files', n)[f] = ContentOf(files, n)[f]
    <3>1. LET new == Erased(files[n], {g})
              d == IF new = Absent THEN Blank ELSE new
          IN  \A h \in Fact : Has(d, h) => d[h] = ContentOf(files, n)[h]
      BY ErasedFacts
    <3>2. files'[n] = Erased(files[n], {g})
      BY <2>1
    <3> QED
      BY <2>2, <3>1, <3>2 DEF ContentOf
  <2>3. \A n \in Name, f \in Fact : Rewritten(n, f)
    BY <1>1, <2>2
  <2>4. g \in suppressed \cup deleted \/ \E n \in Name : g \in Held(ContentOf(files, n))
    BY <1>3 DEF EraseFact, Copies, Held
  <2>5. /\ HeadMoves /\ UNCHANGED <<journal, through, named>>
        /\ suppressed' = suppressed \cup {g} /\ deleted' = deleted \cup {g}
    BY <1>3 DEF EraseFact, RecordErased
  <2> QED
    BY <2>3, <2>4, <2>5 DEF HeadWritten
<1>4. ASSUME NEW k \in Name, EraseEntity(k)
      PROVE  HeadWritten
  <2>1. files' = [files EXCEPT ![k] = Absent]
    BY <1>4 DEF EraseEntity
  <2>2. ASSUME NEW n \in Name
        PROVE  ContentOf(files', n) \in {Blank, ContentOf(files, n)}
    BY <2>1 DEF ContentOf, TypeOK
  <2>3. \A n \in Name, f \in Fact : Rewritten(n, f)
    BY <1>1, <2>2 DEF Blank, Has
  <2>4. \A f \in Held(files[k]) : f \in Held(ContentOf(files, k))
    <3>1. files[k] # Absent
      BY <1>4 DEF EraseEntity, ContentOf, Held, Has, Blank
    <3> QED
      BY <3>1 DEF ContentOf, Held
  <2>5. /\ HeadMoves /\ UNCHANGED <<journal, through, named>>
        /\ suppressed' = suppressed \cup Held(files[k]) /\ deleted' = deleted \cup Held(files[k])
    BY <1>4 DEF EraseEntity, RecordErased
  <2> QED
    BY <2>3, <2>4, <2>5 DEF HeadWritten
<1> QED
  BY <1>2, <1>3, <1>4 DEF Remove

(* Every change and every removal. *)
LEMMA Written ==
    ASSUME TypeOK, Change \/ Remove
    PROVE  HeadWritten
BY RememberWritten, CorrectWritten, ForgetWritten, RemoveWritten DEF Change

-----------------------------------------------------------------------------
(* What is forgotten or erased stays out *)

(* BlockedInv is kept by changes and removals, and they bring nothing back: *)
(* every id in use was given before, and a new fact gets a new one.        *)
LEMMA WrittenBlocked ==
    ASSUME TypeOK, BlockedInv, HeadWritten
    PROVE  /\ BlockedInv'
           /\ FreshOnly => \A n \in Name, f \in suppressed \cup deleted :
                              Has(ContentOf(files', n), f) => Has(ContentOf(files, n), f)
<1>1. ASSUME NEW n \in Name, NEW f \in Fact, Has(ContentOf(files', n), f)
      PROVE  Has(ContentOf(files, n), f) \/ (f \in named' /\ (FreshOnly => f \notin named))
  <2>1. Rewritten(n, f)
    BY DEF HeadWritten
  <2> QED
    BY <1>1, <2>1 DEF Rewritten, Has
<1>2. named \subseteq named' /\ suppressed \cup deleted \subseteq named
      /\ suppressed \cup deleted \subseteq Fact
  BY DEF HeadWritten, BlockedInv, TypeOK
<1>3. \A n \in Name, f \in Fact : Has(ContentOf(files, n), f) => f \in named
  BY DEF BlockedInv, Held
<1>4. (suppressed \cup deleted)' \subseteq named'
  <2>1. ASSUME NEW f \in (suppressed \cup deleted)'
        PROVE  f \in suppressed \cup deleted \/ \E n \in Name : f \in Held(ContentOf(files, n))
    BY DEF HeadWritten
  <2>2. \A n \in Name : Held(ContentOf(files, n)) \subseteq named
    BY DEF BlockedInv
  <2> QED
    BY <1>2, <2>1, <2>2
<1>5. \A n \in Name : Held(ContentOf(files', n)) \subseteq named'
  BY <1>1, <1>2, <1>3 DEF Held
<1>6. /\ work' # NoWork => work # NoWork /\ ~work'.fresh
                           /\ work'.files = work.files /\ work'.said = work.said
  BY HeadMovesType DEF HeadWritten, TypeOK
<1>7. work' # NoWork =>
         \A n \in Name : Held(ContentOf(work'.files, n)) \subseteq named' \cup work'.said
  BY <1>2, <1>6 DEF BlockedInv
<1>8. BlockedInv'
  BY <1>4, <1>5, <1>6, <1>7 DEF BlockedInv
<1> QED
  BY <1>1, <1>2, <1>8

(* What a batch has in hand at its start is what the head has, less what is *)
(* forgotten.                                                              *)
LEMMA StartHas ==
    ASSUME TypeOK, NEW end \in 1..Len(journal), StartBatch(end), NEW n \in Name, NEW f \in Fact
    PROVE  /\ ContentOf(work'.files, n)[f] \in {None, ContentOf(files, n)[f]}
           /\ f \notin suppressed => ContentOf(work'.files, n)[f] = ContentOf(files, n)[f]
<1>1. work'.files[n] = IF files[n] = Absent THEN Absent ELSE Without(files[n], Forgotten)
  BY StartFacts
<1>2. CASE files[n] = Absent
  BY <1>1, <1>2 DEF ContentOf
<1>3. CASE files[n] # Absent
  <2>1. Without(files[n], Forgotten) \in Content
    BY <1>3, WithoutFacts DEF TypeOK
  <2>2. ContentOf(work'.files, n) = Without(files[n], Forgotten)
        /\ ContentOf(files, n) = files[n]
    BY <1>1, <1>3, <2>1, AbsentAssumption DEF ContentOf
  <2> QED
    BY <2>2 DEF Without, Forgotten
<1> QED
  BY <1>2, <1>3

(* What a batch has in hand after a proposal is placed. *)
LEMMA PlaceHas ==
    ASSUME TypeOK, NEW i \in 1..Len(journal), NEW f \in Fact, Place(i, f)
    PROVE  \A n \in Name, g \in Fact :
              \/ ContentOf(work'.files, n)[g] = ContentOf(work.files, n)[g]
              \/ n \in work'.changed /\ g = f /\ ContentOf(work'.files, n)[g] = Active(journal[i])
<1>1. PICK n \in Name :
         /\ work'.files[n] = [ContentOf(work.files, n) EXCEPT ![f] = Active(journal[i])]
         /\ work'.files[n] \in Content
         /\ \A m \in Name \ {n} : work'.files[m] = work.files[m]
         /\ work'.changed = work.changed \cup {n}
  BY PlaceFacts
<1>2. ContentOf(work'.files, n) = work'.files[n]
  BY <1>1, AbsentAssumption DEF ContentOf
<1>3. ContentOf(work.files, n) \in Content
  BY PlaceFacts, ContentType DEF Batch
<1>4. \A m \in Name \ {n} : ContentOf(work'.files, m) = ContentOf(work.files, m)
  BY <1>1 DEF ContentOf
<1>5. \A g \in Fact : \/ g # f /\ work'.files[n][g] = ContentOf(work.files, n)[g]
                      \/ g = f /\ work'.files[n][g] = Active(journal[i])
  BY <1>1, <1>3 DEF Content
<1> QED
  BY <1>1, <1>2, <1>4, <1>5

(* What a file has after a batch is published: what it had, or what the    *)
(* batch has in hand, retired.                                             *)
LEMMA PublishHas ==
    ASSUME TypeOK, PublishBatch, NEW n \in Name
    PROVE  LET c == Retire(ContentOf(work.files, n), through + 1, work.end)
           IN  /\ Held(c) = Held(ContentOf(work.files, n))
               /\ \/ ContentOf(files', n) = ContentOf(files, n)
                     /\ n \notin work.changed /\ c = ContentOf(work.files, n)
                  \/ ContentOf(files', n) = c
<1> DEFINE fs == work.files
           new == Retired(fs, through + 1, work.end)
           c == Retire(ContentOf(fs, n), through + 1, work.end)
<1>1. fs \in [Name -> Content \cup {Absent}]
  BY PublishBatchFacts DEF Batch
<1>2. ContentOf(fs, n) \in Content
  BY <1>1, ContentType
<1>3. c \in Content /\ Held(c) = Held(ContentOf(fs, n))
  BY <1>2, RetireFacts
<1>4. /\ fs[n] = Absent => new[n] = Absent /\ c = Blank
      /\ fs[n] # Absent => new[n] = c /\ ContentOf(fs, n) = fs[n]
  BY NoneAssumption DEF Retired, ContentOf, Retire, IsOutdated, Blank
<1>5. \/ files'[n] = files[n] /\ n \notin work.changed /\ new[n] = fs[n]
      \/ files'[n] = new[n]
  BY PublishBatchFacts
<1> HIDE DEF new, c, fs
<1>6. c # Absent
  BY <1>3, AbsentAssumption
<1>7. ASSUME files'[n] = new[n]
      PROVE  ContentOf(files', n) = c
  BY <1>4, <1>6, <1>7 DEF ContentOf
<1>8. ASSUME files'[n] = files[n], new[n] = fs[n]
      PROVE  ContentOf(files', n) = ContentOf(files, n) /\ c = ContentOf(fs, n)
  <2>1. ContentOf(files', n) = ContentOf(files, n)
    BY <1>8 DEF ContentOf
  <2>2. c = ContentOf(fs, n)
    BY <1>4, <1>8 DEF ContentOf
  <2> QED
    BY <2>1, <2>2
<1> QED
  BY <1>3, <1>5, <1>7, <1>8 DEF c, fs

(* BlockedInv is kept by a batch, and what it publishes brings nothing back. *)
LEMMA ConsolidateBlocked ==
    ASSUME TypeOK, BlockedInv, Consolidate
    PROVE  /\ BlockedInv'
           /\ \A n \in Name, f \in suppressed \cup deleted :
                 Has(ContentOf(files', n), f) => Has(ContentOf(files, n), f)
<1>1. ASSUME NEW end \in 1..Len(journal), StartBatch(end)
      PROVE  /\ BlockedInv'
             /\ UNCHANGED files
  <2>1. UNCHANGED <<files, suppressed, deleted, named>>
    BY <1>1 DEF StartBatch, controls
  <2>2. work'.blocked = suppressed \cup deleted
    BY <1>1, StartFacts
  <2>3. \A n \in Name, f \in Fact : Has(ContentOf(work'.files, n), f) => Has(ContentOf(files, n), f)
    BY <1>1, StartHas DEF Has
  <2>4. \A n \in Name : Held(ContentOf(work'.files, n)) \subseteq named
    BY <2>3 DEF BlockedInv, Held
  <2>5. \A n \in Name, f \in suppressed \cup deleted :
           Has(ContentOf(work'.files, n), f) => Has(ContentOf(files, n), f)
    BY <2>3 DEF TypeOK
  <2>6. \A n \in Name : ContentOf(files', n) = ContentOf(files, n)
    BY <2>1
  <2> QED
    BY <2>1, <2>2, <2>4, <2>5, <2>6 DEF BlockedInv
<1>2. ASSUME NEW i \in 1..Len(journal), NEW f \in Fact, Place(i, f)
      PROVE  /\ BlockedInv'
             /\ UNCHANGED files
  <2>1. UNCHANGED <<files, suppressed, deleted, named>> /\ work # NoWork
    BY <1>2 DEF Place, controls
  <2>2. /\ work'.fresh = work.fresh /\ work'.blocked = work.blocked
        /\ work'.said = work.said \cup {f} /\ f \notin work.blocked
    BY <1>2, PlaceFacts
  <2>3. \A n \in Name, g \in Fact :
           Has(ContentOf(work'.files, n), g) => g = f \/ Has(ContentOf(work.files, n), g)
    BY <1>2, PlaceHas DEF Has
  <2>4. \A n \in Name : Held(ContentOf(work'.files, n)) \subseteq named \cup work'.said
    BY <2>1, <2>2, <2>3 DEF BlockedInv, Held
  <2>5. ASSUME work.fresh, NEW n \in Name, NEW g \in suppressed \cup deleted
        PROVE  /\ g \in work.blocked
               /\ Has(ContentOf(work'.files, n), g) => Has(ContentOf(files, n), g)
    <3>1. /\ g \in work.blocked
          /\ Has(ContentOf(work.files, n), g) => Has(ContentOf(files, n), g)
      BY <2>1, <2>5 DEF BlockedInv
    <3>2. g \in Fact
      BY DEF TypeOK
    <3> QED
      BY <2>2, <2>3, <3>1, <3>2
  <2>6. \A n \in Name : ContentOf(files', n) = ContentOf(files, n)
    BY <2>1
  <2>7. work'.fresh => \A n \in Name, g \in suppressed \cup deleted :
           /\ g \in work'.blocked
           /\ Has(ContentOf(work'.files, n), g) => Has(ContentOf(files', n), g)
    BY <2>2, <2>5, <2>6
  <2>8. /\ suppressed' \cup deleted' \subseteq named'
        /\ \A n \in Name : Held(ContentOf(files', n)) \subseteq named'
    BY <2>1, <2>6 DEF BlockedInv
  <2> QED
    BY <2>1, <2>4, <2>7, <2>8 DEF BlockedInv
<1>3. ASSUME PublishBatch
      PROVE  /\ BlockedInv'
             /\ \A n \in Name, f \in suppressed \cup deleted :
                   Has(ContentOf(files', n), f) => Has(ContentOf(files, n), f)
  <2>1. /\ work # NoWork /\ work.fresh /\ work' = NoWork
        /\ UNCHANGED <<suppressed, deleted>> /\ named' = named \cup work.said
    BY <1>3 DEF PublishBatch, controls
  <2>2. \A n \in Name : \/ ContentOf(files', n) = ContentOf(files, n)
                        \/ Held(ContentOf(files', n)) = Held(ContentOf(work.files, n))
    BY <1>3, PublishHas
  <2>3. \A n \in Name : Held(ContentOf(files', n)) \subseteq named'
    BY <2>1, <2>2 DEF BlockedInv
  <2>4. ASSUME NEW n \in Name, NEW f \in suppressed \cup deleted, Has(ContentOf(files', n), f)
        PROVE  Has(ContentOf(files, n), f)
    <3>1. f \in Fact
      BY DEF TypeOK
    <3>2. f \in Held(ContentOf(files', n))
      BY <2>4, <3>1 DEF Held
    <3>3. Has(ContentOf(files, n), f) \/ Has(ContentOf(work.files, n), f)
      BY <2>2, <2>4, <3>2 DEF Held
    <3> QED
      BY <2>1, <3>3 DEF BlockedInv
  <2> QED
    BY <2>1, <2>3, <2>4 DEF BlockedInv
<1>4. ASSUME AbandonBatch
      PROVE  BlockedInv' /\ UNCHANGED files
  BY <1>4 DEF AbandonBatch, BlockedInv, controls, ContentOf
<1>5. ASSUME UNCHANGED files
      PROVE  \A n \in Name : ContentOf(files', n) = ContentOf(files, n)
  BY <1>5
<1> QED
  BY <1>1, <1>2, <1>3, <1>4, <1>5 DEF Consolidate

(* BlockedInv holds in every step, and no step brings anything back. *)
LEMMA BlockedStep ==
    ASSUME FreshOnly, TypeOK, BlockedInv, [Next]_vars
    PROVE  /\ BlockedInv'
           /\ \A n \in Name, f \in suppressed \cup deleted :
                 Has(ContentOf(files, n), f)' => Has(ContentOf(files, n), f)
<1>1. CASE Change \/ Remove
  BY <1>1, Written, WrittenBlocked
<1>2. ASSUME NEW e \in Event, Ingest(e)
      PROVE  UNCHANGED <<files, suppressed, deleted, named, work>>
  BY <1>2 DEF Ingest, controls
<1>3. ASSUME UNCHANGED <<files, suppressed, deleted, named, work>>
      PROVE  BlockedInv' /\ \A n \in Name : ContentOf(files', n) = ContentOf(files, n)
  BY <1>3 DEF BlockedInv, ContentOf
<1>4. CASE UNCHANGED <<files, suppressed, deleted, named, work>>
  BY <1>3, <1>4
<1>5. CASE \E e \in Event : Ingest(e)
  BY <1>2, <1>4, <1>5
<1>6. CASE UNCHANGED vars
  BY <1>4, <1>6 DEF vars, controls
<1>7. CASE Consolidate
  BY <1>7, ConsolidateBlocked
<1> QED
  BY <1>1, <1>5, <1>6, <1>7 DEF Next

(* The first state has no files and no controls. *)
LEMMA InitBlocked ==
    ASSUME Init
    PROVE  BlockedInv
<1>1. \A n \in Name : Held(ContentOf(files, n)) = {}
  BY DEF Init, ContentOf, Held, Has, Blank
<1> QED
  BY <1>1 DEF Init, BlockedInv

(* BlockedInv: whatever callers remember, forget, tidy and erase while a    *)
(* batch is under way, a batch that can still be published knows what is   *)
(* blocked.                                                                *)
THEOREM BatchKnowsBlocked ==
    ASSUME FreshOnly
    PROVE  Spec => []BlockedInv
<1>1. TypeOK /\ BlockedInv /\ [Next]_vars => BlockedInv'
  BY BlockedStep
<1> QED
  BY <1>1, InitBlocked, TypeCorrect, PTL DEF Spec

(* BlockedStaysOut: consolidation never re-creates what is forgotten or    *)
(* erased, for any facts, files and events, as long as callers leave ids   *)
(* of new facts to the program.                                            *)
THEOREM NothingComesBack ==
    ASSUME FreshOnly
    PROVE  Spec => BlockedStaysOut
<1>1. TypeOK /\ BlockedInv /\ [Next]_vars =>
         [\A n \in Name, f \in suppressed \cup deleted :
             Has(ContentOf(files, n), f)' => Has(ContentOf(files, n), f)]_vars
  BY BlockedStep
<1> QED
  BY <1>1, BatchKnowsBlocked, TypeCorrect, PTL DEF Spec, BlockedStaysOut

-----------------------------------------------------------------------------
(* A memory file's facts are from its latest version *)

(* What is dropped, superseded or from no version is from no old version. *)
LEMMA NotFromOld ==
    ASSUME TypeOK, NEW t \in 0..Len(journal), NEW x,
           x = None \/ x.status = "superseded" \/ x.origin = NoEvent
    PROVE  ~FromOldVersion(x, t)
<1>1. \A i \in 1..t : journal[i] \in Event
  BY DEF TypeOK
<1> QED
  BY <1>1, FactAssumption DEF FromOldVersion

(* CurrentInv after a step that leaves the checkpoint and what the journal *)
(* has up to it, in terms of the journal before the step.                  *)
LEMMA CurrentNext ==
    ASSUME through' = through,
           \A i \in 1..through : journal'[i] = journal[i],
           \A i, j \in DOMAIN journal' : journal'[i] = journal'[j] => i = j,
           \A n \in Name, f \in Fact \ suppressed' :
              ~FromOldVersion(ContentOf(files', n)[f], through),
           work' # NoWork /\ work'.fresh =>
              \A n \in Name, f \in Fact \ suppressed' :
                 /\ ~FromOldVersion(ContentOf(work'.files, n)[f], through)
                 /\ n \notin work'.changed =>
                       ContentOf(files', n)[f] = ContentOf(work'.files, n)[f]
    PROVE  CurrentInv'
<1>1. FileFactsCurrent'
  BY DEF FileFactsCurrent, FromOldVersion
<1>2. ASSUME work' # NoWork /\ work'.fresh
      PROVE  (\A n \in Name, f \in Fact \ suppressed :
                 /\ ~FromOldVersion(ContentOf(work.files, n)[f], through)
                 /\ n \notin work.changed =>
                       ContentOf(files, n)[f] = ContentOf(work.files, n)[f])'
  BY <1>2 DEF FromOldVersion
<1> QED
  BY <1>1, <1>2 DEF CurrentInv

(* CurrentInv is kept by changes and removals. *)
LEMMA WrittenCurrent ==
    ASSUME TypeOK, CurrentInv, HeadWritten
    PROVE  CurrentInv'
<1>1. UNCHANGED <<journal, through>> /\ suppressed \subseteq suppressed'
      /\ through \in 0..Len(journal)
  BY DEF HeadWritten, TypeOK
<1>2. ASSUME NEW n \in Name, NEW f \in Fact \ suppressed'
      PROVE  ~FromOldVersion(ContentOf(files', n)[f], through)
  <2> DEFINE x == ContentOf(files', n)[f]
             y == ContentOf(files, n)[f]
  <2>1. Rewritten(n, f)
    BY DEF HeadWritten
  <2>2. ~FromOldVersion(y, through)
    BY <1>1 DEF CurrentInv, FileFactsCurrent
  <2>3. y # None => y \in Entry
    <3>1. ContentOf(files, n) \in Content
      BY ContentType DEF TypeOK
    <3> QED
      BY <3>1 DEF Content
  <2>4. \/ x = y
        \/ x = None \/ x.status = "superseded" \/ x.origin = NoEvent
    BY <2>1, <2>3 DEF Rewritten, Entry, Active
  <2> HIDE DEF x, y
  <2>5. ~FromOldVersion(x, through)
    BY <1>1, <2>2, <2>4, NotFromOld
  <2> QED
    BY <2>5 DEF x
<1>3. work' # NoWork => ~work'.fresh
  BY HeadMovesType DEF HeadWritten, TypeOK
<1>4. \A i, j \in DOMAIN journal' : journal'[i] = journal'[j] => i = j
  BY <1>1 DEF CurrentInv
<1> QED
  BY <1>1, <1>2, <1>3, <1>4, CurrentNext

(* CurrentInv, as used in a step. *)
LEMMA CurrentFacts ==
    ASSUME CurrentInv
    PROVE  /\ \A i, j \in DOMAIN journal : journal[i] = journal[j] => i = j
           /\ \A n \in Name, f \in Fact \ suppressed :
                 ~FromOldVersion(ContentOf(files, n)[f], through)
           /\ work # NoWork /\ work.fresh =>
                 \A n \in Name, f \in Fact \ suppressed :
                    /\ ~FromOldVersion(ContentOf(work.files, n)[f], through)
                    /\ n \notin work.changed =>
                          ContentOf(files, n)[f] = ContentOf(work.files, n)[f]
BY DEF CurrentInv, FileFactsCurrent

(* CurrentInv is kept by the journal's growth: an event is ingested once. *)
LEMMA IngestCurrent ==
    ASSUME TypeOK, CurrentInv, NEW e \in Event, Ingest(e)
    PROVE  CurrentInv'
<1>1. /\ journal' = Append(journal, e) /\ UNCHANGED <<files, suppressed, through, work>>
      /\ \A i \in DOMAIN journal : journal[i] # e
  BY DEF Ingest, controls
<1>2. /\ Len(journal) \in Nat /\ DOMAIN journal = 1..Len(journal)
      /\ DOMAIN journal' = 1..(Len(journal) + 1)
      /\ \A i \in 1..Len(journal) : journal'[i] = journal[i]
      /\ journal'[Len(journal) + 1] = e
      /\ through \in 0..Len(journal)
  BY <1>1 DEF TypeOK
<1>3. \A i, j \in DOMAIN journal' : journal'[i] = journal'[j] => i = j
  BY <1>1, <1>2, CurrentFacts
<1>4. \A i \in 1..through : journal'[i] = journal[i]
  BY <1>2
<1> QED
  BY <1>1, <1>3, <1>4, CurrentFacts, CurrentNext

(* CurrentInv is kept when a batch starts. *)
LEMMA StartCurrent ==
    ASSUME TypeOK, CurrentInv, NEW end \in 1..Len(journal), StartBatch(end)
    PROVE  CurrentInv'
<1>1. UNCHANGED <<files, suppressed, journal, through>>
  BY DEF StartBatch, controls
<1>2. \A n \in Name, f \in Fact \ suppressed :
         ContentOf(work'.files, n)[f] = ContentOf(files, n)[f]
  BY StartHas
<1> QED
  BY <1>1, <1>2, CurrentFacts, CurrentNext

(* CurrentInv is kept when a proposal is placed: what is said in the window *)
(* is from no event before it.                                             *)
LEMMA PlaceCurrent ==
    ASSUME TypeOK, CurrentInv, NEW i \in 1..Len(journal), NEW f \in Fact, Place(i, f)
    PROVE  CurrentInv'
<1>1. UNCHANGED <<files, suppressed, journal, through>> /\ work # NoWork
  BY DEF Place, controls
<1>2. /\ i \in (through + 1)..work.end /\ work'.fresh = work.fresh
      /\ work.changed \subseteq work'.changed
      /\ through \in 0..Len(journal)
  BY PlaceFacts DEF TypeOK
<1>3. ~FromOldVersion(Active(journal[i]), through)
  <2>1. \A k \in 1..through : journal[k] # journal[i]
    BY <1>2, CurrentFacts DEF TypeOK
  <2> QED
    BY <2>1 DEF FromOldVersion, Active
<1>4. ASSUME work.fresh, NEW n \in Name, NEW g \in Fact \ suppressed
      PROVE  /\ ~FromOldVersion(ContentOf(work'.files, n)[g], through)
             /\ n \notin work'.changed =>
                   ContentOf(files', n)[g] = ContentOf(work'.files, n)[g]
  <2>1. \/ ContentOf(work'.files, n)[g] = ContentOf(work.files, n)[g]
        \/ n \in work'.changed /\ ContentOf(work'.files, n)[g] = Active(journal[i])
    BY PlaceHas
  <2>2. /\ ~FromOldVersion(ContentOf(work.files, n)[g], through)
        /\ n \notin work.changed => ContentOf(files, n)[g] = ContentOf(work.files, n)[g]
    BY <1>1, <1>4, CurrentFacts
  <2> QED
    BY <1>1, <1>2, <1>3, <2>1, <2>2
<1> QED
  BY <1>1, <1>2, <1>4, CurrentFacts, CurrentNext

(* What a batch retires is from an old version no more: of a version that  *)
(* another one in the window follows, by injectivity of the journal.       *)
LEMMA RetiredCurrent ==
    ASSUME TypeOK, NEW t \in through..Len(journal), NEW c \in Content, NEW f \in Fact,
           \A i, j \in DOMAIN journal : journal[i] = journal[j] => i = j,
           ~FromOldVersion(c[f], through)
    PROVE  ~FromOldVersion(Retire(c, through + 1, t)[f], t)
<1>1. SUFFICES ASSUME FromOldVersion(Retire(c, through + 1, t)[f], t)
               PROVE  FALSE
  OBVIOUS
<1>2. t \in Nat /\ through \in Nat /\ t <= Len(journal) /\ DOMAIN journal = 1..Len(journal)
  BY DEF TypeOK
<1>3. c[f] \in Entry \cup {None}
  BY DEF Content
<1>4. CASE IsOutdated(c[f], through + 1, t)
  <2>1. c[f] \in Entry
    BY <1>3, <1>4 DEF IsOutdated
  <2>2. Retire(c, through + 1, t)[f] = [c[f] EXCEPT !.status = "superseded"]
    BY <1>4 DEF Retire
  <2>3. Retire(c, through + 1, t)[f].status = "superseded"
    BY <2>1, <2>2 DEF Entry
  <2> QED
    BY <1>1, <2>3 DEF FromOldVersion
<1>5. CASE ~IsOutdated(c[f], through + 1, t)
  <2>1. Retire(c, through + 1, t)[f] = c[f]
    BY <1>5 DEF Retire
  <2>2. PICK i \in 1..t, j \in 1..t :
           /\ i < j
           /\ {journal[i], journal[j]} \subseteq Versions
           /\ c[f] # None /\ c[f].status = "active" /\ c[f].origin = journal[i]
    BY <1>1, <2>1 DEF FromOldVersion
  <2>3. j > through
    <3>1. SUFFICES ASSUME j <= through
                   PROVE  FALSE
      BY <1>2
    <3>2. i \in 1..through /\ j \in 1..through
      BY <1>2, <2>2, <3>1
    <3> QED
      BY <2>2, <3>2 DEF FromOldVersion
  <2>4. j \in VersionsAt(through + 1, t)
    BY <1>2, <2>2, <2>3 DEF VersionsAt
  <2>5. ASSUME NEW k \in VersionsAt(through + 1, t), j <= k
        PROVE  c[f].origin # journal[k]
    <3>1. k \in 1..t
      BY <1>2 DEF VersionsAt
    <3> QED
      BY <1>2, <2>2, <2>5, <3>1
  <2>6. IsOutdated(c[f], through + 1, t)
    BY <2>2, <2>4, <2>5 DEF IsOutdated
  <2> QED
    BY <1>5, <2>6
<1> QED
  BY <1>4, <1>5

(* CurrentInv is kept when a batch is published. *)
LEMMA PublishCurrent ==
    ASSUME TypeOK, CurrentInv, PublishBatch
    PROVE  CurrentInv'
<1>1. /\ work \in Batch /\ work # NoWork /\ work.fresh /\ work' = NoWork
      /\ UNCHANGED <<suppressed, journal>> /\ through' = work.end
      /\ work.end \in through..Len(journal)
  BY PublishBatchFacts DEF PublishBatch, controls, TypeOK
<1>2. ASSUME NEW n \in Name, NEW f \in Fact \ suppressed
      PROVE  ~FromOldVersion(ContentOf(files', n)[f], work.end)
  <2> DEFINE w == ContentOf(work.files, n)
             c == Retire(w, through + 1, work.end)
  <2>1. w \in Content
    BY <1>1, ContentType DEF Batch
  <2>2. ~FromOldVersion(w[f], through)
    BY <1>1, CurrentFacts
  <2>3. ~FromOldVersion(c[f], work.end)
    <3> HIDE DEF w
    <3> QED
      BY <1>1, <2>1, <2>2, RetiredCurrent, CurrentFacts
  <2>4. \/ ContentOf(files', n) = ContentOf(files, n) /\ n \notin work.changed /\ c = w
        \/ ContentOf(files', n) = c
    BY PublishHas
  <2>5. n \notin work.changed => ContentOf(files, n)[f] = w[f]
    BY <1>1, CurrentFacts
  <2> HIDE DEF w, c
  <2>6. ContentOf(files', n)[f] = c[f]
    BY <2>4, <2>5
  <2> QED
    BY <2>3, <2>6
<1>3. FileFactsCurrent'
  BY <1>1, <1>2 DEF FileFactsCurrent, FromOldVersion
<1>4. (\A i, j \in DOMAIN journal : journal[i] = journal[j] => i = j)'
  BY <1>1, CurrentFacts
<1> QED
  BY <1>1, <1>3, <1>4 DEF CurrentInv

(* CurrentInv holds in every step. *)
LEMMA CurrentStep ==
    ASSUME TypeOK, CurrentInv, [Next]_vars
    PROVE  CurrentInv'
<1>1. CASE Change \/ Remove
  BY <1>1, Written, WrittenCurrent
<1>2. CASE \E e \in Event : Ingest(e)
  BY <1>2, IngestCurrent
<1>3. CASE Consolidate
  <2>1. CASE AbandonBatch
    <3>1. UNCHANGED <<files, suppressed, journal, through>> /\ work' = NoWork
      BY <2>1 DEF AbandonBatch, controls
    <3> QED
      BY <3>1, CurrentFacts, CurrentNext
  <2> QED
    BY <1>3, <2>1, StartCurrent, PlaceCurrent, PublishCurrent DEF Consolidate
<1>4. CASE UNCHANGED vars
  <2>1. UNCHANGED <<files, suppressed, journal, through, work>>
    BY <1>4 DEF vars, controls
  <2> QED
    BY <2>1, CurrentFacts, CurrentNext
<1> QED
  BY <1>1, <1>2, <1>3, <1>4 DEF Next

(* The first state has no facts and no journal. *)
LEMMA InitCurrent ==
    ASSUME Init
    PROVE  CurrentInv
<1>1. through = 0 /\ journal = <<>> /\ work = NoWork
  BY DEF Init
<1>2. \A x : ~FromOldVersion(x, through)
  BY <1>1 DEF FromOldVersion
<1>3. FileFactsCurrent
  BY <1>2 DEF FileFactsCurrent
<1> QED
  BY <1>1, <1>3 DEF CurrentInv

(* CurrentInv: a batch that can still be published has nothing outdated in *)
(* hand but what it will retire itself.                                    *)
THEOREM BatchIsCurrent == Spec => []CurrentInv
<1>1. TypeOK /\ CurrentInv /\ [Next]_vars => CurrentInv'
  BY CurrentStep
<1> QED
  BY <1>1, InitCurrent, TypeCorrect, PTL DEF Spec

(* FileFactsCurrent: what a reader sees of a memory file is from its latest *)
(* version consolidated, for any facts, files, events and windows.         *)
THEOREM LatestVersion == Spec => []FileFactsCurrent
<1>1. CurrentInv => FileFactsCurrent
  BY DEF CurrentInv
<1> QED
  BY <1>1, BatchIsCurrent, PTL

-----------------------------------------------------------------------------
(* The family *)

(* File number 51 is in no family: load_family reads fifty. *)
FamilyRead == files[MaxFiles + 1] = Absent

(* A set of numbers has a least one. *)
LEMMA LeastNumber ==
    ASSUME NEW T \in SUBSET Nat, T # {}
    PROVE  \E x \in T : \A y \in T : x <= y
<1>1. PICK x \in T : \A y \in T : <<y, x>> \notin OpToRel(<, Nat)
  BY NatLessThanWellFounded, WFMin
<1>2. \A y \in T : ~(y < x)
  BY <1>1 DEF OpToRel
<1> QED
  BY <1>2

(* The family is an initial segment of the files, and the next spill file  *)
(* is missing, or out of reach.                                            *)
LEMMA FamilySegment ==
    \E k \in 1..MaxFiles :
       /\ Family = 1..k /\ Cardinality(Family) = k
       /\ k = MaxFiles \/ files[k + 1] = Absent
<1>0. MaxFiles \in Nat /\ MaxFiles >= 1
  BY RoomAssumption
<1> DEFINE Out == {n \in 1..MaxFiles : n \notin Family}
<1>1. CASE Out = {}
  <2>1. Family = 1..MaxFiles
    BY <1>1 DEF Family
  <2>2. Cardinality(Family) = MaxFiles
    BY <1>0, <2>1, FS_Interval
  <2> QED
    BY <1>0, <2>1, <2>2
<1>2. CASE Out # {}
  <2>0. Out \in SUBSET Nat
    OBVIOUS
  <2>1. PICK n \in Out : \A m \in Out : n <= m
    <3> HIDE DEF Out
    <3> QED
      BY <1>2, <2>0, LeastNumber
  <2>2. n \in 1..MaxFiles /\ n \notin Family /\ \A m \in 1..(n - 1) : m \in Family
    BY <1>0, <2>1
  <2>3. PICK gap \in 2..n : files[gap] = Absent
    BY <2>2 DEF Family
  <2>4. gap = n
    <3>1. SUFFICES ASSUME gap # n
                   PROVE  FALSE
      OBVIOUS
    <3>2. gap \in 1..(n - 1) /\ gap \in 2..gap
      BY <1>0, <2>2, <2>3, <3>1
    <3> QED
      BY <2>2, <2>3, <3>2 DEF Family
  <2>5. Family = 1..(n - 1)
    <3>1. ASSUME NEW m \in Family
          PROVE  m \in 1..(n - 1)
      <4>1. m \in 1..MaxFiles /\ \A j \in 2..m : files[j] # Absent
        BY <3>1 DEF Family
      <4> QED
        BY <1>0, <2>2, <2>3, <2>4, <4>1
    <3> QED
      BY <2>2, <3>1
  <2>6. n - 1 \in 1..MaxFiles /\ (n - 1) + 1 = n
    BY <1>0, <2>2, <2>3, <2>4
  <2>7. Cardinality(Family) = n - 1
    BY <1>0, <2>5, <2>6, FS_Interval
  <2> QED
    BY <2>3, <2>4, <2>5, <2>6, <2>7
<1> QED
  BY <1>1, <1>2

(* A remembered fact goes to its holder, to a file of the family with room, *)
(* or to a file that is not there.                                         *)
LEMMA GoesToFacts ==
    ASSUME NEW n \in Name, NEW f \in Fact, GoesTo(n, f)
    PROVE  /\ n \in Family \/ (n \notin Family /\ (files[n] = Absent \/ n = MaxFiles + 1))
           /\ n \notin Family => FileBefore(n) = Blank
<1>1. PICK k \in 1..MaxFiles :
         /\ Family = 1..k /\ Cardinality(Family) = k
         /\ k = MaxFiles \/ files[k + 1] = Absent
  BY FamilySegment
<1>2. n \in Family \/ n = k + 1
  BY <1>1 DEF GoesTo, IsHolder
<1> QED
  BY <1>1, <1>2, RoomAssumption DEF FileBefore

-----------------------------------------------------------------------------
(* What was remembered is readable *)

(* The ids that callers get are not those that consolidation computes.     *)
OwnApart == \A e \in Event : Says[e] \cap Own = {}

(* A caller's fact is in one file at most. *)
OwnOnce == \A f \in Own : \A m, n \in Copies(files, f) : m = n

(* In a file it is in no control that hides it, and from no event. *)
OwnOpen ==
    \A n \in Name, f \in Own : Has(ContentOf(files, n), f) =>
        /\ f \notin suppressed \cup deleted
        /\ ContentOf(files, n)[f].origin = NoEvent

KeptHeld ==
    /\ kept \subseteq Own
    /\ \A f \in kept : /\ f \notin suppressed \cup deleted
                       /\ \E n \in Name : f \in Current(ContentOf(files, n))

(* A batch on the present head has the callers' facts as the head has them. *)
OwnInHand ==
    work # NoWork /\ work.fresh =>
        \A n \in Name, f \in Own \ suppressed :
            ContentOf(work.files, n)[f] = ContentOf(files, n)[f]

OwnInv == retracted \subseteq suppressed /\ OwnOnce /\ OwnOpen /\ KeptHeld /\ OwnInHand

(* The four things that may happen to a caller's fact when the head moves: *)
(* nothing; it is removed from every file; it is written to one file; it   *)
(* is superseded.                                                          *)
Unmoved(f) ==
    /\ \A n \in Name : ContentOf(files', n)[f] = ContentOf(files, n)[f]
    /\ f \in kept' => f \in kept
    /\ f \in (suppressed \cup deleted)' =>
          f \in suppressed \cup deleted \/ \A n \in Name : ~Has(ContentOf(files, n), f)

Removed(f) ==
    /\ \A n \in Name : ContentOf(files', n)[f] = None
    /\ f \notin kept'

WrittenOnce(f) ==
    /\ f \notin (suppressed \cup deleted)'
    /\ \E n \in Name :
          /\ ContentOf(files', n)[f] = Active(NoEvent)
          /\ \A m \in Name \ {n} : ContentOf(files', m)[f] = None

Replaced(f) ==
    /\ f \notin (suppressed \cup deleted)' /\ f \notin kept'
    /\ \E n \in Name :
          /\ Has(ContentOf(files, n), f)
          /\ ContentOf(files', n)[f] = [ContentOf(files, n)[f] EXCEPT !.status = "superseded"]
          /\ \A m \in Name \ {n} : ContentOf(files', m)[f] = ContentOf(files, m)[f]

Moved(f) == Unmoved(f) \/ Removed(f) \/ WrittenOnce(f) \/ Replaced(f)

(* The invariant is kept by whatever moves the callers' facts so. *)
LEMMA MovedKeepsOwn ==
    ASSUME TypeOK, OwnInv, \A f \in Own : Moved(f),
           retracted' \subseteq suppressed', kept' \subseteq Own,
           work' # NoWork /\ work'.fresh =>
              /\ work # NoWork /\ work.fresh
              /\ UNCHANGED <<suppressed, work>>
              /\ \A n \in Name, f \in Own : ContentOf(files', n)[f] = ContentOf(files, n)[f]
    PROVE  OwnInv'
<1>0. Own \subseteq Fact /\ NoEvent \notin Event /\ None \notin Entry
  BY FactAssumption, NoneAssumption
<1>1. \A n \in Name, f \in Own : ContentOf(files, n)[f] \in Entry \cup {None}
  <2>1. \A n \in Name : ContentOf(files, n) \in Content
    BY ContentType DEF TypeOK
  <2> QED
    BY <1>0, <2>1 DEF Content
<1>2. Active(NoEvent) \in Entry /\ Active(NoEvent).origin = NoEvent /\ Active(NoEvent).status = "active"
  BY ActiveEntry DEF Active
<1>3. OwnOnce'
  <2>1. ASSUME NEW f \in Own, NEW m \in Copies(files', f), NEW n \in Copies(files', f)
        PROVE  m = n
    <3>1. m \in Name /\ n \in Name /\ ContentOf(files', m)[f] # None /\ ContentOf(files', n)[f] # None
      BY <2>1 DEF Copies, Has
    <3>2. \A j, k \in Name : ContentOf(files, j)[f] # None /\ ContentOf(files, k)[f] # None => j = k
      BY DEF OwnInv, OwnOnce, Copies, Has
    <3>3. CASE WrittenOnce(f)
      BY <3>1, <3>3 DEF WrittenOnce
    <3>4. CASE Replaced(f)
      BY <3>1, <3>2, <3>4 DEF Replaced, Has
    <3> QED
      BY <3>1, <3>2, <3>3, <3>4 DEF Moved, Unmoved, Removed
  <2> QED
    BY <2>1 DEF OwnOnce, Copies
<1>4. OwnOpen'
  <2>1. ASSUME NEW n \in Name, NEW f \in Own, Has(ContentOf(files', n), f)
        PROVE  /\ f \notin (suppressed \cup deleted)'
               /\ ContentOf(files', n)[f].origin = NoEvent
    <3>1. Has(ContentOf(files, n), f) => /\ f \notin suppressed \cup deleted
                                         /\ ContentOf(files, n)[f].origin = NoEvent
      BY DEF OwnInv, OwnOpen
    <3>2. CASE Unmoved(f)
      BY <2>1, <3>1, <3>2 DEF Unmoved, Has
    <3>3. CASE WrittenOnce(f)
      BY <1>2, <2>1, <3>3 DEF WrittenOnce, Has
    <3>4. CASE Replaced(f)
      <4>1. PICK k \in Name :
               /\ Has(ContentOf(files, k), f)
               /\ ContentOf(files', k)[f] = [ContentOf(files, k)[f] EXCEPT !.status = "superseded"]
               /\ \A m \in Name \ {k} : ContentOf(files', m)[f] = ContentOf(files, m)[f]
        BY <3>4 DEF Replaced
      <4>2. CASE n = k
        <5>1. ContentOf(files, n)[f] \in Entry
          BY <1>1, <4>1, <4>2 DEF Has
        <5> QED
          BY <3>1, <3>4, <4>1, <4>2, <5>1 DEF Replaced, Entry
      <4>3. CASE n # k
        BY <2>1, <3>1, <3>4, <4>1, <4>3 DEF Has, Replaced
      <4> QED
        BY <4>2, <4>3
    <3> QED
      BY <2>1, <3>2, <3>3, <3>4 DEF Moved, Removed, Has
  <2> QED
    BY <2>1 DEF OwnOpen
<1>5. KeptHeld'
  <2>1. ASSUME NEW f \in kept'
        PROVE  /\ f \notin (suppressed \cup deleted)'
               /\ \E n \in Name : f \in Current(ContentOf(files', n))
    <3>0. f \in Own /\ f \in Fact
      BY <1>0
    <3>1. CASE Unmoved(f)
      <4>1. PICK n \in Name : f \in Current(ContentOf(files, n))
        BY <3>1 DEF Unmoved, OwnInv, KeptHeld
      <4>2. f \notin suppressed \cup deleted /\ Has(ContentOf(files, n), f)
        BY <3>1, <4>1 DEF Unmoved, OwnInv, KeptHeld, Current
      <4>3. f \in Current(ContentOf(files', n))
        BY <3>1, <4>1 DEF Unmoved, Current, Has
      <4> QED
        BY <3>1, <4>2, <4>3 DEF Unmoved
    <3>2. CASE WrittenOnce(f)
      <4>1. PICK n \in Name : ContentOf(files', n)[f] = Active(NoEvent)
        BY <3>2 DEF WrittenOnce
      <4>2. f \in Current(ContentOf(files', n))
        BY <1>0, <1>2, <3>0, <4>1 DEF Current, Has
      <4> QED
        BY <3>2, <4>2 DEF WrittenOnce
    <3> QED
      BY <3>0, <3>1, <3>2 DEF Moved, Removed, Replaced
  <2> QED
    BY <2>1 DEF KeptHeld
<1>6. OwnInHand'
  <2>1. ASSUME work' # NoWork, work'.fresh
        PROVE  \A n \in Name, f \in Own \ suppressed' :
                  ContentOf(work'.files, n)[f] = ContentOf(files', n)[f]
    BY <2>1 DEF OwnInv, OwnInHand
  <2> QED
    BY <2>1 DEF OwnInHand
<1> QED
  BY <1>3, <1>4, <1>5, <1>6 DEF OwnInv

(* A caller's fact that is in no file, or in no file but one. *)
LEMMA OwnFacts ==
    ASSUME TypeOK, BlockedInv, OwnInv, NEW f \in Own
    PROVE  /\ f \in Fact
           /\ f \notin named => \A n \in Name : ContentOf(files, n)[f] = None
           /\ f \notin named => f \notin suppressed \cup deleted
           /\ f \in suppressed \cup deleted => \A n \in Name : ContentOf(files, n)[f] = None
           /\ \A n \in Name : Has(ContentOf(files, n), f) =>
                 \A m \in Name \ {n} : ContentOf(files, m)[f] = None
<1>1. f \in Fact
  BY FactAssumption
<1>2. \A n \in Name : Has(ContentOf(files, n), f) => f \in named
  BY <1>1 DEF BlockedInv, Held
<1>3. suppressed \cup deleted \subseteq named
  BY DEF BlockedInv
<1>4. \A m, n \in Name : Has(ContentOf(files, n), f) /\ Has(ContentOf(files, m), f) => m = n
  BY DEF OwnInv, OwnOnce, Copies
<1>5. \A n \in Name : Has(ContentOf(files, n), f) => f \notin suppressed \cup deleted
  BY DEF OwnInv, OwnOpen
<1> QED
  BY <1>1, <1>2, <1>3, <1>4, <1>5 DEF Has

(* remember: a new id, so a fact that is in no file. *)
LEMMA RememberMoved ==
    ASSUME TypeOK, BlockedInv, OwnInv, FreshOnly, FamilyRead', NEW f \in Fact, Remember(f)
    PROVE  /\ \A g \in Own : Moved(g)
           /\ retracted' \subseteq suppressed' /\ kept' \subseteq Own
<1>1. f \in Own /\ f \notin named /\ kept' = kept \cup {f}
      /\ UNCHANGED <<suppressed, retracted, deleted>>
  BY DEF Remember, IsNewId, controls
<1> DEFINE new(n) == [FileBefore(n) EXCEPT ![f] = Active(NoEvent)]
<1>2. PICK n \in Name : GoesTo(n, f) /\ PublishFile(n, new(n), Forgotten)
  BY DEF Remember
<1>3. FileBefore(n) \in Content
  BY FileBeforeType
<1>4. /\ new(n) \in Content /\ \A g \in Fact \ {f} : new(n)[g] = FileBefore(n)[g]
      /\ new(n)[f] = Active(NoEvent)
  BY <1>3, ActiveEntry, UpsertFacts DEF Content
<1> HIDE DEF new
<1>5. /\ files'[n] = Without(new(n), Forgotten) /\ files'[n] # Absent
      /\ \A m \in Name \ {n} : files'[m] = files[m]
  BY <1>2, <1>4, PublishFileFacts
<1>6. n # MaxFiles + 1
  BY <1>5 DEF FamilyRead
<1>7. FileBefore(n) = ContentOf(files, n)
  BY <1>2, <1>6, GoesToFacts DEF FileBefore, ContentOf
<1>8. /\ ContentOf(files', n) = Without(new(n), Forgotten)
      /\ \A m \in Name \ {n} : ContentOf(files', m) = ContentOf(files, m)
  BY <1>5 DEF ContentOf
<1>9. WrittenOnce(f)
  <2>1. f \notin suppressed \cup deleted /\ \A m \in Name : ContentOf(files, m)[f] = None
    BY <1>1, OwnFacts
  <2>2. ContentOf(files', n)[f] = Active(NoEvent)
    BY <1>4, <1>8, <2>1 DEF Without, Forgotten
  <2> QED
    BY <1>1, <1>8, <2>1, <2>2 DEF WrittenOnce
<1>10. ASSUME NEW g \in Own, g # f
       PROVE  Unmoved(g)
  <2>1. g \in Fact /\ (g \in Forgotten => ContentOf(files, n)[g] = None)
    BY OwnFacts DEF Forgotten
  <2>2. ContentOf(files', n)[g] = ContentOf(files, n)[g]
    BY <1>4, <1>7, <1>8, <1>10, <2>1 DEF Without
  <2> QED
    BY <1>1, <1>8, <1>10, <2>2 DEF Unmoved
<1>11. retracted' \subseteq suppressed' /\ kept' \subseteq Own
  BY <1>1 DEF OwnInv, KeptHeld
<1> QED
  BY <1>9, <1>10, <1>11 DEF Moved

(* correct: the old fact in its one file, the new one beside it. *)
LEMMA CorrectMoved ==
    ASSUME TypeOK, BlockedInv, OwnInv, FreshOnly, NEW f \in Fact, NEW old \in Fact, Correct(old, f)
    PROVE  /\ \A g \in Own : Moved(g)
           /\ retracted' \subseteq suppressed' /\ kept' \subseteq Own
<1>1. f \in Own /\ (f \notin named \/ f = old) /\ kept' = (kept \ {old}) \cup {f}
      /\ UNCHANGED <<suppressed, retracted, deleted>>
  BY DEF Correct, IsNewId, controls
<1> DEFINE new(n) == [Supersede(files[n], old) EXCEPT ![f] = Active(NoEvent)]
<1>2. PICK n \in Name : IsHolder(n, old) /\ PublishFile(n, new(n), Forgotten)
  BY DEF Correct
<1>3. /\ files[n] \in Content /\ ContentOf(files, n) = files[n] /\ Has(files[n], old)
  BY <1>2, HolderFacts
<1>4. /\ new(n) \in Content /\ \A g \in Fact \ {old, f} : new(n)[g] = files[n][g]
      /\ f # old => new(n)[old] = [files[n][old] EXCEPT !.status = "superseded"]
      /\ new(n)[f] = Active(NoEvent)
  BY <1>3, CorrectedFacts DEF Content, Supersede
<1> HIDE DEF new
<1>5. /\ files'[n] = Without(new(n), Forgotten) /\ files'[n] # Absent
      /\ \A m \in Name \ {n} : files'[m] = files[m]
  BY <1>2, <1>4, PublishFileFacts
<1>6. /\ ContentOf(files', n) = Without(new(n), Forgotten)
      /\ \A m \in Name \ {n} : ContentOf(files', m) = ContentOf(files, m)
  BY <1>5 DEF ContentOf
<1>7. WrittenOnce(f)
  <2>1. f \notin suppressed \cup deleted /\ \A m \in Name \ {n} : ContentOf(files, m)[f] = None
    <3>1. CASE f \notin named
      BY <1>1, <3>1, OwnFacts
    <3>2. CASE f = old
      BY <1>1, <1>3, <3>2, OwnFacts DEF OwnInv, OwnOpen
    <3> QED
      BY <1>1, <3>1, <3>2
  <2>2. ContentOf(files', n)[f] = Active(NoEvent)
    BY <1>4, <1>6, <2>1 DEF Without, Forgotten
  <2> QED
    BY <1>1, <1>6, <2>1, <2>2 DEF WrittenOnce
<1>8. ASSUME old \in Own, old # f
      PROVE  Replaced(old)
  <2>1. old \notin suppressed \cup deleted
    BY <1>3, <1>8 DEF OwnInv, OwnOpen
  <2>2. ContentOf(files', n)[old] = [ContentOf(files, n)[old] EXCEPT !.status = "superseded"]
    BY <1>3, <1>4, <1>6, <1>8, <2>1 DEF Without, Forgotten
  <2> QED
    BY <1>1, <1>3, <1>6, <1>8, <2>1, <2>2 DEF Replaced
<1>9. ASSUME NEW g \in Own, g # f, g # old
      PROVE  Unmoved(g)
  <2>1. g \in Fact /\ (g \in Forgotten => ContentOf(files, n)[g] = None)
    BY OwnFacts DEF Forgotten
  <2>2. ContentOf(files', n)[g] = ContentOf(files, n)[g]
    BY <1>3, <1>4, <1>6, <1>9, <2>1 DEF Without
  <2> QED
    BY <1>1, <1>6, <1>9, <2>2 DEF Unmoved
<1>10. retracted' \subseteq suppressed' /\ kept' \subseteq Own
  BY <1>1 DEF OwnInv, KeptHeld
<1> QED
  BY <1>7, <1>8, <1>9, <1>10 DEF Moved

(* forget: the fact has one file, and is dropped from it. *)
LEMMA ForgetMoved ==
    ASSUME TypeOK, BlockedInv, OwnInv, NEW f \in Fact, Forget(f)
    PROVE  /\ \A g \in Own : Moved(g)
           /\ retracted' \subseteq suppressed' /\ kept' \subseteq Own
<1>1. /\ suppressed' = suppressed \cup {f} /\ retracted' = retracted \cup {f}
      /\ deleted' = deleted /\ kept' = kept \ {f}
  BY DEF Forget
<1> DEFINE gone == suppressed' \cap retracted'
<1>2. PICK n \in Name : IsHolder(n, f) /\ PublishFile(n, files[n], gone)
  BY DEF Forget
<1>3. files[n] \in Content /\ ContentOf(files, n) = files[n] /\ Has(files[n], f)
  BY <1>2, HolderFacts
<1>4. /\ files'[n] = Without(files[n], gone) /\ files'[n] # Absent
      /\ \A m \in Name \ {n} : files'[m] = files[m]
  BY <1>2, <1>3, PublishFileFacts
<1>5. f \in gone /\ gone \subseteq suppressed \cup {f}
  BY <1>1
<1> HIDE DEF gone
<1>6. /\ ContentOf(files', n) = Without(files[n], gone)
      /\ \A m \in Name \ {n} : ContentOf(files', m) = ContentOf(files, m)
  BY <1>4 DEF ContentOf
<1>7. ASSUME f \in Own
      PROVE  Removed(f)
  <2>1. \A m \in Name \ {n} : ContentOf(files, m)[f] = None
    BY <1>3, <1>7, OwnFacts
  <2> QED
    BY <1>1, <1>5, <1>6, <2>1 DEF Removed, Without
<1>8. ASSUME NEW g \in Own, g # f
      PROVE  Unmoved(g)
  <2>1. g \in Fact /\ (g \in gone => ContentOf(files, n)[g] = None)
    BY <1>5, <1>8, OwnFacts
  <2>2. ContentOf(files', n)[g] = ContentOf(files, n)[g]
    BY <1>3, <1>6, <2>1 DEF Without
  <2> QED
    BY <1>1, <1>6, <1>8, <2>2 DEF Unmoved
<1>9. retracted' \subseteq suppressed' /\ kept' \subseteq Own
  BY <1>1 DEF OwnInv, KeptHeld
<1> QED
  BY <1>7, <1>8, <1>9 DEF Moved

(* tidy and erase: from every file, or from the only one that has it. *)
LEMMA TidyMoved ==
    ASSUME TypeOK, BlockedInv, OwnInv, NEW found \in SUBSET Fact, Tidy(found)
    PROVE  /\ \A g \in Own : Moved(g)
           /\ retracted' \subseteq suppressed' /\ kept' \subseteq Own
<1>1. /\ suppressed' = suppressed \cup found /\ retracted' = retracted \cup found
      /\ deleted' = deleted /\ kept' = kept \ found
  BY DEF Tidy
<1> DEFINE gone == suppressed' \cap retracted'
<1>2. \A n \in Name : files'[n] = IF files[n] = Absent THEN Absent ELSE Without(files[n], gone)
  BY DEF Tidy
<1>3. found \subseteq gone /\ gone \subseteq suppressed \cup found
  BY <1>1
<1> HIDE DEF gone
<1>4. ASSUME NEW n \in Name, NEW g \in Fact
      PROVE  ContentOf(files', n)[g] = IF g \in gone THEN None ELSE ContentOf(files, n)[g]
  <2>1. CASE files[n] = Absent
    BY <1>2, <2>1 DEF ContentOf, Blank
  <2>2. CASE files[n] # Absent
    <3>1. Without(files[n], gone) \in Content
      BY <2>2, WithoutFacts DEF TypeOK
    <3>2. ContentOf(files', n) = Without(files[n], gone) /\ ContentOf(files, n) = files[n]
      BY <1>2, <2>2, <3>1, AbsentAssumption DEF ContentOf
    <3> QED
      BY <3>2 DEF Without
  <2> QED
    BY <2>1, <2>2
<1>5. ASSUME NEW g \in Own
      PROVE  Removed(g) \/ Unmoved(g)
  <2>1. g \in Fact /\ (g \in suppressed => \A n \in Name : ContentOf(files, n)[g] = None)
    BY OwnFacts
  <2>2. CASE g \in found
    BY <1>1, <1>3, <1>4, <2>1, <2>2 DEF Removed
  <2>3. CASE g \notin found
    BY <1>1, <1>3, <1>4, <2>1, <2>3 DEF Unmoved
  <2> QED
    BY <2>2, <2>3
<1>6. retracted' \subseteq suppressed' /\ kept' \subseteq Own
  BY <1>1 DEF OwnInv, KeptHeld
<1> QED
  BY <1>5, <1>6 DEF Moved

LEMMA EraseMoved ==
    ASSUME TypeOK, BlockedInv, OwnInv,
           (\E f \in Fact : EraseFact(f)) \/ (\E n \in Name : EraseEntity(n))
    PROVE  /\ \A g \in Own : Moved(g)
           /\ retracted' \subseteq suppressed' /\ kept' \subseteq Own
<1>1. ASSUME NEW ids, RecordErased(ids), NEW g \in Own,
             \/ g \in ids /\ \A n \in Name : ContentOf(files', n)[g] = None
             \/ g \notin ids /\ \A n \in Name : ContentOf(files', n)[g] = ContentOf(files, n)[g]
      PROVE  Moved(g)
  BY <1>1 DEF RecordErased, Moved, Removed, Unmoved
<1>2. ASSUME NEW ids, RecordErased(ids)
      PROVE  retracted' \subseteq suppressed' /\ kept' \subseteq Own
  BY <1>2 DEF RecordErased, OwnInv, KeptHeld
<1>3. ASSUME NEW f \in Fact, EraseFact(f)
      PROVE  \A g \in Own : Moved(g)
  <2>1. files' = [n \in Name |-> Erased(files[n], {f})] /\ RecordErased({f})
    BY <1>3 DEF EraseFact
  <2>2. ASSUME NEW n \in Name, NEW g \in Fact
        PROVE  ContentOf(files', n)[g] = IF g = f THEN None ELSE ContentOf(files, n)[g]
    <3>1. files'[n] = Erased(files[n], {f})
      BY <2>1
    <3>2. CASE files[n] = Absent
      BY <3>1, <3>2 DEF ContentOf, Erased, Blank
    <3>3. CASE files[n] # Absent /\ Held(files[n]) \cap {f} = {}
      BY <3>1, <3>3 DEF ContentOf, Erased, Held, Has
    <3>4. CASE files[n] # Absent /\ Held(files[n]) \cap {f} # {} /\ Held(files[n]) \subseteq {f}
      BY <3>1, <3>4 DEF ContentOf, Erased, Held, Has, Blank
    <3>5. CASE files[n] # Absent /\ Held(files[n]) \cap {f} # {} /\ ~(Held(files[n]) \subseteq {f})
      <4>1. Without(files[n], {f}) \in Content
        BY <3>5, WithoutFacts DEF TypeOK
      <4>2. ContentOf(files', n) = Without(files[n], {f}) /\ ContentOf(files, n) = files[n]
        BY <3>1, <3>5, <4>1, AbsentAssumption DEF ContentOf, Erased
      <4> QED
        BY <4>2 DEF Without
    <3> QED
      BY <3>2, <3>3, <3>4, <3>5
  <2>3. \A g \in Own : g \in Fact
    BY FactAssumption
  <2> QED
    BY <1>1, <2>1, <2>2, <2>3
<1>4. ASSUME NEW n \in Name, EraseEntity(n)
      PROVE  \A g \in Own : Moved(g)
  <2>1. files' = [files EXCEPT ![n] = Absent] /\ RecordErased(Held(files[n]))
    BY <1>4 DEF EraseEntity
  <2>2. /\ ContentOf(files', n) = Blank
        /\ \A m \in Name \ {n} : ContentOf(files', m) = ContentOf(files, m)
    BY <2>1 DEF ContentOf, TypeOK
  <2>3. files[n] # Absent
    BY <1>4 DEF EraseEntity, ContentOf, Held, Has, Blank
  <2>4. ASSUME NEW g \in Own
        PROVE  \/ g \in Held(files[n]) /\ \A m \in Name : ContentOf(files', m)[g] = None
               \/ g \notin Held(files[n])
                  /\ \A m \in Name : ContentOf(files', m)[g] = ContentOf(files, m)[g]
    <3>1. g \in Fact /\ Blank[g] = None
      BY FactAssumption DEF Blank
    <3>2. ContentOf(files, n) = files[n]
      BY <2>3 DEF ContentOf
    <3>3. CASE g \in Held(files[n])
      <4>1. \A m \in Name \ {n} : ContentOf(files, m)[g] = None
        BY <3>2, <3>3, OwnFacts DEF Held
      <4> QED
        BY <2>2, <3>1, <3>3, <4>1
    <3>4. CASE g \notin Held(files[n])
      BY <2>2, <3>1, <3>2, <3>4 DEF Held, Has
    <3> QED
      BY <3>3, <3>4
  <2> QED
    BY <1>1, <2>1, <2>4
<1> QED
  BY <1>2, <1>3, <1>4 DEF EraseFact, EraseEntity

(* A batch leaves the callers' facts as they are: it says none of them, and *)
(* they are from no version.                                               *)
LEMMA BatchMoved ==
    ASSUME TypeOK, BlockedInv, OwnInv, PublishBatch
    PROVE  \A g \in Own : Unmoved(g)
<1>1. work \in Batch /\ work # NoWork /\ work.fresh
  BY PublishBatchFacts DEF PublishBatch
<1>2. UNCHANGED <<suppressed, deleted, kept>>
  BY DEF PublishBatch, controls
<1> SUFFICES ASSUME NEW g \in Own, NEW n \in Name
             PROVE  ContentOf(files', n)[g] = ContentOf(files, n)[g]
  BY <1>2 DEF Unmoved
<1> DEFINE w == ContentOf(work.files, n)
           x == ContentOf(files, n)[g]
<1>3. g \in Fact /\ (g \in suppressed => x = None)
  BY OwnFacts
<1>4. w[g] = x
  <2>1. CASE g \notin suppressed
    BY <1>1, <2>1 DEF OwnInv, OwnInHand
  <2>2. CASE g \in suppressed
    BY <1>1, <1>3, <2>2 DEF BlockedInv, Has
  <2> QED
    BY <2>1, <2>2
<1>5. x # None => x.origin = NoEvent
  BY DEF OwnInv, OwnOpen, Has
<1>6. ~IsOutdated(w[g], through + 1, work.end)
  BY <1>4, <1>5, FactAssumption DEF IsOutdated
<1>7. Retire(w, through + 1, work.end)[g] = w[g]
  BY <1>3, <1>6 DEF Retire
<1>8. ContentOf(files', n) \in {ContentOf(files, n), Retire(w, through + 1, work.end)}
  BY PublishHas
<1> HIDE DEF w, x
<1> QED
  BY <1>4, <1>7, <1>8 DEF x

LEMMA OwnStep ==
    ASSUME FreshOnly, OwnApart, TypeOK, BlockedInv, OwnInv, FamilyRead', [Next]_vars
    PROVE  OwnInv'
<1>1. CASE Change \/ Remove
  <2>1. \A g \in Own : Moved(g)
    BY <1>1, RememberMoved, CorrectMoved, ForgetMoved, TidyMoved, EraseMoved DEF Change, Remove
  <2>2. retracted' \subseteq suppressed' /\ kept' \subseteq Own
    BY <1>1, RememberMoved, CorrectMoved, ForgetMoved, TidyMoved, EraseMoved DEF Change, Remove
  <2>3. work' # NoWork => ~work'.fresh
    BY <1>1, Written, HeadMovesType DEF HeadWritten, TypeOK
  <2> QED
    BY <2>1, <2>2, <2>3, MovedKeepsOwn
<1>2. CASE UNCHANGED <<files, controls, kept, work>>
  BY <1>2 DEF controls, OwnInv, OwnOnce, OwnOpen, KeptHeld, OwnInHand, Copies, ContentOf
<1>3. ASSUME UNCHANGED <<files, controls, kept>>, OwnInHand'
      PROVE  OwnInv'
  BY <1>3 DEF controls, OwnInv, OwnOnce, OwnOpen, KeptHeld, Copies, ContentOf
<1>4. ASSUME NEW end \in 1..Len(journal), StartBatch(end)
      PROVE  OwnInv'
  <2>1. UNCHANGED <<files, controls, kept>>
    BY <1>4 DEF StartBatch
  <2>2. \A n \in Name, f \in Own \ suppressed :
           ContentOf(work'.files, n)[f] = ContentOf(files, n)[f]
    BY <1>4, StartHas, FactAssumption
  <2>3. OwnInHand'
    BY <2>1, <2>2 DEF OwnInHand, controls
  <2> QED
    BY <1>3, <2>1, <2>3
<1>5. ASSUME NEW i \in 1..Len(journal), NEW f \in Fact, Place(i, f)
      PROVE  OwnInv'
  <2>1. UNCHANGED <<files, controls, kept>> /\ work # NoWork
    BY <1>5 DEF Place
  <2>2. f \notin Own
    BY <1>5, PlaceFacts DEF Place, OwnApart
  <2>3. work'.fresh = work.fresh
    BY <1>5, PlaceFacts
  <2>4. \A n \in Name, g \in Own :
           ContentOf(work'.files, n)[g] = ContentOf(work.files, n)[g]
    BY <1>5, <2>2, PlaceHas, FactAssumption
  <2>5. OwnInHand'
    BY <2>1, <2>3, <2>4 DEF OwnInHand, OwnInv, controls
  <2> QED
    BY <1>3, <2>1, <2>5
<1>6. CASE PublishBatch
  <2>1. \A g \in Own : Moved(g)
    BY <1>6, BatchMoved DEF Moved
  <2>2. work' = NoWork /\ UNCHANGED <<controls, kept>>
    BY <1>6 DEF PublishBatch
  <2>3. retracted' \subseteq suppressed' /\ kept' \subseteq Own
    BY <2>2 DEF OwnInv, KeptHeld, controls
  <2> QED
    BY <2>1, <2>2, <2>3, MovedKeepsOwn
<1>7. CASE AbandonBatch
  <2>1. UNCHANGED <<files, controls, kept>> /\ work' = NoWork
    BY <1>7 DEF AbandonBatch
  <2>2. OwnInHand'
    BY <2>1 DEF OwnInHand
  <2> QED
    BY <1>3, <2>1, <2>2
<1>8. (\E e \in Event : Ingest(e)) \/ UNCHANGED vars => UNCHANGED <<files, controls, kept, work>>
  BY DEF Ingest, vars
<1> QED
  BY <1>1, <1>2, <1>4, <1>5, <1>6, <1>7, <1>8 DEF Next, Consolidate

LEMMA InitOwn ==
    ASSUME Init
    PROVE  OwnInv
<1>1. \A n \in Name, f \in Fact : ContentOf(files, n)[f] = None
  BY DEF Init, ContentOf, Blank
<1>2. \A n \in Name, f \in Own : ~Has(ContentOf(files, n), f)
  BY <1>1, FactAssumption DEF Has
<1>3. OwnOnce /\ OwnOpen
  BY <1>2 DEF OwnOnce, OwnOpen, Copies
<1>4. KeptHeld /\ OwnInHand /\ retracted \subseteq suppressed
  BY DEF Init, KeptHeld, OwnInHand
<1> QED
  BY <1>3, <1>4 DEF OwnInv

(* RememberedKept: what was remembered can be read until a caller replaces *)
(* or removes it, whatever is forgotten, tidied, erased, spilled and       *)
(* consolidated meanwhile; if ids of new facts are the program's, it says  *)
(* none of them itself, and no entity outgrows the files that are read.    *)
THEOREM RememberedStaysReadable ==
    ASSUME FreshOnly, OwnApart
    PROVE  Spec /\ []FamilyRead => []RememberedKept
<1>1. TypeOK /\ BlockedInv /\ OwnInv /\ FamilyRead' /\ [Next]_vars => OwnInv'
  BY OwnStep
<1>2. OwnInv => RememberedKept
  <2> SUFFICES ASSUME OwnInv, NEW f \in kept
               PROVE  f \in Readable
    BY DEF RememberedKept
  <2>1. f \in Fact
    BY FactAssumption DEF OwnInv, KeptHeld
  <2> QED
    BY <2>1 DEF OwnInv, KeptHeld, Readable
<1> QED
  BY <1>1, <1>2, InitOwn, BatchKnowsBlocked, TypeCorrect, PTL DEF Spec

-----------------------------------------------------------------------------
(* A corrected fact is hidden *)

(* Nothing becomes of a fact but that it is dropped from files. *)
Fades(g) == \A n \in Name : ContentOf(files', n)[g] \in {None, ContentOf(files, n)[g]}

(* Every operation of change.rs writes to one fact, `correct` to two. *)
LEMMA RememberFades ==
    ASSUME TypeOK, NEW f \in Fact, Remember(f)
    PROVE  \A g \in Fact \ {f} : Fades(g)
<1> DEFINE new(n) == [FileBefore(n) EXCEPT ![f] = Active(NoEvent)]
<1>1. PICK n \in Name : PublishFile(n, new(n), Forgotten)
  BY DEF Remember
<1>2. FileBefore(n) \in Content
  BY FileBeforeType
<1>3. new(n) \in Content /\ \A g \in Fact \ {f} : new(n)[g] = FileBefore(n)[g]
  BY <1>2, ActiveEntry, UpsertFacts
<1>4. \A g \in Fact : FileBefore(n)[g] \in {None, ContentOf(files, n)[g]}
  BY DEF FileBefore, Blank
<1> HIDE DEF new
<1>5. /\ \A m \in Name \ {n} : ContentOf(files', m) = ContentOf(files, m)
      /\ \A g \in Fact : ContentOf(files', n)[g] \in {None, new(n)[g]}
  BY <1>1, <1>3, FileRewritten
<1>6. ASSUME NEW g \in Fact \ {f}, NEW m \in Name
      PROVE  ContentOf(files', m)[g] \in {None, ContentOf(files, m)[g]}
  <2>1. CASE m = n
    BY <1>3, <1>4, <1>5, <2>1
  <2>2. CASE m # n
    BY <1>5, <2>2
  <2> QED
    BY <2>1, <2>2
<1> QED
  BY <1>6 DEF Fades

LEMMA CorrectFades ==
    ASSUME TypeOK, NEW f \in Fact, NEW old \in Fact, Correct(old, f)
    PROVE  /\ \A g \in Fact \ {f, old} : Fades(g)
           /\ \E n \in Name :
                 /\ Has(ContentOf(files, n), old)
                 /\ \A m \in Name \ {n} : ContentOf(files', m) = ContentOf(files, m)
                 /\ old # f => ContentOf(files', n)[old] = None
                               \/ ContentOf(files', n)[old].status = "superseded"
<1> DEFINE new(n) == [Supersede(files[n], old) EXCEPT ![f] = Active(NoEvent)]
<1>1. PICK n \in Name : IsHolder(n, old) /\ PublishFile(n, new(n), Forgotten)
  BY DEF Correct
<1>2. files[n] \in Content /\ ContentOf(files, n) = files[n] /\ Has(files[n], old)
  BY <1>1, HolderFacts
<1>3. /\ new(n) \in Content /\ \A g \in Fact \ {old, f} : new(n)[g] = files[n][g]
      /\ f # old => new(n)[old] = [files[n][old] EXCEPT !.status = "superseded"]
  BY <1>2, CorrectedFacts DEF Content, Supersede
<1> HIDE DEF new
<1>4. /\ \A m \in Name \ {n} : ContentOf(files', m) = ContentOf(files, m)
      /\ \A g \in Fact : ContentOf(files', n)[g] \in {None, new(n)[g]}
  BY <1>1, <1>3, FileRewritten
<1>5. ASSUME NEW g \in Fact \ {f, old}, NEW m \in Name
      PROVE  ContentOf(files', m)[g] \in {None, ContentOf(files, m)[g]}
  <2>1. CASE m = n
    BY <1>2, <1>3, <1>4, <2>1
  <2>2. CASE m # n
    BY <1>4, <2>2
  <2> QED
    BY <2>1, <2>2
<1>6. ASSUME old # f
      PROVE  ContentOf(files', n)[old] = None \/ ContentOf(files', n)[old].status = "superseded"
  <2>1. files[n][old] \in Entry
    BY <1>2 DEF Content, Has
  <2>2. [files[n][old] EXCEPT !.status = "superseded"].status = "superseded"
    BY <2>1 DEF Entry
  <2> QED
    BY <1>3, <1>4, <1>6, <2>2
<1> QED
  BY <1>2, <1>4, <1>5, <1>6 DEF Fades

LEMMA ForgetFades ==
    ASSUME TypeOK, NEW f \in Fact, Forget(f)
    PROVE  \A g \in Fact : Fades(g)
<1>1. PICK n \in Name :
         IsHolder(n, f) /\ PublishFile(n, files[n], suppressed' \cap retracted')
  BY DEF Forget
<1>2. files[n] \in Content /\ ContentOf(files, n) = files[n]
  BY <1>1, HolderFacts
<1>3. /\ \A m \in Name \ {n} : ContentOf(files', m) = ContentOf(files, m)
      /\ \A g \in Fact : ContentOf(files', n)[g] \in {None, ContentOf(files, n)[g]}
  BY <1>1, <1>2, FileRewritten
<1>4. ASSUME NEW g \in Fact, NEW m \in Name
      PROVE  ContentOf(files', m)[g] \in {None, ContentOf(files, m)[g]}
  BY <1>3
<1> QED
  BY <1>4 DEF Fades

LEMMA RemoveFades ==
    ASSUME TypeOK, Remove
    PROVE  \A g \in Fact : Fades(g)
<1>1. ASSUME NEW found \in SUBSET Fact, Tidy(found), NEW g \in Fact
      PROVE  Fades(g)
  BY <1>1, TidyFacts DEF Fades, Has
<1>2. ASSUME NEW f \in Fact, EraseFact(f), NEW g \in Fact
      PROVE  Fades(g)
  <2>1. files' = [n \in Name |-> Erased(files[n], {f})]
    BY <1>2 DEF EraseFact
  <2>2. ASSUME NEW n \in Name
        PROVE  ContentOf(files', n)[g] \in {None, ContentOf(files, n)[g]}
    <3> DEFINE new == Erased(files[n], {f})
    <3>1. ContentOf(files', n) = IF new = Absent THEN Blank ELSE new
      BY <2>1 DEF ContentOf
    <3>2. LET d == IF new = Absent THEN Blank ELSE new
          IN  \A h \in Fact : Has(d, h) => d[h] = ContentOf(files, n)[h]
      BY ErasedFacts
    <3> HIDE DEF new
    <3> QED
      BY <3>1, <3>2 DEF Has
  <2> QED
    BY <2>2 DEF Fades
<1>3. ASSUME NEW n \in Name, EraseEntity(n), NEW g \in Fact
      PROVE  Fades(g)
  BY <1>3 DEF EraseEntity, Fades, ContentOf, Blank, TypeOK
<1> QED
  BY <1>1, <1>2, <1>3 DEF Remove

(* CorrectedHidden, strengthened: a corrected fact is current in no file,  *)
(* and in the hand of a batch on the present head only if it said it again. *)
HiddenInv ==
    /\ \A f \in corrected, n \in Name : f \notin Current(ContentOf(files, n))
    /\ work # NoWork /\ work.fresh =>
          \A f \in corrected \ work.said, n \in Name : f \notin Current(ContentOf(work.files, n))

(* A fact that fades is no more current than before. *)
LEMMA FadesHides ==
    ASSUME NEW g \in Fact, Fades(g), \A n \in Name : g \notin Current(ContentOf(files, n))
    PROVE  \A n \in Name : g \notin Current(ContentOf(files', n))
BY DEF Fades, Current, Has

LEMMA WrittenHidden ==
    ASSUME TypeOK, HiddenInv, FactOnce, Change \/ Remove
    PROVE  HiddenInv'
<1>0. corrected \subseteq Fact
  BY DEF TypeOK
<1>1. work' # NoWork => ~work'.fresh
  BY Written, HeadMovesType DEF HeadWritten, TypeOK
<1>2. SUFFICES ASSUME NEW g \in corrected'
               PROVE  \A n \in Name : g \notin Current(ContentOf(files', n))
  BY <1>1 DEF HiddenInv
<1>3. ASSUME NEW f \in Fact, Remember(f)
      PROVE  \A n \in Name : g \notin Current(ContentOf(files', n))
  <2>1. corrected' = corrected \ {f}
    BY <1>3 DEF Remember
  <2> QED
    BY <1>0, <1>2, <1>3, <2>1, RememberFades, FadesHides DEF HiddenInv
<1>4. ASSUME NEW f \in Fact, NEW old \in Fact, Correct(old, f)
      PROVE  \A n \in Name : g \notin Current(ContentOf(files', n))
  <2>1. corrected' = (corrected \cup {old}) \ {f}
    BY <1>4 DEF Correct
  <2>2. CASE g # old
    <3>1. g \in corrected /\ g \in Fact \ {f, old}
      BY <1>0, <1>2, <2>1, <2>2
    <3> QED
      BY <1>4, <3>1, CorrectFades, FadesHides DEF HiddenInv
  <2>3. CASE g = old
    <3>1. old # f
      BY <1>2, <2>1, <2>3
    <3>2. PICK n \in Name :
             /\ Has(ContentOf(files, n), old)
             /\ \A m \in Name \ {n} : ContentOf(files', m) = ContentOf(files, m)
             /\ ContentOf(files', n)[old] = None \/ ContentOf(files', n)[old].status = "superseded"
      BY <1>4, <3>1, CorrectFades
    <3>3. \A m \in Name \ {n} : ~Has(ContentOf(files, m), old)
      BY <3>2 DEF FactOnce, Copies
    <3> QED
      BY <2>3, <3>2, <3>3 DEF Current, Has
  <2> QED
    BY <2>2, <2>3
<1>5. ASSUME (\E f \in Fact : Forget(f)) \/ Remove
      PROVE  \A n \in Name : g \notin Current(ContentOf(files', n))
  <2>1. corrected' = corrected
    BY <1>5 DEF Forget, Remove, Tidy, EraseFact, EraseEntity, RecordErased
  <2>2. Fades(g)
    BY <1>0, <1>2, <1>5, <2>1, ForgetFades, RemoveFades
  <2> QED
    BY <1>0, <1>2, <2>1, <2>2, FadesHides DEF HiddenInv
<1> QED
  BY <1>3, <1>4, <1>5 DEF Change

LEMMA BatchHidden ==
    ASSUME TypeOK, HiddenInv, Consolidate
    PROVE  HiddenInv'
<1>0. corrected \subseteq Fact
  BY DEF TypeOK
<1>1. ASSUME NEW end \in 1..Len(journal), StartBatch(end)
      PROVE  HiddenInv'
  <2>1. UNCHANGED <<files, corrected>>
    BY <1>1 DEF StartBatch
  <2>2. \A g \in Fact, n \in Name :
           ContentOf(work'.files, n)[g] \in {None, ContentOf(files, n)[g]}
    BY <1>1, StartHas
  <2>3. \A g \in corrected, n \in Name : g \notin Current(ContentOf(work'.files, n))
    BY <1>0, <2>2 DEF HiddenInv, Current, Has
  <2> QED
    BY <2>1, <2>3 DEF HiddenInv, ContentOf
<1>2. ASSUME NEW i \in 1..Len(journal), NEW f \in Fact, Place(i, f)
      PROVE  HiddenInv'
  <2>1. UNCHANGED <<files, corrected>> /\ work # NoWork
    BY <1>2 DEF Place
  <2>2. work'.fresh = work.fresh /\ work'.said = work.said \cup {f}
    BY <1>2, PlaceFacts
  <2>3. \A n \in Name, g \in Fact \ {f} :
           ContentOf(work'.files, n)[g] = ContentOf(work.files, n)[g]
    BY <1>2, PlaceHas
  <2>4. ASSUME work.fresh, NEW g \in corrected \ work'.said, NEW n \in Name
        PROVE  g \notin Current(ContentOf(work'.files, n))
    <3>1. g \in Fact \ {f} /\ g \in corrected \ work.said
      BY <1>0, <2>2, <2>4
    <3>2. g \notin Current(ContentOf(work.files, n))
      BY <2>1, <2>4, <3>1 DEF HiddenInv
    <3> QED
      BY <2>3, <3>1, <3>2 DEF Current, Has
  <2> QED
    BY <2>1, <2>2, <2>4 DEF HiddenInv, ContentOf
<1>3. ASSUME PublishBatch
      PROVE  HiddenInv'
  <2>1. /\ work \in Batch /\ work # NoWork /\ work.fresh
        /\ work' = NoWork /\ corrected' = corrected \ work.said
    BY <1>3, PublishBatchFacts DEF PublishBatch
  <2>2. ASSUME NEW g \in corrected \ work.said, NEW n \in Name
        PROVE  g \notin Current(ContentOf(files', n))
    <3> DEFINE w == ContentOf(work.files, n)
               c == Retire(w, through + 1, work.end)
    <3>1. g \in Fact /\ g \notin Current(w) /\ g \notin Current(ContentOf(files, n))
      BY <1>0, <2>1, <2>2 DEF HiddenInv
    <3>2. ContentOf(files', n) \in {ContentOf(files, n), c}
      BY <1>3, PublishHas
    <3>3. w \in Content
      BY <2>1, ContentType DEF Batch
    <3>4. g \notin Current(c)
      <4> HIDE DEF w
      <4>1. w[g] = None \/ (w[g] \in Entry /\ w[g].status # "active")
        BY <3>1, <3>3 DEF Content, Current, Has
      <4>2. ~IsOutdated(w[g], through + 1, work.end)
        BY <4>1 DEF IsOutdated
      <4> QED
        BY <3>1, <4>1, <4>2 DEF Retire, Current, Has
    <3> HIDE DEF c
    <3> QED
      BY <3>1, <3>2, <3>4
  <2> QED
    BY <2>1, <2>2 DEF HiddenInv
<1>4. ASSUME AbandonBatch
      PROVE  HiddenInv'
  BY <1>4 DEF AbandonBatch, HiddenInv, ContentOf
<1> QED
  BY <1>1, <1>2, <1>3, <1>4 DEF Consolidate

LEMMA HiddenStep ==
    ASSUME TypeOK, HiddenInv, FactOnce, [Next]_vars
    PROVE  HiddenInv'
<1>1. (\E e \in Event : Ingest(e)) \/ UNCHANGED vars => UNCHANGED <<files, corrected, work>>
  BY DEF Ingest, vars
<1>2. UNCHANGED <<files, corrected, work>> => HiddenInv'
  BY DEF HiddenInv, ContentOf
<1> QED
  BY <1>1, <1>2, WrittenHidden, BatchHidden DEF Next

(* CorrectedHidden: a corrected fact is not readable until it is said      *)
(* again, by a caller or in a batch that is published, as long as no fact  *)
(* is in two files: `correct` supersedes it in one.                        *)
THEOREM CorrectedStaysHidden == Spec /\ []FactOnce => []CorrectedHidden
<1>1. Init => HiddenInv
  BY DEF Init, HiddenInv
<1>2. TypeOK /\ HiddenInv /\ FactOnce /\ [Next]_vars => HiddenInv'
  BY HiddenStep
<1>3. HiddenInv => CorrectedHidden
  BY DEF HiddenInv, CorrectedHidden, Readable
<1> QED
  BY <1>1, <1>2, <1>3, TypeCorrect, PTL DEF Spec

-----------------------------------------------------------------------------
(* What is readable can be reached *)

(* A family has no gap. *)
NoGap(fs) == \A m, n \in Name : m < n /\ fs[n] # Absent => fs[m] # Absent

(* ReadableIsReachable, strengthened: no gap in the files, none in the hand *)
(* of a batch on the present head, which has the files that are there.     *)
NoGapInv ==
    /\ NoGap(files)
    /\ work # NoWork /\ work.fresh =>
          /\ NoGap(work.files)
          /\ \A n \in Name \ work.changed : files[n] = Absent <=> work.files[n] = Absent

(* Writing a file that is there, or one before which all are there, leaves *)
(* no gap.                                                                 *)
LEMMA WriteNoGap ==
    ASSUME NEW fs, NEW gs, NEW n \in Name, NoGap(fs), gs[n] # Absent,
           \A m \in Name \ {n} : gs[m] = fs[m],
           fs[n] # Absent \/ \A m \in Name : m < n => fs[m] # Absent
    PROVE  NoGap(gs)
<1>0. MaxFiles \in Nat
  BY RoomAssumption
<1> SUFFICES ASSUME NEW j \in Name, NEW k \in Name, j < k, gs[k] # Absent
             PROVE  gs[j] # Absent
  BY DEF NoGap
<1>1. CASE j = n
  BY <1>1
<1>2. CASE j # n /\ k = n
  BY <1>2 DEF NoGap
<1>3. CASE j # n /\ k # n
  BY <1>3 DEF NoGap
<1> QED
  BY <1>1, <1>2, <1>3

(* A file without room is there. *)
LEMMA BlankHasRoom ==
    /\ HasRoom(Blank)
    /\ \A fs, n : ~HasRoom(ContentOf(fs, n)) => fs[n] # Absent
<1>1. Held(Blank) = {}
  BY DEF Held, Has, Blank
<1>2. Cardinality(Held(Blank)) = 0
  BY <1>1, FS_EmptySet
<1>3. HasRoom(Blank)
  BY <1>2, RoomAssumption DEF HasRoom
<1> QED
  BY <1>3 DEF ContentOf

(* Where a remembered fact goes, every file before it is full, or it is    *)
(* there already.                                                          *)
LEMMA GoesAfterFull ==
    ASSUME NEW n \in Name, NEW f \in Fact, GoesTo(n, f)
    PROVE  \/ IsHolder(n, f)
           \/ /\ Family \cap Copies(files, f) = {}
              /\ \A m \in Name : m < n => ~HasRoom(Without(ContentOf(files, m), Forgotten))
<1>0. MaxFiles \in Nat /\ MaxFiles >= 1
  BY RoomAssumption
<1>1. PICK k \in 1..MaxFiles : Family = 1..k /\ Cardinality(Family) = k
  BY FamilySegment
<1> DEFINE roomy == {m \in Family : HasRoom(Without(ContentOf(files, m), Forgotten))}
<1>2. CASE Family \cap Copies(files, f) = {} /\ n \in roomy /\ \A m \in roomy : n <= m
  <2>1. ASSUME NEW m \in Name, m < n
        PROVE  ~HasRoom(Without(ContentOf(files, m), Forgotten))
    <3>1. m \in Family
      BY <1>0, <1>1, <1>2, <2>1 DEF Name
    <3>2. m \notin roomy
      BY <1>0, <1>1, <1>2, <2>1, <3>1
    <3> QED
      BY <3>1, <3>2
  <2> QED
    BY <1>2, <2>1
<1>3. CASE Family \cap Copies(files, f) = {} /\ roomy = {} /\ n = Cardinality(Family) + 1
  <2>1. ASSUME NEW m \in Name, m < n
        PROVE  ~HasRoom(Without(ContentOf(files, m), Forgotten))
    <3>1. m \in Family
      BY <1>0, <1>1, <1>3, <2>1 DEF Name
    <3> QED
      BY <1>3, <3>1
  <2> QED
    BY <1>3, <2>1
<1> QED
  BY <1>2, <1>3 DEF GoesTo

(* A file without room, forgotten facts left out, is there. *)
LEMMA FullIsThere ==
    ASSUME NEW n \in Name, ~HasRoom(Without(ContentOf(files, n), Forgotten))
    PROVE  files[n] # Absent
<1>1. Without(Blank, Forgotten) = Blank
  BY DEF Without, Blank
<1> QED
  BY <1>1, BlankHasRoom DEF ContentOf

LEMMA ChangeNoGap ==
    ASSUME TypeOK, NoGap(files), Change
    PROVE  NoGap(files')
<1>1. ASSUME NEW f \in Fact, Remember(f)
      PROVE  NoGap(files')
  <2> DEFINE new(n) == [FileBefore(n) EXCEPT ![f] = Active(NoEvent)]
  <2>1. PICK n \in Name : GoesTo(n, f) /\ PublishFile(n, new(n), Forgotten)
    BY <1>1 DEF Remember
  <2>2. new(n) \in Content
    BY FileBeforeType, ActiveEntry, UpsertFacts
  <2> HIDE DEF new
  <2>3. files'[n] # Absent /\ \A m \in Name \ {n} : files'[m] = files[m]
    BY <2>1, <2>2, PublishFileFacts
  <2>4. files[n] # Absent \/ \A m \in Name : m < n => files[m] # Absent
    BY <2>1, GoesAfterFull, HolderFacts, FullIsThere
  <2> QED
    BY <2>3, <2>4, WriteNoGap
<1>2. ASSUME NEW f \in Fact, NEW old \in Fact, Correct(old, f)
      PROVE  NoGap(files')
  <2> DEFINE new(n) == [Supersede(files[n], old) EXCEPT ![f] = Active(NoEvent)]
  <2>1. PICK n \in Name : IsHolder(n, old) /\ PublishFile(n, new(n), Forgotten)
    BY <1>2 DEF Correct
  <2>2. files[n] # Absent /\ new(n) \in Content
    BY <2>1, HolderFacts, CorrectedFacts
  <2> HIDE DEF new
  <2>3. files'[n] # Absent /\ \A m \in Name \ {n} : files'[m] = files[m]
    BY <2>1, <2>2, PublishFileFacts
  <2> QED
    BY <2>2, <2>3, WriteNoGap
<1>3. ASSUME NEW f \in Fact, Forget(f)
      PROVE  NoGap(files')
  <2>1. PICK n \in Name :
           IsHolder(n, f) /\ PublishFile(n, files[n], suppressed' \cap retracted')
    BY <1>3 DEF Forget
  <2>2. files[n] # Absent /\ files[n] \in Content
    BY <2>1, HolderFacts
  <2>3. files'[n] # Absent /\ \A m \in Name \ {n} : files'[m] = files[m]
    BY <2>1, <2>2, PublishFileFacts
  <2> QED
    BY <2>2, <2>3, WriteNoGap
<1> QED
  BY <1>1, <1>2, <1>3 DEF Change

LEMMA TidyNoGap ==
    ASSUME TypeOK, NoGap(files), NEW found \in SUBSET Fact, Tidy(found)
    PROVE  NoGap(files')
<1> DEFINE gone == suppressed' \cap retracted'
<1>1. \A n \in Name : files'[n] = IF files[n] = Absent THEN Absent ELSE Without(files[n], gone)
  BY DEF Tidy
<1> HIDE DEF gone
<1>2. \A n \in Name : files[n] # Absent => Without(files[n], gone) # Absent
  BY WithoutFacts, AbsentAssumption DEF TypeOK
<1> QED
  BY <1>1, <1>2 DEF NoGap

(* A batch places a fact in the first file that has it or room for it. *)
LEMMA PlacedAfterFull ==
    ASSUME NEW fs, NEW n \in Name, NEW f \in Fact, PlacedIn(fs, n, f)
    PROVE  /\ n \in 1..MaxFiles
           /\ \A m \in Name : m < n => ~Has(ContentOf(fs, m), f) /\ ~HasRoom(ContentOf(fs, m))
<1>0. MaxFiles \in Nat
  BY RoomAssumption
<1>1. n \in 1..MaxFiles
  BY DEF PlacedIn
<1>2. ASSUME NEW m \in Name, m < n
      PROVE  ~Has(ContentOf(fs, m), f) /\ ~HasRoom(ContentOf(fs, m))
  <2>1. m \in 1..MaxFiles /\ ~(n <= m)
    BY <1>0, <1>1, <1>2 DEF Name
  <2> QED
    BY <2>1 DEF PlacedIn
<1> QED
  BY <1>1, <1>2

(* What a batch has in hand after a proposal, one file at a time. *)
LEMMA PlaceOne ==
    ASSUME TypeOK, NEW i \in 1..Len(journal), NEW f \in Fact, Place(i, f)
    PROVE  \E n \in Name :
              /\ PlacedIn(work.files, n, f)
              /\ work'.files[n] = [ContentOf(work.files, n) EXCEPT ![f] = Active(journal[i])]
              /\ work'.files[n] \in Content /\ work'.files[n] # Absent
              /\ \A m \in Name \ {n} : work'.files[m] = work.files[m]
              /\ work'.changed = work.changed \cup {n}
              /\ Held(work'.files[n]) = Held(ContentOf(work.files, n)) \cup {f}
<1>1. work \in Batch /\ journal[i] \in Event
  BY PlaceFacts
<1>2. PICK n \in Name :
         /\ PlacedIn(work.files, n, f)
         /\ work' = [work EXCEPT
                        !.files[n] = [ContentOf(work.files, n) EXCEPT ![f] = Active(journal[i])],
                        !.changed = @ \cup {n},
                        !.said = @ \cup {f}]
  BY DEF Place
<1> DEFINE c == [ContentOf(work.files, n) EXCEPT ![f] = Active(journal[i])]
<1>3. work.files \in [Name -> Content \cup {Absent}] /\ ContentOf(work.files, n) \in Content
  BY <1>1, ContentType DEF Batch
<1>4. c \in Content /\ Active(journal[i]) \in Entry
  BY <1>1, <1>3, ActiveEntry, UpsertFacts
<1>5. Held(c) = Held(ContentOf(work.files, n)) \cup {f}
  BY <1>3, <1>4, NoneAssumption DEF Held, Has, Content
<1> HIDE DEF c
<1>6. work' = [work EXCEPT !.files[n] = c, !.changed = @ \cup {n}, !.said = @ \cup {f}]
  BY <1>2 DEF c
<1>7. work'.files = [work.files EXCEPT ![n] = c] /\ work'.changed = work.changed \cup {n}
  BY <1>1, <1>6 DEF Batch
<1> QED
  BY <1>2, <1>3, <1>4, <1>5, <1>7, AbsentAssumption DEF c

(* What a batch publishes is there exactly where it has it in hand. *)
LEMMA RetiredThere ==
    ASSUME NEW fs \in [Name -> Content \cup {Absent}], NEW from, NEW to, NEW n \in Name
    PROVE  Retired(fs, from, to)[n] = Absent <=> fs[n] = Absent
<1>1. fs[n] # Absent => Retire(fs[n], from, to) \in Content
  BY RetireFacts
<1> QED
  BY <1>1, AbsentAssumption DEF Retired

LEMMA BatchNoGap ==
    ASSUME TypeOK, NoGapInv, Consolidate
    PROVE  NoGapInv'
<1>1. ASSUME NEW end \in 1..Len(journal), StartBatch(end)
      PROVE  NoGapInv'
  <2>1. UNCHANGED files
    BY <1>1 DEF StartBatch
  <2>2. \A n \in Name : work'.files[n] = IF files[n] = Absent THEN Absent
                                         ELSE Without(files[n], Forgotten)
    BY <1>1, StartFacts
  <2>3. \A n \in Name : files[n] # Absent => Without(files[n], Forgotten) # Absent
    BY WithoutFacts, AbsentAssumption DEF TypeOK
  <2>4. \A n \in Name : files'[n] = Absent <=> work'.files[n] = Absent
    BY <2>1, <2>2, <2>3
  <2>5. NoGap(work'.files)
    BY <2>1, <2>4 DEF NoGapInv, NoGap
  <2> QED
    BY <2>1, <2>4, <2>5 DEF NoGapInv
<1>2. ASSUME NEW i \in 1..Len(journal), NEW f \in Fact, Place(i, f)
      PROVE  NoGapInv'
  <2>1. UNCHANGED files /\ work # NoWork /\ work'.fresh = work.fresh
    BY <1>2, PlaceFacts DEF Place
  <2>2. PICK n \in Name :
           /\ PlacedIn(work.files, n, f)
           /\ work'.files[n] # Absent
           /\ \A m \in Name \ {n} : work'.files[m] = work.files[m]
           /\ work'.changed = work.changed \cup {n}
    BY <1>2, PlaceOne
  <2>3. \A m \in Name : m < n => work.files[m] # Absent
    BY <2>2, PlacedAfterFull, BlankHasRoom
  <2>4. ASSUME work.fresh
        PROVE  /\ NoGap(work'.files)
               /\ \A m \in Name \ work'.changed : files[m] = Absent <=> work'.files[m] = Absent
    <3>1. NoGap(work.files)
      BY <2>1, <2>4 DEF NoGapInv
    <3>2. NoGap(work'.files)
      BY <2>2, <2>3, <3>1, WriteNoGap
    <3> QED
      BY <2>1, <2>2, <2>4, <3>2 DEF NoGapInv
  <2> QED
    BY <2>1, <2>4 DEF NoGapInv
<1>3. ASSUME PublishBatch
      PROVE  NoGapInv'
  <2>1. work \in Batch /\ work # NoWork /\ work.fresh /\ work' = NoWork
    BY <1>3, PublishBatchFacts DEF PublishBatch
  <2>2. work.files \in [Name -> Content \cup {Absent}]
    BY <2>1 DEF Batch
  <2>3. ASSUME NEW n \in Name
        PROVE  files'[n] = Absent <=> work.files[n] = Absent
    <3>1. \/ files'[n] = files[n] /\ n \notin work.changed
          \/ files'[n] = Retired(work.files, through + 1, work.end)[n]
      BY <1>3, PublishBatchFacts
    <3> QED
      BY <2>1, <2>2, <3>1, RetiredThere DEF NoGapInv
  <2>4. NoGap(files')
    BY <2>1, <2>3 DEF NoGapInv, NoGap
  <2> QED
    BY <2>1, <2>4 DEF NoGapInv
<1>4. ASSUME AbandonBatch
      PROVE  NoGapInv'
  BY <1>4 DEF AbandonBatch, NoGapInv
<1> QED
  BY <1>1, <1>2, <1>3, <1>4 DEF Consolidate

LEMMA NoGapStep ==
    ASSUME "erase" \notin Ops, TypeOK, NoGapInv, [Next]_vars
    PROVE  NoGapInv'
<1>1. CASE Change \/ Remove
  <2>1. work' # NoWork => ~work'.fresh
    BY <1>1, Written, HeadMovesType DEF HeadWritten, TypeOK
  <2>2. NoGap(files')
    BY <1>1, ChangeNoGap, TidyNoGap DEF Remove, EraseFact, EraseEntity, NoGapInv
  <2> QED
    BY <2>1, <2>2 DEF NoGapInv
<1>2. (\E e \in Event : Ingest(e)) \/ UNCHANGED vars => UNCHANGED <<files, work>>
  BY DEF Ingest, vars
<1>3. UNCHANGED <<files, work>> => NoGapInv'
  BY DEF NoGapInv
<1> QED
  BY <1>1, <1>2, <1>3, BatchNoGap DEF Next

(* ReadableIsReachable: whatever a reader sees can be corrected and        *)
(* forgotten, while the entity has not outgrown the files that are read.   *)
(* Erasing leaves gaps: without it there are none.                         *)
THEOREM NothingOutOfReach ==
    ASSUME "erase" \notin Ops
    PROVE  Spec => [](FamilyRead => ReadableIsReachable)
<1>1. Init => NoGapInv
  BY DEF Init, NoGapInv, NoGap
<1>2. TypeOK /\ NoGapInv /\ [Next]_vars => NoGapInv'
  BY NoGapStep
<1>3. NoGapInv => (FamilyRead => ReadableIsReachable)
  <2>0. MaxFiles \in Nat
    BY RoomAssumption
  <2> SUFFICES ASSUME NoGapInv, FamilyRead, NEW f \in Readable
               PROVE  \E n \in Name : IsHolder(n, f)
    BY DEF ReadableIsReachable
  <2>1. PICK n \in Name : f \in Current(ContentOf(files, n))
    BY DEF Readable
  <2>2. Has(ContentOf(files, n), f) /\ n \in Copies(files, f)
    BY <2>1 DEF Current, Copies
  <2>3. files[n] # Absent
    BY <2>1 DEF ContentOf, Current, Has, Blank
  <2>4. n \in 1..MaxFiles
    BY <2>0, <2>3 DEF FamilyRead, Name
  <2>5. n \in Family
    BY <2>0, <2>3, <2>4 DEF NoGapInv, NoGap, Family, Name
  <2> DEFINE T == Family \cap Copies(files, f)
  <2>6. T \in SUBSET Nat /\ T # {} /\ T \subseteq Name
    BY <2>0, <2>2, <2>5 DEF Copies, Name
  <2>7. PICK k \in T : \A m \in T : k <= m
    <3> HIDE DEF T
    <3> QED
      BY <2>6, LeastNumber
  <2> QED
    BY <2>6, <2>7 DEF IsHolder
<1> QED
  BY <1>1, <1>2, <1>3, TypeCorrect, PTL DEF Spec

-----------------------------------------------------------------------------
(* INDEX.md counts what the files have *)

(* prune_forgotten has nothing left to prune. *)
ForgottenGone == \A n \in Name, f \in Forgotten : ~Has(ContentOf(files, n), f)

(* What a batch on the present head has not changed is what the head has. *)
HandIsHead ==
    work # NoWork /\ work.fresh => \A n \in Name \ work.changed : work.files[n] = files[n]

(* A published file has nothing forgotten. *)
LEMMA PublishForgotten ==
    ASSUME TypeOK, TypeOK', NEW n \in Name, NEW c \in Content, PublishFile(n, c, Forgotten'),
           \A m \in Name \ {n}, f \in Forgotten' : ~Has(ContentOf(files, m), f)
    PROVE  ForgottenGone'
<1> DEFINE gone == Forgotten'
<1>0. gone \subseteq Fact
  BY DEF TypeOK, Forgotten
<1>1. /\ files'[n] = Without(c, gone) /\ files'[n] # Absent
      /\ \A m \in Name \ {n} : files'[m] = files[m]
  BY PublishFileFacts
<1>2. ContentOf(files', n) = Without(c, gone)
  BY <1>1 DEF ContentOf
<1>3. \A m \in Name \ {n} : ContentOf(files', m) = ContentOf(files, m)
  BY <1>1 DEF ContentOf
<1>4. \A f \in gone : ~Has(ContentOf(files', n), f)
  BY <1>0, <1>2 DEF Without, Has
<1> QED
  BY <1>3, <1>4 DEF ForgottenGone

LEMMA ChangeForgotten ==
    ASSUME TypeOK, TypeOK', FactOnce, ForgottenGone, Change
    PROVE  ForgottenGone'
<1>1. ASSUME NEW f \in Fact, Remember(f)
      PROVE  ForgottenGone'
  <2> DEFINE new(n) == [FileBefore(n) EXCEPT ![f] = Active(NoEvent)]
  <2>1. PICK n \in Name : PublishFile(n, new(n), Forgotten)
    BY <1>1 DEF Remember
  <2>2. new(n) \in Content
    BY FileBeforeType, ActiveEntry, UpsertFacts
  <2> HIDE DEF new
  <2>3. Forgotten' = Forgotten
    BY <1>1 DEF Remember, controls, Forgotten
  <2> QED
    BY <2>1, <2>2, <2>3, PublishForgotten DEF ForgottenGone
<1>2. ASSUME NEW f \in Fact, NEW old \in Fact, Correct(old, f)
      PROVE  ForgottenGone'
  <2> DEFINE new(n) == [Supersede(files[n], old) EXCEPT ![f] = Active(NoEvent)]
  <2>1. PICK n \in Name : IsHolder(n, old) /\ PublishFile(n, new(n), Forgotten)
    BY <1>2 DEF Correct
  <2>2. new(n) \in Content
    BY <2>1, HolderFacts, CorrectedFacts
  <2> HIDE DEF new
  <2>3. Forgotten' = Forgotten
    BY <1>2 DEF Correct, controls, Forgotten
  <2> QED
    BY <2>1, <2>2, <2>3, PublishForgotten DEF ForgottenGone
<1>3. ASSUME NEW f \in Fact, Forget(f)
      PROVE  ForgottenGone'
  <2>1. PICK n \in Name : IsHolder(n, f) /\ PublishFile(n, files[n], Forgotten')
    BY <1>3 DEF Forget, Forgotten
  <2>2. files[n] \in Content /\ n \in Copies(files, f)
    BY <2>1, HolderFacts DEF IsHolder
  <2>3. Forgotten' = Forgotten \cup {f}
    BY <1>3 DEF Forget, Forgotten
  <2>4. \A m \in Name \ {n} : ~Has(ContentOf(files, m), f)
    BY <2>2 DEF FactOnce, Copies
  <2>5. \A m \in Name \ {n}, g \in Forgotten' : ~Has(ContentOf(files, m), g)
    BY <2>3, <2>4 DEF ForgottenGone
  <2> QED
    BY <2>1, <2>2, <2>5, PublishForgotten
<1> QED
  BY <1>1, <1>2, <1>3 DEF Change

LEMMA RemoveForgotten ==
    ASSUME TypeOK, TypeOK', FactOnce, ForgottenGone, Remove
    PROVE  ForgottenGone'
<1>0. Forgotten' \subseteq Fact
  BY DEF TypeOK, Forgotten
<1>1. ASSUME NEW m \in Name, NEW g \in Forgotten', g \in Forgotten
      PROVE  ~Has(ContentOf(files', m), g)
  <2>1. ~Has(ContentOf(files, m), g)
    BY <1>1 DEF ForgottenGone
  <2> QED
    BY <1>0, <1>1, <2>1, RemoveFades DEF Fades, Has
<1>2. ASSUME NEW found \in SUBSET Fact, Tidy(found)
      PROVE  ForgottenGone'
  <2> DEFINE gone == Forgotten'
  <2>1. \A n \in Name : files'[n] = IF files[n] = Absent THEN Absent ELSE Without(files[n], gone)
    BY <1>2 DEF Tidy, Forgotten
  <2>2. \A g \in gone : g \in Fact
    BY <1>0
  <2> HIDE DEF gone
  <2>3. ASSUME NEW n \in Name, NEW g \in gone
        PROVE  ~Has(ContentOf(files', n), g)
    <3>1. CASE files[n] = Absent
      BY <2>1, <2>2, <3>1 DEF ContentOf, Blank, Has
    <3>2. CASE files[n] # Absent
      BY <2>1, <2>2, <3>2 DEF ContentOf, Without, Blank, Has
    <3> QED
      BY <3>1, <3>2
  <2> QED
    BY <2>3 DEF ForgottenGone, gone
<1>3. ASSUME NEW f \in Fact, EraseFact(f)
      PROVE  ForgottenGone'
  <2>1. files' = [n \in Name |-> Erased(files[n], {f})]
    BY <1>3 DEF EraseFact
  <2>2. Forgotten' \subseteq Forgotten \cup {f}
    BY <1>3 DEF EraseFact, RecordErased, Forgotten
  <2>3. ASSUME NEW n \in Name
        PROVE  ~Has(ContentOf(files', n), f)
    <3>1. files'[n] = Erased(files[n], {f})
      BY <2>1
    <3>2. CASE files[n] # Absent /\ Held(files[n]) \cap {f} = {}
      BY <3>1, <3>2 DEF ContentOf, Erased, Held, Has
    <3>3. CASE ~(files[n] # Absent /\ Held(files[n]) \cap {f} = {})
      BY <3>1, <3>3 DEF ContentOf, Erased, Without, Has, Blank
    <3> QED
      BY <3>2, <3>3
  <2> QED
    BY <1>1, <2>2, <2>3 DEF ForgottenGone
<1>4. ASSUME NEW n \in Name, EraseEntity(n)
      PROVE  ForgottenGone'
  <2>1. files' = [files EXCEPT ![n] = Absent] /\ Held(ContentOf(files, n)) # {}
    BY <1>4 DEF EraseEntity
  <2>2. Forgotten' \subseteq Forgotten \cup Held(files[n])
    BY <1>4 DEF EraseEntity, RecordErased, Forgotten
  <2>3. files[n] # Absent
    BY <2>1 DEF ContentOf, Held, Has, Blank
  <2>4. /\ ContentOf(files', n) = Blank
        /\ \A m \in Name \ {n} : ContentOf(files', m) = ContentOf(files, m)
        /\ ContentOf(files, n) = files[n]
    BY <2>1, <2>3 DEF ContentOf, TypeOK
  <2>5. ASSUME NEW g \in Held(files[n]), NEW m \in Name
        PROVE  ~Has(ContentOf(files', m), g)
    <3>1. g \in Fact /\ n \in Copies(files, g)
      BY <2>4, <2>5 DEF Held, Copies
    <3>2. m # n => ~Has(ContentOf(files, m), g)
      BY <3>1 DEF FactOnce, Copies
    <3> QED
      BY <2>4, <3>1, <3>2 DEF Blank, Has
  <2> QED
    BY <1>1, <2>2, <2>5 DEF ForgottenGone
<1> QED
  BY <1>2, <1>3, <1>4 DEF Remove

LEMMA ForgottenStep ==
    ASSUME TypeOK, TypeOK', BlockedInv, FactOnce, ForgottenGone, [Next]_vars
    PROVE  ForgottenGone'
<1>1. UNCHANGED <<files, controls>> => ForgottenGone'
  BY DEF ForgottenGone, Forgotten, controls, ContentOf
<1>2. CASE PublishBatch
  <2>1. Forgotten' = Forgotten
    BY <1>2 DEF PublishBatch, controls, Forgotten
  <2>2. \A n \in Name, f \in suppressed \cup deleted :
           Has(ContentOf(files', n), f) => Has(ContentOf(files, n), f)
    BY <1>2, ConsolidateBlocked DEF Consolidate
  <2> QED
    BY <2>1, <2>2 DEF ForgottenGone, Forgotten
<1>3. ASSUME Consolidate, ~PublishBatch
      PROVE  UNCHANGED <<files, controls>>
  BY <1>3 DEF Consolidate, StartBatch, Place, AbandonBatch
<1>4. (\E e \in Event : Ingest(e)) \/ UNCHANGED vars => UNCHANGED <<files, controls>>
  BY DEF Ingest, vars
<1> QED
  BY <1>1, <1>2, <1>3, <1>4, ChangeForgotten, RemoveForgotten DEF Next

LEMMA HandStep ==
    ASSUME TypeOK, ForgottenGone, HandIsHead, [Next]_vars
    PROVE  HandIsHead'
<1>1. CASE Change \/ Remove
  <2>1. work' # NoWork => ~work'.fresh
    BY <1>1, Written, HeadMovesType DEF HeadWritten, TypeOK
  <2> QED
    BY <2>1 DEF HandIsHead
<1>2. UNCHANGED <<files, work>> => HandIsHead'
  BY DEF HandIsHead
<1>3. (\E e \in Event : Ingest(e)) \/ UNCHANGED vars => UNCHANGED <<files, work>>
  BY DEF Ingest, vars
<1>4. ASSUME NEW end \in 1..Len(journal), StartBatch(end)
      PROVE  HandIsHead'
  <2>1. UNCHANGED files
    BY <1>4 DEF StartBatch
  <2>2. ASSUME NEW n \in Name
        PROVE  work'.files[n] = files[n]
    <3>1. work'.files[n] = IF files[n] = Absent THEN Absent ELSE Without(files[n], Forgotten)
      BY <1>4, StartFacts
    <3>2. CASE files[n] # Absent
      <4>1. files[n] \in Content /\ ContentOf(files, n) = files[n]
        BY <3>2 DEF TypeOK, ContentOf
      <4>2. \A f \in Forgotten : files[n][f] = None
        BY <4>1 DEF ForgottenGone, Has
      <4>3. Without(files[n], Forgotten) = files[n]
        BY <4>1, <4>2 DEF Without, Content
      <4> QED
        BY <3>1, <3>2, <4>3
    <3> QED
      BY <3>1, <3>2
  <2> QED
    BY <2>1, <2>2 DEF HandIsHead
<1>5. ASSUME NEW i \in 1..Len(journal), NEW f \in Fact, Place(i, f)
      PROVE  HandIsHead'
  <2>1. UNCHANGED files /\ work # NoWork /\ work'.fresh = work.fresh
    BY <1>5, PlaceFacts DEF Place
  <2>2. PICK n \in Name :
           /\ \A m \in Name \ {n} : work'.files[m] = work.files[m]
           /\ work'.changed = work.changed \cup {n}
    BY <1>5, PlaceOne
  <2> QED
    BY <2>1, <2>2 DEF HandIsHead
<1>6. CASE PublishBatch \/ AbandonBatch
  BY <1>6 DEF PublishBatch, AbandonBatch, HandIsHead
<1> QED
  BY <1>1, <1>2, <1>3, <1>4, <1>5, <1>6 DEF Next, Consolidate

(* What a batch publishes is the whole of what it has in hand, retired. *)
LEMMA PublishWhole ==
    ASSUME TypeOK, HandIsHead, PublishBatch
    PROVE  files' = Retired(work.files, through + 1, work.end)
<1> DEFINE new == Retired(work.files, through + 1, work.end)
<1>1. work # NoWork /\ work.fresh
  BY DEF PublishBatch
<1>2. files' \in [Name -> Content \cup {Absent}]
  BY PublishBatchFacts
<1>3. \A n \in Name : \/ files'[n] = files[n] /\ n \notin work.changed /\ new[n] = work.files[n]
                      \/ files'[n] = new[n]
  BY PublishBatchFacts
<1>4. \A n \in Name : files'[n] = new[n]
  BY <1>1, <1>3 DEF HandIsHead
<1>5. new = [n \in Name |-> new[n]]
  BY DEF Retired
<1> HIDE DEF new
<1>6. files' = new
  BY <1>2, <1>4, <1>5
<1> QED
  BY <1>6 DEF new

LEMMA IndexStep ==
    ASSUME TypeOK, HandIsHead, IndexMatches, [Next]_vars
    PROVE  IndexMatches'
<1>1. index' = IndexOf(files') => IndexMatches'
  BY DEF IndexMatches, IndexOf
<1>2. UNCHANGED <<files, index>> => IndexMatches'
  BY DEF IndexMatches, IndexOf
<1>3. Change => index' = IndexOf(files')
  BY DEF Change, Remember, Correct, Forget, PublishFile
<1>4. Remove => index' = IndexOf(files') \/ UNCHANGED <<files, index>>
  BY DEF Remove, Tidy, EraseFact, EraseEntity
<1>5. ASSUME PublishBatch
      PROVE  index' = IndexOf(files') \/ UNCHANGED <<files, index>>
  <2> DEFINE new == Retired(work.files, through + 1, work.end)
             changed == work.changed \cup {n \in Name : new[n] # work.files[n]}
  <2>1. files' = new
    BY <1>5, PublishWhole
  <2>2. /\ files' = [n \in Name |-> IF n \in changed THEN new[n] ELSE files[n]]
        /\ index' = IF changed = {} THEN index ELSE IndexOf(new)
    BY <1>5 DEF PublishBatch
  <2> HIDE DEF new, changed
  <2>3. CASE changed = {}
    <3>1. files = [n \in Name |-> files[n]]
      BY DEF TypeOK
    <3> QED
      BY <2>2, <2>3, <3>1
  <2> QED
    BY <2>1, <2>2, <2>3
<1>6. ASSUME Consolidate, ~PublishBatch
      PROVE  UNCHANGED <<files, index>>
  BY <1>6 DEF Consolidate, StartBatch, Place, AbandonBatch
<1>7. (\E e \in Event : Ingest(e)) \/ UNCHANGED vars => UNCHANGED <<files, index>>
  BY DEF Ingest, vars
<1> QED
  BY <1>1, <1>2, <1>3, <1>4, <1>5, <1>6, <1>7 DEF Next

LEMMA InitIndex ==
    ASSUME Init
    PROVE  ForgottenGone /\ HandIsHead /\ IndexMatches
BY DEF Init, ForgottenGone, Forgotten, HandIsHead, IndexMatches, IndexOf

(* A batch works on what the head has, as long as nothing is left to prune. *)
LEMMA HandAlways == Spec /\ []ForgottenGone => [](HandIsHead /\ IndexMatches)
<1>1. TypeOK /\ ForgottenGone /\ HandIsHead /\ [Next]_vars => HandIsHead'
  BY HandStep
<1>2. TypeOK /\ HandIsHead /\ IndexMatches /\ [Next]_vars => IndexMatches'
  BY IndexStep
<1> QED
  BY <1>1, <1>2, InitIndex, TypeCorrect, PTL DEF Spec

(* IndexMatches: INDEX.md counts what is in the files after every change,  *)
(* removal and batch, though a batch writes it from its own copy; as long  *)
(* as ids of new facts are the program's and no fact is in two files.      *)
THEOREM IndexAlwaysMatches ==
    ASSUME FreshOnly
    PROVE  Spec /\ []FactOnce => []IndexMatches
<1>1. TypeOK /\ TypeOK' /\ BlockedInv /\ FactOnce /\ ForgottenGone /\ [Next]_vars => ForgottenGone'
  BY ForgottenStep
<1>2. Spec /\ []FactOnce => []ForgottenGone
  BY <1>1, InitIndex, BatchKnowsBlocked, TypeCorrect, PTL DEF Spec
<1> QED
  BY <1>2, HandAlways, PTL

-----------------------------------------------------------------------------
(* A fact is in one file *)

(* Nothing is forgotten, tidied or erased. *)
NoRemovals == Ops \cap {"forget", "tidy", "erase"} = {}

NoControls == suppressed = {} /\ retracted = {} /\ deleted = {}

(* A file is there only if the ones before it are full. *)
FirstFit(fs) == \A m, n \in Name : m < n /\ fs[n] # Absent => ~HasRoom(ContentOf(fs, m))

Once(fs) == \A f \in Fact : \A m, n \in Copies(fs, f) : m = n

(* FactOnce, strengthened: the files fill up one after the other, so that  *)
(* the first with a fact or with room is the one with the fact.            *)
SpillInv ==
    /\ FirstFit(files)
    /\ FactOnce
    /\ work # NoWork /\ work.fresh => FirstFit(work.files) /\ Once(work.files)

LEMMA RemovedNothing ==
    ASSUME NoRemovals
    PROVE  Spec => []NoControls
<1>1. Init => NoControls
  BY DEF Init, NoControls
<1>2. [Next]_vars => UNCHANGED controls
  BY DEF NoRemovals, Next, Change, Remove, Consolidate, Remember, Correct, Forget, Tidy, EraseFact,
         EraseEntity, Ingest, StartBatch, Place, PublishBatch, AbandonBatch, vars
<1>3. NoControls /\ UNCHANGED controls => NoControls'
  BY DEF NoControls, controls
<1> QED
  BY <1>1, <1>2, <1>3, PTL DEF Spec

(* A file with more facts has no more room. *)
LEMMA FullStaysFull ==
    ASSUME NEW c, NEW d, Held(c) \subseteq Held(d), ~HasRoom(c)
    PROVE  ~HasRoom(d)
<1>1. Held(d) \in SUBSET Fact /\ Held(c) \in SUBSET Held(d)
  BY DEF Held
<1>2. Cardinality(Held(c)) \in Nat /\ Cardinality(Held(d)) \in Nat
      /\ Cardinality(Held(c)) <= Cardinality(Held(d))
  BY <1>1, Sizes
<1> QED
  BY <1>2, RoomAssumption DEF HasRoom

(* Adding facts to a file that is there, or to the first that is not full, *)
(* leaves the files filled one after the other.                            *)
LEMMA WriteFirstFit ==
    ASSUME NEW fs, NEW gs, NEW n \in Name, FirstFit(fs),
           \A m \in Name \ {n} : gs[m] = fs[m],
           n = MaxFiles + 1 \/ Held(ContentOf(fs, n)) \subseteq Held(ContentOf(gs, n)),
           fs[n] # Absent \/ \A m \in Name : m < n => ~HasRoom(ContentOf(fs, m))
    PROVE  FirstFit(gs)
<1>0. MaxFiles \in Nat
  BY RoomAssumption
<1> SUFFICES ASSUME NEW j \in Name, NEW k \in Name, j < k, gs[k] # Absent
             PROVE  ~HasRoom(ContentOf(gs, j))
  BY DEF FirstFit
<1>1. ~HasRoom(ContentOf(fs, j))
  <2>1. CASE k = n
    BY <2>1 DEF FirstFit
  <2>2. CASE k # n
    BY <2>2 DEF FirstFit
  <2> QED
    BY <2>1, <2>2
<1>2. CASE j = n
  <2>1. n # MaxFiles + 1
    BY <1>0, <1>2 DEF Name
  <2> QED
    BY <1>1, <1>2, <2>1, FullStaysFull
<1>3. CASE j # n
  BY <1>1, <1>3 DEF ContentOf
<1> QED
  BY <1>2, <1>3

(* A fact that fades is in no more files than before. *)
LEMMA FadesCopies ==
    ASSUME NEW g, Fades(g)
    PROVE  Copies(files', g) \subseteq Copies(files, g)
BY DEF Fades, Copies, Has

LEMMA RememberSpill ==
    ASSUME TypeOK, BlockedInv, FreshOnly, NoControls, SpillInv, NEW f \in Fact, Remember(f)
    PROVE  FirstFit(files') /\ Once(files')
<1>0. f \notin named
  BY DEF Remember, IsNewId
<1> DEFINE new(n) == [FileBefore(n) EXCEPT ![f] = Active(NoEvent)]
<1>1. PICK n \in Name : GoesTo(n, f) /\ PublishFile(n, new(n), Forgotten)
  BY DEF Remember
<1>2. FileBefore(n) \in Content /\ new(n) \in Content
  BY FileBeforeType, ActiveEntry, UpsertFacts
<1>3. Held(FileBefore(n)) \subseteq Held(new(n))
  <2>1. Active(NoEvent) \in Entry
    BY ActiveEntry
  <2> QED
    BY <1>2, <2>1, NoneAssumption DEF Held, Has, Content
<1> HIDE DEF new
<1>4. /\ files'[n] = Without(new(n), Forgotten) /\ files'[n] # Absent
      /\ \A m \in Name \ {n} : files'[m] = files[m]
  BY <1>1, <1>2, PublishFileFacts
<1>5. Forgotten = {}
  BY DEF NoControls, Forgotten
<1>6. Held(ContentOf(files', n)) = Held(new(n))
  <2>1. ContentOf(files', n) = Without(new(n), Forgotten)
    BY <1>4 DEF ContentOf
  <2>2. Held(Without(new(n), Forgotten)) = Held(new(n)) \ Forgotten
    BY <1>2, WithoutFacts
  <2> QED
    BY <1>5, <2>1, <2>2
<1>7. \A m \in Name : ~Has(ContentOf(files, m), f)
  BY <1>0 DEF BlockedInv, Held
<1>8. \A m \in Name : m < n => ~HasRoom(ContentOf(files, m))
  <2>1. ~IsHolder(n, f)
    BY <1>7 DEF IsHolder, Copies
  <2>2. \A m \in Name : m < n => ~HasRoom(Without(ContentOf(files, m), Forgotten))
    BY <1>1, <2>1, GoesAfterFull
  <2>3. ASSUME NEW m \in Name
        PROVE  Held(Without(ContentOf(files, m), Forgotten)) = Held(ContentOf(files, m))
    <3>1. ContentOf(files, m) \in Content
      BY ContentType DEF TypeOK
    <3> QED
      BY <1>5, <3>1, WithoutFacts
  <2> QED
    BY <2>2, <2>3 DEF HasRoom
<1>9. n = MaxFiles + 1 \/ Held(ContentOf(files, n)) \subseteq Held(ContentOf(files', n))
  <2>1. n = MaxFiles + 1 \/ FileBefore(n) = ContentOf(files, n)
    BY <1>1, GoesToFacts DEF FileBefore, ContentOf
  <2> QED
    BY <1>3, <1>6, <2>1
<1>10. FirstFit(files')
  BY <1>4, <1>8, <1>9, WriteFirstFit DEF SpillInv
<1>11. Copies(files', f) \subseteq {n}
  BY <1>4, <1>7 DEF Copies, ContentOf
<1>12. \A g \in Fact \ {f} : Copies(files', g) \subseteq Copies(files, g)
  BY RememberFades, FadesCopies
<1>13. Once(files')
  BY <1>11, <1>12 DEF Once, SpillInv, FactOnce
<1> QED
  BY <1>10, <1>13

LEMMA CorrectSpill ==
    ASSUME TypeOK, BlockedInv, FreshOnly, NoControls, SpillInv,
           NEW f \in Fact, NEW old \in Fact, Correct(old, f)
    PROVE  FirstFit(files') /\ Once(files')
<1>0. f \notin named \/ f = old
  BY DEF Correct, IsNewId
<1> DEFINE new(n) == [Supersede(files[n], old) EXCEPT ![f] = Active(NoEvent)]
<1>1. PICK n \in Name : IsHolder(n, old) /\ PublishFile(n, new(n), Forgotten)
  BY DEF Correct
<1>2. /\ files[n] # Absent /\ files[n] \in Content
      /\ ContentOf(files, n) = files[n] /\ Has(files[n], old)
  BY <1>1, HolderFacts
<1>3. /\ new(n) \in Content /\ \A g \in Fact \ {old, f} : new(n)[g] = files[n][g]
      /\ f # old => new(n)[old] = [files[n][old] EXCEPT !.status = "superseded"]
      /\ new(n)[f] = Active(NoEvent)
  BY <1>2, CorrectedFacts DEF Content, Supersede
<1>4. Held(files[n]) \subseteq Held(new(n))
  <2>1. Active(NoEvent) \in Entry /\ files[n][old] \in Entry
    BY <1>2, ActiveEntry DEF Content, Has
  <2>2. [files[n][old] EXCEPT !.status = "superseded"] \in Entry
    BY <2>1 DEF Entry
  <2> HIDE DEF new
  <2> QED
    BY <1>3, <2>1, <2>2, NoneAssumption DEF Held, Has
<1> HIDE DEF new
<1>5. /\ files'[n] = Without(new(n), Forgotten) /\ files'[n] # Absent
      /\ \A m \in Name \ {n} : files'[m] = files[m]
  BY <1>1, <1>3, PublishFileFacts
<1>6. Forgotten = {}
  BY DEF NoControls, Forgotten
<1>7. Held(ContentOf(files', n)) = Held(new(n))
  <2>1. ContentOf(files', n) = Without(new(n), Forgotten)
    BY <1>5 DEF ContentOf
  <2>2. Held(Without(new(n), Forgotten)) = Held(new(n)) \ Forgotten
    BY <1>3, WithoutFacts
  <2> QED
    BY <1>6, <2>1, <2>2
<1>8. FirstFit(files')
  BY <1>2, <1>4, <1>5, <1>7, WriteFirstFit DEF SpillInv
<1>9. \A m \in Name \ {n} : ContentOf(files', m) = ContentOf(files, m)
  BY <1>5 DEF ContentOf
<1>10. Copies(files', old) \subseteq Copies(files, old)
  BY <1>2, <1>9 DEF Copies
<1>11. f # old => Copies(files', f) \subseteq {n}
  <2>1. f # old => \A m \in Name : ~Has(ContentOf(files, m), f)
    BY <1>0 DEF BlockedInv, Held
  <2> QED
    BY <1>9, <2>1 DEF Copies
<1>12. \A g \in Fact \ {f, old} : Copies(files', g) \subseteq Copies(files, g)
  BY CorrectFades, FadesCopies
<1>13. Once(files')
  BY <1>10, <1>11, <1>12 DEF Once, SpillInv, FactOnce
<1> QED
  BY <1>8, <1>13

LEMMA PlaceSpill ==
    ASSUME TypeOK, FirstFit(work.files), Once(work.files),
           NEW i \in 1..Len(journal), NEW f \in Fact, Place(i, f)
    PROVE  FirstFit(work'.files) /\ Once(work'.files)
<1>0. MaxFiles \in Nat
  BY RoomAssumption
<1>1. PICK n \in Name :
         /\ PlacedIn(work.files, n, f)
         /\ work'.files[n] # Absent
         /\ \A m \in Name \ {n} : work'.files[m] = work.files[m]
         /\ Held(work'.files[n]) = Held(ContentOf(work.files, n)) \cup {f}
  BY PlaceOne
<1>2. \A m \in Name : m < n => ~Has(ContentOf(work.files, m), f) /\ ~HasRoom(ContentOf(work.files, m))
  BY <1>1, PlacedAfterFull
<1>3. ContentOf(work'.files, n) = work'.files[n]
  BY <1>1 DEF ContentOf
<1>4. FirstFit(work'.files)
  BY <1>1, <1>2, <1>3, WriteFirstFit
<1>5. \A m \in Name \ {n} : ContentOf(work'.files, m) = ContentOf(work.files, m)
  BY <1>1 DEF ContentOf
<1>6. ASSUME NEW g \in Fact, g # f
      PROVE  Copies(work'.files, g) \subseteq Copies(work.files, g)
  <2>1. Has(ContentOf(work'.files, n), g) => Has(ContentOf(work.files, n), g)
    BY <1>1, <1>3, <1>6 DEF Held
  <2> QED
    BY <1>5, <2>1 DEF Copies
<1>7. ASSUME NEW m \in Name, m # n, Has(ContentOf(work.files, m), f)
      PROVE  FALSE
  <2>1. n < m
    BY <1>0, <1>2, <1>7 DEF Name
  <2>2. work.files[m] # Absent
    BY <1>7 DEF ContentOf, Blank, Has
  <2>3. ~HasRoom(ContentOf(work.files, n))
    BY <2>1, <2>2 DEF FirstFit
  <2>4. Has(ContentOf(work.files, n), f)
    BY <1>1, <2>3 DEF PlacedIn
  <2> QED
    BY <1>7, <2>4 DEF Once, Copies
<1>8. Copies(work'.files, f) \subseteq {n}
  BY <1>5, <1>7 DEF Copies
<1>9. Once(work'.files)
  BY <1>6, <1>8 DEF Once
<1> QED
  BY <1>4, <1>9

LEMMA PublishSpill ==
    ASSUME TypeOK, HandIsHead, FirstFit(work.files), Once(work.files), PublishBatch
    PROVE  FirstFit(files') /\ Once(files')
<1>1. work \in Batch
  BY PublishBatchFacts
<1>2. work.files \in [Name -> Content \cup {Absent}]
  BY <1>1 DEF Batch
<1>3. \A n \in Name : files'[n] = Absent <=> work.files[n] = Absent
  BY <1>2, PublishWhole, RetiredThere
<1>4. ASSUME NEW n \in Name
      PROVE  Held(ContentOf(files', n)) = Held(ContentOf(work.files, n))
  <2>1. CASE work.files[n] = Absent
    BY <1>3, <2>1 DEF ContentOf
  <2>2. CASE work.files[n] # Absent
    <3>1. files'[n] = Retire(work.files[n], through + 1, work.end)
      BY <2>2, PublishWhole DEF Retired
    <3>2. files'[n] # Absent /\ work.files[n] \in Content
      BY <1>2, <1>3, <2>2
    <3> QED
      BY <2>2, <3>1, <3>2, RetireFacts DEF ContentOf
  <2> QED
    BY <2>1, <2>2
<1>5. FirstFit(files')
  BY <1>3, <1>4 DEF FirstFit, HasRoom
<1>6. \A f \in Fact : Copies(files', f) = Copies(work.files, f)
  BY <1>4 DEF Copies, Held
<1> QED
  BY <1>5, <1>6 DEF Once

LEMMA SpillStep ==
    ASSUME FreshOnly, NoRemovals, TypeOK, BlockedInv, NoControls, HandIsHead, SpillInv, [Next]_vars
    PROVE  SpillInv'
<1>0. Once(files') <=> FactOnce'
  BY DEF Once, FactOnce
<1>1. CASE Change \/ Remove
  <2>1. work' # NoWork => ~work'.fresh
    BY <1>1, Written, HeadMovesType DEF HeadWritten, TypeOK
  <2>2. FirstFit(files') /\ Once(files')
    BY <1>1, RememberSpill, CorrectSpill
       DEF NoRemovals, Change, Remove, Forget, Tidy, EraseFact, EraseEntity
  <2> QED
    BY <1>0, <2>1, <2>2 DEF SpillInv
<1>2. UNCHANGED files => (FirstFit(files) => FirstFit(files')) /\ (FactOnce => FactOnce')
  BY DEF FactOnce
<1>3. UNCHANGED <<files, work>> => SpillInv'
  BY <1>2 DEF SpillInv
<1>4. (\E e \in Event : Ingest(e)) \/ UNCHANGED vars => UNCHANGED <<files, work>>
  BY DEF Ingest, vars
<1>5. ASSUME NEW end \in 1..Len(journal), StartBatch(end)
      PROVE  SpillInv'
  <2>1. UNCHANGED files
    BY <1>5 DEF StartBatch
  <2>2. work'.files = files
    <3>1. Forgotten = {}
      BY DEF NoControls, Forgotten
    <3>2. ASSUME NEW n \in Name, files[n] # Absent
          PROVE  Without(files[n], Forgotten) = files[n]
      <4>1. files[n] \in Content
        BY <3>2 DEF TypeOK
      <4> QED
        BY <3>1, <4>1 DEF Without, Content
    <3>3. \A n \in Name : work'.files[n] = files[n]
      BY <1>5, <3>2, StartFacts
    <3>4. work'.files \in [Name -> Content \cup {Absent}]
      BY <1>5, StartFacts DEF Batch
    <3> QED
      BY <3>3, <3>4 DEF TypeOK
  <2>3. FirstFit(work'.files) /\ Once(work'.files)
    BY <2>2 DEF SpillInv, FactOnce, Once
  <2> QED
    BY <1>2, <2>1, <2>3 DEF SpillInv
<1>6. ASSUME NEW i \in 1..Len(journal), NEW f \in Fact, Place(i, f)
      PROVE  SpillInv'
  <2>1. UNCHANGED files /\ work # NoWork /\ work'.fresh = work.fresh
    BY <1>6, PlaceFacts DEF Place
  <2>2. work.fresh => FirstFit(work'.files) /\ Once(work'.files)
    BY <1>6, <2>1, PlaceSpill DEF SpillInv
  <2> QED
    BY <1>2, <2>1, <2>2 DEF SpillInv
<1>7. CASE PublishBatch
  <2>1. work # NoWork /\ work.fresh /\ work' = NoWork
    BY <1>7 DEF PublishBatch
  <2>2. FirstFit(files') /\ Once(files')
    BY <1>7, <2>1, PublishSpill DEF SpillInv
  <2> QED
    BY <1>0, <2>1, <2>2 DEF SpillInv
<1>8. CASE AbandonBatch
  BY <1>2, <1>8 DEF AbandonBatch, SpillInv
<1> QED
  BY <1>1, <1>3, <1>4, <1>5, <1>6, <1>7, <1>8 DEF Next, Consolidate

LEMMA InitSpill ==
    ASSUME Init
    PROVE  SpillInv
<1>1. \A n \in Name : files[n] = Absent /\ ContentOf(files, n) = Blank
  BY DEF Init, ContentOf
<1>2. \A f \in Fact : Copies(files, f) = {}
  BY <1>1 DEF Copies, Has, Blank
<1>3. FirstFit(files) /\ FactOnce /\ work = NoWork
  BY <1>1, <1>2 DEF FirstFit, FactOnce, Init
<1> QED
  BY <1>3 DEF SpillInv

(* The files fill up one after the other. *)
LEMMA SpillAlways ==
    ASSUME FreshOnly, NoRemovals
    PROVE  Spec => []SpillInv
<1>1. NoControls => ForgottenGone
  BY DEF NoControls, ForgottenGone, Forgotten
<1>2. Spec => [](NoControls /\ HandIsHead)
  BY <1>1, RemovedNothing, HandAlways, PTL
<1>3. TypeOK /\ BlockedInv /\ NoControls /\ HandIsHead /\ SpillInv /\ [Next]_vars => SpillInv'
  BY SpillStep
<1> QED
  BY <1>2, <1>3, InitSpill, BatchKnowsBlocked, TypeCorrect, PTL DEF Spec

(* FactOnce, CorrectedHidden and IndexMatches: while callers remember and  *)
(* correct and batches consolidate, no fact is in two files, a corrected   *)
(* fact is hidden and INDEX.md is right, for any facts, files and events.  *)
(* (Forgetting makes room in an early file for a fact that a later one has.) *)
THEOREM OneFileEach ==
    ASSUME FreshOnly, NoRemovals
    PROVE  Spec => [](FactOnce /\ CorrectedHidden /\ IndexMatches)
<1>1. SpillInv => FactOnce
  BY DEF SpillInv
<1>2. Spec => []FactOnce
  BY <1>1, SpillAlways, PTL
<1> QED
  BY <1>2, CorrectedStaysHidden, IndexAlwaysMatches, PTL

-----------------------------------------------------------------------------
(* An entity with few facts *)

(* The facts of the first k files. *)
InFirst(k) == {f \in Fact : \E n \in 1..k : Has(ContentOf(files, n), f)}

LEMMA NextFile ==
    ASSUME FactOnce, NEW k \in 1..MaxFiles
    PROVE  Cardinality(InFirst(k)) = Cardinality(InFirst(k - 1)) + Cardinality(Held(ContentOf(files, k)))
<1>0. MaxFiles \in Nat
  BY RoomAssumption
<1> DEFINE S == InFirst(k - 1)
           T == Held(ContentOf(files, k))
<1>1. S \subseteq Fact /\ T \subseteq Fact
  BY DEF InFirst, Held
<1>2. IsFiniteSet(S) /\ IsFiniteSet(T)
  BY <1>1, FactAssumption, FS_Subset
<1>3. InFirst(k) = S \cup T
  <2>1. 1..k = 1..(k - 1) \cup {k}
    BY <1>0
  <2> QED
    BY <2>1 DEF InFirst, Held
<1>4. S \cap T = {}
  <2>1. SUFFICES ASSUME NEW f \in S \cap T
                 PROVE  FALSE
    OBVIOUS
  <2>2. PICK n \in 1..(k - 1) : Has(ContentOf(files, n), f)
    BY <2>1 DEF InFirst
  <2>3. n \in Name /\ k \in Name /\ n # k
    BY <1>0, <2>2 DEF Name
  <2>4. f \in Fact /\ Has(ContentOf(files, k), f)
    BY <2>1 DEF Held
  <2> QED
    BY <2>2, <2>3, <2>4 DEF FactOnce, Copies
<1> HIDE DEF S, T
<1>5. Cardinality(S \cup T) = Cardinality(S) + Cardinality(T) - Cardinality(S \cap T)
  BY <1>2, FS_Union
<1>6. Cardinality(S \cap T) = 0 /\ Cardinality(S) \in Nat /\ Cardinality(T) \in Nat
  BY <1>2, <1>4, FS_EmptySet, FS_CardinalityType
<1> QED
  BY <1>3, <1>5, <1>6 DEF S, T

(* If the unread file is there, the fifty others are full of facts, all    *)
(* different.                                                              *)
LEMMA FullFamily ==
    ASSUME FirstFit(files), FactOnce, ~FamilyRead, NEW k \in 0..MaxFiles
    PROVE  Cardinality(InFirst(k)) >= Room * k
<1>0. MaxFiles \in Nat /\ Room \in Nat
  BY RoomAssumption
<1> DEFINE Bad == {j \in 0..MaxFiles : ~(Cardinality(InFirst(j)) >= Room * j)}
<1>1. SUFFICES ASSUME Bad # {}
               PROVE  FALSE
  OBVIOUS
<1>2. PICK j \in Bad : \A i \in Bad : j <= i
  <2>1. Bad \in SUBSET Nat
    BY <1>0
  <2> HIDE DEF Bad
  <2> QED
    BY <1>1, <2>1, LeastNumber
<1>3. \A i : Cardinality(InFirst(i)) \in Nat
  <2>1. \A i : InFirst(i) \in SUBSET Fact
    BY DEF InFirst
  <2> QED
    BY <2>1, FactAssumption, FS_Subset, FS_CardinalityType
<1>4. j # 0
  <2>1. Room * 0 = 0
    BY <1>0
  <2> QED
    BY <1>2, <1>3, <2>1
<1>5. j \in 1..MaxFiles /\ j - 1 \in 0..MaxFiles /\ j - 1 \notin Bad
  BY <1>0, <1>2, <1>4
<1>6. Cardinality(InFirst(j - 1)) >= Room * (j - 1)
  BY <1>5
<1>7. ~HasRoom(ContentOf(files, j))
  <2>1. j \in Name /\ MaxFiles + 1 \in Name /\ j < MaxFiles + 1
    BY <1>0, <1>5 DEF Name
  <2> QED
    BY <2>1 DEF FirstFit, FamilyRead
<1>8. Cardinality(Held(ContentOf(files, j))) \in Nat /\ Cardinality(Held(ContentOf(files, j))) >= Room
  <2>1. Held(ContentOf(files, j)) \in SUBSET Fact
    BY DEF Held
  <2>2. Cardinality(Held(ContentOf(files, j))) \in Nat
    BY <2>1, Sizes
  <2> QED
    BY <1>0, <1>7, <2>2 DEF HasRoom
<1>9. Cardinality(InFirst(j)) = Cardinality(InFirst(j - 1)) + Cardinality(Held(ContentOf(files, j)))
  BY <1>5, NextFile
<1>10. Room * (j - 1) + Room = Room * j /\ Room * (j - 1) \in Nat
  BY <1>0, <1>5
<1>11. Cardinality(InFirst(j)) >= Room * j
  BY <1>0, <1>3, <1>6, <1>8, <1>9, <1>10
<1> QED
  BY <1>2, <1>11

(* No file is there without a fact. *)
NoneEmpty(fs) == \A n \in Name : fs[n] # Absent => Held(ContentOf(fs, n)) # {}

NoneEmptyInv ==
    /\ NoneEmpty(files)
    /\ work # NoWork /\ work.fresh => NoneEmpty(work.files)

LEMMA ChangeNoneEmpty ==
    ASSUME NoRemovals, TypeOK, NoControls, NoneEmpty(files), Change
    PROVE  NoneEmpty(files')
<1>0. Forgotten = {} /\ Active(NoEvent) \in Entry
  BY ActiveEntry DEF NoControls, Forgotten
<1>1. ASSUME NEW n \in Name, NEW c \in Content, Held(c) # {}, PublishFile(n, c, Forgotten)
      PROVE  NoneEmpty(files')
  <2>1. /\ files'[n] = Without(c, Forgotten) /\ files'[n] # Absent
        /\ \A m \in Name \ {n} : files'[m] = files[m]
    BY <1>1, PublishFileFacts
  <2>2. ContentOf(files', n) = Without(c, Forgotten)
    BY <2>1 DEF ContentOf
  <2>3. Held(Without(c, Forgotten)) = Held(c) \ Forgotten
    BY <1>1, WithoutFacts
  <2>4. Held(ContentOf(files', n)) # {}
    BY <1>0, <1>1, <2>2, <2>3
  <2>5. \A m \in Name \ {n} : ContentOf(files', m) = ContentOf(files, m)
    BY <2>1 DEF ContentOf
  <2> QED
    BY <2>1, <2>4, <2>5 DEF NoneEmpty
<1>2. ASSUME NEW c \in Content, NEW f \in Fact
      PROVE  Held([c EXCEPT ![f] = Active(NoEvent)]) # {}
  BY <1>0, <1>2, NoneAssumption DEF Held, Has, Content
<1>3. ASSUME NEW f \in Fact, Remember(f)
      PROVE  NoneEmpty(files')
  <2> DEFINE new(n) == [FileBefore(n) EXCEPT ![f] = Active(NoEvent)]
  <2>1. PICK n \in Name : PublishFile(n, new(n), Forgotten)
    BY <1>3 DEF Remember
  <2>2. new(n) \in Content /\ Held(new(n)) # {}
    BY <1>2, FileBeforeType, ActiveEntry, UpsertFacts
  <2> HIDE DEF new
  <2> QED
    BY <1>1, <2>1, <2>2
<1>4. ASSUME NEW f \in Fact, NEW old \in Fact, Correct(old, f)
      PROVE  NoneEmpty(files')
  <2> DEFINE new(n) == [Supersede(files[n], old) EXCEPT ![f] = Active(NoEvent)]
  <2>1. PICK n \in Name : IsHolder(n, old) /\ PublishFile(n, new(n), Forgotten)
    BY <1>4 DEF Correct
  <2>2. files[n] \in Content /\ Has(files[n], old)
    BY <2>1, HolderFacts
  <2>3. new(n) \in Content
    BY <2>2, CorrectedFacts
  <2>4. new(n)[f] = Active(NoEvent)
    BY <2>2 DEF Content, Supersede
  <2>5. Held(new(n)) # {}
    BY <1>0, <2>4, NoneAssumption DEF Held, Has
  <2> HIDE DEF new
  <2> QED
    BY <1>1, <2>1, <2>3, <2>5
<1> QED
  BY <1>3, <1>4 DEF Change, Forget, NoRemovals

LEMMA NoneEmptyStep ==
    ASSUME NoRemovals, TypeOK, NoControls, HandIsHead, NoneEmptyInv, [Next]_vars
    PROVE  NoneEmptyInv'
<1>1. CASE Change \/ Remove
  <2>1. work' # NoWork => ~work'.fresh
    BY <1>1, Written, HeadMovesType DEF HeadWritten, TypeOK
  <2>2. ~Remove
    BY DEF NoRemovals, Remove, Tidy, EraseFact, EraseEntity
  <2>3. NoneEmpty(files')
    BY <1>1, <2>2, ChangeNoneEmpty DEF NoneEmptyInv
  <2> QED
    BY <2>1, <2>3 DEF NoneEmptyInv
<1>2. UNCHANGED <<files, work>> => NoneEmptyInv'
  BY DEF NoneEmptyInv
<1>3. (\E e \in Event : Ingest(e)) \/ UNCHANGED vars => UNCHANGED <<files, work>>
  BY DEF Ingest, vars
<1>4. ASSUME NEW end \in 1..Len(journal), StartBatch(end)
      PROVE  NoneEmptyInv'
  <2>1. UNCHANGED files /\ Forgotten = {}
    BY <1>4 DEF StartBatch, NoControls, Forgotten
  <2>2. ASSUME NEW n \in Name, work'.files[n] # Absent
        PROVE  Held(ContentOf(work'.files, n)) # {}
    <3>1. files[n] # Absent /\ work'.files[n] = Without(files[n], Forgotten)
      BY <1>4, <2>2, StartFacts
    <3>2. files[n] \in Content /\ ContentOf(files, n) = files[n]
      BY <3>1 DEF TypeOK, ContentOf
    <3>3. Held(Without(files[n], Forgotten)) = Held(files[n]) \ Forgotten
      BY <3>2, WithoutFacts
    <3>4. Held(files[n]) # {}
      BY <3>1, <3>2 DEF NoneEmptyInv, NoneEmpty
    <3>5. ContentOf(work'.files, n) = Without(files[n], Forgotten)
      BY <2>2, <3>1 DEF ContentOf
    <3> QED
      BY <2>1, <3>3, <3>4, <3>5
  <2> QED
    BY <2>1, <2>2 DEF NoneEmptyInv, NoneEmpty
<1>5. ASSUME NEW i \in 1..Len(journal), NEW f \in Fact, Place(i, f)
      PROVE  NoneEmptyInv'
  <2>1. UNCHANGED files /\ work # NoWork /\ work'.fresh = work.fresh
    BY <1>5, PlaceFacts DEF Place
  <2>2. PICK n \in Name :
           /\ work'.files[n] # Absent
           /\ \A m \in Name \ {n} : work'.files[m] = work.files[m]
           /\ Held(work'.files[n]) = Held(ContentOf(work.files, n)) \cup {f}
    BY <1>5, PlaceOne
  <2>3. ContentOf(work'.files, n) = work'.files[n]
        /\ \A m \in Name \ {n} : ContentOf(work'.files, m) = ContentOf(work.files, m)
    BY <2>2 DEF ContentOf
  <2>4. NoneEmpty(work.files) => NoneEmpty(work'.files)
    BY <2>2, <2>3 DEF NoneEmpty
  <2> QED
    BY <2>1, <2>4 DEF NoneEmptyInv
<1>6. CASE PublishBatch
  <2>1. work # NoWork /\ work.fresh /\ work' = NoWork /\ work \in Batch
    BY <1>6, PublishBatchFacts DEF PublishBatch
  <2>2. work.files \in [Name -> Content \cup {Absent}]
    BY <2>1 DEF Batch
  <2>3. ASSUME NEW n \in Name, files'[n] # Absent
        PROVE  Held(ContentOf(files', n)) # {}
    <3>1. work.files[n] # Absent
      BY <1>6, <2>2, <2>3, PublishWhole, RetiredThere
    <3>2. files'[n] = Retire(work.files[n], through + 1, work.end)
      BY <1>6, <3>1, PublishWhole DEF Retired
    <3>3. work.files[n] \in Content /\ ContentOf(work.files, n) = work.files[n]
      BY <2>2, <3>1 DEF ContentOf
    <3>4. Held(files'[n]) = Held(work.files[n])
      BY <3>2, <3>3, RetireFacts
    <3> QED
      BY <2>1, <2>3, <3>1, <3>3, <3>4 DEF NoneEmptyInv, NoneEmpty, ContentOf
  <2> QED
    BY <2>1, <2>3 DEF NoneEmptyInv, NoneEmpty
<1>7. CASE AbandonBatch
  BY <1>7 DEF AbandonBatch, NoneEmptyInv
<1> QED
  BY <1>1, <1>2, <1>3, <1>4, <1>5, <1>6, <1>7 DEF Next, Consolidate

(* RememberedKept and ReadableIsReachable, for an entity of which no more  *)
(* facts are ever said than its files hold: no file is written that is not *)
(* read, so nothing remembered is lost and all that is readable can be     *)
(* corrected, while nothing is forgotten, tidied or erased.                *)
THEOREM SmallEntityIsRead ==
    ASSUME FreshOnly, NoRemovals, OwnApart, Cardinality(Fact) <= Room * MaxFiles
    PROVE  Spec => [](RememberedKept /\ ReadableIsReachable)
<1>1. SpillInv /\ NoneEmptyInv => FamilyRead
  <2> SUFFICES ASSUME SpillInv, NoneEmptyInv, ~FamilyRead
               PROVE  FALSE
    OBVIOUS
  <2>0. MaxFiles \in Nat
    BY RoomAssumption
  <2>1. MaxFiles \in 0..MaxFiles /\ Room * MaxFiles \in Nat
    BY RoomAssumption
  <2>2. Cardinality(InFirst(MaxFiles)) >= Room * MaxFiles
    BY <2>1, FullFamily DEF SpillInv
  <2>3. PICK f : f \in Held(ContentOf(files, MaxFiles + 1))
    BY <2>0 DEF NoneEmptyInv, NoneEmpty, FamilyRead, Name
  <2>4. f \in Fact /\ f \notin InFirst(MaxFiles)
    <3>1. f \in Fact /\ Has(ContentOf(files, MaxFiles + 1), f)
      BY <2>3 DEF Held
    <3>2. \A n \in 1..MaxFiles : n \in Name /\ MaxFiles + 1 \in Name /\ n # MaxFiles + 1
      BY <2>0 DEF Name
    <3> QED
      BY <3>1, <3>2 DEF InFirst, SpillInv, FactOnce, Copies
  <2>5. InFirst(MaxFiles) \in SUBSET Fact
    BY DEF InFirst
  <2>6. /\ Cardinality(InFirst(MaxFiles)) <= Cardinality(Fact)
        /\ Cardinality(InFirst(MaxFiles)) # Cardinality(Fact)
        /\ Cardinality(InFirst(MaxFiles)) \in Nat /\ Cardinality(Fact) \in Nat
    BY <2>4, <2>5, FactAssumption, FS_Subset, FS_CardinalityType
  <2> QED
    BY <2>1, <2>2, <2>6
<1>2. Spec => []NoneEmptyInv
  <2>1. Init => NoneEmptyInv
    BY DEF Init, NoneEmptyInv, NoneEmpty
  <2>2. NoControls => ForgottenGone
    BY DEF NoControls, ForgottenGone, Forgotten
  <2>3. TypeOK /\ NoControls /\ HandIsHead /\ NoneEmptyInv /\ [Next]_vars => NoneEmptyInv'
    BY NoneEmptyStep
  <2> QED
    BY <2>1, <2>2, <2>3, RemovedNothing, HandAlways, TypeCorrect, PTL DEF Spec
<1>3. Spec => []FamilyRead
  BY <1>1, <1>2, SpillAlways, PTL
<1>4. "erase" \notin Ops
  BY DEF NoRemovals
<1>5. Spec => [](FamilyRead => ReadableIsReachable)
  BY <1>4, NothingOutOfReach
<1> QED
  BY <1>3, <1>5, RememberedStaysReadable, PTL
=============================================================================
