------------------------------ MODULE Curation ------------------------------
(***************************************************************************)
(* What the published snapshots say: the facts of one entity and its spill *)
(* files, the controls, INDEX.md and the checkpoint, under every operation *)
(* that writes them.                                                       *)
(*                                                                         *)
(*   change.rs       remember, correct, forget                             *)
(*   consolidate.rs  a batch: read the head, place proposals, publish      *)
(*   tidy.rs         forget many facts at once                             *)
(*   erasure.rs      step 1: remove a fact or an entity from the tree      *)
(*   search, ops.rs  which facts a reader sees                             *)
(*                                                                         *)
(* A change is one step: it is computed from a head and published only if  *)
(* that head is still there (module Publication).  A batch calls a model   *)
(* between its base and its publication and is many steps.                 *)
(*                                                                         *)
(* A file's size is the number of its facts: statements have one length.   *)
(* A statement is abstracted to its fact id, which consolidation computes  *)
(* from it.                                                                *)
(***************************************************************************)
EXTENDS Naturals, Sequences, FiniteSets

CONSTANTS
    Fact,       \* fact ids
    Own,        \* the ids that callers of remember and correct give or get
    Event,      \* journal events
    Versions,   \* the events that are versions of one memory file (AGENTS.md)
    Says,       \* the facts an extractor may find in each event
    Similar,    \* pairs of facts that restate each other
    NoEvent,    \* the origin of a fact that was not extracted
    None,       \* no entry for a fact
    Absent,     \* no file
    NoWork,     \* no batch under way
    Ops,        \* the operations in use: a subset of Operation
    FreshOnly,  \* TRUE: callers leave the id of a new fact to the program
    Room,       \* facts that fit under ENTITY_SOFT_LIMIT
    HardRoom,   \* facts that fit into 64 KiB
    MaxFiles    \* files of a family that are read: 50

Operation == {"remember", "correct", "forget", "tidy", "erase", "consolidate"}

ASSUME FactAssumption ==
    /\ IsFiniteSet(Fact)
    /\ Own \subseteq Fact
    /\ Versions \subseteq Event
    /\ Says \in [Event -> SUBSET Fact]
    /\ Ops \subseteq Operation
    /\ FreshOnly \in BOOLEAN
    /\ NoEvent \notin Event

ASSUME RoomAssumption ==
    /\ Room \in Nat \ {0}
    /\ HardRoom \in Nat
    /\ Room <= HardRoom
    /\ MaxFiles \in Nat \ {0}

VARIABLES
    files,      \* the entity file and its spill files <id>_2, <id>_3, ...
    suppressed, \* state/controls.json
    retracted,
    deleted,
    index,      \* the number of active facts INDEX.md gives for each file
    journal,    \* the events, in the order of their numbers
    through,    \* state/checkpoint.json
    work,       \* the batch under way
    named,      \* history: ids given to a fact so far
    kept,       \* history: facts remembered, and by nobody replaced or removed
    corrected   \* history: facts corrected, and not said again

controls == <<suppressed, retracted, deleted>>
vars == <<files, controls, index, journal, through, work, named, kept, corrected>>

-----------------------------------------------------------------------------
(* Data *)

(* The last of these is written to and never read. *)
Name == 1..(MaxFiles + 1)

Entry == [status : {"active", "superseded"}, origin : Event \cup {NoEvent}]

ASSUME NoneAssumption == None \notin Entry

Content == [Fact -> Entry \cup {None}]

ASSUME AbsentAssumption == Absent \notin Content

Blank == [f \in Fact |-> None]

Active(origin) == [status |-> "active", origin |-> origin]

Has(c, f) == c[f] # None

Held(c) == {f \in Fact : Has(c, f)}

Current(c) == {f \in Fact : Has(c, f) /\ c[f].status = "active"}

ContentOf(fs, n) == IF fs[n] = Absent THEN Blank ELSE fs[n]

(* prune_forgotten *)
Without(c, gone) == [f \in Fact |-> IF f \in gone THEN None ELSE c[f]]

Forgotten == suppressed \cap retracted

HasRoom(c) == Cardinality(Held(c)) + 1 <= Room

(* index_md_after, render_index_md: a file that is not there has no row.   *)
IndexOf(fs) == [n \in Name |-> IF fs[n] = Absent THEN 0 ELSE Cardinality(Current(fs[n]))]

Copies(fs, f) == {n \in Name : Has(ContentOf(fs, n), f)}

(* search and read: what is in no control and active. *)
Readable ==
    {f \in Fact \ (suppressed \cup retracted \cup deleted) :
        \E n \in Name : f \in Current(ContentOf(files, n))}

(* load_family: the files up to the first one missing; a missing first one *)
(* counts as blank.                                                        *)
Family == {n \in 1..MaxFiles : \A m \in 2..n : files[m] # Absent}

IsHolder(n, f) ==
    /\ n \in Family \cap Copies(files, f)
    /\ \A m \in Family \cap Copies(files, f) : n <= m

Batch == [files : [Name -> Content \cup {Absent}], blocked : SUBSET Fact,
          changed : SUBSET Name, end : Nat, said : SUBSET Fact, fresh : BOOLEAN]

ASSUME NoWorkAssumption == NoWork \notin Batch

Init ==
    /\ files = [n \in Name |-> Absent]
    /\ suppressed = {} /\ retracted = {} /\ deleted = {}
    /\ index = [n \in Name |-> 0]
    /\ journal = <<>>
    /\ through = 0
    /\ work = NoWork
    /\ named = {} /\ kept = {} /\ corrected = {}

-----------------------------------------------------------------------------
(* Publishing *)

(* The head moves: a batch based on the old one will be refused. *)
HeadMoves == work' = IF work = NoWork THEN NoWork ELSE [work EXCEPT !.fresh = FALSE]

(* Mutant: the size of the change set is not checked. *)
PublishFileUnchecked(n, c, gone) ==
    /\ files' = [files EXCEPT ![n] = Without(c, gone)]
    /\ index' = IndexOf(files')
    /\ HeadMoves
    /\ UNCHANGED <<journal, through>>

(* The change set has file n with content c, INDEX.md and perhaps the      *)
(* controls.  What is forgotten by then is dropped from the file.          *)
PublishFile(n, c, gone) ==
    /\ Cardinality(Held(Without(c, gone))) <= HardRoom
    /\ files' = [files EXCEPT ![n] = Without(c, gone)]
    /\ index' = IndexOf(files')
    /\ HeadMoves
    /\ UNCHANGED <<journal, through>>

IsNewId(f) == f \in Own /\ (FreshOnly => f \notin named)

-----------------------------------------------------------------------------
(* change.rs *)

(* Mutant: the number after the next one is taken for a spill file. *)
GoesToGap(n, f) ==
    \/ IsHolder(n, f)
    \/ /\ Family \cap Copies(files, f) = {}
       /\ LET roomy == {m \in Family : HasRoom(Without(ContentOf(files, m), Forgotten))} IN
          \/ n \in roomy /\ \A m \in roomy : n <= m
          \/ roomy = {} /\ n = Cardinality(Family) + 2

(* The file of a remembered fact: where it already is, else the first with *)
(* room, else the next spill file.                                         *)
GoesTo(n, f) ==
    \/ IsHolder(n, f)
    \/ /\ Family \cap Copies(files, f) = {}
       /\ LET roomy == {m \in Family : HasRoom(Without(ContentOf(files, m), Forgotten))} IN
          \/ n \in roomy /\ \A m \in roomy : n <= m
          \/ roomy = {} /\ n = Cardinality(Family) + 1

(* A spill file starts blank, whether or not the family reaches that far.  *)
FileBefore(n) == IF n \in Family THEN ContentOf(files, n) ELSE Blank

Remember(f) ==
    /\ "remember" \in Ops
    /\ IsNewId(f)
    /\ \E n \in Name :
          /\ GoesTo(n, f)
          /\ PublishFile(n, [FileBefore(n) EXCEPT ![f] = Active(NoEvent)], Forgotten)
    /\ named' = named \cup {f}
    /\ kept' = kept \cup {f}
    /\ corrected' = corrected \ {f}
    /\ UNCHANGED controls

(* Mutant: the old fact keeps its status. *)
SupersedeNothing(c, old) == c

Supersede(c, old) == [c EXCEPT ![old].status = "superseded"]

(* Refused when the family does not have `old`.  `old` is the new id       *)
(* itself when no target is given.                                         *)
Correct(old, f) ==
    /\ "correct" \in Ops
    /\ IsNewId(f) \/ (f = old /\ f \in Own)
    /\ \E n \in Name :
          /\ IsHolder(n, old)
          /\ PublishFile(n, [Supersede(files[n], old) EXCEPT ![f] = Active(NoEvent)], Forgotten)
    /\ named' = named \cup {f}
    /\ kept' = (kept \ {old}) \cup {f}
    /\ corrected' = (corrected \cup {old}) \ {f}
    /\ UNCHANGED controls

(* Mutant: the file is pruned of what was forgotten before. *)
ForgetLater(f) ==
    /\ "forget" \in Ops
    /\ suppressed' = suppressed \cup {f}
    /\ retracted' = retracted \cup {f}
    /\ \E n \in Name : IsHolder(n, f) /\ PublishFile(n, files[n], Forgotten)
    /\ kept' = kept \ {f}
    /\ UNCHANGED <<deleted, named, corrected>>

(* Refused when the family does not have the fact. *)
Forget(f) ==
    /\ "forget" \in Ops
    /\ suppressed' = suppressed \cup {f}
    /\ retracted' = retracted \cup {f}
    /\ \E n \in Name : IsHolder(n, f) /\ PublishFile(n, files[n], suppressed' \cap retracted')
    /\ kept' = kept \ {f}
    /\ UNCHANGED <<deleted, named, corrected>>

-----------------------------------------------------------------------------
(* tidy.rs: any live facts may be found to be duplicates or to have been   *)
(* about one session; the facts forgotten earlier are dropped everywhere.  *)

Tidy(found) ==
    /\ "tidy" \in Ops
    /\ found \subseteq Readable
    /\ \E n \in Name, f \in found \cup Forgotten : Has(ContentOf(files, n), f)
    /\ suppressed' = suppressed \cup found
    /\ retracted' = retracted \cup found
    /\ files' = [n \in Name |-> IF files[n] = Absent THEN Absent
                                ELSE Without(files[n], suppressed' \cap retracted')]
    /\ index' = IndexOf(files')
    /\ HeadMoves
    /\ kept' = kept \ found
    /\ UNCHANGED <<deleted, journal, through, named, corrected>>

-----------------------------------------------------------------------------
(* erasure.rs, step 1.  A file is deleted when no fact remains in it.      *)

Erased(file, gone) ==
    IF file = Absent THEN Absent
    ELSE IF Held(file) \cap gone = {} THEN file
    ELSE IF Held(file) \subseteq gone THEN Absent
    ELSE Without(file, gone)

RecordErased(ids) ==
    /\ suppressed' = suppressed \cup ids
    /\ deleted' = deleted \cup ids
    /\ kept' = kept \ ids
    /\ HeadMoves
    /\ UNCHANGED <<retracted, journal, through, named, corrected>>

(* A fact is erased in every file.  It may already be gone. *)
EraseFact(f) ==
    /\ "erase" \in Ops
    /\ Copies(files, f) # {} \/ f \in suppressed \cup deleted
    /\ files' = [n \in Name |-> Erased(files[n], {f})]
    /\ index' = IF files' = files THEN index ELSE IndexOf(files')
    /\ RecordErased({f})

(* An entity is one file: the spill files have ids of their own. *)
EraseEntity(n) ==
    /\ "erase" \in Ops
    /\ Held(ContentOf(files, n)) # {}
    /\ files' = [files EXCEPT ![n] = Absent]
    /\ index' = IndexOf(files')
    /\ RecordErased(Held(files[n]))

-----------------------------------------------------------------------------
(* The journal grows; an event is ingested once. *)

Ingest(e) ==
    /\ \A i \in DOMAIN journal : journal[i] # e
    /\ journal' = Append(journal, e)
    /\ UNCHANGED <<files, controls, index, through, work, named, kept, corrected>>

-----------------------------------------------------------------------------
(* consolidate.rs, run_batch *)

(* Mutant: what was erased is not blocked. *)
StartBatchErasedAllowed(end) ==
    /\ "consolidate" \in Ops
    /\ work = NoWork
    /\ end \in (through + 1)..Len(journal)
    /\ work' = [files |-> [n \in Name |-> IF files[n] = Absent THEN Absent
                                          ELSE Without(files[n], Forgotten)],
                blocked |-> Forgotten,
                changed |-> {}, end |-> end, said |-> {}, fresh |-> TRUE]
    /\ UNCHANGED <<files, controls, index, journal, through, named, kept, corrected>>

(* The head, the controls and the journal are read; the window ends where  *)
(* `high_water` says.                                                      *)
StartBatch(end) ==
    /\ "consolidate" \in Ops
    /\ work = NoWork
    /\ end \in (through + 1)..Len(journal)
    /\ work' = [files |-> [n \in Name |-> IF files[n] = Absent THEN Absent
                                          ELSE Without(files[n], Forgotten)],
                blocked |-> suppressed \cup deleted,
                changed |-> {}, end |-> end, said |-> {}, fresh |-> TRUE]
    /\ UNCHANGED <<files, controls, index, journal, through, named, kept, corrected>>

(* restates_existing: an active fact of the family says nearly the same.   *)
Restates(fs, f) ==
    \E n \in Name : \E g \in Current(ContentOf(fs, n)) : g # f /\ {f, g} \in Similar

(* Mutant: only the room in a file is looked at. *)
PlacedInRoom(fs, n, f) ==
    LET fits == {m \in 1..MaxFiles : HasRoom(ContentOf(fs, m))}
    IN  n \in fits /\ \A m \in fits : n <= m

(* The first file that has the fact or room for it. *)
PlacedIn(fs, n, f) ==
    LET fits == {m \in 1..MaxFiles : Has(ContentOf(fs, m), f) \/ HasRoom(ContentOf(fs, m))}
    IN  n \in fits /\ \A m \in fits : n <= m

(* The extractor finds fact f in event number i.  (What is blocked, restates *)
(* another fact or fits nowhere is dropped.)                               *)
Place(i, f) ==
    /\ work # NoWork
    /\ i \in (through + 1)..work.end
    /\ f \in Says[journal[i]]
    /\ f \notin work.blocked
    /\ ~Restates(work.files, f)
    /\ \E n \in Name :
          /\ PlacedIn(work.files, n, f)
          /\ work' = [work EXCEPT
                         !.files[n] = [ContentOf(work.files, n) EXCEPT ![f] = Active(journal[i])],
                         !.changed = @ \cup {n},
                         !.said = @ \cup {f}]
    /\ UNCHANGED <<files, controls, index, journal, through, named, kept, corrected>>

(* The versions of the memory file in the window. *)
VersionsAt(from, to) == {i \in from..to : journal[i] \in Versions}

(* Mutant: the window's first version counts. *)
IsOutdatedFirst(entry, from, to) ==
    LET at == VersionsAt(from, to) IN
    /\ entry # None /\ entry.status = "active" /\ entry.origin \in Versions
    /\ \E i \in at : \A j \in at : j <= i => entry.origin # journal[j]

(* retire_outdated_file_facts: an active fact from another version than    *)
(* the window's last one, so than any from some version on.                *)
IsOutdated(entry, from, to) ==
    LET at == VersionsAt(from, to) IN
    /\ entry # None /\ entry.status = "active" /\ entry.origin \in Versions
    /\ \E i \in at : \A j \in at : i <= j => entry.origin # journal[j]

Retire(c, from, to) ==
    [f \in Fact |-> IF IsOutdated(c[f], from, to) THEN [c[f] EXCEPT !.status = "superseded"]
                                                  ELSE c[f]]

Retired(fs, from, to) ==
    [n \in Name |-> IF fs[n] = Absent THEN Absent ELSE Retire(fs[n], from, to)]

(* Mutant: published over whatever the head is. *)
PublishBatchAnyHead ==
    /\ work # NoWork
    /\ LET new == Retired(work.files, through + 1, work.end)
           changed == work.changed \cup {n \in Name : new[n] # work.files[n]}
       IN  /\ files' = [n \in Name |-> IF n \in changed THEN new[n] ELSE files[n]]
           /\ index' = IF changed = {} THEN index ELSE IndexOf(new)
           /\ \A n \in changed : Cardinality(Held(new[n])) <= HardRoom
    /\ through' = work.end
    /\ named' = named \cup work.said
    /\ corrected' = corrected \ work.said
    /\ work' = NoWork
    /\ UNCHANGED <<controls, journal, kept>>

(* One commit with the changed files, INDEX.md if there are any, and the   *)
(* checkpoint.  INDEX.md is made from the files the batch has in hand.     *)
PublishBatch ==
    /\ work # NoWork
    /\ work.fresh
    /\ LET new == Retired(work.files, through + 1, work.end)
           changed == work.changed \cup {n \in Name : new[n] # work.files[n]}
       IN  /\ files' = [n \in Name |-> IF n \in changed THEN new[n] ELSE files[n]]
           /\ index' = IF changed = {} THEN index ELSE IndexOf(new)
           /\ \A n \in changed : Cardinality(Held(new[n])) <= HardRoom
    /\ through' = work.end
    /\ named' = named \cup work.said
    /\ corrected' = corrected \ work.said
    /\ work' = NoWork
    /\ UNCHANGED <<controls, journal, kept>>

(* The head has moved, the model call failed, or the process was killed:   *)
(* nothing from this batch is published.                                   *)
AbandonBatch ==
    /\ work # NoWork
    /\ work' = NoWork
    /\ UNCHANGED <<files, controls, index, journal, through, named, kept, corrected>>

-----------------------------------------------------------------------------
Change == \E f \in Fact : Remember(f) \/ Forget(f) \/ (\E old \in Fact : Correct(old, f))

Remove ==
    \/ \E found \in SUBSET Fact : Tidy(found)
    \/ \E f \in Fact : EraseFact(f)
    \/ \E n \in Name : EraseEntity(n)

Consolidate ==
    \/ \E end \in 1..Len(journal) : StartBatch(end)
    \/ \E i \in 1..Len(journal), f \in Fact : Place(i, f)
    \/ PublishBatch
    \/ AbandonBatch

Next == Change \/ Remove \/ (\E e \in Event : Ingest(e)) \/ Consolidate

Spec == Init /\ [][Next]_vars

-----------------------------------------------------------------------------
(* Properties *)

(* Every variable holds what its file holds, and no file is over the limit. *)
TypeOK ==
    /\ files \in [Name -> Content \cup {Absent}]
    /\ suppressed \subseteq Fact /\ retracted \subseteq Fact /\ deleted \subseteq Fact
    /\ index \in [Name -> Nat]
    /\ journal \in Seq(Event)
    /\ through \in 0..Len(journal)
    /\ work \in Batch \cup {NoWork}
    /\ work # NoWork => work.end \in through..Len(journal)
    /\ named \subseteq Fact /\ kept \subseteq Fact /\ corrected \subseteq Fact
    /\ \A n \in Name : Cardinality(Held(ContentOf(files, n))) <= HardRoom

(* README "Immediate validated change": what was remembered can be read    *)
(* until a caller replaces or removes it, whatever else is placed, spilled, *)
(* pruned and retired meanwhile.                                           *)
RememberedKept == kept \subseteq Readable

(* README "consolidation never re-creates it": no file gets a fact that is *)
(* forgotten or erased, even if that happened while a batch was under way. *)
BlockedStaysOut ==
    [][\A n \in Name, f \in suppressed \cup deleted :
          Has(ContentOf(files, n), f)' => Has(ContentOf(files, n), f)]_vars

(* The entry is active and from a version that another one has followed    *)
(* among the first t events.                                               *)
FromOldVersion(entry, t) ==
    \E i, j \in 1..t :
        /\ i < j
        /\ {journal[i], journal[j]} \subseteq Versions
        /\ entry # None /\ entry.status = "active" /\ entry.origin = journal[i]

(* README "facts that came only from its old version ... are marked        *)
(* superseded": what a reader sees of a memory file is from the latest      *)
(* version consolidated.                                                   *)
FileFactsCurrent ==
    \A n \in Name, f \in Fact \ suppressed :
        ~FromOldVersion(ContentOf(files, n)[f], through)

(* consolidate.rs "re-extracting the same fact updates it instead of       *)
(* duplicating it": no fact is in two files of its family.                 *)
FactOnce == \A f \in Fact : \A m, n \in Copies(files, f) : m = n

(* README "`correct` supersedes the old fact", "superseded ... facts are   *)
(* never returned": a corrected fact is not readable until it is said again. *)
CorrectedHidden == corrected \cap Readable = {}

(* index.rs "so it always matches its snapshot": INDEX.md counts what is in *)
(* the files, though a batch counts in its own copy, which it has pruned   *)
(* of what is forgotten, also in files that it does not write.             *)
IndexMatches == index = IndexOf(files)

(* Whatever a reader sees can be corrected and forgotten. *)
ReadableIsReachable == \A f \in Readable : \E n \in Name : IsHolder(n, f)

(* BlockedStaysOut, strengthened: every id in a file or in the controls was *)
(* given to a fact before, and a batch on the present head knows what is   *)
(* blocked.                                                                *)
BlockedInv ==
    /\ suppressed \cup deleted \subseteq named
    /\ \A n \in Name : Held(ContentOf(files, n)) \subseteq named
    /\ work # NoWork =>
          /\ \A n \in Name : Held(ContentOf(work.files, n)) \subseteq named \cup work.said
          /\ work.fresh =>
                \A n \in Name, f \in suppressed \cup deleted :
                    /\ f \in work.blocked
                    /\ Has(ContentOf(work.files, n), f) => Has(ContentOf(files, n), f)

(* FileFactsCurrent, strengthened: a batch on the present head has nothing *)
(* outdated in hand, and what it did not change is what the head has.      *)
CurrentInv ==
    /\ \A i, j \in DOMAIN journal : journal[i] = journal[j] => i = j
    /\ FileFactsCurrent
    /\ work # NoWork /\ work.fresh =>
          \A n \in Name, f \in Fact \ suppressed :
              /\ ~FromOldVersion(ContentOf(work.files, n)[f], through)
              /\ n \notin work.changed =>
                    ContentOf(files, n)[f] = ContentOf(work.files, n)[f]
=============================================================================
