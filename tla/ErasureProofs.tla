--------------------------- MODULE ErasureProofs ---------------------------
(***************************************************************************)
(* Theorems about Erasure, for any processes, facts and bounds: the types, *)
(* that a fact scrubbed from the history stays out of it, that nothing     *)
(* else is lost with it, that the journal has lost what was answered for,  *)
(* and what a pruning leaves in the object store.                          *)
(***************************************************************************)
EXTENDS Erasure, SequenceTheorems, TLAPS

(* What a change set does to the file it was computed from. *)
Faithful(i) ==
    /\ i.base # <<>>
    /\ i.hand.file \subseteq Tip(i.base).file \cup i.about
    /\ Tip(i.base).file \ (i.hand.file \cup i.gone) \subseteq Tip(i.base).forgotten
    /\ i.hand.forgotten \subseteq Tip(i.base).forgotten \cup i.gone
    /\ i.hand.file \cap i.hand.forgotten = {}

Publishing == {"intent", "check", "candidate", "swap"}

HandsFaithful ==
    /\ \A i \in intents : Faithful(i)
    /\ \A p \in Proc : proc[p].pc \in Publishing => Faithful(proc[p])

(* The rewritten branch is the scrubbed one. *)
CopiesScrubbed ==
    \A p \in Proc : proc[p].pc = "replace" =>
        proc[p].base # <<>> /\ proc[p].new = Scrub(proc[p].base, proc[p].ids)

(* At the head nothing forgotten is in the file, and nothing kept is       *)
(* forgotten.                                                              *)
HeadConsistent ==
    /\ Tip(branch).file \cap Tip(branch).forgotten = {}
    /\ kept \cap Tip(branch).forgotten = {}

IInv == TypeOK /\ HandsFaithful /\ CopiesScrubbed /\ HeadConsistent
        /\ ErasedForGood /\ OthersKept

-----------------------------------------------------------------------------
(* The last element of the sequences the actions build. *)

LEMMA TipOfAppend ==
    ASSUME NEW c \in Seq(Commit), NEW h \in Commit
    PROVE  /\ Append(c, h) \in Seq(Commit)
           /\ Append(c, h) # <<>>
           /\ Tip(Append(c, h)) = h
           /\ \A f : Shows(Append(c, h), f) => Shows(c, f) \/ f \in h.file
  <1>1. /\ Append(c, h) \in Seq(Commit)
        /\ Len(Append(c, h)) = Len(c) + 1
        /\ Append(c, h)[Len(c) + 1] = h
        /\ \A k \in 1..Len(c) : Append(c, h)[k] = c[k]
        /\ DOMAIN Append(c, h) = 1..(Len(c) + 1)
        /\ DOMAIN c = 1..Len(c) /\ Len(c) \in Nat
    OBVIOUS
  <1>2. Append(c, h) # <<>>
    BY <1>1
  <1>3. ASSUME NEW f, Shows(Append(c, h), f)
        PROVE  Shows(c, f) \/ f \in h.file
    <2>1. PICK k \in 1..(Len(c) + 1) : f \in Append(c, h)[k].file
      BY <1>1, <1>3 DEF Shows
    <2>2. CASE k = Len(c) + 1
      BY <2>1, <2>2, <1>1
    <2>3. CASE k # Len(c) + 1
      <3>1. k \in 1..Len(c)
        BY <2>3, <1>1
      <3>2. QED BY <3>1, <2>1, <1>1 DEF Shows
    <2>4. QED BY <2>2, <2>3
  <1>4. QED BY <1>1, <1>2, <1>3 DEF Tip

LEMMA TipIsCommit ==
    ASSUME NEW c \in Seq(Commit), c # <<>>
    PROVE  /\ Tip(c) \in Commit
           /\ Len(c) \in DOMAIN c
  BY DEF Tip

LEMMA ScrubWorks ==
    ASSUME NEW c \in Seq(Commit), c # <<>>, NEW ids
    PROVE  /\ Scrub(c, ids) \in Seq(Commit)
           /\ Scrub(c, ids) # <<>>
           /\ Tip(Scrub(c, ids)).file = Tip(c).file \ ids
           /\ Tip(Scrub(c, ids)).forgotten = Tip(c).forgotten
           /\ \A f : Shows(Scrub(c, ids), f) => Shows(c, f) /\ f \notin ids
  <1>1. /\ Len(c) \in Nat /\ Len(c) > 0 /\ DOMAIN c = 1..Len(c)
        /\ \A k \in 1..Len(c) : c[k] \in Commit
    OBVIOUS
  <1>2. \A k \in 1..Len(c) :
           /\ Scrub(c, ids)[k] = [c[k] EXCEPT !.file = @ \ ids]
           /\ Scrub(c, ids)[k] \in Commit
           /\ Scrub(c, ids)[k].file = c[k].file \ ids
           /\ Scrub(c, ids)[k].forgotten = c[k].forgotten
    BY <1>1 DEF Scrub, Commit
  <1>3. DOMAIN Scrub(c, ids) = 1..Len(c)
    BY <1>1 DEF Scrub
  <1>4. Scrub(c, ids) \in [1..Len(c) -> Commit]
    BY <1>1, <1>2, <1>3 DEF Scrub
  <1>5. Scrub(c, ids) \in Seq(Commit) /\ Len(Scrub(c, ids)) = Len(c)
    BY <1>1, <1>4
  <1>6. QED BY <1>1, <1>2, <1>3, <1>5 DEF Tip, Shows

LEMMA AncestorsType ==
    ASSUME NEW c \in Seq(Commit)
    PROVE  Ancestors(c) \subseteq Seq(Commit)
  <1> SUFFICES ASSUME NEW k \in DOMAIN c
               PROVE  SubSeq(c, 1, k) \in Seq(Commit)
    BY DEF Ancestors
  <1>1. k \in 1..Len(c) /\ Len(c) \in Nat /\ \A i \in 1..k : c[i] \in Commit
    OBVIOUS
  <1>2. QED
    BY <1>1, SubSeqProperties

LEMMA RestType == Rest \in Local /\ Rest.pc = "idle"
  <1>1. Root \in Commit
    BY DEF Root, Commit
  <1>2. <<>> \in Seq(Commit)
    OBVIOUS
  <1>3. QED
    BY <1>1, <1>2 DEF Rest, Local, Step, Job

-----------------------------------------------------------------------------
(* Types *)

UnderLock == {"replace", "mark", "prune"}

(* A step that changes only what one process is doing, and ends up in a    *)
(* step that needs no lock or with the lock. *)
LEMMA OneProcess ==
    ASSUME TypeOK, NEW p \in Proc, NEW r \in Local,
           proc' = [proc EXCEPT ![p] = r],
           \/ lock' = lock /\ (r.pc \in UnderLock => lock = p)
           \/ lock' = p /\ lock = Nobody
           \/ lock' = Nobody /\ lock = p /\ r.pc \notin UnderLock
    PROVE  /\ proc' \in [Proc -> Local]
           /\ lock' \in Proc \cup {Nobody}
           /\ \A q \in Proc : proc'[q].pc \in UnderLock => lock' = q
  <1>1. proc' \in [Proc -> Local] /\ \A q \in Proc : proc'[q] = IF q = p THEN r ELSE proc[q]
    BY DEF TypeOK
  <1>2. \A q \in Proc : proc[q].pc \in UnderLock => lock = q
    BY DEF TypeOK, UnderLock
  <1>3. lock \in Proc \cup {Nobody} /\ Nobody \notin Proc
    BY NameAssumption DEF TypeOK
  <1>4. QED
    BY <1>1, <1>2, <1>3

LEMMA TypeInit == Init => TypeOK
  <1> SUFFICES ASSUME Init PROVE TypeOK
    OBVIOUS
  <1>1. Root \in Commit
    BY DEF Root, Commit
  <1>2. branch \in Seq(Commit) /\ branch # <<>> /\ pool \subseteq Seq(Commit)
    BY <1>1 DEF Init
  <1>3. proc \in [Proc -> Local] /\ \A p \in Proc : proc[p].pc = "idle"
    BY RestType DEF Init
  <1>4. QED
    BY <1>2, <1>3, BoundAssumption DEF Init, TypeOK

(* What the type invariant says of one process. *)
LEMMA LocalType ==
    ASSUME TypeOK, NEW p \in Proc
    PROVE  /\ proc[p] \in Local
           /\ proc[p].base \in Seq(Commit) /\ proc[p].hand \in Commit
           /\ proc[p].about \subseteq Fact /\ proc[p].gone \subseteq Fact
           /\ proc[p].says \subseteq Id /\ proc[p].ids \subseteq Id
           /\ proc[p].new \in Seq(Commit)
           /\ Tip(branch) \in Commit
  <1>1. proc[p] \in Local
    BY DEF TypeOK
  <1>2. QED
    BY <1>1, TipIsCommit DEF TypeOK, Local

LEMMA ReturnType ==
    ASSUME TypeOK, NEW p \in Proc, Return(p)
    PROVE  /\ proc' \in [Proc -> Local]
           /\ lock' \in Proc \cup {Nobody}
           /\ \A q \in Proc : proc'[q].pc \in UnderLock => lock' = q
  <1>1. lock = p \/ lock' = lock
    BY DEF Return
  <1>2. QED
    BY <1>1, RestType, OneProcess DEF Return, UnderLock

(* One process goes on to a step outside the lock, or stays under it. *)
LEMMA GotoType ==
    ASSUME TypeOK, NEW p \in Proc, NEW step \in Step, Goto(p, step), UNCHANGED lock,
           step \in UnderLock => proc[p].pc \in UnderLock
    PROVE  /\ proc' \in [Proc -> Local]
           /\ lock' \in Proc \cup {Nobody}
           /\ \A q \in Proc : proc'[q].pc \in UnderLock => lock' = q
  <1> DEFINE r == [proc[p] EXCEPT !.pc = step]
  <1>1. r \in Local /\ r.pc = step
    BY LocalType DEF Local
  <1>2. proc' = [proc EXCEPT ![p] = r]
    BY DEF Goto
  <1>3. proc[p].pc \in UnderLock => lock = p
    BY DEF TypeOK, UnderLock
  <1> HIDE DEF r
  <1>4. QED
    BY <1>1, <1>2, <1>3, OneProcess

LEMMA ConflictType ==
    ASSUME TypeOK, NEW p \in Proc, Conflict(p)
    PROVE  /\ proc' \in [Proc -> Local]
           /\ lock' \in Proc \cup {Nobody}
           /\ \A q \in Proc : proc'[q].pc \in UnderLock => lock' = q
  BY ReturnType, GotoType DEF Conflict, Step, UnderLock

LEMMA BeginType ==
    ASSUME TypeOK, NEW p \in Proc
    PROVE  /\ \A f \in Fact : BeginRemember(p, f) \/ BeginForget(p, f) => TypeOK'
           /\ \A i \in intents : BeginRecover(p, i) => TypeOK'
           /\ \A t \in Id : BeginErase(p, t) => TypeOK'
  <1> DEFINE tip == Tip(branch)
  <1>1. tip \in Commit /\ branch \in Seq(Commit)
    BY LocalType DEF TypeOK
  <1>2. /\ tip.file \subseteq Fact /\ tip.forgotten \subseteq Fact /\ tip.barred \subseteq Id
        /\ clock \in Nat /\ clock + 1 \in Nat /\ Fact \subseteq Id /\ Entity \in Id
    BY <1>1, BoundAssumption DEF TypeOK, Commit, Id
  <1>3. lock' = lock /\ UNCHANGED <<branch, pool, intents, redacted, faults, history>>
          /\ (clock' = clock \/ (clock < MaxRequests /\ clock' = clock + 1))
          /\ (\E r \in Local : r.pc \in {"intent", "check"} /\ proc' = [proc EXCEPT ![p] = r])
        => TypeOK'
    <2> SUFFICES ASSUME lock' = lock, UNCHANGED <<branch, pool, intents, redacted, faults, history>>,
                        clock' = clock \/ (clock < MaxRequests /\ clock' = clock + 1),
                        NEW r \in Local, r.pc \in {"intent", "check"},
                        proc' = [proc EXCEPT ![p] = r]
                 PROVE  TypeOK'
      OBVIOUS
    <2>1. /\ proc' \in [Proc -> Local]
          /\ lock' \in Proc \cup {Nobody}
          /\ \A q \in Proc : proc'[q].pc \in UnderLock => lock' = q
      BY OneProcess DEF UnderLock
    <2>2. clock' \in 0..MaxRequests
      BY BoundAssumption DEF TypeOK
    <2>3. QED
      BY <2>1, <2>2 DEF TypeOK, UnderLock, history
  <1>4. ASSUME NEW f \in Fact, BeginRemember(p, f)
        PROVE  TypeOK'
    <2> DEFINE file == (tip.file \cup {f}) \ tip.forgotten
               hand == [tip EXCEPT !.req = clock + 1, !.file = file]
               r == [Rest EXCEPT !.pc = "intent", !.base = branch, !.about = {f},
                                 !.says = file \cup {Entity}, !.hand = hand]
    <2>1. hand \in Commit
      BY <1>1, <1>2 DEF Commit
    <2>2. r \in Local /\ r.pc = "intent"
      BY <1>1, <1>2, <2>1, RestType DEF Local, Step
    <2>3. proc' = [proc EXCEPT ![p] = r]
      BY <1>4 DEF BeginRemember
    <2>4. QED
      BY <1>3, <1>4, <2>2, <2>3 DEF BeginRemember
  <1>5. ASSUME NEW f \in Fact, BeginForget(p, f)
        PROVE  TypeOK'
    <2> DEFINE forgotten == tip.forgotten \cup {f}
               barred == tip.barred \cup {f}
               file == tip.file \ forgotten
               hand == [req |-> clock + 1, file |-> file, forgotten |-> forgotten,
                        barred |-> barred]
               r == [Rest EXCEPT !.pc = "intent", !.base = branch, !.gone = {f},
                                 !.says = file \cup barred \cup {Entity}, !.hand = hand]
    <2>1. hand \in Commit
      BY <1>1, <1>2 DEF Commit
    <2>2. r \in Local /\ r.pc = "intent"
      BY <1>1, <1>2, <2>1, RestType DEF Local, Step
    <2>3. proc' = [proc EXCEPT ![p] = r]
      BY <1>5 DEF BeginForget
    <2>4. QED
      BY <1>3, <1>5, <2>2, <2>3 DEF BeginForget
  <1>6. ASSUME NEW i \in intents, BeginRecover(p, i)
        PROVE  TypeOK'
    <2> DEFINE r == [Rest EXCEPT !.pc = "check", !.job = "recover", !.base = i.base,
                                 !.hand = i.hand, !.about = i.about, !.gone = i.gone,
                                 !.says = i.says]
    <2>1. i \in Intent
      BY DEF TypeOK
    <2>2. r \in Local /\ r.pc = "check"
      BY <2>1, RestType DEF Local, Step, Job, Intent
    <2>3. proc' = [proc EXCEPT ![p] = r]
      BY <1>6 DEF BeginRecover
    <2>4. /\ lock' = lock /\ UNCHANGED <<branch, pool, intents, redacted, faults, history>>
          /\ clock' = clock
      BY <1>6 DEF BeginRecover, history
    <2> HIDE DEF r
    <2>5. \E s \in Local : s.pc \in {"intent", "check"} /\ proc' = [proc EXCEPT ![p] = s]
      BY <2>2, <2>3
    <2>6. clock' = clock \/ (clock < MaxRequests /\ clock' = clock + 1)
      BY <2>4
    <2> HIDE <1>6
    <2>7. QED
      BY <1>3, <2>4, <2>5, <2>6, Zenon
  <1>7. ASSUME NEW t \in Id, BeginErase(p, t)
        PROVE  TypeOK'
    <2> DEFINE gone == FoundAt(tip, t)
               ids == IF gone = {} THEN {t} ELSE gone \cup ({Entity} \cap {t})
               hand == [tip EXCEPT !.req = clock + 1, !.file = @ \ gone,
                            !.barred = @ \cup (IF gone = {} THEN {t} ELSE gone)]
               r == [Rest EXCEPT !.pc = "check", !.job = "erase", !.base = branch,
                                 !.gone = gone, !.ids = ids, !.hand = hand]
    <2>1. gone \subseteq Fact /\ ids \subseteq Id
      BY <1>2 DEF FoundAt
    <2>2. hand \in Commit
      BY <1>1, <1>2, <2>1 DEF Commit
    <2>3. r \in Local /\ r.pc = "check"
      BY <1>1, <1>2, <2>1, <2>2, RestType DEF Local, Step, Job
    <2>4. proc' = [proc EXCEPT ![p] = r]
      BY <1>7 DEF BeginErase
    <2>5. QED
      BY <1>3, <1>7, <2>3, <2>4 DEF BeginErase
  <1>8. QED
    BY <1>4, <1>5, <1>6, <1>7

LEMMA IntentType ==
    ASSUME TypeOK, NEW p \in Proc
    PROVE  WriteIntent(p) \/ Complete(p) \/ SetAside(p) => TypeOK'
  <1>1. ASSUME WriteIntent(p) PROVE TypeOK'
    <2> DEFINE i == [req |-> proc[p].hand.req, base |-> proc[p].base,
                     hand |-> proc[p].hand, says |-> proc[p].says,
                     about |-> proc[p].about, gone |-> proc[p].gone, stale |-> FALSE]
    <2>1. i \in Intent
      BY LocalType DEF Intent, Commit
    <2>2. intents' = intents \cup {i}
      BY <1>1 DEF WriteIntent
    <2> HIDE DEF i
    <2>3. QED
      BY <1>1, <2>1, <2>2, GotoType DEF TypeOK, WriteIntent, Step, UnderLock, history
  <1>2. ASSUME Complete(p) PROVE TypeOK'
    BY <1>2, ReturnType DEF TypeOK, Complete, Pending, UnderLock, history
  <1>3. ASSUME SetAside(p) PROVE TypeOK'
    <2>1. ASSUME NEW i \in intents PROVE [i EXCEPT !.stale = TRUE] \in Intent
      <3>1. i \in Intent
        BY DEF TypeOK
      <3>2. QED BY <3>1 DEF Intent
    <2>2. intents' \subseteq Intent
      BY <1>3, <2>1 DEF SetAside, Pending, TypeOK
    <2>3. QED
      BY <1>3, <2>2, ReturnType DEF TypeOK, SetAside, UnderLock, history
  <1>4. QED
    BY <1>1, <1>2, <1>3

LEMMA PublishType ==
    ASSUME TypeOK, NEW p \in Proc
    PROVE  Publish(p) => TypeOK'
  <1>1. ASSUME Check(p) PROVE TypeOK'
    <2>1. /\ proc' \in [Proc -> Local]
          /\ lock' \in Proc \cup {Nobody}
          /\ \A q \in Proc : proc'[q].pc \in UnderLock => lock' = q
      BY <1>1, ConflictType, GotoType DEF Check, Step, UnderLock
    <2>2. QED
      BY <1>1, <2>1 DEF TypeOK, Check, UnderLock, history
  <1>2. ASSUME WriteCandidate(p) PROVE TypeOK'
    <2>1. Candidate(p) \in Seq(Commit)
      BY LocalType, TipOfAppend DEF Candidate
    <2>2. /\ proc' \in [Proc -> Local]
          /\ lock' \in Proc \cup {Nobody}
          /\ \A q \in Proc : proc'[q].pc \in UnderLock => lock' = q
      BY <1>2, ReturnType, GotoType DEF WriteCandidate, Step, UnderLock
    <2>3. calm' \in BOOLEAN /\ pruned' \subseteq Fact /\ pool' \subseteq Seq(Commit)
      BY <1>2, <2>1 DEF WriteCandidate, TypeOK
    <2>4. QED
      BY <1>2, <2>2, <2>3 DEF TypeOK, WriteCandidate, UnderLock
  <1>3. ASSUME Swap(p) PROVE TypeOK'
    <2>1. Candidate(p) \in Seq(Commit) /\ Candidate(p) # <<>>
      BY LocalType, TipOfAppend DEF Candidate
    <2>2. /\ proc' \in [Proc -> Local]
          /\ lock' \in Proc \cup {Nobody}
          /\ \A q \in Proc : proc'[q].pc \in UnderLock => lock' = q
      BY <1>3, ReturnType, GotoType, ConflictType DEF Swap, Published, Step, UnderLock
    <2>3. /\ branch' \in Seq(Commit) /\ branch' # <<>>
          /\ kept' \subseteq Fact /\ scrubbed' \subseteq Fact /\ answered' \subseteq Fact
          /\ calm' \in BOOLEAN
      BY <1>3, <2>1, LocalType DEF Swap, Published, TypeOK
    <2>4. QED
      BY <1>3, <2>2, <2>3 DEF TypeOK, Swap, UnderLock
  <1>4. QED
    BY <1>1, <1>2, <1>3 DEF Publish

LEMMA EraseType ==
    ASSUME TypeOK, CopiesScrubbed, NEW p \in Proc
    PROVE  \/ Redact(p) \/ RedactFails(p) \/ Rewrite(p) \/ Replace(p) \/ Mark(p)
           \/ Prune(p) \/ ListFiles(p) \/ RemoveFile(p) \/ EraseDone(p) \/ Kill(p)
           => TypeOK'
  <1>1. ASSUME Redact(p) PROVE TypeOK'
    BY <1>1, GotoType, LocalType DEF TypeOK, Redact, Step, UnderLock, history
  <1>2. ASSUME RedactFails(p) PROVE TypeOK'
    BY <1>2, ReturnType DEF TypeOK, RedactFails, UnderLock, history
  <1>3. ASSUME Rewrite(p) PROVE TypeOK'
    <2> DEFINE new == Scrub(branch, proc[p].ids)
               r == [proc[p] EXCEPT !.pc = "replace", !.base = branch, !.new = new]
    <2>1. new \in Seq(Commit)
      BY ScrubWorks DEF TypeOK
    <2>2. /\ proc' \in [Proc -> Local]
          /\ lock' \in Proc \cup {Nobody}
          /\ \A q \in Proc : proc'[q].pc \in UnderLock => lock' = q
      <3>1. CASE Copy(p) /\ lock' = p
        <4>2. proc' = [proc EXCEPT ![p] = r] /\ lock = Nobody
          BY <1>3, <3>1 DEF Copy, Rewrite
        <4>0. branch \in Seq(Commit)
          BY DEF TypeOK
        <4> HIDE DEF new
        <4>1. r \in Local /\ r.pc = "replace"
          BY <2>1, <4>0, LocalType DEF Local, Step
        <4> HIDE DEF r
        <4>3. QED
          BY <4>1, <4>2, <3>1, OneProcess DEF UnderLock
      <3>2. CASE Return(p)
        BY <3>2, ReturnType
      <3>3. QED
        BY <1>3, <3>1, <3>2 DEF Rewrite
    <2>3. calm' \in BOOLEAN /\ pool' \subseteq Seq(Commit)
      BY <1>3, <2>1, AncestorsType DEF Rewrite, Copy, TypeOK
    <2>4. QED
      BY <1>3, <2>2, <2>3 DEF TypeOK, Rewrite, UnderLock
  <1>4. ASSUME Replace(p) PROVE TypeOK'
    <2>1. /\ proc' \in [Proc -> Local]
          /\ lock' \in Proc \cup {Nobody}
          /\ \A q \in Proc : proc'[q].pc \in UnderLock => lock' = q
      BY <1>4, ReturnType, GotoType DEF Replace, At, Step, UnderLock
    <2>2. /\ kept' \subseteq Fact /\ scrubbed' \subseteq Fact
      BY <1>4 DEF Replace, TypeOK
    <2>3. proc[p].new \in Seq(Commit) /\ proc[p].new # <<>>
      BY <1>4, LocalType, ScrubWorks DEF Replace, At, CopiesScrubbed
    <2>5. branch' \in Seq(Commit) /\ branch' # <<>>
      BY <1>4, <2>3 DEF Replace, TypeOK
    <2>6. QED
      BY <1>4, <2>1, <2>2, <2>5 DEF TypeOK, Replace, UnderLock
  <1>5. ASSUME Mark(p) PROVE TypeOK'
    <2> DEFINE dead == pool \ Ancestors(branch)
               r == [proc[p] EXCEPT !.pc = "prune", !.dead = dead]
    <2>0. dead \in SUBSET Seq(Commit)
      BY DEF TypeOK
    <2>2. proc' = [proc EXCEPT ![p] = r] /\ lock' = lock /\ lock = p
      BY <1>5 DEF Mark, At, TypeOK
    <2> HIDE DEF dead
    <2>1. r \in Local /\ r.pc = "prune"
      BY <2>0, LocalType DEF Local, Step
    <2> HIDE DEF r
    <2>3. QED
      BY <1>5, <2>1, <2>2, OneProcess DEF TypeOK, Mark, UnderLock, history
  <1>6. ASSUME Prune(p) PROVE TypeOK'
    <2> DEFINE r == [proc[p] EXCEPT !.pc = "list"]
    <2>1. r \in Local /\ r.pc = "list"
      BY LocalType DEF Local, Step
    <2>2. proc' = [proc EXCEPT ![p] = r] /\ lock' = Nobody /\ lock = p
      BY <1>6 DEF Prune, At, Goto, TypeOK
    <2> HIDE DEF r
    <2>3. pool' \subseteq Seq(Commit) /\ pruned' \subseteq Fact
      BY <1>6 DEF Prune, TypeOK
    <2>4. QED
      BY <1>6, <2>1, <2>2, <2>3, OneProcess DEF TypeOK, Prune, UnderLock
  <1>7. ASSUME ListFiles(p) PROVE TypeOK'
    <2> DEFINE r == [proc[p] EXCEPT !.pc = "remove", !.todo = {<<i.req, i.stale>> : i \in intents}]
    <2>1. \A i \in intents : i.req \in Nat /\ i.stale \in BOOLEAN
      BY DEF TypeOK, Intent
    <2>2. {<<i.req, i.stale>> : i \in intents} \in SUBSET FileName
      BY <2>1 DEF FileName
    <2>5. r \in Local /\ r.pc = "remove"
      BY <2>2, LocalType DEF Local, Step
    <2>3. proc' = [proc EXCEPT ![p] = r] /\ lock' = lock
      BY <1>7 DEF ListFiles
    <2> HIDE DEF r
    <2>4. QED
      BY <1>7, <2>5, <2>3, OneProcess DEF TypeOK, ListFiles, UnderLock, history
  <1>8. ASSUME RemoveFile(p) PROVE TypeOK'
    <2>1. PICK name \in proc[p].todo :
             /\ proc' = [proc EXCEPT ![p].todo = @ \ {name}]
             /\ intents' \subseteq intents
      BY <1>8 DEF RemoveFile
    <2> DEFINE rest == proc[p].todo \ {name}
               r == [proc[p] EXCEPT !.todo = rest]
    <2>2. proc[p] \in Local /\ proc[p].pc = "remove"
      BY <1>8, LocalType DEF RemoveFile, At
    <2>3. proc' = [proc EXCEPT ![p] = r] /\ lock' = lock
      BY <1>8, <2>1 DEF RemoveFile
    <2>6. rest \in SUBSET FileName
      BY <2>2 DEF Local
    <2> HIDE DEF rest
    <2>4. r \in Local /\ r.pc = "remove"
      BY <2>2, <2>6 DEF Local
    <2> HIDE DEF r
    <2>5. QED
      BY <1>8, <2>1, <2>3, <2>4, OneProcess DEF TypeOK, RemoveFile, UnderLock, history
  <1>9. ASSUME EraseDone(p) PROVE TypeOK'
    <2>1. answered' \subseteq Fact
      BY <1>9 DEF TypeOK, EraseDone, Local
    <2>2. QED
      BY <1>9, <2>1, ReturnType DEF TypeOK, EraseDone, UnderLock
  <1>10. ASSUME Kill(p) PROVE TypeOK'
    <2>1. faults' \in 0..MaxFaults
      BY <1>10, BoundAssumption DEF Kill, TypeOK
    <2>2. QED
      BY <1>10, <2>1, ReturnType DEF TypeOK, Kill, UnderLock, history
  <1>11. QED
    BY <1>1, <1>2, <1>3, <1>4, <1>5, <1>6, <1>7, <1>8, <1>9, <1>10

LEMMA TypeStep == TypeOK /\ CopiesScrubbed /\ [Next]_vars => TypeOK'
  <1> SUFFICES ASSUME TypeOK, CopiesScrubbed, [Next]_vars PROVE TypeOK'
    OBVIOUS
  <1>1. CASE UNCHANGED vars
    BY <1>1 DEF vars, TypeOK
  <1>2. ASSUME NEW p \in Proc, Change(p) \/ Publish(p) \/ Erase(p) \/ Kill(p)
        PROVE  TypeOK'
    <2>1. CASE Change(p)
      BY <2>1, BeginType, IntentType DEF Change
    <2>2. CASE Publish(p)
      BY <2>2, PublishType
    <2>3. CASE Erase(p)
      BY <2>3, BeginType, EraseType DEF Erase
    <2>4. CASE Kill(p)
      BY <2>4, EraseType
    <2>5. QED
      BY <1>2, <2>1, <2>2, <2>3, <2>4
  <1>3. QED
    BY <1>1, <1>2 DEF Next

-----------------------------------------------------------------------------
(* What each step does to one process: it keeps what it has in hand, or    *)
(* takes up an intent or a change set computed from the head. *)

LEMMA OthersUnchanged ==
    ASSUME TypeOK, NEW p \in Proc, Change(p) \/ Publish(p) \/ Erase(p) \/ Kill(p)
    PROVE  \A q \in Proc \ {p} : proc'[q] = proc[q]
  <1>1. \A step \in Step : Goto(p, step) => \A q \in Proc \ {p} : proc'[q] = proc[q]
    BY DEF Goto, TypeOK
  <1>2. Return(p) => \A q \in Proc \ {p} : proc'[q] = proc[q]
    BY DEF Return, TypeOK
  <1>3. Conflict(p) => \A q \in Proc \ {p} : proc'[q] = proc[q]
    BY <1>1, <1>2 DEF Conflict, Step
  <1>4. CASE Change(p)
    BY <1>1, <1>2, <1>4 DEF Change, BeginRemember, BeginForget, BeginRecover, WriteIntent,
          Complete, SetAside, Step, TypeOK
  <1>5. CASE Publish(p)
    BY <1>1, <1>2, <1>3, <1>5 DEF Publish, Check, WriteCandidate, Swap, Published, Step
  <1>6. CASE Erase(p)
    <2>1. CASE \E t \in Id : BeginErase(p, t)
      BY <2>1 DEF BeginErase, TypeOK
    <2>2. CASE Redact(p) \/ RedactFails(p) \/ Replace(p) \/ Prune(p) \/ EraseDone(p)
      BY <2>2, <1>1, <1>2 DEF Redact, RedactFails, Replace, Prune, EraseDone, Step
    <2>3. CASE Rewrite(p) \/ Mark(p) \/ ListFiles(p) \/ RemoveFile(p)
      BY <2>3, <1>2 DEF Rewrite, Copy, Mark, ListFiles, RemoveFile, TypeOK
    <2>4. QED
      BY <1>6, <2>1, <2>2, <2>3 DEF Erase
  <1>7. CASE Kill(p)
    BY <1>2, <1>7 DEF Kill
  <1>8. QED
    BY <1>4, <1>5, <1>6, <1>7

LEMMA CopiesStep == TypeOK /\ CopiesScrubbed /\ [Next]_vars => CopiesScrubbed'
  <1> SUFFICES ASSUME TypeOK, CopiesScrubbed, [Next]_vars PROVE CopiesScrubbed'
    OBVIOUS
  <1>1. CASE UNCHANGED vars
    BY <1>1 DEF vars, CopiesScrubbed
  <1>2. ASSUME NEW p \in Proc, Change(p) \/ Publish(p) \/ Erase(p) \/ Kill(p)
        PROVE  CopiesScrubbed'
    <2>1. SUFFICES ASSUME proc'[p].pc = "replace"
                   PROVE  proc'[p].base # <<>> /\ proc'[p].new = Scrub(proc'[p].base, proc'[p].ids)
      BY <1>2, OthersUnchanged DEF CopiesScrubbed
    <2>2. \A step \in Step : Goto(p, step) => proc'[p].pc = step
      BY LocalType DEF Goto, TypeOK, Local
    <2>3. ~Return(p)
      BY <2>1, RestType DEF Return, TypeOK
    <2>4. ~Conflict(p)
      BY <2>1, <2>2, <2>3 DEF Conflict, Step
    <2>5. ~Change(p)
      <3>1. \A f \in Fact : ~BeginRemember(p, f) /\ ~BeginForget(p, f)
        <4>1. ASSUME NEW f \in Fact, BeginRemember(p, f) PROVE proc'[p].pc = "intent"
          BY <4>1 DEF BeginRemember, TypeOK, Rest
        <4>2. ASSUME NEW f \in Fact, BeginForget(p, f) PROVE proc'[p].pc = "intent"
          BY <4>2 DEF BeginForget, TypeOK, Rest
        <4>3. QED
          BY <2>1, <4>1, <4>2
      <3>2. \A i \in intents : ~BeginRecover(p, i)
        BY <2>1, RestType DEF BeginRecover, TypeOK, Rest
      <3>3. QED
        BY <2>1, <2>2, <2>3, <3>1, <3>2 DEF Change, WriteIntent, Complete, SetAside, Step
    <2>6. ~Publish(p)
      BY <2>1, <2>2, <2>3, <2>4 DEF Publish, Check, WriteCandidate, Swap, Published, Step
    <2>7. ~Kill(p)
      BY <2>3 DEF Kill
    <2>8. Rewrite(p)
      <3>1. \A t \in Id : ~BeginErase(p, t)
        <4> SUFFICES ASSUME NEW t \in Id, BeginErase(p, t) PROVE FALSE
          OBVIOUS
        <4> DEFINE gone == FoundAt(Tip(branch), t)
                   ids == IF gone = {} THEN {t} ELSE gone \cup ({Entity} \cap {t})
                   hand == [Tip(branch) EXCEPT !.req = clock + 1, !.file = @ \ gone,
                                !.barred = @ \cup (IF gone = {} THEN {t} ELSE gone)]
                   r == [Rest EXCEPT !.pc = "check", !.job = "erase", !.base = branch,
                                     !.gone = gone, !.ids = ids, !.hand = hand]
        <4>1. proc' = [proc EXCEPT ![p] = r]
          BY DEF BeginErase
        <4> HIDE DEF gone, ids, hand
        <4>2. r.pc = "check"
          BY DEF Rest
        <4> HIDE DEF r
        <4>3. QED
          BY <4>1, <4>2, <2>1 DEF TypeOK
      <3>2. ~Redact(p) /\ ~RedactFails(p) /\ ~Replace(p) /\ ~Prune(p) /\ ~EraseDone(p)
        BY <2>1, <2>2, <2>3 DEF Redact, RedactFails, Replace, Prune, EraseDone, Step
      <3>3. ~Mark(p) /\ ~ListFiles(p)
        BY <2>1, LocalType DEF Mark, ListFiles, TypeOK, Local
      <3>4. ~RemoveFile(p)
        <4> SUFFICES ASSUME RemoveFile(p) PROVE FALSE
          OBVIOUS
        <4>1. PICK name \in proc[p].todo : proc' = [proc EXCEPT ![p].todo = @ \ {name}]
          BY DEF RemoveFile
        <4>2. proc'[p].pc = proc[p].pc /\ proc[p].pc = "remove"
          BY <4>1, LocalType DEF RemoveFile, TypeOK, Local, At
        <4>3. QED
          BY <4>2, <2>1
      <3>5. QED
        BY <1>2, <2>5, <2>6, <2>7, <3>1, <3>2, <3>3, <3>4 DEF Erase
    <2>9. proc' = [proc EXCEPT ![p].pc = "replace", ![p].base = branch,
                               ![p].new = Scrub(branch, proc[p].ids)]
      BY <2>3, <2>8 DEF Rewrite, Copy
    <2>10. QED
      BY <2>9, LocalType DEF TypeOK, Local
  <1>3. QED
    BY <1>1, <1>2 DEF Next

LEMMA CopiesInit == Init => CopiesScrubbed
  BY RestType DEF Init, CopiesScrubbed

(* Every variable keeps its type, and the history is only rewritten by the *)
(* holder of writer.lock, whatever the processes do and wherever they are  *)
(* killed.                                                                 *)
THEOREM ErasureTyped == Spec => []TypeOK
  <1>1. Init => TypeOK /\ CopiesScrubbed
    BY TypeInit, CopiesInit
  <1>2. TypeOK /\ CopiesScrubbed /\ [Next]_vars => (TypeOK /\ CopiesScrubbed)'
    BY TypeStep, CopiesStep
  <1>3. QED
    BY <1>1, <1>2, PTL DEF Spec

-----------------------------------------------------------------------------
(* The invariant *)

(* A commit id that is published stands for the base and one commit more,  *)
(* which does to the file what its request asked for. *)
LEMMA PublishedKeepsInv ==
    ASSUME IInv, NEW p \in Proc, Published(p), branch = proc[p].base,
           Faithful(proc[p])
    PROVE  HeadConsistent' /\ ErasedForGood' /\ OthersKept'
  <1> DEFINE r == proc[p]
             tip == Tip(branch)
  <1>1. /\ branch' = Append(branch, r.hand)
        /\ kept' = (kept \ r.gone) \cup (r.about \cap r.hand.file)
        /\ scrubbed' = scrubbed \ r.about
    BY DEF Published, Candidate
  <1>2. branch \in Seq(Commit) /\ r.hand \in Commit
    BY LocalType DEF IInv, TypeOK
  <1>3. /\ Tip(branch') = r.hand
        /\ \A f : Shows(branch', f) => Shows(branch, f) \/ f \in r.hand.file
    BY <1>1, <1>2, TipOfAppend
  <1>4. /\ r.hand.file \subseteq tip.file \cup r.about
        /\ tip.file \ (r.hand.file \cup r.gone) \subseteq tip.forgotten
        /\ r.hand.forgotten \subseteq tip.forgotten \cup r.gone
        /\ r.hand.file \cap r.hand.forgotten = {}
    BY DEF Faithful
  <1>5. /\ kept \subseteq tip.file /\ kept \cap tip.forgotten = {}
        /\ \A f \in scrubbed : ~Shows(branch, f)
    BY DEF IInv, OthersKept, HeadConsistent, ErasedForGood
  <1>6. \A f \in tip.file : Shows(branch, f)
    BY <1>2, TipIsCommit DEF Shows, Tip, IInv, TypeOK
  <1> HIDE DEF r, tip
  <1>7. kept' \subseteq r.hand.file
    BY <1>1, <1>4, <1>5
  <1>8. kept' \cap r.hand.forgotten = {}
    BY <1>1, <1>4, <1>5
  <1>9. \A f \in scrubbed' : ~Shows(branch', f)
    BY <1>1, <1>3, <1>4, <1>5, <1>6
  <1>10. QED
    BY <1>3, <1>4, <1>7, <1>8, <1>9 DEF HeadConsistent, ErasedForGood, OthersKept

(* The head is replaced by the scrubbed copy of it, or left alone. *)
LEMMA ReplaceKeepsInv ==
    ASSUME IInv, NEW p \in Proc, Replace(p)
    PROVE  HeadConsistent' /\ ErasedForGood' /\ OthersKept'
  <1> DEFINE ids == proc[p].ids
             new == proc[p].new
  <1>1. new = Scrub(proc[p].base, ids) /\ branch \in Seq(Commit) /\ branch # <<>>
    BY DEF Replace, At, IInv, CopiesScrubbed, TypeOK
  <1>2. /\ kept \subseteq Tip(branch).file /\ kept \cap Tip(branch).forgotten = {}
        /\ Tip(branch).file \cap Tip(branch).forgotten = {}
        /\ \A f \in scrubbed : ~Shows(branch, f)
    BY DEF IInv, OthersKept, HeadConsistent, ErasedForGood
  <1>3. CASE branch = proc[p].base
    <2>1. /\ Tip(new).file = Tip(branch).file \ ids
          /\ Tip(new).forgotten = Tip(branch).forgotten
          /\ \A f : Shows(new, f) => Shows(branch, f) /\ f \notin ids
      BY <1>1, <1>3, ScrubWorks
    <2>2. /\ branch' = new
          /\ kept' \subseteq kept
          /\ new = branch \/ kept' = kept \ ids
          /\ scrubbed' = scrubbed \cup (ids \cap Fact)
      BY <1>3 DEF Replace
    <2> HIDE DEF ids, new
    <2>3. kept' \subseteq Tip(new).file /\ kept' \cap Tip(new).forgotten = {}
      BY <1>2, <2>1, <2>2
    <2>4. \A f \in scrubbed' : ~Shows(new, f)
      BY <1>2, <2>1, <2>2
    <2>5. QED
      BY <1>2, <2>1, <2>2, <2>3, <2>4 DEF HeadConsistent, ErasedForGood, OthersKept
  <1>4. CASE branch # proc[p].base
    <2>1. branch' = branch /\ kept' = kept /\ scrubbed' = scrubbed
      BY <1>4 DEF Replace
    <2>2. QED
      BY <1>2, <2>1 DEF HeadConsistent, ErasedForGood, OthersKept
  <1>5. QED
    BY <1>3, <1>4

(* The steps that move neither the branch nor what is said about it. *)
LEMMA SameHead ==
    ASSUME IInv, UNCHANGED <<branch, kept>>, scrubbed' \subseteq scrubbed
    PROVE  HeadConsistent' /\ ErasedForGood' /\ OthersKept'
  BY DEF IInv, HeadConsistent, ErasedForGood, OthersKept

LEMMA HeadStep ==
    ASSUME IInv, NEW p \in Proc, Change(p) \/ Publish(p) \/ Erase(p) \/ Kill(p)
    PROVE  HeadConsistent' /\ ErasedForGood' /\ OthersKept'
  <1>1. CASE Change(p)
    <2>1. UNCHANGED <<branch, kept, scrubbed>>
      BY <1>1 DEF Change, BeginRemember, BeginForget, BeginRecover, WriteIntent, Complete,
                  SetAside, history
    <2>2. QED
      BY <2>1, SameHead
  <1>2. CASE Check(p) \/ WriteCandidate(p)
    <2>1. UNCHANGED <<branch, kept, scrubbed>>
      BY <1>2 DEF Check, WriteCandidate, history
    <2>2. QED
      BY <2>1, SameHead
  <1>3. CASE Swap(p)
    <2>1. CASE Published(p) /\ branch = proc[p].base
      <3>1. Faithful(proc[p])
        BY <1>3 DEF Swap, At, IInv, HandsFaithful, Publishing
      <3>2. QED
        BY <2>1, <3>1, PublishedKeepsInv
    <2>2. CASE UNCHANGED <<branch, kept, scrubbed>>
      BY <2>2, SameHead
    <2>3. QED
      BY <1>3, <2>1, <2>2 DEF Swap
  <1>4. CASE Replace(p)
    BY <1>4, ReplaceKeepsInv
  <1>5. CASE Erase(p) /\ ~Replace(p)
    <2>1. UNCHANGED <<branch, kept, scrubbed>>
      BY <1>5 DEF Erase, BeginErase, Redact, RedactFails, Rewrite, Mark, Prune, ListFiles,
                  RemoveFile, EraseDone, history
    <2>2. QED
      BY <2>1, SameHead
  <1>6. CASE Kill(p)
    <2>1. UNCHANGED <<branch, kept, scrubbed>>
      BY <1>6 DEF Kill, history
    <2>2. QED
      BY <2>1, SameHead
  <1>7. QED
    BY <1>1, <1>2, <1>3, <1>4, <1>5, <1>6 DEF Publish

(* The change sets computed from the head are faithful. *)
LEMMA FreshFaithful ==
    ASSUME IInv, NEW p \in Proc
    PROVE  /\ \A f \in Fact : BeginRemember(p, f) \/ BeginForget(p, f) => Faithful(proc'[p])
           /\ \A i \in intents : BeginRecover(p, i) => Faithful(proc'[p])
           /\ \A t \in Id : BeginErase(p, t) => Faithful(proc'[p])
  <1> DEFINE tip == Tip(branch)
  <1>1. /\ tip \in Commit /\ branch # <<>>
        /\ tip.file \cap tip.forgotten = {}
        /\ proc \in [Proc -> Local]
    BY LocalType DEF IInv, TypeOK, HeadConsistent
  <1>2. ASSUME NEW f \in Fact, BeginRemember(p, f) PROVE Faithful(proc'[p])
    <2> DEFINE file == (tip.file \cup {f}) \ tip.forgotten
               hand == [tip EXCEPT !.req = clock + 1, !.file = file]
               r == [Rest EXCEPT !.pc = "intent", !.base = branch, !.about = {f},
                                 !.says = file \cup {Entity}, !.hand = hand]
    <2>1. proc'[p] = r
      BY <1>1, <1>2 DEF BeginRemember
    <2>2. hand.file = file /\ hand.forgotten = tip.forgotten
      BY <1>1 DEF Commit
    <2> HIDE DEF hand
    <2>3. r.base = branch /\ r.about = {f} /\ r.gone = {} /\ r.hand = hand
      BY DEF Rest
    <2> HIDE DEF r
    <2>4. QED
      BY <1>1, <2>1, <2>2, <2>3 DEF Faithful
  <1>3. ASSUME NEW f \in Fact, BeginForget(p, f) PROVE Faithful(proc'[p])
    <2> DEFINE forgotten == tip.forgotten \cup {f}
               barred == tip.barred \cup {f}
               file == tip.file \ forgotten
               hand == [req |-> clock + 1, file |-> file, forgotten |-> forgotten,
                        barred |-> barred]
               r == [Rest EXCEPT !.pc = "intent", !.base = branch, !.gone = {f},
                                 !.says = file \cup barred \cup {Entity}, !.hand = hand]
    <2>1. proc'[p] = r
      BY <1>1, <1>3 DEF BeginForget
    <2>2. hand.file = file /\ hand.forgotten = forgotten
      OBVIOUS
    <2> HIDE DEF hand
    <2>3. r.base = branch /\ r.about = {} /\ r.gone = {f} /\ r.hand = hand
      BY DEF Rest
    <2> HIDE DEF r
    <2>4. QED
      BY <1>1, <2>1, <2>2, <2>3 DEF Faithful
  <1>4. ASSUME NEW i \in intents, BeginRecover(p, i) PROVE Faithful(proc'[p])
    <2> DEFINE r == [Rest EXCEPT !.pc = "check", !.job = "recover", !.base = i.base,
                                 !.hand = i.hand, !.about = i.about, !.gone = i.gone,
                                 !.says = i.says]
    <2>1. proc'[p] = r
      BY <1>1, <1>4 DEF BeginRecover
    <2>2. r.base = i.base /\ r.about = i.about /\ r.gone = i.gone /\ r.hand = i.hand
      BY DEF Rest
    <2> HIDE DEF r
    <2>3. Faithful(i)
      BY DEF IInv, HandsFaithful
    <2>4. QED
      BY <2>1, <2>2, <2>3 DEF Faithful
  <1>5. ASSUME NEW t \in Id, BeginErase(p, t) PROVE Faithful(proc'[p])
    <2> DEFINE gone == FoundAt(tip, t)
               ids == IF gone = {} THEN {t} ELSE gone \cup ({Entity} \cap {t})
               hand == [tip EXCEPT !.req = clock + 1, !.file = @ \ gone,
                            !.barred = @ \cup (IF gone = {} THEN {t} ELSE gone)]
               r == [Rest EXCEPT !.pc = "check", !.job = "erase", !.base = branch,
                                 !.gone = gone, !.ids = ids, !.hand = hand]
    <2>1. proc'[p] = r
      BY <1>1, <1>5 DEF BeginErase
    <2>2. hand.file = tip.file \ gone /\ hand.forgotten = tip.forgotten
      BY <1>1 DEF Commit
    <2> HIDE DEF hand, ids, gone
    <2>3. r.base = branch /\ r.about = {} /\ r.gone = gone /\ r.hand = hand
      BY DEF Rest
    <2> HIDE DEF r
    <2>4. QED
      BY <1>1, <2>1, <2>2, <2>3 DEF Faithful
  <1>6. QED
    BY <1>2, <1>3, <1>4, <1>5

(* Going on to another step keeps what the process has in hand. *)
LEMMA GotoFaithful ==
    ASSUME TypeOK, NEW p \in Proc, NEW step \in Step, Goto(p, step), Faithful(proc[p])
    PROVE  Faithful(proc'[p])
  <1>1. /\ proc'[p].base = proc[p].base /\ proc'[p].hand = proc[p].hand
        /\ proc'[p].about = proc[p].about /\ proc'[p].gone = proc[p].gone
    BY LocalType DEF Goto, TypeOK, Local
  <1>2. QED
    BY <1>1 DEF Faithful

LEMMA HandsStep ==
    ASSUME IInv, NEW p \in Proc, Change(p) \/ Publish(p) \/ Erase(p) \/ Kill(p)
    PROVE  HandsFaithful'
  <1>0. TypeOK
    BY DEF IInv
  <1>1. proc'[p].pc \in Publishing => Faithful(proc'[p])
    <2> SUFFICES ASSUME proc'[p].pc \in Publishing PROVE Faithful(proc'[p])
      OBVIOUS
    <2>1. \A step \in Step : Goto(p, step) => proc'[p].pc = step
      BY <1>0, LocalType DEF Goto, TypeOK, Local
    <2>2. ~Return(p)
      BY <1>0, RestType DEF Return, TypeOK, Publishing
    <2>3. ~Conflict(p)
      BY <2>1, <2>2 DEF Conflict, Step, Publishing
    <2>4. proc[p].pc \in Publishing => Faithful(proc[p])
      BY DEF IInv, HandsFaithful
    <2>5. CASE Change(p)
      <3>1. CASE WriteIntent(p)
        BY <3>1, <1>0, <2>4, GotoFaithful DEF WriteIntent, At, Publishing, Step
      <3>2. QED
        BY <2>5, <2>2, <3>1, FreshFaithful DEF Change, Complete, SetAside
    <2>6. CASE Publish(p)
      BY <2>6, <1>0, <2>1, <2>2, <2>3, <2>4, GotoFaithful
         DEF Publish, Check, WriteCandidate, Swap, Published, At, Publishing, Step
    <2>7. CASE Erase(p)
      <3>1. CASE \E t \in Id : BeginErase(p, t)
        BY <3>1, FreshFaithful
      <3>2. ~Redact(p) /\ ~RedactFails(p) /\ ~Replace(p) /\ ~Prune(p) /\ ~EraseDone(p)
        BY <2>1, <2>2 DEF Redact, RedactFails, Replace, Prune, EraseDone, Step, Publishing
      <3>3. ~Mark(p) /\ ~ListFiles(p) /\ ~Rewrite(p)
        BY <2>2, <1>0, LocalType DEF Mark, ListFiles, Rewrite, Copy, TypeOK, Local, Publishing
      <3>4. ~RemoveFile(p)
        <4> SUFFICES ASSUME RemoveFile(p) PROVE FALSE
          OBVIOUS
        <4>1. PICK name \in proc[p].todo : proc' = [proc EXCEPT ![p].todo = @ \ {name}]
          BY DEF RemoveFile
        <4>2. proc'[p].pc = proc[p].pc /\ proc[p].pc = "remove"
          BY <1>0, <4>1, LocalType DEF RemoveFile, TypeOK, Local, At
        <4>3. QED
          BY <4>2 DEF Publishing
      <3>5. QED
        BY <2>7, <3>1, <3>2, <3>3, <3>4 DEF Erase
    <2>8. ~Kill(p)
      BY <2>2 DEF Kill
    <2>9. QED
      BY <2>5, <2>6, <2>7, <2>8
  <1>2. \A i \in intents' : Faithful(i)
    <2>1. \A i \in intents : Faithful(i)
      BY DEF IInv, HandsFaithful
    <2>2. CASE WriteIntent(p)
      <3> DEFINE j == [req |-> proc[p].hand.req, base |-> proc[p].base,
                       hand |-> proc[p].hand, says |-> proc[p].says,
                       about |-> proc[p].about, gone |-> proc[p].gone, stale |-> FALSE]
      <3>1. Faithful(proc[p])
        BY <2>2 DEF WriteIntent, At, IInv, HandsFaithful, Publishing
      <3>2. Faithful(j)
        BY <3>1 DEF Faithful
      <3>3. intents' = intents \cup {j}
        BY <2>2 DEF WriteIntent
      <3> HIDE DEF j
      <3>4. QED
        BY <2>1, <3>2, <3>3
    <2>3. CASE SetAside(p)
      <3>1. ASSUME NEW i \in intents PROVE Faithful([i EXCEPT !.stale = TRUE])
        <4>1. i \in Intent /\ Faithful(i)
          BY <1>0, <2>1 DEF TypeOK
        <4>2. QED
          BY <4>1 DEF Faithful, Intent
      <3>2. QED
        BY <2>1, <2>3, <3>1 DEF SetAside, Pending
    <2>4. CASE intents' \subseteq intents
      BY <2>1, <2>4
    <2>5. Change(p) => WriteIntent(p) \/ SetAside(p) \/ intents' \subseteq intents
      BY DEF Change, BeginRemember, BeginForget, BeginRecover, Complete
    <2>6. Publish(p) => intents' = intents
      BY DEF Publish, Check, WriteCandidate, Swap
    <2>7. Erase(p) => intents' \subseteq intents
      BY DEF Erase, BeginErase, Redact, RedactFails, Rewrite, Replace, Mark, Prune, ListFiles,
             RemoveFile, EraseDone
    <2>8. Kill(p) => intents' = intents
      BY DEF Kill
    <2>9. QED
      BY <2>2, <2>3, <2>4, <2>5, <2>6, <2>7, <2>8
  <1>3. \A q \in Proc \ {p} : proc'[q] = proc[q]
    BY <1>0, OthersUnchanged
  <1>4. QED
    BY <1>1, <1>2, <1>3 DEF IInv, HandsFaithful

LEMMA IInvInit == Init => IInv
  <1> SUFFICES ASSUME Init PROVE IInv
    OBVIOUS
  <1>1. TypeOK /\ CopiesScrubbed
    BY TypeInit, CopiesInit
  <1>2. HandsFaithful
    BY RestType DEF Init, HandsFaithful, Publishing
  <1>3. Tip(branch) = Root
    BY DEF Init, Tip
  <1>4. HeadConsistent /\ ErasedForGood /\ OthersKept
    BY <1>3 DEF Init, Root, HeadConsistent, ErasedForGood, OthersKept
  <1>5. QED
    BY <1>1, <1>2, <1>4 DEF IInv

LEMMA IInvStep == IInv /\ [Next]_vars => IInv'
  <1> SUFFICES ASSUME IInv, [Next]_vars PROVE IInv'
    OBVIOUS
  <1>1. CASE UNCHANGED vars
    BY <1>1 DEF vars, IInv, TypeOK, HandsFaithful, CopiesScrubbed, HeadConsistent,
               ErasedForGood, OthersKept
  <1>2. ASSUME NEW p \in Proc, Change(p) \/ Publish(p) \/ Erase(p) \/ Kill(p)
        PROVE  IInv'
    <2>1. TypeOK' /\ CopiesScrubbed'
      BY TypeStep, CopiesStep DEF IInv
    <2>2. HandsFaithful'
      BY <1>2, HandsStep
    <2>3. HeadConsistent' /\ ErasedForGood' /\ OthersKept'
      BY <1>2, HeadStep
    <2>4. QED
      BY <2>1, <2>2, <2>3 DEF IInv
  <1>3. QED
    BY <1>1, <1>2 DEF Next

(* erasure.rs step 3: a fact scrubbed from the history is in no commit of  *)
(* the branch until somebody tells it again, whatever was in flight.       *)
THEOREM ScrubbedStaysOut == Spec => []ErasedForGood
  <1>1. IInv => ErasedForGood
    BY DEF IInv
  <1>2. QED
    BY <1>1, IInvInit, IInvStep, PTL DEF Spec

(* Rewriting the history loses nothing else that anybody published. *)
THEOREM NothingElseLost == Spec => []OthersKept
  <1>1. IInv => OthersKept
    BY DEF IInv
  <1>2. QED
    BY <1>1, IInvInit, IInvStep, PTL DEF Spec

-----------------------------------------------------------------------------
(* The object store and the journal *)

AfterRedact == {"rewrite", "replace", "mark", "prune", "list", "remove"}

(* An erasure that is past the journal has redacted what it found. *)
GoneRedacted == \A p \in Proc : proc[p].pc \in AfterRedact => proc[p].gone \subseteq redacted

(* The copy that is about to replace the branch is in the store. *)
CopiesThere == \A p \in Proc : proc[p].pc = "replace" => Ancestors(proc[p].new) \subseteq pool

(* Between the halves of a pruning, and as long as nobody has written or   *)
(* published: everything but the branch is to go, and none of the branch.  *)
DeadIsRest ==
    calm => \A p \in Proc : proc[p].pc = "prune" =>
        /\ proc[p].dead \cap Ancestors(branch) = {}
        /\ pool \ proc[p].dead \subseteq Ancestors(branch)

StoreInv == GoneRedacted /\ CopiesThere /\ DeadIsRest
            /\ AnsweredMeansRedacted /\ BranchIntact /\ PrunedForGood

(* Ancestors show what the commit itself shows, no more. *)
LEMMA AncestorsShow ==
    ASSUME NEW c \in Seq(Commit), NEW a \in Ancestors(c), NEW f, Shows(a, f)
    PROVE  Shows(c, f)
  <1>1. PICK k \in DOMAIN c : a = SubSeq(c, 1, k)
    BY DEF Ancestors
  <1>2. k \in 1..Len(c) /\ Len(c) \in Nat /\ DOMAIN c = 1..Len(c)
    OBVIOUS
  <1>3. DOMAIN a = 1..k /\ \A i \in 1..k : a[i] = c[i]
    <2>1. \A i \in 1..k : c[i] \in Commit
      BY <1>2
    <2>2. Len(a) = k /\ a \in Seq(Commit) /\ \A i \in 1..k : a[i] = c[i]
      BY <1>1, <1>2, <2>1, SubSeqProperties
    <2>3. QED BY <2>2
  <1>4. PICK i \in 1..k : f \in a[i].file
    BY <1>3 DEF Shows
  <1>5. QED
    BY <1>2, <1>3, <1>4 DEF Shows

LEMMA SelfIsAncestor ==
    ASSUME NEW c \in Seq(Commit), c # <<>>
    PROVE  c \in Ancestors(c)
  <1>1. Len(c) \in 1..Len(c) /\ Len(c) \in Nat /\ DOMAIN c = 1..Len(c)
    OBVIOUS
  <1>2. SubSeq(c, 1, Len(c)) = c
    OBVIOUS
  <1>3. QED
    BY <1>1, <1>2 DEF Ancestors

(* One commit more on a base. *)
LEMMA AncestorsOfAppend ==
    ASSUME NEW c \in Seq(Commit), NEW h \in Commit
    PROVE  Ancestors(Append(c, h)) \subseteq Ancestors(c) \cup {Append(c, h)}
  <1> DEFINE d == Append(c, h)
  <1> SUFFICES ASSUME NEW k \in DOMAIN d
               PROVE  SubSeq(d, 1, k) \in Ancestors(c) \cup {d}
    BY DEF Ancestors
  <1>1. /\ Len(c) \in Nat /\ DOMAIN c = 1..Len(c) /\ DOMAIN d = 1..(Len(c) + 1)
        /\ d \in Seq(Commit) /\ Len(d) = Len(c) + 1
    OBVIOUS
  <1>2. CASE k = Len(c) + 1
    <2>1. SubSeq(d, 1, Len(d)) = d
      BY <1>1
    <2>2. QED BY <1>1, <1>2, <2>1
  <1>3. CASE k # Len(c) + 1
    <2>1. k \in DOMAIN c
      BY <1>1, <1>3
    <2>2. SubSeq(d, 1, k) = SubSeq(c, 1, k)
      BY <1>1, <2>1
    <2>3. QED
      BY <2>1, <2>2 DEF Ancestors
  <1>4. QED
    BY <1>2, <1>3

(* Only a rewrite leads to "replace", only a mark to "prune", and only a   *)
(* redaction past the journal. *)
LEMMA WhereTo ==
    ASSUME TypeOK, NEW p \in Proc, Change(p) \/ Publish(p) \/ Erase(p) \/ Kill(p)
    PROVE  /\ proc'[p].pc = "replace" => Rewrite(p)
           /\ proc'[p].pc = "prune" => Mark(p)
           /\ proc'[p].pc \in AfterRedact =>
                 /\ proc'[p].gone = proc[p].gone
                 /\ proc[p].pc \in AfterRedact \/ Redact(p)
  <1> DEFINE Away == proc'[p].pc \notin AfterRedact
             Stay(step) == proc'[p].pc = step /\ proc'[p].gone = proc[p].gone
  <1>1. \A step \in Step : Goto(p, step) => Stay(step)
    BY LocalType DEF Goto, TypeOK, Local
  <1>2. Return(p) => Away
    BY RestType DEF Return, TypeOK, AfterRedact
  <1>3. Conflict(p) => Away
    BY <1>1, <1>2 DEF Conflict, Step, AfterRedact
  <1> HIDE DEF Stay
  <1>4. CASE Change(p)
    <2>1. ASSUME NEW f \in Fact, BeginRemember(p, f) PROVE proc'[p].pc = "intent"
      BY <2>1 DEF BeginRemember, TypeOK, Rest
    <2>2. ASSUME NEW f \in Fact, BeginForget(p, f) PROVE proc'[p].pc = "intent"
      BY <2>2 DEF BeginForget, TypeOK, Rest
    <2>3. ASSUME NEW i \in intents, BeginRecover(p, i) PROVE proc'[p].pc = "check"
      BY <2>3 DEF BeginRecover, TypeOK, Rest
    <2>4. Away
      BY <1>1, <1>2, <1>4, <2>1, <2>2, <2>3
         DEF Stay, Change, WriteIntent, Complete, SetAside, Step, AfterRedact
    <2>5. QED BY <2>4 DEF AfterRedact
  <1>5. CASE Publish(p)
    <2>1. Away \/ Stay("redact") \/ Stay("complete")
      BY <1>1, <1>2, <1>3, <1>5
         DEF Stay, Publish, Check, WriteCandidate, Swap, Published, Step, AfterRedact
    <2>2. QED BY <2>1 DEF Stay, AfterRedact
  <1>6. CASE Erase(p)
    <2>1. CASE \E t \in Id : BeginErase(p, t)
      <3>1. PICK t \in Id : BeginErase(p, t)
        BY <2>1
      <3> DEFINE gone == FoundAt(Tip(branch), t)
                 ids == IF gone = {} THEN {t} ELSE gone \cup ({Entity} \cap {t})
                 hand == [Tip(branch) EXCEPT !.req = clock + 1, !.file = @ \ gone,
                              !.barred = @ \cup (IF gone = {} THEN {t} ELSE gone)]
                 r == [Rest EXCEPT !.pc = "check", !.job = "erase", !.base = branch,
                                   !.gone = gone, !.ids = ids, !.hand = hand]
      <3>2. proc' = [proc EXCEPT ![p] = r]
        BY <3>1 DEF BeginErase
      <3> HIDE DEF gone, ids, hand
      <3>3. r.pc = "check"
        BY DEF Rest
      <3> HIDE DEF r
      <3>4. proc'[p].pc = "check"
        BY <3>2, <3>3 DEF TypeOK
      <3>5. QED BY <3>4 DEF AfterRedact
    <2>2. CASE Redact(p)
      <3>1. Stay("rewrite")
        BY <1>1, <2>2 DEF Redact, Step
      <3>2. QED BY <2>2, <3>1 DEF Stay, AfterRedact
    <2>3. CASE RedactFails(p) \/ EraseDone(p)
      <3>1. Away
        BY <1>2, <2>3 DEF RedactFails, EraseDone
      <3>2. QED BY <3>1 DEF AfterRedact
    <2>4. CASE Rewrite(p)
      <3>1. Away \/ Stay("replace")
        BY <1>2, <2>4, LocalType DEF Rewrite, Copy, TypeOK, Local, Stay
      <3>2. QED BY <2>4, <3>1 DEF Stay, Rewrite, At, AfterRedact
    <2>5. CASE Replace(p)
      <3>1. Away \/ Stay("mark")
        BY <1>1, <1>2, <2>5 DEF Replace, Step
      <3>2. QED BY <2>5, <3>1 DEF Stay, Replace, At, AfterRedact
    <2>6. CASE Mark(p)
      <3>1. Stay("prune")
        BY <2>6, LocalType DEF Mark, TypeOK, Local, Stay
      <3>2. QED BY <2>6, <3>1 DEF Stay, Mark, At, AfterRedact
    <2>7. CASE Prune(p)
      <3>1. Stay("list")
        BY <1>1, <2>7 DEF Prune, Step
      <3>2. QED BY <2>7, <3>1 DEF Stay, Prune, At, AfterRedact
    <2>8. CASE ListFiles(p)
      <3>1. Stay("remove")
        BY <2>8, LocalType DEF ListFiles, TypeOK, Local, Stay
      <3>2. QED BY <2>8, <3>1 DEF Stay, ListFiles, At, AfterRedact
    <2>9. CASE RemoveFile(p)
      <3>1. PICK name \in proc[p].todo : proc' = [proc EXCEPT ![p].todo = @ \ {name}]
        BY <2>9 DEF RemoveFile
      <3>2. proc[p].pc = "remove" /\ Stay("remove")
        BY <2>9, <3>1, LocalType DEF RemoveFile, At, TypeOK, Local, Stay
      <3>3. QED BY <3>2 DEF Stay, AfterRedact
    <2>10. QED
      BY <1>6, <2>1, <2>2, <2>3, <2>4, <2>5, <2>6, <2>7, <2>8, <2>9 DEF Erase
  <1>7. CASE Kill(p)
    <2>1. Away
      BY <1>2, <1>7 DEF Kill
    <2>2. QED BY <2>1 DEF AfterRedact
  <1>8. QED
    BY <1>4, <1>5, <1>6, <1>7


LEMMA JournalStep ==
    ASSUME TypeOK, GoneRedacted, AnsweredMeansRedacted,
           NEW p \in Proc, Change(p) \/ Publish(p) \/ Erase(p) \/ Kill(p)
    PROVE  GoneRedacted' /\ AnsweredMeansRedacted'
  <1>1. redacted \subseteq redacted'
    BY DEF Change, BeginRemember, BeginForget, BeginRecover, WriteIntent, Complete, SetAside,
           Publish, Check, WriteCandidate, Swap, Erase, BeginErase, Redact, RedactFails, Rewrite,
           Replace, Mark, Prune, ListFiles, RemoveFile, EraseDone, Kill
  <1>2. GoneRedacted'
    <2>1. ASSUME NEW q \in Proc, proc'[q].pc \in AfterRedact
          PROVE  proc'[q].gone \subseteq redacted'
      <3>1. CASE q = p
        BY <2>1, <3>1, <1>1, WhereTo DEF GoneRedacted, Redact
      <3>2. CASE q # p
        BY <2>1, <3>2, <1>1, OthersUnchanged DEF GoneRedacted
      <3>3. QED BY <3>1, <3>2
    <2>2. QED BY <2>1 DEF GoneRedacted
  <1>3. answered' \subseteq answered \/ EraseDone(p)
    <2>1. Change(p) \/ Kill(p) => answered' = answered
      BY DEF Change, BeginRemember, BeginForget, BeginRecover, WriteIntent, Complete, SetAside,
             Kill, history
    <2>2. Publish(p) => answered' \subseteq answered
      BY DEF Publish, Check, WriteCandidate, Swap, Published, history
    <2>3. Erase(p) /\ ~EraseDone(p) => answered' = answered
      BY DEF Erase, BeginErase, Redact, RedactFails, Rewrite, Replace, Mark, Prune, ListFiles,
             RemoveFile, history
    <2>4. QED
      BY <2>1, <2>2, <2>3
  <1>4. CASE EraseDone(p)
    <2>1. proc[p].gone \subseteq redacted
      BY <1>4 DEF EraseDone, At, GoneRedacted, AfterRedact
    <2>2. answered' = answered \cup proc[p].gone
      BY <1>4 DEF EraseDone
    <2>3. QED
      BY <1>1, <1>2, <2>1, <2>2 DEF AnsweredMeansRedacted
  <1>5. QED
    BY <1>1, <1>2, <1>3, <1>4 DEF AnsweredMeansRedacted

(* The steps that touch neither the store nor the branch. *)
LEMMA SameStore ==
    ASSUME TypeOK, CopiesThere, DeadIsRest, BranchIntact, PrunedForGood,
           UNCHANGED <<branch, pool, calm, pruned>>, NEW p \in Proc,
           \A q \in Proc \ {p} : proc'[q] = proc[q],
           proc'[p].pc \notin {"replace", "prune"}
    PROVE  CopiesThere' /\ DeadIsRest' /\ BranchIntact' /\ PrunedForGood'
  BY DEF CopiesThere, DeadIsRest, BranchIntact, PrunedForGood

LEMMA CandidateStep ==
    ASSUME IInv, CopiesThere, DeadIsRest, BranchIntact, PrunedForGood,
           NEW p \in Proc, WriteCandidate(p)
    PROVE  CopiesThere' /\ DeadIsRest' /\ BranchIntact' /\ PrunedForGood'
  <1>0. TypeOK
    BY DEF IInv
  <1>1. proc'[p].pc \notin {"replace", "prune"} /\ \A q \in Proc \ {p} : proc'[q] = proc[q]
    <2>1. Publish(p) /\ ~Rewrite(p) /\ ~Mark(p)
      BY DEF Publish, WriteCandidate, Rewrite, Mark, At
    <2>2. QED
      BY <1>0, <2>1, WhereTo, OthersUnchanged
  <1>2. CASE proc[p].base \notin pool
    <2>1. UNCHANGED <<branch, pool, calm, pruned>>
      BY <1>2 DEF WriteCandidate
    <2>2. QED
      BY <1>0, <1>1, <2>1, SameStore
  <1>3. CASE proc[p].base \in pool
    <2> DEFINE c == proc[p].base
               h == proc[p].hand
    <2>1. /\ pool' = pool \cup {Append(c, h)} /\ pruned' = pruned \ proc[p].about
          /\ calm' = (calm /\ ~Pruning(p)) /\ branch' = branch
      BY <1>3 DEF WriteCandidate, Candidate
    <2>2. calm' => calm /\ \A q \in Proc : proc'[q].pc # "prune"
      BY <1>1, <2>1 DEF Pruning, At
    <2>3. CopiesThere' /\ BranchIntact'
      BY <1>1, <2>1, <2>2 DEF CopiesThere, BranchIntact
    <2>4. DeadIsRest'
      BY <2>2 DEF DeadIsRest
    <2>5. c \in Seq(Commit) /\ h \in Commit /\ c # <<>> /\ h.file \subseteq Tip(c).file \cup proc[p].about
      BY <1>0, LocalType DEF IInv, HandsFaithful, WriteCandidate, At, Publishing, Faithful
    <2>6. ASSUME calm, NEW f \in pruned \ proc[p].about
          PROVE  ~Shows(Append(c, h), f)
      <3>1. ~Shows(c, f)
        BY <1>3, <2>6 DEF PrunedForGood
      <3>2. f \notin Tip(c).file
        BY <2>5, <3>1, TipIsCommit DEF Shows, Tip
      <3>3. f \notin h.file
        BY <2>5, <2>6, <3>2
      <3>4. QED
        BY <2>5, <3>1, <3>3, TipOfAppend
    <2>7. PrunedForGood'
      BY <2>1, <2>2, <2>6 DEF PrunedForGood
    <2>8. QED
      BY <2>3, <2>4, <2>7
  <1>4. QED
    BY <1>2, <1>3

LEMMA SwapStore ==
    ASSUME IInv, CopiesThere, DeadIsRest, BranchIntact, PrunedForGood,
           NEW p \in Proc, Swap(p)
    PROVE  CopiesThere' /\ DeadIsRest' /\ BranchIntact' /\ PrunedForGood'
  <1>0. TypeOK
    BY DEF IInv
  <1>1. proc'[p].pc \notin {"replace", "prune"} /\ \A q \in Proc \ {p} : proc'[q] = proc[q]
    <2>1. Publish(p) /\ ~Rewrite(p) /\ ~Mark(p)
      BY DEF Publish, Swap, Rewrite, Mark, At
    <2>2. QED
      BY <1>0, <2>1, WhereTo, OthersUnchanged
  <1>2. pool' = pool /\ pruned' = pruned
    BY DEF Swap
  <1>3. CASE UNCHANGED <<branch, calm>>
    BY <1>0, <1>1, <1>2, <1>3, SameStore
  <1>4. CASE Published(p) /\ branch = proc[p].base /\ Candidate(p) \in pool
    <2>1. branch' = Append(branch, proc[p].hand) /\ branch' \in pool /\ calm' = (calm /\ ~Pruning(p))
      BY <1>4 DEF Published, Candidate
    <2>2. calm' => calm /\ \A q \in Proc : proc'[q].pc # "prune"
      BY <1>1, <2>1 DEF Pruning, At
    <2>3. Ancestors(branch') \subseteq Ancestors(branch) \cup {branch'}
      BY <1>0, <2>1, LocalType, AncestorsOfAppend DEF TypeOK
    <2>4. BranchIntact'
      BY <1>2, <2>1, <2>2, <2>3 DEF BranchIntact
    <2>5. CopiesThere' /\ PrunedForGood' /\ DeadIsRest'
      BY <1>1, <1>2, <2>2 DEF CopiesThere, PrunedForGood, DeadIsRest
    <2>6. QED
      BY <2>4, <2>5
  <1>5. QED
    BY <1>3, <1>4 DEF Swap

(* The copy shows no more than the branch it is made from. *)
LEMMA RewriteStore ==
    ASSUME IInv, CopiesThere, DeadIsRest, BranchIntact, PrunedForGood,
           NEW p \in Proc, Rewrite(p)
    PROVE  CopiesThere' /\ DeadIsRest' /\ BranchIntact' /\ PrunedForGood'
  <1>0. TypeOK
    BY DEF IInv
  <1>1. proc'[p].pc # "prune" /\ \A q \in Proc \ {p} : proc'[q] = proc[q]
    <2>1. Erase(p) /\ ~Mark(p)
      BY DEF Erase, Rewrite, Mark, At
    <2>2. QED
      BY <1>0, <2>1, WhereTo, OthersUnchanged
  <1>2. \A q \in Proc : proc[q].pc # "replace" /\ proc[q].pc # "prune"
    BY <1>0, NameAssumption DEF Rewrite, TypeOK
  <1>3. CASE Return(p) /\ UNCHANGED <<pool, calm>>
    <2>1. proc'[p].pc # "replace" /\ UNCHANGED <<branch, pruned>>
      BY <1>0, <1>3, RestType DEF Return, TypeOK, Rewrite
    <2>2. QED
      BY <1>0, <1>1, <1>3, <2>1, SameStore
  <1>4. CASE Copy(p) /\ Ancestors(branch) \subseteq pool
    <2> DEFINE new == Scrub(branch, proc[p].ids)
    <2>1. /\ pool' = pool \cup Ancestors(new) /\ branch' = branch /\ pruned' = pruned
          /\ calm' => calm
          /\ proc' = [proc EXCEPT ![p].pc = "replace", ![p].base = branch, ![p].new = new]
      BY <1>4 DEF Copy, Rewrite
    <2>2. proc'[p].new = new
      BY <1>0, <2>1, LocalType DEF TypeOK, Local
    <2>3. /\ new \in Seq(Commit)
          /\ \A f : Shows(new, f) => Shows(branch, f)
      BY <1>0, ScrubWorks DEF TypeOK
    <2> HIDE DEF new
    <2>4. CopiesThere'
      BY <1>1, <1>2, <2>1, <2>2 DEF CopiesThere
    <2>5. DeadIsRest' /\ BranchIntact'
      BY <1>1, <1>2, <2>1 DEF DeadIsRest, BranchIntact
    <2>6. ASSUME calm', NEW f \in pruned, NEW c \in Ancestors(new)
          PROVE  ~Shows(c, f)
      <3>1. branch \in pool
        BY <1>0, <1>4, SelfIsAncestor DEF TypeOK
      <3>2. ~Shows(branch, f)
        BY <2>1, <2>6, <3>1 DEF PrunedForGood
      <3>3. QED
        BY <2>3, <3>2, AncestorsShow
    <2>7. PrunedForGood'
      BY <2>1, <2>6 DEF PrunedForGood
    <2>8. QED
      BY <2>4, <2>5, <2>7
  <1>5. QED
    BY <1>3, <1>4 DEF Rewrite

LEMMA ReplaceStore ==
    ASSUME IInv, CopiesThere, DeadIsRest, BranchIntact, PrunedForGood,
           NEW p \in Proc, Replace(p)
    PROVE  CopiesThere' /\ DeadIsRest' /\ BranchIntact' /\ PrunedForGood'
  <1>0. TypeOK
    BY DEF IInv
  <1>1. proc'[p].pc \notin {"replace", "prune"} /\ \A q \in Proc \ {p} : proc'[q] = proc[q]
    <2>1. Erase(p) /\ ~Mark(p) /\ ~Rewrite(p)
      BY DEF Erase, Replace, Mark, Rewrite, At
    <2>2. QED
      BY <1>0, <2>1, WhereTo, OthersUnchanged
  <1>2. \A q \in Proc \ {p} : proc[q].pc # "replace" /\ proc[q].pc # "prune"
    BY <1>0, NameAssumption DEF Replace, At, TypeOK
  <1>3. UNCHANGED <<pool, calm, pruned>> /\ branch' \in {branch, proc[p].new}
    BY DEF Replace
  <1>4. Ancestors(proc[p].new) \subseteq pool
    BY DEF CopiesThere, Replace, At
  <1>5. QED
    BY <1>1, <1>2, <1>3, <1>4 DEF CopiesThere, DeadIsRest, BranchIntact, PrunedForGood

LEMMA MarkStore ==
    ASSUME IInv, CopiesThere, DeadIsRest, BranchIntact, PrunedForGood,
           NEW p \in Proc, Mark(p)
    PROVE  CopiesThere' /\ DeadIsRest' /\ BranchIntact' /\ PrunedForGood'
  <1>0. TypeOK
    BY DEF IInv
  <1>1. proc'[p].pc # "replace" /\ \A q \in Proc \ {p} : proc'[q] = proc[q]
    <2>1. Erase(p) /\ ~Rewrite(p)
      BY DEF Erase, Rewrite, Mark, At
    <2>2. QED
      BY <1>0, <2>1, WhereTo, OthersUnchanged
  <1>2. UNCHANGED <<branch, pool, calm, pruned>>
    BY DEF Mark, history
  <1>3. proc'[p].dead = pool \ Ancestors(branch)
    BY <1>0, LocalType DEF Mark, TypeOK, Local
  <1>4. \A q \in Proc \ {p} : proc[q].pc # "prune"
    BY <1>0, NameAssumption DEF Mark, At, TypeOK
  <1>5. QED
    BY <1>1, <1>2, <1>3, <1>4 DEF CopiesThere, DeadIsRest, BranchIntact, PrunedForGood

(* What is left after a calm pruning is the branch, which shows nothing    *)
(* that has been scrubbed. *)
LEMMA PruneStore ==
    ASSUME IInv, CopiesThere, DeadIsRest, BranchIntact, PrunedForGood,
           NEW p \in Proc, Prune(p)
    PROVE  CopiesThere' /\ DeadIsRest' /\ BranchIntact' /\ PrunedForGood'
  <1>0. TypeOK
    BY DEF IInv
  <1>1. proc'[p].pc \notin {"replace", "prune"} /\ \A q \in Proc \ {p} : proc'[q] = proc[q]
    <2>1. Erase(p) /\ ~Mark(p) /\ ~Rewrite(p)
      BY DEF Erase, Prune, Mark, Rewrite, At
    <2>2. QED
      BY <1>0, <2>1, WhereTo, OthersUnchanged
  <1>2. \A q \in Proc \ {p} : proc[q].pc # "replace" /\ proc[q].pc # "prune"
    BY <1>0, NameAssumption DEF Prune, At, TypeOK
  <1>3. PICK late \in SUBSET {c \in pool \ proc[p].dead : c \notin Ancestors(branch)} :
           pool' = pool \ (proc[p].dead \cup late)
    BY DEF Prune
  <1>4. /\ UNCHANGED <<branch, calm>>
        /\ pruned' \subseteq pruned \cup scrubbed
    BY DEF Prune
  <1>5. calm => /\ proc[p].dead \cap Ancestors(branch) = {}
                /\ pool \ proc[p].dead \subseteq Ancestors(branch)
    BY DEF DeadIsRest, Prune, At
  <1>6. CopiesThere' /\ DeadIsRest'
    BY <1>1, <1>2 DEF CopiesThere, DeadIsRest
  <1>7. BranchIntact'
    BY <1>3, <1>4, <1>5 DEF BranchIntact
  <1>8. ASSUME calm, NEW f \in pruned', NEW c \in pool'
        PROVE  ~Shows(c, f)
    <2>1. CASE f \in pruned
      BY <1>3, <1>8, <2>1 DEF PrunedForGood
    <2>2. CASE f \in scrubbed
      <3>1. ~Shows(branch, f)
        BY <2>2 DEF IInv, ErasedForGood
      <3>2. c \in Ancestors(branch)
        BY <1>3, <1>5, <1>8
      <3>3. QED
        BY <1>0, <3>1, <3>2, AncestorsShow DEF TypeOK
    <2>3. QED
      BY <1>4, <1>8, <2>1, <2>2
  <1>9. PrunedForGood'
    BY <1>4, <1>8 DEF PrunedForGood
  <1>10. QED
    BY <1>6, <1>7, <1>9

LEMMA StoreStep == IInv /\ StoreInv /\ [Next]_vars => StoreInv'
  <1> SUFFICES ASSUME IInv, StoreInv, [Next]_vars PROVE StoreInv'
    OBVIOUS
  <1>0. TypeOK /\ CopiesThere /\ DeadIsRest /\ BranchIntact /\ PrunedForGood
        /\ GoneRedacted /\ AnsweredMeansRedacted
    BY DEF IInv, StoreInv
  <1>1. CASE UNCHANGED vars
    BY <1>0, <1>1 DEF vars, StoreInv, GoneRedacted, CopiesThere, DeadIsRest,
                      AnsweredMeansRedacted, BranchIntact, PrunedForGood
  <1>2. ASSUME NEW p \in Proc, Change(p) \/ Publish(p) \/ Erase(p) \/ Kill(p)
        PROVE  StoreInv'
    <2>1. GoneRedacted' /\ AnsweredMeansRedacted'
      BY <1>0, <1>2, JournalStep
    <2>2. CASE WriteCandidate(p) \/ Swap(p) \/ Rewrite(p) \/ Replace(p) \/ Mark(p) \/ Prune(p)
      <3>1. CopiesThere' /\ DeadIsRest' /\ BranchIntact' /\ PrunedForGood'
        BY <1>0, <2>2, CandidateStep, SwapStore, RewriteStore, ReplaceStore, MarkStore, PruneStore
      <3>2. QED BY <2>1, <3>1 DEF StoreInv
    <2>3. CASE ~(WriteCandidate(p) \/ Swap(p) \/ Rewrite(p) \/ Replace(p) \/ Mark(p) \/ Prune(p))
      <3>1. UNCHANGED <<branch, pool, calm, pruned>>
        <4>1. Change(p) \/ Kill(p) => UNCHANGED <<branch, pool, calm, pruned>>
          BY DEF Change, BeginRemember, BeginForget, BeginRecover, WriteIntent, Complete,
                 SetAside, Kill, history
        <4>2. Check(p) => UNCHANGED <<branch, pool, calm, pruned>>
          BY DEF Check, history
        <4>3. (\E t \in Id : BeginErase(p, t)) \/ Redact(p) \/ RedactFails(p) \/ ListFiles(p)
                 \/ RemoveFile(p) \/ EraseDone(p) => UNCHANGED <<branch, pool, calm, pruned>>
          BY DEF BeginErase, Redact, RedactFails, ListFiles, RemoveFile, EraseDone, history
        <4>4. QED
          BY <1>2, <2>3, <4>1, <4>2, <4>3 DEF Publish, Erase
      <3>2. proc'[p].pc \notin {"replace", "prune"} /\ \A q \in Proc \ {p} : proc'[q] = proc[q]
        BY <1>0, <1>2, <2>3, WhereTo, OthersUnchanged
      <3>3. CopiesThere' /\ DeadIsRest' /\ BranchIntact' /\ PrunedForGood'
        BY <1>0, <3>1, <3>2, SameStore
      <3>4. QED BY <2>1, <3>3 DEF StoreInv
    <2>4. QED
      BY <2>2, <2>3
  <1>3. QED
    BY <1>1, <1>2 DEF Next

LEMMA StoreInit == Init => StoreInv
  <1> SUFFICES ASSUME Init PROVE StoreInv
    OBVIOUS
  <1>1. \A p \in Proc : proc[p].pc = "idle"
    BY RestType DEF Init
  <1>2. Ancestors(<<Root>>) \subseteq {<<Root>>}
    <2> DEFINE c == <<Root>>
    <2>1. c \in Seq(Commit) /\ DOMAIN c = 1..1 /\ Len(c) = 1
      BY DEF Root, Commit
    <2>2. SubSeq(c, 1, Len(c)) = c
      <3> HIDE DEF c
      <3>1. QED BY <2>1
    <2>3. QED
      BY <2>1, <2>2 DEF Ancestors
  <1>3. Ancestors(branch) \subseteq pool
    BY <1>2 DEF Init
  <1>4. pruned = {} /\ answered = {}
    BY DEF Init
  <1>5. QED
    BY <1>1, <1>3, <1>4 DEF StoreInv, GoneRedacted, CopiesThere, DeadIsRest, AfterRedact,
           AnsweredMeansRedacted, BranchIntact, PrunedForGood

LEMMA StoreAlways == Spec => []StoreInv
  BY IInvInit, IInvStep, StoreInit, StoreStep, PTL DEF Spec

(* README: the text of what an erasure answered for is out of the journal, *)
(* wherever this and other erasures were killed or failed.                 *)
THEOREM AnsweredIsRedacted == Spec => []AnsweredMeansRedacted
  <1>1. StoreInv => AnsweredMeansRedacted
    BY DEF StoreInv
  <1>2. QED
    BY <1>1, StoreAlways, PTL

(* A pruning takes no object the branch needs, as long as nobody publishes *)
(* or writes objects in the middle of one.                                 *)
THEOREM PruningSparesBranch == Spec => []BranchIntact
  <1>1. StoreInv => BranchIntact
    BY DEF StoreInv
  <1>2. QED
    BY <1>1, StoreAlways, PTL

(* Under the same condition no object of the store shows what was pruned,  *)
(* however many candidates were built before, meanwhile or since.          *)
THEOREM PrunedStaysGone == Spec => []PrunedForGood
  <1>1. StoreInv => PrunedForGood
    BY DEF StoreInv
  <1>2. QED
    BY <1>1, StoreAlways, PTL

=============================================================================
