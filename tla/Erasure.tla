------------------------------ MODULE Erasure ------------------------------
(***************************************************************************)
(* erasure.rs: `mem erase` takes a fact out of the tree, its source events *)
(* out of the journal, its text out of every commit of the branch, and the *)
(* intents that mention it out of the intents directory, in four steps,    *)
(* while other processes change the memory and recover their intents.      *)
(*                                                                         *)
(* A commit id is a hash of the commit and of all before it: here it is    *)
(* the sequence of them, so that two ids are equal when Git's are.  The    *)
(* facts live in one entity file, and every fact cites one source event of *)
(* its own.  Publication has the details of intents and receipts, Journal  *)
(* those of redaction, Curation those of files and controls.               *)
(***************************************************************************)
EXTENDS Naturals, Sequences

CONSTANTS
    Proc,        \* processes
    Fact,        \* fact ids; a fact is also its text and its source event
    Entity,      \* the id of the entity file that holds them
    Nobody,      \* the writer lock is free
    MaxRequests, \* bound on changes and erasures
    MaxFaults    \* bound on kills

ASSUME NameAssumption == Entity \notin Fact /\ Nobody \notin Proc

ASSUME BoundAssumption == MaxRequests \in Nat /\ MaxFaults \in Nat

VARIABLES
    branch,     \* the commits of refs/heads/memory, oldest first
    pool,       \* the ids of the commits in the object store
    intents,    \* the files of the intents directory
    redacted,   \* the source events whose text is erased
    lock,       \* who holds writer.lock
    proc,       \* what each process is doing
    clock,      \* requests so far
    faults,     \* kills so far
    kept,       \* history: facts published, and not removed on purpose since
    scrubbed,   \* history: facts some erasure took out of the history
    pruned,     \* history: facts whose old commits were then pruned
    answered,   \* history: facts some erasure found, and answered for
    calm        \* history: nobody published while objects were pruned

vars == <<branch, pool, intents, redacted, lock, proc, clock, faults,
          kept, scrubbed, pruned, answered, calm>>

history == <<kept, scrubbed, pruned, answered, calm>>

-----------------------------------------------------------------------------
(* Data *)

Id == Fact \cup {Entity}

(* A commit, by its receipt and what its tree says: the facts in the file, *)
(* those suppressed and retracted, and those suppressed or deleted.        *)
Commit == [req : Nat, file : SUBSET Fact, forgotten : SUBSET Fact, barred : SUBSET Id]

Root == [req |-> 0, file |-> {}, forgotten |-> {}, barred |-> {}]

(* Intent files are named for the request, and end in .json or .stale.     *)
FileName == Nat \X BOOLEAN

(* `says` is every id found in the file. *)
Intent == [req : Nat, base : Seq(Commit), hand : Commit, says : SUBSET Id,
           about : SUBSET Fact, gone : SUBSET Fact, stale : BOOLEAN]

Step == {"idle", "intent", "check", "candidate", "swap", "complete", "aside",
         "redact", "rewrite", "replace", "mark", "prune", "list", "remove"}

Job == {"change", "recover", "erase"}

(* `about`: the fact a change adds.  `gone`: the facts a request takes out *)
(* of the file.  `says`: the ids its intent mentions.  `ids`: what an      *)
(* erasure looks for.  `new`: the rewritten branch.  `dead`: the objects   *)
(* to prune.                                                               *)
Local == [pc : Step, job : Job, base : Seq(Commit), hand : Commit,
          about : SUBSET Fact, gone : SUBSET Fact, says : SUBSET Id,
          ids : SUBSET Id, new : Seq(Commit),
          dead : SUBSET Seq(Commit), todo : SUBSET FileName]

Rest == [pc |-> "idle", job |-> "change", base |-> <<>>, hand |-> Root,
         about |-> {}, gone |-> {}, says |-> {}, ids |-> {}, new |-> <<>>,
         dead |-> {}, todo |-> {}]

Init ==
    /\ branch = <<Root>>
    /\ pool = {<<Root>>}
    /\ intents = {}
    /\ redacted = {}
    /\ lock = Nobody
    /\ proc = [p \in Proc |-> Rest]
    /\ clock = 0
    /\ faults = 0
    /\ kept = {} /\ scrubbed = {} /\ pruned = {} /\ answered = {}
    /\ calm = TRUE

(* The commits a commit id stands for: itself and its ancestors. *)
Ancestors(c) == {SubSeq(c, 1, k) : k \in DOMAIN c}

Tip(c) == c[Len(c)]

Shows(c, f) == \E k \in DOMAIN c : f \in c[k].file

At(p, step) == proc[p].pc = step

Goto(p, step) == proc' = [proc EXCEPT ![p].pc = step]

(* The call ends, and with it the process's hold on the lock. *)
Return(p) ==
    /\ proc' = [proc EXCEPT ![p] = Rest]
    /\ lock' = IF lock = p THEN Nobody ELSE lock

Candidate(p) == Append(proc[p].base, proc[p].hand)

(* Somebody else is between the two halves of `git gc --prune=now`. *)
Pruning(p) == \E q \in Proc \ {p} : At(q, "prune")

-----------------------------------------------------------------------------
(* change.rs *)

(* The head is read and the new file computed; forgotten facts are dropped *)
(* from it.  The intent has the whole file in it, and in INDEX.md the name *)
(* of the entity.                                                          *)
BeginRemember(p, f) ==
    /\ At(p, "idle")
    /\ clock < MaxRequests
    /\ clock' = clock + 1
    /\ LET tip == Tip(branch)
           file == (tip.file \cup {f}) \ tip.forgotten
       IN proc' = [proc EXCEPT ![p] = [Rest EXCEPT
                      !.pc = "intent", !.base = branch, !.about = {f},
                      !.says = file \cup {Entity},
                      !.hand = [tip EXCEPT !.req = clock + 1, !.file = file]]]
    /\ UNCHANGED <<branch, pool, intents, redacted, lock, faults, history>>

(* A forget also writes the controls, and so every id they name. *)
BeginForget(p, f) ==
    /\ At(p, "idle")
    /\ clock < MaxRequests
    /\ f \in Tip(branch).file
    /\ clock' = clock + 1
    /\ LET tip == Tip(branch)
           forgotten == tip.forgotten \cup {f}
           barred == tip.barred \cup {f}
           file == tip.file \ forgotten
       IN proc' = [proc EXCEPT ![p] = [Rest EXCEPT
                      !.pc = "intent", !.base = branch, !.gone = {f},
                      !.says = file \cup barred \cup {Entity},
                      !.hand = [req |-> clock + 1, file |-> file,
                                forgotten |-> forgotten, barred |-> barred]]]
    /\ UNCHANGED <<branch, pool, intents, redacted, lock, faults, history>>

WriteIntent(p) ==
    /\ At(p, "intent")
    /\ Goto(p, "check")
    /\ intents' = intents \cup {[req |-> proc[p].hand.req, base |-> proc[p].base,
                                 hand |-> proc[p].hand, says |-> proc[p].says,
                                 about |-> proc[p].about, gone |-> proc[p].gone,
                                 stale |-> FALSE]}
    /\ UNCHANGED <<branch, pool, redacted, lock, clock, faults, history>>

(* recover_in_dir takes up an intent, be its writer dead or not. *)
BeginRecover(p, i) ==
    /\ At(p, "idle")
    /\ ~i.stale
    /\ proc' = [proc EXCEPT ![p] = [Rest EXCEPT
                    !.pc = "check", !.job = "recover", !.base = i.base,
                    !.hand = i.hand, !.about = i.about, !.gone = i.gone,
                    !.says = i.says]]
    /\ UNCHANGED <<branch, pool, intents, redacted, lock, clock, faults, history>>

Pending(r) == {i \in intents : i.req = r /\ ~i.stale}

Complete(p) ==
    /\ At(p, "complete")
    /\ intents' = intents \ Pending(proc[p].hand.req)
    /\ Return(p)
    /\ UNCHANGED <<branch, pool, redacted, clock, faults, history>>

(* Without the file the rename fails, and recovery with it. *)
SetAside(p) ==
    /\ At(p, "aside")
    /\ LET mine == Pending(proc[p].hand.req)
       IN intents' = (intents \ mine) \cup {[i EXCEPT !.stale = TRUE] : i \in mine}
    /\ Return(p)
    /\ UNCHANGED <<branch, pool, redacted, clock, faults, history>>

-----------------------------------------------------------------------------
(* GitRepo::publish *)

Conflict(p) ==
    IF proc[p].job = "recover" THEN Goto(p, "aside") /\ UNCHANGED lock ELSE Return(p)

Check(p) ==
    /\ At(p, "check")
    /\ IF \E k \in DOMAIN branch : branch[k].req = proc[p].hand.req
       THEN Goto(p, "complete") /\ UNCHANGED lock
       ELSE IF branch # proc[p].base THEN Conflict(p)
       ELSE Goto(p, "candidate") /\ UNCHANGED lock
    /\ UNCHANGED <<branch, pool, intents, redacted, clock, faults, history>>

(* read-tree, hash-object, write-tree and commit-tree: they fail when the  *)
(* base has been pruned.  A fact told again counts as kept from now on.    *)
WriteCandidate(p) ==
    /\ At(p, "candidate")
    /\ IF proc[p].base \in pool
       THEN /\ pool' = pool \cup {Candidate(p)}
            /\ pruned' = pruned \ proc[p].about
            /\ calm' = (calm /\ ~Pruning(p))
            /\ Goto(p, "swap")
            /\ UNCHANGED lock
       ELSE /\ Return(p)
            /\ UNCHANGED <<pool, pruned, calm>>
    /\ UNCHANGED <<branch, intents, redacted, clock, faults, kept, scrubbed, answered>>

(* The candidate is on the branch. *)
Published(p) ==
    /\ branch' = Candidate(p)
    /\ kept' = (kept \ proc[p].gone) \cup (proc[p].about \cap proc[p].hand.file)
    /\ scrubbed' = scrubbed \ proc[p].about
    /\ answered' = answered \ proc[p].about
    /\ calm' = (calm /\ ~Pruning(p))
    /\ Goto(p, IF proc[p].job = "erase" THEN "redact" ELSE "complete")
    /\ UNCHANGED lock

(* Mutant: update-ref without the old value. *)
SwapBlind(p) ==
    /\ At(p, "swap")
    /\ Candidate(p) \in pool
    /\ Published(p)
    /\ UNCHANGED <<pool, intents, redacted, clock, faults, pruned>>

(* update-ref.  Git refuses an object that is not there, which is an error *)
(* but no conflict.                                                        *)
Swap(p) ==
    /\ At(p, "swap")
    /\ IF branch # proc[p].base
       THEN Conflict(p) /\ UNCHANGED <<branch, kept, scrubbed, answered, calm>>
       ELSE IF Candidate(p) \notin pool
       THEN Return(p) /\ UNCHANGED <<branch, kept, scrubbed, answered, calm>>
       ELSE Published(p)
    /\ UNCHANGED <<pool, intents, redacted, clock, faults, pruned>>

-----------------------------------------------------------------------------
(* erase *)

(* What the file at the head has of a target. *)
FoundAt(tip, t) == IF t = Entity THEN tip.file ELSE tip.file \cap {t}

(* Step 1 up to publish.  Nothing found, and no control that names the     *)
(* target: an error.  Nothing found otherwise: only the target's own id is *)
(* looked for.                                                             *)
BeginErase(p, t) ==
    /\ At(p, "idle")
    /\ clock < MaxRequests
    /\ LET tip == Tip(branch)
           gone == FoundAt(tip, t)
       IN  /\ gone # {} \/ t \in tip.barred
           /\ proc' = [proc EXCEPT ![p] = [Rest EXCEPT
                  !.pc = "check", !.job = "erase", !.base = branch, !.gone = gone,
                  !.ids = IF gone = {} THEN {t} ELSE gone \cup ({Entity} \cap {t}),
                  !.hand = [tip EXCEPT
                      !.req = clock + 1,
                      !.file = @ \ gone,
                      !.barred = @ \cup (IF gone = {} THEN {t} ELSE gone)]]]
    /\ clock' = clock + 1
    /\ UNCHANGED <<branch, pool, intents, redacted, lock, faults, history>>

(* Step 2: the source events of what step 1 found. *)
Redact(p) ==
    /\ At(p, "redact")
    /\ Goto(p, "rewrite")
    /\ redacted' = redacted \cup proc[p].gone
    /\ UNCHANGED <<branch, pool, intents, lock, clock, faults, history>>

(* Mutant: the erasure goes on without the journal. *)
RedactIgnored(p) ==
    /\ At(p, "redact")
    /\ Goto(p, "rewrite")
    /\ UNCHANGED <<branch, pool, intents, redacted, lock, clock, faults, history>>

(* The journal cannot be read or written: the call ends with an error. *)
RedactFails(p) ==
    /\ At(p, "redact")
    /\ Return(p)
    /\ UNCHANGED <<branch, pool, intents, redacted, clock, faults, history>>

(* Every commit, with the facts dropped from its file.  Receipts, controls *)
(* and other JSON stay as they are.                                        *)
Scrub(c, ids) == [k \in DOMAIN c |-> [c[k] EXCEPT !.file = @ \ ids]]

(* The head is read and its history copied. *)
Copy(p) ==
    LET new == Scrub(branch, proc[p].ids)
    IN  /\ pool' = pool \cup Ancestors(new)
        /\ proc' = [proc EXCEPT ![p].pc = "replace", ![p].base = branch, ![p].new = new]
        /\ calm' = (calm /\ ~Pruning(p))

(* Step 3, under the writer lock; it fails if an object is not there.      *)
Rewrite(p) ==
    /\ At(p, "rewrite")
    /\ lock = Nobody
    /\ IF Ancestors(branch) \subseteq pool
       THEN Copy(p) /\ lock' = p
       ELSE Return(p) /\ UNCHANGED <<pool, calm>>
    /\ UNCHANGED <<branch, intents, redacted, clock, faults, kept, scrubbed, pruned, answered>>

(* Mutant: update-ref without the old value. *)
ReplaceBlind(p) ==
    /\ At(p, "replace")
    /\ branch' = proc[p].new
    /\ kept' = kept \ proc[p].ids
    /\ scrubbed' = scrubbed \cup (proc[p].ids \cap Fact)
    /\ Goto(p, "mark")
    /\ UNCHANGED <<pool, intents, redacted, lock, clock, faults, pruned, answered, calm>>

(* update-ref, unless the copy is the original. *)
Replace(p) ==
    /\ At(p, "replace")
    /\ IF proc[p].new = proc[p].base \/ branch = proc[p].base
       THEN /\ branch' = IF proc[p].new = proc[p].base THEN branch ELSE proc[p].new
            /\ kept' = IF proc[p].new = proc[p].base THEN kept ELSE kept \ proc[p].ids
            /\ scrubbed' = IF branch = proc[p].base
                           THEN scrubbed \cup (proc[p].ids \cap Fact) ELSE scrubbed
            /\ Goto(p, "mark")
            /\ UNCHANGED lock
       ELSE /\ Return(p)
            /\ UNCHANGED <<branch, kept, scrubbed>>
    /\ UNCHANGED <<pool, intents, redacted, clock, faults, pruned, answered, calm>>

(* Mutant: what the branch showed before the rewrite is kept. *)
MarkOld(p) ==
    /\ At(p, "mark")
    /\ proc' = [proc EXCEPT ![p].pc = "prune",
                            ![p].dead = pool \ Ancestors(proc[p].base)]
    /\ UNCHANGED <<branch, pool, intents, redacted, lock, clock, faults, history>>

(* git gc --prune=now finds the objects no ref leads to...                 *)
Mark(p) ==
    /\ At(p, "mark")
    /\ proc' = [proc EXCEPT ![p].pc = "prune", ![p].dead = pool \ Ancestors(branch)]
    /\ UNCHANGED <<branch, pool, intents, redacted, lock, clock, faults, history>>

(* ... and deletes them.  What was written since it may see or not.        *)
Prune(p) ==
    /\ At(p, "prune")
    /\ \E late \in SUBSET {c \in pool \ proc[p].dead : c \notin Ancestors(branch)} :
          pool' = pool \ (proc[p].dead \cup late)
    /\ pruned' = pruned \cup (proc[p].ids \cap scrubbed)
    /\ lock' = Nobody
    /\ Goto(p, "list")
    /\ UNCHANGED <<branch, intents, redacted, clock, faults, kept, scrubbed, answered, calm>>

(* Step 4: the names in the intents directory, then one file at a time.  A *)
(* file renamed in between is not found.                                   *)
ListFiles(p) ==
    /\ At(p, "list")
    /\ proc' = [proc EXCEPT ![p].pc = "remove",
                            ![p].todo = {<<i.req, i.stale>> : i \in intents}]
    /\ UNCHANGED <<branch, pool, intents, redacted, lock, clock, faults, history>>

RemoveFile(p) ==
    /\ At(p, "remove")
    /\ \E name \in proc[p].todo :
          /\ proc' = [proc EXCEPT ![p].todo = @ \ {name}]
          /\ intents' = {i \in intents : \/ <<i.req, i.stale>> # name
                                         \/ i.says \cap proc[p].ids = {}}
    /\ UNCHANGED <<branch, pool, redacted, lock, clock, faults, history>>

EraseDone(p) ==
    /\ At(p, "remove")
    /\ proc[p].todo = {}
    /\ answered' = answered \cup proc[p].gone
    /\ Return(p)
    /\ UNCHANGED <<branch, pool, intents, redacted, clock, faults, kept, scrubbed, pruned, calm>>

-----------------------------------------------------------------------------
(* A process is killed; what it put on disk stays, its lock does not. *)
Kill(p) ==
    /\ faults < MaxFaults
    /\ ~At(p, "idle")
    /\ faults' = faults + 1
    /\ Return(p)
    /\ UNCHANGED <<branch, pool, intents, redacted, clock, history>>

Change(p) ==
    \/ \E f \in Fact : BeginRemember(p, f) \/ BeginForget(p, f)
    \/ \E i \in intents : BeginRecover(p, i)
    \/ WriteIntent(p) \/ Complete(p) \/ SetAside(p)

Publish(p) == Check(p) \/ WriteCandidate(p) \/ Swap(p)

Erase(p) ==
    \/ \E t \in Id : BeginErase(p, t)
    \/ Redact(p) \/ RedactFails(p)
    \/ Rewrite(p) \/ Replace(p) \/ Mark(p) \/ Prune(p)
    \/ ListFiles(p) \/ RemoveFile(p) \/ EraseDone(p)

Next == \E p \in Proc : Change(p) \/ Publish(p) \/ Erase(p) \/ Kill(p)

Spec == Init /\ [][Next]_vars

-----------------------------------------------------------------------------
(* Properties *)

(* Every variable holds what its file, ref or directory can hold, and the  *)
(* history is only rewritten by the holder of the lock.                    *)
TypeOK ==
    /\ branch \in Seq(Commit) /\ branch # <<>>
    /\ pool \subseteq Seq(Commit)
    /\ intents \subseteq Intent
    /\ redacted \subseteq Fact
    /\ lock \in Proc \cup {Nobody}
    /\ proc \in [Proc -> Local]
    /\ clock \in 0..MaxRequests /\ faults \in 0..MaxFaults
    /\ kept \subseteq Fact /\ scrubbed \subseteq Fact
    /\ pruned \subseteq Fact /\ answered \subseteq Fact
    /\ calm \in BOOLEAN
    /\ \A p \in Proc : proc[p].pc \in {"replace", "mark", "prune"} => lock = p

(* erasure.rs step 3: once the history has been rewritten without a fact,  *)
(* no commit of the branch shows it again until somebody tells it again:   *)
(* not an intent written before, nor its recovery, nor a publisher whose   *)
(* base is the old history, nor another erasure that copied it.            *)
ErasedForGood == \A f \in scrubbed : ~Shows(branch, f)

(* A rewrite of the history takes nothing else with it: what was published *)
(* by anybody, before or meanwhile, and not forgotten or erased, is in the *)
(* file at the head.                                                       *)
OthersKept == kept \subseteq Tip(branch).file

(* erasure.rs: "so `git log -p` on the store cannot recover it".  After    *)
(* the old objects are pruned none shows the fact, though others may be    *)
(* building on them, unless somebody wrote objects during the pruning.     *)
PrunedForGood == calm => \A f \in pruned : \A c \in pool : ~Shows(c, f)

(* Pruning never takes an object the branch needs, unless somebody         *)
(* published during it.                                                    *)
BranchIntact == calm => Ancestors(branch) \subseteq pool

(* README: "`mem erase` removes it: [...] from the journal events it came  *)
(* from".  What an erasure found in the file and answered for has no text  *)
(* in the journal, be there kills and failures of other erasures of it.  A *)
(* repeated one finds nothing, and so answers for nothing of the kind.     *)
AnsweredMeansRedacted == answered \subseteq redacted
=============================================================================
