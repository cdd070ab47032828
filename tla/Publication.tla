----------------------------- MODULE Publication -----------------------------
(***************************************************************************)
(* The publication layer: how concurrent processes turn change requests    *)
(* into commits on the branch `memory`.                                    *)
(*                                                                         *)
(*   repo.rs    publish: receipt, base check, compare-and-swap; the intent *)
(*              files.                                                     *)
(*   change.rs  apply_against_base and recover_in_dir.                     *)
(*   ops.rs     request_change, the MCP and HTTP entry point ("ops").      *)
(*   cli.rs     cmd_change, the command line entry point ("cli").          *)
(*   consolidate.rs, index.rs, tidy.rs, erasure.rs, cli.rs (write-back)    *)
(*              publish without an intent ("batch").                       *)
(*                                                                         *)
(* A commit id is the length of the history that ends in it.  Blobs, trees *)
(* and text are abstracted to the set of builds whose effect a snapshot    *)
(* shows: a build rewrites whole files (entity, INDEX.md, controls) from   *)
(* what its base showed, so what it publishes shows its base's builds and  *)
(* its own.  A build is named by its stamp: two builds with one stamp have *)
(* the same text, and so, on the same base, the same digest.               *)
(***************************************************************************)
EXTENDS Naturals, Sequences, FiniteSets

CONSTANTS
    Proc,        \* processes (or server threads) that run requests
    ChangeReq,   \* request ids of changes; numbers, so that file names sort
    BatchReq,    \* request ids of publishers that write no intent
    Refused,     \* change ids whose candidate the domain validator refuses
    NoIntent,    \* no change set in hand
    MaxBuilds,   \* bound on change sets built
    MaxFaults    \* bound on kills, power losses and failing calls

ASSUME RequestAssumption ==
    /\ ChangeReq \subseteq Nat
    /\ BatchReq \subseteq Nat
    /\ ChangeReq \cap BatchReq = {}
    /\ Refused \subseteq ChangeReq
    /\ ChangeReq # {}

ASSUME BoundAssumption == MaxBuilds \in Nat /\ MaxFaults \in Nat

VARIABLES
    branch,     \* commits on refs/heads/memory after the root commit
    intents,    \* the files intents/<request>.json
    stale,      \* the files intents/<request>.stale
    call,       \* what each process is doing
    clock,      \* number of builds so far, and stamp of the latest new one
    faults,     \* faults so far
    acked,      \* history: <<request, stamp>> a caller was told succeeded
    written     \* history: requests whose intent was ever written

vars == <<branch, intents, stale, call, clock, faults, acked, written>>

-----------------------------------------------------------------------------
(* Data *)

Request == ChangeReq \cup BatchReq

Commit == [req : Request, base : Nat, stamp : Nat, timed : BOOLEAN, shows : SUBSET Nat]

(* `torn`: the text is incomplete.  `file` tells one file with this name   *)
(* from another with the same text.                                        *)
Intent == [req : Request, base : Nat, stamp : Nat, timed : BOOLEAN, shows : SUBSET Nat,
           torn : BOOLEAN, file : Nat]

CommitOf(i) == [req |-> i.req, base |-> i.base, stamp |-> i.stamp,
                timed |-> i.timed, shows |-> i.shows]

ASSUME NoIntentAssumption == NoIntent \notin Intent

Mode == {"ops", "cli", "batch"}

Step == {"idle", "receipt", "list", "read", "head", "build", "publish",
         "cas", "recheck", "complete", "aside"}

Call == [pc : Step, mode : Mode, req : Request, base : Nat,
         hand : Intent \cup {NoIntent}, recovering : BOOLEAN,
         todo : SUBSET Request, listed : SUBSET (Request \X Nat)]

(* `head()`: the published commit. *)
head == Len(branch)

ShowsAt(k) == IF k = 0 THEN {} ELSE branch[k].shows

(* `read_receipt`: the receipt of a request is a file of every snapshot    *)
(* from the commit that published it on.                                   *)
HasReceipt(r) == \E k \in DOMAIN branch : branch[k].req = r

(* The receipt's digest covers the base and the change set. *)
SameDigest(c, i) == c.base = i.base /\ c.stamp = i.stamp

(* Mutant: the digest is not compared. *)
ReceiptMatchesAnyDigest(i) == HasReceipt(i.req)

ReceiptMatches(i) == \E k \in DOMAIN branch : branch[k].req = i.req /\ SameDigest(branch[k], i)

Applied == {<<branch[k].req, branch[k].stamp>> : k \in DOMAIN branch}

(* The steps at which a process has a change set in hand. *)
Holding == {"publish", "cas", "recheck", "complete", "aside"}

IntentOf(r) == {i \in intents : i.req = r}

StaleOf(r) == {i \in stale : i.req = r}

-----------------------------------------------------------------------------
(* Initial state: `mem init` made the root commit, nobody is working.      *)

(* A process between requests. *)
Rest ==
    [pc |-> "idle", mode |-> "cli", req |-> CHOOSE r \in Request : TRUE,
     base |-> 0, hand |-> NoIntent, recovering |-> FALSE, todo |-> {},
     listed |-> {}]

Init ==
    /\ branch = <<>>
    /\ intents = {}
    /\ stale = {}
    /\ call = [p \in Proc |-> Rest]
    /\ clock = 0
    /\ faults = 0
    /\ acked = {}
    /\ written = {}

-----------------------------------------------------------------------------
(* Control of one process *)

At(p, step) == call[p].pc = step

Goto(p, step) == call' = [call EXCEPT ![p].pc = step]

(* The request ends, with an error unless the caller is told otherwise.    *)
Return(p) == call' = [call EXCEPT ![p] = Rest]

(* `Err(Error::Conflict)` out of publish: recovery sets the intent aside   *)
(* and goes on, everybody else reports it.                                 *)
Conflict(p) == IF call[p].recovering THEN Goto(p, "aside") ELSE Return(p)

(* `Ok(receipt)` out of publish. *)
PublishOk(p) == Goto(p, "complete")

(* The caller is told that the change set in hand is published. *)
Acknowledge(p) ==
    /\ Return(p)
    /\ acked' = acked \cup {<<call[p].hand.req, call[p].hand.stamp>>}

-----------------------------------------------------------------------------
(* request_change and cmd_change *)

(* A request arrives.  request_change first looks for a receipt, cmd_change *)
(* goes straight to recovery, a batch straight to its base.                *)
Begin(p, mode, r) ==
    /\ At(p, "idle")
    /\ (mode = "batch") <=> (r \in BatchReq)
    /\ call' = [call EXCEPT ![p] = [Rest EXCEPT
                    !.mode = mode,
                    !.req = r,
                    !.pc = CASE mode = "ops" -> "receipt"
                             [] mode = "cli" -> "list"
                             [] mode = "batch" -> "head"]]
    /\ UNCHANGED <<branch, intents, stale, clock, faults, acked, written>>

(* ops.rs: a request id with a receipt at the head is answered at once.    *)
ReceiptCheck(p) ==
    /\ At(p, "receipt")
    /\ \/ \E k \in DOMAIN branch :
             /\ branch[k].req = call[p].req
             /\ Return(p)
             /\ acked' = acked \cup {<<branch[k].req, branch[k].stamp>>}
       \/ /\ ~HasReceipt(call[p].req)
          /\ Goto(p, "list")
          /\ UNCHANGED acked
    /\ UNCHANGED <<branch, intents, stale, clock, faults, written>>

-----------------------------------------------------------------------------
(* recover_in_dir *)

ListIntents(p) ==
    /\ At(p, "list")
    /\ call' = [call EXCEPT ![p].pc = "read", ![p].recovering = TRUE,
                            ![p].todo = {i.req : i \in intents},
                            ![p].listed = {<<i.req, i.file>> : i \in intents}]
    /\ UNCHANGED <<branch, intents, stale, clock, faults, acked, written>>

(* The listed files in the order of their names. *)
NextListed(p, r) == r \in call[p].todo /\ \A other \in call[p].todo : r <= other

(* Mutant: a file that no longer parses is skipped. *)
ReadIntentSkippingTorn(p) ==
    /\ At(p, "read")
    /\ \E i \in intents :
          /\ NextListed(p, i.req)
          /\ call' = [call EXCEPT ![p].pc = IF i.torn THEN "read" ELSE "publish",
                                  ![p].hand = i, ![p].todo = @ \ {i.req}]
    /\ UNCHANGED <<branch, intents, stale, clock, faults, acked, written>>

(* A file that no longer parses is set aside, any other is published.      *)
ReadIntent(p) ==
    /\ At(p, "read")
    /\ \E i \in intents :
          /\ NextListed(p, i.req)
          /\ call' = [call EXCEPT ![p].pc = IF i.torn THEN "aside" ELSE "publish",
                                  ![p].hand = i, ![p].todo = @ \ {i.req}]
    /\ UNCHANGED <<branch, intents, stale, clock, faults, acked, written>>

(* Somebody else completed the intent or set it aside: `std::fs::read`     *)
(* fails, recovery and the request with it.                                *)
IntentGone(p) ==
    /\ At(p, "read")
    /\ \E r \in call[p].todo : NextListed(p, r) /\ IntentOf(r) = {}
    /\ Return(p)
    /\ UNCHANGED <<branch, intents, stale, clock, faults, acked, written>>

RecoveryDone(p) ==
    /\ At(p, "read")
    /\ call[p].todo = {}
    /\ call' = [call EXCEPT ![p].pc = "head", ![p].recovering = FALSE]
    /\ UNCHANGED <<branch, intents, stale, clock, faults, acked, written>>

(* Mutant: the intent is deleted, not renamed. *)
SetAsideDeletes(p) ==
    /\ At(p, "aside")
    /\ Goto(p, "read")
    /\ intents' = intents \ IntentOf(call[p].hand.req)
    /\ UNCHANGED <<branch, stale, clock, faults, acked, written>>

(* Mutant: the intent is copied, not renamed. *)
SetAsideCopies(p) ==
    /\ At(p, "aside")
    /\ Goto(p, "read")
    /\ stale' = (stale \ StaleOf(call[p].hand.req)) \cup IntentOf(call[p].hand.req)
    /\ UNCHANGED <<branch, intents, clock, faults, acked, written>>

(* set_aside renames whatever now has the name, over an older .stale file; *)
(* without such a file the rename fails and recovery stops.                *)
SetAside(p) ==
    /\ At(p, "aside")
    /\ LET r == call[p].hand.req IN
       IF IntentOf(r) = {}
       THEN /\ Return(p)
            /\ UNCHANGED <<intents, stale>>
       ELSE /\ Goto(p, "read")
            /\ stale' = (stale \ StaleOf(r)) \cup IntentOf(r)
            /\ intents' = intents \ IntentOf(r)
    /\ UNCHANGED <<branch, clock, faults, acked, written>>

-----------------------------------------------------------------------------
(* apply_against_base, and the build of a batch *)

(* Mutant: the base is the parent of the head. *)
TakeHeadParent(p) ==
    /\ At(p, "head")
    /\ call' = [call EXCEPT ![p].pc = "build", ![p].base = head - 1]
    /\ UNCHANGED <<branch, intents, stale, clock, faults, acked, written>>

TakeHead(p) ==
    /\ At(p, "head")
    /\ call' = [call EXCEPT ![p].pc = "build", ![p].base = head]
    /\ UNCHANGED <<branch, intents, stale, clock, faults, acked, written>>

(* `mem change` puts the time of the request into the fact, so it never    *)
(* builds the same text twice.  memory_request_change dates every fact     *)
(* alike and `mem index` writes no time: called again on the same base     *)
(* they may build what is already in a commit, in an intent or in another  *)
(* process's hands.  (A forget has the time in it, a request id may come   *)
(* with other arguments: they also may not.)                               *)
Rebuilds(p) ==
    LET hands == {call[q].hand : q \in {q \in Proc : call[q].pc \in Holding}}
        kept == {branch[k] : k \in DOMAIN branch} \cup intents \cup stale \cup hands
    IN  IF call[p].mode = "cli" THEN {}
        ELSE {b.stamp : b \in {b \in kept : /\ b.req = call[p].req
                                           /\ b.base = call[p].base
                                           /\ ~b.timed}}

(* The change set computed from the snapshot `base`.                       *)
ChangeSet(p, s) ==
    [req |-> call[p].req, base |-> call[p].base, stamp |-> s,
     timed |-> call[p].mode = "cli",
     shows |-> ShowsAt(call[p].base) \cup {s},
     torn |-> FALSE, file |-> clock + 1]

(* A change writes its change set as the intent, over any older intent     *)
(* with its request id.                                                    *)
Build(p) ==
    /\ At(p, "build")
    /\ call[p].mode # "batch"
    /\ clock < MaxBuilds
    /\ clock' = clock + 1
    /\ \E s \in Rebuilds(p) \cup {clock + 1} :
       LET i == ChangeSet(p, s)
       IN  /\ call' = [call EXCEPT ![p].pc = "publish", ![p].hand = i]
           /\ intents' = (intents \ IntentOf(i.req)) \cup {i}
           /\ written' = written \cup {i.req}
    /\ UNCHANGED <<branch, stale, faults, acked>>

(* A batch publishes its change set without an intent.                     *)
BuildBatch(p) ==
    /\ At(p, "build")
    /\ call[p].mode = "batch"
    /\ clock < MaxBuilds
    /\ clock' = clock + 1
    /\ \E s \in Rebuilds(p) \cup {clock + 1} :
       call' = [call EXCEPT ![p].pc = "publish", ![p].hand = ChangeSet(p, s)]
    /\ UNCHANGED <<branch, intents, stale, faults, acked, written>>

(* The snapshot has no such fact or entity, or the change set is too big:  *)
(* the request fails before anything is written.  A batch may also find    *)
(* that there is nothing to publish.                                       *)
BuildFails(p) ==
    /\ At(p, "build")
    /\ Return(p)
    /\ UNCHANGED <<branch, intents, stale, clock, faults, acked, written>>

-----------------------------------------------------------------------------
(* GitRepo::publish on the change set in hand *)

(* The candidate has an empty predicate or statement, a duplicate fact id, *)
(* a file over its limits...                                               *)
ValidatorRefuses(i) == i.req \in Refused

(* Mutant: the receipt is not looked up, only the base is compared. *)
PublishCheckWithoutReceipt(p) ==
    /\ At(p, "publish")
    /\ IF head # call[p].hand.base THEN Conflict(p) ELSE Goto(p, "cas")
    /\ UNCHANGED <<branch, intents, stale, clock, faults, acked, written>>

(* `head()` and the receipt read from that head. *)
PublishCheck(p) ==
    /\ At(p, "publish")
    /\ LET i == call[p].hand IN
       \/ /\ HasReceipt(i.req)
          /\ ReceiptMatches(i)
          /\ PublishOk(p)
       \/ /\ HasReceipt(i.req)
          /\ ~ReceiptMatches(i)
          /\ Conflict(p)
       \/ /\ ~HasReceipt(i.req)
          /\ head # i.base
          /\ Conflict(p)
       \/ /\ ~HasReceipt(i.req)
          /\ head = i.base
          /\ ValidatorRefuses(i)
          /\ Return(p)
       \/ /\ ~HasReceipt(i.req)
          /\ head = i.base
          /\ ~ValidatorRefuses(i)
          /\ Goto(p, "cas")
    /\ UNCHANGED <<branch, intents, stale, clock, faults, acked, written>>

(* Mutant: `git update-ref refs/heads/memory <candidate>`, no old value. *)
SwapWithoutCompare(p) ==
    /\ At(p, "cas")
    /\ branch' = Append(branch, CommitOf(call[p].hand))
    /\ PublishOk(p)
    /\ UNCHANGED <<intents, stale, clock, faults, acked, written>>

(* `git update-ref refs/heads/memory <candidate> <base>`: the candidate is *)
(* the tree of base with the change set's files and the receipt in it.     *)
CompareAndSwap(p) ==
    /\ At(p, "cas")
    /\ LET i == call[p].hand IN
       IF head = i.base
       THEN /\ branch' = Append(branch, CommitOf(i))
            /\ PublishOk(p)
       ELSE /\ Goto(p, "recheck")
            /\ UNCHANGED branch
    /\ UNCHANGED <<intents, stale, clock, faults, acked, written>>

(* update-ref can fail on its own, for instance on another writer's lock.  *)
SwapFails(p) ==
    /\ At(p, "cas")
    /\ faults < MaxFaults
    /\ faults' = faults + 1
    /\ Goto(p, "recheck")
    /\ UNCHANGED <<branch, intents, stale, clock, acked, written>>

(* After a failed swap: a head that moved is a conflict, and so is one     *)
(* that cannot be read (for what made the swap fail); else the error of    *)
(* the swap is returned.                                                   *)
Recheck(p) ==
    /\ At(p, "recheck")
    /\ \/ Conflict(p)
       \/ head = call[p].hand.base /\ Return(p)
    /\ UNCHANGED <<branch, intents, stale, clock, faults, acked, written>>

(* complete_intent removes the file, whichever build it holds; a missing   *)
(* file is fine.  Then recovery goes on, a change is answered.             *)
CompleteIntent(p) ==
    /\ At(p, "complete")
    /\ call[p].mode # "batch"
    /\ intents' = intents \ IntentOf(call[p].hand.req)
    /\ IF call[p].recovering
       THEN /\ Goto(p, "read")
            /\ UNCHANGED acked
       ELSE Acknowledge(p)
    /\ UNCHANGED <<branch, stale, clock, faults, written>>

(* A publisher without an intent has nothing to remove. *)
AnswerBatch(p) ==
    /\ At(p, "complete")
    /\ call[p].mode = "batch"
    /\ Acknowledge(p)
    /\ UNCHANGED <<branch, intents, stale, clock, faults, written>>

-----------------------------------------------------------------------------
(* Faults *)

(* A process is killed, or any of its file or Git calls fails and `?`      *)
(* returns the error: either way it stops between two steps.               *)
Stop(p) ==
    /\ ~At(p, "idle")
    /\ faults < MaxFaults
    /\ faults' = faults + 1
    /\ Return(p)
    /\ UNCHANGED <<branch, intents, stale, clock, acked, written>>

(* write_atomic renames without syncing: a power loss can leave any intent *)
(* under its name with its text incomplete.                                *)
PowerLoss ==
    /\ faults < MaxFaults
    /\ faults' = faults + 1
    /\ call' = [p \in Proc |-> Rest]
    /\ \E lost \in SUBSET intents :
          intents' = (intents \ lost) \cup {[i EXCEPT !.torn = TRUE] : i \in lost}
    /\ UNCHANGED <<branch, stale, clock, acked, written>>

-----------------------------------------------------------------------------
(* Specification *)

Recovery(p) ==
    \/ ListIntents(p) \/ ReadIntent(p) \/ IntentGone(p) \/ RecoveryDone(p) \/ SetAside(p)

Publish(p) ==
    \/ PublishCheck(p) \/ CompareAndSwap(p) \/ Recheck(p)
    \/ CompleteIntent(p) \/ AnswerBatch(p)

(* The steps a running process takes by itself. *)
Run(p) ==
    \/ ReceiptCheck(p) \/ Recovery(p) \/ TakeHead(p)
    \/ Build(p) \/ BuildBatch(p) \/ BuildFails(p) \/ Publish(p)

Next ==
    \/ PowerLoss
    \/ \E p \in Proc :
          \/ \E mode \in Mode, r \in Request : Begin(p, mode, r)
          \/ Run(p)
          \/ SwapFails(p)
          \/ Stop(p)

Spec == Init /\ [][Next]_vars

(* A running process keeps running (the operating system schedules it) and *)
(* somebody keeps using `mem change`.  Nothing is assumed of faults.       *)
FairSpec ==
    /\ Spec
    /\ \A p \in Proc : WF_vars(Run(p))
    /\ SF_vars(\E p \in Proc, r \in ChangeReq : Begin(p, "cli", r))

-----------------------------------------------------------------------------
(* Properties *)

(* Every variable holds what its file, ref or local holds. *)
TypeOK ==
    /\ branch \in Seq(Commit)
    /\ intents \subseteq Intent
    /\ stale \subseteq Intent
    /\ call \in [Proc -> Call]
    /\ clock \in Nat
    /\ faults \in Nat
    /\ acked \subseteq Request \X Nat
    /\ written \subseteq Request

(* README "a concurrent writer can never overwrite another's commit": every *)
(* published snapshot shows all its parent showed and one build more,      *)
(* though each was computed from a snapshot read long before.              *)
NoLostUpdate ==
    \A k \in DOMAIN branch :
        /\ branch[k].base = k - 1
        /\ branch[k].shows = ShowsAt(k - 1) \cup {branch[k].stamp}

(* README "repeating it replays the stored receipt instead of applying it  *)
(* twice": one request id, one commit, however retries, recovery of its    *)
(* intent by others and its own publication interleave.                    *)
AtMostOnce ==
    \A j, k \in DOMAIN branch : branch[j].req = branch[k].req => j = k

(* What a caller was told succeeded is in the published history, as the    *)
(* very build that it was told about.                                      *)
AckedIsPublished == acked \subseteq Applied

(* change.rs "so an interrupted one is never lost": a request whose intent *)
(* was ever written is pending, published or kept as .stale.               *)
NeverLost ==
    \A r \in written : HasReceipt(r) \/ IntentOf(r) # {} \/ StaleOf(r) # {}

(* README "finished (or set aside as stale) before the next change runs":  *)
(* a process past recovery left none of the intents it listed in place.    *)
RecoveredBeforeChange ==
    \A p \in Proc : ~call[p].recovering =>
        \A i \in intents : <<i.req, i.file>> \notin call[p].listed

(* What a running process knows of the history it will meet.               *)

(* Everything ever built, wherever it is kept, was computed from a         *)
(* published snapshot.                                                     *)
IsBuild(i) ==
    /\ i.stamp \in 1..clock
    /\ i.file \in 1..clock
    /\ i.base <= head
    /\ i.shows = ShowsAt(i.base) \cup {i.stamp}

(* A writer about to swap found no receipt: if the head still is its base, *)
(* there still is none.  A writer past a successful publish is in the      *)
(* history.                                                                *)
Coherent(c) ==
    /\ c.pc = "build" => c.base <= head
    /\ c.pc \in Holding => c.hand \in Intent /\ IsBuild(c.hand)
    /\ c.pc = "cas" /\ head = c.hand.base => ~HasReceipt(c.hand.req)
    /\ c.pc = "complete" => <<c.hand.req, c.hand.stamp>> \in Applied

StampsBounded ==
    /\ clock <= MaxBuilds
    /\ \A k \in DOMAIN branch : branch[k].stamp \in 1..clock

(* AtMostOnce, NoLostUpdate, AckedIsPublished and NeverLost, strengthened  *)
(* to what every step keeps: whatever waits to be swapped, recovered or    *)
(* completed agrees with the history it will meet.                         *)
IndInv ==
    /\ TypeOK
    /\ StampsBounded
    /\ NoLostUpdate
    /\ AtMostOnce
    /\ AckedIsPublished
    /\ NeverLost
    /\ \A i \in intents \cup stale : IsBuild(i)
    /\ \A p \in Proc : Coherent(call[p])

(* RecoveredBeforeChange, strengthened: a listed intent that is still there *)
(* is on the list of a process that is recovering, or in its hands.        *)
ListedInv ==
    \A p \in Proc :
        /\ \A entry \in call[p].listed : entry[2] <= clock
        /\ \A i \in intents : <<i.req, i.file>> \in call[p].listed =>
              /\ call[p].recovering
              /\ \/ i.req \in call[p].todo
                 \/ call[p].pc \in Holding /\ call[p].hand.req = i.req

(* The whole layer, seen by its callers, is one atomic memory.             *)
Memory == INSTANCE AtomicMemory WITH
              Stamp <- 1..MaxBuilds, applied <- Applied, contents <- ShowsAt(head)

ImplementsMemory == Memory!AbsSpec

(* change.rs "Finish or set aside every intent in the durable intents      *)
(* directory": an intent left behind is dealt with, as long as changes     *)
(* keep being made.                                                        *)
PendingResolved ==
    \A r \in ChangeReq : (IntentOf(r) # {}) ~> (IntentOf(r) = {})
=============================================================================
