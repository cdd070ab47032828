-------------------------- MODULE PublicationProofs --------------------------
(* Proofs about Publication, for every set of processes and requests. *)
EXTENDS Publication, TLAPS

USE RequestAssumption, BoundAssumption, NoIntentAssumption

LEMMA RestIsCall ==
    Rest \in Call
  <1>1. (CHOOSE r \in Request : TRUE) \in Request
    BY DEF Request
  <1>. QED  BY <1>1 DEF Rest, Call, Step, Mode

LEMMA ShowsType ==
    ASSUME TypeOK, NEW k \in Nat, k <= head
    PROVE  ShowsAt(k) \in SUBSET Nat
  <1>1. CASE k = 0
    BY <1>1 DEF ShowsAt
  <1>2. CASE k # 0
    <2>1. branch \in Seq(Commit) /\ k \in 1..Len(branch)
      BY <1>2 DEF TypeOK, head
    <2>2. branch[k] \in Commit
      BY <2>1
    <2>. QED  BY <1>2, <2>2 DEF ShowsAt, Commit
  <1>. QED  BY <1>1, <1>2

(* A process at rest holds nothing that could disagree with the history. *)
LEMMA RestIsCoherent ==
    Coherent(Rest)
  BY DEF Coherent, Rest, Holding

LEMMA InitInv == Init => IndInv
  <1> SUFFICES ASSUME Init PROVE IndInv
    OBVIOUS
  <1>1. TypeOK
    BY RestIsCall DEF Init, TypeOK
  <1>2. \A p \in Proc : Coherent(call[p])
    BY RestIsCoherent DEF Init
  <1>3. branch = <<>> /\ intents = {} /\ stale = {} /\ acked = {} /\ written = {} /\ clock = 0
    BY DEF Init
  <1>. QED
    BY <1>1, <1>2, <1>3 DEF IndInv, StampsBounded, NoLostUpdate, AtMostOnce,
         AckedIsPublished, NeverLost

(* Most steps move one process and touch nothing that is shared. *)
LEMMA LocalStep ==
    ASSUME IndInv, NEW p \in Proc, NEW c \in Call,
           call' = [call EXCEPT ![p] = c],
           Coherent(c),
           faults' \in Nat,
           UNCHANGED <<branch, intents, stale, clock, acked, written>>
    PROVE  IndInv'
  <1>1. TypeOK'
    BY DEF IndInv, TypeOK
  <1>2. \A q \in Proc : Coherent(call[q])'
    <2> SUFFICES ASSUME NEW q \in Proc PROVE Coherent(call[q])'
      OBVIOUS
    <2>1. Coherent(call'[q])
      BY DEF IndInv, TypeOK
    <2>. QED
      BY <2>1 DEF Coherent, IsBuild, HasReceipt, Applied, ShowsAt, head
  <1>3. \A i \in intents' \cup stale' : IsBuild(i)'
    BY DEF IndInv, IsBuild, ShowsAt, head
  <1>. QED
    BY <1>1, <1>2, <1>3 DEF IndInv, StampsBounded, NoLostUpdate, AtMostOnce,
         AckedIsPublished, Applied, NeverLost, HasReceipt, IntentOf, StaleOf, ShowsAt

LEMMA CallTyped == ASSUME IndInv, NEW p \in Proc PROVE call[p] \in Call
  BY DEF IndInv, TypeOK

LEMMA GotoIsCall ==
    ASSUME IndInv, NEW p \in Proc, NEW step \in Step, Goto(p, step)
    PROVE  call' \in [Proc -> Call]
  <1>1. [call[p] EXCEPT !.pc = step] \in Call
    BY CallTyped DEF Call
  <1>. QED  BY <1>1 DEF Goto, IndInv, TypeOK

LEMMA ReturnStep ==
    ASSUME IndInv, NEW p \in Proc, Return(p),
           faults' \in Nat,
           UNCHANGED <<branch, intents, stale, clock, acked, written>>
    PROVE  IndInv'
  <1>1. Rest \in Call /\ Coherent(Rest)
    BY RestIsCall, RestIsCoherent
  <1>. QED  BY <1>1, LocalStep DEF Return

(* A process moves on to a step that requires nothing new of it. *)
LEMMA GotoStep ==
    ASSUME IndInv, NEW p \in Proc, NEW step \in Step, Goto(p, step),
           step \in Holding => call[p].pc \in Holding,
           step \notin {"build", "complete"},
           step = "cas" => ~HasReceipt(call[p].hand.req),
           faults' \in Nat,
           UNCHANGED <<branch, intents, stale, clock, acked, written>>
    PROVE  IndInv'
  <1> DEFINE c == [call[p] EXCEPT !.pc = step]
  <1>1. c \in Call
    BY CallTyped DEF Call
  <1>2. c.pc = step /\ c.hand = call[p].hand
    BY CallTyped DEF Call
  <1>3. Coherent(call[p])
    BY DEF IndInv
  <1>4. Coherent(c)
    BY <1>2, <1>3 DEF Coherent
  <1>5. call' = [call EXCEPT ![p] = c]
    BY DEF Goto
  <1> HIDE DEF c
  <1>. QED  BY <1>1, <1>4, <1>5, LocalStep

LEMMA ConflictStep ==
    ASSUME IndInv, NEW p \in Proc, Conflict(p),
           call[p].pc \in Holding, faults' \in Nat,
           UNCHANGED <<branch, intents, stale, clock, acked, written>>
    PROVE  IndInv'
  <1>1. CASE call[p].recovering
    BY <1>1, GotoStep DEF Conflict, Step, Holding
  <1>2. CASE ~call[p].recovering
    BY <1>2, ReturnStep DEF Conflict
  <1>. QED  BY <1>1, <1>2

-----------------------------------------------------------------------------
(* One lemma per action *)

LEMMA BeginInv ==
    ASSUME IndInv, NEW p \in Proc, NEW mode \in Mode, NEW r \in Request, Begin(p, mode, r)
    PROVE  IndInv'
  <1> DEFINE pc == CASE mode = "ops" -> "receipt"
                     [] mode = "cli" -> "list"
                     [] mode = "batch" -> "head"
             c == [Rest EXCEPT !.mode = mode, !.req = r, !.pc = pc]
  <1>1. pc \in {"receipt", "list", "head"}
    BY DEF Mode
  <1>2. call' = [call EXCEPT ![p] = c]
    BY DEF Begin
  <1>3. Rest \in Call
    BY RestIsCall
  <1> HIDE DEF pc
  <1>4. c \in Call
    BY <1>1, <1>3 DEF Call, Step
  <1>5. Coherent(c)
    BY <1>1, <1>3 DEF Coherent, Holding, Call
  <1>6. faults' \in Nat
    BY DEF Begin, IndInv, TypeOK
  <1> HIDE DEF c
  <1>. QED  BY <1>2, <1>4, <1>5, <1>6, LocalStep DEF Begin

(* Telling a caller what the history shows. *)
LEMMA AcknowledgeStep ==
    ASSUME IndInv, NEW p \in Proc, NEW a \in Applied,
           Return(p), acked' = acked \cup {a},
           UNCHANGED <<branch, stale, clock, faults, written>>,
           intents' \subseteq intents,
           \A r \in written : IntentOf(r) # {} => IntentOf(r)' # {} \/ HasReceipt(r)
    PROVE  IndInv'
  <1>1. \A q \in Proc : call'[q] = call[q] \/ call'[q] = Rest
    BY DEF Return, IndInv, TypeOK
  <1>2. a \in Request \X Nat
    <2>1. PICK k \in DOMAIN branch : a = <<branch[k].req, branch[k].stamp>>
      BY DEF Applied
    <2>2. branch[k] \in Commit
      BY <2>1 DEF IndInv, TypeOK
    <2>. QED  BY <2>1, <2>2 DEF Commit
  <1>3. TypeOK'
    BY <1>2, RestIsCall DEF IndInv, TypeOK, Return
  <1>4. \A q \in Proc : Coherent(call[q])'
    <2> SUFFICES ASSUME NEW q \in Proc PROVE Coherent(call[q])'
      OBVIOUS
    <2>1. Coherent(call'[q])
      BY <1>1, RestIsCoherent DEF IndInv
    <2>. QED
      BY <2>1 DEF Coherent, IsBuild, HasReceipt, Applied, ShowsAt, head
  <1>5. \A i \in intents' \cup stale' : IsBuild(i)'
    BY DEF IndInv, IsBuild, ShowsAt, head
  <1>6. NeverLost'
    BY DEF IndInv, NeverLost, HasReceipt, StaleOf
  <1>. QED
    BY <1>3, <1>4, <1>5, <1>6 DEF IndInv, StampsBounded, NoLostUpdate, AtMostOnce,
         AckedIsPublished, Applied, ShowsAt

LEMMA ReceiptCheckInv ==
    ASSUME IndInv, NEW p \in Proc, ReceiptCheck(p)
    PROVE  IndInv'
  <1>1. CASE ~HasReceipt(call[p].req) /\ Goto(p, "list") /\ UNCHANGED acked
    <2>1. faults' \in Nat
      BY DEF ReceiptCheck, IndInv, TypeOK
    <2>. QED  BY <1>1, <2>1, GotoStep DEF ReceiptCheck, Step, Holding
  <1>2. ASSUME NEW k \in DOMAIN branch, Return(p),
               acked' = acked \cup {<<branch[k].req, branch[k].stamp>>}
        PROVE  IndInv'
    <2>1. <<branch[k].req, branch[k].stamp>> \in Applied
      BY DEF Applied
    <2>. QED
      BY <1>2, <2>1, AcknowledgeStep DEF ReceiptCheck, IntentOf
  <1>. QED  BY <1>1, <1>2 DEF ReceiptCheck

LEMMA ListIntentsInv ==
    ASSUME IndInv, NEW p \in Proc, ListIntents(p)
    PROVE  IndInv'
  <1> DEFINE names == {i.req : i \in intents}
             files == {<<i.req, i.file>> : i \in intents}
             c == [call[p] EXCEPT !.pc = "read", !.recovering = TRUE,
                                  !.todo = names, !.listed = files]
  <1>1. call' = [call EXCEPT ![p] = c]
    BY DEF ListIntents
  <1>2. \A i \in intents : i.req \in Request /\ i.file \in Nat
    BY DEF IndInv, TypeOK, Intent
  <1>3. c \in Call
    <2>1. names \in SUBSET Request /\ files \in SUBSET (Request \X Nat)
      BY <1>2
    <2> HIDE DEF names, files
    <2>. QED  BY <2>1, CallTyped DEF Call, Step
  <1>4. Coherent(c)
    BY CallTyped DEF Coherent, Holding, Call
  <1>5. faults' \in Nat
    BY DEF ListIntents, IndInv, TypeOK
  <1> HIDE DEF c
  <1>. QED  BY <1>1, <1>3, <1>4, <1>5, LocalStep DEF ListIntents

LEMMA ReadIntentInv ==
    ASSUME IndInv, NEW p \in Proc, ReadIntent(p)
    PROVE  IndInv'
  <1>1. PICK i \in intents : call' = [call EXCEPT
            ![p].pc = IF i.torn THEN "aside" ELSE "publish",
            ![p].hand = i, ![p].todo = @ \ {i.req}]
    BY DEF ReadIntent
  <1> DEFINE c == [call[p] EXCEPT !.pc = IF i.torn THEN "aside" ELSE "publish",
                                  !.hand = i, !.todo = @ \ {i.req}]
  <1>2. call' = [call EXCEPT ![p] = c]
    BY <1>1
  <1>3. i \in Intent /\ IsBuild(i)
    BY DEF IndInv, TypeOK
  <1>4. c \in Call
    BY <1>3, CallTyped DEF Call, Step
  <1>5. c.pc \in {"aside", "publish"} /\ c.hand = i
    BY CallTyped DEF Call
  <1>6. Coherent(c)
    BY <1>3, <1>5 DEF Coherent
  <1>7. faults' \in Nat
    BY DEF ReadIntent, IndInv, TypeOK
  <1> HIDE DEF c
  <1>. QED  BY <1>2, <1>4, <1>6, <1>7, LocalStep DEF ReadIntent

LEMMA IntentGoneInv ==
    ASSUME IndInv, NEW p \in Proc, IntentGone(p)
    PROVE  IndInv'
  <1>1. faults' \in Nat
    BY DEF IntentGone, IndInv, TypeOK
  <1>. QED  BY <1>1, ReturnStep DEF IntentGone

LEMMA RecoveryDoneInv ==
    ASSUME IndInv, NEW p \in Proc, RecoveryDone(p)
    PROVE  IndInv'
  <1> DEFINE c == [call[p] EXCEPT !.pc = "head", !.recovering = FALSE]
  <1>1. call' = [call EXCEPT ![p] = c]
    BY DEF RecoveryDone
  <1>2. c \in Call
    BY CallTyped DEF Call, Step
  <1>3. Coherent(c)
    BY CallTyped DEF Coherent, Holding, Call
  <1>4. faults' \in Nat
    BY DEF RecoveryDone, IndInv, TypeOK
  <1> HIDE DEF c
  <1>. QED  BY <1>1, <1>2, <1>3, <1>4, LocalStep DEF RecoveryDone

LEMMA SetAsideInv ==
    ASSUME IndInv, NEW p \in Proc, SetAside(p)
    PROVE  IndInv'
  <1>0. PICK r : r = call[p].hand.req
    OBVIOUS
  <1>1. faults' \in Nat
    BY DEF SetAside, IndInv, TypeOK
  <1>2. CASE IntentOf(r) = {}
    <2>1. Return(p) /\ UNCHANGED <<intents, stale>>
      BY <1>0, <1>2 DEF SetAside
    <2>. QED  BY <1>1, <2>1, ReturnStep DEF SetAside
  <1>3. CASE IntentOf(r) # {}
    <2>1. /\ Goto(p, "read")
          /\ stale' = (stale \ StaleOf(r)) \cup IntentOf(r)
          /\ intents' = intents \ IntentOf(r)
          /\ UNCHANGED <<branch, clock, faults, acked, written>>
      BY <1>0, <1>3 DEF SetAside
    <2>2. TypeOK'
      <3>1. IntentOf(r) \subseteq Intent
        BY DEF IndInv, TypeOK, IntentOf
      <3>2. call' \in [Proc -> Call]
        BY <2>1, GotoIsCall DEF Step
      <3>. QED  BY <2>1, <3>1, <3>2 DEF IndInv, TypeOK
    <2>3. \A q \in Proc : Coherent(call[q])'
      <3> SUFFICES ASSUME NEW q \in Proc PROVE Coherent(call[q])'
        OBVIOUS
      <3>1. Coherent(call'[q])
        <4>1. CASE q = p
          <5>1. call'[p].pc = "read"
            BY <2>1, CallTyped DEF Goto, IndInv, TypeOK, Call
          <5>. QED  BY <4>1, <5>1 DEF Coherent, Holding
        <4>2. CASE q # p
          BY <2>1, <4>2 DEF Goto, IndInv, TypeOK
        <4>. QED  BY <4>1, <4>2
      <3>. QED
        BY <2>1, <3>1 DEF Coherent, IsBuild, HasReceipt, Applied, ShowsAt, head
    <2>4. \A i \in intents' \cup stale' : IsBuild(i)'
      <3>1. intents' \cup stale' \subseteq intents \cup stale
        BY <2>1 DEF IntentOf
      <3>. QED  BY <2>1, <3>1 DEF IndInv, IsBuild, ShowsAt, head
    <2>5. NeverLost'
      <3> SUFFICES ASSUME NEW w \in written'
                   PROVE  (HasReceipt(w) \/ IntentOf(w) # {} \/ StaleOf(w) # {})'
        BY DEF NeverLost
      <3>1. HasReceipt(w) \/ IntentOf(w) # {} \/ StaleOf(w) # {}
        BY <2>1 DEF IndInv, NeverLost
      <3>2. CASE w = r
        <4>1. StaleOf(r)' # {}
          BY <1>3, <2>1 DEF StaleOf, IntentOf
        <4>. QED  BY <3>2, <4>1
      <3>3. CASE w # r
        <4>1. IntentOf(w)' = IntentOf(w)
          BY <2>1, <3>3 DEF IntentOf
        <4>2. StaleOf(w) \subseteq StaleOf(w)'
          BY <2>1, <3>3 DEF StaleOf, IntentOf
        <4>. QED  BY <2>1, <3>1, <4>1, <4>2 DEF HasReceipt
      <3>. QED  BY <3>2, <3>3
    <2>. QED
      BY <2>1, <2>2, <2>3, <2>4, <2>5 DEF IndInv, StampsBounded, NoLostUpdate,
           AtMostOnce, AckedIsPublished, Applied, ShowsAt
  <1>. QED  BY <1>2, <1>3

LEMMA TakeHeadInv ==
    ASSUME IndInv, NEW p \in Proc, TakeHead(p)
    PROVE  IndInv'
  <1> DEFINE c == [call[p] EXCEPT !.pc = "build", !.base = head]
  <1>1. call' = [call EXCEPT ![p] = c]
    BY DEF TakeHead
  <1>2. head \in Nat
    BY DEF IndInv, TypeOK, head
  <1>3. c \in Call
    BY <1>2, CallTyped DEF Call, Step
  <1>4. Coherent(c)
    BY <1>2, CallTyped DEF Coherent, Holding, Call
  <1>5. faults' \in Nat
    BY DEF TakeHead, IndInv, TypeOK
  <1> HIDE DEF c
  <1>. QED  BY <1>1, <1>3, <1>4, <1>5, LocalStep DEF TakeHead

(* What a build repeats was built before. *)
LEMMA RebuildsAreBuilds ==
    ASSUME IndInv, NEW p \in Proc
    PROVE  Rebuilds(p) \subseteq 1..clock
  <1>1. \A k \in DOMAIN branch : branch[k].stamp \in 1..clock
    BY DEF IndInv, StampsBounded
  <1>2. \A i \in intents \cup stale : i.stamp \in 1..clock
    BY DEF IndInv, IsBuild
  <1>3. \A q \in Proc : call[q].pc \in Holding => call[q].hand.stamp \in 1..clock
    BY DEF IndInv, Coherent, IsBuild
  <1>. QED  BY <1>1, <1>2, <1>3 DEF Rebuilds

(* A build has a stamp nobody has seen or that of the same text, and shows *)
(* what its base shows.                                                    *)
LEMMA BuildInv ==
    ASSUME IndInv, NEW p \in Proc, Build(p) \/ BuildBatch(p)
    PROVE  IndInv'
  <1>0. PICK s \in Rebuilds(p) \cup {clock + 1} :
          LET i == [req |-> call[p].req, base |-> call[p].base, stamp |-> s,
                    timed |-> call[p].mode = "cli",
                    shows |-> ShowsAt(call[p].base) \cup {s},
                    torn |-> FALSE, file |-> clock + 1]
          IN  /\ call' = [call EXCEPT ![p].pc = "publish", ![p].hand = i]
              /\ \/ UNCHANGED <<intents, written>>
                 \/ /\ intents' = (intents \ IntentOf(i.req)) \cup {i}
                    /\ written' = written \cup {i.req}
    BY DEF Build, BuildBatch, ChangeSet
  <1>1. PICK i : i = [req |-> call[p].req, base |-> call[p].base, stamp |-> s,
                      timed |-> call[p].mode = "cli",
                      shows |-> ShowsAt(call[p].base) \cup {s},
                      torn |-> FALSE, file |-> clock + 1]
    OBVIOUS
  <1>2. /\ At(p, "build") /\ clock < MaxBuilds /\ clock' = clock + 1
        /\ call' = [call EXCEPT ![p].pc = "publish", ![p].hand = i]
        /\ UNCHANGED <<branch, stale, faults, acked>>
    BY <1>0, <1>1 DEF Build, BuildBatch
  <1>3. \/ UNCHANGED <<intents, written>>
        \/ /\ intents' = (intents \ IntentOf(i.req)) \cup {i}
           /\ written' = written \cup {i.req}
    BY <1>0, <1>1
  <1>4. /\ clock \in Nat /\ call[p] \in Call /\ call[p].base <= head
        /\ s \in 1..(clock + 1)
    <2>1. clock \in Nat /\ call[p] \in Call /\ call[p].base <= head
      BY <1>2, CallTyped DEF IndInv, TypeOK, Coherent, At
    <2>2. s \in 1..clock \/ s = clock + 1
      BY RebuildsAreBuilds
    <2>. QED  BY <2>1, <2>2
  <1>5. ShowsAt(call[p].base) \in SUBSET Nat
    BY <1>4, ShowsType DEF IndInv, Call
  <1>6. i \in Intent
    BY <1>1, <1>4, <1>5 DEF Intent, Call
  <1>7. IsBuild(i)'
    BY <1>1, <1>2, <1>4 DEF IsBuild, ShowsAt, head
  <1>8. TypeOK'
    <2>1. [call[p] EXCEPT !.pc = "publish", !.hand = i] \in Call
      BY <1>4, <1>6 DEF Call, Step
    <2>2. call' \in [Proc -> Call]
      BY <1>2, <2>1 DEF IndInv, TypeOK
    <2>3. i.req \in Request
      BY <1>6 DEF Intent
    <2>. QED  BY <1>2, <1>3, <1>6, <2>2, <2>3 DEF IndInv, TypeOK
  <1>9. ASSUME NEW j \in Intent, IsBuild(j)
        PROVE  IsBuild(j)'
    BY <1>2, <1>4, <1>9 DEF IsBuild, ShowsAt, head
  <1>10. \A j \in intents' \cup stale' : IsBuild(j)'
    BY <1>2, <1>3, <1>7, <1>9 DEF IndInv, TypeOK
  <1>11. \A q \in Proc : Coherent(call[q])'
    <2> SUFFICES ASSUME NEW q \in Proc PROVE Coherent(call[q])'
      OBVIOUS
    <2>1. CASE q = p
      <3>1. call'[p].pc = "publish" /\ call'[p].hand = i
        BY <1>2, <1>4 DEF IndInv, TypeOK, Call
      <3>. QED  BY <1>6, <1>7, <2>1, <3>1 DEF Coherent, IsBuild, ShowsAt, head
    <2>2. CASE q # p
      <3>1. PICK c : c = call[q]
        OBVIOUS
      <3>2. call'[q] = c /\ Coherent(c)
        BY <1>2, <2>2, <3>1 DEF IndInv, TypeOK
      <3>3. c.pc \in Holding => c.hand \in Intent /\ IsBuild(c.hand)'
        BY <1>9, <3>2 DEF Coherent
      <3>4. Coherent(c)'
        BY <1>2, <3>2, <3>3 DEF Coherent, HasReceipt, Applied, head
      <3>. QED  BY <3>2, <3>4
    <2>. QED  BY <2>1, <2>2
  <1>12. NeverLost'
    <2> SUFFICES ASSUME NEW w \in written'
                 PROVE  (HasReceipt(w) \/ IntentOf(w) # {} \/ StaleOf(w) # {})'
      BY DEF NeverLost
    <2>1. CASE w \in written /\ IntentOf(w) \subseteq IntentOf(w)'
      BY <1>2, <2>1 DEF IndInv, NeverLost, HasReceipt, StaleOf
    <2>2. CASE i \in intents' /\ w = i.req
      BY <2>2 DEF IntentOf
    <2>3. CASE w \in written /\ w # i.req
      BY <1>3, <2>1, <2>3 DEF IntentOf
    <2>. QED  BY <1>3, <2>1, <2>2, <2>3 DEF IntentOf
  <1>13. StampsBounded'
    BY <1>2, <1>4 DEF IndInv, StampsBounded
  <1>14. NoLostUpdate' /\ AtMostOnce' /\ AckedIsPublished'
    BY <1>2 DEF IndInv, NoLostUpdate, AtMostOnce, AckedIsPublished, Applied, ShowsAt
  <1>. QED
    BY <1>8, <1>10, <1>11, <1>12, <1>13, <1>14 DEF IndInv

LEMMA BuildFailsInv ==
    ASSUME IndInv, NEW p \in Proc, BuildFails(p)
    PROVE  IndInv'
  <1>1. faults' \in Nat
    BY DEF BuildFails, IndInv, TypeOK
  <1>. QED  BY <1>1, ReturnStep DEF BuildFails

LEMMA PublishCheckInv ==
    ASSUME IndInv, NEW p \in Proc, PublishCheck(p)
    PROVE  IndInv'
  <1>1. /\ faults' \in Nat
        /\ UNCHANGED <<branch, intents, stale, clock, acked, written>>
    BY DEF PublishCheck, IndInv, TypeOK
  <1>2. call[p].pc = "publish" /\ call[p].pc \in Holding
    BY DEF PublishCheck, At, Holding
  <1>3. ASSUME ReceiptMatches(call[p].hand), PublishOk(p)
        PROVE  IndInv'
    <2> DEFINE c == [call[p] EXCEPT !.pc = "complete"]
    <2>1. call' = [call EXCEPT ![p] = c]
      BY <1>3 DEF PublishOk, Goto
    <2>2. c \in Call
      BY CallTyped DEF Call, Step
    <2>3. c.pc = "complete" /\ c.hand = call[p].hand
      BY CallTyped DEF Call
    <2>4. <<c.hand.req, c.hand.stamp>> \in Applied
      BY <1>3, <2>3 DEF ReceiptMatches, SameDigest, Applied
    <2>5. Coherent(call[p])
      BY DEF IndInv
    <2>6. Coherent(c)
      BY <1>2, <2>3, <2>4, <2>5 DEF Coherent
    <2> HIDE DEF c
    <2>. QED  BY <1>1, <2>1, <2>2, <2>6, LocalStep
  <1>4. ASSUME Conflict(p)
        PROVE  IndInv'
    BY <1>1, <1>2, <1>4, ConflictStep
  <1>5. ASSUME Return(p)
        PROVE  IndInv'
    BY <1>1, <1>5, ReturnStep
  <1>6. ASSUME ~HasReceipt(call[p].hand.req), Goto(p, "cas")
        PROVE  IndInv'
    BY <1>1, <1>2, <1>6, GotoStep DEF Step
  <1>. QED  BY <1>3, <1>4, <1>5, <1>6 DEF PublishCheck

(* The swap that succeeds: the candidate was computed from the very head   *)
(* it replaces, and its request has no receipt there.                      *)
LEMMA SwapInv ==
    ASSUME IndInv, NEW p \in Proc, NEW i, i = call[p].hand, At(p, "cas"), head = i.base,
           branch' = Append(branch, CommitOf(i)),
           PublishOk(p),
           UNCHANGED <<intents, stale, clock, faults, acked, written>>
    PROVE  IndInv'
  <1> DEFINE new == CommitOf(i)
  <1>1. i \in Intent /\ IsBuild(i) /\ ~HasReceipt(i.req)
    <2>1. Coherent(call[p])
      BY DEF IndInv
    <2>. QED  BY <2>1 DEF Coherent, Holding, At
  <1>2. new \in Commit /\ new.req = i.req /\ new.base = i.base /\ new.stamp = i.stamp
        /\ new.shows = i.shows
    BY <1>1 DEF Intent, Commit, CommitOf
  <1>3. branch \in Seq(Commit) /\ branch' = Append(branch, new)
    BY DEF IndInv, TypeOK
  <1> HIDE DEF new
  <1>4. /\ branch' \in Seq(Commit)
        /\ head \in Nat
        /\ head' = head + 1
        /\ DOMAIN branch = 1..head
        /\ DOMAIN branch' = 1..(head + 1)
        /\ branch'[head + 1] = new
        /\ \A k \in 1..head : branch'[k] = branch[k]
    BY <1>2, <1>3 DEF head
  <1>5. \A k \in Nat : k <= head => ShowsAt(k)' = ShowsAt(k)
    BY <1>4 DEF ShowsAt
  <1>6. ASSUME NEW j \in Intent, IsBuild(j)
        PROVE  IsBuild(j)' /\ j.base # head'
    BY <1>4, <1>5, <1>6 DEF IsBuild, Intent
  <1>7. ASSUME NEW r, HasReceipt(r)
        PROVE  HasReceipt(r)'
    BY <1>4, <1>7 DEF HasReceipt
  <1>8. Applied \subseteq Applied' /\ <<i.req, i.stamp>> \in Applied'
    <2>1. \A k \in DOMAIN branch : k \in DOMAIN branch' /\ branch'[k] = branch[k]
      BY <1>4
    <2>2. head + 1 \in DOMAIN branch'
      BY <1>4
    <2>. QED  BY <1>2, <1>4, <2>1, <2>2 DEF Applied
  <1>9. TypeOK'
    <2>1. [call[p] EXCEPT !.pc = "complete"] \in Call
      BY CallTyped DEF Call, Step
    <2>2. call' \in [Proc -> Call]
      BY <2>1 DEF PublishOk, Goto, IndInv, TypeOK
    <2>. QED  BY <1>4, <2>2 DEF IndInv, TypeOK
  <1>10. StampsBounded'
    <2>1. new.stamp \in 1..clock
      BY <1>1, <1>2 DEF IsBuild
    <2>. QED  BY <1>4, <2>1 DEF IndInv, StampsBounded
  <1>11. NoLostUpdate'
    <2>1. new.base = head /\ new.shows = ShowsAt(head) \cup {new.stamp}
      BY <1>1, <1>2 DEF IsBuild
    <2>2. ASSUME NEW k \in 1..head
          PROVE  branch'[k].base = k - 1
                 /\ branch'[k].shows = ShowsAt(k - 1)' \cup {branch'[k].stamp}
      <3>1. branch[k].base = k - 1 /\ branch[k].shows = ShowsAt(k - 1) \cup {branch[k].stamp}
        BY <1>4 DEF IndInv, NoLostUpdate
      <3>2. k - 1 = 0 \/ k - 1 \in 1..head
        BY <1>4
      <3>3. ShowsAt(k - 1)' = ShowsAt(k - 1)
        BY <1>4, <3>2 DEF ShowsAt
      <3>4. branch'[k] = branch[k]
        BY <1>4
      <3>. QED  BY <3>1, <3>3, <3>4
    <2>3. \A k \in DOMAIN branch' : k \in 1..head \/ k = head + 1
      BY <1>4
    <2>4. ASSUME NEW k \in DOMAIN branch'
          PROVE  branch'[k].base = k - 1
                 /\ branch'[k].shows = ShowsAt(k - 1)' \cup {branch'[k].stamp}
      <3>1. CASE k \in 1..head
        BY <2>2, <3>1
      <3>2. CASE k = head + 1
        <4>1. PICK n \in Nat : n = head
          BY <1>4
        <4>2. k - 1 = n /\ branch'[k] = new /\ ShowsAt(n)' = ShowsAt(n)
              /\ new.base = n /\ new.shows = ShowsAt(n) \cup {new.stamp}
          BY <1>4, <1>5, <2>1, <3>2, <4>1
        <4>. QED  BY <4>2
      <3>. QED  BY <2>3, <3>1, <3>2
    <2>. QED  BY <2>4 DEF NoLostUpdate
  <1>12. AtMostOnce'
    <2>1. \A k \in 1..head : branch[k].req # i.req
      BY <1>1, <1>4 DEF HasReceipt
    <2>. QED  BY <1>2, <1>4, <2>1 DEF IndInv, AtMostOnce
  <1>13. AckedIsPublished'
    BY <1>8 DEF IndInv, AckedIsPublished
  <1>14. NeverLost'
    BY <1>7 DEF IndInv, NeverLost, IntentOf, StaleOf
  <1>15. \A j \in intents' \cup stale' : IsBuild(j)'
    BY <1>6 DEF IndInv, TypeOK
  <1>16. \A q \in Proc : Coherent(call[q])'
    <2> SUFFICES ASSUME NEW q \in Proc PROVE Coherent(call[q])'
      OBVIOUS
    <2>1. CASE q = p
      <3>1. call'[q].pc = "complete" /\ call'[q].hand = i
        BY <2>1, CallTyped DEF PublishOk, Goto, IndInv, TypeOK, Call
      <3>2. IsBuild(i)'
        BY <1>1, <1>6
      <3>. QED  BY <1>1, <1>8, <3>1, <3>2 DEF Coherent
    <2>2. CASE q # p
      <3>1. PICK c : c = call[q]
        OBVIOUS
      <3>2. call'[q] = c /\ Coherent(c) /\ c \in Call
        BY <2>2, <3>1, CallTyped DEF PublishOk, Goto, IndInv, TypeOK
      <3>3. c.pc \in Holding => c.hand \in Intent /\ IsBuild(c.hand)' /\ c.hand.base # head'
        BY <1>6, <3>2 DEF Coherent
      <3>4. c.pc = "build" => c.base <= head'
        BY <1>4, <3>2 DEF Coherent, Call
      <3>5. c.pc = "complete" => <<c.hand.req, c.hand.stamp>> \in Applied'
        BY <1>8, <3>2 DEF Coherent
      <3>6. Coherent(c)'
        BY <3>3, <3>4, <3>5 DEF Coherent, Holding
      <3>. QED  BY <3>2, <3>6
    <2>. QED  BY <2>1, <2>2
  <1>. QED
    BY <1>9, <1>10, <1>11, <1>12, <1>13, <1>14, <1>15, <1>16 DEF IndInv

LEMMA CompareAndSwapInv ==
    ASSUME IndInv, NEW p \in Proc, CompareAndSwap(p)
    PROVE  IndInv'
  <1>1. PICK i : i = call[p].hand
    OBVIOUS
  <1>2. CASE head = i.base
    BY <1>1, <1>2, SwapInv DEF CompareAndSwap
  <1>3. CASE head # i.base
    <2>1. Goto(p, "recheck") /\ UNCHANGED branch
      BY <1>1, <1>3 DEF CompareAndSwap
    <2>2. faults' \in Nat
      BY DEF CompareAndSwap, IndInv, TypeOK
    <2>. QED  BY <2>1, <2>2, GotoStep DEF CompareAndSwap, At, Step, Holding
  <1>. QED  BY <1>2, <1>3

LEMMA SwapFailsInv ==
    ASSUME IndInv, NEW p \in Proc, SwapFails(p)
    PROVE  IndInv'
  <1>1. faults' \in Nat
    BY DEF SwapFails, IndInv, TypeOK
  <1>. QED  BY <1>1, GotoStep DEF SwapFails, At, Step, Holding

LEMMA RecheckInv ==
    ASSUME IndInv, NEW p \in Proc, Recheck(p)
    PROVE  IndInv'
  <1>1. faults' \in Nat /\ call[p].pc \in Holding
    BY DEF Recheck, IndInv, TypeOK, At, Holding
  <1>2. CASE Conflict(p)
    BY <1>1, <1>2, ConflictStep DEF Recheck
  <1>3. CASE Return(p)
    BY <1>1, <1>3, ReturnStep DEF Recheck
  <1>. QED  BY <1>2, <1>3 DEF Recheck

(* The change set in hand of a process past publish is in the history, so  *)
(* its intent is not needed any more.                                      *)
LEMMA PublishedInHand ==
    ASSUME IndInv, NEW p \in Proc, At(p, "complete")
    PROVE  /\ <<call[p].hand.req, call[p].hand.stamp>> \in Applied
           /\ HasReceipt(call[p].hand.req)
  <1>1. <<call[p].hand.req, call[p].hand.stamp>> \in Applied
    BY DEF IndInv, Coherent, At
  <1>. QED  BY <1>1 DEF Applied, HasReceipt

LEMMA CompleteIntentInv ==
    ASSUME IndInv, NEW p \in Proc, CompleteIntent(p)
    PROVE  IndInv'
  <1>1. PICK r : r = call[p].hand.req
    OBVIOUS
  <1>2. /\ HasReceipt(r)
        /\ <<r, call[p].hand.stamp>> \in Applied
        /\ intents' = intents \ IntentOf(r)
        /\ UNCHANGED <<branch, stale, clock, faults, written>>
    BY <1>1, PublishedInHand DEF CompleteIntent
  <1>3. \A w \in written : IntentOf(w) # {} => IntentOf(w)' # {} \/ HasReceipt(w)
    BY <1>2 DEF IntentOf
  <1>4. CASE ~call[p].recovering
    <2>1. Return(p) /\ acked' = acked \cup {<<r, call[p].hand.stamp>>}
      BY <1>1, <1>4 DEF CompleteIntent, Acknowledge
    <2>3. intents' \subseteq intents
      BY <1>2
    <2>. QED  BY <1>2, <1>3, <2>1, <2>3, AcknowledgeStep
  <1>5. CASE call[p].recovering
    <2>1. /\ call' = [call EXCEPT ![p].pc = "read"]
          /\ UNCHANGED acked
      BY <1>5 DEF CompleteIntent, Goto
    <2>2. TypeOK'
      <3>1. [call[p] EXCEPT !.pc = "read"] \in Call
        BY CallTyped DEF Call, Step
      <3>2. call' \in [Proc -> Call]
        BY <2>1, <3>1 DEF IndInv, TypeOK
      <3>. QED  BY <1>2, <2>1, <3>2 DEF IndInv, TypeOK
    <2>3. \A q \in Proc : Coherent(call[q])'
      <3> SUFFICES ASSUME NEW q \in Proc PROVE Coherent(call[q])'
        OBVIOUS
      <3>1. Coherent(call'[q])
        <4>1. CASE q = p
          <5>1. call'[q].pc = "read"
            BY <2>1, <4>1, CallTyped DEF IndInv, TypeOK, Call
          <5>. QED  BY <5>1 DEF Coherent, Holding
        <4>2. CASE q # p
          BY <2>1, <4>2 DEF IndInv, TypeOK
        <4>. QED  BY <4>1, <4>2
      <3>. QED
        BY <1>2, <3>1 DEF Coherent, IsBuild, HasReceipt, Applied, ShowsAt, head
    <2>4. \A i \in intents' \cup stale' : IsBuild(i)'
      BY <1>2 DEF IndInv, IsBuild, ShowsAt, head
    <2>5. NeverLost'
      BY <1>2, <1>3 DEF IndInv, NeverLost, HasReceipt, StaleOf
    <2>. QED
      BY <1>2, <2>1, <2>2, <2>3, <2>4, <2>5 DEF IndInv, StampsBounded, NoLostUpdate,
           AtMostOnce, AckedIsPublished, Applied, ShowsAt
  <1>. QED  BY <1>4, <1>5

LEMMA AnswerBatchInv ==
    ASSUME IndInv, NEW p \in Proc, AnswerBatch(p)
    PROVE  IndInv'
  <1>2. <<call[p].hand.req, call[p].hand.stamp>> \in Applied
    BY PublishedInHand DEF AnswerBatch
  <1>. QED
    BY <1>2, AcknowledgeStep DEF AnswerBatch, Acknowledge, IntentOf

LEMMA StopInv ==
    ASSUME IndInv, NEW p \in Proc, Stop(p)
    PROVE  IndInv'
  <1>1. faults' \in Nat
    BY DEF Stop, IndInv, TypeOK
  <1>. QED  BY <1>1, ReturnStep DEF Stop

(* A torn intent is still the file of its request. *)
LEMMA PowerLossInv ==
    ASSUME IndInv, PowerLoss
    PROVE  IndInv'
  <1>1. PICK lost \in SUBSET intents :
            intents' = (intents \ lost) \cup {[i EXCEPT !.torn = TRUE] : i \in lost}
    BY DEF PowerLoss
  <1>2. /\ call' = [p \in Proc |-> Rest]
        /\ faults' = faults + 1
        /\ UNCHANGED <<branch, stale, clock, acked, written>>
    BY DEF PowerLoss
  <1>3. ASSUME NEW i \in intents
        PROVE  /\ [i EXCEPT !.torn = TRUE] \in Intent
               /\ [i EXCEPT !.torn = TRUE].req = i.req
               /\ IsBuild([i EXCEPT !.torn = TRUE])
    <2>1. i \in Intent /\ IsBuild(i)
      BY DEF IndInv, TypeOK
    <2>. QED  BY <2>1 DEF Intent, IsBuild
  <1>4. intents' \subseteq Intent /\ \A i \in intents' : IsBuild(i)
    <2>1. \A i \in intents : i \in Intent /\ IsBuild(i)
      BY DEF IndInv, TypeOK
    <2>. QED  BY <1>1, <1>3, <2>1
  <1>5. TypeOK'
    BY <1>2, <1>4, RestIsCall DEF IndInv, TypeOK
  <1>6. \A p \in Proc : Coherent(call[p])'
    <2> SUFFICES ASSUME NEW p \in Proc PROVE Coherent(call[p])'
      OBVIOUS
    <2>1. Coherent(call'[p])
      BY <1>2, RestIsCoherent
    <2>. QED
      BY <1>2, <2>1 DEF Coherent, IsBuild, HasReceipt, Applied, ShowsAt, head
  <1>7. \A i \in intents' \cup stale' : IsBuild(i)'
    BY <1>2, <1>4 DEF IndInv, IsBuild, ShowsAt, head
  <1>8. ASSUME NEW w, IntentOf(w) # {}
        PROVE  IntentOf(w)' # {}
    <2>1. PICK i \in intents : i.req = w
      BY <1>8 DEF IntentOf
    <2>2. i \in intents' \/ [i EXCEPT !.torn = TRUE] \in intents'
      BY <1>1
    <2>. QED  BY <1>3, <2>1, <2>2 DEF IntentOf
  <1>9. NeverLost'
    BY <1>2, <1>8 DEF IndInv, NeverLost, HasReceipt, StaleOf
  <1>. QED
    BY <1>2, <1>5, <1>6, <1>7, <1>9 DEF IndInv, StampsBounded, NoLostUpdate,
         AtMostOnce, AckedIsPublished, Applied, ShowsAt

-----------------------------------------------------------------------------
(* The invariants *)

LEMMA NextInv == IndInv /\ [Next]_vars => IndInv'
  <1> SUFFICES ASSUME IndInv, [Next]_vars PROVE IndInv'
    OBVIOUS
  <1>1. CASE UNCHANGED vars
    <2>1. \A p \in Proc : Coherent(call[p])'
      <3> SUFFICES ASSUME NEW p \in Proc PROVE Coherent(call[p])'
        OBVIOUS
      <3>1. Coherent(call'[p])
        BY <1>1 DEF IndInv, vars
      <3>. QED
        BY <1>1, <3>1 DEF vars, Coherent, IsBuild, HasReceipt, Applied, ShowsAt, head
    <2>2. \A i \in intents' \cup stale' : IsBuild(i)'
      BY <1>1 DEF vars, IndInv, IsBuild, ShowsAt, head
    <2>. QED
      BY <1>1, <2>1, <2>2 DEF vars, IndInv, TypeOK, StampsBounded, NoLostUpdate, AtMostOnce,
         AckedIsPublished, Applied, NeverLost, HasReceipt, IntentOf, StaleOf, ShowsAt
  <1>2. CASE PowerLoss
    BY <1>2, PowerLossInv
  <1>3. ASSUME NEW p \in Proc, NEW mode \in Mode, NEW r \in Request, Begin(p, mode, r)
        PROVE  IndInv'
    BY <1>3, BeginInv
  <1>4. ASSUME NEW p \in Proc, Run(p)
        PROVE  IndInv'
    <2>1. CASE Recovery(p)
      BY <2>1, ListIntentsInv, ReadIntentInv, IntentGoneInv, RecoveryDoneInv, SetAsideInv
         DEF Recovery
    <2>2. CASE Publish(p)
      BY <2>2, PublishCheckInv, CompareAndSwapInv, RecheckInv, CompleteIntentInv, AnswerBatchInv
         DEF Publish
    <2>. QED
      BY <1>4, <2>1, <2>2, ReceiptCheckInv, TakeHeadInv, BuildInv, BuildFailsInv DEF Run
  <1>5. ASSUME NEW p \in Proc, SwapFails(p) \/ Stop(p)
        PROVE  IndInv'
    BY <1>5, SwapFailsInv, StopInv
  <1>. QED
    BY <1>1, <1>2, <1>3, <1>4, <1>5 DEF Next

LEMMA Invariance == Spec => []IndInv
  BY InitInv, NextInv, PTL DEF Spec

(* No file, ref or local of the publication layer ever holds anything but  *)
(* what the code puts there.                                               *)
THEOREM TypeCorrect == Spec => []TypeOK
  <1>1. IndInv => TypeOK
    BY DEF IndInv
  <1>. QED  BY <1>1, Invariance, PTL

(* publish: a concurrent writer never overwrites another's commit.         *)
THEOREM NoUpdateIsLost == Spec => []NoLostUpdate
  <1>1. IndInv => NoLostUpdate
    BY DEF IndInv
  <1>. QED  BY <1>1, Invariance, PTL

(* publish and recover_in_dir: no request id is ever committed twice.      *)
THEOREM PublishedAtMostOnce == Spec => []AtMostOnce
  <1>1. IndInv => AtMostOnce
    BY DEF IndInv
  <1>. QED  BY <1>1, Invariance, PTL

(* apply_against_base and request_change: success is only reported of what *)
(* is in the history.                                                      *)
THEOREM SuccessIsPublished == Spec => []AckedIsPublished
  <1>1. IndInv => AckedIsPublished
    BY DEF IndInv
  <1>. QED  BY <1>1, Invariance, PTL

(* write_intent, complete_intent and set_aside: an interrupted change is   *)
(* pending, published or set aside.                                        *)
THEOREM InterruptedIsNeverLost == Spec => []NeverLost
  <1>1. IndInv => NeverLost
    BY DEF IndInv
  <1>. QED  BY <1>1, Invariance, PTL

-----------------------------------------------------------------------------
(* Recovery comes before the change *)

(* A step that leaves the intents alone keeps what a process has listed on *)
(* its list or in its hands, or forgets it.                                *)
LEMMA ListedKept ==
    ASSUME IndInv, ListedInv, NEW p \in Proc, NEW c,
           call' = [call EXCEPT ![p] = c],
           \/ c.listed = {}
           \/ /\ c.listed = call[p].listed
              /\ c.recovering = call[p].recovering
              /\ c.todo = call[p].todo
              /\ call[p].pc \in Holding => c.pc \in Holding /\ c.hand = call[p].hand,
           UNCHANGED <<intents, clock>>
    PROVE  ListedInv'
  <1> SUFFICES ASSUME NEW q \in Proc
               PROVE  /\ \A entry \in call'[q].listed : entry[2] <= clock'
                      /\ \A i \in intents' : <<i.req, i.file>> \in call'[q].listed =>
                            /\ call'[q].recovering
                            /\ \/ i.req \in call'[q].todo
                               \/ call'[q].pc \in Holding /\ call'[q].hand.req = i.req
    BY DEF ListedInv
  <1>1. CASE q = p
    <2>1. call'[q] = c
      BY <1>1 DEF IndInv, TypeOK
    <2>. QED  BY <1>1, <2>1 DEF ListedInv
  <1>2. CASE q # p
    <2>1. call'[q] = call[q]
      BY <1>2 DEF IndInv, TypeOK
    <2>. QED  BY <2>1 DEF ListedInv
  <1>. QED  BY <1>1, <1>2

LEMMA ListedReturn ==
    ASSUME IndInv, ListedInv, NEW p \in Proc, Return(p),
           UNCHANGED <<intents, clock>>
    PROVE  ListedInv'
  <1>1. Rest.listed = {}
    BY DEF Rest
  <1>. QED  BY <1>1, ListedKept DEF Return

LEMMA ListedGoto ==
    ASSUME IndInv, ListedInv, NEW p \in Proc, NEW step, Goto(p, step),
           call[p].pc \in Holding => step \in Holding,
           UNCHANGED <<intents, clock>>
    PROVE  ListedInv'
  <1> DEFINE c == [call[p] EXCEPT !.pc = step]
  <1>1. /\ c.listed = call[p].listed /\ c.recovering = call[p].recovering
        /\ c.todo = call[p].todo /\ c.hand = call[p].hand /\ c.pc = step
    BY CallTyped DEF Call
  <1>2. call' = [call EXCEPT ![p] = c]
    BY DEF Goto
  <1> HIDE DEF c
  <1>. QED  BY <1>1, <1>2, ListedKept

LEMMA ListedConflict ==
    ASSUME IndInv, ListedInv, NEW p \in Proc, Conflict(p),
           UNCHANGED <<intents, clock>>
    PROVE  ListedInv'
  <1>1. CASE call[p].recovering
    BY <1>1, ListedGoto DEF Conflict, Holding
  <1>2. CASE ~call[p].recovering
    BY <1>2, ListedReturn DEF Conflict
  <1>. QED  BY <1>1, <1>2

(* Recovery has dealt with the intent it held: the file is gone, so what   *)
(* it listed and is still there is on its list.                            *)
LEMMA ListedDealtWith ==
    ASSUME IndInv, ListedInv, NEW p \in Proc, NEW r, r = call[p].hand.req, NEW c,
           call' = [call EXCEPT ![p] = c],
           c.listed = call[p].listed, c.recovering = call[p].recovering,
           c.todo = call[p].todo,
           intents' = intents \ IntentOf(r), UNCHANGED clock
    PROVE  ListedInv'
  <1> SUFFICES ASSUME NEW q \in Proc
               PROVE  /\ \A entry \in call'[q].listed : entry[2] <= clock'
                      /\ \A i \in intents' : <<i.req, i.file>> \in call'[q].listed =>
                            /\ call'[q].recovering
                            /\ \/ i.req \in call'[q].todo
                               \/ call'[q].pc \in Holding /\ call'[q].hand.req = i.req
    BY DEF ListedInv
  <1>1. \A i \in intents' : i \in intents /\ i.req # r
    BY DEF IntentOf
  <1>2. CASE q = p
    <2>1. call'[q] = c
      BY <1>2 DEF IndInv, TypeOK
    <2>. QED  BY <1>1, <1>2, <2>1 DEF ListedInv
  <1>3. CASE q # p
    <2>1. call'[q] = call[q]
      BY <1>3 DEF IndInv, TypeOK
    <2>. QED  BY <1>1, <2>1 DEF ListedInv
  <1>. QED  BY <1>2, <1>3

LEMMA ListedListIntents ==
    ASSUME IndInv, ListedInv, NEW p \in Proc, ListIntents(p)
    PROVE  ListedInv'
  <1> SUFFICES ASSUME NEW q \in Proc
               PROVE  /\ \A entry \in call'[q].listed : entry[2] <= clock
                      /\ \A i \in intents : <<i.req, i.file>> \in call'[q].listed =>
                            /\ call'[q].recovering
                            /\ \/ i.req \in call'[q].todo
                               \/ call'[q].pc \in Holding /\ call'[q].hand.req = i.req
    BY DEF ListIntents, ListedInv
  <1>1. CASE q = p
    <2>1. /\ call'[q].recovering = TRUE
          /\ call'[q].todo = {i.req : i \in intents}
          /\ call'[q].listed = {<<i.req, i.file>> : i \in intents}
      BY <1>1, CallTyped DEF ListIntents, IndInv, TypeOK, Call
    <2>2. \A i \in intents : i.file <= clock
      BY DEF IndInv, IsBuild, TypeOK
    <2>. QED  BY <2>1, <2>2
  <1>2. CASE q # p
    <2>1. call'[q] = call[q]
      BY <1>2 DEF ListIntents, IndInv, TypeOK
    <2>. QED  BY <2>1 DEF ListedInv
  <1>. QED  BY <1>1, <1>2

LEMMA ListedReadIntent ==
    ASSUME IndInv, ListedInv, NEW p \in Proc, ReadIntent(p)
    PROVE  ListedInv'
  <1>1. PICK i \in intents : call' = [call EXCEPT
            ![p].pc = IF i.torn THEN "aside" ELSE "publish",
            ![p].hand = i, ![p].todo = @ \ {i.req}]
    BY DEF ReadIntent
  <1> SUFFICES ASSUME NEW q \in Proc
               PROVE  /\ \A entry \in call'[q].listed : entry[2] <= clock
                      /\ \A j \in intents : <<j.req, j.file>> \in call'[q].listed =>
                            /\ call'[q].recovering
                            /\ \/ j.req \in call'[q].todo
                               \/ call'[q].pc \in Holding /\ call'[q].hand.req = j.req
    BY DEF ReadIntent, ListedInv
  <1>2. CASE q = p
    <2>1. /\ call'[q].recovering = call[q].recovering
          /\ call'[q].listed = call[q].listed
          /\ call'[q].todo = call[q].todo \ {i.req}
          /\ call'[q].hand = i
          /\ call'[q].pc \in Holding
          /\ call[q].pc \notin Holding
      BY <1>1, <1>2, CallTyped DEF ReadIntent, At, Holding, IndInv, TypeOK, Call
    <2>. QED  BY <2>1 DEF ListedInv
  <1>3. CASE q # p
    <2>1. call'[q] = call[q]
      BY <1>1, <1>3 DEF IndInv, TypeOK
    <2>. QED  BY <2>1 DEF ListedInv
  <1>. QED  BY <1>2, <1>3

LEMMA ListedRecoveryDone ==
    ASSUME IndInv, ListedInv, NEW p \in Proc, RecoveryDone(p)
    PROVE  ListedInv'
  <1> SUFFICES ASSUME NEW q \in Proc
               PROVE  /\ \A entry \in call'[q].listed : entry[2] <= clock
                      /\ \A j \in intents : <<j.req, j.file>> \in call'[q].listed =>
                            /\ call'[q].recovering
                            /\ \/ j.req \in call'[q].todo
                               \/ call'[q].pc \in Holding /\ call'[q].hand.req = j.req
    BY DEF RecoveryDone, ListedInv
  <1>1. CASE q = p
    <2>1. /\ call'[q].listed = call[q].listed
          /\ call[q].todo = {}
          /\ call[q].pc \notin Holding
      BY <1>1, CallTyped DEF RecoveryDone, At, Holding, IndInv, TypeOK, Call
    <2>. QED  BY <2>1 DEF ListedInv
  <1>2. CASE q # p
    <2>1. call'[q] = call[q]
      BY <1>2 DEF RecoveryDone, IndInv, TypeOK
    <2>. QED  BY <2>1 DEF ListedInv
  <1>. QED  BY <1>1, <1>2

LEMMA ListedSetAside ==
    ASSUME IndInv, ListedInv, NEW p \in Proc, SetAside(p)
    PROVE  ListedInv'
  <1>1. PICK r : r = call[p].hand.req
    OBVIOUS
  <1>2. CASE IntentOf(r) = {}
    BY <1>1, <1>2, ListedReturn DEF SetAside
  <1>3. CASE IntentOf(r) # {}
    <2> DEFINE c == [call[p] EXCEPT !.pc = "read"]
    <2>1. /\ call' = [call EXCEPT ![p] = c]
          /\ intents' = intents \ IntentOf(r)
          /\ UNCHANGED clock
      BY <1>1, <1>3 DEF SetAside, Goto
    <2>2. /\ c.listed = call[p].listed /\ c.recovering = call[p].recovering
          /\ c.todo = call[p].todo
      BY CallTyped DEF Call
    <2> HIDE DEF c
    <2>. QED  BY <1>1, <2>1, <2>2, ListedDealtWith
  <1>. QED  BY <1>2, <1>3

LEMMA ListedCompleteIntent ==
    ASSUME IndInv, ListedInv, NEW p \in Proc, CompleteIntent(p)
    PROVE  ListedInv'
  <1>1. PICK r : r = call[p].hand.req
    OBVIOUS
  <1>2. intents' = intents \ IntentOf(r) /\ UNCHANGED clock
    BY <1>1 DEF CompleteIntent
  <1>3. CASE call[p].recovering
    <2> DEFINE c == [call[p] EXCEPT !.pc = "read"]
    <2>1. call' = [call EXCEPT ![p] = c]
      BY <1>3 DEF CompleteIntent, Goto
    <2>2. /\ c.listed = call[p].listed /\ c.recovering = call[p].recovering
          /\ c.todo = call[p].todo
      BY CallTyped DEF Call
    <2> HIDE DEF c
    <2>. QED  BY <1>1, <1>2, <2>1, <2>2, ListedDealtWith
  <1>4. CASE ~call[p].recovering
    <2>1. Return(p)
      BY <1>4 DEF CompleteIntent, Acknowledge
    <2>2. \A q \in Proc : call'[q] = call[q] \/ call'[q].listed = {}
      BY <2>1 DEF Return, Rest, IndInv, TypeOK
    <2>3. intents' \subseteq intents
      BY <1>2
    <2>4. \A q \in Proc : call'[q] = call[q] =>
              /\ \A entry \in call'[q].listed : entry[2] <= clock'
              /\ \A i \in intents' : <<i.req, i.file>> \in call'[q].listed =>
                    /\ call'[q].recovering
                    /\ \/ i.req \in call'[q].todo
                       \/ call'[q].pc \in Holding /\ call'[q].hand.req = i.req
      BY <1>2, <2>3 DEF ListedInv
    <2>. QED  BY <2>2, <2>4 DEF ListedInv
  <1>. QED  BY <1>3, <1>4

(* A build writes an intent in a file that nobody has listed.           *)
LEMMA ListedBuild ==
    ASSUME IndInv, ListedInv, NEW p \in Proc, Build(p) \/ BuildBatch(p)
    PROVE  ListedInv'
  <1>1. PICK s, i : /\ i = [req |-> call[p].req, base |-> call[p].base, stamp |-> s,
                            timed |-> call[p].mode = "cli",
                            shows |-> ShowsAt(call[p].base) \cup {s},
                            torn |-> FALSE, file |-> clock + 1]
                    /\ call' = [call EXCEPT ![p].pc = "publish", ![p].hand = i]
                    /\ intents' \subseteq intents \cup {i}
    BY DEF Build, BuildBatch, ChangeSet
  <1>2. /\ clock \in Nat /\ clock' = clock + 1 /\ call[p].pc = "build"
        /\ call' = [call EXCEPT ![p].pc = "publish", ![p].hand = i]
        /\ intents' \subseteq intents \cup {i}
        /\ i.file = clock + 1
    BY <1>1 DEF Build, BuildBatch, At, IndInv, TypeOK
  <1> SUFFICES ASSUME NEW q \in Proc
               PROVE  /\ \A entry \in call'[q].listed : entry[2] <= clock'
                      /\ \A j \in intents' : <<j.req, j.file>> \in call'[q].listed =>
                            /\ call'[q].recovering
                            /\ \/ j.req \in call'[q].todo
                               \/ call'[q].pc \in Holding /\ call'[q].hand.req = j.req
    BY DEF ListedInv
  <1>3. /\ call'[q].listed = call[q].listed
        /\ call'[q].recovering = call[q].recovering
        /\ call'[q].todo = call[q].todo
        /\ call[q].pc \in Holding => call'[q].pc = call[q].pc /\ call'[q].hand = call[q].hand
    <2>1. CASE q = p
      BY <1>2, <2>1, CallTyped DEF Holding, IndInv, TypeOK, Call
    <2>2. CASE q # p
      BY <1>2, <2>2 DEF IndInv, TypeOK
    <2>. QED  BY <2>1, <2>2
  <1>4. \A entry \in call[q].listed : entry[2] <= clock /\ entry[2] \in Nat
    BY CallTyped DEF ListedInv, Call
  <1>5. <<i.req, i.file>> \notin call[q].listed
    BY <1>2, <1>4
  <1>6. \A entry \in call'[q].listed : entry[2] <= clock'
    BY <1>2, <1>3, <1>4
  <1>. QED  BY <1>2, <1>3, <1>5, <1>6 DEF ListedInv

LEMMA ListedNext == IndInv /\ ListedInv /\ [Next]_vars => ListedInv'
  <1> SUFFICES ASSUME IndInv, ListedInv, [Next]_vars PROVE ListedInv'
    OBVIOUS
  <1>1. CASE UNCHANGED vars
    BY <1>1 DEF vars, ListedInv
  <1>2. CASE PowerLoss
    <2>1. \A p \in Proc : call'[p].listed = {}
      BY <1>2 DEF PowerLoss, Rest
    <2>. QED  BY <2>1 DEF ListedInv
  <1>3. ASSUME NEW p \in Proc, NEW mode \in Mode, NEW r \in Request, Begin(p, mode, r)
        PROVE  ListedInv'
    <2> DEFINE c == [Rest EXCEPT
                        !.mode = mode, !.req = r,
                        !.pc = CASE mode = "ops" -> "receipt"
                                 [] mode = "cli" -> "list"
                                 [] mode = "batch" -> "head"]
    <2>1. call' = [call EXCEPT ![p] = c] /\ UNCHANGED <<intents, clock>>
      BY <1>3 DEF Begin
    <2>2. c.listed = {}
      BY DEF Rest
    <2> HIDE DEF c
    <2>. QED  BY <2>1, <2>2, ListedKept
  <1>4. ASSUME NEW p \in Proc,
               ReceiptCheck(p) \/ IntentGone(p) \/ BuildFails(p) \/ AnswerBatch(p) \/ Stop(p)
        PROVE  ListedInv'
    BY <1>4, ListedReturn, ListedGoto
       DEF ReceiptCheck, IntentGone, BuildFails, AnswerBatch, Acknowledge, Stop, At, Holding
  <1>5. ASSUME NEW p \in Proc, TakeHead(p)
        PROVE  ListedInv'
    <2> DEFINE c == [call[p] EXCEPT !.pc = "build", !.base = head]
    <2>1. call' = [call EXCEPT ![p] = c] /\ UNCHANGED <<intents, clock>> /\ call[p].pc \notin Holding
      BY <1>5 DEF TakeHead, At, Holding
    <2>2. /\ c.listed = call[p].listed /\ c.recovering = call[p].recovering
          /\ c.todo = call[p].todo
      BY CallTyped DEF Call
    <2> HIDE DEF c
    <2>. QED  BY <2>1, <2>2, ListedKept
  <1>6. ASSUME NEW p \in Proc, PublishOk(p), call[p].pc \in Holding,
               UNCHANGED <<intents, clock>>
        PROVE  ListedInv'
    <2> DEFINE c == [call[p] EXCEPT !.pc = "complete"]
    <2>1. call' = [call EXCEPT ![p] = c]
      BY <1>6 DEF PublishOk, Goto
    <2>2. /\ c.listed = call[p].listed /\ c.recovering = call[p].recovering
          /\ c.todo = call[p].todo /\ c.hand = call[p].hand /\ c.pc \in Holding
      BY CallTyped DEF Call, Holding
    <2> HIDE DEF c
    <2>. QED  BY <1>6, <2>1, <2>2, ListedKept
  <1>7. ASSUME NEW p \in Proc, PublishCheck(p)
        PROVE  ListedInv'
    <2>1. call[p].pc \in Holding /\ UNCHANGED <<intents, clock>>
      BY <1>7 DEF PublishCheck, At, Holding
    <2>2. \/ PublishOk(p) \/ Conflict(p) \/ Return(p)
          \/ Goto(p, "cas")
      BY <1>7 DEF PublishCheck
    <2>. QED
      BY <1>6, <2>1, <2>2, ListedConflict, ListedReturn, ListedGoto DEF Holding
  <1>8. ASSUME NEW p \in Proc, CompareAndSwap(p) \/ SwapFails(p) \/ Recheck(p)
        PROVE  ListedInv'
    <2>1. call[p].pc \in Holding /\ UNCHANGED <<intents, clock>>
      BY <1>8 DEF CompareAndSwap, SwapFails, Recheck, At, Holding
    <2>2. \/ PublishOk(p) \/ Conflict(p) \/ Return(p)
          \/ Goto(p, "recheck")
      BY <1>8 DEF CompareAndSwap, SwapFails, Recheck
    <2>. QED
      BY <1>6, <2>1, <2>2, ListedConflict, ListedReturn, ListedGoto DEF Holding
  <1>9. ASSUME NEW p \in Proc,
               \/ ListIntents(p) \/ ReadIntent(p) \/ RecoveryDone(p) \/ SetAside(p)
               \/ CompleteIntent(p) \/ Build(p) \/ BuildBatch(p)
        PROVE  ListedInv'
    BY <1>9, ListedListIntents, ListedReadIntent, ListedRecoveryDone, ListedSetAside,
       ListedCompleteIntent, ListedBuild
  <1>. QED
    BY <1>1, <1>2, <1>3, <1>4, <1>5, <1>7, <1>8, <1>9 DEF Next, Run, Recovery, Publish

(* recover_in_dir: what it found is finished or set aside, and stays so,   *)
(* before the change that called it reads its base.                        *)
THEOREM RecoveryComesFirst == Spec => []RecoveredBeforeChange
  <1>1. Init => ListedInv
    BY DEF Init, ListedInv, Rest
  <1>2. ListedInv => RecoveredBeforeChange
    BY DEF ListedInv, RecoveredBeforeChange
  <1>. QED  BY <1>1, <1>2, ListedNext, Invariance, PTL DEF Spec

-----------------------------------------------------------------------------
(* Refinement: every step of the layer is a step of the atomic memory or   *)
(* changes nothing its callers can see.                                    *)

LEMMA AppliedTyped ==
    ASSUME IndInv, NEW r, NEW s, <<r, s>> \in Applied
    PROVE  r \in Request /\ s \in 1..MaxBuilds
  <1>1. PICK k \in DOMAIN branch : <<r, s>> = <<branch[k].req, branch[k].stamp>>
    BY DEF Applied
  <1>2. branch[k] \in Commit /\ branch[k].stamp \in 1..clock /\ clock <= MaxBuilds
        /\ clock \in Nat
    BY DEF IndInv, TypeOK, StampsBounded
  <1>. QED  BY <1>1, <1>2 DEF Commit

LEMMA AcknowledgeRefines ==
    ASSUME IndInv, NEW r, NEW s, <<r, s>> \in Applied,
           acked' = acked \cup {<<r, s>>}, UNCHANGED branch
    PROVE  Memory!AbsNext
  <1>1. r \in Request /\ s \in 1..MaxBuilds
    BY AppliedTyped
  <1>2. Memory!Acknowledge(r, s)
    BY DEF Memory!Acknowledge, Applied, ShowsAt, head
  <1>. QED  BY <1>1, <1>2 DEF Memory!AbsNext

LEMMA SwapRefines ==
    ASSUME IndInv, NEW p \in Proc, NEW i, i = call[p].hand, At(p, "cas"), head = i.base,
           branch' = Append(branch, CommitOf(i)),
           UNCHANGED acked
    PROVE  Memory!AbsNext
  <1> DEFINE new == CommitOf(i)
  <1>1. i \in Intent /\ IsBuild(i) /\ ~HasReceipt(i.req)
    <2>1. Coherent(call[p])
      BY DEF IndInv
    <2>. QED  BY <2>1 DEF Coherent, Holding, At
  <1>2. new \in Commit /\ new.req = i.req /\ new.stamp = i.stamp /\ new.shows = i.shows
    BY <1>1 DEF Intent, Commit, CommitOf
  <1>3. branch \in Seq(Commit) /\ branch' = Append(branch, new)
    BY DEF IndInv, TypeOK
  <1>4. i.req \in Request /\ i.stamp \in 1..MaxBuilds /\ i.shows = ShowsAt(head) \cup {i.stamp}
    BY <1>1 DEF IsBuild, Intent, IndInv, StampsBounded, TypeOK
  <1> HIDE DEF new
  <1>5. /\ head \in Nat
        /\ Len(branch') = head + 1
        /\ DOMAIN branch = 1..head
        /\ DOMAIN branch' = 1..(head + 1)
        /\ branch'[head + 1] = new
        /\ \A k \in 1..head : branch'[k] = branch[k]
    BY <1>2, <1>3 DEF head
  <1>6. \A done \in Applied : done[1] # i.req
    BY <1>1 DEF Applied, HasReceipt
  <1>7. Applied' = Applied \cup {<<i.req, i.stamp>>}
    <2>1. Applied' = {<<branch'[k].req, branch'[k].stamp>> : k \in 1..(head + 1)}
      BY <1>5 DEF Applied
    <2>2. Applied = {<<branch[k].req, branch[k].stamp>> : k \in 1..head}
      BY <1>5 DEF Applied
    <2>3. 1..(head + 1) = 1..head \cup {head + 1}
      BY <1>5
    <2>. QED  BY <1>2, <1>5, <2>1, <2>2, <2>3
  <1>8. ShowsAt(head)' = ShowsAt(head) \cup {i.stamp}
    <2>1. ShowsAt(head)' = branch'[head + 1].shows
      BY <1>5 DEF ShowsAt, head
    <2>. QED  BY <1>2, <1>4, <1>5, <2>1
  <1>9. Memory!Apply(i.req, i.stamp)
    BY <1>6, <1>7, <1>8 DEF Memory!Apply
  <1>. QED  BY <1>4, <1>9 DEF Memory!AbsNext

LEMMA NextRefines == IndInv /\ [Next]_vars => [Memory!AbsNext]_(Memory!absVars)
  <1> SUFFICES ASSUME IndInv, [Next]_vars PROVE [Memory!AbsNext]_(Memory!absVars)
    OBVIOUS
  <1>1. ASSUME UNCHANGED <<branch, acked>>
        PROVE  UNCHANGED Memory!absVars
    BY <1>1 DEF Memory!absVars, Applied, ShowsAt, head
  <1>2. ASSUME NEW p \in Proc, ReceiptCheck(p)
        PROVE  UNCHANGED <<branch, acked>> \/ Memory!AbsNext
    <2>1. ASSUME NEW k \in DOMAIN branch, acked' = acked \cup {<<branch[k].req, branch[k].stamp>>}
          PROVE  Memory!AbsNext
      <3>1. PICK r, s : r = branch[k].req /\ s = branch[k].stamp
        OBVIOUS
      <3>2. <<r, s>> \in Applied /\ acked' = acked \cup {<<r, s>>}
        BY <2>1, <3>1 DEF Applied
      <3>. QED  BY <1>2, <3>2, AcknowledgeRefines DEF ReceiptCheck
    <2>. QED  BY <1>2, <2>1 DEF ReceiptCheck
  <1>3. ASSUME NEW p \in Proc, CompareAndSwap(p)
        PROVE  UNCHANGED <<branch, acked>> \/ Memory!AbsNext
    <2>1. PICK i : i = call[p].hand
      OBVIOUS
    <2>. QED  BY <1>3, <2>1, SwapRefines DEF CompareAndSwap
  <1>4. ASSUME NEW p \in Proc, CompleteIntent(p) \/ AnswerBatch(p)
        PROVE  UNCHANGED <<branch, acked>> \/ Memory!AbsNext
    <2>1. PICK r, s : r = call[p].hand.req /\ s = call[p].hand.stamp
      OBVIOUS
    <2>2. <<r, s>> \in Applied
      BY <1>4, <2>1, PublishedInHand DEF CompleteIntent, AnswerBatch
    <2>. QED
      BY <1>4, <2>1, <2>2, AcknowledgeRefines DEF CompleteIntent, AnswerBatch, Acknowledge
  <1>5. \/ UNCHANGED <<branch, acked>>
        \/ \E p \in Proc : \/ ReceiptCheck(p) \/ CompareAndSwap(p)
                           \/ CompleteIntent(p) \/ AnswerBatch(p)
    BY DEF Next, vars, PowerLoss, Begin, Run, Recovery, Publish, SwapFails, Stop, ListIntents,
       ReadIntent, IntentGone, RecoveryDone, SetAside, TakeHead, Build, BuildBatch, BuildFails,
       PublishCheck, Recheck
  <1>. QED  BY <1>1, <1>2, <1>3, <1>4, <1>5

(* The whole publication layer implements the atomic memory.               *)
THEOREM Refinement == Spec => ImplementsMemory
  <1>1. Init => Memory!AbsInit
    BY DEF Init, Memory!AbsInit, Applied, ShowsAt, head
  <1>. QED
    BY <1>1, NextRefines, Invariance, PTL DEF Spec, ImplementsMemory, Memory!AbsSpec
=============================================================================
