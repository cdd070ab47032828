---------------------------- MODULE JournalProofs ---------------------------
(***************************************************************************)
(* What the journal keeps, for any processes, events and days and any      *)
(* number of kills and power losses.                                       *)
(*   - Its type invariant, for any use of it.                              *)
(*   - No two records have one number or one id, as long as nobody uses    *)
(*     Journal::append (Ops).                                              *)
(*   - What a flush reported durable stays readable, as long as nobody     *)
(*     uses Journal::append (Ops), a record cut short loses more than its  *)
(*     newline (Tears), and a recovery cuts what it saw of a file nobody   *)
(*     is writing to (CutsClear).  Journal_bare and Journal_race are the   *)
(*     counterexamples without the second and the third.                   *)
(*   - What redact reported erased stays erased, as long as nobody uses    *)
(*     Journal::append (Ops) and a recovery cuts the file as it saw it     *)
(*     (CutsFresh).                                                        *)
(* One process at a time satisfies CutsClear and CutsFresh always, and any *)
(* number of bulk writers does, too.                                       *)
(***************************************************************************)
EXTENDS Journal, SequenceTheorems, TLAPS

(* Records and parts of files *)

(* A shortened record keeps its number, its id and its mark, and stays a   *)
(* record.                                                                 *)
LEMMA ShortenedRecord ==
    ASSUME NEW r \in Record, NEW s \in Shortened(r)
    PROVE  /\ s \in Record
           /\ s.seq = r.seq
           /\ s.id = r.id
           /\ s.erased = r.erased
           /\ s.form = "junk" <=> r.form = "junk"
<1>1. CASE r.form = "junk"
    BY <1>1 DEF Shortened, Record, Junk
<1>2. CASE r.form = "whole"
    <2>1. PICK form \in Tears : s = [r EXCEPT !.form = form]
        BY <1>2 DEF Shortened
    <2> QED
        BY <1>2, <2>1, NameAssumption DEF Record, Junk
<1>3. CASE r.form \in {"bare", "part"}
    <2>1. s = [r EXCEPT !.form = "part"]
        BY <1>3 DEF Shortened
    <2> QED
        BY <1>3, <2>1 DEF Record, Junk
<1> QED
    BY <1>1, <1>2, <1>3 DEF Record, Junk

(* The first n records of a file. *)
LEMMA Prefix ==
    ASSUME NEW S, NEW f \in Seq(S), NEW n \in 0..Len(f)
    PROVE  /\ SubSeq(f, 1, n) \in Seq(S)
           /\ Len(SubSeq(f, 1, n)) = n
           /\ \A i \in 1..n : SubSeq(f, 1, n)[i] = f[i]
<1>1. Len(f) \in Nat /\ \A i \in 1..n : f[i] \in S
    BY LenProperties, ElementOfSeq
<1> QED
    BY <1>1, SubSeqProperties

(* What survives of a file is its records, in order, from the first on,    *)
(* and what was synced is as it was.                                       *)
LEMMA SurvivorsAreRecords ==
    ASSUME NEW f \in Seq(Record), NEW n \in Nat, NEW g \in Survivors(f, n)
    PROVE  /\ g \in Seq(Record)
           /\ Len(g) \in n..Len(f)
           /\ \A i \in 1..n : g[i] = f[i]
           /\ \A i \in DOMAIN g : /\ g[i].seq = f[i].seq
                                  /\ g[i].id = f[i].id
                                  /\ g[i].erased = f[i].erased
                                  /\ g[i].form = "junk" <=> f[i].form = "junk"
<1>0. Len(f) \in Nat
    OBVIOUS
<1>1. CASE \E k \in n..Len(f) : g = SubSeq(f, 1, k)
    <2>1. PICK k \in n..Len(f) : g = SubSeq(f, 1, k)
        BY <1>1
    <2>2. k \in 0..Len(f)
        BY <1>0
    <2>3. g \in Seq(Record) /\ Len(g) = k /\ \A i \in 1..k : g[i] = f[i]
        BY <2>1, <2>2, Prefix
    <2> QED
        BY <2>2, <2>3
<1>2. CASE \E k \in (n + 1)..Len(f) : \E r \in Shortened(f[k]) : g = Append(SubSeq(f, 1, k - 1), r)
    <2>1. PICK k \in (n + 1)..Len(f) : \E r \in Shortened(f[k]) : g = Append(SubSeq(f, 1, k - 1), r)
        BY <1>2
    <2> DEFINE h == SubSeq(f, 1, k - 1)
    <2>2. PICK r \in Shortened(f[k]) : g = Append(h, r)
        BY <2>1
    <2>3. k \in 1..Len(f) /\ k - 1 \in 0..Len(f)
        BY <1>0
    <2>4. f[k] \in Record
        BY <2>3
    <2>5. /\ r \in Record /\ r.seq = f[k].seq /\ r.id = f[k].id /\ r.erased = f[k].erased
          /\ r.form = "junk" <=> f[k].form = "junk"
        BY <2>4, ShortenedRecord
    <2>6. h \in Seq(Record) /\ Len(h) = k - 1 /\ \A i \in 1..(k - 1) : h[i] = f[i]
        BY <2>3, Prefix
    <2> HIDE DEF h
    <2>7. g \in Seq(Record) /\ Len(g) = k
        BY <2>2, <2>3, <2>5, <2>6
    <2>8. g[k] = r /\ \A i \in 1..(k - 1) : g[i] = f[i]
        BY <2>2, <2>3, <2>5, <2>6
    <2> QED
        BY <2>3, <2>5, <2>7, <2>8
<1> QED
    BY <1>1, <1>2 DEF Survivors

(* A file whose last record is replaced or whose end is written on.        *)
LEMMA Extended ==
    ASSUME NEW S, NEW f \in Seq(S), NEW r \in S
    PROVE  /\ Append(f, r) \in Seq(S)
           /\ Len(Append(f, r)) = Len(f) + 1
           /\ Append(f, r)[Len(f) + 1] = r
           /\ \A i \in DOMAIN f : i \in DOMAIN Append(f, r) /\ Append(f, r)[i] = f[i]
           /\ \A i \in DOMAIN Append(f, r) : i \in DOMAIN f \/ i = Len(f) + 1
BY AppendProperties

LEMMA JunkIsRecord ==
    Junk \in Record
BY DEF Record

(* A fresh record is a record, cut short or not.                           *)
LEMMA FreshIsRecord ==
    ASSUME NEW r \in Fresh
    PROVE  /\ r \in Record /\ r.form = "whole" /\ r.seq \in Nat /\ r.id \in Event
           /\ \A form \in Tears : /\ [r EXCEPT !.form = form] \in Record
                                   /\ [r EXCEPT !.form = form].form = form
                                   /\ [r EXCEPT !.form = form].seq = r.seq
                                   /\ [r EXCEPT !.form = form].id = r.id
BY NameAssumption DEF Fresh, Record

-----------------------------------------------------------------------------
(* Type correctness *)

(* What TypeOK says of one process. *)
Sound(c) ==
    /\ c \in Local
    /\ \A d \in c.split : c.buffer[d] # <<>>
    /\ c.pc = "persist" => c.hand \in Seq(Record \ {Junk})

LEMMA RestSound ==
    Sound(Rest)
BY DEF Sound, Rest, Local, Step, Operation

LEMMA SoundProcesses ==
    ASSUME TypeOK, NEW p \in Proc
    PROVE  Sound(proc[p])
BY DEF TypeOK, Sound

(* A step of one process that leaves the files alone.                      *)
LEMMA LocalType ==
    ASSUME TypeOK, NEW p \in Proc, NEW c, Sound(c),
           proc' = [proc EXCEPT ![p] = c],
           UNCHANGED <<files, synced>>,
           lock' \in Proc \cup {Nobody},
           faults' \in Nat,
           acked' \subseteq [id : Event, seq : Nat, day : Day],
           promised' \subseteq Event
    PROVE  TypeOK'
BY DEF TypeOK, Sound

(* A step of one process that changes one file.                            *)
LEMMA FileType ==
    ASSUME TypeOK, NEW p \in Proc, NEW c, Sound(c), NEW d \in Day, NEW g \in Seq(Record),
           proc' = [proc EXCEPT ![p] = c],
           files' = [files EXCEPT ![d] = g],
           \/ synced' = [synced EXCEPT ![d] = Len(g)]
           \/ synced' = synced /\ Len(files[d]) <= Len(g),
           UNCHANGED <<lock, faults, acked, promised>>
    PROVE  TypeOK'
<1>1. files' \in [Day -> Seq(Record)]
    BY DEF TypeOK
<1>2. Len(g) \in Nat /\ \A e \in Day : Len(files[e]) \in Nat
    BY DEF TypeOK
<1>3. synced' \in [Day -> Nat] /\ \A e \in Day : synced'[e] <= Len(files'[e])
    BY <1>2 DEF TypeOK
<1>4. proc' \in [Proc -> Local] /\ \A q \in Proc : Sound(proc'[q])
    BY SoundProcesses DEF TypeOK, Sound
<1> QED
    BY <1>1, <1>3, <1>4 DEF TypeOK, Sound

LEMMA ReturnType ==
    ASSUME TypeOK, NEW p \in Proc, Return(p), UNCHANGED <<files, synced>>,
           faults' \in Nat, acked' = acked, promised' \subseteq Event
    PROVE  TypeOK'
<1>1. lock' \in Proc \cup {Nobody}
    BY DEF Return, TypeOK
<1>2. proc' = [proc EXCEPT ![p] = Rest]
    BY DEF Return
<1>3. acked' \subseteq [id : Event, seq : Nat, day : Day]
    BY DEF TypeOK
<1> QED
    BY <1>1, <1>2, <1>3, RestSound, LocalType

LEMMA GotoType ==
    ASSUME TypeOK, NEW p \in Proc, NEW step \in Step \ {"persist"}, Goto(p, step),
           UNCHANGED <<files, synced, lock, faults, acked, promised>>
    PROVE  TypeOK'
<1> DEFINE c == [proc[p] EXCEPT !.pc = step]
<1>1. Sound(c)
    BY SoundProcesses DEF Sound, Local
<1>2. proc' = [proc EXCEPT ![p] = c]
    BY DEF Goto
<1> HIDE DEF c
<1> QED
    BY <1>1, <1>2, LocalType DEF TypeOK

(* One lemma per action. *)

LEMMA BeginType ==
    ASSUME TypeOK, NEW p \in Proc, NEW op \in Operation, Begin(p, op)
    PROVE  TypeOK'
<1>1. PICK targets \in SUBSET Event :
         proc' = [proc EXCEPT ![p] = [Rest EXCEPT
                     !.op = op, !.targets = targets, !.days = Day,
                     !.pc = IF op = "write" THEN "lock" ELSE "scan"]]
    BY DEF Begin
<1> DEFINE pc == IF op = "write" THEN "lock" ELSE "scan"
           c == [Rest EXCEPT !.op = op, !.targets = targets, !.days = Day, !.pc = pc]
<1>2. pc \in {"lock", "scan"}
    OBVIOUS
<1>3. proc' = [proc EXCEPT ![p] = c]
    BY <1>1
<1>4. UNCHANGED <<files, synced, lock, faults, acked, promised>>
    BY DEF Begin
<1> HIDE DEF pc
<1>5. Sound(c)
    BY <1>2, RestSound DEF Sound, Rest, Local, Step
<1> HIDE DEF c
<1> QED
    BY <1>3, <1>4, <1>5, LocalType DEF TypeOK

LEMMA ScanType ==
    ASSUME TypeOK, NEW p \in Proc, Scan(p)
    PROVE  TypeOK'
<1>1. Sound(proc[p]) /\ proc[p].pc = "scan"
    BY SoundProcesses DEF Scan, At
<1>2. PICK d \in Day : \E n \in 0..Len(files[d]) :
         proc' = IF n = Len(files[d])
                 THEN [proc EXCEPT ![p].days = @ \ {d}]
                 ELSE [proc EXCEPT ![p].pc = "cut", ![p].hand = SubSeq(files[d], 1, n)]
    BY DEF Scan
<1>3. PICK n \in 0..Len(files[d]) :
         proc' = IF n = Len(files[d])
                 THEN [proc EXCEPT ![p].days = @ \ {d}]
                 ELSE [proc EXCEPT ![p].pc = "cut", ![p].hand = SubSeq(files[d], 1, n)]
    BY <1>2
<1>4. SubSeq(files[d], 1, n) \in Seq(Record)
    BY Prefix DEF TypeOK
<1> DEFINE c1 == [proc[p] EXCEPT !.days = @ \ {d}]
           c2 == [proc[p] EXCEPT !.pc = "cut", !.hand = SubSeq(files[d], 1, n)]
<1>5. Sound(c1)
    BY <1>1 DEF Sound, Local
<1>6. Sound(c2)
    BY <1>1, <1>4 DEF Sound, Local, Step
<1>7. proc' = [proc EXCEPT ![p] = c1] \/ proc' = [proc EXCEPT ![p] = c2]
    BY <1>3
<1> HIDE DEF c1, c2
<1> QED
    BY <1>5, <1>6, <1>7, LocalType DEF Scan, TypeOK

LEMMA CutType ==
    ASSUME TypeOK, NEW p \in Proc, Cut(p)
    PROVE  TypeOK'
<1>1. Sound(proc[p]) /\ proc[p].pc = "cut"
    BY SoundProcesses DEF Cut, At
<1>2. PICK d \in Day :
         /\ \E g \in IF KeptBy(files[d], proc[p].hand) THEN {proc[p].hand}
                     ELSE Survivors(files[d], 0) \cup {Append(files[d], Junk)} :
               /\ files' = [files EXCEPT ![d] = g]
               /\ synced' = [synced EXCEPT ![d] = Len(g)]
         /\ proc' = [proc EXCEPT ![p].pc = "scan", ![p].days = @ \ {d}, ![p].hand = <<>>]
    BY DEF Cut
<1>3. PICK g \in {proc[p].hand} \cup Survivors(files[d], 0) \cup {Append(files[d], Junk)} :
         files' = [files EXCEPT ![d] = g] /\ synced' = [synced EXCEPT ![d] = Len(g)]
    BY <1>2
<1>4. files[d] \in Seq(Record) /\ proc[p].hand \in Seq(Record)
    BY <1>1 DEF TypeOK, Sound, Local
<1>5. g \in Seq(Record)
    <2>1. CASE g = proc[p].hand
        BY <2>1, <1>4
    <2>2. CASE g \in Survivors(files[d], 0)
        BY <2>2, <1>4, SurvivorsAreRecords
    <2>3. CASE g = Append(files[d], Junk)
        BY <2>3, <1>4, JunkIsRecord, Extended
    <2> QED
        BY <1>3, <2>1, <2>2, <2>3
<1> DEFINE c == [proc[p] EXCEPT !.pc = "scan", !.days = @ \ {d}, !.hand = <<>>]
<1>6. Sound(c)
    <2>1. <<>> \in Seq(Record)
        OBVIOUS
    <2> QED
        BY <1>1, <2>1 DEF Sound, Local, Step
<1>7. proc' = [proc EXCEPT ![p] = c]
    BY <1>2
<1> HIDE DEF c
<1> QED
    BY <1>3, <1>5, <1>6, <1>7, FileType DEF Cut

LEMMA RecoveredType ==
    ASSUME TypeOK, NEW p \in Proc, Recovered(p)
    PROVE  TypeOK'
<1>1. proc[p].op \in Operation
    BY SoundProcesses DEF Sound, Local
<1>2. \/ Return(p)
      \/ \E step \in {"base", "max", "lock"} : Goto(p, step) /\ UNCHANGED lock
    BY <1>1 DEF Recovered, Operation
<1>3. {"base", "max", "lock"} \subseteq Step \ {"persist"}
    BY DEF Step
<1>4. UNCHANGED <<files, synced, faults, acked, promised>>
    BY DEF Recovered
<1> QED
    BY <1>2, <1>3, <1>4, ReturnType, GotoType DEF TypeOK

LEMMA TakeLockType ==
    ASSUME TypeOK, NEW p \in Proc, TakeLock(p)
    PROVE  TypeOK'
<1>1. Sound(proc[p]) /\ proc[p].op \in Operation
    BY SoundProcesses DEF Sound, Local
<1>2. AfterLock(proc[p].op) \in Step \ {"persist"}
    BY <1>1 DEF AfterLock, Operation, Step
<1> DEFINE c == [proc[p] EXCEPT !.pc = AfterLock(proc[p].op), !.days = Day]
<1>3. Sound(c)
    BY <1>1, <1>2 DEF Sound, Local, Step
<1>4. proc' = [proc EXCEPT ![p] = c]
    BY DEF TakeLock
<1> HIDE DEF c
<1> QED
    BY <1>3, <1>4, LocalType DEF TakeLock, TypeOK

(* A journal that parses holds no junk.                                    *)
LEMMA ReadableRecords ==
    ASSUME TypeOK, Readable, NEW r \in Records
    PROVE  r \in Record /\ r.form # "junk" /\ r.id \in Event /\ r.seq \in Nat
<1>1. PICK d \in Day : \E i \in DOMAIN files[d] : r = files[d][i]
    BY DEF Records, OnDisk
<1>2. PICK i \in DOMAIN files[d] : r = files[d][i]
    BY <1>1
<1>3. files[d] \in Seq(Record) /\ i \in 1..Len(files[d])
    BY DEF TypeOK
<1>4. r \in Record
    BY <1>2, <1>3
<1>5. r.form \in {"whole", "bare"}
    BY <1>2, <1>3 DEF Readable, Good
<1> QED
    BY <1>4, <1>5 DEF Record, Junk

LEMMA BaselineType ==
    ASSUME TypeOK, NEW p \in Proc, Baseline(p)
    PROVE  TypeOK'
<1>1. Sound(proc[p])
    BY SoundProcesses
<1>2. UNCHANGED <<files, synced, faults, acked, promised>>
    BY DEF Baseline
<1>3. CASE ~Readable
    BY <1>2, <1>3, ReturnType DEF Baseline, TypeOK
<1>4. CASE Readable
    <2>1. PICK n \in 1..(MaxSeq + 1) :
             proc' = [proc EXCEPT ![p].pc = "append", ![p].next = n,
                                  ![p].seen = {r.id : r \in Records}]
        BY <1>4 DEF Baseline
    <2> DEFINE c == [proc[p] EXCEPT !.pc = "append", !.next = n, !.seen = {r.id : r \in Records}]
    <2>2. {r.id : r \in Records} \subseteq Event
        BY <1>4, ReadableRecords
    <2>3. n \in Nat
        BY BoundAssumption
    <2>4. Sound(c)
        BY <1>1, <2>2, <2>3 DEF Sound, Local, Step
    <2>5. proc' = [proc EXCEPT ![p] = c]
        BY <2>1
    <2>6. UNCHANGED lock
        BY <1>4 DEF Baseline
    <2> HIDE DEF c
    <2> QED
        BY <1>2, <2>4, <2>5, <2>6, LocalType DEF TypeOK
<1> QED
    BY <1>3, <1>4

LEMMA NewRecordFresh ==
    ASSUME NEW e \in Event, NEW n \in Nat
    PROVE  NewRecord(e, n) \in Fresh /\ NewRecord(e, n).seq = n /\ NewRecord(e, n).id = e
BY DEF NewRecord, Fresh

LEMMA BulkAppendType ==
    ASSUME TypeOK, NEW p \in Proc, NEW e \in Event, NEW d \in Day, BulkAppend(p, e, d)
    PROVE  TypeOK'
<1>1. Sound(proc[p]) /\ proc[p].next \in Nat /\ proc[p].split = {} /\ proc[p].pc = "append"
    BY SoundProcesses DEF BulkAppend, Sound, Local, At
<1> DEFINE r == NewRecord(e, proc[p].next)
           m == [id |-> e, seq |-> proc[p].next, day |-> d]
           b == [proc[p].buffer EXCEPT ![d] = Append(@, r)]
           c == [proc[p] EXCEPT !.seen = @ \cup {e}, !.next = @ + 1, !.buffer = b,
                                !.mine = @ \cup {m}]
<1>2. r \in Fresh /\ m \in [id : Event, seq : Nat, day : Day]
    BY <1>1, NewRecordFresh
<1>3. proc' = [proc EXCEPT ![p] = c]
    BY DEF BulkAppend
<1> HIDE DEF r, m
<1>4. Append(proc[p].buffer[d], r) \in Seq(Fresh)
    BY <1>1, <1>2 DEF Sound, Local
<1>5. proc[p].mine \cup {m} \subseteq [id : Event, seq : Nat, day : Day]
    BY <1>1, <1>2 DEF Sound, Local
<1>6. b \in [Day -> Seq(Fresh)]
    BY <1>1, <1>4 DEF Sound, Local
<1> HIDE DEF b
<1>7. c \in Local
    <2>1. proc[p] \in Local /\ proc[p].seen \cup {e} \in SUBSET Event /\ proc[p].next + 1 \in Nat
        BY <1>1 DEF Sound, Local
    <2>2. proc[p].mine \cup {m} \in SUBSET [id : Event, seq : Nat, day : Day]
        BY <1>5
    <2> QED
        BY <2>1, <2>2, <1>6 DEF Local
<1>8. Sound(c)
    BY <1>1, <1>7 DEF Sound, Local
<1> HIDE DEF c
<1> QED
    BY <1>3, <1>8, LocalType DEF BulkAppend, TypeOK

(* The next record of a buffer, and the buffer without it.                 *)
LEMMA HeadOfBuffer ==
    ASSUME TypeOK, NEW p \in Proc, NEW d \in Day, proc[p].buffer[d] # <<>>
    PROVE  /\ Head(proc[p].buffer[d]) \in Fresh
           /\ Tail(proc[p].buffer[d]) \in Seq(Fresh)
           /\ proc[p].buffer[d] \in Seq(Fresh)
<1>1. proc[p].buffer[d] \in Seq(Fresh)
    BY DEF TypeOK, Local
<1> QED
    BY <1>1, HeadTailProperties

LEMMA WriteRecordType ==
    ASSUME TypeOK, NEW p \in Proc, NEW d \in Day, WriteRecord(p, d)
    PROVE  TypeOK'
<1> DEFINE r == Head(proc[p].buffer[d])
           c == [proc[p] EXCEPT !.buffer[d] = Tail(@)]
<1>1. Sound(proc[p]) /\ proc[p].split = {} /\ proc[p].pc \in Writing
    BY SoundProcesses DEF WriteRecord
<1>2. r \in Fresh /\ Tail(proc[p].buffer[d]) \in Seq(Fresh)
    BY HeadOfBuffer DEF WriteRecord
<1>3. Sound(c)
    BY <1>1, <1>2 DEF Sound, Local, Writing
<1>4. files[d] \in Seq(Record) /\ r \in Record
    BY <1>2, FreshIsRecord DEF TypeOK
<1>5. Append(files[d], r) \in Seq(Record) /\ Len(files[d]) <= Len(Append(files[d], r))
    BY <1>4, Extended
<1>6. proc' = [proc EXCEPT ![p] = c] /\ files' = [files EXCEPT ![d] = Append(files[d], r)]
    BY DEF WriteRecord
<1>7. UNCHANGED <<synced, lock, faults, acked, promised>>
    BY DEF WriteRecord
<1> HIDE DEF c, r
<1> QED
    BY <1>3, <1>5, <1>6, <1>7, FileType

LEMMA WriteSomeType ==
    ASSUME TypeOK, NEW p \in Proc, NEW d \in Day, WriteSome(p, d)
    PROVE  TypeOK'
<1>1. PICK form \in Tears : files' = [files EXCEPT ![d] =
             Append(@, [Head(proc[p].buffer[d]) EXCEPT !.form = form])]
    BY DEF WriteSome
<1> DEFINE r == [Head(proc[p].buffer[d]) EXCEPT !.form = form]
           c == [proc[p] EXCEPT !.split = {d}]
<1>2. Sound(proc[p]) /\ proc[p].buffer[d] # <<>> /\ proc[p].pc \in Writing
    BY SoundProcesses DEF WriteSome
<1>3. Sound(c)
    BY <1>2 DEF Sound, Local, Writing
<1>4. files[d] \in Seq(Record) /\ r \in Record
    BY <1>2, HeadOfBuffer, FreshIsRecord DEF TypeOK
<1>5. Append(files[d], r) \in Seq(Record) /\ Len(files[d]) <= Len(Append(files[d], r))
    BY <1>4, Extended
<1>6. proc' = [proc EXCEPT ![p] = c] /\ files' = [files EXCEPT ![d] = Append(files[d], r)]
    BY <1>1 DEF WriteSome
<1>7. UNCHANGED <<synced, lock, faults, acked, promised>>
    BY DEF WriteSome
<1> HIDE DEF c, r
<1> QED
    BY <1>3, <1>5, <1>6, <1>7, FileType

LEMMA WriteRestType ==
    ASSUME TypeOK, NEW p \in Proc, NEW d \in Day, WriteRest(p, d)
    PROVE  TypeOK'
<1> DEFINE f == files[d]
           r == Head(proc[p].buffer[d])
           b == [proc[p].buffer EXCEPT ![d] = Tail(@)]
           c == [proc[p] EXCEPT !.split = {}, !.buffer = b]
<1>1. Sound(proc[p]) /\ proc[p].buffer[d] # <<>>
    BY SoundProcesses DEF WriteRest, Sound
<1>2. r \in Fresh /\ Tail(proc[p].buffer[d]) \in Seq(Fresh)
    BY <1>1, HeadOfBuffer
<1>3. b \in [Day -> Seq(Fresh)]
    BY <1>1, <1>2 DEF Sound, Local
<1>4. f \in Seq(Record) /\ r \in Record
    BY <1>2, FreshIsRecord DEF TypeOK
<1>5. PICK g \in {[f EXCEPT ![Len(f)] = r], Append(f, Junk)} :
          /\ files' = [files EXCEPT ![d] = g]
          /\ g # Append(f, Junk) => Len(f) > 0
    BY DEF WriteRest
<1>6. g \in Seq(Record) /\ Len(f) <= Len(g)
    <2>1. CASE g = Append(f, Junk)
        BY <2>1, <1>4, JunkIsRecord, Extended
    <2>2. CASE g = [f EXCEPT ![Len(f)] = r] /\ Len(f) > 0
        BY <2>2, <1>4, ExceptSeq
    <2> QED
        BY <1>5, <2>1, <2>2
<1>7. proc' = [proc EXCEPT ![p] = c]
    BY DEF WriteRest
<1>8. UNCHANGED <<synced, lock, faults, acked, promised>>
    BY DEF WriteRest
<1> HIDE DEF b, r
<1>9. Sound(c)
    BY <1>1, <1>3 DEF Sound, Local
<1> HIDE DEF c
<1> QED
    BY <1>5, <1>6, <1>7, <1>8, <1>9, FileType

LEMMA StartFlushType ==
    ASSUME TypeOK, NEW p \in Proc, StartFlush(p) \/ StartDrop(p)
    PROVE  TypeOK'
<1>1. Sound(proc[p])
    BY SoundProcesses
<1>2. Opened(p) \in SUBSET Day
    BY <1>1 DEF Opened, Sound, Local
<1>3. PICK step \in {"flush", "drop"} :
         proc' = [proc EXCEPT ![p].pc = step, ![p].days = Opened(p)]
    BY DEF StartFlush, StartDrop
<1> DEFINE c == [proc[p] EXCEPT !.pc = step, !.days = Opened(p)]
<1>4. Sound(c)
    BY <1>1, <1>2 DEF Sound, Local, Step
<1>5. proc' = [proc EXCEPT ![p] = c] /\ UNCHANGED <<files, synced, lock, faults, acked, promised>>
    BY <1>3 DEF StartFlush, StartDrop
<1> HIDE DEF c
<1> QED
    BY <1>4, <1>5, LocalType DEF TypeOK

LEMMA SyncDayType ==
    ASSUME TypeOK, NEW p \in Proc, NEW d \in Day, SyncDay(p, d)
    PROVE  TypeOK'
<1> DEFINE c == [proc[p] EXCEPT !.days = @ \ {d}]
<1>1. Sound(c) /\ files[d] \in Seq(Record)
    BY SoundProcesses DEF Sound, Local, TypeOK
<1>2. /\ proc' = [proc EXCEPT ![p] = c]
      /\ files' = [files EXCEPT ![d] = files[d]]
      /\ synced' = [synced EXCEPT ![d] = Len(files[d])]
      /\ UNCHANGED <<lock, faults, acked, promised>>
    BY DEF SyncDay, TypeOK
<1> HIDE DEF c
<1> QED
    BY <1>1, <1>2, FileType

LEMMA FlushDoneType ==
    ASSUME TypeOK, NEW p \in Proc, FlushDone(p)
    PROVE  TypeOK'
<1>1. Sound(proc[p])
    BY SoundProcesses
<1>2. acked' \subseteq [id : Event, seq : Nat, day : Day]
    BY <1>1 DEF FlushDone, TypeOK, Sound, Local
<1>3. PICK c \in {Rest, [proc[p] EXCEPT !.pc = "append"]} : proc' = [proc EXCEPT ![p] = c]
    BY DEF FlushDone, Return, Goto
<1>4. Sound(c)
    BY <1>1, <1>3, RestSound DEF Sound, Local, Step
<1>5. lock' \in Proc \cup {Nobody}
    BY DEF FlushDone, Return, TypeOK
<1>6. UNCHANGED <<files, synced, faults, promised>>
    BY DEF FlushDone
<1> QED
    BY <1>2, <1>3, <1>4, <1>5, <1>6, LocalType DEF TypeOK

LEMMA TakeNumberType ==
    ASSUME TypeOK, NEW p \in Proc, TakeNumber(p)
    PROVE  TypeOK'
<1>1. Sound(proc[p]) /\ UNCHANGED <<files, synced, faults, acked, promised>>
    BY SoundProcesses DEF TakeNumber
<1>2. CASE Return(p)
    BY <1>1, <1>2, ReturnType DEF TypeOK
<1>3. CASE ~Return(p)
    <2>1. PICK n \in 1..MaxSeq : proc' = [proc EXCEPT ![p].pc = "lock", ![p].next = n]
        BY <1>3 DEF TakeNumber
    <2> DEFINE c == [proc[p] EXCEPT !.pc = "lock", !.next = n]
    <2>2. n \in Nat
        BY BoundAssumption
    <2>3. Sound(c)
        BY <1>1, <2>2 DEF Sound, Local, Step
    <2>4. proc' = [proc EXCEPT ![p] = c] /\ lock' = lock
        BY <1>3, <2>1 DEF TakeNumber
    <2> HIDE DEF c
    <2> QED
        BY <1>1, <2>3, <2>4, LocalType DEF TypeOK
<1> QED
    BY <1>2, <1>3

LEMMA AppendOneType ==
    ASSUME TypeOK, NEW p \in Proc, NEW e \in Event, NEW d \in Day, AppendOne(p, e, d)
    PROVE  TypeOK'
<1>1. Sound(proc[p]) /\ proc[p].next \in Nat
    BY SoundProcesses DEF Sound, Local
<1> DEFINE r == NewRecord(e, proc[p].next)
           m == [id |-> e, seq |-> proc[p].next, day |-> d]
           b == [proc[p].buffer EXCEPT ![d] = <<r>>]
           c == [proc[p] EXCEPT !.pc = "flush", !.days = {d}, !.buffer = b, !.mine = {m}]
<1>2. r \in Fresh /\ {m} \in SUBSET [id : Event, seq : Nat, day : Day]
    BY <1>1, NewRecordFresh
<1>3. proc' = [proc EXCEPT ![p] = c]
    BY DEF AppendOne
<1>4. UNCHANGED <<files, synced, lock, faults, acked, promised>>
    BY DEF AppendOne
<1> HIDE DEF r, m
<1>5. <<r>> \in Seq(Fresh) /\ <<r>> # <<>>
    BY <1>2
<1>6. b \in [Day -> Seq(Fresh)] /\ \A x \in proc[p].split : b[x] # <<>>
    BY <1>1, <1>5 DEF Sound, Local
<1> HIDE DEF b
<1>7. Sound(c)
    BY <1>1, <1>2, <1>6 DEF Sound, Local, Step
<1> HIDE DEF c
<1> QED
    BY <1>3, <1>4, <1>7, LocalType DEF TypeOK

LEMMA ReadDayType ==
    ASSUME TypeOK, NEW p \in Proc, ReadDay(p)
    PROVE  TypeOK'
<1>1. Sound(proc[p]) /\ proc[p].pc = "rewrite" /\ UNCHANGED <<files, synced, faults, acked, promised>>
    BY SoundProcesses DEF ReadDay, At
<1>2. CASE Return(p)
    BY <1>1, <1>2, ReturnType DEF TypeOK
<1>3. CASE ~Return(p)
    <2>1. PICK d \in Day :
             /\ Good(files[d], Len(files[d]))
             /\ UNCHANGED lock
             /\ \/ proc' = [proc EXCEPT ![p].days = @ \ {d}]
                \/ proc' = [proc EXCEPT ![p].pc = "persist", ![p].hand = files[d]]
        BY <1>3 DEF ReadDay
    <2> DEFINE c1 == [proc[p] EXCEPT !.days = @ \ {d}]
               c2 == [proc[p] EXCEPT !.pc = "persist", !.hand = files[d]]
    <2>2. files[d] \in Seq(Record \ {Junk})
        <3>1. files[d] \in Seq(Record) /\ \A i \in 1..Len(files[d]) : files[d][i].form # "junk"
            BY <2>1 DEF Good, TypeOK
        <3>2. \A i \in 1..Len(files[d]) : files[d][i] \in Record \ {Junk}
            BY <3>1 DEF Junk
        <3> QED
            BY <3>1, <3>2
    <2>3. Sound(c1)
        BY <1>1 DEF Sound, Local
    <2>4. files[d] \in Seq(Record)
        BY DEF TypeOK
    <2>5. Sound(c2)
        BY <1>1, <2>2, <2>4 DEF Sound, Local, Step
    <2>6. proc' = [proc EXCEPT ![p] = c1] \/ proc' = [proc EXCEPT ![p] = c2]
        BY <2>1
    <2> HIDE DEF c1, c2
    <2> QED
        BY <1>1, <2>1, <2>3, <2>5, <2>6, LocalType DEF TypeOK
<1> QED
    BY <1>2, <1>3

(* A record as redact writes it back.                                      *)
Rewritten(r, targets) == [r EXCEPT !.form = "whole", !.erased = @ \/ r.id \in targets]

LEMMA RewrittenRecord ==
    ASSUME NEW r \in Record \ {Junk}, NEW targets
    PROVE  /\ Rewritten(r, targets) \in Record
           /\ Rewritten(r, targets).seq = r.seq
           /\ Rewritten(r, targets).id = r.id
           /\ Rewritten(r, targets).form = "whole"
BY DEF Rewritten, Record, Junk

LEMMA PersistType ==
    ASSUME TypeOK, NEW p \in Proc, Persist(p)
    PROVE  TypeOK'
<1> DEFINE h == proc[p].hand
           g == [i \in DOMAIN h |-> Rewritten(h[i], proc[p].targets)]
<1>1. Sound(proc[p]) /\ proc[p].pc = "persist" /\ h \in Seq(Record \ {Junk})
    BY SoundProcesses DEF Persist, At, Sound
<1>2. PICK d \in Day :
         /\ files' = [files EXCEPT ![d] = g]
         /\ synced' = [synced EXCEPT ![d] = Len(h)]
         /\ proc' = [proc EXCEPT ![p].pc = "rewrite", ![p].days = @ \ {d}, ![p].hand = <<>>]
    BY DEF Persist, Rewritten
<1>3. \A i \in DOMAIN h : Rewritten(h[i], proc[p].targets) \in Record
    BY <1>1, RewrittenRecord
<1>4. g \in Seq(Record) /\ Len(g) = Len(h)
    BY <1>1, <1>3
<1> DEFINE c == [proc[p] EXCEPT !.pc = "rewrite", !.days = @ \ {d}, !.hand = <<>>]
<1>5. <<>> \in Seq(Record)
    OBVIOUS
<1>6. Sound(c)
    BY <1>1, <1>5 DEF Sound, Local, Step
<1>7. proc' = [proc EXCEPT ![p] = c] /\ UNCHANGED <<lock, faults, acked, promised>>
    BY <1>2 DEF Persist
<1> HIDE DEF c, g
<1> QED
    BY <1>2, <1>4, <1>6, <1>7, FileType

LEMMA RedactDoneType ==
    ASSUME TypeOK, NEW p \in Proc, RedactDone(p)
    PROVE  TypeOK'
<1>1. promised' \subseteq Event
    BY SoundProcesses DEF RedactDone, TypeOK, Sound, Local
<1> QED
    BY <1>1, ReturnType DEF RedactDone, TypeOK

LEMMA KillType ==
    ASSUME TypeOK, NEW p \in Proc, Kill(p)
    PROVE  TypeOK'
BY ReturnType DEF Kill, TypeOK

LEMMA PowerLossType ==
    ASSUME TypeOK, PowerLoss
    PROVE  TypeOK'
<1>1. \A d \in Day : /\ files'[d] \in Seq(Record)
                     /\ synced[d] <= Len(files'[d])
    <2> SUFFICES ASSUME NEW d \in Day
                 PROVE  files'[d] \in Seq(Record) /\ synced[d] <= Len(files'[d])
        OBVIOUS
    <2>1. files[d] \in Seq(Record) /\ synced[d] \in Nat /\ files'[d] \in Survivors(files[d], synced[d])
        BY DEF PowerLoss, TypeOK
    <2> QED
        BY <2>1, SurvivorsAreRecords
<1>2. files' \in [Day -> Seq(Record)]
    BY <1>1 DEF PowerLoss
<1>3. proc' \in [Proc -> Local] /\ \A q \in Proc : Sound(proc'[q])
    BY RestSound DEF PowerLoss, Sound
<1>4. lock' = Nobody /\ faults' = faults + 1 /\ UNCHANGED <<synced, acked, promised>>
    BY DEF PowerLoss
<1> QED
    BY <1>1, <1>2, <1>3, <1>4 DEF TypeOK, Sound

LEMMA InitType ==
    Init => TypeOK
<1> SUFFICES ASSUME Init PROVE TypeOK
    OBVIOUS
<1>1. files \in [Day -> Seq(Record)] /\ synced \in [Day -> Nat]
    BY DEF Init
<1>2. \A d \in Day : synced[d] <= Len(files[d])
    BY DEF Init
<1>3. proc \in [Proc -> Local] /\ \A p \in Proc : Sound(proc[p])
    BY RestSound DEF Init, Sound
<1> QED
    BY <1>1, <1>2, <1>3 DEF Init, TypeOK, Sound

(* A process does what the constants allow it; TypeOK asks for no more.    *)
LEMMA TypeStep ==
    TypeOK /\ [Next]_vars => TypeOK'
<1> SUFFICES ASSUME TypeOK, [Next]_vars PROVE TypeOK'
    OBVIOUS
<1>1. CASE UNCHANGED vars
    BY <1>1 DEF vars, TypeOK
<1>2. CASE PowerLoss
    BY <1>2, PowerLossType
<1>3. ASSUME NEW p \in Proc, NEW op \in Ops, Begin(p, op)
      PROVE  TypeOK'
    BY <1>3, BeginType, NameAssumption
<1>4. ASSUME NEW p \in Proc, Run(p)
      PROVE  TypeOK'
    <2>1. CASE Recover(p)
        BY <2>1, ScanType, CutType, RecoveredType DEF Recover
    <2>2. CASE TakeLock(p)
        BY <2>2, TakeLockType
    <2>3. CASE LockTimeout(p)
        BY <2>3, ReturnType DEF LockTimeout, TypeOK
    <2>4. CASE Baseline(p)
        BY <2>4, BaselineType
    <2>5. CASE TakeNumber(p)
        BY <2>5, TakeNumberType
    <2>6. CASE \E e \in Event, d \in Day : BulkAppend(p, e, d) \/ AppendOne(p, e, d)
        BY <2>6, BulkAppendType, AppendOneType
    <2>7. CASE Flush(p)
        <3>1. CASE StartFlush(p) \/ StartDrop(p)
            BY <3>1, StartFlushType
        <3>2. CASE FlushDone(p)
            BY <3>2, FlushDoneType
        <3>3. CASE DropDone(p)
            BY <3>3, ReturnType DEF DropDone, TypeOK
        <3>4. CASE \E d \in Day : WriteRecord(p, d) \/ WriteSome(p, d) \/ WriteRest(p, d) \/ SyncDay(p, d)
            BY <3>4, WriteRecordType, WriteSomeType, WriteRestType, SyncDayType
        <3> QED
            BY <2>7, <3>1, <3>2, <3>3, <3>4 DEF Flush
    <2>8. CASE Redact(p)
        BY <2>8, ReadDayType, PersistType, RedactDoneType DEF Redact
    <2> QED
        BY <1>4, <2>1, <2>2, <2>3, <2>4, <2>5, <2>6, <2>7, <2>8 DEF Run
<1>5. ASSUME NEW p \in Proc, Kill(p)
      PROVE  TypeOK'
    BY <1>5, KillType
<1> QED
    BY <1>1, <1>2, <1>3, <1>4, <1>5 DEF Next

(* Whatever the processes do, and whoever uses Journal::append, a file is a *)
(* sequence of records, nothing beyond its end is taken for synced, and    *)
(* what redact holds to write back holds no junk.                          *)
THEOREM TypeCorrect ==
    Spec => []TypeOK
<1>1. TypeOK /\ [Next]_vars => TypeOK'
    BY TypeStep
<1> QED
    BY <1>1, InitType, PTL DEF Spec

-----------------------------------------------------------------------------
(* One number and one id for one record *)

(* NumbersUnique and NoDuplicates of a set of files. *)
AllDifferent(fs) ==
    \A d1, d2 \in Day : \A i \in DOMAIN fs[d1], j \in DOMAIN fs[d2] :
        /\ Named(fs, d1, i) /\ Named(fs, d2, j)
        /\ <<d1, i>> # <<d2, j>>
        => Different(fs[d1][i], fs[d2][j])

(* Every record of the files gs has its place, number and id in fs.        *)
Fewer(fs, gs) ==
    \A d \in Day : \A i \in DOMAIN gs[d] : Named(gs, d, i) =>
        /\ i \in DOMAIN fs[d] /\ Named(fs, d, i)
        /\ gs[d][i].seq = fs[d][i].seq
        /\ gs[d][i].id = fs[d][i].id

(* What UniqueInv says of process p in state c, with the lock at l.        *)
InvOf(fs, l, p, c) ==
    /\ c.op # "append" /\ c.pc # "max"
    /\ c.pc = "lock" => c.op \in {"write", "redact"}
    /\ Inside(c) => l = p
    /\ BufferInv(c)
    /\ c.pc \in Writing => WriterInv(fs, c)
    /\ c.pc = "persist" => PersistInv(fs, c)

LEMMA AllDifferentIsUnique ==
    /\ AllDifferent(files) <=> NumbersUnique /\ NoDuplicates
    /\ AllDifferent(files') <=> (NumbersUnique /\ NoDuplicates)'
BY DEF AllDifferent, NumbersUnique, NoDuplicates, Different

LEMMA UniqueInvParts ==
    /\ UniqueInv <=> TypeOK /\ AllDifferent(files) /\ \A p \in Proc : InvOf(files, lock, p, proc[p])
    /\ UniqueInv' <=> TypeOK' /\ AllDifferent(files') /\ \A p \in Proc : InvOf(files', lock', p, proc'[p])
BY AllDifferentIsUnique DEF UniqueInv, InvOf

LEMMA FewerDifferent ==
    ASSUME NEW fs, NEW gs, Fewer(fs, gs), AllDifferent(fs)
    PROVE  AllDifferent(gs)
BY DEF Fewer, AllDifferent, Different

LEMMA FewerWriter ==
    ASSUME NEW fs, NEW gs, NEW c, Fewer(fs, gs), WriterInv(fs, c)
    PROVE  WriterInv(gs, c)
<1>1. ASSUME NEW d \in Day, NEW i \in DOMAIN gs[d], Named(gs, d, i)
      PROVE  gs[d][i].seq < c.next /\ gs[d][i].id \in c.seen
    BY <1>1 DEF Fewer, WriterInv
<1>2. ASSUME NEW d1 \in Day, NEW d2 \in Day, NEW i \in DOMAIN gs[d1], NEW j \in DOMAIN c.buffer[d2],
             Named(gs, d1, i), ~Different(gs[d1][i], c.buffer[d2][j])
      PROVE  /\ d2 \in c.split /\ j = 1
             /\ gs[d1][i].seq = c.buffer[d2][j].seq
             /\ gs[d1][i].id = c.buffer[d2][j].id
    BY <1>2 DEF Fewer, WriterInv, Different
<1> QED
    BY <1>1, <1>2 DEF WriterInv

LEMMA FewerPersist ==
    ASSUME NEW fs, NEW gs, NEW c, Fewer(fs, gs), PersistInv(fs, c)
    PROVE  PersistInv(gs, c)
BY DEF Fewer, PersistInv, Different

(* A step of one process: the others are not in the lock, or it took no    *)
(* more than records from the files.                                       *)
LEMMA OneStep ==
    ASSUME UniqueInv, TypeOK', NEW p \in Proc,
           \A q \in Proc \ {p} : proc'[q] = proc[q],
           AllDifferent(files'),
           InvOf(files', lock', p, proc'[p]),
           Fewer(files, files') \/ lock = p,
           lock' = lock \/ lock \in {p, Nobody}
    PROVE  UniqueInv'
<1>1. \A q \in Proc \ {p} : InvOf(files', lock', q, proc'[q])
    <2> SUFFICES ASSUME NEW q \in Proc \ {p}
                 PROVE  InvOf(files', lock', q, proc[q])
        OBVIOUS
    <2>1. InvOf(files, lock, q, proc[q])
        BY UniqueInvParts
    <2>2. Inside(proc[q]) => lock' = q /\ lock = q
        BY <2>1, NameAssumption DEF InvOf
    <2>3. proc[q].pc \in Writing \cup {"persist"} => Inside(proc[q])
        BY DEF Inside, Writing
    <2>4. proc[q].pc \in Writing => WriterInv(files', proc[q])
        BY <2>1, <2>2, <2>3, FewerWriter DEF InvOf
    <2>5. proc[q].pc = "persist" => PersistInv(files', proc[q])
        BY <2>1, <2>2, <2>3, FewerPersist DEF InvOf
    <2> QED
        BY <2>1, <2>2, <2>4, <2>5 DEF InvOf
<1> QED
    BY <1>1, UniqueInvParts

(* A step that leaves the files alone.                                     *)
LEMMA LocalUnique ==
    ASSUME UniqueInv, TypeOK', NEW p \in Proc, NEW c,
           proc' = [proc EXCEPT ![p] = c],
           files' = files,
           InvOf(files, lock', p, c),
           lock' = lock \/ lock \in {p, Nobody}
    PROVE  UniqueInv'
<1>1. proc'[p] = c /\ \A q \in Proc \ {p} : proc'[q] = proc[q]
    BY DEF UniqueInv, TypeOK
<1>2. AllDifferent(files') /\ Fewer(files, files')
    BY UniqueInvParts DEF Fewer
<1> QED
    BY <1>1, <1>2, OneStep

LEMMA InvOfRest ==
    ASSUME NEW fs, NEW l, NEW p
    PROVE  InvOf(fs, l, p, Rest)
BY DEF InvOf, Rest, Inside, BufferInv, Writing

LEMMA ReturnUnique ==
    ASSUME UniqueInv, TypeOK', NEW p \in Proc, Return(p), files' = files
    PROVE  UniqueInv'
BY InvOfRest, LocalUnique DEF Return

(* What UniqueInv says of the process that takes a step.                   *)
LEMMA Mine ==
    ASSUME UniqueInv, NEW p \in Proc
    PROVE  InvOf(files, lock, p, proc[p]) /\ proc[p] \in Local /\ AllDifferent(files)
BY UniqueInvParts DEF UniqueInv, TypeOK

LEMMA BeginUnique ==
    ASSUME UniqueInv, TypeOK', NEW p \in Proc, NEW op \in Operation \ {"append"}, Begin(p, op)
    PROVE  UniqueInv'
<1>1. PICK targets \in SUBSET Event :
         proc' = [proc EXCEPT ![p] = [Rest EXCEPT
                     !.op = op, !.targets = targets, !.days = Day,
                     !.pc = IF op = "write" THEN "lock" ELSE "scan"]]
    BY DEF Begin
<1> DEFINE c == [Rest EXCEPT !.op = op, !.targets = targets, !.days = Day,
                             !.pc = IF op = "write" THEN "lock" ELSE "scan"]
<1>2. /\ c.op = op /\ c.pc = (IF op = "write" THEN "lock" ELSE "scan")
      /\ c.split = {} /\ \A d \in Day : c.buffer[d] = <<>>
    BY DEF Rest
<1>3. proc' = [proc EXCEPT ![p] = c] /\ UNCHANGED <<files, lock>>
    BY <1>1 DEF Begin
<1> HIDE DEF c
<1>4. InvOf(files, lock', p, c)
    BY <1>2 DEF InvOf, Inside, BufferInv, Writing
<1> QED
    BY <1>3, <1>4, LocalUnique

LEMMA ScanUnique ==
    ASSUME UniqueInv, TypeOK', NEW p \in Proc, Scan(p)
    PROVE  UniqueInv'
<1>1. InvOf(files, lock, p, proc[p]) /\ proc[p] \in Local /\ proc[p].pc = "scan"
    BY Mine DEF Scan, At
<1>2. PICK d \in Day : \E n \in 0..Len(files[d]) :
         proc' = IF n = Len(files[d])
                 THEN [proc EXCEPT ![p].days = @ \ {d}]
                 ELSE [proc EXCEPT ![p].pc = "cut", ![p].hand = SubSeq(files[d], 1, n)]
    BY DEF Scan
<1>3. PICK n \in 0..Len(files[d]) :
         proc' = IF n = Len(files[d])
                 THEN [proc EXCEPT ![p].days = @ \ {d}]
                 ELSE [proc EXCEPT ![p].pc = "cut", ![p].hand = SubSeq(files[d], 1, n)]
    BY <1>2
<1>4. PICK c \in {[proc[p] EXCEPT !.days = @ \ {d}],
                   [proc[p] EXCEPT !.pc = "cut", !.hand = SubSeq(files[d], 1, n)]} :
         proc' = [proc EXCEPT ![p] = c]
    BY <1>3
<1>5. /\ c.op = proc[p].op /\ c.pc \in {"scan", "cut"}
      /\ c.split = proc[p].split /\ c.buffer = proc[p].buffer
    BY <1>1, <1>4 DEF Local
<1>6. UNCHANGED <<files, lock>>
    BY DEF Scan
<1>7. InvOf(files, lock', p, c)
    BY <1>1, <1>5, <1>6 DEF InvOf, Inside, BufferInv, Writing
<1> QED
    BY <1>4, <1>6, <1>7, LocalUnique

(* Truncating a file, at whatever offset, leaves no record that was not    *)
(* there.                                                                  *)
LEMMA CutFewer ==
    ASSUME TypeOK, NEW p \in Proc, Cut(p)
    PROVE  Fewer(files, files')
<1>1. PICK d \in Day :
         \E g \in IF KeptBy(files[d], proc[p].hand) THEN {proc[p].hand}
                  ELSE Survivors(files[d], 0) \cup {Append(files[d], Junk)} :
             files' = [files EXCEPT ![d] = g]
    BY DEF Cut
<1> DEFINE f == files[d]
           h == proc[p].hand
<1>2. PICK g : /\ files' = [files EXCEPT ![d] = g]
               /\ \/ KeptBy(f, h) /\ g = h
                  \/ g \in Survivors(f, 0)
                  \/ g = Append(f, Junk)
    BY <1>1
<1>3. f \in Seq(Record) /\ h \in Seq(Record)
    BY DEF TypeOK, Local
<1>4. ASSUME NEW i \in DOMAIN g, g[i].form # "junk"
      PROVE  /\ i \in DOMAIN f /\ f[i].form # "junk"
             /\ g[i].seq = f[i].seq
             /\ g[i].id = f[i].id
    <2>1. CASE KeptBy(f, h) /\ g = h
        <3>1. Len(h) \in 0..Len(f) /\ SubSeq(f, 1, Len(h)) = h
            BY <1>3, <2>1 DEF KeptBy
        <3>2. \A k \in 1..Len(h) : h[k] = f[k]
            BY <1>3, <3>1, Prefix
        <3> QED
            BY <1>3, <1>4, <2>1, <3>1, <3>2
    <2>2. CASE g \in Survivors(f, 0)
        <3>1. /\ g \in Seq(Record)
              /\ Len(g) \in 0..Len(f)
              /\ \A k \in DOMAIN g : /\ g[k].seq = f[k].seq
                                     /\ g[k].id = f[k].id
                                     /\ g[k].form = "junk" <=> f[k].form = "junk"
            BY <1>3, <2>2, SurvivorsAreRecords
        <3> QED
            BY <1>3, <1>4, <3>1
    <2>3. CASE g = Append(f, Junk)
        <3>1. i # Len(f) + 1
            BY <1>3, <1>4, <2>3, Extended, JunkIsRecord DEF Junk
        <3> QED
            BY <1>3, <1>4, <2>3, <3>1, Extended, JunkIsRecord
    <2> QED
        BY <1>2, <2>1, <2>2, <2>3
<1>5. files'[d] = g /\ \A e \in Day \ {d} : files'[e] = files[e]
    BY <1>2 DEF TypeOK
<1> QED
    BY <1>4, <1>5 DEF Fewer, Named

LEMMA CutUnique ==
    ASSUME UniqueInv, TypeOK', NEW p \in Proc, Cut(p)
    PROVE  UniqueInv'
<1>1. InvOf(files, lock, p, proc[p]) /\ proc[p] \in Local /\ proc[p].pc = "cut"
    BY Mine DEF Cut, At
<1>2. PICK d \in Day :
         proc' = [proc EXCEPT ![p].pc = "scan", ![p].days = @ \ {d}, ![p].hand = <<>>]
    BY DEF Cut
<1>3. proc \in [Proc -> Local] /\ TypeOK
    BY DEF UniqueInv, TypeOK
<1>4. /\ \A q \in Proc \ {p} : proc'[q] = proc[q]
      /\ proc'[p].pc = "scan" /\ proc'[p].op = proc[p].op
      /\ proc'[p].split = proc[p].split /\ proc'[p].buffer = proc[p].buffer
    BY <1>1, <1>2, <1>3 DEF Local
<1>5. Fewer(files, files') /\ AllDifferent(files') /\ lock' = lock
    BY <1>3, Mine, CutFewer, FewerDifferent DEF Cut
<1>6. InvOf(files', lock', p, proc'[p])
    BY <1>1, <1>4, <1>5 DEF InvOf, Inside, BufferInv, Writing
<1> QED
    BY <1>4, <1>5, <1>6, OneStep

LEMMA GotoUnique ==
    ASSUME UniqueInv, TypeOK', NEW p \in Proc, NEW step \in Step, Goto(p, step),
           step \notin Writing \cup {"max", "persist"},
           step = "lock" => proc[p].op \in {"write", "redact"},
           proc[p].split = {}, \A d \in Day : proc[p].buffer[d] = <<>>,
           Inside([proc[p] EXCEPT !.pc = step]) => lock = p,
           UNCHANGED <<files, lock>>
    PROVE  UniqueInv'
<1> DEFINE c == [proc[p] EXCEPT !.pc = step]
<1>1. InvOf(files, lock, p, proc[p]) /\ proc[p] \in Local
    BY Mine
<1>2. c.op = proc[p].op /\ c.pc = step /\ c.split = proc[p].split /\ c.buffer = proc[p].buffer
    BY <1>1 DEF Local
<1>3. proc' = [proc EXCEPT ![p] = c]
    BY DEF Goto
<1>4. Inside(c) => lock = p
    OBVIOUS
<1> HIDE DEF c
<1>5. InvOf(files, lock', p, c)
    BY <1>1, <1>2, <1>4 DEF InvOf, BufferInv
<1> QED
    BY <1>3, <1>5, LocalUnique

LEMMA RecoveredUnique ==
    ASSUME UniqueInv, TypeOK', NEW p \in Proc, Recovered(p)
    PROVE  UniqueInv'
<1>1. InvOf(files, lock, p, proc[p]) /\ proc[p] \in Local /\ proc[p].pc = "scan"
    BY Mine DEF Recovered, At
<1>2. UNCHANGED files
    BY DEF Recovered
<1>3. proc[p].split = {} /\ \A d \in Day : proc[p].buffer[d] = <<>>
    BY <1>1 DEF InvOf, BufferInv, Writing
<1>4. proc[p].op \in {"read", "write", "redact"}
    BY <1>1 DEF InvOf, Local, Operation
<1>5. CASE proc[p].op = "read"
    BY <1>2, <1>5, ReturnUnique DEF Recovered
<1>6. CASE proc[p].op = "write"
    <2>1. Goto(p, "base") /\ lock' = lock /\ lock = p
        BY <1>1, <1>6 DEF Recovered, InvOf, Inside
    <2> QED
        BY <1>2, <1>3, <2>1, GotoUnique DEF Step, Writing
<1>7. CASE proc[p].op = "redact"
    <2>1. Goto(p, "lock") /\ lock' = lock
        BY <1>7 DEF Recovered
    <2>2. ~Inside([proc[p] EXCEPT !.pc = "lock"])
        BY <1>1, <1>7 DEF Inside, Local
    <2> QED
        BY <1>2, <1>3, <1>7, <2>1, <2>2, GotoUnique DEF Step, Writing
<1> QED
    BY <1>4, <1>5, <1>6, <1>7

LEMMA TakeLockUnique ==
    ASSUME UniqueInv, TypeOK', NEW p \in Proc, TakeLock(p)
    PROVE  UniqueInv'
<1> DEFINE step == AfterLock(proc[p].op)
           c == [proc[p] EXCEPT !.pc = step, !.days = Day]
<1>1. InvOf(files, lock, p, proc[p]) /\ proc[p] \in Local /\ proc[p].pc = "lock"
    BY Mine DEF TakeLock, At
<1>2. step \in {"scan", "rewrite"}
    BY <1>1 DEF InvOf, AfterLock
<1>3. proc' = [proc EXCEPT ![p] = c] /\ lock = Nobody /\ lock' = p /\ files' = files
    BY DEF TakeLock
<1> HIDE DEF step
<1>4. c.op = proc[p].op /\ c.pc = step /\ c.split = proc[p].split /\ c.buffer = proc[p].buffer
    BY <1>1 DEF Local
<1> HIDE DEF c
<1>5. InvOf(files, lock', p, c)
    BY <1>1, <1>2, <1>3, <1>4 DEF InvOf, BufferInv, Writing
<1> QED
    BY <1>3, <1>5, LocalUnique

(* A new writer's number is larger than all there are, and it has seen all *)
(* ids.                                                                    *)
LEMMA BaselineUnique ==
    ASSUME UniqueInv, TypeOK', NEW p \in Proc, Baseline(p)
    PROVE  UniqueInv'
<1>1. InvOf(files, lock, p, proc[p]) /\ proc[p] \in Local /\ proc[p].pc = "base"
    BY Mine DEF Baseline, At
<1>2. CASE ~Readable
    BY <1>2, ReturnUnique DEF Baseline
<1>3. CASE Readable
    <2>1. PICK n \in 1..(MaxSeq + 1) :
             /\ \A r \in Records : r.seq < n
             /\ proc' = [proc EXCEPT ![p].pc = "append", ![p].next = n,
                                     ![p].seen = {r.id : r \in Records}]
        BY <1>3 DEF Baseline, StartSeq
    <2> DEFINE c == [proc[p] EXCEPT !.pc = "append", !.next = n, !.seen = {r.id : r \in Records}]
    <2>2. /\ c.pc = "append" /\ c.op = proc[p].op /\ c.next = n
          /\ c.seen = {r.id : r \in Records}
          /\ c.split = proc[p].split /\ c.buffer = proc[p].buffer
        BY <1>1 DEF Local
    <2>3. proc' = [proc EXCEPT ![p] = c] /\ UNCHANGED <<files, lock>>
        BY <1>3, <2>1 DEF Baseline
    <2> HIDE DEF c
    <2>4. c.split = {} /\ \A d \in Day : c.buffer[d] = <<>>
        BY <1>1, <2>2 DEF InvOf, BufferInv, Writing
    <2>5. \A d \in Day : \A i \in DOMAIN files[d] : files[d][i] \in Records
        BY DEF Records, OnDisk
    <2>6. WriterInv(files, c)
        BY <2>1, <2>2, <2>4, <2>5 DEF WriterInv
    <2>7. lock = p
        BY <1>1 DEF InvOf, Inside
    <2>8. InvOf(files, lock', p, c)
        BY <1>1, <2>2, <2>3, <2>4, <2>6, <2>7 DEF InvOf, BufferInv
    <2> QED
        BY <2>3, <2>8, LocalUnique
<1> QED
    BY <1>2, <1>3

(* A writer's new record has a number above, and an id none, of the others *)
(* in its buffers and in the files.                                        *)
LEMMA BulkAppendUnique ==
    ASSUME UniqueInv, TypeOK', NEW p \in Proc, NEW e \in Event, NEW d \in Day, BulkAppend(p, e, d)
    PROVE  UniqueInv'
<1> DEFINE r == NewRecord(e, proc[p].next)
           b == [proc[p].buffer EXCEPT ![d] = Append(@, r)]
           m == proc[p].mine \cup {[id |-> e, seq |-> proc[p].next, day |-> d]}
           c == [proc[p] EXCEPT !.seen = @ \cup {e}, !.next = @ + 1, !.buffer = b, !.mine = m]
<1>1. /\ InvOf(files, lock, p, proc[p]) /\ proc[p] \in Local
      /\ proc[p].pc = "append" /\ proc[p].split = {} /\ e \notin proc[p].seen
    BY Mine DEF BulkAppend, At
<1>2. proc' = [proc EXCEPT ![p] = c] /\ UNCHANGED <<files, lock>>
    BY DEF BulkAppend
<1>3. proc[p].next \in Nat /\ r.seq = proc[p].next /\ r.id = e
    BY <1>1, NewRecordFresh DEF Local
<1>4. proc[p].buffer[d] \in Seq(Fresh) /\ r \in Fresh
    BY <1>1, <1>3, NewRecordFresh DEF Local
<1>5. /\ b[d] = Append(proc[p].buffer[d], r)
      /\ \A x \in Day \ {d} : b[x] = proc[p].buffer[x]
    BY <1>1 DEF Local
<1> HIDE DEF r, m, b
<1>6. /\ c.pc = "append" /\ c.op = proc[p].op /\ c.split = {} /\ c.buffer = b
      /\ c.next = proc[p].next + 1 /\ c.seen = proc[p].seen \cup {e}
    BY <1>1 DEF Local
<1> HIDE DEF c
<1>7. ASSUME NEW x \in Day, NEW j \in DOMAIN b[x]
      PROVE  \/ j \in DOMAIN proc[p].buffer[x] /\ b[x][j] = proc[p].buffer[x][j]
             \/ x = d /\ j = Len(proc[p].buffer[d]) + 1 /\ b[x][j] = r
    BY <1>4, <1>5, Extended
<1>8. WriterInv(files, proc[p])
    BY <1>1 DEF InvOf, Writing
<1>9. WriterInv(files, c)
    <2>1. \A x \in Day : \A i \in DOMAIN files[x] : files[x][i].seq \in Nat
        <3>1. \A x \in Day : files[x] \in Seq(Record)
            BY DEF UniqueInv, TypeOK
        <3>2. \A r0 \in Record : r0.seq \in Nat
            BY DEF Record, Junk
        <3> QED
            BY <3>1, <3>2
    <2>2. \A x \in Day : \A i \in DOMAIN proc[p].buffer[x] : proc[p].buffer[x][i].seq \in Nat
        <3>1. \A x \in Day : proc[p].buffer[x] \in Seq(Fresh)
            BY <1>1 DEF Local
        <3>2. \A r0 \in Fresh : r0.seq \in Nat
            BY DEF Fresh
        <3> QED
            BY <3>1, <3>2
    <2>3. ASSUME NEW x \in Day, NEW i \in DOMAIN files[x], Named(files, x, i)
          PROVE  files[x][i].seq < c.next /\ files[x][i].id \in c.seen
        BY <1>3, <1>6, <1>8, <2>3, <2>1 DEF WriterInv
    <2>4. ASSUME NEW x \in Day, NEW j \in DOMAIN b[x]
          PROVE  b[x][j].seq < c.next /\ b[x][j].id \in c.seen
        BY <1>3, <1>6, <1>7, <1>8, <2>2 DEF WriterInv
    <2>5. ASSUME NEW d1 \in Day, NEW d2 \in Day, NEW i \in DOMAIN b[d1], NEW j \in DOMAIN b[d2],
                 <<d1, i>> # <<d2, j>>
          PROVE  Different(b[d1][i], b[d2][j])
        BY <1>1, <1>3, <1>7, <1>8, <2>5 DEF WriterInv, Different
    <2>6. ASSUME NEW d1 \in Day, NEW d2 \in Day, NEW i \in DOMAIN files[d1], NEW j \in DOMAIN b[d2],
                 Named(files, d1, i)
          PROVE  Different(files[d1][i], b[d2][j])
        BY <1>1, <1>3, <1>7, <1>8, <2>6 DEF WriterInv, Different
    <2> QED
        BY <1>6, <2>3, <2>4, <2>5, <2>6 DEF WriterInv
<1>10. InvOf(files, lock', p, c)
    BY <1>1, <1>2, <1>6, <1>9 DEF InvOf, BufferInv, Inside, Writing
<1> QED
    BY <1>2, <1>10, LocalUnique

(* The buffer of day d loses its first record.                             *)
LEMMA TailOfBuffer ==
    ASSUME NEW b \in [Day -> Seq(Fresh)], NEW d \in Day, b[d] # <<>>,
           NEW t, t = [b EXCEPT ![d] = Tail(@)],
           NEW x \in Day, NEW j \in DOMAIN t[x]
    PROVE  \E k \in DOMAIN b[x] : /\ t[x][j] = b[x][k]
                                  /\ k = IF x = d THEN j + 1 ELSE j
                                  /\ <<x, k>> # <<d, 1>>
<1>1. CASE x = d
    <2>1. t[x] = Tail(b[d]) /\ b[d] \in Seq(Fresh) /\ Len(b[d]) \in Nat /\ Len(b[d]) > 0
        BY <1>1, EmptySeq
    <2>2. Len(t[x]) = Len(b[d]) - 1 /\ t[x] \in Seq(Fresh)
        BY <2>1, HeadTailProperties
    <2>3. j \in 1..(Len(b[d]) - 1)
        BY <2>2
    <2>4. t[x][j] = b[d][j + 1] /\ j + 1 \in DOMAIN b[d]
        BY <2>1, <2>3, HeadTailProperties
    <2> QED
        BY <1>1, <2>3, <2>4
<1>2. CASE x # d
    BY <1>2
<1> QED
    BY <1>1, <1>2

(* A writer adds the next record of a buffer to its file, whole or torn.   *)
LEMMA Added ==
    ASSUME UniqueInv, NEW p \in Proc, NEW d \in Day, NEW r \in Record,
           proc[p].pc \in Writing, proc[p].split = {}, proc[p].buffer[d] # <<>>,
           r.seq = Head(proc[p].buffer[d]).seq, r.id = Head(proc[p].buffer[d]).id,
           files' = [files EXCEPT ![d] = Append(@, r)]
    PROVE  /\ AllDifferent(files')
           /\ \A x \in Day : \A i \in DOMAIN files'[x] :
                 \/ i \in DOMAIN files[x] /\ files'[x][i] = files[x][i]
                 \/ x = d /\ i = Len(files[d]) + 1 /\ files'[x][i] = r
           /\ Head(proc[p].buffer[d]) = proc[p].buffer[d][1]
           /\ 1 \in DOMAIN proc[p].buffer[d]
<1>1. WriterInv(files, proc[p]) /\ AllDifferent(files)
    BY Mine DEF InvOf
<1>2. files[d] \in Seq(Record) /\ proc[p].buffer[d] \in Seq(Fresh)
    BY DEF UniqueInv, TypeOK, Local
<1>3. files'[d] = Append(files[d], r) /\ \A x \in Day \ {d} : files'[x] = files[x]
    BY DEF UniqueInv, TypeOK
<1>4. ASSUME NEW x \in Day, NEW i \in DOMAIN files'[x]
      PROVE  \/ i \in DOMAIN files[x] /\ files'[x][i] = files[x][i]
             \/ x = d /\ i = Len(files[d]) + 1 /\ files'[x][i] = r
    BY <1>2, <1>3, Extended
<1>5. Head(proc[p].buffer[d]) = proc[p].buffer[d][1] /\ 1 \in DOMAIN proc[p].buffer[d]
    BY <1>2, EmptySeq
<1>6. ASSUME NEW x \in Day, NEW i \in DOMAIN files[x], Named(files, x, i)
      PROVE  Different(files[x][i], r) /\ Different(r, files[x][i])
    BY <1>1, <1>5, <1>6 DEF WriterInv, Different
<1>7. AllDifferent(files')
    BY <1>1, <1>4, <1>6 DEF AllDifferent, Named
<1> QED
    BY <1>4, <1>5, <1>7

LEMMA WriteRecordUnique ==
    ASSUME UniqueInv, TypeOK', NEW p \in Proc, NEW d \in Day, WriteRecord(p, d)
    PROVE  UniqueInv'
<1> DEFINE r == Head(proc[p].buffer[d])
           t == [proc[p].buffer EXCEPT ![d] = Tail(@)]
           c == [proc[p] EXCEPT !.buffer = t]
<1>1. /\ InvOf(files, lock, p, proc[p]) /\ proc[p] \in Local
      /\ proc[p].pc \in Writing /\ proc[p].split = {} /\ proc[p].buffer[d] # <<>>
    BY Mine DEF WriteRecord
<1>2. r \in Record /\ proc[p].buffer \in [Day -> Seq(Fresh)]
    BY <1>1, HeadOfBuffer, FreshIsRecord DEF UniqueInv, Local
<1>3. files' = [files EXCEPT ![d] = Append(@, r)] /\ proc' = [proc EXCEPT ![p] = c] /\ lock' = lock
    BY DEF WriteRecord
<1>4. /\ AllDifferent(files')
      /\ \A x \in Day : \A i \in DOMAIN files'[x] :
            \/ i \in DOMAIN files[x] /\ files'[x][i] = files[x][i]
            \/ x = d /\ i = Len(files[d]) + 1 /\ files'[x][i] = r
      /\ r = proc[p].buffer[d][1]
      /\ 1 \in DOMAIN proc[p].buffer[d]
    BY <1>1, <1>2, <1>3, Added
<1>5. \A x \in Day : \A j \in DOMAIN t[x] :
          \E k \in DOMAIN proc[p].buffer[x] :
              /\ t[x][j] = proc[p].buffer[x][k]
              /\ k = IF x = d THEN j + 1 ELSE j
              /\ <<x, k>> # <<d, 1>>
    BY <1>1, <1>2, TailOfBuffer
<1> HIDE DEF r, t
<1>6. /\ c.pc = proc[p].pc /\ c.op = proc[p].op /\ c.split = {} /\ c.buffer = t
      /\ c.next = proc[p].next /\ c.seen = proc[p].seen
    BY <1>1 DEF Local
<1> HIDE DEF c
<1>7. WriterInv(files, proc[p])
    BY <1>1 DEF InvOf
<1>8. WriterInv(files', c)
    <2>1. ASSUME NEW x \in Day, NEW i \in DOMAIN files'[x], Named(files', x, i)
          PROVE  files'[x][i].seq < c.next /\ files'[x][i].id \in c.seen
        BY <1>4, <1>6, <1>7, <2>1 DEF WriterInv, Named
    <2>2. ASSUME NEW x \in Day, NEW j \in DOMAIN t[x]
          PROVE  t[x][j].seq < c.next /\ t[x][j].id \in c.seen
        BY <1>5, <1>6, <1>7 DEF WriterInv
    <2>3. ASSUME NEW d1 \in Day, NEW d2 \in Day, NEW i \in DOMAIN t[d1], NEW j \in DOMAIN t[d2],
                 <<d1, i>> # <<d2, j>>
          PROVE  Different(t[d1][i], t[d2][j])
        <3>1. PICK k1 \in DOMAIN proc[p].buffer[d1] :
                  t[d1][i] = proc[p].buffer[d1][k1] /\ k1 = IF d1 = d THEN i + 1 ELSE i
            BY <1>5
        <3>2. PICK k2 \in DOMAIN proc[p].buffer[d2] :
                  t[d2][j] = proc[p].buffer[d2][k2] /\ k2 = IF d2 = d THEN j + 1 ELSE j
            BY <1>5
        <3>3. t[d1] \in Seq(Fresh) /\ t[d2] \in Seq(Fresh)
            BY <1>1, <1>2, HeadTailProperties DEF t
        <3>4. <<d1, k1>> # <<d2, k2>>
            BY <2>3, <3>1, <3>2, <3>3
        <3> QED
            BY <1>7, <3>1, <3>2, <3>4 DEF WriterInv
    <2>4. ASSUME NEW d1 \in Day, NEW d2 \in Day, NEW i \in DOMAIN files'[d1], NEW j \in DOMAIN t[d2],
                 Named(files', d1, i)
          PROVE  Different(files'[d1][i], t[d2][j])
        <3>1. PICK k \in DOMAIN proc[p].buffer[d2] :
                  t[d2][j] = proc[p].buffer[d2][k] /\ <<d2, k>> # <<d, 1>>
            BY <1>5
        <3>2. Different(r, proc[p].buffer[d2][k])
            BY <1>4, <1>7, <3>1 DEF WriterInv
        <3>3. CASE i \in DOMAIN files[d1] /\ files'[d1][i] = files[d1][i]
            BY <1>1, <1>7, <2>4, <3>1, <3>3 DEF WriterInv, Named
        <3> QED
            BY <1>4, <3>1, <3>2, <3>3
    <2> QED
        BY <1>6, <2>1, <2>2, <2>3, <2>4 DEF WriterInv
<1>9. lock = p /\ Inside(c)
    BY <1>1, <1>6 DEF InvOf, Inside, Writing
<1>10. InvOf(files', lock', p, c)
    BY <1>1, <1>3, <1>6, <1>8, <1>9 DEF InvOf, BufferInv, Writing
<1>11. proc'[p] = c /\ \A q \in Proc \ {p} : proc'[q] = proc[q]
    BY <1>3 DEF UniqueInv, TypeOK
<1> QED
    BY <1>3, <1>4, <1>9, <1>10, <1>11, OneStep

LEMMA WriteSomeUnique ==
    ASSUME UniqueInv, TypeOK', NEW p \in Proc, NEW d \in Day, WriteSome(p, d)
    PROVE  UniqueInv'
<1>1. PICK form \in Tears : files' = [files EXCEPT ![d] =
             Append(@, [Head(proc[p].buffer[d]) EXCEPT !.form = form])]
    BY DEF WriteSome
<1> DEFINE h == Head(proc[p].buffer[d])
           r == [h EXCEPT !.form = form]
           c == [proc[p] EXCEPT !.split = {d}]
<1>2. /\ InvOf(files, lock, p, proc[p]) /\ proc[p] \in Local
      /\ proc[p].pc \in Writing /\ proc[p].split = {} /\ proc[p].buffer[d] # <<>>
    BY Mine DEF WriteSome
<1>3. r \in Record /\ r.seq = h.seq /\ r.id = h.id
    BY <1>2, HeadOfBuffer, FreshIsRecord DEF UniqueInv
<1>4. proc' = [proc EXCEPT ![p] = c] /\ lock' = lock /\ files' = [files EXCEPT ![d] = Append(@, r)]
    BY <1>1 DEF WriteSome
<1> HIDE DEF r
<1>5. /\ AllDifferent(files')
      /\ \A x \in Day : \A i \in DOMAIN files'[x] :
            \/ i \in DOMAIN files[x] /\ files'[x][i] = files[x][i]
            \/ x = d /\ i = Len(files[d]) + 1 /\ files'[x][i] = r
      /\ h = proc[p].buffer[d][1]
      /\ 1 \in DOMAIN proc[p].buffer[d]
    BY <1>2, <1>3, <1>4, Added
<1>6. /\ c.pc = proc[p].pc /\ c.op = proc[p].op /\ c.split = {d} /\ c.buffer = proc[p].buffer
      /\ c.next = proc[p].next /\ c.seen = proc[p].seen
    BY <1>2 DEF Local
<1> HIDE DEF c, h
<1>7. WriterInv(files, proc[p])
    BY <1>2 DEF InvOf
<1>8. WriterInv(files', c)
    <2>1. ASSUME NEW x \in Day, NEW i \in DOMAIN files'[x], Named(files', x, i)
          PROVE  files'[x][i].seq < c.next /\ files'[x][i].id \in c.seen
        BY <1>3, <1>5, <1>6, <1>7, <2>1 DEF WriterInv, Named
    <2>2. ASSUME NEW d1 \in Day, NEW d2 \in Day, NEW i \in DOMAIN files'[d1], NEW j \in DOMAIN c.buffer[d2],
                 Named(files', d1, i)
          PROVE  \/ Different(files'[d1][i], c.buffer[d2][j])
                 \/ /\ d2 \in c.split /\ j = 1
                    /\ files'[d1][i].seq = c.buffer[d2][j].seq
                    /\ files'[d1][i].id = c.buffer[d2][j].id
        <3>1. CASE i \in DOMAIN files[d1] /\ files'[d1][i] = files[d1][i]
            BY <1>2, <1>6, <1>7, <2>2, <3>1 DEF WriterInv, Named
        <3>2. CASE files'[d1][i] = r /\ d2 = d /\ j = 1
            BY <1>3, <1>5, <1>6, <3>2
        <3>3. CASE files'[d1][i] = r /\ ~(d2 = d /\ j = 1)
            BY <1>3, <1>5, <1>6, <1>7, <3>3 DEF WriterInv, Different
        <3> QED
            BY <1>5, <3>1, <3>2, <3>3
    <2> QED
        BY <1>6, <1>7, <2>1, <2>2 DEF WriterInv
<1>9. lock = p /\ Inside(c)
    BY <1>2, <1>6 DEF InvOf, Inside, Writing
<1>10. InvOf(files', lock', p, c)
    BY <1>2, <1>4, <1>6, <1>8, <1>9 DEF InvOf, BufferInv, Writing
<1>11. proc'[p] = c /\ \A q \in Proc \ {p} : proc'[q] = proc[q]
    BY <1>4 DEF UniqueInv, TypeOK
<1> QED
    BY <1>4, <1>5, <1>9, <1>10, <1>11, OneStep

(* The rest of a record completes it or leaves junk behind.                *)
LEMMA RestFewer ==
    ASSUME UniqueInv, NEW p \in Proc, NEW d \in Day, WriteRest(p, d)
    PROVE  Fewer(files, files') /\ proc[p].pc \in Writing
<1> DEFINE f == files[d]
           r == Head(proc[p].buffer[d])
           whole == Len(f) > 0 /\ f[Len(f)].seq = r.seq /\ f[Len(f)].form \in Tears
           g == IF whole THEN [f EXCEPT ![Len(f)] = r] ELSE Append(f, Junk)
<1>1. InvOf(files, lock, p, proc[p]) /\ d \in proc[p].split /\ f \in Seq(Record)
    BY Mine DEF WriteRest, UniqueInv, TypeOK
<1>2. proc[p].pc \in Writing /\ proc[p].split = {d} /\ proc[p].buffer[d] # <<>>
    BY <1>1 DEF InvOf, BufferInv, UniqueInv, TypeOK
<1>3. WriterInv(files, proc[p])
    BY <1>1, <1>2 DEF InvOf
<1>4. proc[p].buffer[d] \in Seq(Fresh) /\ r = proc[p].buffer[d][1] /\ 1 \in DOMAIN proc[p].buffer[d]
    BY <1>2, EmptySeq DEF UniqueInv, TypeOK, Local
<1>5. files' = [files EXCEPT ![d] = g]
    BY DEF WriteRest
<1>6. ASSUME NEW i \in DOMAIN g, g[i].form # "junk"
      PROVE  i \in DOMAIN f /\ f[i].form # "junk" /\ g[i].seq = f[i].seq /\ g[i].id = f[i].id
    <2>1. CASE whole
        <3>1. Len(f) \in DOMAIN f /\ f[Len(f)].form # "junk"
            BY <1>1, <2>1, NameAssumption
        <3>2. f[Len(f)].id = r.id
            BY <1>3, <1>4, <2>1, <3>1 DEF WriterInv, Different, Named
        <3>3. g = [f EXCEPT ![Len(f)] = r] /\ DOMAIN g = DOMAIN f
            BY <2>1
        <3> QED
            BY <1>6, <2>1, <3>1, <3>2, <3>3
    <2>2. CASE ~whole
        <3>1. g = Append(f, Junk)
            BY <2>2
        <3>2. i # Len(f) + 1
            BY <1>1, <1>6, <3>1, Extended, JunkIsRecord DEF Junk
        <3> QED
            BY <1>1, <1>6, <3>1, <3>2, Extended, JunkIsRecord
    <2> QED
        BY <2>1, <2>2
<1> HIDE DEF g
<1>7. files'[d] = g /\ \A e \in Day \ {d} : files'[e] = files[e]
    BY <1>5 DEF UniqueInv, TypeOK
<1> QED
    BY <1>2, <1>6, <1>7 DEF Fewer, Named

LEMMA WriteRestUnique ==
    ASSUME UniqueInv, TypeOK', NEW p \in Proc, NEW d \in Day, WriteRest(p, d)
    PROVE  UniqueInv'
<1> DEFINE t == [proc[p].buffer EXCEPT ![d] = Tail(@)]
           c == [proc[p] EXCEPT !.split = {}, !.buffer = t]
<1>1. /\ InvOf(files, lock, p, proc[p]) /\ proc[p] \in Local
      /\ Fewer(files, files') /\ proc[p].pc \in Writing
    BY Mine, RestFewer
<1>2. proc[p].split = {d} /\ proc[p].buffer[d] # <<>> /\ proc[p].buffer \in [Day -> Seq(Fresh)]
    BY <1>1 DEF WriteRest, InvOf, BufferInv, UniqueInv, TypeOK, Local
<1>3. proc' = [proc EXCEPT ![p] = c] /\ lock' = lock
    BY DEF WriteRest
<1>4. \A x \in Day : \A j \in DOMAIN t[x] :
          \E k \in DOMAIN proc[p].buffer[x] :
              /\ t[x][j] = proc[p].buffer[x][k]
              /\ k = IF x = d THEN j + 1 ELSE j
              /\ <<x, k>> # <<d, 1>>
    BY <1>2, TailOfBuffer
<1>5. \A x \in Day : t[x] \in Seq(Fresh)
    BY <1>2, HeadTailProperties
<1> HIDE DEF t
<1>6. /\ c.pc = proc[p].pc /\ c.op = proc[p].op /\ c.split = {} /\ c.buffer = t
      /\ c.next = proc[p].next /\ c.seen = proc[p].seen
    BY <1>1 DEF Local
<1> HIDE DEF c
<1>7. WriterInv(files', proc[p])
    BY <1>1, FewerWriter DEF InvOf
<1>8. WriterInv(files', c)
    <2>1. ASSUME NEW x \in Day, NEW j \in DOMAIN t[x]
          PROVE  t[x][j].seq < c.next /\ t[x][j].id \in c.seen
        BY <1>4, <1>6, <1>7 DEF WriterInv
    <2>2. ASSUME NEW d1 \in Day, NEW d2 \in Day, NEW i \in DOMAIN t[d1], NEW j \in DOMAIN t[d2],
                 <<d1, i>> # <<d2, j>>
          PROVE  Different(t[d1][i], t[d2][j])
        <3>1. PICK k1 \in DOMAIN proc[p].buffer[d1] :
                  t[d1][i] = proc[p].buffer[d1][k1] /\ k1 = IF d1 = d THEN i + 1 ELSE i
            BY <1>4
        <3>2. PICK k2 \in DOMAIN proc[p].buffer[d2] :
                  t[d2][j] = proc[p].buffer[d2][k2] /\ k2 = IF d2 = d THEN j + 1 ELSE j
            BY <1>4
        <3>3. <<d1, k1>> # <<d2, k2>>
            BY <1>5, <2>2, <3>1, <3>2
        <3> QED
            BY <1>7, <3>1, <3>2, <3>3 DEF WriterInv
    <2>3. ASSUME NEW d1 \in Day, NEW d2 \in Day, NEW i \in DOMAIN files'[d1], NEW j \in DOMAIN t[d2],
                 Named(files', d1, i)
          PROVE  Different(files'[d1][i], t[d2][j])
        <3>1. PICK k \in DOMAIN proc[p].buffer[d2] :
                  t[d2][j] = proc[p].buffer[d2][k] /\ <<d2, k>> # <<d, 1>>
            BY <1>4
        <3> QED
            BY <1>2, <1>7, <2>3, <3>1 DEF WriterInv
    <2> QED
        BY <1>6, <1>7, <2>1, <2>2, <2>3 DEF WriterInv
<1>9. lock = p /\ Inside(c)
    BY <1>1, <1>6 DEF InvOf, Inside, Writing
<1>10. InvOf(files', lock', p, c)
    BY <1>1, <1>3, <1>6, <1>8, <1>9 DEF InvOf, BufferInv, Writing
<1>11. proc'[p] = c /\ \A q \in Proc \ {p} : proc'[q] = proc[q]
    BY <1>3 DEF UniqueInv, TypeOK
<1>12. AllDifferent(files')
    BY <1>1, Mine, FewerDifferent
<1> QED
    BY <1>1, <1>3, <1>10, <1>11, <1>12, OneStep

(* Flushing and dropping move a writer on and leave its buffers alone.     *)
LEMMA WriterGoesOn ==
    ASSUME UniqueInv, TypeOK', NEW p \in Proc, proc[p].pc \in Writing,
           NEW step \in Writing, NEW days,
           proc' = [proc EXCEPT ![p] = [proc[p] EXCEPT !.pc = step, !.days = days]],
           UNCHANGED <<files, lock>>
    PROVE  UniqueInv'
<1> DEFINE c == [proc[p] EXCEPT !.pc = step, !.days = days]
<1>1. InvOf(files, lock, p, proc[p]) /\ proc[p] \in Local
    BY Mine
<1>2. /\ c.pc = step /\ c.op = proc[p].op /\ c.split = proc[p].split /\ c.buffer = proc[p].buffer
      /\ c.next = proc[p].next /\ c.seen = proc[p].seen
    BY <1>1 DEF Local
<1>3. proc' = [proc EXCEPT ![p] = c]
    OBVIOUS
<1> HIDE DEF c
<1>4. lock = p
    BY <1>1 DEF InvOf, Inside, Writing
<1>5. WriterInv(files, c)
    BY <1>1, <1>2 DEF InvOf, WriterInv
<1>6. InvOf(files, lock', p, c)
    BY <1>1, <1>2, <1>4, <1>5 DEF InvOf, BufferInv, Writing
<1> QED
    BY <1>3, <1>6, LocalUnique

LEMMA FlushUnique ==
    ASSUME UniqueInv, TypeOK', NEW p \in Proc,
           StartFlush(p) \/ StartDrop(p) \/ FlushDone(p) \/ DropDone(p) \/ \E d \in Day : SyncDay(p, d)
    PROVE  UniqueInv'
<1>1. InvOf(files, lock, p, proc[p]) /\ proc[p] \in Local
    BY Mine
<1>2. CASE StartFlush(p)
    <2>1. proc' = [proc EXCEPT ![p] = [proc[p] EXCEPT !.pc = "flush", !.days = Opened(p)]]
        BY <1>2 DEF StartFlush
    <2> QED
        BY <1>2, <2>1, WriterGoesOn DEF StartFlush, At, Writing
<1>3. CASE StartDrop(p)
    <2>1. proc' = [proc EXCEPT ![p] = [proc[p] EXCEPT !.pc = "drop", !.days = Opened(p)]]
        BY <1>3 DEF StartDrop
    <2> QED
        BY <1>3, <2>1, WriterGoesOn DEF StartDrop, At, Writing
<1>4. CASE FlushDone(p)
    <2>1. proc[p].pc = "flush" /\ UNCHANGED <<files, lock>> /\ Goto(p, "append")
        BY <1>1, <1>4 DEF FlushDone, InvOf, At
    <2>2. proc' = [proc EXCEPT ![p] = [proc[p] EXCEPT !.pc = "append", !.days = proc[p].days]]
        BY <1>1, <2>1 DEF Goto, Local
    <2> QED
        BY <2>1, <2>2, WriterGoesOn DEF Writing
<1>5. CASE DropDone(p)
    BY <1>5, ReturnUnique DEF DropDone
<1>6. ASSUME NEW d \in Day, SyncDay(p, d)
      PROVE  UniqueInv'
    <2>1. proc' = [proc EXCEPT ![p] = [proc[p] EXCEPT !.pc = proc[p].pc, !.days = proc[p].days \ {d}]]
        BY <1>1, <1>6 DEF SyncDay, Local
    <2>2. proc[p].pc \in Writing /\ UNCHANGED <<files, lock>>
        BY <1>6 DEF SyncDay, Writing
    <2> QED
        BY <2>1, <2>2, WriterGoesOn
<1> QED
    BY <1>2, <1>3, <1>4, <1>5, <1>6

(* What redact reads goes with the other files.                            *)
LEMMA ReadDayUnique ==
    ASSUME UniqueInv, TypeOK', NEW p \in Proc, ReadDay(p)
    PROVE  UniqueInv'
<1>1. /\ InvOf(files, lock, p, proc[p]) /\ proc[p] \in Local /\ AllDifferent(files)
      /\ proc[p].pc = "rewrite" /\ UNCHANGED files
    BY Mine DEF ReadDay, At
<1>2. CASE Return(p)
    BY <1>1, <1>2, ReturnUnique
<1>3. CASE ~Return(p)
    <2>1. PICK d \in Day :
             /\ NextDay(p, d)
             /\ Good(files[d], Len(files[d]))
             /\ UNCHANGED lock
             /\ \/ proc' = [proc EXCEPT ![p].days = @ \ {d}]
                \/ proc' = [proc EXCEPT ![p].pc = "persist", ![p].hand = files[d]]
        BY <1>3 DEF ReadDay
    <2>2. lock = p /\ proc[p].split = {} /\ \A x \in Day : proc[p].buffer[x] = <<>>
        BY <1>1 DEF InvOf, Inside, BufferInv, Writing
    <2>3. CASE proc' = [proc EXCEPT ![p].days = @ \ {d}]
        <3> DEFINE c == [proc[p] EXCEPT !.days = @ \ {d}]
        <3>1. c.pc = "rewrite" /\ c.op = proc[p].op /\ c.split = {} /\ c.buffer = proc[p].buffer
            BY <1>1, <2>2 DEF Local
        <3>2. proc' = [proc EXCEPT ![p] = c]
            BY <2>3
        <3> HIDE DEF c
        <3>3. InvOf(files, lock', p, c)
            BY <1>1, <2>1, <2>2, <3>1 DEF InvOf, BufferInv, Writing
        <3> QED
            BY <1>1, <2>1, <3>2, <3>3, LocalUnique
    <2>4. CASE proc' = [proc EXCEPT ![p].pc = "persist", ![p].hand = files[d]]
        <3> DEFINE c == [proc[p] EXCEPT !.pc = "persist", !.hand = files[d]]
        <3>1. /\ c.pc = "persist" /\ c.op = proc[p].op /\ c.split = {} /\ c.buffer = proc[p].buffer
              /\ c.hand = files[d] /\ c.days = proc[p].days
            BY <1>1, <2>2 DEF Local
        <3>2. proc' = [proc EXCEPT ![p] = c]
            BY <2>4
        <3> HIDE DEF c
        <3>3. files[d] \in Seq(Record) /\ \A i \in DOMAIN files[d] : Named(files, d, i)
            <4>1. files[d] \in Seq(Record)
                BY DEF UniqueInv, TypeOK
            <4>2. \A i \in 1..Len(files[d]) : files[d][i].form \in {"whole", "bare"}
                BY <2>1 DEF Good
            <4> QED
                BY <4>1, <4>2 DEF Named
        <3>4. PersistInv(files, c)
            <4> SUFFICES ASSUME NEW x \in c.days, \A e \in c.days : x <= e
                         PROVE  /\ \A i, j \in DOMAIN c.hand : i # j => Different(c.hand[i], c.hand[j])
                                /\ \A other \in Day \ {x} : \A i \in DOMAIN files[other], j \in DOMAIN c.hand :
                                      Named(files, other, i) => Different(files[other][i], c.hand[j])
                BY DEF PersistInv
            <4>1. x = d
                <5>1. x \in Nat /\ d \in Nat
                    BY <1>1, <3>1, NameAssumption DEF Local
                <5>2. x <= d /\ d <= x
                    BY <2>1, <3>1 DEF NextDay
                <5> QED
                    BY <5>1, <5>2
            <4>2. \A i, j \in DOMAIN files[d] : i # j => Different(files[d][i], files[d][j])
                <5> SUFFICES ASSUME NEW i \in DOMAIN files[d], NEW j \in DOMAIN files[d], i # j
                             PROVE  Different(files[d][i], files[d][j])
                    OBVIOUS
                <5>1. <<d, i>> # <<d, j>> /\ Named(files, d, i) /\ Named(files, d, j)
                    BY <3>3
                <5> QED
                    BY <1>1, <5>1 DEF AllDifferent
            <4>3. \A other \in Day \ {d} : \A i \in DOMAIN files[other], j \in DOMAIN files[d] :
                      Named(files, other, i) => Different(files[other][i], files[d][j])
                <5> SUFFICES ASSUME NEW other \in Day \ {d}, NEW i \in DOMAIN files[other],
                                    NEW j \in DOMAIN files[d], Named(files, other, i)
                             PROVE  Different(files[other][i], files[d][j])
                    OBVIOUS
                <5>1. <<other, i>> # <<d, j>> /\ Named(files, d, j)
                    BY <3>3
                <5> QED
                    BY <1>1, <5>1 DEF AllDifferent
            <4> QED
                BY <3>1, <4>1, <4>2, <4>3
        <3>5. InvOf(files, lock', p, c)
            BY <1>1, <2>1, <2>2, <3>1, <3>4 DEF InvOf, BufferInv, Writing
        <3> QED
            BY <1>1, <2>1, <3>2, <3>5, LocalUnique
    <2> QED
        BY <2>1, <2>3, <2>4
<1> QED
    BY <1>2, <1>3

LEMMA PersistUnique ==
    ASSUME UniqueInv, TypeOK', NEW p \in Proc, Persist(p)
    PROVE  UniqueInv'
<1> DEFINE h == proc[p].hand
           g == [i \in DOMAIN h |-> Rewritten(h[i], proc[p].targets)]
<1>1. /\ InvOf(files, lock, p, proc[p]) /\ proc[p] \in Local /\ AllDifferent(files)
      /\ proc[p].pc = "persist" /\ lock' = lock
    BY Mine DEF Persist, At
<1>2. h \in Seq(Record \ {Junk})
    BY <1>1 DEF UniqueInv, TypeOK
<1>3. PICK d \in Day :
         /\ NextDay(p, d)
         /\ files' = [files EXCEPT ![d] = g]
         /\ proc' = [proc EXCEPT ![p].pc = "rewrite", ![p].days = @ \ {d}, ![p].hand = <<>>]
    BY DEF Persist, Rewritten
<1>4. \A i \in DOMAIN h : g[i].seq = h[i].seq /\ g[i].id = h[i].id
    BY <1>2, RewrittenRecord
<1>5. /\ \A i, j \in DOMAIN h : i # j => Different(h[i], h[j])
      /\ \A other \in Day \ {d} : \A i \in DOMAIN files[other], j \in DOMAIN h :
            Named(files, other, i) => Different(files[other][i], h[j])
    BY <1>1, <1>3 DEF InvOf, PersistInv, NextDay
<1>6. DOMAIN g = DOMAIN h
    OBVIOUS
<1> HIDE DEF g
<1>7. files'[d] = g /\ \A x \in Day \ {d} : files'[x] = files[x]
    BY <1>3 DEF UniqueInv, TypeOK
<1>8. AllDifferent(files')
    <2> SUFFICES ASSUME NEW d1 \in Day, NEW d2 \in Day,
                        NEW i \in DOMAIN files'[d1], NEW j \in DOMAIN files'[d2],
                        Named(files', d1, i), Named(files', d2, j), <<d1, i>> # <<d2, j>>
                 PROVE  Different(files'[d1][i], files'[d2][j])
        BY DEF AllDifferent
    <2>1. CASE d1 = d /\ d2 = d
        BY <1>4, <1>5, <1>6, <1>7, <2>1 DEF Different
    <2>2. CASE d1 = d /\ d2 # d
        BY <1>4, <1>5, <1>6, <1>7, <2>2 DEF Different, Named
    <2>3. CASE d1 # d /\ d2 = d
        BY <1>4, <1>5, <1>6, <1>7, <2>3 DEF Different, Named
    <2>4. CASE d1 # d /\ d2 # d
        BY <1>1, <1>7, <2>4 DEF AllDifferent, Named
    <2> QED
        BY <2>1, <2>2, <2>3, <2>4
<1> DEFINE c == [proc[p] EXCEPT !.pc = "rewrite", !.days = @ \ {d}, !.hand = <<>>]
<1>9. c.pc = "rewrite" /\ c.op = proc[p].op /\ c.split = proc[p].split /\ c.buffer = proc[p].buffer
    BY <1>1 DEF Local
<1>10. proc'[p] = c /\ \A q \in Proc \ {p} : proc'[q] = proc[q]
    BY <1>3 DEF UniqueInv, TypeOK
<1> HIDE DEF c
<1>11. lock = p
    BY <1>1 DEF InvOf, Inside
<1>12. InvOf(files', lock', p, c)
    BY <1>1, <1>9, <1>11 DEF InvOf, BufferInv, Writing
<1> QED
    BY <1>1, <1>8, <1>10, <1>11, <1>12, OneStep

LEMMA PowerLossUnique ==
    ASSUME UniqueInv, TypeOK', PowerLoss
    PROVE  UniqueInv'
<1>1. Fewer(files, files')
    <2> SUFFICES ASSUME NEW d \in Day, NEW i \in DOMAIN files'[d], Named(files', d, i)
                 PROVE  /\ i \in DOMAIN files[d] /\ Named(files, d, i)
                        /\ files'[d][i].seq = files[d][i].seq
                        /\ files'[d][i].id = files[d][i].id
        BY DEF Fewer
    <2>1. files[d] \in Seq(Record) /\ synced[d] \in Nat /\ files'[d] \in Survivors(files[d], synced[d])
        BY DEF PowerLoss, UniqueInv, TypeOK
    <2>2. /\ files'[d] \in Seq(Record)
          /\ Len(files'[d]) \in synced[d]..Len(files[d])
          /\ \A k \in DOMAIN files'[d] : /\ files'[d][k].seq = files[d][k].seq
                                         /\ files'[d][k].id = files[d][k].id
                                         /\ files'[d][k].form = "junk" <=> files[d][k].form = "junk"
        BY <2>1, SurvivorsAreRecords
    <2> QED
        BY <2>1, <2>2 DEF Named
<1>2. AllDifferent(files')
    BY <1>1, UniqueInvParts, FewerDifferent
<1>3. \A p \in Proc : InvOf(files', lock', p, proc'[p])
    BY InvOfRest DEF PowerLoss
<1> QED
    BY <1>2, <1>3, UniqueInvParts

LEMMA InitUnique ==
    Init => UniqueInv
<1> SUFFICES ASSUME Init PROVE UniqueInv
    OBVIOUS
<1>1. AllDifferent(files)
    BY DEF Init, AllDifferent
<1>2. \A p \in Proc : InvOf(files, lock, p, proc[p])
    BY InvOfRest DEF Init
<1> QED
    BY <1>1, <1>2, InitType, UniqueInvParts

(* A step, as long as nobody uses Journal::append.                         *)
LEMMA UniqueStep ==
    ASSUME "append" \notin Ops
    PROVE  UniqueInv /\ [Next]_vars => UniqueInv'
<1> SUFFICES ASSUME UniqueInv, [Next]_vars PROVE UniqueInv'
    OBVIOUS
<1>0. TypeOK'
    BY TypeStep DEF UniqueInv
<1>1. CASE UNCHANGED vars
    BY <1>0, <1>1, UniqueInvParts DEF vars
<1>2. CASE PowerLoss
    BY <1>0, <1>2, PowerLossUnique
<1>3. ASSUME NEW p \in Proc, NEW op \in Ops, Begin(p, op)
      PROVE  UniqueInv'
    BY <1>0, <1>3, BeginUnique, NameAssumption
<1>4. ASSUME NEW p \in Proc, Run(p)
      PROVE  UniqueInv'
    <2>1. CASE Recover(p)
        BY <1>0, <2>1, ScanUnique, CutUnique, RecoveredUnique DEF Recover
    <2>2. CASE TakeLock(p)
        BY <1>0, <2>2, TakeLockUnique
    <2>3. CASE LockTimeout(p)
        BY <1>0, <2>3, ReturnUnique DEF LockTimeout
    <2>4. CASE Baseline(p)
        BY <1>0, <2>4, BaselineUnique
    <2>5. CASE \E e \in Event, d \in Day : BulkAppend(p, e, d)
        BY <1>0, <2>5, BulkAppendUnique
    <2>6. CASE TakeNumber(p) \/ \E e \in Event, d \in Day : AppendOne(p, e, d)
        BY <2>6, Mine DEF TakeNumber, AppendOne, At, InvOf
    <2>7. CASE Flush(p)
        <3>1. CASE \/ StartFlush(p) \/ StartDrop(p) \/ FlushDone(p) \/ DropDone(p)
                   \/ \E d \in Day : SyncDay(p, d)
            BY <1>0, <3>1, FlushUnique
        <3>2. CASE \E d \in Day : WriteRecord(p, d) \/ WriteSome(p, d) \/ WriteRest(p, d)
            BY <1>0, <3>2, WriteRecordUnique, WriteSomeUnique, WriteRestUnique
        <3> QED
            BY <2>7, <3>1, <3>2 DEF Flush
    <2>8. CASE Redact(p)
        BY <1>0, <2>8, ReadDayUnique, PersistUnique, ReturnUnique DEF Redact, RedactDone
    <2> QED
        BY <1>4, <2>1, <2>2, <2>3, <2>4, <2>5, <2>6, <2>7, <2>8 DEF Run
<1>5. ASSUME NEW p \in Proc, Kill(p)
      PROVE  UniqueInv'
    BY <1>0, <1>5, ReturnUnique DEF Kill
<1> QED
    BY <1>1, <1>2, <1>3, <1>4, <1>5 DEF Next

(* The lock excludes, and a writer under it knows all there is: the        *)
(* inductive invariant of the next two theorems.                           *)
THEOREM WritersExclude ==
    ASSUME "append" \notin Ops
    PROVE  Spec => []UniqueInv
<1>1. UniqueInv /\ [Next]_vars => UniqueInv'
    BY UniqueStep
<1> QED
    BY <1>1, InitUnique, PTL DEF Spec

(* One number for one record, through kills, power losses, recoveries      *)
(* without the lock and redactions, as long as events come in through      *)
(* BulkWriter only.                                                        *)
THEOREM OneNumber ==
    ASSUME "append" \notin Ops
    PROVE  Spec => []NumbersUnique
<1>1. UniqueInv => NumbersUnique
    BY DEF UniqueInv
<1> QED
    BY <1>1, WritersExclude, PTL

(* Under the same condition an event is in the journal at most once, in    *)
(* whatever form.                                                          *)
THEOREM OneRecord ==
    ASSUME "append" \notin Ops
    PROVE  Spec => []NoDuplicates
<1>1. UniqueInv => NoDuplicates
    BY DEF UniqueInv
<1> QED
    BY <1>1, WritersExclude, PTL

-----------------------------------------------------------------------------
(* What is acknowledged stays readable *)

(* The day file a process works on next. *)
First(c, d) == d \in c.days /\ \A e \in c.days : d <= e

(* A recovery cuts a file as it saw it: nobody wrote to it in between.     *)
(* Journal_race shows what becomes of the files otherwise.                 *)
CutsFresh ==
    \A p \in Proc : proc[p].pc = "cut" => \A d \in Day : First(proc[p], d) =>
        /\ GoodPrefix(files[d], Len(proc[p].hand))
        /\ KeptBy(files[d], proc[p].hand)

(* Nor is anybody half through a record there: what it saw may be just     *)
(* that record's beginning, which the writer goes on to complete.          *)
CutsClear ==
    /\ CutsFresh
    /\ \A p \in Proc : proc[p].pc = "cut" => \A d \in Day : First(proc[p], d) =>
           \A q \in Proc : d \notin proc[q].split

(* A step that cuts files at most where they are torn and nobody writes.   *)
Trimmed ==
    \A d \in Day :
        \/ files'[d] = files[d] /\ synced'[d] \in {synced[d], Len(files[d])}
        \/ ~Clean(files[d]) /\ \A q \in Proc : d \notin proc[q].split

(* What DurableInv says of the process that takes a step, and its type.    *)
LEMMA Own ==
    ASSUME DurableInv, NEW p \in Proc
    PROVE  /\ TypeOK /\ InvOf(files, lock, p, proc[p]) /\ CleanInv(files, synced, proc[p])
           /\ proc[p] \in Local
BY Mine DEF DurableInv, UniqueInv

LEMMA OwnFile ==
    ASSUME DurableInv, NEW d \in Day
    PROVE  /\ files[d] \in Seq(Record) /\ Len(files[d]) \in Nat /\ TornAtEnd(files[d])
           /\ synced[d] \in Nat /\ synced[d] <= Len(files[d])
BY DEF DurableInv, UniqueInv, TypeOK

LEMMA OwnAcked ==
    ASSUME DurableInv, NEW a \in acked
    PROVE  /\ a.day \in Day
           /\ \E i \in 1..synced[a.day] : Same(files[a.day][i], a) /\ files[a.day][i].form = "whole"
BY DEF DurableInv, UniqueInv, TypeOK, AckedSynced

(* Outside the lock nothing is known of the files.                         *)
LEMMA Outside ==
    ASSUME NEW c, c.mine = {}, ~Inside(c)
    PROVE  \A fs, sy : CleanInv(fs, sy, c)
BY DEF CleanInv, Inside, Writing

LEMMA OutsideOwn ==
    ASSUME DurableInv, NEW p \in Proc, ~Inside(proc[p])
    PROVE  \A fs, sy : CleanInv(fs, sy, proc[p])
<1>1. proc[p].mine = {}
    BY Own DEF CleanInv, Inside, Writing
<1> QED
    BY <1>1, Outside

(* A step of one process: it is in the lock, or cuts what is torn.         *)
LEMMA DurableStep ==
    ASSUME DurableInv, UniqueInv', NEW p \in Proc,
           \A q \in Proc \ {p} : proc'[q] = proc[q],
           \A d \in Day : TornAtEnd(files'[d]),
           AckedSynced(files, synced)',
           CleanInv(files', synced', proc'[p]),
           Trimmed \/ lock = p
    PROVE  DurableInv'
<1>1. \A q \in Proc \ {p} : CleanInv(files', synced', proc'[q])
    <2> SUFFICES ASSUME NEW q \in Proc \ {p}
                 PROVE  CleanInv(files', synced', proc[q])
        OBVIOUS
    <2>1. /\ InvOf(files, lock, q, proc[q]) /\ CleanInv(files, synced, proc[q])
          /\ proc[q] \in Local
        BY Own
    <2>2. CASE ~Inside(proc[q])
        BY <2>2, OutsideOwn
    <2>3. CASE Inside(proc[q])
        <3>1. Trimmed
            BY <2>1, <2>3 DEF InvOf
        <3> DEFINE c == proc[q]
        <3>2. \A d \in Day : Clean(files[d]) \/ d \in c.split =>
                 files'[d] = files[d] /\ synced'[d] \in {synced[d], Len(files[d])}
            BY <3>1 DEF Trimmed
        <3>3. c.mine \subseteq [id : Event, seq : Nat, day : Day]
            BY <2>1 DEF Local
        <3> HIDE DEF c
        <3>4. c.op = "write" /\ c.pc \in {"scan", "cut"} =>
                 \A d \in Day \ c.days : Clean(files'[d])
            BY <2>1, <3>2 DEF CleanInv, c
        <3>5. c.pc \in Writing \cup {"base"} => \A d \in Day \ c.split : Clean(files'[d])
            BY <2>1, <3>2 DEF CleanInv, c
        <3>6. c.pc \in Writing => \A d \in Day :
                 files'[d] = files[d] /\ synced'[d] \in {synced[d], Len(files[d])}
            BY <2>1, <3>2 DEF CleanInv, c
        <3>7. c.pc \in Writing =>
                 /\ \A d \in c.split \cap Day :
                       /\ Len(files'[d]) > 0 /\ files'[d][Len(files'[d])].form \in Tears
                       /\ files'[d][Len(files'[d])].seq = Head(c.buffer[d]).seq
                 /\ \A m \in c.mine :
                       \/ \E i \in DOMAIN files'[m.day] :
                             Same(files'[m.day][i], m) /\ files'[m.day][i].form = "whole"
                       \/ \E j \in DOMAIN c.buffer[m.day] : Same(c.buffer[m.day][j], m)
            BY <2>1, <3>3, <3>6 DEF CleanInv, c
        <3>8. c.split \subseteq Day /\ c.days \subseteq Day
            BY <2>1 DEF Local, c
        <3>9. c.pc \notin Writing => c.mine = {}
            BY <2>1 DEF CleanInv, c
        <3>10. c.pc \in {"flush", "drop"} => \A m \in c.mine :
                  m.day \notin c.days => c.buffer[m.day] = <<>> /\ synced'[m.day] = Len(files'[m.day])
            BY <2>1, <3>3, <3>6 DEF CleanInv, Writing, c
        <3>11. c.pc = "persist" => \A d \in c.days : (\A e \in c.days : d <= e) =>
                  Clean(files'[d]) /\ c.hand = files'[d]
            BY <2>1, <3>2, <3>8 DEF CleanInv, c
        <3> QED
            BY <3>4, <3>5, <3>7, <3>8, <3>9, <3>10, <3>11 DEF CleanInv, c
    <2> QED
        BY <2>2, <2>3
<1> QED
    BY <1>1 DEF DurableInv

(* A step that leaves files, synced and acked alone.                       *)
LEMMA LocalDurable ==
    ASSUME DurableInv, UniqueInv', NEW p \in Proc, NEW c,
           proc' = [proc EXCEPT ![p] = c],
           UNCHANGED <<files, synced, acked>>,
           CleanInv(files, synced, c)
    PROVE  DurableInv'
<1>1. proc'[p] = c /\ \A q \in Proc \ {p} : proc'[q] = proc[q]
    BY DEF DurableInv, UniqueInv, TypeOK
<1>2. \A d \in Day : TornAtEnd(files'[d])
    BY DEF DurableInv
<1>3. AckedSynced(files, synced)'
    BY DEF DurableInv, AckedSynced
<1>4. Trimmed
    BY DEF Trimmed
<1> QED
    BY <1>1, <1>2, <1>3, <1>4, DurableStep

LEMMA DurableRest ==
    ASSUME NEW fs, NEW sy
    PROVE  CleanInv(fs, sy, Rest)
BY DEF Rest, CleanInv, Writing

LEMMA ReturnDurable ==
    ASSUME DurableInv, UniqueInv', NEW p \in Proc, Return(p), UNCHANGED <<files, synced, acked>>
    PROVE  DurableInv'
BY DurableRest, LocalDurable DEF Return

-----------------------------------------------------------------------------
(* One lemma per action *)

LEMMA BeginDurable ==
    ASSUME DurableInv, UniqueInv', NEW p \in Proc, NEW op, Begin(p, op)
    PROVE  DurableInv'
<1>1. PICK targets \in SUBSET Event :
         proc' = [proc EXCEPT ![p] = [Rest EXCEPT
                     !.op = op, !.targets = targets, !.days = Day,
                     !.pc = IF op = "write" THEN "lock" ELSE "scan"]]
    BY DEF Begin
<1> DEFINE c == [Rest EXCEPT !.op = op, !.targets = targets, !.days = Day,
                             !.pc = IF op = "write" THEN "lock" ELSE "scan"]
<1>2. c.pc \in {"lock", "scan"} /\ c.mine = {} /\ c.days = Day
    BY DEF Rest
<1>3. proc' = [proc EXCEPT ![p] = c] /\ UNCHANGED <<files, synced, acked>>
    BY <1>1 DEF Begin
<1> HIDE DEF c
<1>4. CleanInv(files, synced, c)
    BY <1>2 DEF CleanInv, Writing
<1> QED
    BY <1>3, <1>4, LocalDurable

(* All but a torn last record of a file is what recovery keeps.            *)
LEMMA KeptPart ==
    ASSUME NEW f \in Seq(Record), TornAtEnd(f), NEW n \in 0..Len(f), GoodPrefix(f, n)
    PROVE  \/ n = Len(f) /\ Clean(f)
           \/ n = Len(f) - 1 /\ Len(f) > 0 /\ f[Len(f)].form = "part"
<1>1. CASE n = Len(f)
    BY <1>1 DEF GoodPrefix, Good, Clean, TornAtEnd
<1>2. CASE n < Len(f)
    <2>1. n + 1 \in 1..Len(f) /\ ~Good(f, n + 1)
        BY <1>2 DEF GoodPrefix
    <2>2. PICK i \in 1..(n + 1) : f[i].form # "whole"
        BY <2>1 DEF Good
    <2>3. i \in 1..Len(f) /\ i = Len(f) /\ f[i].form = "part"
        BY <2>1, <2>2 DEF TornAtEnd
    <2> QED
        BY <1>2, <2>1, <2>2, <2>3
<1> QED
    BY <1>1, <1>2

LEMMA ScanDurable ==
    ASSUME DurableInv, UniqueInv', NEW p \in Proc, Scan(p)
    PROVE  DurableInv'
<1>1. /\ CleanInv(files, synced, proc[p]) /\ proc[p] \in Local /\ proc[p].pc = "scan"
    BY Own DEF Scan, At
<1>2. PICK d \in Day : \E n \in 0..Len(files[d]) :
         /\ GoodPrefix(files[d], n)
         /\ IF n = Len(files[d])
            THEN proc' = [proc EXCEPT ![p].days = @ \ {d}]
            ELSE proc' = [proc EXCEPT ![p].pc = "cut", ![p].hand = SubSeq(files[d], 1, n)]
    BY DEF Scan
<1>3. PICK n \in 0..Len(files[d]) :
         /\ GoodPrefix(files[d], n)
         /\ IF n = Len(files[d])
            THEN proc' = [proc EXCEPT ![p].days = @ \ {d}]
            ELSE proc' = [proc EXCEPT ![p].pc = "cut", ![p].hand = SubSeq(files[d], 1, n)]
    BY <1>2
<1>4. UNCHANGED <<files, synced, acked>>
    BY DEF Scan
<1>5. CASE n = Len(files[d])
    <2> DEFINE c == [proc[p] EXCEPT !.days = @ \ {d}]
    <2>1. /\ c.pc = "scan" /\ c.op = proc[p].op /\ c.mine = proc[p].mine /\ c.days = proc[p].days \ {d}
        BY <1>1 DEF Local
    <2>2. proc' = [proc EXCEPT ![p] = c]
        BY <1>3, <1>5
    <2>3. Clean(files[d])
        BY <1>3, <1>5, OwnFile, KeptPart
    <2> HIDE DEF c
    <2>4. CleanInv(files, synced, c)
        BY <1>1, <2>1, <2>3 DEF CleanInv, Writing
    <2> QED
        BY <1>4, <2>2, <2>4, LocalDurable
<1>6. CASE n # Len(files[d])
    <2> DEFINE c == [proc[p] EXCEPT !.pc = "cut", !.hand = SubSeq(files[d], 1, n)]
    <2>1. /\ c.pc = "cut" /\ c.op = proc[p].op /\ c.mine = proc[p].mine /\ c.days = proc[p].days
        BY <1>1 DEF Local
    <2>2. proc' = [proc EXCEPT ![p] = c]
        BY <1>3, <1>6
    <2> HIDE DEF c
    <2>3. CleanInv(files, synced, c)
        BY <1>1, <2>1 DEF CleanInv, Writing
    <2> QED
        BY <1>4, <2>2, <2>3, LocalDurable
<1> QED
    BY <1>5, <1>6

(* A recovery that sees the file as it is cuts off a torn record at its    *)
(* end and nothing else.                                                   *)
LEMMA TornCut ==
    ASSUME NEW f \in Seq(Record), NEW h \in Seq(Record), TornAtEnd(f),
           GoodPrefix(f, Len(h)), KeptBy(f, h)
    PROVE  /\ Clean(h) /\ \A i \in DOMAIN f : f[i].form = "whole" => i \in DOMAIN h /\ h[i] = f[i]
           /\ Clean(f) => h = f
<1>1. Len(f) \in Nat /\ Len(h) \in 0..Len(f) /\ h = SubSeq(f, 1, Len(h))
    BY DEF KeptBy
<1>2. \A i \in 1..Len(h) : h[i] = f[i]
    BY <1>1, Prefix
<1>3. CASE Len(h) = Len(f) /\ Clean(f)
    <2>1. DOMAIN h = DOMAIN f
        BY <1>1, <1>3
    <2>2. h = f
        BY <1>2, <1>3, <2>1
    <2> QED
        BY <1>3, <2>2
<1>4. CASE Len(h) = Len(f) - 1 /\ Len(f) > 0 /\ f[Len(f)].form = "part"
    <2>1. Len(f) \in DOMAIN f /\ ~Clean(f)
        BY <1>1, <1>4 DEF Clean
    <2>2. \A i \in DOMAIN f : i \in DOMAIN h \/ i = Len(f)
        BY <1>1, <1>4
    <2>3. Clean(h)
        BY <1>1, <1>2, <1>4 DEF Clean, TornAtEnd
    <2> QED
        BY <1>2, <1>4, <2>1, <2>2, <2>3
<1> QED
    BY <1>1, <1>3, <1>4, KeptPart

LEMMA CutDurable ==
    ASSUME DurableInv, UniqueInv', CutsClear, NEW p \in Proc, Cut(p)
    PROVE  DurableInv'
<1>1. /\ TypeOK /\ CleanInv(files, synced, proc[p]) /\ proc[p] \in Local /\ proc[p].pc = "cut"
    BY Own DEF Cut, At
<1> DEFINE h == proc[p].hand
<1>2. PICK d \in Day :
         /\ NextDay(p, d)
         /\ \E g \in IF KeptBy(files[d], h) THEN {h}
                     ELSE Survivors(files[d], 0) \cup {Append(files[d], Junk)} :
               /\ files' = [files EXCEPT ![d] = g]
               /\ synced' = [synced EXCEPT ![d] = Len(g)]
         /\ proc' = [proc EXCEPT ![p].pc = "scan", ![p].days = @ \ {d}, ![p].hand = <<>>]
    BY DEF Cut
<1>3. /\ GoodPrefix(files[d], Len(h)) /\ KeptBy(files[d], h)
      /\ \A q \in Proc : d \notin proc[q].split
    BY <1>1, <1>2 DEF CutsClear, CutsFresh, First, NextDay
<1>4. h \in Seq(Record) /\ Len(h) \in Nat
    BY <1>1 DEF Local
<1>5. /\ Clean(h) /\ \A i \in DOMAIN files[d] : files[d][i].form = "whole" => i \in DOMAIN h /\ h[i] = files[d][i]
      /\ Clean(files[d]) => h = files[d]
    BY <1>3, <1>4, OwnFile, TornCut
<1>6. files' = [files EXCEPT ![d] = h] /\ synced' = [synced EXCEPT ![d] = Len(h)]
    BY <1>2, <1>3
<1>7. /\ files'[d] = h /\ \A x \in Day \ {d} : files'[x] = files[x]
      /\ synced'[d] = Len(h) /\ \A x \in Day \ {d} : synced'[x] = synced[x]
    BY <1>1, <1>6 DEF TypeOK
<1>8. proc'[p].pc = "scan" /\ proc'[p].op = proc[p].op /\ proc'[p].mine = proc[p].mine
      /\ proc'[p].days = proc[p].days \ {d} /\ \A q \in Proc \ {p} : proc'[q] = proc[q]
    BY <1>1, <1>2 DEF TypeOK, Local
<1> HIDE DEF h
<1>9. \A x \in Day : TornAtEnd(files'[x])
    BY <1>5, <1>7, OwnFile DEF TornAtEnd, Clean
<1>10. AckedSynced(files, synced)'
    <2> SUFFICES ASSUME NEW a \in acked
                 PROVE  \E i \in 1..synced'[a.day] : Same(files'[a.day][i], a) /\ files'[a.day][i].form = "whole"
        BY DEF AckedSynced, Cut
    <2>1. PICK i \in 1..synced[a.day] : Same(files[a.day][i], a) /\ files[a.day][i].form = "whole"
        BY OwnAcked
    <2>2. a.day \in Day
        BY OwnAcked
    <2>3. CASE a.day = d
        <3>1. i \in DOMAIN files[d]
            BY <2>1, <2>3, OwnFile
        <3>2. i \in 1..Len(h) /\ h[i] = files[d][i]
            BY <1>4, <1>5, <2>1, <2>3, <3>1
        <3> QED
            BY <1>7, <2>1, <2>3, <3>2
    <2>4. CASE a.day # d
        BY <1>7, <2>1, <2>2, <2>4
    <2> QED
        BY <2>3, <2>4
<1>11. Trimmed
    BY <1>3, <1>5, <1>7 DEF Trimmed
<1>12. CleanInv(files', synced', proc'[p])
    BY <1>1, <1>5, <1>7, <1>8 DEF CleanInv, Writing
<1> QED
    BY <1>8, <1>9, <1>10, <1>11, <1>12, DurableStep

(* A writer that has recovered every file starts with clean ones.          *)
LEMMA RecoveredDurable ==
    ASSUME DurableInv, UniqueInv', NEW p \in Proc, Recovered(p)
    PROVE  DurableInv'
<1>1. /\ CleanInv(files, synced, proc[p]) /\ proc[p] \in Local
      /\ proc[p].pc = "scan" /\ proc[p].days = {} /\ UNCHANGED <<files, synced, acked>>
    BY Own DEF Recovered, At
<1>2. \/ Return(p)
      \/ \E step \in {"max", "lock"} : Goto(p, step)
      \/ proc[p].op = "write" /\ Goto(p, "base")
    BY <1>1 DEF Recovered, Local, Operation
<1>3. ASSUME NEW step \in {"max", "lock", "base"}, Goto(p, step),
             step = "base" => proc[p].op = "write"
      PROVE  DurableInv'
    <2> DEFINE c == [proc[p] EXCEPT !.pc = step]
    <2>1. proc' = [proc EXCEPT ![p] = c] /\ c.pc = step /\ c.mine = proc[p].mine
        BY <1>1, <1>3 DEF Goto, Local
    <2> HIDE DEF c
    <2>2. CleanInv(files, synced, c)
        BY <1>1, <1>3, <2>1 DEF CleanInv, Writing
    <2> QED
        BY <1>1, <2>1, <2>2, LocalDurable
<1> QED
    BY <1>1, <1>2, <1>3, ReturnDurable

LEMMA TakeLockDurable ==
    ASSUME DurableInv, UniqueInv', NEW p \in Proc, TakeLock(p)
    PROVE  DurableInv'
<1> DEFINE step == AfterLock(proc[p].op)
           c == [proc[p] EXCEPT !.pc = step, !.days = Day]
<1>1. /\ InvOf(files, lock, p, proc[p]) /\ CleanInv(files, synced, proc[p])
      /\ proc[p] \in Local /\ proc[p].pc = "lock"
    BY Own DEF TakeLock, At
<1>2. step \in {"scan", "rewrite"}
    BY <1>1 DEF InvOf, AfterLock
<1>3. proc' = [proc EXCEPT ![p] = c] /\ UNCHANGED <<files, synced, acked>>
    BY DEF TakeLock
<1> HIDE DEF step
<1>4. c.pc = step /\ c.mine = proc[p].mine /\ c.days = Day
    BY <1>1 DEF Local
<1> HIDE DEF c
<1>5. CleanInv(files, synced, c)
    BY <1>1, <1>2, <1>4 DEF CleanInv, Writing
<1> QED
    BY <1>3, <1>5, LocalDurable

LEMMA BaselineDurable ==
    ASSUME DurableInv, UniqueInv', NEW p \in Proc, Baseline(p)
    PROVE  DurableInv'
<1>1. /\ TypeOK /\ InvOf(files, lock, p, proc[p]) /\ CleanInv(files, synced, proc[p])
      /\ proc[p] \in Local
      /\ proc[p].pc = "base"
    BY Own DEF Baseline, At
<1>2. CASE ~Readable
    BY <1>2, ReturnDurable DEF Baseline
<1>3. CASE Readable
    <2>1. PICK n \in 1..(MaxSeq + 1) :
             proc' = [proc EXCEPT ![p].pc = "append", ![p].next = n,
                                  ![p].seen = {r.id : r \in Records}]
        BY <1>3 DEF Baseline
    <2> DEFINE c == [proc[p] EXCEPT !.pc = "append", !.next = n, !.seen = {r.id : r \in Records}]
    <2>2. /\ c.pc = "append" /\ c.split = proc[p].split /\ c.mine = proc[p].mine
          /\ c.buffer = proc[p].buffer
        BY <1>1 DEF Local
    <2>3. proc' = [proc EXCEPT ![p] = c] /\ UNCHANGED <<files, synced, acked>>
        BY <1>3, <2>1 DEF Baseline
    <2> HIDE DEF c
    <2>4. proc[p].split = {} /\ proc[p].mine = {}
        BY <1>1 DEF InvOf, BufferInv, CleanInv, Writing
    <2>5. CleanInv(files, synced, c)
        BY <1>1, <2>2, <2>4 DEF CleanInv, Writing
    <2> QED
        BY <2>3, <2>5, LocalDurable
<1> QED
    BY <1>2, <1>3

LEMMA BulkAppendDurable ==
    ASSUME DurableInv, UniqueInv', NEW p \in Proc, NEW e \in Event, NEW d \in Day, BulkAppend(p, e, d)
    PROVE  DurableInv'
<1> DEFINE r == NewRecord(e, proc[p].next)
           b == [proc[p].buffer EXCEPT ![d] = Append(@, r)]
           m0 == [id |-> e, seq |-> proc[p].next, day |-> d]
           c == [proc[p] EXCEPT !.seen = @ \cup {e}, !.next = @ + 1, !.buffer = b, !.mine = @ \cup {m0}]
<1>1. /\ TypeOK /\ InvOf(files, lock, p, proc[p]) /\ CleanInv(files, synced, proc[p])
      /\ proc[p] \in Local
      /\ proc[p].pc = "append" /\ proc[p].split = {}
    BY Own DEF BulkAppend, At
<1>2. proc' = [proc EXCEPT ![p] = c] /\ UNCHANGED <<files, synced, acked>>
    BY DEF BulkAppend
<1>3. r.id = e /\ r.seq = proc[p].next /\ r \in Fresh /\ proc[p].buffer[d] \in Seq(Fresh)
    BY <1>1, NewRecordFresh DEF Local
<1>4. Same(r, m0) /\ m0.day = d
    BY <1>3 DEF Same
<1>5. b[d] = Append(proc[p].buffer[d], r) /\ \A x \in Day \ {d} : b[x] = proc[p].buffer[x]
    BY <1>1 DEF Local
<1> HIDE DEF r, b, m0
<1>6. /\ c.pc = "append" /\ c.split = {} /\ c.mine = proc[p].mine \cup {m0}
      /\ c.buffer = b
    BY <1>1 DEF Local
<1> HIDE DEF c
<1>7. \A x \in Day : \A j \in DOMAIN proc[p].buffer[x] : j \in DOMAIN b[x] /\ b[x][j] = proc[p].buffer[x][j]
    BY <1>3, <1>5, Extended
<1>8. Len(proc[p].buffer[d]) + 1 \in DOMAIN b[d] /\ b[d][Len(proc[p].buffer[d]) + 1] = r
    BY <1>3, <1>5, Extended
<1>9. ASSUME NEW m \in c.mine
      PROVE  \/ \E i \in DOMAIN files[m.day] : Same(files[m.day][i], m) /\ files[m.day][i].form = "whole"
             \/ \E j \in DOMAIN b[m.day] : Same(b[m.day][j], m)
    <2>1. CASE m = m0
        BY <1>4, <1>8, <2>1
    <2>2. CASE m \in proc[p].mine
        <3>1. m.day \in Day
            BY <1>1, <2>2 DEF Local
        <3> QED
            BY <1>1, <1>7, <2>2, <3>1 DEF CleanInv, Writing
    <2> QED
        BY <1>6, <2>1, <2>2
<1>10. CleanInv(files, synced, c)
    BY <1>1, <1>6, <1>9 DEF CleanInv, Writing
<1> QED
    BY <1>2, <1>10, LocalDurable

(* Appending to a file whose synced part it leaves alone.                  *)
LEMMA AckedAppend ==
    ASSUME DurableInv, NEW d \in Day, NEW g, files' = [files EXCEPT ![d] = g],
           \A i \in 1..synced[d] : files[d][i].form = "whole" => g[i] = files[d][i],
           UNCHANGED <<synced, acked>>
    PROVE  AckedSynced(files, synced)'
<1> SUFFICES ASSUME NEW a \in acked
             PROVE  \E i \in 1..synced[a.day] : Same(files'[a.day][i], a) /\ files'[a.day][i].form = "whole"
    BY DEF AckedSynced
<1>1. a.day \in Day
    BY DEF DurableInv, UniqueInv, TypeOK
<1>2. PICK i \in 1..synced[a.day] : Same(files[a.day][i], a) /\ files[a.day][i].form = "whole"
    BY DEF DurableInv, AckedSynced
<1>3. files'[d] = g /\ \A x \in Day \ {d} : files'[x] = files[x]
    BY DEF DurableInv, UniqueInv, TypeOK
<1>4. files'[a.day][i] = files[a.day][i]
    BY <1>1, <1>2, <1>3
<1> QED
    BY <1>2, <1>4

(* What a buffer holds besides its first record is in its tail.            *)
LEMMA RestOfBuffer ==
    ASSUME NEW s \in Seq(Fresh), s # <<>>, NEW j \in DOMAIN s, j # 1
    PROVE  j - 1 \in DOMAIN Tail(s) /\ Tail(s)[j - 1] = s[j]
<1>1. Len(s) \in Nat /\ Len(s) > 0
    BY EmptySeq
<1>2. Len(Tail(s)) = Len(s) - 1 /\ Tail(s) \in Seq(Fresh)
    BY <1>1, HeadTailProperties
<1>3. j - 1 \in 1..(Len(s) - 1)
    BY <1>1
<1> QED
    BY <1>1, <1>2, <1>3, HeadTailProperties

(* A writer's next record is in its file, whole, and out of its buffer.    *)
LEMMA WrittenDurable ==
    ASSUME DurableInv, UniqueInv', NEW p \in Proc, NEW d \in Day, NEW g,
           proc[p].pc \in Writing, proc[p].buffer[d] # <<>>, proc[p].split \subseteq {d},
           files' = [files EXCEPT ![d] = g],
           NEW t, t = [proc[p].buffer EXCEPT ![d] = Tail(@)],
           proc' = [proc EXCEPT ![p] = [proc[p] EXCEPT !.split = {}, !.buffer = t]],
           UNCHANGED <<synced, acked>>,
           Clean(g),
           \A i \in DOMAIN files[d] : files[d][i].form = "whole" => i \in DOMAIN g /\ g[i] = files[d][i],
           \E i \in DOMAIN g : g[i] = Head(proc[p].buffer[d])
    PROVE  DurableInv'
<1> DEFINE c == [proc[p] EXCEPT !.split = {}, !.buffer = t]
           h == Head(proc[p].buffer[d])
<1>1. /\ TypeOK /\ InvOf(files, lock, p, proc[p]) /\ CleanInv(files, synced, proc[p])
      /\ proc[p] \in Local
      /\ proc[p].buffer \in [Day -> Seq(Fresh)]
    BY Own DEF Writing, Local
<1>2. h \in Fresh /\ h = proc[p].buffer[d][1]
    BY <1>1, HeadOfBuffer
<1>3. h.form = "whole"
    BY <1>2, FreshIsRecord
<1>4. ASSUME NEW x \in Day, NEW j \in DOMAIN proc[p].buffer[x], ~(x = d /\ j = 1)
      PROVE  \E k \in DOMAIN t[x] : t[x][k] = proc[p].buffer[x][j]
    <2>1. CASE x = d
        <3>1. proc[p].buffer[d] \in Seq(Fresh) /\ t[d] = Tail(proc[p].buffer[d]) /\ j # 1
            BY <1>1, <1>4, <2>1
        <3>2. j \in DOMAIN proc[p].buffer[d]
            BY <1>4, <2>1
        <3>3. j - 1 \in DOMAIN t[d] /\ t[d][j - 1] = proc[p].buffer[d][j]
            BY <3>1, <3>2, RestOfBuffer
        <3> QED
            BY <2>1, <3>3
    <2>2. CASE x # d
        BY <1>1, <2>2
    <2> QED
        BY <2>1, <2>2
<1>5. \A x \in Day \ {d} : t[x] = proc[p].buffer[x]
    BY <1>1
<1>6. proc'[p] = c /\ \A q \in Proc \ {p} : proc'[q] = proc[q]
    <2>1. proc' = [proc EXCEPT ![p] = c] /\ proc \in [Proc -> Local]
        BY DEF DurableInv, UniqueInv, TypeOK
    <2> HIDE DEF c
    <2> QED
        BY <2>1
<1> HIDE DEF h
<1>7. /\ c.pc = proc[p].pc /\ c.split = {} /\ c.mine = proc[p].mine
      /\ c.buffer = t /\ c.days = proc[p].days
    BY <1>1 DEF Local
<1> HIDE DEF c
<1>8. files'[d] = g /\ \A x \in Day \ {d} : files'[x] = files[x]
    BY DEF DurableInv, UniqueInv, TypeOK
<1>9. \A x \in Day : Clean(files'[x])
    BY <1>1, <1>8 DEF CleanInv
<1>10. AckedSynced(files, synced)'
    <2>1. \A i \in 1..synced[d] : i \in DOMAIN files[d]
        BY DEF DurableInv, UniqueInv, TypeOK
    <2> QED
        BY <2>1, AckedAppend
<1>11. ASSUME NEW m \in c.mine
       PROVE  \/ \E i \in DOMAIN files'[m.day] : Same(files'[m.day][i], m) /\ files'[m.day][i].form = "whole"
              \/ \E j \in DOMAIN t[m.day] : Same(t[m.day][j], m)
    <2>1. m.day \in Day /\ m \in proc[p].mine
        BY <1>1, <1>7 DEF Local
    <2>2. \/ \E i \in DOMAIN files[m.day] : Same(files[m.day][i], m) /\ files[m.day][i].form = "whole"
          \/ \E j \in DOMAIN proc[p].buffer[m.day] : Same(proc[p].buffer[m.day][j], m)
        BY <1>1, <2>1 DEF CleanInv
    <2>3. CASE \E i \in DOMAIN files[m.day] : Same(files[m.day][i], m) /\ files[m.day][i].form = "whole"
        <3>1. PICK i \in DOMAIN files[m.day] : Same(files[m.day][i], m) /\ files[m.day][i].form = "whole"
            BY <2>3
        <3>2. i \in DOMAIN files'[m.day] /\ files'[m.day][i] = files[m.day][i]
            BY <1>8, <2>1, <3>1
        <3> QED
            BY <3>1, <3>2
    <2>4. CASE \E j \in DOMAIN proc[p].buffer[m.day] : Same(proc[p].buffer[m.day][j], m)
        <3>1. PICK j \in DOMAIN proc[p].buffer[m.day] : Same(proc[p].buffer[m.day][j], m)
            BY <2>4
        <3>2. CASE m.day = d /\ j = 1
            <4>1. PICK i \in DOMAIN g : g[i] = h
                BY DEF h
            <4> QED
                BY <1>2, <1>3, <1>8, <3>1, <3>2, <4>1
        <3>3. CASE ~(m.day = d /\ j = 1)
            BY <1>4, <2>1, <3>1, <3>3
        <3> QED
            BY <3>2, <3>3
    <2> QED
        BY <2>2, <2>3, <2>4
<1>12. ASSUME NEW m \in c.mine, c.pc \in {"flush", "drop"}, m.day \notin c.days
       PROVE  t[m.day] = <<>> /\ synced'[m.day] = Len(files'[m.day])
    <2>1. m.day \in Day /\ proc[p].buffer[m.day] = <<>> /\ synced[m.day] = Len(files[m.day])
        BY <1>1, <1>7, <1>12 DEF CleanInv, Local
    <2>2. m.day # d
        BY <2>1
    <2> QED
        BY <1>5, <1>8, <2>1, <2>2
<1>13. CleanInv(files', synced', c)
    BY <1>7, <1>9, <1>11, <1>12 DEF CleanInv, Writing
<1>14. lock = p
    BY <1>1 DEF InvOf, Inside, Writing
<1>16. \A x \in Day : TornAtEnd(files'[x])
    BY <1>9 DEF Clean, TornAtEnd
<1> QED
    BY <1>6, <1>10, <1>13, <1>14, <1>16, DurableStep

(* Behind a clean file a record goes whole.                                *)
LEMMA WriteRecordDurable ==
    ASSUME DurableInv, UniqueInv', NEW p \in Proc, NEW d \in Day, WriteRecord(p, d)
    PROVE  DurableInv'
<1> DEFINE f == files[d]
           b == proc[p].buffer
           h == Head(b[d])
           g == Append(f, h)
           t == [b EXCEPT ![d] = Tail(@)]
<1>1. /\ TypeOK /\ InvOf(files, lock, p, proc[p]) /\ CleanInv(files, synced, proc[p])
      /\ proc[p] \in Local
      /\ proc[p].pc \in Writing /\ proc[p].split = {} /\ b[d] # <<>>
    BY Own DEF WriteRecord
<1>2. h \in Fresh
    BY <1>1, HeadOfBuffer
<1>3. h.form = "whole" /\ h \in Record
    BY <1>2, FreshIsRecord
<1>4. f \in Seq(Record) /\ Clean(f)
    BY <1>1 DEF DurableInv, UniqueInv, TypeOK, CleanInv
<1> HIDE DEF h, f
<1>5. /\ Len(f) \in Nat /\ DOMAIN f = 1..Len(f) /\ DOMAIN g = 1..(Len(f) + 1)
      /\ g[Len(f) + 1] = h /\ \A i \in 1..Len(f) : g[i] = f[i]
    BY <1>3, <1>4
<1>6. Clean(g)
    BY <1>3, <1>4, <1>5 DEF Clean
<1>7. \A i \in DOMAIN f : f[i].form = "whole" => i \in DOMAIN g /\ g[i] = f[i]
    BY <1>5
<1>8. \E i \in DOMAIN g : g[i] = h
    BY <1>5
<1>9. files' = [files EXCEPT ![d] = g]
    BY DEF WriteRecord, f, h
<1>10. proc' = [proc EXCEPT ![p] = [proc[p] EXCEPT !.split = {}, !.buffer = t]]
    <2>1. [proc[p] EXCEPT !.split = {}, !.buffer = t] = [proc[p] EXCEPT !.buffer = t]
        BY <1>1 DEF Local
    <2>2. proc' = [proc EXCEPT ![p] = [proc[p] EXCEPT !.buffer = t]]
        BY DEF WriteRecord
    <2> QED
        BY <2>1, <2>2
<1> HIDE DEF g, t
<1>11. t = [proc[p].buffer EXCEPT ![d] = Tail(@)]
    BY DEF t
<1>12. /\ \A i \in DOMAIN files[d] : files[d][i].form = "whole" => i \in DOMAIN g /\ g[i] = files[d][i]
       /\ \E i \in DOMAIN g : g[i] = Head(proc[p].buffer[d])
    BY <1>7, <1>8 DEF f, h
<1>13. proc[p].split \subseteq {d} /\ UNCHANGED <<synced, acked>>
    BY <1>1 DEF WriteRecord
<1> QED
    BY <1>1, <1>6, <1>9, <1>10, <1>11, <1>12, <1>13, WrittenDurable

(* Under the lock the rest of a record completes it.                       *)
LEMMA WriteRestDurable ==
    ASSUME DurableInv, UniqueInv', NEW p \in Proc, NEW d \in Day, WriteRest(p, d)
    PROVE  DurableInv'
<1> DEFINE f == files[d]
           b == proc[p].buffer
           h == Head(b[d])
           g == [f EXCEPT ![Len(f)] = h]
           t == [b EXCEPT ![d] = Tail(@)]
<1>1. /\ TypeOK /\ InvOf(files, lock, p, proc[p]) /\ CleanInv(files, synced, proc[p])
      /\ proc[p] \in Local /\ d \in proc[p].split
    BY Own DEF WriteRest
<1>2. proc[p].pc \in Writing /\ proc[p].split = {d} /\ b[d] # <<>>
    BY <1>1 DEF InvOf, BufferInv, TypeOK
<1>3. h \in Fresh
    BY <1>1, <1>2, HeadOfBuffer
<1>4. h.form = "whole" /\ h \in Record
    BY <1>3, FreshIsRecord
<1>5. f \in Seq(Record) /\ TornAtEnd(f)
    BY DEF DurableInv, UniqueInv, TypeOK
<1>6. Len(f) > 0 /\ f[Len(f)].form \in Tears /\ f[Len(f)].seq = h.seq
    BY <1>1, <1>2 DEF CleanInv
<1>7. files' = [files EXCEPT ![d] = g]
    BY <1>6 DEF WriteRest
<1>8. f[Len(f)].form # "whole"
    BY <1>6, NameAssumption
<1> HIDE DEF h, f
<1>9. /\ Len(f) \in Nat /\ DOMAIN f = 1..Len(f) /\ DOMAIN g = 1..Len(f)
      /\ g[Len(f)] = h /\ \A i \in 1..Len(f) : i # Len(f) => g[i] = f[i]
    BY <1>5, <1>6
<1>10. Clean(g)
    BY <1>4, <1>5, <1>9 DEF Clean, TornAtEnd
<1>11. \A i \in DOMAIN f : f[i].form = "whole" => i \in DOMAIN g /\ g[i] = f[i]
    BY <1>8, <1>9
<1>12. \E i \in DOMAIN g : g[i] = h
    <2> HIDE DEF g
    <2>1. Len(f) > 0 /\ Len(f) \in Nat
        BY <1>6, <1>9
    <2>2. Len(f) \in 1..Len(f)
        BY <2>1
    <2>3. DOMAIN g = 1..Len(f) /\ g[Len(f)] = h
        BY <1>9
    <2> QED
        BY <2>2, <2>3
<1>13. proc' = [proc EXCEPT ![p] = [proc[p] EXCEPT !.split = {}, !.buffer = t]]
    BY DEF WriteRest
<1> HIDE DEF g, t
<1>14. t = [proc[p].buffer EXCEPT ![d] = Tail(@)]
    BY DEF t
<1>15. /\ \A i \in DOMAIN files[d] : files[d][i].form = "whole" => i \in DOMAIN g /\ g[i] = files[d][i]
       /\ \E i \in DOMAIN g : g[i] = Head(proc[p].buffer[d])
    BY <1>11, <1>12 DEF f, h
<1>16. proc[p].split \subseteq {d} /\ UNCHANGED <<synced, acked>>
    BY <1>2 DEF WriteRest
<1> QED
    BY <1>2, <1>7, <1>10, <1>13, <1>14, <1>15, <1>16, WrittenDurable

(* A part of a record behind a clean file is what recovery would cut off.  *)
LEMMA WriteSomeDurable ==
    ASSUME Tears \subseteq {"part"}, DurableInv, UniqueInv', NEW p \in Proc, NEW d \in Day, WriteSome(p, d)
    PROVE  DurableInv'
<1> DEFINE f == files[d]
           b == proc[p].buffer
           h == Head(b[d])
<1>1. /\ TypeOK /\ InvOf(files, lock, p, proc[p]) /\ CleanInv(files, synced, proc[p])
      /\ proc[p] \in Local
      /\ proc[p].pc \in Writing /\ proc[p].split = {} /\ b[d] # <<>>
    BY Own DEF WriteSome, Writing
<1>2. PICK form \in Tears : files' = [files EXCEPT ![d] = Append(f, [h EXCEPT !.form = form])]
    BY DEF WriteSome
<1> DEFINE r == [h EXCEPT !.form = form]
           g == Append(f, r)
<1>3. h \in Fresh
    BY <1>1, HeadOfBuffer
<1>4. r.form \in Tears /\ r.form = "part" /\ r.seq = h.seq
    BY <1>2, <1>3 DEF Fresh
<1>5. f \in Seq(Record) /\ Clean(f) /\ synced[d] \in Nat /\ synced[d] <= Len(f)
    BY <1>1 DEF DurableInv, UniqueInv, TypeOK, CleanInv
<1>6. files' = [files EXCEPT ![d] = g]
    BY <1>2
<1> HIDE DEF h, f, r
<1>7. /\ Len(f) \in Nat /\ DOMAIN f = 1..Len(f) /\ DOMAIN g = 1..(Len(f) + 1) /\ Len(g) = Len(f) + 1
      /\ g[Len(f) + 1] = r /\ \A i \in 1..Len(f) : g[i] = f[i]
    BY <1>5
<1> HIDE DEF g
<1>8. TornAtEnd(g)
    BY <1>4, <1>5, <1>7 DEF Clean, TornAtEnd
<1>9. files'[d] = g /\ \A x \in Day \ {d} : files'[x] = files[x]
    BY <1>6 DEF DurableInv, UniqueInv, TypeOK
<1>10. \A x \in Day : TornAtEnd(files'[x])
    BY <1>8, <1>9 DEF DurableInv
<1>11. AckedSynced(files, synced)'
    <2>1. \A i \in 1..synced[d] : g[i] = files[d][i]
        BY <1>5, <1>7 DEF f
    <2>2. UNCHANGED <<synced, acked>>
        BY DEF WriteSome
    <2> QED
        BY <1>6, <2>1, <2>2, AckedAppend
<1> DEFINE c == [proc[p] EXCEPT !.split = {d}]
<1>12. /\ c.pc = proc[p].pc /\ c.split = {d} /\ c.mine = proc[p].mine
       /\ c.buffer = b /\ c.days = proc[p].days
    BY <1>1 DEF Local
<1>13. proc'[p] = c /\ \A q \in Proc \ {p} : proc'[q] = proc[q]
    <2>1. proc' = [proc EXCEPT ![p] = c] /\ proc \in [Proc -> Local]
        BY <1>1 DEF WriteSome, TypeOK
    <2> HIDE DEF c
    <2> QED
        BY <2>1
<1> HIDE DEF c
<1>14. ASSUME NEW m \in c.mine
       PROVE  \/ \E i \in DOMAIN files'[m.day] : Same(files'[m.day][i], m) /\ files'[m.day][i].form = "whole"
              \/ \E j \in DOMAIN b[m.day] : Same(b[m.day][j], m)
    <2>1. m.day \in Day /\ m \in proc[p].mine
        BY <1>1, <1>12 DEF Local
    <2>2. \A i \in DOMAIN files[m.day] : i \in DOMAIN files'[m.day] /\ files'[m.day][i] = files[m.day][i]
        BY <1>7, <1>9, <2>1 DEF f
    <2> QED
        BY <1>1, <2>1, <2>2 DEF CleanInv
<1>15. ASSUME NEW m \in c.mine, c.pc \in {"flush", "drop"}, m.day \notin c.days
       PROVE  b[m.day] = <<>> /\ synced'[m.day] = Len(files'[m.day])
    <2>1. m.day \in Day /\ b[m.day] = <<>> /\ synced[m.day] = Len(files[m.day])
        BY <1>1, <1>12, <1>15 DEF CleanInv, Local
    <2>2. m.day # d
        BY <1>1, <2>1
    <2> QED
        BY <1>9, <2>1, <2>2 DEF WriteSome
<1>16. /\ \A x \in Day \ c.split : Clean(files'[x])
       /\ \A x \in c.split : /\ Len(files'[x]) > 0 /\ files'[x][Len(files'[x])].form \in Tears
                             /\ files'[x][Len(files'[x])].seq = Head(b[x]).seq
    <2>1. \A x \in Day \ {d} : Clean(files[x])
        BY <1>1 DEF CleanInv
    <2> QED
        BY <1>4, <1>7, <1>9, <1>12, <2>1 DEF h
<1>17. CleanInv(files', synced', c)
    BY <1>1, <1>12, <1>14, <1>15, <1>16 DEF CleanInv, Writing
<1>18. lock = p
    BY <1>1 DEF InvOf, Inside, Writing
<1> QED
    BY <1>10, <1>11, <1>13, <1>17, <1>18, DurableStep

(* A step that writes no record and leaves a process where it was, in the  *)
(* lock or out of it, or takes it out.                                     *)
LEMMA FlushDurable ==
    ASSUME DurableInv, UniqueInv', NEW p \in Proc,
           StartFlush(p) \/ StartDrop(p)
    PROVE  DurableInv'
<1>1. /\ TypeOK /\ InvOf(files, lock, p, proc[p]) /\ CleanInv(files, synced, proc[p])
      /\ proc[p] \in Local
      /\ proc[p].pc = "append" /\ proc[p].split = {}
    BY Own DEF StartFlush, StartDrop, At
<1>2. PICK step \in {"flush", "drop"} :
         proc' = [proc EXCEPT ![p].pc = step, ![p].days = Opened(p)]
    BY DEF StartFlush, StartDrop
<1> DEFINE c == [proc[p] EXCEPT !.pc = step, !.days = Opened(p)]
<1>3. proc' = [proc EXCEPT ![p] = c] /\ UNCHANGED <<files, synced, acked>>
    BY <1>2 DEF StartFlush, StartDrop
<1>4. /\ c.pc \in {"flush", "drop"} /\ c.split = {} /\ c.mine = proc[p].mine
      /\ c.buffer = proc[p].buffer /\ c.days = Opened(p)
    BY <1>1 DEF Local
<1> HIDE DEF c
<1>5. \A m \in c.mine : m.day \in c.days
    BY <1>4 DEF Opened
<1>6. CleanInv(files, synced, c)
    BY <1>1, <1>4, <1>5 DEF CleanInv, Writing
<1> QED
    BY <1>3, <1>6, LocalDurable

LEMMA SyncDayDurable ==
    ASSUME DurableInv, UniqueInv', NEW p \in Proc, NEW d \in Day, SyncDay(p, d)
    PROVE  DurableInv'
<1>1. /\ TypeOK /\ InvOf(files, lock, p, proc[p]) /\ CleanInv(files, synced, proc[p])
      /\ proc[p] \in Local
      /\ proc[p].pc \in {"flush", "drop"} /\ proc[p].buffer[d] = <<>>
    BY Own DEF SyncDay
<1> DEFINE c == [proc[p] EXCEPT !.days = @ \ {d}]
<1>2. /\ c.pc = proc[p].pc /\ c.split = proc[p].split /\ c.mine = proc[p].mine
      /\ c.buffer = proc[p].buffer /\ c.days = proc[p].days \ {d}
    BY <1>1 DEF Local
<1>3. proc'[p] = c /\ \A q \in Proc \ {p} : proc'[q] = proc[q]
    <2>1. proc' = [proc EXCEPT ![p] = c] /\ proc \in [Proc -> Local]
        BY <1>1 DEF SyncDay, TypeOK
    <2> HIDE DEF c
    <2> QED
        BY <2>1
<1> HIDE DEF c
<1>4. UNCHANGED <<files, acked>>
    BY DEF SyncDay
<1>5. synced'[d] = Len(files[d]) /\ \A x \in Day \ {d} : synced'[x] = synced[x]
    BY <1>1 DEF SyncDay, TypeOK
<1>6. \A x \in Day : synced[x] \in Nat /\ synced'[x] \in Nat /\ synced[x] <= synced'[x]
    <2> SUFFICES ASSUME NEW x \in Day
                 PROVE  synced[x] \in Nat /\ synced'[x] \in Nat /\ synced[x] <= synced'[x]
        OBVIOUS
    <2>1. synced[x] \in Nat /\ synced[x] <= Len(files[x]) /\ synced'[x] \in Nat
        BY DEF DurableInv, UniqueInv, TypeOK
    <2> QED
        BY <1>5, <2>1
<1>7. AckedSynced(files, synced)'
    <2> SUFFICES ASSUME NEW a \in acked
                 PROVE  \E i \in 1..synced'[a.day] : Same(files[a.day][i], a) /\ files[a.day][i].form = "whole"
        BY <1>4 DEF AckedSynced
    <2>1. a.day \in Day
        BY DEF DurableInv, UniqueInv, TypeOK
    <2>2. PICK i \in 1..synced[a.day] : Same(files[a.day][i], a) /\ files[a.day][i].form = "whole"
        BY DEF DurableInv, AckedSynced
    <2>3. i \in 1..synced'[a.day]
        BY <1>6, <2>1, <2>2
    <2> QED
        BY <2>2, <2>3
<1>8. ASSUME NEW m \in c.mine, m.day \notin c.days
      PROVE  c.buffer[m.day] = <<>> /\ synced'[m.day] = Len(files[m.day])
    <2>1. m.day \in Day /\ m \in proc[p].mine
        BY <1>1, <1>2 DEF Local
    <2>2. CASE m.day = d
        BY <1>1, <1>2, <1>5, <2>2
    <2>3. CASE m.day # d
        BY <1>1, <1>2, <1>5, <1>8, <2>1, <2>3 DEF CleanInv
    <2> QED
        BY <2>2, <2>3
<1>9. CleanInv(files, synced', c)
    BY <1>1, <1>2, <1>8 DEF CleanInv, Writing
<1>10. lock = p
    BY <1>1 DEF InvOf, Inside
<1>11. \A x \in Day : TornAtEnd(files'[x])
    BY <1>4 DEF DurableInv
<1> QED
    BY <1>3, <1>4, <1>7, <1>9, <1>10, <1>11, DurableStep

(* What a flush acknowledges is in its file, whole and synced.             *)
LEMMA FlushDoneDurable ==
    ASSUME DurableInv, UniqueInv', NEW p \in Proc, FlushDone(p)
    PROVE  DurableInv'
<1>1. /\ TypeOK /\ InvOf(files, lock, p, proc[p]) /\ CleanInv(files, synced, proc[p])
      /\ proc[p] \in Local
      /\ proc[p].pc = "flush" /\ proc[p].days = {}
    BY Own DEF FlushDone, At
<1> DEFINE c == [proc[p] EXCEPT !.pc = "append"]
<1>2. /\ c.pc = "append" /\ c.split = proc[p].split /\ c.mine = proc[p].mine
      /\ c.buffer = proc[p].buffer
    BY <1>1 DEF Local
<1>3. /\ proc'[p] = c /\ \A q \in Proc \ {p} : proc'[q] = proc[q]
      /\ UNCHANGED <<files, synced>> /\ acked' = acked \cup proc[p].mine
    <2>1. proc' = [proc EXCEPT ![p] = c] /\ proc \in [Proc -> Local]
        BY <1>1 DEF FlushDone, Goto, InvOf, TypeOK
    <2>2. UNCHANGED <<files, synced>> /\ acked' = acked \cup proc[p].mine
        BY DEF FlushDone
    <2> HIDE DEF c
    <2> QED
        BY <2>1, <2>2
<1> HIDE DEF c
<1>4. ASSUME NEW m \in proc[p].mine
      PROVE  \E i \in 1..synced[m.day] : Same(files[m.day][i], m) /\ files[m.day][i].form = "whole"
    <2>1. m.day \in Day /\ proc[p].buffer[m.day] = <<>> /\ synced[m.day] = Len(files[m.day])
        BY <1>1 DEF CleanInv, Local
    <2>2. PICK i \in DOMAIN files[m.day] : Same(files[m.day][i], m) /\ files[m.day][i].form = "whole"
        <3>1. DOMAIN proc[p].buffer[m.day] = {}
            BY <2>1
        <3> QED
            BY <1>1, <3>1 DEF CleanInv, Writing
    <2>3. i \in 1..synced[m.day]
        BY <2>1, <2>2 DEF DurableInv, UniqueInv, TypeOK
    <2> QED
        BY <2>2, <2>3
<1>5. AckedSynced(files, synced)'
    BY <1>3, <1>4 DEF AckedSynced, DurableInv
<1>6. CleanInv(files, synced, c)
    BY <1>1, <1>2 DEF CleanInv, Writing
<1>8. \A x \in Day : TornAtEnd(files'[x])
    BY <1>3 DEF DurableInv
<1>9. lock = p
    BY <1>1 DEF InvOf, Inside
<1> QED
    BY <1>3, <1>5, <1>6, <1>8, <1>9, DurableStep

(* A file cut at the end is torn at most there, and cut no deeper than     *)
(* what was synced.                                                        *)
LEMMA SurvivorsTorn ==
    ASSUME Tears \subseteq {"part"}, NEW f \in Seq(Record), TornAtEnd(f), NEW n \in Nat,
           NEW g \in Survivors(f, n)
    PROVE  TornAtEnd(g) /\ \A i \in 1..n : g[i] = f[i]
<1>0. Len(f) \in Nat
    OBVIOUS
<1>1. CASE \E k \in n..Len(f) : g = SubSeq(f, 1, k)
    <2>1. PICK k \in n..Len(f) : g = SubSeq(f, 1, k)
        BY <1>1
    <2>2. k \in 0..Len(f)
        BY <1>0
    <2>3. g \in Seq(Record) /\ Len(g) = k /\ \A i \in 1..k : g[i] = f[i]
        BY <2>1, <2>2, Prefix
    <2> QED
        BY <1>0, <2>1, <2>3 DEF TornAtEnd
<1>2. CASE \E k \in (n + 1)..Len(f) : \E r \in Shortened(f[k]) : g = Append(SubSeq(f, 1, k - 1), r)
    <2>1. PICK k \in (n + 1)..Len(f) : \E r \in Shortened(f[k]) : g = Append(SubSeq(f, 1, k - 1), r)
        BY <1>2
    <2>2. PICK r \in Shortened(f[k]) : g = Append(SubSeq(f, 1, k - 1), r)
        BY <2>1
    <2> DEFINE s == SubSeq(f, 1, k - 1)
    <2>3. k - 1 \in 0..Len(f) /\ k \in 1..Len(f) /\ k \in Nat
        BY <1>0
    <2>4. s \in Seq(Record) /\ Len(s) = k - 1 /\ \A i \in 1..(k - 1) : s[i] = f[i]
        BY <2>3, Prefix
    <2>5. r.form = "part"
        <3>1. f[k] \in Record /\ f[k].form \in {"whole", "part"}
            BY <2>3, ElementOfSeq DEF TornAtEnd
        <3>2. f[k] \in [id : Event, seq : Nat, form : {"whole", "bare", "part"}, erased : BOOLEAN]
            BY <3>1 DEF Record, Junk
        <3>3. CASE f[k].form = "whole"
            <4>1. PICK form \in Tears : r = [f[k] EXCEPT !.form = form]
                BY <2>2, <3>3 DEF Shortened
            <4> QED
                BY <3>2, <4>1
        <3>4. CASE f[k].form = "part"
            <4>1. r = [f[k] EXCEPT !.form = "part"]
                BY <2>2, <3>4 DEF Shortened
            <4> QED
                BY <3>2, <4>1
        <3> QED
            BY <3>1, <3>3, <3>4
    <2> HIDE DEF s
    <2>6. /\ DOMAIN g = 1..k /\ Len(g) = k /\ g[k] = r /\ \A i \in 1..(k - 1) : g[i] = s[i]
        BY <2>2, <2>3, <2>4 DEF s
    <2>7. \A i \in 1..(k - 1) : g[i] = f[i] /\ g[i].form = "whole"
        BY <1>0, <2>3, <2>4, <2>6 DEF TornAtEnd
    <2>8. TornAtEnd(g)
        BY <2>3, <2>5, <2>6, <2>7 DEF TornAtEnd
    <2>9. \A i \in 1..n : i \in 1..(k - 1)
        BY <2>1, <2>3
    <2> QED
        BY <2>7, <2>8, <2>9
<1> QED
    BY <1>1, <1>2 DEF Survivors

LEMMA PowerLossDurable ==
    ASSUME Tears \subseteq {"part"}, DurableInv, UniqueInv', PowerLoss
    PROVE  DurableInv'
<1>1. \A d \in Day : TornAtEnd(files'[d]) /\ \A i \in 1..synced[d] : files'[d][i] = files[d][i]
    <2> SUFFICES ASSUME NEW d \in Day
                 PROVE  TornAtEnd(files'[d]) /\ \A i \in 1..synced[d] : files'[d][i] = files[d][i]
        OBVIOUS
    <2>1. /\ files[d] \in Seq(Record) /\ TornAtEnd(files[d]) /\ synced[d] \in Nat
          /\ files'[d] \in Survivors(files[d], synced[d])
        BY DEF DurableInv, UniqueInv, TypeOK, PowerLoss
    <2> QED
        BY <2>1, SurvivorsTorn
<1>2. UNCHANGED <<synced, acked>>
    BY DEF PowerLoss
<1>3. AckedSynced(files, synced)'
    <2> SUFFICES ASSUME NEW a \in acked
                 PROVE  \E i \in 1..synced[a.day] : Same(files'[a.day][i], a) /\ files'[a.day][i].form = "whole"
        BY <1>2 DEF AckedSynced
    <2>1. a.day \in Day
        BY DEF DurableInv, UniqueInv, TypeOK
    <2>2. PICK i \in 1..synced[a.day] : Same(files[a.day][i], a) /\ files[a.day][i].form = "whole"
        BY DEF DurableInv, AckedSynced
    <2> QED
        BY <1>1, <2>1, <2>2
<1>4. \A p \in Proc : CleanInv(files', synced', proc'[p])
    BY DurableRest DEF PowerLoss
<1> QED
    BY <1>1, <1>3, <1>4 DEF DurableInv

LEMMA InitDurable ==
    Init => DurableInv
<1> SUFFICES ASSUME Init PROVE DurableInv
    OBVIOUS
<1>1. \A d \in Day : TornAtEnd(files[d])
    BY DEF Init, TornAtEnd
<1>2. AckedSynced(files, synced)
    BY DEF Init, AckedSynced
<1>3. \A p \in Proc : CleanInv(files, synced, proc[p])
    BY DurableRest DEF Init
<1> QED
    BY <1>1, <1>2, <1>3, InitUnique DEF DurableInv

-----------------------------------------------------------------------------
(* Redaction *)

(* A file that redact has read parses, and so is not torn.                 *)
LEMMA ReadDayDurable ==
    ASSUME DurableInv, UniqueInv', NEW p \in Proc, ReadDay(p)
    PROVE  DurableInv'
<1>1. /\ CleanInv(files, synced, proc[p]) /\ proc[p] \in Local /\ proc[p].pc = "rewrite"
      /\ UNCHANGED <<files, synced, acked>>
    BY Own DEF ReadDay, At
<1>2. CASE Return(p)
    BY <1>1, <1>2, ReturnDurable
<1>3. CASE ~Return(p)
    <2>1. PICK d \in Day :
             /\ NextDay(p, d)
             /\ Good(files[d], Len(files[d]))
             /\ proc' = IF ToErase(p, files[d]) = {}
                        THEN [proc EXCEPT ![p].days = @ \ {d}]
                        ELSE [proc EXCEPT ![p].pc = "persist", ![p].hand = files[d]]
        BY <1>3 DEF ReadDay
    <2>2. CASE ToErase(p, files[d]) = {}
        <3> DEFINE c == [proc[p] EXCEPT !.days = @ \ {d}]
        <3>1. proc' = [proc EXCEPT ![p] = c] /\ c.pc = "rewrite" /\ c.mine = proc[p].mine
            BY <1>1, <2>1, <2>2 DEF Local
        <3> HIDE DEF c
        <3>2. CleanInv(files, synced, c)
            BY <1>1, <3>1 DEF CleanInv, Writing
        <3> QED
            BY <1>1, <3>1, <3>2, LocalDurable
    <2>3. CASE ToErase(p, files[d]) # {}
        <3> DEFINE c == [proc[p] EXCEPT !.pc = "persist", !.hand = files[d]]
        <3>1. /\ proc' = [proc EXCEPT ![p] = c] /\ c.pc = "persist" /\ c.mine = proc[p].mine
              /\ c.days = proc[p].days /\ c.hand = files[d] /\ c.days \subseteq Day
            BY <1>1, <2>1, <2>3 DEF Local
        <3> HIDE DEF c
        <3>2. \A x \in c.days : (\A e \in c.days : x <= e) => x = d
            BY <2>1, <3>1, NameAssumption DEF NextDay
        <3>3. Clean(files[d])
            BY <2>1, OwnFile DEF Good, Clean, TornAtEnd
        <3>4. CleanInv(files, synced, c)
            BY <1>1, <3>1, <3>2, <3>3 DEF CleanInv, Writing
        <3> QED
            BY <1>1, <3>1, <3>4, LocalDurable
    <2> QED
        BY <2>2, <2>3
<1> QED
    BY <1>2, <1>3

(* It writes back every record, whole, and syncs them.                     *)
LEMMA PersistDurable ==
    ASSUME DurableInv, UniqueInv', NEW p \in Proc, Persist(p)
    PROVE  DurableInv'
<1> DEFINE h == proc[p].hand
           g == [i \in DOMAIN h |-> Rewritten(h[i], proc[p].targets)]
<1>1. /\ TypeOK /\ InvOf(files, lock, p, proc[p]) /\ CleanInv(files, synced, proc[p])
      /\ proc[p] \in Local /\ proc[p].pc = "persist"
    BY Own DEF Persist, At
<1>2. PICK d \in Day :
         /\ NextDay(p, d)
         /\ files' = [files EXCEPT ![d] = g]
         /\ synced' = [synced EXCEPT ![d] = Len(h)]
         /\ proc' = [proc EXCEPT ![p].pc = "rewrite", ![p].days = @ \ {d}, ![p].hand = <<>>]
    BY DEF Persist, Rewritten
<1>3. h = files[d]
    BY <1>1, <1>2 DEF CleanInv, NextDay
<1>4. h \in Seq(Record \ {Junk})
    BY <1>1 DEF TypeOK
<1>5. \A i \in DOMAIN h : g[i].id = h[i].id /\ g[i].seq = h[i].seq /\ g[i].form = "whole"
    BY <1>4, RewrittenRecord
<1>6. DOMAIN g = 1..Len(h) /\ DOMAIN h = 1..Len(h) /\ Len(h) \in Nat
    BY <1>4
<1> HIDE DEF g
<1>7. /\ files'[d] = g /\ \A x \in Day \ {d} : files'[x] = files[x]
      /\ synced'[d] = Len(h) /\ \A x \in Day \ {d} : synced'[x] = synced[x]
      /\ \A q \in Proc \ {p} : proc'[q] = proc[q]
    BY <1>1, <1>2 DEF TypeOK
<1>8. proc'[p].pc = "rewrite" /\ proc'[p].mine = proc[p].mine
    BY <1>1, <1>2 DEF TypeOK, Local
<1>9. lock = p /\ acked' = acked
    BY <1>1 DEF InvOf, Inside, Persist
<1>10. \A x \in Day : TornAtEnd(files'[x])
    BY <1>5, <1>6, <1>7, OwnFile DEF TornAtEnd
<1>11. AckedSynced(files, synced)'
    <2> SUFFICES ASSUME NEW a \in acked
                 PROVE  \E i \in 1..synced'[a.day] : Same(files'[a.day][i], a) /\ files'[a.day][i].form = "whole"
        BY <1>9 DEF AckedSynced
    <2>1. PICK i \in 1..synced[a.day] : Same(files[a.day][i], a) /\ files[a.day][i].form = "whole"
        BY OwnAcked
    <2>2. a.day \in Day
        BY OwnAcked
    <2>3. CASE a.day = d
        <3>1. i \in 1..Len(h) /\ h[i] = files[d][i]
            BY <1>3, <2>1, <2>3, OwnFile
        <3> QED
            BY <1>5, <1>6, <1>7, <2>1, <2>3, <3>1 DEF Same
    <2>4. CASE a.day # d
        BY <1>7, <2>1, <2>2, <2>4
    <2> QED
        BY <2>3, <2>4
<1>12. CleanInv(files', synced', proc'[p])
    BY <1>1, <1>8 DEF CleanInv, Writing
<1> QED
    BY <1>7, <1>9, <1>10, <1>11, <1>12, DurableStep

-----------------------------------------------------------------------------
(* The invariant and what follows from it *)

LEMMA DurableNext ==
    ASSUME "append" \notin Ops, Tears \subseteq {"part"}
    PROVE  DurableInv /\ CutsClear /\ [Next]_vars => DurableInv'
<1> SUFFICES ASSUME DurableInv, CutsClear, [Next]_vars PROVE DurableInv'
    OBVIOUS
<1>0. UniqueInv'
    BY UniqueStep DEF DurableInv
<1>1. CASE UNCHANGED vars
    BY <1>0, <1>1 DEF DurableInv, vars, AckedSynced
<1>2. CASE PowerLoss
    BY <1>0, <1>2, PowerLossDurable
<1>3. ASSUME NEW p \in Proc, NEW op \in Ops, Begin(p, op)
      PROVE  DurableInv'
    BY <1>0, <1>3, BeginDurable
<1>4. ASSUME NEW p \in Proc, Run(p)
      PROVE  DurableInv'
    <2>1. CASE Recover(p)
        BY <1>0, <2>1, ScanDurable, CutDurable, RecoveredDurable DEF Recover
    <2>2. CASE TakeLock(p)
        BY <1>0, <2>2, TakeLockDurable
    <2>3. CASE LockTimeout(p)
        BY <1>0, <2>3, ReturnDurable DEF LockTimeout
    <2>4. CASE Baseline(p)
        BY <1>0, <2>4, BaselineDurable
    <2>5. CASE \E e \in Event, d \in Day : BulkAppend(p, e, d)
        BY <1>0, <2>5, BulkAppendDurable
    <2>6. CASE TakeNumber(p) \/ \E e \in Event, d \in Day : AppendOne(p, e, d)
        BY <2>6, Own DEF TakeNumber, AppendOne, At, InvOf
    <2>7. CASE Flush(p)
        <3>1. CASE StartFlush(p) \/ StartDrop(p)
            BY <1>0, <3>1, FlushDurable
        <3>2. CASE FlushDone(p)
            BY <1>0, <3>2, FlushDoneDurable
        <3>3. CASE DropDone(p)
            BY <1>0, <3>3, ReturnDurable DEF DropDone
        <3>4. CASE \E d \in Day : WriteRecord(p, d) \/ WriteSome(p, d) \/ WriteRest(p, d) \/ SyncDay(p, d)
            BY <1>0, <3>4, WriteRecordDurable, WriteSomeDurable, WriteRestDurable, SyncDayDurable
        <3> QED
            BY <2>7, <3>1, <3>2, <3>3, <3>4 DEF Flush
    <2>8. CASE Redact(p)
        BY <1>0, <2>8, ReadDayDurable, PersistDurable, ReturnDurable DEF Redact, RedactDone
    <2> QED
        BY <1>4, <2>1, <2>2, <2>3, <2>4, <2>5, <2>6, <2>7, <2>8 DEF Run
<1>5. ASSUME NEW p \in Proc, Kill(p)
      PROVE  DurableInv'
    BY <1>0, <1>5, ReturnDurable DEF Kill
<1> QED
    BY <1>1, <1>2, <1>3, <1>4, <1>5 DEF Next

LEMMA SyncedIsReadable ==
    DurableInv => AckedReadable
<1> SUFFICES ASSUME DurableInv, NEW a \in acked
             PROVE  \E i \in DOMAIN files[a.day] : /\ files[a.day][i].id = a.id
                                                   /\ files[a.day][i].seq = a.seq
                                                   /\ Good(files[a.day], i)
    BY DEF AckedReadable
<1>1. PICK i \in 1..synced[a.day] : Same(files[a.day][i], a) /\ files[a.day][i].form = "whole"
    BY OwnAcked
<1>2. /\ files[a.day] \in Seq(Record) /\ TornAtEnd(files[a.day]) /\ Len(files[a.day]) \in Nat
      /\ synced[a.day] \in Nat /\ synced[a.day] <= Len(files[a.day])
    BY OwnAcked, OwnFile
<1>3. i \in DOMAIN files[a.day] /\ i <= Len(files[a.day])
    BY <1>1, <1>2
<1>4. Good(files[a.day], i)
    BY <1>1, <1>2, <1>3 DEF Good, TornAtEnd
<1> QED
    BY <1>1, <1>3, <1>4 DEF Same

(* What a flush of a bulk writer reported is in its file for good, in the  *)
(* part that every later recovery keeps, through ingest, redaction and any *)
(* faults, as long as every recovery cuts what it saw of a file nobody is  *)
(* writing to.                                                             *)
THEOREM AcknowledgedStays ==
    ASSUME "append" \notin Ops, Tears \subseteq {"part"}
    PROVE  Spec /\ []CutsClear => []AckedReadable
<1>1. DurableInv /\ CutsClear /\ [Next]_vars => DurableInv'
    BY DurableNext
<1> QED
    BY <1>1, InitDurable, SyncedIsReadable, PTL DEF Spec


-----------------------------------------------------------------------------
(* What was reported erased stays erased *)

(* In the file f the events pr are erased. *)
Marked(f, pr) ==
    \A i \in DOMAIN f : f[i].id \in pr /\ f[i].form # "junk" => f[i].erased

(* An erased record is among the n synced ones, in the part that every     *)
(* recovery keeps.                                                         *)
Firm(f, n) ==
    \A i \in DOMAIN f : f[i].erased => i <= n /\ \A j \in 1..i : f[j].form = "whole"

(* Every event reported erased is in the files, so that no writer takes it *)
(* for new.                                                                *)
There(fs, pr) ==
    \A e \in pr : \E d \in Day : \E i \in DOMAIN fs[d] : fs[d][i].id = e /\ fs[d][i].erased

(* A writer has seen what is erased and has none of it in its buffers;     *)
(* what redact is about to write back is what it read, and the files it    *)
(* is done with have no target that is not erased.                         *)
EraserOf(fs, pr, c) ==
    /\ c.pc \in Writing =>
          /\ pr \subseteq c.seen
          /\ \A d \in Day : \A j \in DOMAIN c.buffer[d] : c.buffer[d][j].id \notin pr
    /\ c.pc = "persist" =>
          \A d \in Day : First(c, d) => c.hand = fs[d] /\ Good(fs[d], Len(fs[d]))
    /\ c.pc \in {"rewrite", "persist"} =>
          \A d \in Day \ c.days : Marked(fs[d], c.targets)

ErasedInv ==
    /\ UniqueInv
    /\ \A d \in Day : Marked(files[d], promised) /\ Firm(files[d], synced[d])
    /\ There(files, promised)
    /\ \A p \in Proc : EraserOf(files, promised, proc[p])

(* What ErasedInv says of the process that takes a step, and its type.     *)
LEMMA Eraser ==
    ASSUME ErasedInv, NEW p \in Proc
    PROVE  /\ TypeOK /\ InvOf(files, lock, p, proc[p]) /\ proc[p] \in Local
           /\ EraserOf(files, promised, proc[p])
BY Mine DEF ErasedInv, UniqueInv

LEMMA FileOf ==
    ASSUME ErasedInv, NEW d \in Day
    PROVE  /\ files[d] \in Seq(Record) /\ Len(files[d]) \in Nat /\ synced[d] \in Nat
           /\ synced[d] <= Len(files[d])
           /\ Marked(files[d], promised) /\ Firm(files[d], synced[d])
BY DEF ErasedInv, UniqueInv, TypeOK

(* A process that neither writes nor redacts knows nothing of the files.   *)
LEMMA Careless ==
    ASSUME NEW fs, NEW pr, NEW c, c.pc \notin Writing \cup {"rewrite", "persist"}
    PROVE  EraserOf(fs, pr, c)
BY DEF EraserOf

(* A file loses nothing but its end, and one that parses loses nothing.    *)
OnlyCut(f, g) ==
    /\ \A i \in DOMAIN g : i \in DOMAIN f /\ g[i] = f[i]
    /\ Good(f, Len(f)) => g = f

(* A step of one process: it has the lock, or it only recovers.            *)
LEMMA EraserStep ==
    ASSUME ErasedInv, UniqueInv', NEW p \in Proc,
           \A q \in Proc \ {p} : proc'[q] = proc[q],
           \A d \in Day : Marked(files'[d], promised') /\ Firm(files'[d], synced'[d]),
           There(files', promised'),
           EraserOf(files', promised', proc'[p]),
           lock = p \/ (promised' = promised /\ \A d \in Day : OnlyCut(files[d], files'[d]))
    PROVE  ErasedInv'
<1>1. \A q \in Proc \ {p} : EraserOf(files', promised', proc'[q])
    <2> SUFFICES ASSUME NEW q \in Proc \ {p}
                 PROVE  EraserOf(files', promised', proc[q])
        OBVIOUS
    <2>1. InvOf(files, lock, q, proc[q]) /\ EraserOf(files, promised, proc[q])
        BY Eraser
    <2>2. CASE lock = p
        <3>1. ~Inside(proc[q])
            BY <2>1, <2>2 DEF InvOf
        <3> QED
            BY <3>1, Careless DEF Inside, Writing
    <2>3. CASE promised' = promised /\ \A d \in Day : OnlyCut(files[d], files'[d])
        <3>1. \A d \in Day : \A t : Marked(files[d], t) => Marked(files'[d], t)
            BY <2>3 DEF OnlyCut, Marked
        <3>2. \A d \in Day : Good(files[d], Len(files[d])) => files'[d] = files[d]
            BY <2>3 DEF OnlyCut
        <3> QED
            BY <2>1, <2>3, <3>1, <3>2 DEF EraserOf
    <2> QED
        BY <2>2, <2>3
<1> QED
    BY <1>1 DEF ErasedInv

(* A step that leaves the files alone, or only syncs them.                 *)
LEMMA LocalEraser ==
    ASSUME ErasedInv, UniqueInv', NEW p \in Proc, NEW c,
           proc' = [proc EXCEPT ![p] = c],
           files' = files, promised' = promised,
           \A d \in Day : synced'[d] = synced[d] \/ synced'[d] = Len(files[d]),
           EraserOf(files, promised, c)
    PROVE  ErasedInv'
<1>1. proc'[p] = c /\ \A q \in Proc \ {p} : proc'[q] = proc[q]
    BY DEF ErasedInv, UniqueInv, TypeOK
<1>2. \A d \in Day : Marked(files'[d], promised') /\ Firm(files'[d], synced'[d])
    <2> SUFFICES ASSUME NEW d \in Day
                 PROVE  Firm(files[d], synced'[d])
        BY FileOf
    <2> QED
        BY FileOf DEF Firm
<1>3. There(files', promised')
    BY DEF ErasedInv
<1>4. \A d \in Day : OnlyCut(files[d], files'[d])
    BY DEF OnlyCut
<1> QED
    BY <1>1, <1>2, <1>3, <1>4, EraserStep

LEMMA ReturnEraser ==
    ASSUME ErasedInv, UniqueInv', NEW p \in Proc, Return(p),
           UNCHANGED <<files, synced, promised>>
    PROVE  ErasedInv'
<1>1. EraserOf(files, promised, Rest)
    BY Careless DEF Rest, Writing
<1> QED
    BY <1>1, LocalEraser DEF Return

(* A step of one process that changes one file: it has the lock or only    *)
(* cuts, and the file keeps what is erased.                                *)
LEMMA FileEraser ==
    ASSUME ErasedInv, UniqueInv', NEW p \in Proc, NEW d \in Day, NEW g,
           \A q \in Proc \ {p} : proc'[q] = proc[q],
           files' = [files EXCEPT ![d] = g],
           promised' = promised,
           \A e \in Day \ {d} : synced'[e] = synced[e],
           Marked(g, promised), Firm(g, synced'[d]),
           \A i \in DOMAIN files[d] :
               files[d][i].erased => i \in DOMAIN g /\ g[i].id = files[d][i].id /\ g[i].erased,
           lock = p \/ OnlyCut(files[d], g),
           EraserOf(files', promised', proc'[p])
    PROVE  ErasedInv'
<1>1. files'[d] = g /\ \A e \in Day \ {d} : files'[e] = files[e]
    BY DEF ErasedInv, UniqueInv, TypeOK
<1>2. \A e \in Day : Marked(files'[e], promised') /\ Firm(files'[e], synced'[e])
    BY <1>1, FileOf
<1>3. There(files', promised')
    <2> SUFFICES ASSUME NEW e \in promised
                 PROVE  \E x \in Day : \E i \in DOMAIN files'[x] :
                            files'[x][i].id = e /\ files'[x][i].erased
        BY DEF There
    <2>1. PICK x \in Day : \E i \in DOMAIN files[x] : files[x][i].id = e /\ files[x][i].erased
        BY DEF ErasedInv, There
    <2>2. PICK i \in DOMAIN files[x] : files[x][i].id = e /\ files[x][i].erased
        BY <2>1
    <2> QED
        BY <1>1, <2>2
<1>4. (\A e \in Day : OnlyCut(files[e], files'[e])) \/ lock = p
    BY <1>1 DEF OnlyCut
<1> QED
    BY <1>2, <1>3, <1>4, EraserStep

(* A step that neither changes the files nor leaves the process caring for *)
(* them.                                                                   *)
LEMMA CarelessEraser ==
    ASSUME ErasedInv, UniqueInv', NEW p \in Proc, NEW c,
           proc' = [proc EXCEPT ![p] = c],
           c.pc \notin Writing \cup {"rewrite", "persist"},
           UNCHANGED <<files, synced, promised>>
    PROVE  ErasedInv'
BY Careless, LocalEraser

LEMMA BeginEraser ==
    ASSUME ErasedInv, UniqueInv', NEW p \in Proc, NEW op, Begin(p, op)
    PROVE  ErasedInv'
<1>1. PICK targets \in SUBSET Event :
         proc' = [proc EXCEPT ![p] = [Rest EXCEPT
                     !.op = op, !.targets = targets, !.days = Day,
                     !.pc = IF op = "write" THEN "lock" ELSE "scan"]]
    BY DEF Begin
<1> DEFINE c == [Rest EXCEPT !.op = op, !.targets = targets, !.days = Day,
                             !.pc = IF op = "write" THEN "lock" ELSE "scan"]
<1>2. c.pc \in {"lock", "scan"}
    BY DEF Rest
<1>3. proc' = [proc EXCEPT ![p] = c] /\ UNCHANGED <<files, synced, promised>>
    BY <1>1 DEF Begin
<1> HIDE DEF c
<1> QED
    BY <1>2, <1>3, CarelessEraser DEF Writing

LEMMA ScanEraser ==
    ASSUME ErasedInv, UniqueInv', NEW p \in Proc, Scan(p)
    PROVE  ErasedInv'
<1>1. proc[p] \in Local /\ proc[p].pc = "scan"
    BY Eraser DEF Scan, At
<1>2. \E c : proc' = [proc EXCEPT ![p] = c] /\ c.pc \in {"scan", "cut"}
    <2>1. PICK d \in Day : \E n \in 0..Len(files[d]) :
             proc' = IF n = Len(files[d])
                     THEN [proc EXCEPT ![p].days = @ \ {d}]
                     ELSE [proc EXCEPT ![p].pc = "cut", ![p].hand = SubSeq(files[d], 1, n)]
        BY DEF Scan
    <2>4. PICK n \in 0..Len(files[d]) :
             proc' = IF n = Len(files[d])
                     THEN [proc EXCEPT ![p].days = @ \ {d}]
                     ELSE [proc EXCEPT ![p].pc = "cut", ![p].hand = SubSeq(files[d], 1, n)]
        BY <2>1
    <2>2. CASE n = Len(files[d])
        <3> DEFINE c == [proc[p] EXCEPT !.days = @ \ {d}]
        <3>1. proc' = [proc EXCEPT ![p] = c] /\ c.pc = "scan"
            BY <1>1, <2>4, <2>2 DEF Local
        <3> QED
            BY <3>1
    <2>3. CASE n # Len(files[d])
        <3> DEFINE c == [proc[p] EXCEPT !.pc = "cut", !.hand = SubSeq(files[d], 1, n)]
        <3>1. proc' = [proc EXCEPT ![p] = c] /\ c.pc = "cut"
            BY <1>1, <2>4, <2>3 DEF Local
        <3> QED
            BY <3>1
    <2> QED
        BY <2>2, <2>3
<1> QED
    BY <1>2, CarelessEraser DEF Scan, Writing

LEMMA RecoveredEraser ==
    ASSUME ErasedInv, UniqueInv', NEW p \in Proc, Recovered(p)
    PROVE  ErasedInv'
<1>1. proc[p] \in Local /\ UNCHANGED <<files, synced, promised>>
    BY Eraser DEF Recovered
<1>2. Return(p) \/ \E step \in {"base", "max", "lock"} : Goto(p, step)
    BY <1>1 DEF Recovered, Local, Operation
<1>3. ASSUME NEW step \in {"base", "max", "lock"}, Goto(p, step)
      PROVE  ErasedInv'
    <2> DEFINE c == [proc[p] EXCEPT !.pc = step]
    <2>1. proc' = [proc EXCEPT ![p] = c] /\ c.pc = step
        BY <1>1, <1>3 DEF Goto, Local
    <2> HIDE DEF c
    <2> QED
        BY <1>1, <1>3, <2>1, CarelessEraser DEF Writing
<1> QED
    BY <1>1, <1>2, <1>3, ReturnEraser

(* A redaction starts with no file done. *)
LEMMA TakeLockEraser ==
    ASSUME ErasedInv, UniqueInv', NEW p \in Proc, TakeLock(p)
    PROVE  ErasedInv'
<1> DEFINE step == AfterLock(proc[p].op)
           c == [proc[p] EXCEPT !.pc = step, !.days = Day]
<1>1. InvOf(files, lock, p, proc[p]) /\ proc[p] \in Local /\ proc[p].pc = "lock"
    BY Eraser DEF TakeLock, At
<1>2. step \in {"scan", "rewrite"}
    BY <1>1 DEF InvOf, AfterLock
<1>3. proc' = [proc EXCEPT ![p] = c] /\ UNCHANGED <<files, synced, promised>>
    BY DEF TakeLock
<1> HIDE DEF step
<1>4. c.pc = step /\ c.days = Day
    BY <1>1 DEF Local
<1> HIDE DEF c
<1>5. EraserOf(files, promised, c)
    BY <1>2, <1>4 DEF EraserOf, Writing
<1> QED
    BY <1>3, <1>5, LocalEraser

(* A writer that has read the journal has seen all that was erased.        *)
LEMMA BaselineEraser ==
    ASSUME ErasedInv, UniqueInv', NEW p \in Proc, Baseline(p)
    PROVE  ErasedInv'
<1>1. InvOf(files, lock, p, proc[p]) /\ proc[p] \in Local /\ proc[p].pc = "base"
    BY Eraser DEF Baseline, At
<1>2. CASE ~Readable
    BY <1>2, ReturnEraser DEF Baseline
<1>3. CASE Readable
    <2>1. PICK n \in 1..(MaxSeq + 1) :
             proc' = [proc EXCEPT ![p].pc = "append", ![p].next = n,
                                  ![p].seen = {r.id : r \in Records}]
        BY <1>3 DEF Baseline
    <2> DEFINE c == [proc[p] EXCEPT !.pc = "append", !.next = n, !.seen = {r.id : r \in Records}]
    <2>2. c.pc = "append" /\ c.seen = {r.id : r \in Records} /\ c.buffer = proc[p].buffer
        BY <1>1 DEF Local
    <2>3. proc' = [proc EXCEPT ![p] = c] /\ UNCHANGED <<files, synced, promised>>
        BY <1>3, <2>1 DEF Baseline
    <2> HIDE DEF c
    <2>4. \A d \in Day : c.buffer[d] = <<>>
        BY <1>1, <2>2 DEF InvOf, BufferInv, Writing
    <2>5. \A d \in Day : \A i \in DOMAIN files[d] : files[d][i] \in Records
        BY DEF Records, OnDisk
    <2>6. promised \subseteq c.seen
        <3> SUFFICES ASSUME NEW e \in promised
                     PROVE  e \in c.seen
            OBVIOUS
        <3>1. PICK d \in Day : \E i \in DOMAIN files[d] : files[d][i].id = e
            BY DEF ErasedInv, There
        <3> QED
            BY <2>2, <2>5, <3>1
    <2>7. EraserOf(files, promised, c)
        BY <2>2, <2>4, <2>6 DEF EraserOf
    <2> QED
        BY <2>3, <2>7, LocalEraser
<1> QED
    BY <1>2, <1>3

(* A writer appends no event it has seen. *)
LEMMA BulkAppendEraser ==
    ASSUME ErasedInv, UniqueInv', NEW p \in Proc, NEW e \in Event, NEW d \in Day, BulkAppend(p, e, d)
    PROVE  ErasedInv'
<1> DEFINE r == NewRecord(e, proc[p].next)
           b == [proc[p].buffer EXCEPT ![d] = Append(@, r)]
           m == proc[p].mine \cup {[id |-> e, seq |-> proc[p].next, day |-> d]}
           c == [proc[p] EXCEPT !.seen = @ \cup {e}, !.next = @ + 1, !.buffer = b, !.mine = m]
<1>1. /\ proc[p] \in Local /\ EraserOf(files, promised, proc[p])
      /\ proc[p].pc = "append" /\ e \notin proc[p].seen
    BY Eraser DEF BulkAppend, At
<1>2. proc' = [proc EXCEPT ![p] = c] /\ UNCHANGED <<files, synced, promised>>
    BY DEF BulkAppend
<1>3. proc[p].next \in Nat /\ proc[p].buffer \in [Day -> Seq(Fresh)]
    BY <1>1 DEF Local
<1>4. r \in Fresh /\ r.id = e
    BY <1>3, NewRecordFresh
<1>5. c.pc = "append" /\ c.seen = proc[p].seen \cup {e} /\ c.buffer = b
    BY <1>1 DEF Local
<1>6. /\ promised \subseteq proc[p].seen
      /\ \A x \in Day : \A j \in DOMAIN proc[p].buffer[x] : proc[p].buffer[x][j].id \notin promised
    BY <1>1 DEF EraserOf, Writing
<1> HIDE DEF r
<1>7. \A x \in Day : \A j \in DOMAIN b[x] : b[x][j].id \notin promised
    <2> SUFFICES ASSUME NEW x \in Day, NEW j \in DOMAIN b[x]
                 PROVE  b[x][j].id \notin promised
        OBVIOUS
    <2>1. CASE x # d
        BY <1>3, <1>6, <2>1
    <2>2. CASE x = d
        <3>1. b[x] = Append(proc[p].buffer[d], r) /\ proc[p].buffer[d] \in Seq(Fresh)
            BY <1>3, <2>2
        <3> DEFINE old == proc[p].buffer[d]
        <3>2. \A k \in DOMAIN Append(old, r) :
                 \/ k \in DOMAIN old /\ Append(old, r)[k] = old[k]
                 \/ Append(old, r)[k] = r
            <4> HIDE DEF old
            <4> QED
                BY <1>4, <3>1, Extended
        <3>3. \A k \in DOMAIN old : old[k].id \notin promised
            BY <1>6
        <3> HIDE DEF old
        <3> QED
            BY <1>1, <1>4, <1>6, <3>1, <3>2, <3>3
    <2> QED
        BY <2>1, <2>2
<1> HIDE DEF b, m, c
<1>8. EraserOf(files, promised, c)
    BY <1>5, <1>6, <1>7 DEF EraserOf
<1> QED
    BY <1>2, <1>8, LocalEraser

(* A writer that syncs, or goes on to. *)
LEMMA FlushEraser ==
    ASSUME ErasedInv, UniqueInv', NEW p \in Proc,
           StartFlush(p) \/ StartDrop(p) \/ FlushDone(p) \/ DropDone(p) \/ \E d \in Day : SyncDay(p, d)
    PROVE  ErasedInv'
<1>1. TypeOK /\ proc[p] \in Local /\ EraserOf(files, promised, proc[p])
    BY Eraser
<1>2. ASSUME NEW c, proc[p].pc \in Writing, proc' = [proc EXCEPT ![p] = c],
             c.pc \in Writing, c.seen = proc[p].seen, c.buffer = proc[p].buffer,
             files' = files, promised' = promised,
             \A d \in Day : synced'[d] = synced[d] \/ synced'[d] = Len(files[d])
      PROVE  ErasedInv'
    <2>1. EraserOf(files, promised, c)
        BY <1>1, <1>2 DEF EraserOf, Writing
    <2> QED
        BY <1>2, <2>1, LocalEraser
<1>3. CASE StartFlush(p) \/ StartDrop(p)
    <2>1. PICK step \in {"flush", "drop"} :
             proc' = [proc EXCEPT ![p].pc = step, ![p].days = Opened(p)]
        BY <1>3 DEF StartFlush, StartDrop
    <2> DEFINE c == [proc[p] EXCEPT !.pc = step, !.days = Opened(p)]
    <2>2. proc[p].pc = "append" /\ UNCHANGED <<files, synced, promised>>
        BY <1>3 DEF StartFlush, StartDrop, At
    <2>3. /\ proc' = [proc EXCEPT ![p] = c]
          /\ c.pc = step /\ c.seen = proc[p].seen /\ c.buffer = proc[p].buffer
        BY <1>1, <2>1 DEF Local
    <2>4. /\ proc[p].pc \in Writing /\ files' = files /\ promised' = promised
          /\ \A d \in Day : synced'[d] = synced[d] \/ synced'[d] = Len(files[d])
        BY <2>2 DEF Writing
    <2> HIDE DEF c
    <2>5. c.pc \in Writing
        BY <2>3 DEF Writing
    <2> QED
        BY <1>2, <2>3, <2>4, <2>5
<1>4. CASE FlushDone(p) \/ DropDone(p)
    <2>1. Return(p) \/ (FlushDone(p) /\ Goto(p, "append"))
        BY <1>4 DEF FlushDone, DropDone
    <2>2. UNCHANGED <<files, synced, promised>>
        BY <1>4 DEF FlushDone, DropDone
    <2>3. CASE Return(p)
        BY <2>2, <2>3, ReturnEraser
    <2>4. CASE FlushDone(p) /\ Goto(p, "append")
        <3> DEFINE c == [proc[p] EXCEPT !.pc = "append"]
        <3>1. /\ proc' = [proc EXCEPT ![p] = c]
              /\ c.pc = "append" /\ c.seen = proc[p].seen /\ c.buffer = proc[p].buffer
            BY <1>1, <2>4 DEF Goto, Local
        <3>2. /\ proc[p].pc \in Writing /\ files' = files /\ promised' = promised
              /\ \A d \in Day : synced'[d] = synced[d] \/ synced'[d] = Len(files[d])
            BY <2>2, <2>4 DEF FlushDone, At, Writing
        <3> HIDE DEF c
        <3>3. c.pc \in Writing
            BY <3>1 DEF Writing
        <3> QED
            BY <1>2, <3>1, <3>2, <3>3
    <2> QED
        BY <2>1, <2>3, <2>4
<1>5. ASSUME NEW d \in Day, SyncDay(p, d)
      PROVE  ErasedInv'
    <2> DEFINE c == [proc[p] EXCEPT !.days = @ \ {d}]
    <2>1. /\ proc' = [proc EXCEPT ![p] = c]
          /\ c.pc = proc[p].pc /\ c.seen = proc[p].seen /\ c.buffer = proc[p].buffer
        BY <1>1, <1>5 DEF SyncDay, Local
    <2>2. \A x \in Day : synced'[x] = synced[x] \/ synced'[x] = Len(files[x])
        BY <1>1, <1>5 DEF SyncDay, TypeOK
    <2>3. proc[p].pc \in Writing /\ files' = files /\ promised' = promised
        BY <1>5 DEF SyncDay, Writing
    <2> HIDE DEF c
    <2> QED
        BY <1>2, <2>1, <2>2, <2>3
<1> QED
    BY <1>3, <1>4, <1>5

-----------------------------------------------------------------------------
(* Recovery: what is erased is in the part that it keeps *)

LEMMA FreshCut ==
    ASSUME NEW f \in Seq(Record), NEW h \in Seq(Record), NEW n \in Nat, Firm(f, n),
           GoodPrefix(f, Len(h)), KeptBy(f, h)
    PROVE  /\ OnlyCut(f, h)
           /\ Firm(h, Len(h))
           /\ \A i \in DOMAIN f : f[i].erased => i \in DOMAIN h
<1>1. Len(f) \in Nat /\ Len(h) \in 0..Len(f) /\ SubSeq(f, 1, Len(h)) = h
    BY DEF KeptBy
<1>2. \A i \in 1..Len(h) : h[i] = f[i]
    BY <1>1, Prefix
<1>3. \A i \in DOMAIN h : i \in DOMAIN f /\ h[i] = f[i]
    BY <1>1, <1>2
<1>4. Good(f, Len(f)) => h = f
    <2> SUFFICES ASSUME Good(f, Len(f)) PROVE h = f
        OBVIOUS
    <2>1. Len(h) = Len(f)
        <3> SUFFICES ASSUME Len(h) < Len(f) PROVE FALSE
            BY <1>1
        <3>1. Good(f, Len(h) + 1)
            BY <1>1 DEF Good
        <3> QED
            BY <3>1 DEF GoodPrefix
    <2>2. DOMAIN h = DOMAIN f
        BY <1>1, <2>1
    <2> QED
        BY <1>2, <2>1, <2>2
<1>5. ASSUME NEW i \in DOMAIN f, f[i].erased
      PROVE  i \in DOMAIN h
    <2>1. \A j \in 1..i : f[j].form = "whole"
        BY <1>5 DEF Firm
    <2>2. i \in 1..Len(f)
        BY <1>1
    <2>3. CASE Len(h) < i
        <3>1. Len(h) + 1 \in 1..i
            BY <1>1, <2>2, <2>3
        <3>2. Good(f, Len(h) + 1)
            BY <1>1, <2>1, <3>1 DEF Good
        <3> QED
            BY <1>1, <2>2, <2>3, <3>2 DEF GoodPrefix
    <2> QED
        BY <1>1, <2>2, <2>3
<1>6. Firm(h, Len(h))
    <2> SUFFICES ASSUME NEW i \in DOMAIN h, h[i].erased
                 PROVE  i <= Len(h) /\ \A j \in 1..i : h[j].form = "whole"
        BY DEF Firm
    <2>1. i \in 1..Len(h) /\ f[i].erased /\ i \in DOMAIN f
        BY <1>1, <1>3
    <2>2. \A j \in 1..i : j \in 1..Len(h) /\ f[j].form = "whole"
        BY <1>1, <2>1 DEF Firm
    <2> QED
        BY <1>1, <1>2, <2>1, <2>2
<1> QED
    BY <1>3, <1>4, <1>5, <1>6 DEF OnlyCut

LEMMA CutEraser ==
    ASSUME ErasedInv, UniqueInv', CutsFresh, NEW p \in Proc, Cut(p)
    PROVE  ErasedInv'
<1>1. TypeOK /\ proc[p] \in Local /\ proc[p].pc = "cut"
    BY Eraser DEF Cut, At
<1> DEFINE h == proc[p].hand
<1>2. PICK d \in Day :
         /\ NextDay(p, d)
         /\ \E g \in IF KeptBy(files[d], h) THEN {h}
                     ELSE Survivors(files[d], 0) \cup {Append(files[d], Junk)} :
               /\ files' = [files EXCEPT ![d] = g]
               /\ synced' = [synced EXCEPT ![d] = Len(g)]
         /\ proc' = [proc EXCEPT ![p].pc = "scan", ![p].days = @ \ {d}, ![p].hand = <<>>]
    BY DEF Cut
<1>3. GoodPrefix(files[d], Len(h)) /\ KeptBy(files[d], h)
    BY <1>1, <1>2 DEF CutsFresh, First, NextDay
<1>4. files' = [files EXCEPT ![d] = h] /\ synced' = [synced EXCEPT ![d] = Len(h)]
    BY <1>2, <1>3
<1>5. h \in Seq(Record)
    BY <1>1 DEF Local
<1>6. /\ OnlyCut(files[d], h) /\ Firm(h, Len(h))
      /\ \A i \in DOMAIN files[d] : files[d][i].erased => i \in DOMAIN h
    BY <1>3, <1>5, FileOf, FreshCut
<1>7. synced'[d] = Len(h) /\ \A e \in Day \ {d} : synced'[e] = synced[e]
    BY <1>1, <1>4 DEF TypeOK
<1>8. \A q \in Proc \ {p} : proc'[q] = proc[q]
    BY <1>1, <1>2 DEF TypeOK
<1>9. proc'[p].pc = "scan"
    BY <1>1, <1>2 DEF TypeOK, Local
<1>10. EraserOf(files', promised', proc'[p])
    BY <1>9, Careless DEF Writing
<1> HIDE DEF h
<1>11. Marked(h, promised)
    BY <1>6, FileOf DEF OnlyCut, Marked
<1>12. \A i \in DOMAIN files[d] :
          files[d][i].erased => i \in DOMAIN h /\ h[i].id = files[d][i].id /\ h[i].erased
    BY <1>6 DEF OnlyCut
<1>13. promised' = promised
    BY DEF Cut
<1> QED
    BY <1>4, <1>6, <1>7, <1>8, <1>10, <1>11, <1>12, <1>13, FileEraser

-----------------------------------------------------------------------------
(* Writing: behind what is erased, and nothing of it *)

LEMMA AppendErased ==
    ASSUME NEW f \in Seq(Record), NEW r \in Record, NEW pr, NEW n \in Nat, n <= Len(f),
           Marked(f, pr), Firm(f, n), ~r.erased, r.id \notin pr \/ r.form = "junk"
    PROVE  /\ Marked(Append(f, r), pr) /\ Firm(Append(f, r), n)
           /\ \A i \in DOMAIN f : i \in DOMAIN Append(f, r) /\ Append(f, r)[i] = f[i]
<1> DEFINE g == Append(f, r)
<1>1. /\ \A i \in DOMAIN f : i \in DOMAIN g /\ g[i] = f[i]
      /\ \A i \in DOMAIN g : i \in DOMAIN f \/ g[i] = r
      /\ DOMAIN f = 1..Len(f) /\ Len(f) \in Nat
    BY Extended
<1> HIDE DEF g
<1>2. Marked(g, pr)
    BY <1>1 DEF Marked
<1>3. ASSUME NEW i \in DOMAIN g, g[i].erased
      PROVE  i <= n /\ \A j \in 1..i : g[j].form = "whole"
    <2>1. i \in DOMAIN f /\ f[i].erased
        BY <1>1, <1>3
    <2>2. i <= n /\ \A j \in 1..i : f[j].form = "whole"
        BY <2>1 DEF Firm
    <2>3. \A j \in 1..i : j \in DOMAIN f
        BY <1>1, <2>1
    <2> QED
        BY <1>1, <2>2, <2>3
<1> QED
    BY <1>1, <1>2, <1>3 DEF Firm, g

(* The process after a write: its buffers hold no more than before.        *)
LEMMA StillWrites ==
    ASSUME NEW fs, NEW gs, NEW pr, NEW c, NEW e, EraserOf(fs, pr, c), c.pc \in Writing,
           e.pc = c.pc, e.seen = c.seen,
           \A d \in Day : \A j \in DOMAIN e.buffer[d] : \E k \in DOMAIN c.buffer[d] :
               e.buffer[d][j] = c.buffer[d][k]
    PROVE  EraserOf(gs, pr, e)
BY DEF EraserOf, Writing

LEMMA WriterKnows ==
    ASSUME ErasedInv, NEW p \in Proc, NEW d \in Day, proc[p].pc \in Writing,
           proc[p].buffer[d] # <<>>
    PROVE  /\ lock = p
           /\ Head(proc[p].buffer[d]) \in Fresh
           /\ Head(proc[p].buffer[d]).id \notin promised
           /\ proc[p].buffer \in [Day -> Seq(Fresh)]
<1>1. TypeOK /\ InvOf(files, lock, p, proc[p]) /\ EraserOf(files, promised, proc[p])
    BY Eraser
<1>2. proc[p].buffer \in [Day -> Seq(Fresh)] /\ Head(proc[p].buffer[d]) \in Fresh
    BY <1>1, HeadOfBuffer DEF TypeOK, Local
<1> DEFINE b == proc[p].buffer[d]
<1>3. b \in Seq(Fresh) /\ b # <<>>
    BY <1>2
<1>4. 1 \in DOMAIN b /\ Head(b) = b[1]
    <2> HIDE DEF b
    <2> QED
        BY <1>3
<1>5. \A j \in DOMAIN b : b[j].id \notin promised
    BY <1>1 DEF EraserOf
<1>6. lock = p
    BY <1>1 DEF InvOf, Inside, Writing
<1> QED
    BY <1>2, <1>4, <1>5, <1>6

LEMMA WriteRecordEraser ==
    ASSUME ErasedInv, UniqueInv', NEW p \in Proc, NEW d \in Day, WriteRecord(p, d)
    PROVE  ErasedInv'
<1> DEFINE r == Head(proc[p].buffer[d])
           t == [proc[p].buffer EXCEPT ![d] = Tail(@)]
           c == [proc[p] EXCEPT !.buffer = t]
<1>1. /\ TypeOK /\ proc[p] \in Local /\ EraserOf(files, promised, proc[p])
      /\ proc[p].pc \in Writing /\ proc[p].buffer[d] # <<>>
    BY Eraser DEF WriteRecord
<1>2. /\ lock = p /\ r \in Fresh /\ r.id \notin promised
      /\ proc[p].buffer \in [Day -> Seq(Fresh)]
    BY <1>1, WriterKnows
<1>3. proc' = [proc EXCEPT ![p] = c] /\ files' = [files EXCEPT ![d] = Append(files[d], r)]
    BY DEF WriteRecord
<1>4. proc'[p] = c /\ \A q \in Proc \ {p} : proc'[q] = proc[q]
    BY <1>1, <1>3 DEF TypeOK
<1>5. c.pc = proc[p].pc /\ c.seen = proc[p].seen /\ c.buffer = t
    BY <1>1 DEF Local
<1>6. \A x \in Day : \A j \in DOMAIN t[x] : \E k \in DOMAIN proc[p].buffer[x] :
          t[x][j] = proc[p].buffer[x][k]
    BY <1>1, <1>2, TailOfBuffer
<1> HIDE DEF r, t, c
<1>7. EraserOf(files', promised, c)
    BY <1>1, <1>5, <1>6, StillWrites
<1>8. UNCHANGED <<synced, promised>>
    BY DEF WriteRecord
<1>9. r \in Record /\ ~r.erased
    BY <1>2, FreshIsRecord DEF Fresh
<1>10. /\ Marked(Append(files[d], r), promised) /\ Firm(Append(files[d], r), synced[d])
       /\ \A i \in DOMAIN files[d] :
              i \in DOMAIN Append(files[d], r) /\ Append(files[d], r)[i] = files[d][i]
    BY <1>2, <1>9, FileOf, AppendErased
<1> QED
    BY <1>2, <1>3, <1>4, <1>7, <1>8, <1>10, FileEraser

LEMMA WriteSomeEraser ==
    ASSUME ErasedInv, UniqueInv', NEW p \in Proc, NEW d \in Day, WriteSome(p, d)
    PROVE  ErasedInv'
<1>1. PICK form \in Tears : files' = [files EXCEPT ![d] =
             Append(@, [Head(proc[p].buffer[d]) EXCEPT !.form = form])]
    BY DEF WriteSome
<1> DEFINE h == Head(proc[p].buffer[d])
           r == [h EXCEPT !.form = form]
           c == [proc[p] EXCEPT !.split = {d}]
<1>2. /\ TypeOK /\ proc[p] \in Local /\ EraserOf(files, promised, proc[p])
      /\ proc[p].pc \in Writing /\ proc[p].buffer[d] # <<>>
    BY Eraser DEF WriteSome
<1>3. lock = p /\ h \in Fresh /\ h.id \notin promised
    BY <1>2, WriterKnows
<1>4. proc' = [proc EXCEPT ![p] = c] /\ files' = [files EXCEPT ![d] = Append(files[d], r)]
    BY <1>1 DEF WriteSome
<1>5. proc'[p] = c /\ \A q \in Proc \ {p} : proc'[q] = proc[q]
    BY <1>2, <1>4 DEF TypeOK
<1>6. c.pc = proc[p].pc /\ c.seen = proc[p].seen /\ c.buffer = proc[p].buffer
    BY <1>2 DEF Local
<1> HIDE DEF c, h
<1>7. r \in Record /\ r.id = h.id /\ ~r.erased
    BY <1>3, FreshIsRecord DEF Fresh
<1> HIDE DEF r
<1>8. EraserOf(files', promised, c)
    BY <1>2, <1>6, StillWrites
<1>9. UNCHANGED <<synced, promised>>
    BY DEF WriteSome
<1>10. /\ Marked(Append(files[d], r), promised) /\ Firm(Append(files[d], r), synced[d])
       /\ \A i \in DOMAIN files[d] :
              i \in DOMAIN Append(files[d], r) /\ Append(files[d], r)[i] = files[d][i]
    BY <1>3, <1>7, FileOf, AppendErased
<1> QED
    BY <1>3, <1>4, <1>5, <1>8, <1>9, <1>10, FileEraser

(* The rest of a record goes behind what is erased too: an erased record   *)
(* is never one cut short.                                                 *)
LEMMA WriteRestEraser ==
    ASSUME ErasedInv, UniqueInv', NEW p \in Proc, NEW d \in Day, WriteRest(p, d)
    PROVE  ErasedInv'
<1> DEFINE f == files[d]
           r == Head(proc[p].buffer[d])
           t == [proc[p].buffer EXCEPT ![d] = Tail(@)]
           c == [proc[p] EXCEPT !.split = {}, !.buffer = t]
           whole == Len(f) > 0 /\ f[Len(f)].seq = r.seq /\ f[Len(f)].form \in Tears
           g == IF whole THEN [f EXCEPT ![Len(f)] = r] ELSE Append(f, Junk)
<1>1. /\ TypeOK /\ proc[p] \in Local /\ EraserOf(files, promised, proc[p])
      /\ d \in proc[p].split /\ proc[p].buffer[d] # <<>>
    BY Eraser DEF WriteRest, TypeOK
<1>2. proc[p].pc \in Writing
    BY RestFewer DEF ErasedInv, WriteRest
<1>3. /\ lock = p /\ r \in Fresh /\ r.id \notin promised
      /\ proc[p].buffer \in [Day -> Seq(Fresh)]
    BY <1>1, <1>2, WriterKnows
<1>4. proc' = [proc EXCEPT ![p] = c] /\ files' = [files EXCEPT ![d] = g]
    BY DEF WriteRest
<1>5. proc'[p] = c /\ \A q \in Proc \ {p} : proc'[q] = proc[q]
    BY <1>1, <1>4 DEF TypeOK
<1>6. c.pc = proc[p].pc /\ c.seen = proc[p].seen /\ c.buffer = t
    BY <1>1 DEF Local
<1>7. \A x \in Day : \A j \in DOMAIN t[x] : \E k \in DOMAIN proc[p].buffer[x] :
          t[x][j] = proc[p].buffer[x][k]
    BY <1>1, <1>3, TailOfBuffer
<1> HIDE DEF r, t, c
<1>8. EraserOf(files', promised, c)
    BY <1>1, <1>2, <1>6, <1>7, StillWrites
<1>9. UNCHANGED <<synced, promised>>
    BY DEF WriteRest
<1>10. /\ f \in Seq(Record) /\ Len(f) \in Nat /\ synced[d] \in Nat /\ synced[d] <= Len(f)
       /\ Marked(f, promised) /\ Firm(f, synced[d])
    BY FileOf
<1> HIDE DEF f
<1>11. /\ Marked(g, promised) /\ Firm(g, synced[d])
       /\ \A i \in DOMAIN f : f[i].erased => i \in DOMAIN g /\ g[i] = f[i]
    <2>1. CASE whole
        <3>1. DOMAIN g = 1..Len(f) /\ g[Len(f)] = r /\ \A i \in 1..(Len(f) - 1) : g[i] = f[i]
            BY <1>10, <2>1
        <3>2. ~r.erased /\ r.form = "whole"
            BY <1>3 DEF Fresh
        <3>3. f[Len(f)].form # "whole"
            BY <2>1, NameAssumption
        <3> HIDE DEF g
        <3>4. ASSUME NEW i \in 1..Len(f), f[i].erased
              PROVE  i \in 1..(Len(f) - 1)
            BY <1>10, <3>3, <3>4 DEF Firm
        <3>5. Marked(g, promised)
            BY <1>3, <1>10, <3>1 DEF Marked
        <3>6. Firm(g, synced[d])
            BY <1>10, <3>1, <3>2 DEF Firm
        <3> QED
            BY <1>10, <3>1, <3>4, <3>5, <3>6
    <2>2. CASE ~whole
        <3>1. g = Append(f, Junk) /\ Junk \in Record /\ ~Junk.erased /\ Junk.form = "junk"
            BY <2>2, JunkIsRecord DEF Junk
        <3> HIDE DEF g
        <3> QED
            BY <1>10, <3>1, AppendErased
    <2> QED
        BY <2>1, <2>2
<1> HIDE DEF g
<1> QED
    BY <1>3, <1>4, <1>5, <1>8, <1>9, <1>11, FileEraser DEF f

-----------------------------------------------------------------------------
(* Redaction *)

(* A file with nothing to erase is done as it is. *)
LEMMA ReadDayEraser ==
    ASSUME ErasedInv, UniqueInv', NEW p \in Proc, ReadDay(p)
    PROVE  ErasedInv'
<1>1. /\ TypeOK /\ proc[p] \in Local /\ EraserOf(files, promised, proc[p])
      /\ proc[p].pc = "rewrite" /\ UNCHANGED <<files, synced, promised>>
    BY Eraser DEF ReadDay, At
<1>2. CASE Return(p)
    BY <1>1, <1>2, ReturnEraser
<1>3. CASE ~Return(p)
    <2>1. PICK d \in Day :
             /\ NextDay(p, d)
             /\ Good(files[d], Len(files[d]))
             /\ proc' = IF ToErase(p, files[d]) = {}
                        THEN [proc EXCEPT ![p].days = @ \ {d}]
                        ELSE [proc EXCEPT ![p].pc = "persist", ![p].hand = files[d]]
        BY <1>3 DEF ReadDay
    <2>2. \A x \in Day \ proc[p].days : Marked(files[x], proc[p].targets)
        BY <1>1 DEF EraserOf
    <2>3. CASE ToErase(p, files[d]) = {}
        <3> DEFINE c == [proc[p] EXCEPT !.days = @ \ {d}]
        <3>1. /\ proc' = [proc EXCEPT ![p] = c]
              /\ c.pc = "rewrite" /\ c.days = proc[p].days \ {d} /\ c.targets = proc[p].targets
            BY <1>1, <2>1, <2>3 DEF Local
        <3> HIDE DEF c
        <3>2. Marked(files[d], proc[p].targets)
            BY <2>3 DEF ToErase, Marked
        <3>3. EraserOf(files, promised, c)
            BY <2>2, <3>1, <3>2 DEF EraserOf, Writing
        <3> QED
            BY <1>1, <3>1, <3>3, LocalEraser
    <2>4. CASE ToErase(p, files[d]) # {}
        <3> DEFINE c == [proc[p] EXCEPT !.pc = "persist", !.hand = files[d]]
        <3>1. /\ proc' = [proc EXCEPT ![p] = c]
              /\ c.pc = "persist" /\ c.days = proc[p].days /\ c.targets = proc[p].targets
              /\ c.hand = files[d]
            BY <1>1, <2>1, <2>4 DEF Local
        <3> HIDE DEF c
        <3>2. \A x \in Day : First(c, x) => x = d
            BY <2>1, <3>1, NameAssumption DEF First, NextDay
        <3>3. EraserOf(files, promised, c)
            BY <2>1, <2>2, <3>1, <3>2 DEF EraserOf, Writing
        <3> QED
            BY <1>1, <3>1, <3>3, LocalEraser
    <2> QED
        BY <2>3, <2>4
<1> QED
    BY <1>2, <1>3

(* A rewritten record is erased if it was or is a target. *)
LEMMA RewrittenErased ==
    ASSUME NEW r \in Record \ {Junk}, NEW targets
    PROVE  /\ Rewritten(r, targets).erased <=> (r.erased \/ r.id \in targets)
           /\ r.form # "junk"
BY DEF Rewritten, Record, Junk

LEMMA PersistEraser ==
    ASSUME ErasedInv, UniqueInv', NEW p \in Proc, Persist(p)
    PROVE  ErasedInv'
<1> DEFINE h == proc[p].hand
           t == proc[p].targets
           g == [i \in DOMAIN h |-> Rewritten(h[i], t)]
<1>1. /\ TypeOK /\ InvOf(files, lock, p, proc[p]) /\ proc[p] \in Local
      /\ EraserOf(files, promised, proc[p]) /\ proc[p].pc = "persist"
    BY Eraser DEF Persist, At
<1>2. PICK d \in Day :
         /\ NextDay(p, d)
         /\ files' = [files EXCEPT ![d] = g]
         /\ synced' = [synced EXCEPT ![d] = Len(h)]
         /\ proc' = [proc EXCEPT ![p].pc = "rewrite", ![p].days = @ \ {d}, ![p].hand = <<>>]
    BY DEF Persist, Rewritten
<1>3. h = files[d] /\ \A x \in Day \ proc[p].days : Marked(files[x], t)
    BY <1>1, <1>2 DEF EraserOf, First, NextDay
<1>4. h \in Seq(Record \ {Junk})
    BY <1>1 DEF TypeOK
<1>5. \A i \in DOMAIN h : /\ g[i].id = h[i].id /\ g[i].form = "whole" /\ h[i].form # "junk"
                          /\ g[i].erased <=> (h[i].erased \/ h[i].id \in t)
    BY <1>4, RewrittenRecord, RewrittenErased
<1>6. DOMAIN g = 1..Len(h) /\ DOMAIN h = 1..Len(h) /\ Len(h) \in Nat
    BY <1>4
<1> HIDE DEF g
<1>7. /\ files'[d] = g /\ \A x \in Day \ {d} : files'[x] = files[x]
      /\ synced'[d] = Len(h) /\ \A x \in Day \ {d} : synced'[x] = synced[x]
      /\ \A q \in Proc \ {p} : proc'[q] = proc[q]
    BY <1>1, <1>2 DEF TypeOK
<1>8. /\ proc'[p].pc = "rewrite" /\ proc'[p].days = proc[p].days \ {d}
      /\ proc'[p].targets = t
    BY <1>1, <1>2 DEF TypeOK, Local
<1>9. lock = p /\ promised' = promised
    BY <1>1 DEF InvOf, Inside, Persist
<1>10. Marked(h, promised)
    BY <1>3, FileOf
<1> HIDE DEF h, t
<1>11. Marked(g, promised) /\ Marked(g, t)
    BY <1>5, <1>6, <1>10 DEF Marked
<1>12. Firm(g, Len(h))
    BY <1>5, <1>6 DEF Firm
<1>13. \A i \in DOMAIN files[d] :
          files[d][i].erased => i \in DOMAIN g /\ g[i].id = files[d][i].id /\ g[i].erased
    BY <1>3, <1>5, <1>6
<1>14. EraserOf(files', promised', proc'[p])
    BY <1>3, <1>7, <1>8, <1>11 DEF EraserOf, Writing
<1> QED
    BY <1>2, <1>7, <1>9, <1>11, <1>12, <1>13, <1>14, FileEraser

(* The redaction is reported when no file has a target left.               *)
LEMMA RedactDoneEraser ==
    ASSUME ErasedInv, UniqueInv', NEW p \in Proc, RedactDone(p)
    PROVE  ErasedInv'
<1> DEFINE t == proc[p].targets
<1>1. /\ TypeOK /\ InvOf(files, lock, p, proc[p]) /\ EraserOf(files, promised, proc[p])
      /\ proc[p] \in Local /\ proc[p].pc = "rewrite" /\ proc[p].days = {}
    BY Eraser DEF RedactDone, At
<1>2. /\ files' = files /\ synced' = synced /\ lock = p
      /\ promised' = promised \cup (t \cap {r.id : r \in Records})
      /\ proc' = [proc EXCEPT ![p] = Rest]
    BY <1>1 DEF RedactDone, Return, InvOf, Inside
<1>3. \A d \in Day : Marked(files[d], t)
    BY <1>1 DEF EraserOf
<1>4. t \subseteq Event /\ \A d \in Day : files[d] \in Seq(Record)
    BY <1>1 DEF Local, TypeOK
<1>5. \A d \in Day : Marked(files[d], promised') /\ Firm(files[d], synced[d])
    BY <1>2, <1>3, FileOf DEF Marked
<1>6. There(files, promised')
    <2> SUFFICES ASSUME NEW e \in promised'
                 PROVE  \E d \in Day : \E i \in DOMAIN files[d] :
                            files[d][i].id = e /\ files[d][i].erased
        BY DEF There
    <2>1. CASE e \in promised
        BY <2>1 DEF ErasedInv, There
    <2>2. CASE e \in t /\ e \in {r.id : r \in Records}
        <3>1. PICK d \in Day : \E i \in DOMAIN files[d] : files[d][i].id = e
            BY <2>2 DEF Records, OnDisk
        <3>2. PICK i \in DOMAIN files[d] : files[d][i].id = e
            BY <3>1
        <3>3. files[d][i] \in Record /\ e \in Event
            BY <1>4, <2>2, <3>2
        <3>4. files[d][i].form # "junk"
            BY <3>2, <3>3, NameAssumption DEF Record, Junk
        <3>5. files[d][i].erased
            BY <1>3, <2>2, <3>2, <3>4 DEF Marked
        <3> QED
            BY <3>2, <3>5
    <2> QED
        BY <1>2, <2>1, <2>2
<1>7. proc'[p] = Rest /\ \A q \in Proc \ {p} : proc'[q] = proc[q]
    BY <1>1, <1>2 DEF TypeOK
<1>8. EraserOf(files', promised', Rest)
    BY Careless DEF Rest, Writing
<1> QED
    BY <1>2, <1>5, <1>6, <1>7, <1>8, EraserStep

-----------------------------------------------------------------------------
(* Faults *)

(* What is erased was synced. *)
LEMMA PowerLossEraser ==
    ASSUME ErasedInv, UniqueInv', PowerLoss
    PROVE  ErasedInv'
<1>1. UNCHANGED <<synced, promised>> /\ \A p \in Proc : proc'[p] = Rest
    BY DEF PowerLoss
<1>2. ASSUME NEW d \in Day
      PROVE  /\ Marked(files'[d], promised) /\ Firm(files'[d], synced[d])
             /\ \A i \in DOMAIN files[d] : files[d][i].erased =>
                   i \in DOMAIN files'[d] /\ files'[d][i] = files[d][i]
    <2> DEFINE f == files[d]
               g == files'[d]
               n == synced[d]
    <2>1. f \in Seq(Record) /\ Len(f) \in Nat /\ n \in Nat /\ Marked(f, promised) /\ Firm(f, n)
        BY FileOf
    <2>2. g \in Survivors(f, n)
        BY DEF PowerLoss
    <2> HIDE DEF f, g, n
    <2>3. /\ g \in Seq(Record) /\ Len(g) \in n..Len(f)
          /\ \A i \in 1..n : g[i] = f[i]
          /\ \A i \in DOMAIN g : /\ g[i].id = f[i].id /\ g[i].erased = f[i].erased
                                 /\ g[i].form = "junk" <=> f[i].form = "junk"
        BY <2>1, <2>2, SurvivorsAreRecords
    <2>4. DOMAIN g = 1..Len(g) /\ DOMAIN f = 1..Len(f) /\ Len(g) \in Nat
        BY <2>1, <2>3
    <2>5. \A i \in DOMAIN g : i \in DOMAIN f
        BY <2>1, <2>3, <2>4
    <2>6. Marked(g, promised)
        BY <2>1, <2>3, <2>5 DEF Marked
    <2>7. ASSUME NEW i \in DOMAIN g, g[i].erased
          PROVE  i <= n /\ \A j \in 1..i : g[j].form = "whole"
        <3>1. i \in Nat /\ i <= n /\ \A j \in 1..i : f[j].form = "whole"
            BY <2>1, <2>3, <2>4, <2>5, <2>7 DEF Firm
        <3> QED
            BY <2>1, <2>3, <3>1
    <2>8. ASSUME NEW i \in DOMAIN f, f[i].erased
          PROVE  i \in DOMAIN g /\ g[i] = f[i]
        <3>1. i \in 1..n
            BY <2>1, <2>4, <2>8 DEF Firm
        <3> QED
            BY <2>1, <2>3, <2>4, <3>1
    <2> QED
        BY <2>6, <2>7, <2>8 DEF Firm, f, g, n
<1>3. There(files', promised')
    <2> SUFFICES ASSUME NEW e \in promised
                 PROVE  \E d \in Day : \E i \in DOMAIN files'[d] :
                            files'[d][i].id = e /\ files'[d][i].erased
        BY <1>1 DEF There
    <2>1. PICK d \in Day : \E i \in DOMAIN files[d] : files[d][i].id = e /\ files[d][i].erased
        BY DEF ErasedInv, There
    <2> QED
        BY <1>2, <2>1
<1>4. \A p \in Proc : EraserOf(files', promised', proc'[p])
    BY <1>1, Careless DEF Rest, Writing
<1> QED
    BY <1>1, <1>2, <1>3, <1>4 DEF ErasedInv

LEMMA InitEraser ==
    Init => ErasedInv
<1> SUFFICES ASSUME Init PROVE ErasedInv
    OBVIOUS
<1>1. \A d \in Day : files[d] = <<>>
    BY DEF Init
<1>2. \A d \in Day : Marked(files[d], promised) /\ Firm(files[d], synced[d])
    BY <1>1 DEF Marked, Firm
<1>3. There(files, promised)
    BY DEF Init, There
<1>4. \A p \in Proc : EraserOf(files, promised, proc[p])
    BY Careless DEF Init, Rest, Writing
<1> QED
    BY <1>2, <1>3, <1>4, InitUnique DEF ErasedInv

LEMMA ErasedNext ==
    ASSUME "append" \notin Ops
    PROVE  ErasedInv /\ CutsFresh /\ [Next]_vars => ErasedInv'
<1> SUFFICES ASSUME ErasedInv, CutsFresh, [Next]_vars PROVE ErasedInv'
    OBVIOUS
<1>0. UniqueInv'
    BY UniqueStep DEF ErasedInv
<1>1. CASE UNCHANGED vars
    BY <1>0, <1>1 DEF ErasedInv, vars
<1>2. CASE PowerLoss
    BY <1>0, <1>2, PowerLossEraser
<1>3. ASSUME NEW p \in Proc, NEW op \in Ops, Begin(p, op)
      PROVE  ErasedInv'
    BY <1>0, <1>3, BeginEraser
<1>4. ASSUME NEW p \in Proc, Run(p)
      PROVE  ErasedInv'
    <2>1. CASE Recover(p)
        BY <1>0, <2>1, ScanEraser, CutEraser, RecoveredEraser DEF Recover
    <2>2. CASE TakeLock(p)
        BY <1>0, <2>2, TakeLockEraser
    <2>3. CASE LockTimeout(p)
        BY <1>0, <2>3, ReturnEraser DEF LockTimeout
    <2>4. CASE Baseline(p)
        BY <1>0, <2>4, BaselineEraser
    <2>5. CASE \E e \in Event, d \in Day : BulkAppend(p, e, d)
        BY <1>0, <2>5, BulkAppendEraser
    <2>6. CASE TakeNumber(p) \/ \E e \in Event, d \in Day : AppendOne(p, e, d)
        BY <2>6, Eraser DEF TakeNumber, AppendOne, At, InvOf
    <2>7. CASE Flush(p)
        <3>1. CASE \/ StartFlush(p) \/ StartDrop(p) \/ FlushDone(p) \/ DropDone(p)
                   \/ \E d \in Day : SyncDay(p, d)
            BY <1>0, <3>1, FlushEraser
        <3>2. CASE \E d \in Day : WriteRecord(p, d) \/ WriteSome(p, d) \/ WriteRest(p, d)
            BY <1>0, <3>2, WriteRecordEraser, WriteSomeEraser, WriteRestEraser
        <3> QED
            BY <2>7, <3>1, <3>2 DEF Flush
    <2>8. CASE Redact(p)
        BY <1>0, <2>8, ReadDayEraser, PersistEraser, RedactDoneEraser DEF Redact
    <2> QED
        BY <1>4, <2>1, <2>2, <2>3, <2>4, <2>5, <2>6, <2>7, <2>8 DEF Run
<1>5. ASSUME NEW p \in Proc, Kill(p)
      PROVE  ErasedInv'
    BY <1>0, <1>5, ReturnEraser DEF Kill
<1> QED
    BY <1>1, <1>2, <1>3, <1>4, <1>5 DEF Next

LEMMA ErasedSuffices ==
    ErasedInv => ErasedStaysErased
BY DEF ErasedInv, Marked, ErasedStaysErased

(* What redact reported erased stays erased through every ingest, power    *)
(* loss, kill and recovery, as long as events come in through BulkWriter   *)
(* only and every recovery cuts the file it saw.                           *)
THEOREM ErasedForGood ==
    ASSUME "append" \notin Ops
    PROVE  Spec /\ []CutsFresh => []ErasedStaysErased
<1>1. ErasedInv /\ CutsFresh /\ [Next]_vars => ErasedInv'
    BY ErasedNext
<1>2. Init => ErasedInv
    BY InitEraser
<1>3. ErasedInv => ErasedStaysErased
    BY ErasedSuffices
<1> QED
    BY <1>1, <1>2, <1>3, PTL DEF Spec

-----------------------------------------------------------------------------
(* One process at a time *)

(* Only a scan of its own makes a process about to cut. *)
LEMMA OnlyScanCuts ==
    ASSUME UniqueInv, NEW p \in Proc, Run(p), ~Scan(p)
    PROVE  proc'[p].pc # "cut"
<1>1. proc \in [Proc -> Local] /\ proc[p] \in Local
    BY DEF UniqueInv, TypeOK
<1>2. Return(p) => proc'[p].pc # "cut"
    BY <1>1 DEF Return, Rest
<1>3. \A step \in Step \ {"cut"} : Goto(p, step) => proc'[p].pc # "cut"
    BY <1>1 DEF Goto, Local
<1>4. CASE Recover(p)
    <2>1. CASE Cut(p)
        BY <1>1, <2>1 DEF Cut, Local
    <2>2. CASE Recovered(p)
        <3>0. proc[p].op \in {"read", "write", "append", "redact"}
            BY <1>1 DEF Local, Operation
        <3>1. Return(p) \/ Goto(p, "base") \/ Goto(p, "max") \/ Goto(p, "lock")
            BY <2>2, <3>0 DEF Recovered
        <3> QED
            BY <1>2, <1>3, <3>1 DEF Step
    <2> QED
        BY <1>4, <2>1, <2>2 DEF Recover
<1>5. CASE TakeLock(p)
    <2>1. AfterLock(proc[p].op) # "cut"
        BY DEF AfterLock
    <2> QED
        BY <1>1, <1>5, <2>1 DEF TakeLock, Local
<1>6. CASE LockTimeout(p)
    BY <1>2, <1>6 DEF LockTimeout
<1>7. CASE Baseline(p) \/ TakeNumber(p)
    <2>1. \/ Return(p)
          \/ \E n, seen : proc' = [proc EXCEPT ![p].pc = "append", ![p].next = n, ![p].seen = seen]
          \/ \E n : proc' = [proc EXCEPT ![p].pc = "lock", ![p].next = n]
        BY <1>7 DEF Baseline, TakeNumber
    <2> QED
        BY <1>1, <1>2, <2>1 DEF Local
<1>8. CASE \E e \in Event, d \in Day : BulkAppend(p, e, d) \/ AppendOne(p, e, d)
    BY <1>1, <1>8 DEF BulkAppend, AppendOne, At, Local
<1>9. CASE Flush(p)
    <2>1. CASE StartFlush(p) \/ StartDrop(p)
        BY <1>1, <2>1 DEF StartFlush, StartDrop, Local
    <2>2. CASE FlushDone(p) \/ DropDone(p)
        BY <1>2, <1>3, <2>2 DEF FlushDone, DropDone, Step
    <2>3. ASSUME NEW d \in Day, WriteRecord(p, d) \/ WriteSome(p, d) \/ SyncDay(p, d)
          PROVE  proc'[p].pc = proc[p].pc /\ proc[p].pc \in Writing
        <3>1. CASE WriteRecord(p, d)
            BY <1>1, <3>1 DEF WriteRecord, Local
        <3>2. CASE WriteSome(p, d)
            BY <1>1, <3>2 DEF WriteSome, Local
        <3>3. CASE SyncDay(p, d)
            BY <1>1, <3>3 DEF SyncDay, Local, Writing
        <3> QED
            BY <2>3, <3>1, <3>2, <3>3
    <2>4. ASSUME NEW d \in Day, WriteRest(p, d)
          PROVE  proc'[p].pc = proc[p].pc /\ proc[p].pc \in Writing
        BY <1>1, <2>4, RestFewer DEF WriteRest, Local
    <2> QED
        BY <1>9, <2>1, <2>2, <2>3, <2>4 DEF Flush, Writing
<1>10. CASE Redact(p)
    <2>1. CASE ReadDay(p)
        <3>1. \/ Return(p)
              \/ \E d \in Day : \/ proc' = [proc EXCEPT ![p].days = @ \ {d}]
                                \/ proc' = [proc EXCEPT ![p].pc = "persist", ![p].hand = files[d]]
            BY <2>1 DEF ReadDay
        <3> QED
            BY <1>1, <1>2, <2>1, <3>1 DEF ReadDay, At, Local
    <2>2. CASE Persist(p)
        BY <1>1, <2>2 DEF Persist, Local
    <2>3. CASE RedactDone(p)
        BY <1>2, <2>3 DEF RedactDone
    <2> QED
        BY <1>10, <2>1, <2>2, <2>3 DEF Redact
<1> QED
    BY <1>4, <1>5, <1>6, <1>7, <1>8, <1>9, <1>10 DEF Run

LEMMA ScanIsFresh ==
    ASSUME TypeOK, NEW p \in Proc, Scan(p), NEW x \in Day, First(proc'[p], x),
           proc'[p].pc = "cut"
    PROVE  /\ GoodPrefix(files[x], Len(proc'[p].hand))
           /\ KeptBy(files[x], proc'[p].hand)
           /\ files' = files
<1>1. proc \in [Proc -> Local] /\ proc[p] \in Local /\ proc[p].pc = "scan"
    BY DEF TypeOK, Scan, At
<1>2. PICK d \in Day :
         /\ NextDay(p, d)
         /\ \E n \in 0..Len(files[d]) :
               /\ GoodPrefix(files[d], n)
               /\ IF n = Len(files[d])
                  THEN proc' = [proc EXCEPT ![p].days = @ \ {d}]
                  ELSE proc' = [proc EXCEPT ![p].pc = "cut", ![p].hand = SubSeq(files[d], 1, n)]
    BY DEF Scan
<1>3. PICK n \in 0..Len(files[d]) :
         /\ GoodPrefix(files[d], n)
         /\ IF n = Len(files[d])
            THEN proc' = [proc EXCEPT ![p].days = @ \ {d}]
            ELSE proc' = [proc EXCEPT ![p].pc = "cut", ![p].hand = SubSeq(files[d], 1, n)]
    BY <1>2
<1>4. n # Len(files[d])
    BY <1>1, <1>3 DEF Local
<1>5. proc'[p].hand = SubSeq(files[d], 1, n) /\ proc'[p].days = proc[p].days
    BY <1>1, <1>3, <1>4 DEF Local
<1>6. x = d
    BY <1>2, <1>5, NameAssumption DEF First, NextDay
<1>7. files[d] \in Seq(Record)
    BY DEF TypeOK
<1>8. Len(SubSeq(files[d], 1, n)) = n
    BY <1>7, Prefix
<1>9. n <= Len(files[d])
    BY <1>7
<1> QED
    BY <1>3, <1>5, <1>6, <1>8, <1>9 DEF KeptBy, Scan

LEMMA AloneFresh ==
    ASSUME \A p, q \in Proc : p = q
    PROVE  UniqueInv /\ CutsFresh /\ [Next]_vars => CutsFresh'
<1> SUFFICES ASSUME UniqueInv, CutsFresh, [Next]_vars PROVE CutsFresh'
    OBVIOUS
<1>0. TypeOK
    BY DEF UniqueInv
<1>1. CASE UNCHANGED vars
    BY <1>1 DEF CutsFresh, vars
<1>2. CASE PowerLoss
    BY <1>2 DEF PowerLoss, CutsFresh, Rest
<1>3. ASSUME NEW p \in Proc, NEW op \in Ops, Begin(p, op)
      PROVE  proc'[p].pc # "cut"
    <2>1. proc \in [Proc -> Local]
        BY <1>0 DEF TypeOK
    <2> QED
        BY <1>3, <2>1 DEF Begin, Rest
<1>4. ASSUME NEW p \in Proc, Kill(p)
      PROVE  proc'[p].pc # "cut"
    BY <1>0, <1>4 DEF TypeOK, Kill, Return, Rest
<1>5. ASSUME NEW p \in Proc, Run(p)
      PROVE  CutsFresh'
    <2>1. CASE Scan(p)
        BY <1>0, <2>1, ScanIsFresh DEF CutsFresh
    <2>2. CASE ~Scan(p)
        BY <1>5, <2>2, OnlyScanCuts DEF CutsFresh
    <2> QED
        BY <2>1, <2>2
<1>6. ASSUME NEW p \in Proc, proc'[p].pc # "cut"
      PROVE  CutsFresh'
    BY <1>6 DEF CutsFresh
<1> QED
    BY <1>1, <1>2, <1>3, <1>4, <1>5, <1>6 DEF Next

(* So it does whatever happens to one process after the other.             *)
THEOREM ErasedForGoodAlone ==
    ASSUME "append" \notin Ops, \A p, q \in Proc : p = q
    PROVE  Spec => []ErasedStaysErased
<1>1. UniqueInv /\ CutsFresh /\ [Next]_vars => CutsFresh'
    BY AloneFresh
<1>2. Init => CutsFresh
    BY DEF Init, CutsFresh, Rest
<1> QED
    BY <1>1, <1>2, WritersExclude, ErasedForGood, PTL DEF Spec

(* A process that is about to cut writes nothing. *)
LEMMA AloneClear ==
    ASSUME \A p, q \in Proc : p = q
    PROVE  UniqueInv /\ CutsFresh => CutsClear
<1> SUFFICES ASSUME UniqueInv, CutsFresh, NEW p \in Proc, proc[p].pc = "cut"
             PROVE  proc[p].split = {}
    BY DEF CutsClear
<1> QED
    BY Mine DEF InvOf, BufferInv, Writing

(* And what a flush reported stays readable whatever happens to one        *)
(* process after the other.                                                *)
THEOREM AcknowledgedStaysAlone ==
    ASSUME "append" \notin Ops, Tears \subseteq {"part"}, \A p, q \in Proc : p = q
    PROVE  Spec => []AckedReadable
<1>1. UniqueInv /\ CutsFresh /\ [Next]_vars => CutsFresh'
    BY AloneFresh
<1>2. Init => CutsFresh
    BY DEF Init, CutsFresh, Rest
<1>3. UniqueInv /\ CutsFresh => CutsClear
    BY AloneClear
<1> QED
    BY <1>1, <1>2, <1>3, WritersExclude, AcknowledgedStays, PTL DEF Spec

-----------------------------------------------------------------------------
(* Bulk writers only: they recover under the lock *)

OnlyWriters == \A p \in Proc : proc[p].pc # "idle" => proc[p].op = "write"

(* A running process goes on with its operation or ends it. *)
LEMMA KeepsOperation ==
    ASSUME UniqueInv, NEW p \in Proc, Run(p)
    PROVE  /\ \A q \in Proc \ {p} : proc'[q] = proc[q]
           /\ proc'[p].pc = "idle" \/ proc'[p].op = proc[p].op
<1>1. proc \in [Proc -> Local] /\ proc[p] \in Local
    BY DEF UniqueInv, TypeOK
<1> DEFINE Goal == /\ \A q \in Proc \ {p} : proc'[q] = proc[q]
                   /\ proc'[p].pc = "idle" \/ proc'[p].op = proc[p].op
<1>2. Return(p) => Goal
    BY <1>1 DEF Return, Rest
<1>3. \A step : Goto(p, step) => Goal
    BY <1>1 DEF Goto, Local
<1>4. CASE Recover(p)
    <2>1. CASE Scan(p)
        <3>1. \E d \in Day : \E n \in 0..Len(files[d]) :
                 proc' = IF n = Len(files[d])
                         THEN [proc EXCEPT ![p].days = @ \ {d}]
                         ELSE [proc EXCEPT ![p].pc = "cut", ![p].hand = SubSeq(files[d], 1, n)]
            BY <2>1 DEF Scan
        <3> QED
            BY <1>1, <3>1 DEF Local
    <2>2. CASE Cut(p)
        BY <1>1, <2>2 DEF Cut, Local
    <2>3. CASE Recovered(p)
        <3>0. proc[p].op \in {"read", "write", "append", "redact"}
            BY <1>1 DEF Local, Operation
        <3>1. Return(p) \/ Goto(p, "base") \/ Goto(p, "max") \/ Goto(p, "lock")
            BY <2>3, <3>0 DEF Recovered
        <3> QED
            BY <1>2, <1>3, <3>1
    <2> QED
        BY <1>4, <2>1, <2>2, <2>3 DEF Recover
<1>5. CASE TakeLock(p)
    BY <1>1, <1>5 DEF TakeLock, Local
<1>6. CASE LockTimeout(p)
    BY <1>2, <1>6 DEF LockTimeout
<1>7. CASE Baseline(p) \/ TakeNumber(p)
    <2>1. \/ Return(p)
          \/ \E n, seen : proc' = [proc EXCEPT ![p].pc = "append", ![p].next = n, ![p].seen = seen]
          \/ \E n : proc' = [proc EXCEPT ![p].pc = "lock", ![p].next = n]
        BY <1>7 DEF Baseline, TakeNumber
    <2> QED
        BY <1>1, <1>2, <2>1 DEF Local
<1>8. CASE \E e \in Event, d \in Day : BulkAppend(p, e, d) \/ AppendOne(p, e, d)
    BY <1>1, <1>8 DEF BulkAppend, AppendOne, Local
<1>9. CASE Flush(p)
    <2>1. CASE StartFlush(p) \/ StartDrop(p)
        BY <1>1, <2>1 DEF StartFlush, StartDrop, Local
    <2>2. CASE FlushDone(p) \/ DropDone(p)
        BY <1>2, <1>3, <2>2 DEF FlushDone, DropDone
    <2>3. ASSUME NEW d \in Day, WriteRecord(p, d) \/ WriteSome(p, d) \/ SyncDay(p, d)
          PROVE  Goal
        <3>1. CASE WriteRecord(p, d)
            BY <1>1, <3>1 DEF WriteRecord, Local
        <3>2. CASE WriteSome(p, d)
            BY <1>1, <3>2 DEF WriteSome, Local
        <3>3. CASE SyncDay(p, d)
            BY <1>1, <3>3 DEF SyncDay, Local
        <3> QED
            BY <2>3, <3>1, <3>2, <3>3
    <2>4. ASSUME NEW d \in Day, WriteRest(p, d)
          PROVE  Goal
        BY <1>1, <2>4 DEF WriteRest, Local
    <2> QED
        BY <1>9, <2>1, <2>2, <2>3, <2>4 DEF Flush
<1>10. CASE Redact(p)
    <2>1. CASE ReadDay(p)
        <3>1. CASE Return(p)
            BY <1>2, <3>1
        <3>2. CASE ~Return(p)
            <4>1. PICK d \in Day :
                     proc' = IF ToErase(p, files[d]) = {}
                             THEN [proc EXCEPT ![p].days = @ \ {d}]
                             ELSE [proc EXCEPT ![p].pc = "persist", ![p].hand = files[d]]
                BY <2>1, <3>2 DEF ReadDay
            <4>2. CASE ToErase(p, files[d]) = {}
                BY <1>1, <4>1, <4>2 DEF Local
            <4>3. CASE ToErase(p, files[d]) # {}
                BY <1>1, <4>1, <4>3 DEF Local
            <4> QED
                BY <4>2, <4>3
        <3> QED
            BY <3>1, <3>2
    <2>2. CASE Persist(p)
        <3>1. PICK d \in Day :
                 proc' = [proc EXCEPT ![p].pc = "rewrite", ![p].days = @ \ {d}, ![p].hand = <<>>]
            BY <2>2 DEF Persist
        <3> QED
            BY <1>1, <3>1 DEF Local
    <2>3. CASE RedactDone(p)
        BY <1>2, <2>3 DEF RedactDone
    <2> QED
        BY <1>10, <2>1, <2>2, <2>3 DEF Redact
<1> QED
    BY <1>4, <1>5, <1>6, <1>7, <1>8, <1>9, <1>10 DEF Run

(* Outside the lock a writer leaves the files alone. *)
LEMMA WritersWait ==
    ASSUME UniqueInv, OnlyWriters, NEW p \in Proc, Run(p), ~Inside(proc[p])
    PROVE  files' = files
<1>1. InvOf(files, lock, p, proc[p]) /\ proc[p].pc \notin Writing /\ proc[p].split = {}
    BY Mine DEF InvOf, BufferInv, Inside, Writing
<1>2. ~Cut(p) /\ ~Persist(p)
    BY DEF OnlyWriters, Cut, Persist, At, Inside
<1>3. \A d \in Day : ~WriteRecord(p, d) /\ ~WriteSome(p, d) /\ ~WriteRest(p, d)
    BY <1>1 DEF WriteRecord, WriteSome, WriteRest
<1> QED
    BY <1>2, <1>3 DEF Run, Recover, Scan, Recovered, TakeLock, LockTimeout, Baseline, TakeNumber,
       BulkAppend, AppendOne, Flush, StartFlush, StartDrop, FlushDone, DropDone, SyncDay,
       Redact, ReadDay, RedactDone

LEMMA RunsNow ==
    ASSUME UniqueInv, NEW p \in Proc, Run(p)
    PROVE  proc[p].pc # "idle"
<1>1. \A d \in proc[p].split : proc[p].pc \in Writing
    BY Mine DEF InvOf, BufferInv
<1> QED
    BY <1>1 DEF Run, Recover, Scan, Cut, Recovered, TakeLock, LockTimeout, Baseline, TakeNumber,
       BulkAppend, AppendOne, Flush, StartFlush, StartDrop, FlushDone, DropDone, SyncDay,
       WriteRecord, WriteSome, WriteRest, Redact, ReadDay, Persist, RedactDone, At, Writing

LEMMA WritersFresh ==
    ASSUME Ops \subseteq {"write"}
    PROVE  UniqueInv /\ OnlyWriters /\ CutsFresh /\ [Next]_vars => OnlyWriters' /\ CutsFresh'
<1> SUFFICES ASSUME UniqueInv, OnlyWriters, CutsFresh, [Next]_vars
             PROVE  OnlyWriters' /\ CutsFresh'
    OBVIOUS
<1>0. TypeOK /\ proc \in [Proc -> Local]
    BY DEF UniqueInv, TypeOK
<1>1. CASE UNCHANGED vars
    BY <1>1 DEF CutsFresh, OnlyWriters, vars
<1>2. CASE PowerLoss
    BY <1>2 DEF PowerLoss, CutsFresh, OnlyWriters, Rest
<1>3. ASSUME NEW p \in Proc, (\E op \in Ops : Begin(p, op)) \/ Kill(p)
      PROVE  /\ \A q \in Proc \ {p} : proc'[q] = proc[q]
             /\ proc'[p].pc # "cut" /\ (proc'[p].pc = "idle" \/ proc'[p].op = "write")
             /\ files' = files
    <2>1. CASE Kill(p)
        BY <1>0, <2>1 DEF Kill, Return, Rest
    <2>2. ASSUME NEW op \in Ops, Begin(p, op)
          PROVE  /\ \A q \in Proc \ {p} : proc'[q] = proc[q]
                 /\ proc'[p].pc = "lock" /\ proc'[p].op = "write" /\ files' = files
        <3>1. op = "write"
            BY <2>2
        <3>2. \E targets : proc' = [proc EXCEPT ![p] = [Rest EXCEPT
                  !.op = op, !.targets = targets, !.days = Day, !.pc = "lock"]]
            BY <2>2, <3>1 DEF Begin
        <3> QED
            BY <1>0, <2>2, <3>1, <3>2 DEF Begin, Rest
    <2> QED
        BY <1>3, <2>1, <2>2
<1>4. ASSUME NEW p \in Proc, (\E op \in Ops : Begin(p, op)) \/ Kill(p)
      PROVE  OnlyWriters' /\ CutsFresh'
    BY <1>3, <1>4 DEF OnlyWriters, CutsFresh
<1>5. ASSUME NEW p \in Proc, Run(p)
      PROVE  OnlyWriters' /\ CutsFresh'
    <2>1. \A q \in Proc \ {p} : proc'[q] = proc[q]
        BY <1>5, KeepsOperation
    <2>2. proc[p].pc # "idle"
        BY <1>5, RunsNow
    <2>3. OnlyWriters'
        BY <1>5, <2>1, <2>2, KeepsOperation DEF OnlyWriters
    <2>4. ASSUME NEW q \in Proc, proc'[q].pc = "cut", NEW d \in Day, First(proc'[q], d)
          PROVE  /\ GoodPrefix(files'[d], Len(proc'[q].hand))
                 /\ KeptBy(files'[d], proc'[q].hand)
        <3>1. CASE q = p
            <4>1. Scan(p)
                BY <1>5, <2>4, <3>1, OnlyScanCuts
            <4> QED
                BY <1>0, <2>4, <3>1, <4>1, ScanIsFresh
        <3>2. CASE q # p
            <4>1. proc'[q] = proc[q] /\ Inside(proc[q])
                BY <2>1, <2>4, <3>2 DEF OnlyWriters, Inside
            <4>2. ~Inside(proc[p])
                BY <3>2, <4>1, Mine DEF InvOf
            <4>3. files' = files
                BY <1>5, <4>2, WritersWait
            <4> QED
                BY <2>4, <4>1, <4>3 DEF CutsFresh
        <3> QED
            BY <3>1, <3>2
    <2> QED
        BY <2>3, <2>4 DEF CutsFresh
<1> QED
    BY <1>1, <1>2, <1>4, <1>5 DEF Next

LEMMA WritersClear ==
    UniqueInv /\ OnlyWriters /\ CutsFresh => CutsClear
<1> SUFFICES ASSUME UniqueInv, OnlyWriters, CutsFresh, NEW p \in Proc, proc[p].pc = "cut",
                    NEW q \in Proc
             PROVE  proc[q].split = {}
    BY DEF CutsClear
<1>1. Inside(proc[p])
    BY DEF OnlyWriters, Inside
<1>2. proc[q].pc \notin Writing
    BY <1>1, Mine DEF InvOf, Inside, Writing
<1> QED
    BY <1>2, Mine DEF InvOf, BufferInv

(* Between bulk writers alone it stays readable however they interleave.   *)
THEOREM AcknowledgedByWriters ==
    ASSUME Ops \subseteq {"write"}, Tears \subseteq {"part"}
    PROVE  Spec => []AckedReadable
<1>1. UniqueInv /\ OnlyWriters /\ CutsFresh /\ [Next]_vars => OnlyWriters' /\ CutsFresh'
    BY WritersFresh
<1>2. Init => OnlyWriters /\ CutsFresh
    BY DEF Init, OnlyWriters, CutsFresh, Rest
<1>3. UniqueInv /\ OnlyWriters /\ CutsFresh => CutsClear
    BY WritersClear
<1>4. "append" \notin Ops
    OBVIOUS
<1> QED
    BY <1>1, <1>2, <1>3, <1>4, WritersExclude, AcknowledgedStays, PTL DEF Spec
=============================================================================
