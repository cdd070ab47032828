------------------------------ MODULE Journal ------------------------------
(***************************************************************************)
(* The source event journal of journal.rs: one file of framed records per  *)
(* day, a lock file, and the processes that recover, append to, read and   *)
(* redact the files.                                                       *)
(*                                                                         *)
(*   "read"    Journal::open, then an iteration (search, status, ...)      *)
(*   "write"   BulkWriter: open, append, flush, drop (ingest, backfill)    *)
(*   "append"  Journal::open, then Journal::append                         *)
(*   "redact"  Journal::open, then Journal::redact (erase)                 *)
(*                                                                         *)
(* A file is a sequence of records; bytes are abstracted to the form a     *)
(* record has on disk.  The file `seq` is written and never read: it is    *)
(* left out.  MEM_JOURNAL_FSYNC is on, as by default.                      *)
(***************************************************************************)
EXTENDS Naturals, Sequences, FiniteSets

CONSTANTS
    Proc,       \* processes
    Event,      \* event ids (source identity and position)
    Day,        \* days, as numbers: the order of the file names
    Ops,        \* what the processes do: a subset of Operation
    Tears,      \* the forms a record cut short can have
    NoEvent,    \* the id of bytes that belong to no record
    Nobody,     \* the lock is free
    MaxSeq,     \* bound on sequence numbers
    MaxFaults   \* bound on kills and power losses

Operation == {"read", "write", "append", "redact"}

ASSUME NameAssumption ==
    /\ Day \subseteq Nat
    /\ Ops \subseteq Operation
    /\ Tears \subseteq {"part", "bare"}
    /\ NoEvent \notin Event
    /\ Nobody \notin Proc

ASSUME BoundAssumption == MaxSeq \in Nat /\ MaxFaults \in Nat

VARIABLES
    files,      \* the day files
    synced,     \* how many records of each file are known to be on disk
    lock,       \* who holds .seq.lock
    proc,       \* what each process is doing
    faults,     \* faults so far
    acked,      \* history: the records some flush reported durable
    promised    \* history: the ids some redaction reported erased

vars == <<files, synced, lock, proc, faults, acked, promised>>

-----------------------------------------------------------------------------
(* Data *)

(* A record on disk: complete; complete but for its last newline ("bare"); *)
(* cut earlier ("part"); or bytes that are no record ("junk").             *)
Junk == [id |-> NoEvent, seq |-> 0, form |-> "junk", erased |-> FALSE]

Record ==
    [id : Event, seq : Nat, form : {"whole", "bare", "part"}, erased : BOOLEAN] \cup {Junk}

(* A record as its writer has it. *)
Fresh == [id : Event, seq : Nat, form : {"whole"}, erased : {FALSE}]

NewRecord(e, n) == [id |-> e, seq |-> n, form |-> "whole", erased |-> FALSE]

(* What is left of a record when its end is lost. *)
Shortened(r) ==
    CASE r.form = "whole" -> {[r EXCEPT !.form = form] : form \in Tears}
      [] r.form \in {"bare", "part"} -> {[r EXCEPT !.form = "part"]}
      [] r.form = "junk" -> {r}

(* What a file can be after its end is lost: the first n records, any of   *)
(* the others in order, the last of them perhaps shortened.                *)
Survivors(f, n) ==
    {SubSeq(f, 1, k) : k \in n..Len(f)}
    \cup UNION {{Append(SubSeq(f, 1, k - 1), r) : r \in Shortened(f[k])} :
                   k \in (n + 1)..Len(f)}

(* Records 1..n of a file parse.  A record without its newline does only   *)
(* at the end of the file: what follows is read as a part of it.           *)
Good(f, n) ==
    \A i \in 1..n : f[i].form = "whole" \/ (f[i].form = "bare" /\ i = Len(f))

(* recover_tail keeps the longest such prefix. *)
GoodPrefix(f, n) == Good(f, n) /\ (n < Len(f) => ~Good(f, n + 1))

(* JournalIter ends in an error unless every record of every file parses.  *)
Readable == \A d \in Day : Good(files[d], Len(files[d]))

OnDisk(d) == {files[d][i] : i \in DOMAIN files[d]}

Records == UNION {OnDisk(d) : d \in Day}

Step == {"idle", "scan", "cut", "max", "lock", "base", "append", "flush",
         "drop", "rewrite", "persist"}

(* `days`: the files still to recover, sync or rewrite.  `hand`: the part  *)
(* of the file to keep, or its content.  `split`: the day whose next       *)
(* buffered record is already partly in its file.  `mine`: what this       *)
(* writer appended.                                                        *)
Local == [pc : Step, op : Operation, days : SUBSET Day, hand : Seq(Record),
          targets : SUBSET Event, next : Nat, seen : SUBSET Event,
          buffer : [Day -> Seq(Fresh)], split : SUBSET Day,
          mine : SUBSET [id : Event, seq : Nat, day : Day]]

Rest ==
    [pc |-> "idle", op |-> "read", days |-> {}, hand |-> <<>>, targets |-> {},
     next |-> 0, seen |-> {}, buffer |-> [d \in Day |-> <<>>], split |-> {},
     mine |-> {}]

Init ==
    /\ files = [d \in Day |-> <<>>]
    /\ synced = [d \in Day |-> 0]
    /\ lock = Nobody
    /\ proc = [p \in Proc |-> Rest]
    /\ faults = 0
    /\ acked = {}
    /\ promised = {}

-----------------------------------------------------------------------------
(* Control of one process *)

At(p, step) == proc[p].pc = step

Goto(p, step) == proc' = [proc EXCEPT ![p].pc = step]

NextDay(p, d) == d \in proc[p].days /\ \A e \in proc[p].days : d <= e

(* Mutant: the lock outlives the operation. *)
ReturnLocked(p) ==
    /\ proc' = [proc EXCEPT ![p] = Rest]
    /\ UNCHANGED lock

(* The process ends its operation; closing the lock file releases it.      *)
Return(p) ==
    /\ proc' = [proc EXCEPT ![p] = Rest]
    /\ lock' = IF lock = p THEN Nobody ELSE lock

(* Every operation but a bulk writer's opens the journal first, and so     *)
(* recovers it without the lock.                                           *)
Begin(p, op) ==
    /\ At(p, "idle")
    /\ \E targets \in SUBSET Event :
          /\ (op = "redact") <=> (targets # {})
          /\ proc' = [proc EXCEPT ![p] = [Rest EXCEPT
                          !.op = op,
                          !.targets = targets,
                          !.days = Day,
                          !.pc = IF op = "write" THEN "lock" ELSE "scan"]]
    /\ UNCHANGED <<files, synced, lock, faults, acked, promised>>

-----------------------------------------------------------------------------
(* recover_tail, on each day file in turn; a bulk writer holds the lock.   *)

Scan(p) ==
    /\ At(p, "scan")
    /\ \E d \in Day :
          /\ NextDay(p, d)
          /\ \E n \in 0..Len(files[d]) :
                /\ GoodPrefix(files[d], n)
                /\ IF n = Len(files[d])
                   THEN proc' = [proc EXCEPT ![p].days = @ \ {d}]
                   ELSE proc' = [proc EXCEPT ![p].pc = "cut",
                                             ![p].hand = SubSeq(files[d], 1, n)]
    /\ UNCHANGED <<files, synced, lock, faults, acked, promised>>

KeptBy(f, h) == Len(h) <= Len(f) /\ SubSeq(f, 1, Len(h)) = h

(* set_len on the path: the offset is where the kept records ended when    *)
(* they were read.  In a file rewritten since it falls anywhere: between   *)
(* two records, into one, or behind the end.                               *)
Cut(p) ==
    /\ At(p, "cut")
    /\ \E d \in Day :
          /\ NextDay(p, d)
          /\ LET f == files[d]
                 h == proc[p].hand
             IN \E g \in IF KeptBy(f, h) THEN {h}
                         ELSE Survivors(f, 0) \cup {Append(f, Junk)} :
                /\ files' = [files EXCEPT ![d] = g]
                /\ synced' = [synced EXCEPT ![d] = Len(g)]
          /\ proc' = [proc EXCEPT ![p].pc = "scan", ![p].days = @ \ {d}, ![p].hand = <<>>]
    /\ UNCHANGED <<lock, faults, acked, promised>>

(* The journal is open.  A reader iterates and is done. *)
Recovered(p) ==
    /\ At(p, "scan")
    /\ proc[p].days = {}
    /\ CASE proc[p].op = "read" -> Return(p)
         [] proc[p].op = "write" -> Goto(p, "base") /\ UNCHANGED lock
         [] proc[p].op = "append" -> Goto(p, "max") /\ UNCHANGED lock
         [] proc[p].op = "redact" -> Goto(p, "lock") /\ UNCHANGED lock
    /\ UNCHANGED <<files, synced, faults, acked, promised>>

-----------------------------------------------------------------------------
(* The lock file *)

AfterLock(op) ==
    CASE op = "write" -> "scan" [] op = "redact" -> "rewrite" [] OTHER -> "append"

(* Mutant: the lock file is opened and not locked. *)
TakeLockUnlocked(p) ==
    /\ At(p, "lock")
    /\ lock' = p
    /\ proc' = [proc EXCEPT ![p].pc = AfterLock(proc[p].op), ![p].days = Day]
    /\ UNCHANGED <<files, synced, faults, acked, promised>>

TakeLock(p) ==
    /\ At(p, "lock")
    /\ lock = Nobody
    /\ lock' = p
    /\ proc' = [proc EXCEPT ![p].pc = AfterLock(proc[p].op), ![p].days = Day]
    /\ UNCHANGED <<files, synced, faults, acked, promised>>

(* BulkWriter::open gives up after five seconds; the others wait.          *)
LockTimeout(p) ==
    /\ At(p, "lock")
    /\ proc[p].op = "write"
    /\ lock # Nobody
    /\ Return(p)
    /\ UNCHANGED <<files, synced, faults, acked, promised>>

-----------------------------------------------------------------------------
(* BulkWriter *)

LargestSeq(n) == (\E r \in Records : r.seq = n) \/ n = 0

(* The first number no record has. *)
StartSeq(n) == LargestSeq(n - 1) /\ \A r \in Records : r.seq < n

(* Mutant: erased records do not count as seen. *)
BaselineForgetsErased(p) ==
    /\ At(p, "base")
    /\ IF Readable
       THEN /\ \E n \in 1..(MaxSeq + 1) :
                  /\ StartSeq(n)
                  /\ proc' = [proc EXCEPT ![p].pc = "append", ![p].next = n,
                                          ![p].seen = {r.id : r \in {r \in Records : ~r.erased}}]
            /\ UNCHANGED lock
       ELSE Return(p)
    /\ UNCHANGED <<files, synced, faults, acked, promised>>

(* The baseline: the next number and the ids already there.  An unreadable *)
(* journal is an error.                                                    *)
Baseline(p) ==
    /\ At(p, "base")
    /\ IF Readable
       THEN /\ \E n \in 1..(MaxSeq + 1) :
                  /\ StartSeq(n)
                  /\ proc' = [proc EXCEPT ![p].pc = "append", ![p].next = n,
                                          ![p].seen = {r.id : r \in Records}]
            /\ UNCHANGED lock
       ELSE Return(p)
    /\ UNCHANGED <<files, synced, faults, acked, promised>>

(* Mutant: `seen` is not consulted. *)
BulkAppendAgain(p, e, d) ==
    /\ At(p, "append")
    /\ proc[p].op = "write"
    /\ proc[p].split = {}
    /\ proc[p].next <= MaxSeq
    /\ proc' = [proc EXCEPT
                   ![p].seen = @ \cup {e},
                   ![p].next = @ + 1,
                   ![p].buffer[d] = Append(@, NewRecord(e, proc[p].next)),
                   ![p].mine = @ \cup {[id |-> e, seq |-> proc[p].next, day |-> d]}]
    /\ UNCHANGED <<files, synced, lock, faults, acked, promised>>

(* The next number goes to an event that was not seen before; its record   *)
(* goes to the buffer of its day.                                          *)
BulkAppend(p, e, d) ==
    /\ At(p, "append")
    /\ proc[p].op = "write"
    /\ proc[p].split = {}
    /\ e \notin proc[p].seen
    /\ proc[p].next <= MaxSeq
    /\ proc' = [proc EXCEPT
                   ![p].seen = @ \cup {e},
                   ![p].next = @ + 1,
                   ![p].buffer[d] = Append(@, NewRecord(e, proc[p].next)),
                   ![p].mine = @ \cup {[id |-> e, seq |-> proc[p].next, day |-> d]}]
    /\ UNCHANGED <<files, synced, lock, faults, acked, promised>>

-----------------------------------------------------------------------------
(* Buffers to files.  A BufWriter hands over what it holds when it is full *)
(* and when it is flushed; the kernel takes it bit by bit, and others see  *)
(* the file meanwhile.                                                     *)

Writing == {"append", "flush", "drop"}

Opened(p) == {m.day : m \in proc[p].mine}

WriteRecord(p, d) ==
    /\ proc[p].pc \in Writing
    /\ proc[p].split = {}
    /\ proc[p].buffer[d] # <<>>
    /\ files' = [files EXCEPT ![d] = Append(@, Head(proc[p].buffer[d]))]
    /\ proc' = [proc EXCEPT ![p].buffer[d] = Tail(@)]
    /\ UNCHANGED <<synced, lock, faults, acked, promised>>

WriteSome(p, d) ==
    /\ proc[p].pc \in Writing
    /\ proc[p].split = {}
    /\ proc[p].buffer[d] # <<>>
    /\ \E form \in Tears :
          files' = [files EXCEPT ![d] =
                       Append(@, [Head(proc[p].buffer[d]) EXCEPT !.form = form])]
    /\ proc' = [proc EXCEPT ![p].split = {d}]
    /\ UNCHANGED <<synced, lock, faults, acked, promised>>

(* The rest of a record goes behind whatever the file ends in by then.     *)
WriteRest(p, d) ==
    /\ d \in proc[p].split
    /\ LET f == files[d]
           r == Head(proc[p].buffer[d])
           whole == Len(f) > 0 /\ f[Len(f)].seq = r.seq /\ f[Len(f)].form \in Tears
       IN  files' = [files EXCEPT ![d] = IF whole THEN [f EXCEPT ![Len(f)] = r]
                                                  ELSE Append(f, Junk)]
    /\ proc' = [proc EXCEPT ![p].split = {}, ![p].buffer[d] = Tail(@)]
    /\ UNCHANGED <<synced, lock, faults, acked, promised>>

(* Every `flush_every` events and when the caller asks for it; a flush with *)
(* nothing new is left out.                                                *)
StartFlush(p) ==
    /\ At(p, "append")
    /\ proc[p].split = {}
    /\ ~(proc[p].mine \subseteq acked)
    /\ proc' = [proc EXCEPT ![p].pc = "flush", ![p].days = Opened(p)]
    /\ UNCHANGED <<files, synced, lock, faults, acked, promised>>

(* The writer is dropped, after a last flush or because of an error.       *)
StartDrop(p) ==
    /\ At(p, "append")
    /\ proc[p].op = "write"
    /\ proc[p].split = {}
    /\ proc' = [proc EXCEPT ![p].pc = "drop", ![p].days = Opened(p)]
    /\ UNCHANGED <<files, synced, lock, faults, acked, promised>>

(* Mutant: the buffer is flushed, the file not synced. *)
FlushWithoutSync(p, d) ==
    /\ proc[p].pc \in {"flush", "drop"}
    /\ d \in proc[p].days
    /\ proc[p].buffer[d] = <<>>
    /\ proc' = [proc EXCEPT ![p].days = @ \ {d}]
    /\ UNCHANGED <<files, synced, lock, faults, acked, promised>>

(* sync_all on an open file with nothing left in its buffer. *)
SyncDay(p, d) ==
    /\ proc[p].pc \in {"flush", "drop"}
    /\ d \in proc[p].days
    /\ proc[p].buffer[d] = <<>>
    /\ synced' = [synced EXCEPT ![d] = Len(files[d])]
    /\ proc' = [proc EXCEPT ![p].days = @ \ {d}]
    /\ UNCHANGED <<files, lock, faults, acked, promised>>

(* The flush has returned: the caller takes its events for durable.        *)
FlushDone(p) ==
    /\ At(p, "flush")
    /\ proc[p].days = {}
    /\ acked' = acked \cup proc[p].mine
    /\ IF proc[p].op = "append"
       THEN Return(p)
       ELSE Goto(p, "append") /\ UNCHANGED lock
    /\ UNCHANGED <<files, synced, faults, promised>>

DropDone(p) ==
    /\ At(p, "drop")
    /\ proc[p].days = {}
    /\ Return(p)
    /\ UNCHANGED <<files, synced, faults, acked, promised>>

-----------------------------------------------------------------------------
(* Journal::append: the number is taken before the lock is.                *)

TakeNumber(p) ==
    /\ At(p, "max")
    /\ IF Readable /\ \E n \in 1..MaxSeq : StartSeq(n)
       THEN /\ \E n \in 1..MaxSeq :
                  /\ StartSeq(n)
                  /\ proc' = [proc EXCEPT ![p].pc = "lock", ![p].next = n]
            /\ UNCHANGED lock
       ELSE Return(p)
    /\ UNCHANGED <<files, synced, faults, acked, promised>>

(* Written, flushed and synced as the only record of its writer. *)
AppendOne(p, e, d) ==
    /\ At(p, "append")
    /\ proc[p].op = "append"
    /\ proc' = [proc EXCEPT
                   ![p].pc = "flush",
                   ![p].days = {d},
                   ![p].buffer[d] = <<NewRecord(e, proc[p].next)>>,
                   ![p].mine = {[id |-> e, seq |-> proc[p].next, day |-> d]}]
    /\ UNCHANGED <<files, synced, lock, faults, acked, promised>>

-----------------------------------------------------------------------------
(* Journal::redact, under the lock                                         *)

ToErase(p, f) == {i \in DOMAIN f : f[i].id \in proc[p].targets /\ ~f[i].erased}

(* Mutant: records that do not parse are rewritten as they are. *)
ReadDayUnchecked(p) ==
    /\ At(p, "rewrite")
    /\ \E d \in Day :
          /\ NextDay(p, d)
          /\ proc' = IF ToErase(p, files[d]) = {}
                     THEN [proc EXCEPT ![p].days = @ \ {d}]
                     ELSE [proc EXCEPT ![p].pc = "persist", ![p].hand = files[d]]
    /\ UNCHANGED <<files, synced, lock, faults, acked, promised>>

(* A file is read whole; one with nothing to erase is left alone.          *)
ReadDay(p) ==
    /\ At(p, "rewrite")
    /\ \E d \in Day :
          /\ NextDay(p, d)
          /\ LET f == files[d]
             IN  IF ~Good(f, Len(f)) THEN Return(p)
                 ELSE /\ proc' = IF ToErase(p, f) = {}
                                 THEN [proc EXCEPT ![p].days = @ \ {d}]
                                 ELSE [proc EXCEPT ![p].pc = "persist", ![p].hand = f]
                      /\ UNCHANGED lock
    /\ UNCHANGED <<files, synced, faults, acked, promised>>

(* The rewritten file is synced and renamed over the old one. *)
Persist(p) ==
    /\ At(p, "persist")
    /\ \E d \in Day :
          /\ NextDay(p, d)
          /\ LET h == proc[p].hand IN
             /\ files' = [files EXCEPT ![d] = [i \in DOMAIN h |->
                    [h[i] EXCEPT !.form = "whole",
                                 !.erased = @ \/ h[i].id \in proc[p].targets]]]
             /\ synced' = [synced EXCEPT ![d] = Len(h)]
          /\ proc' = [proc EXCEPT ![p].pc = "rewrite", ![p].days = @ \ {d}, ![p].hand = <<>>]
    /\ UNCHANGED <<lock, faults, acked, promised>>

RedactDone(p) ==
    /\ At(p, "rewrite")
    /\ proc[p].days = {}
    /\ promised' = promised \cup (proc[p].targets \cap {r.id : r \in Records})
    /\ Return(p)
    /\ UNCHANGED <<files, synced, faults, acked>>

-----------------------------------------------------------------------------
(* Faults *)

(* A process is killed: its buffers are gone, its lock is released. *)
Kill(p) ==
    /\ ~At(p, "idle")
    /\ faults < MaxFaults
    /\ faults' = faults + 1
    /\ Return(p)
    /\ UNCHANGED <<files, synced, acked, promised>>

PowerLoss ==
    /\ faults < MaxFaults
    /\ faults' = faults + 1
    /\ files' \in [Day -> UNION {Survivors(files[d], synced[d]) : d \in Day}]
    /\ \A d \in Day : files'[d] \in Survivors(files[d], synced[d])
    /\ proc' = [p \in Proc |-> Rest]
    /\ lock' = Nobody
    /\ UNCHANGED <<synced, acked, promised>>

-----------------------------------------------------------------------------
(* Specification *)

Recover(p) == Scan(p) \/ Cut(p) \/ Recovered(p)

Flush(p) ==
    \/ StartFlush(p) \/ FlushDone(p) \/ StartDrop(p) \/ DropDone(p)
    \/ \E d \in Day : WriteRecord(p, d) \/ WriteSome(p, d) \/ WriteRest(p, d) \/ SyncDay(p, d)

Redact(p) == ReadDay(p) \/ Persist(p) \/ RedactDone(p)

(* The steps a running process takes by itself. *)
Run(p) ==
    \/ Recover(p) \/ TakeLock(p) \/ LockTimeout(p) \/ Baseline(p) \/ TakeNumber(p)
    \/ \E e \in Event, d \in Day : BulkAppend(p, e, d) \/ AppendOne(p, e, d)
    \/ Flush(p) \/ Redact(p)

Next ==
    \/ PowerLoss
    \/ \E p \in Proc :
          \/ \E op \in Ops : Begin(p, op)
          \/ Run(p)
          \/ Kill(p)

Spec == Init /\ [][Next]_vars

(* A running process keeps running. *)
FairSpec == Spec /\ \A p \in Proc : WF_vars(Run(p))

-----------------------------------------------------------------------------
(* Properties *)

TypeOK ==
    /\ files \in [Day -> Seq(Record)]
    /\ synced \in [Day -> Nat]
    /\ \A d \in Day : synced[d] <= Len(files[d])
    /\ lock \in Proc \cup {Nobody}
    /\ proc \in [Proc -> Local]
    /\ \A p \in Proc :
          /\ \A d \in proc[p].split : proc[p].buffer[d] # <<>>
          /\ proc[p].pc = "persist" => proc[p].hand \in Seq(Record \ {Junk})
    /\ faults \in Nat
    /\ acked \subseteq [id : Event, seq : Nat, day : Day]
    /\ promised \subseteq Event

(* Record i of the file of day d is a record, torn or not. *)
Named(fs, d, i) == d \in Day /\ i \in DOMAIN fs[d] /\ fs[d][i].form # "junk"

(* journal.rs "one trusted writer assigns sequence numbers under a          *)
(* namespace lock": no two records have one number.                        *)
NumbersUnique ==
    \A d1, d2 \in Day : \A i \in DOMAIN files[d1], j \in DOMAIN files[d2] :
        /\ Named(files, d1, i) /\ Named(files, d2, j)
        /\ files[d1][i].seq = files[d2][j].seq
        => <<d1, i>> = <<d2, j>>

(* README "Re-ingesting never duplicates an event": no two records have one *)
(* id, however often writers are killed, recovered and started again.      *)
NoDuplicates ==
    \A d1, d2 \in Day : \A i \in DOMAIN files[d1], j \in DOMAIN files[d2] :
        /\ Named(files, d1, i) /\ Named(files, d2, j)
        /\ files[d1][i].id = files[d2][j].id
        => <<d1, i>> = <<d2, j>>

(* journal.rs "records are framed, flushed, and fsync'd before             *)
(* acknowledgement": what a flush reported is in its file for good, in the *)
(* part that recovery keeps.                                               *)
AckedReadable ==
    \A a \in acked : \E i \in DOMAIN files[a.day] :
        /\ files[a.day][i].id = a.id
        /\ files[a.day][i].seq = a.seq
        /\ Good(files[a.day], i)

(* README, `mem erase`: "their text becomes [erased]", for good: no later  *)
(* write, recovery or ingest of the same event brings the text back.       *)
ErasedStaysErased ==
    \A d \in Day : \A i \in DOMAIN files[d] :
        files[d][i].id \in promised /\ files[d][i].form # "junk" => files[d][i].erased

(* The two, strengthened to what every step keeps as long as nobody uses   *)
(* Journal::append.                                                        *)

Different(r, t) == r.seq # t.seq /\ r.id # t.id

(* Steps taken under the lock. *)
Inside(c) ==
    \/ c.pc \in {"base", "append", "flush", "drop", "rewrite", "persist"}
    \/ c.op = "write" /\ c.pc \in {"scan", "cut"}

(* A writer knows every record of the journal, and what it has buffered is *)
(* not in the journal, but for the record it is just writing.              *)
WriterInv(fs, c) ==
    /\ \A d \in Day : \A i \in DOMAIN fs[d] :
          Named(fs, d, i) => fs[d][i].seq < c.next /\ fs[d][i].id \in c.seen
    /\ \A d \in Day : \A j \in DOMAIN c.buffer[d] :
          c.buffer[d][j].seq < c.next /\ c.buffer[d][j].id \in c.seen
    /\ \A d1, d2 \in Day : \A i \in DOMAIN c.buffer[d1], j \in DOMAIN c.buffer[d2] :
          <<d1, i>> # <<d2, j>> => Different(c.buffer[d1][i], c.buffer[d2][j])
    /\ \A d1, d2 \in Day : \A i \in DOMAIN fs[d1], j \in DOMAIN c.buffer[d2] :
          \/ ~Named(fs, d1, i)
          \/ Different(fs[d1][i], c.buffer[d2][j])
          \/ /\ d2 \in c.split /\ j = 1
             /\ fs[d1][i].seq = c.buffer[d2][j].seq
             /\ fs[d1][i].id = c.buffer[d2][j].id

(* One write at a time, and only while there is something to write. *)
BufferInv(c) ==
    /\ \A d \in c.split : c.split = {d}
    /\ c.pc \notin Writing => c.split = {} /\ \A d \in Day : c.buffer[d] = <<>>

(* What redact is about to write back goes with the other files. *)
PersistInv(fs, c) ==
    \A d \in c.days : (\A e \in c.days : d <= e) =>
        /\ \A i, j \in DOMAIN c.hand : i # j => Different(c.hand[i], c.hand[j])
        /\ \A other \in Day \ {d} : \A i \in DOMAIN fs[other], j \in DOMAIN c.hand :
              Named(fs, other, i) => Different(fs[other][i], c.hand[j])

UniqueInv ==
    /\ TypeOK
    /\ NumbersUnique
    /\ NoDuplicates
    /\ \A p \in Proc :
          /\ proc[p].op # "append" /\ proc[p].pc # "max"
          /\ proc[p].pc = "lock" => proc[p].op \in {"write", "redact"}
          /\ Inside(proc[p]) => lock = p
          /\ BufferInv(proc[p])
          /\ proc[p].pc \in Writing => WriterInv(files, proc[p])
          /\ proc[p].pc = "persist" => PersistInv(files, proc[p])

(* AckedReadable, strengthened to what every step keeps as long as nobody  *)
(* uses Journal::append, no record loses only its newline, and recovery    *)
(* cuts what it saw of a file nobody is writing to.                        *)

Clean(f) == \A i \in DOMAIN f : f[i].form = "whole"

TornAtEnd(f) ==
    \A i \in DOMAIN f : f[i].form = "whole" \/ (i = Len(f) /\ f[i].form = "part")

Same(r, t) == r.id = t.id /\ r.seq = t.seq

(* What is acknowledged is whole, and in the part that was synced. *)
AckedSynced(fs, sy) ==
    \A a \in acked : \E i \in 1..sy[a.day] : Same(fs[a.day][i], a) /\ fs[a.day][i].form = "whole"

(* A writer has cleaned the files it is done with, and what it appended is *)
(* in a file or in its buffer; what it has flushed is synced.  What redact *)
(* is about to write back is what is in the file.                          *)
CleanInv(fs, sy, c) ==
    /\ c.op = "write" /\ c.pc \in {"scan", "cut"} => \A d \in Day \ c.days : Clean(fs[d])
    /\ c.pc \in Writing \cup {"base"} => \A d \in Day \ c.split : Clean(fs[d])
    /\ c.pc \in Writing =>
          /\ \A d \in c.split : /\ Len(fs[d]) > 0 /\ fs[d][Len(fs[d])].form \in Tears
                               /\ fs[d][Len(fs[d])].seq = Head(c.buffer[d]).seq
          /\ \A m \in c.mine :
                \/ \E i \in DOMAIN fs[m.day] : Same(fs[m.day][i], m) /\ fs[m.day][i].form = "whole"
                \/ \E j \in DOMAIN c.buffer[m.day] : Same(c.buffer[m.day][j], m)
    /\ c.pc \notin Writing => c.mine = {}
    /\ c.pc \in {"flush", "drop"} => \A m \in c.mine :
          m.day \notin c.days => c.buffer[m.day] = <<>> /\ sy[m.day] = Len(fs[m.day])
    /\ c.pc = "persist" => \A d \in c.days : (\A e \in c.days : d <= e) =>
          Clean(fs[d]) /\ c.hand = fs[d]

DurableInv ==
    /\ UniqueInv
    /\ \A d \in Day : TornAtEnd(files[d])
    /\ AckedSynced(files, synced)
    /\ \A p \in Proc : CleanInv(files, synced, proc[p])

(* The lock is always released, on every path out of every operation.      *)
LockReleased == \A p \in Proc : (lock = p) ~> (lock # p)
=============================================================================
