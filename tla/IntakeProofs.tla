---------------------------- MODULE IntakeProofs ----------------------------
(***************************************************************************)
(* Theorems about Intake: whatever the files of the other programs hold    *)
(* and however their readers read them, no event is in two batches, the    *)
(* checkpoint passes no event that no batch had, and the journal has one   *)
(* record of each event, for any workers, commands and kills.              *)
(***************************************************************************)
EXTENDS Intake, SequenceTheorems, FiniteSetTheorems, TLAPS

-----------------------------------------------------------------------------
(* Types.  What a file holds and an adapter makes of it can be anything:   *)
(* S has what there is.                                                    *)

Recs(S) == [seq : Nat \ {0}, id : S, msg : S, project : S]

Steps == {"idle", "open", "list", "write", "lag", "batch", "publish"}

Local(S) ==
    [pc : Steps, command : S, place : S, todo : S, parsed : S, seen : S, next : Nat,
     buffer : [Days -> Seq(Recs(S))], days : SUBSET Days, due : S,
     from : Nat, window : S, end : Nat]

TypedIn(S) ==
    /\ disk \in [Days -> Seq(Recs(S))]
    /\ worker \in [Worker -> Local(S)]
    /\ windows \in Seq(S)
    /\ through \in Nat
    /\ day \in Days

Typed == \E S : TypedIn(S)

-----------------------------------------------------------------------------
(* The inductive invariant *)

RecordsIn(f) == UNION {{f[d][k] : k \in DOMAIN f[d]} : d \in Days}

Buffered(c) == RecordsIn(c.buffer)

(* One record for each id and each number. *)
OneEach(R) == \A r, s \in R : r.id = s.id \/ r.seq = s.seq => r = s

Holding == {"list", "write"}

(* What the process with the lock knows: the ids and the largest number of *)
(* all there is, and the days it has written for.                          *)
Known(c) ==
    /\ OneEach(OnDisk \cup Buffered(c))
    /\ \A r \in OnDisk \cup Buffered(c) : r.id \in c.seen /\ r.seq < c.next
    /\ c.next > 0

(* Its buffers are in the order of the numbers, and what is on disk has    *)
(* smaller ones, or is of another day it writes.                           *)
Rising(c) ==
    /\ \A d \in Days : c.buffer[d] # <<>> => d \in c.days
    /\ \A d \in Days : \A i, j \in DOMAIN c.buffer[d] :
          i < j => c.buffer[d][i].seq < c.buffer[d][j].seq
    /\ \A x, d \in Days : \A i \in DOMAIN disk[x], j \in DOMAIN c.buffer[d] :
          disk[x][i].seq < c.buffer[d][j].seq \/ (x # d /\ x \in c.days)

(* A batch that was read. *)
Read(c) ==
    /\ c.from < c.end /\ \E r \in OnDisk : r.seq = c.end
    /\ \A id \in c.window : \E r \in OnDisk : r.id = id /\ c.from < r.seq /\ r.seq <= c.end

(* A file that was read. *)
IsFile(f) == "day" \in DOMAIN f /\ f.day \in Days

InvOf(c) ==
    /\ c.pc \in Holding => Known(c) /\ Rising(c)
    /\ c.pc \notin Holding => c.buffer = Empty /\ c.days = {}
    /\ c.pc = "publish" => Read(c)
    /\ \A f \in c.parsed : IsFile(f)

(* What was published lies at or below the checkpoint. *)
Past ==
    /\ through = 0 \/ \E r \in OnDisk : r.seq = through
    /\ \A k \in DOMAIN windows : \A id \in windows[k] :
          \E r \in OnDisk : r.id = id /\ r.seq <= through

(* A batch lacks nothing, and what is not on disk comes after it. *)
Lacks(c) == \E r \in OnDisk : c.from < r.seq /\ r.seq <= c.end /\ r.id \notin c.window

Later(r) == r.seq > through /\ \A v \in Worker : Does(v, "publish") => r.seq > worker[v].end

Covered ==
    /\ PassedIsCovered
    /\ ~crossed => \A w \in Worker :
          /\ Does(w, "publish") => ~Lacks(worker[w])
          /\ Holds(w) => \A r \in Buffered(worker[w]) : Later(r)

Largest == \E n \in {0} \cup {r.seq : r \in OnDisk} : \A r \in OnDisk : r.seq <= n

Lone == \A v, w \in Worker : Holds(v) /\ Holds(w) => v = w

IntakeInv ==
    /\ Typed /\ Largest /\ Lone
    /\ OneEach(OnDisk)
    /\ \A w \in Worker : InvOf(worker[w])
    /\ Past /\ EachBatchOnce /\ Covered

-----------------------------------------------------------------------------
(* Records of sequences *)

LEMMA Records ==
    ASSUME NEW f
    PROVE  /\ \A d \in Days : \A k \in DOMAIN f[d] : f[d][k] \in RecordsIn(f)
           /\ \A r \in RecordsIn(f) : \E d \in Days : \E k \in DOMAIN f[d] : r = f[d][k]
BY DEF RecordsIn

LEMMA DiskRecords == OnDisk = RecordsIn(disk)
BY DEF OnDisk, RecordsIn

(* Day files, or buffers. *)
Files(S) == [Days -> Seq(S)]

LEMMA Appending ==
    ASSUME NEW S, NEW f \in Files(S), NEW g \in Files(S),
           NEW d \in Days, NEW e \in S,
           g[d] = Append(f[d], e), \A x \in Days \ {d} : g[x] = f[x]
    PROVE  /\ DOMAIN g[d] = DOMAIN f[d] \cup {Len(f[d]) + 1}
           /\ Len(f[d]) + 1 \notin DOMAIN f[d]
           /\ \A i \in DOMAIN f[d] : i < Len(f[d]) + 1 /\ g[d][i] = f[d][i]
           /\ g[d][Len(f[d]) + 1] = e
           /\ RecordsIn(g) = RecordsIn(f) \cup {e}
<1>1. f[d] \in Seq(S) /\ g[d] = Append(f[d], e) /\ \A x \in Days \ {d} : g[x] = f[x]
  BY DEF Files
<1>2. /\ DOMAIN f[d] = 1..Len(f[d]) /\ Len(f[d]) \in Nat
      /\ DOMAIN g[d] = 1..(Len(f[d]) + 1)
      /\ \A i \in 1..Len(f[d]) : g[d][i] = f[d][i]
      /\ g[d][Len(f[d]) + 1] = e
  BY <1>1, AppendProperties, LenProperties
<1>3. /\ DOMAIN g[d] = DOMAIN f[d] \cup {Len(f[d]) + 1}
      /\ Len(f[d]) + 1 \notin DOMAIN f[d]
      /\ \A i \in DOMAIN f[d] : i < Len(f[d]) + 1 /\ g[d][i] = f[d][i]
  BY <1>2
<1>4. ASSUME NEW r \in RecordsIn(g)
      PROVE  r \in RecordsIn(f) \cup {e}
  <2>1. PICK x \in Days : \E k \in DOMAIN g[x] : r = g[x][k]
    BY <1>4 DEF RecordsIn
  <2>2. PICK k \in DOMAIN g[x] : r = g[x][k]
    BY <2>1
  <2>3. CASE x # d \/ k # Len(f[d]) + 1
    <3>1. k \in DOMAIN f[x] /\ r = f[x][k]
      <4>1. CASE x # d
        BY <1>1, <2>2, <4>1
      <4>2. CASE x = d
        BY <1>3, <2>2, <2>3, <4>2
      <4> QED
        BY <4>1, <4>2
    <3> QED
      BY <3>1, Records
  <2> QED
    BY <1>1, <1>2, <2>2, <2>3
<1>5. ASSUME NEW r \in RecordsIn(f)
      PROVE  r \in RecordsIn(g)
  <2>1. PICK x \in Days : \E k \in DOMAIN f[x] : r = f[x][k]
    BY <1>5, Records
  <2>2. PICK k \in DOMAIN f[x] : r = f[x][k]
    BY <2>1
  <2>3. k \in DOMAIN g[x] /\ r = g[x][k]
    BY <1>1, <1>3, <2>2
  <2> QED
    BY <2>3, Records
<1>6. e \in RecordsIn(g)
  <2>1. Len(f[d]) + 1 \in DOMAIN g[d]
    BY <1>3
  <2>2. \A k \in DOMAIN g[d] : g[d][k] \in RecordsIn(g)
    BY Records
  <2> QED
    BY <1>2, <2>1, <2>2
<1> QED
  BY <1>1, <1>2, <1>3, <1>4, <1>5, <1>6

-----------------------------------------------------------------------------
(* Types of a step: what there is grows. *)

LEMMA Widen ==
    ASSUME NEW S, NEW U, S \subseteq U
    PROVE  /\ Seq(Recs(S)) \subseteq Seq(Recs(U))
           /\ Seq(S) \subseteq Seq(U)
           /\ Local(S) \subseteq Local(U)
<1>1. Recs(S) \subseteq Recs(U)
  BY DEF Recs
<1>2. Seq(Recs(S)) \subseteq Seq(Recs(U)) /\ Seq(S) \subseteq Seq(U)
  BY <1>1, SeqMonotonic
<1>3. ASSUME NEW c \in Local(S)
      PROVE  c \in Local(U)
  <2>1. c.buffer \in [Days -> Seq(Recs(U))]
    BY <1>2 DEF Local
  <2> QED
    BY <2>1 DEF Local
<1> QED
  BY <1>2, <1>3

-----------------------------------------------------------------------------
(* Steps that change neither the journal nor the checkpoint *)

Keeps(c, b) ==
    /\ c.pc \in Holding <=> b.pc \in Holding
    /\ c.pc = "publish" <=> b.pc = "publish"
    /\ c.buffer = b.buffer /\ c.days = b.days /\ c.seen = b.seen /\ c.next = b.next
    /\ c.from = b.from /\ c.window = b.window /\ c.end = b.end

Rests(c) == c.pc \notin Holding /\ c.pc # "publish" /\ c.buffer = Empty /\ c.days = {}

LEMMA QuietStep ==
    ASSUME IntakeInv,
           NEW T, worker' \in [Worker -> Local(T)],
           UNCHANGED <<disk, through, windows, crossed>>, day' \in Days,
           \A v \in Worker : Keeps(worker'[v], worker[v]) \/ Rests(worker'[v]),
           \A v \in Worker : \A f \in worker'[v].parsed : IsFile(f)
    PROVE  IntakeInv'
<1>0. OnDisk' = OnDisk
  BY DEF OnDisk
<1>1. Typed'
  <2>1. PICK S : TypedIn(S)
    BY DEF IntakeInv, Typed
  <2> DEFINE U == S \cup T
  <2>2. S \subseteq U /\ T \subseteq U
    OBVIOUS
  <2> HIDE DEF U
  <2>3. TypedIn(U)'
    BY <2>1, <2>2, Widen DEF TypedIn
  <2> QED
    BY <2>3 DEF Typed
<1>2. \A v \in Worker : Holds(v)' => Holds(v) /\ Keeps(worker'[v], worker[v])
  BY DEF Holds, Keeps, Rests, Holding
<1>3. \A v \in Worker : Does(v, "publish")' => Does(v, "publish") /\ Keeps(worker'[v], worker[v])
  BY DEF Does, Keeps, Rests
<1>4. ASSUME NEW v \in Worker
      PROVE  InvOf(worker[v])'
  <2>1. InvOf(worker[v])
    BY DEF IntakeInv
  <2>2. CASE Rests(worker'[v])
    BY <2>2 DEF Rests, InvOf, Empty
  <2>3. CASE Keeps(worker'[v], worker[v])
    <3>1. Known(worker[v]) => Known(worker[v])'
      BY <1>0, <2>3 DEF Keeps, Known, Buffered
    <3>2. Rising(worker[v]) => Rising(worker[v])'
      BY <2>3 DEF Keeps, Rising
    <3>3. Read(worker[v]) => Read(worker[v])'
      BY <1>0, <2>3 DEF Keeps, Read
    <3> QED
      BY <2>1, <2>3, <3>1, <3>2, <3>3 DEF InvOf, Keeps, Empty
  <2> QED
    BY <2>2, <2>3
<1>5. Past' /\ EachBatchOnce' /\ PassedIsCovered'
  BY <1>0 DEF IntakeInv, Past, EachBatchOnce, Covered, PassedIsCovered
<1>6. ASSUME ~crossed', NEW v \in Worker
      PROVE  /\ Does(v, "publish")' => ~Lacks(worker[v])'
             /\ Holds(v)' => \A r \in Buffered(worker[v])' : Later(r)'
  <2>1. Does(v, "publish")' => ~Lacks(worker[v])'
    BY <1>0, <1>3, <1>6 DEF IntakeInv, Covered, Lacks, Keeps
  <2>2. ASSUME Holds(v)', NEW r \in Buffered(worker[v])'
        PROVE  Later(r)'
    <3>1. Holds(v) /\ r \in Buffered(worker[v])
      BY <1>2, <2>2 DEF Buffered, Keeps
    <3>2. Later(r)
      BY <1>6, <3>1 DEF IntakeInv, Covered
    <3> QED
      BY <1>3, <3>2 DEF Later, Keeps
  <2> QED
    BY <2>1, <2>2
<1> QED
  BY <1>0, <1>1, <1>2, <1>4, <1>5, <1>6 DEF IntakeInv, Largest, Lone, Covered

(* The same, of one process. *)
LEMMA OneQuiet ==
    ASSUME IntakeInv, NEW w \in Worker,
           NEW T, worker' \in [Worker -> Local(T)],
           UNCHANGED <<disk, through, windows, crossed, day>>,
           \A v \in Worker \ {w} : worker'[v] = worker[v],
           Keeps(worker'[w], worker[w]) \/ Rests(worker'[w]),
           \A f \in worker'[w].parsed : IsFile(f)
    PROVE  IntakeInv'
<1>1. \A v \in Worker : Keeps(worker'[v], worker[v]) \/ Rests(worker'[v])
  BY DEF Keeps
<1>2. \A v \in Worker : \A f \in worker'[v].parsed : IsFile(f)
  BY DEF IntakeInv, InvOf
<1>3. day' \in Days
  BY DEF IntakeInv, Typed, TypedIn
<1> QED
  BY <1>1, <1>2, <1>3, QuietStep

-----------------------------------------------------------------------------
(* The files change, and the day. *)

LEMMA LostStep ==
    ASSUME IntakeInv, NEW n, NEW commands, Lost(n, commands),
           UNCHANGED <<day, disk, through, windows, crossed>>
    PROVE  IntakeInv'
<1>1. PICK S : TypedIn(S)
  BY DEF IntakeInv, Typed
<1> DEFINE T == S \cup {worker[v].due \ Messages(n) : v \in Worker}
<1>2. \A v \in Worker : worker[v] \in Local(S) /\ worker[v].due \ Messages(n) \in T
  BY <1>1 DEF TypedIn
<1>3. S \subseteq T
  OBVIOUS
<1> HIDE DEF T
<1>4. \A v \in Worker :
        /\ worker'[v] = [worker[v] EXCEPT !.due = @ \ Messages(n)] \/ worker'[v] = worker[v]
        /\ worker[v] \in Local(T)
  BY <1>2, <1>3, Widen DEF Lost
<1>5. ASSUME NEW v \in Worker
      PROVE  /\ worker'[v] \in Local(T) /\ Keeps(worker'[v], worker[v])
             /\ worker'[v].parsed = worker[v].parsed
  <2>1. CASE worker'[v] = worker[v]
    BY <1>4, <2>1 DEF Keeps
  <2>2. CASE worker'[v] = [worker[v] EXCEPT !.due = @ \ Messages(n)]
    <3> DEFINE due == worker[v].due \ Messages(n)
    <3>1. worker[v] \in Local(T) /\ due \in T /\ worker'[v] = [worker[v] EXCEPT !.due = due]
      BY <1>2, <1>4, <2>2
    <3> HIDE DEF due
    <3>2. worker'[v] \in Local(T)
      BY <3>1 DEF Local
    <3>3. Keeps(worker'[v], worker[v]) /\ worker'[v].parsed = worker[v].parsed
      BY <3>1 DEF Local, Keeps
    <3> QED
      BY <3>2, <3>3
  <2> QED
    BY <1>4, <2>1, <2>2
<1>6. worker' \in [Worker -> Local(T)]
  BY <1>5 DEF Lost
<1>7. day' \in Days
  BY <1>1 DEF TypedIn
<1>8. \A v \in Worker : \A f \in worker'[v].parsed : IsFile(f)
  BY <1>5 DEF IntakeInv, InvOf
<1> QED
  BY <1>5, <1>6, <1>7, <1>8, QuietStep

LEMMA WritesStep ==
    ASSUME IntakeInv, NEW n, Writes(n)
    PROVE  IntakeInv'
BY LostStep DEF Writes

LEMMA ArchivesStep ==
    ASSUME IntakeInv, NEW n, Archives(n)
    PROVE  IntakeInv'
BY LostStep DEF Archives

LEMMA MidnightStep ==
    ASSUME IntakeInv, Midnight
    PROVE  IntakeInv'
<1>1. PICK S : TypedIn(S)
  BY DEF IntakeInv, Typed
<1>2. worker' \in [Worker -> Local(S)] /\ day' \in Days
  BY <1>1, IntakeAssumption DEF TypedIn, Midnight, Days
<1>3. \A v \in Worker : Keeps(worker'[v], worker[v])
  BY DEF Midnight, Keeps
<1>4. \A v \in Worker : \A f \in worker'[v].parsed : IsFile(f)
  BY DEF Midnight, IntakeInv, InvOf
<1> QED
  BY <1>2, <1>3, <1>4, QuietStep DEF Midnight

(* A process comes to rest. *)
LEMMA RestStep ==
    ASSUME IntakeInv, NEW w \in Worker,
           NEW T, NEW c \in Local(T), Rests(c), c.parsed = {},
           worker' = [worker EXCEPT ![w] = c],
           UNCHANGED <<disk, through, windows, crossed, day>>
    PROVE  IntakeInv'
<1>1. PICK S : TypedIn(S)
  BY DEF IntakeInv, Typed
<1> DEFINE U == S \cup T
<1>2. Local(S) \subseteq Local(U) /\ Local(T) \subseteq Local(U)
  BY Widen
<1> HIDE DEF U
<1>3. worker' \in [Worker -> Local(U)] /\ worker'[w] = c
      /\ \A v \in Worker \ {w} : worker'[v] = worker[v]
  BY <1>1, <1>2 DEF TypedIn
<1> QED
  BY <1>3, OneQuiet

LEMMA RestState ==
    ASSUME NEW pc \in Steps \ {"list", "write", "publish"}, NEW command, NEW due, NEW todo, NEW c,
           \/ c = [AtRest EXCEPT !.pc = pc, !.command = command, !.due = due, !.todo = todo]
           \/ c = [AtRest EXCEPT !.pc = pc]
    PROVE  /\ c \in Local({command, due, todo, "live", "consolidate", {}})
           /\ Rests(c) /\ c.parsed = {}
<1> DEFINE T == {command, due, todo, "live", "consolidate", {}}
<1>1. Empty \in [Days -> Seq(Recs(T))]
  BY EmptySeq DEF Empty
<1>2. command \in T /\ due \in T /\ todo \in T /\ "live" \in T /\ "consolidate" \in T /\ {} \in T
  OBVIOUS
<1>3. T = {command, due, todo, "live", "consolidate", {}}
  OBVIOUS
<1> HIDE DEF T
<1>4. \E x, y, z \in T : c = [pc |-> pc, command |-> x, place |-> "live", todo |-> z, parsed |-> {},
                              seen |-> {}, next |-> 0, buffer |-> Empty, days |-> {}, due |-> y,
                              from |-> 0, window |-> {}, end |-> 0]
  <2>1. CASE c = [AtRest EXCEPT !.pc = pc]
    BY <1>2, <2>1 DEF AtRest
  <2>2. CASE c = [AtRest EXCEPT !.pc = pc, !.command = command, !.due = due, !.todo = todo]
    BY <1>2, <2>2 DEF AtRest
  <2> QED
    BY <2>1, <2>2
<1>5. c \in Local(T)
  BY <1>1, <1>2, <1>4 DEF Local
<1>6. Rests(c) /\ c.parsed = {}
  BY <1>4 DEF Rests, Holding, Steps
<1> QED
  BY <1>3, <1>5, <1>6

LEMMA RestAt ==
    ASSUME NEW pc \in Steps \ {"list", "write", "publish"}
    PROVE  \E T : /\ [AtRest EXCEPT !.pc = pc] \in Local(T)
                  /\ Rests([AtRest EXCEPT !.pc = pc])
                  /\ [AtRest EXCEPT !.pc = pc].parsed = {}
<1> DEFINE T == {pc, pc, pc, "live", "consolidate", {}}
<1>1. \A c : c = [AtRest EXCEPT !.pc = pc] => c \in Local(T) /\ Rests(c) /\ c.parsed = {}
  BY RestState
<1> QED
  BY <1>1

LEMMA RestOf ==
    ASSUME IntakeInv, NEW w \in Worker,
           NEW pc \in Steps \ {"list", "write", "publish"},
           worker' = [worker EXCEPT ![w] = [AtRest EXCEPT !.pc = pc]],
           UNCHANGED <<disk, through, windows, crossed, day>>
    PROVE  IntakeInv'
<1> DEFINE c == [AtRest EXCEPT !.pc = pc]
<1>1. PICK T : c \in Local(T) /\ Rests(c) /\ c.parsed = {}
  BY RestAt
<1>2. worker' = [worker EXCEPT ![w] = c]
  OBVIOUS
<1> HIDE DEF c
<1> QED
  BY <1>1, <1>2, RestStep

LEMMA StartStep ==
    ASSUME IntakeInv, NEW w \in Worker, NEW command, StartCommand(w, command)
    PROVE  IntakeInv'
<1> DEFINE todo == IF command = "local" THEN {}
                   ELSE UNION {ListedIn(command, place) \X {place} : place \in Places}
           c == [AtRest EXCEPT !.pc = "open", !.command = command, !.due = Due(command), !.todo = todo]
<1>1. UNCHANGED <<disk, through, windows, crossed, day>>
  BY DEF StartCommand
<1>2. CASE command = "consolidate"
  <2>1. worker' = [worker EXCEPT ![w] = [AtRest EXCEPT !.pc = "batch"]]
    BY <1>2 DEF StartCommand
  <2>2. "batch" \in Steps \ {"list", "write", "publish"}
    BY DEF Steps
  <2> QED
    BY <1>1, <2>1, <2>2, RestOf
<1>3. CASE command # "consolidate"
  <2>1. worker' = [worker EXCEPT ![w] = c]
    BY <1>3 DEF StartCommand
  <2> DEFINE due == Due(command)
             T == {command, due, todo, "live", "consolidate", {}}
  <2>2. "open" \in Steps \ {"list", "write", "publish"}
    BY DEF Steps
  <2>3. c = [AtRest EXCEPT !.pc = "open", !.command = command, !.due = due, !.todo = todo]
    OBVIOUS
  <2> HIDE DEF todo, due, c
  <2>4. c \in Local(T) /\ Rests(c) /\ c.parsed = {}
    BY <2>2, <2>3, RestState
  <2> HIDE DEF T
  <2> QED
    BY <1>1, <2>1, <2>4, RestStep
<1> QED
  BY <1>2, <1>3

LEMMA RestingSteps ==
    ASSUME IntakeInv, NEW w \in Worker,
           LockIsHeld(w) \/ EndCommand(w) \/ Lag(w) \/ AbandonBatch(w) \/ KillWorker(w)
    PROVE  IntakeInv'
<1>1. UNCHANGED <<disk, through, windows, crossed, day>>
  BY DEF LockIsHeld, EndCommand, Lag, AbandonBatch, KillWorker
<1>2. AtRest = [AtRest EXCEPT !.pc = "idle"]
  BY DEF AtRest
<1>3. PICK pc \in {"idle", "lag", "batch"} : worker' = [worker EXCEPT ![w] = [AtRest EXCEPT !.pc = pc]]
  <2>1. CASE LockIsHeld(w) \/ EndCommand(w)
    BY <2>1 DEF LockIsHeld, EndCommand, AfterCommand
  <2>2. CASE Lag(w)
    BY <2>2 DEF Lag
  <2>3. CASE AbandonBatch(w) \/ KillWorker(w)
    BY <1>2, <2>3 DEF AbandonBatch, KillWorker
  <2> QED
    BY <2>1, <2>2, <2>3
<1> QED
  BY <1>1, <1>3, RestOf DEF Steps

LEMMA ListRootStep ==
    ASSUME IntakeInv, NEW w \in Worker, ListRoot(w)
    PROVE  IntakeInv'
<1>1. PICK S : TypedIn(S)
  BY DEF IntakeInv, Typed
<1> DEFINE todo == ListedIn("local", worker[w].place) \X {worker[w].place}
           due == worker[w].due \ PassedOver(Unlistable(worker[w].place))
           T == S \cup {todo, due}
<1>2. Local(S) \subseteq Local(T) /\ todo \in T /\ due \in T
  BY Widen
<1>3. worker[w] \in Local(S) /\ worker[w].pc = "list"
      /\ worker' = [worker EXCEPT ![w].pc = "write", ![w].todo = todo, ![w].due = due]
  BY <1>1 DEF TypedIn, ListRoot, Does
<1> HIDE DEF todo, due, T
<1>4. worker' \in [Worker -> Local(T)] /\ \A v \in Worker \ {w} : worker'[v] = worker[v]
  BY <1>1, <1>2, <1>3 DEF TypedIn, Local, Steps
<1>5. Keeps(worker'[w], worker[w]) /\ worker'[w].parsed = worker[w].parsed
  BY <1>1, <1>3 DEF TypedIn, Local, Keeps, Holding
<1> QED
  BY <1>4, <1>5, OneQuiet DEF ListRoot, IntakeInv, InvOf

LEMMA NextRootStep ==
    ASSUME IntakeInv, NEW w \in Worker, NextRoot(w)
    PROVE  IntakeInv'
<1>1. PICK S : TypedIn(S)
  BY DEF IntakeInv, Typed
<1> DEFINE T == S \cup {"archive"}
<1>2. Local(S) \subseteq Local(T) /\ "archive" \in T
  BY Widen
<1>3. worker[w] \in Local(S) /\ worker[w].pc = "write"
      /\ worker' = [worker EXCEPT ![w].pc = "list", ![w].place = "archive"]
  BY <1>1 DEF TypedIn, NextRoot, Does
<1> HIDE DEF T
<1>4. worker' \in [Worker -> Local(T)] /\ \A v \in Worker \ {w} : worker'[v] = worker[v]
  BY <1>1, <1>2, <1>3 DEF TypedIn, Local, Steps
<1>5. Keeps(worker'[w], worker[w]) /\ worker'[w].parsed = worker[w].parsed
  BY <1>1, <1>3 DEF TypedIn, Local, Keeps, Holding
<1> QED
  BY <1>4, <1>5, OneQuiet DEF NextRoot, IntakeInv, InvOf

LEMMA ReadFileStep ==
    ASSUME IntakeInv, NEW w \in Worker, NEW item, ReadFile(w, item)
    PROVE  IntakeInv'
<1>1. PICK S : TypedIn(S)
  BY DEF IntakeInv, Typed
<1>2. PICK todo, due, parsed :
        /\ worker' = [worker EXCEPT ![w].todo = todo, ![w].due = due, ![w].parsed = parsed]
        /\ \A f \in parsed : f \in worker[w].parsed \/ IsFile(f)
  <2>1. CASE worker' = [worker EXCEPT ![w].todo = @ \ {item}]
    <3>1. worker' = [worker EXCEPT ![w].todo = @ \ {item}, ![w].due = worker[w].due,
                                   ![w].parsed = worker[w].parsed]
      BY <1>1, <2>1 DEF TypedIn, Local
    <3> QED
      BY <3>1
  <2>2. ASSUME NEW events, NEW lost,
               worker' = [worker EXCEPT
                   ![w].todo = @ \ {item},
                   ![w].due = @ \ lost,
                   ![w].parsed = @ \cup {[day |-> day, begun |-> FALSE, events |-> events]}]
        PROVE  \E todo, due, parsed :
                  /\ worker' = [worker EXCEPT ![w].todo = todo, ![w].due = due, ![w].parsed = parsed]
                  /\ \A f \in parsed : f \in worker[w].parsed \/ IsFile(f)
    <3> DEFINE parsed == worker[w].parsed \cup {[day |-> day, begun |-> FALSE, events |-> events]}
               due == worker[w].due \ lost
    <3>1. worker' = [worker EXCEPT ![w].todo = worker[w].todo \ {item}, ![w].due = due,
                                   ![w].parsed = parsed]
      BY <1>1, <2>2 DEF TypedIn, Local
    <3>2. IsFile([day |-> day, begun |-> FALSE, events |-> events])
      BY <1>1 DEF IsFile, TypedIn
    <3>3. \A f \in parsed : f \in worker[w].parsed \/ IsFile(f)
      BY <3>2
    <3> HIDE DEF parsed, due
    <3> QED
      BY <3>1, <3>3
  <2> QED
    BY <2>1, <2>2 DEF ReadFile
<1> DEFINE T == S \cup {todo, due, parsed}
<1>3. Local(S) \subseteq Local(T) /\ todo \in T /\ due \in T /\ parsed \in T
  BY Widen
<1> HIDE DEF T
<1>4. worker' \in [Worker -> Local(T)] /\ \A v \in Worker \ {w} : worker'[v] = worker[v]
  BY <1>1, <1>2, <1>3 DEF TypedIn, Local
<1>5. Keeps(worker'[w], worker[w]) /\ worker'[w].parsed = parsed
  BY <1>1, <1>2 DEF TypedIn, Local, Keeps
<1>6. \A f \in worker'[w].parsed : IsFile(f)
  BY <1>1, <1>2, <1>5 DEF IntakeInv, InvOf
<1> QED
  BY <1>4, <1>5, <1>6, OneQuiet DEF ReadFile

-----------------------------------------------------------------------------
(* The lock is taken. *)

LEMMA DiskTypes ==
    ASSUME NEW S, TypedIn(S)
    PROVE  OnDisk \subseteq Recs(S)
<1>1. ASSUME NEW r \in OnDisk
      PROVE  r \in Recs(S)
  <2>1. PICK d \in Days : \E k \in DOMAIN disk[d] : r = disk[d][k]
    BY DEF OnDisk
  <2>2. PICK k \in DOMAIN disk[d] : r = disk[d][k]
    BY <2>1
  <2>3. disk[d] \in Seq(Recs(S))
    BY DEF TypedIn
  <2>4. k \in 1..Len(disk[d])
    BY <2>3, LenProperties
  <2> QED
    BY <2>2, <2>3, <2>4, ElementOfSeq
<1> QED
  BY <1>1

LEMMA BufferTypes ==
    ASSUME NEW S, NEW c \in Local(S)
    PROVE  Buffered(c) \subseteq Recs(S)
<1>1. ASSUME NEW r \in Buffered(c)
      PROVE  r \in Recs(S)
  <2>1. PICK d \in Days : \E k \in DOMAIN c.buffer[d] : r = c.buffer[d][k]
    BY DEF Buffered, RecordsIn
  <2>2. PICK k \in DOMAIN c.buffer[d] : r = c.buffer[d][k]
    BY <2>1
  <2>3. c.buffer[d] \in Seq(Recs(S))
    BY DEF Local
  <2>4. k \in 1..Len(c.buffer[d])
    BY <2>3, LenProperties
  <2> QED
    BY <2>2, <2>3, <2>4, ElementOfSeq
<1> QED
  BY <1>1

(* max_seq_in finds the largest number. *)
LEMMA LargestNumber ==
    ASSUME IntakeInv
    PROVE  LastSeq \in Nat /\ \A r \in OnDisk : r.seq <= LastSeq
<1>1. PICK S : TypedIn(S)
  BY DEF IntakeInv, Typed
<1>2. \A r \in OnDisk : r.seq \in Nat
  BY <1>1, DiskTypes DEF Recs
<1>3. LastSeq \in {0} \cup {r.seq : r \in OnDisk} /\ \A r \in OnDisk : r.seq <= LastSeq
  BY DEF IntakeInv, Largest, LastSeq
<1> QED
  BY <1>2, <1>3

(* The others keep their part of the invariant when w takes a step. *)
LEMMA OthersStep ==
    ASSUME IntakeInv, NEW w \in Worker,
           \A v \in Worker \ {w} : worker'[v] = worker[v],
           OnDisk \subseteq OnDisk', disk' = disk \/ Holds(w),
           NEW v \in Worker \ {w}
    PROVE  InvOf(worker[v])'
<1>1. InvOf(worker[v]) /\ worker'[v] = worker[v]
  BY DEF IntakeInv
<1>2. CASE worker[v].pc \in Holding
  <2>1. Holds(v)
    BY <1>2 DEF Holds, Holding
  <2>2. disk' = disk
    BY <2>1 DEF IntakeInv, Lone
  <2>3. OnDisk' = OnDisk
    BY <2>2 DEF OnDisk
  <2>4. Known(worker[v])' /\ Rising(worker[v])'
    BY <1>1, <1>2, <2>2, <2>3 DEF InvOf, Known, Rising, Buffered
  <2> QED
    BY <1>1, <1>2, <2>4 DEF InvOf, Holding
<1>3. CASE worker[v].pc \notin Holding
  <2>1. Read(worker[v]) => Read(worker[v])'
    BY <1>1 DEF Read
  <2> QED
    BY <1>1, <1>3, <2>1 DEF InvOf, Empty
<1> QED
  BY <1>2, <1>3

LEMMA OpenWriterStep ==
    ASSUME IntakeInv, NEW w \in Worker, OpenWriter(w)
    PROVE  IntakeInv'
<1>1. PICK S : TypedIn(S)
  BY DEF IntakeInv, Typed
<1> DEFINE ids == {r.id : r \in OnDisk}
           b == worker[w]
           c == worker'[w]
<1>2. PICK T : S \subseteq T /\ ids \in T
  <2>1. S \subseteq S \cup {ids} /\ ids \in S \cup {ids}
    OBVIOUS
  <2> QED
    BY <2>1
<1>3. UNCHANGED <<day, disk, through, windows, crossed>> /\ OnDisk' = OnDisk
  <2>1. UNCHANGED <<day, disk, through, windows, crossed>>
    BY DEF OpenWriter
  <2> QED
    BY <2>1 DEF OnDisk
<1>4. LastSeq \in Nat /\ \A r \in OnDisk : r.seq <= LastSeq
  BY LargestNumber
<1>5. worker \in [Worker -> Local(T)] /\ disk \in [Days -> Seq(Recs(T))] /\ windows \in Seq(T)
  BY <1>1, <1>2, Widen DEF TypedIn
<1>6. PICK pc \in {"list", "write"} :
         worker' = [worker EXCEPT ![w].pc = pc, ![w].seen = ids, ![w].next = LastSeq + 1]
  BY DEF OpenWriter
<1> HIDE DEF ids
<1> DEFINE last == LastSeq + 1
<1>6a. last \in Nat /\ pc \in Steps
  BY <1>4 DEF Steps
<1>6b. b \in Local(T) /\ c = [b EXCEPT !.pc = pc, !.seen = ids, !.next = last]
  BY <1>5, <1>6
<1>7. /\ c.pc = pc /\ c.seen = ids /\ c.next = LastSeq + 1
      /\ c.buffer = b.buffer /\ c.days = b.days /\ c.parsed = b.parsed
      /\ c \in Local(T)
  <2> HIDE DEF c, b, last
  <2>1. c.pc = pc /\ c.seen = ids /\ c.next = last
        /\ c.buffer = b.buffer /\ c.days = b.days /\ c.parsed = b.parsed
    BY <1>6b DEF Local
  <2>2. c \in Local(T)
    BY <1>2, <1>6a, <1>6b DEF Local
  <2> QED
    BY <2>1, <2>2 DEF last
<1>8. worker' \in [Worker -> Local(T)] /\ \A v \in Worker \ {w} : worker'[v] = worker[v]
  BY <1>5, <1>6, <1>7
<1>9. Typed'
  <2>1. TypedIn(T)'
    BY <1>1, <1>3, <1>5, <1>8 DEF TypedIn
  <2> QED
    BY <2>1 DEF Typed
<1>10. InvOf(b) /\ b.pc \notin Holding /\ \A v \in Worker : ~Holds(v)
  BY DEF IntakeInv, OpenWriter, Does, Holding
<1>11. c.buffer = Empty /\ c.days = {} /\ Buffered(c) = {}
  <2>1. c.buffer = Empty /\ c.days = {}
    BY <1>7, <1>10 DEF InvOf
  <2> QED
    BY <2>1 DEF Buffered, RecordsIn, Empty
<1>12. InvOf(worker[w])'
  <2>1. Known(worker[w])'
    BY <1>1, <1>3, <1>4, <1>7, <1>11, DiskTypes DEF Known, Buffered, IntakeInv, Recs, ids
  <2>2. Rising(worker[w])'
    BY <1>11 DEF Rising, Empty
  <2> QED
    BY <1>7, <1>10, <2>1, <2>2 DEF InvOf, Holding
<1>13. \A v \in Worker : InvOf(worker[v])'
  BY <1>3, <1>8, <1>12, OthersStep
<1>14. Lone'
  BY <1>8, <1>10 DEF Lone, Holds
<1>15. Past' /\ EachBatchOnce' /\ OneEach(OnDisk)' /\ Largest' /\ PassedIsCovered'
  BY <1>3 DEF IntakeInv, Past, EachBatchOnce, Largest, Covered, PassedIsCovered
<1>16. ASSUME ~crossed', NEW v \in Worker
       PROVE  /\ Does(v, "publish")' => ~Lacks(worker[v])'
              /\ Holds(v)' => \A r \in Buffered(worker[v])' : Later(r)'
  <2>1. Does(v, "publish")' => ~Lacks(worker[v])'
    BY <1>3, <1>7, <1>8, <1>16 DEF IntakeInv, Covered, Does, Lacks
  <2>2. Holds(v)' => v = w
    BY <1>8, <1>10 DEF Holds
  <2>3. Buffered(worker[w])' = {}
    BY <1>11 DEF Buffered
  <2> QED
    BY <2>1, <2>2, <2>3
<1> QED
  BY <1>9, <1>13, <1>14, <1>15, <1>16 DEF IntakeInv, Covered

-----------------------------------------------------------------------------
(* An event is appended. *)

(* What BulkWriter::append does to the process, when the id is new. *)
Appends(b, c, d, r) ==
    /\ c.pc = b.pc /\ c.seen = b.seen \cup {r.id} /\ c.next = b.next + 1
    /\ c.days = b.days \cup {d}
    /\ c.buffer = [b.buffer EXCEPT ![d] = Append(@, r)]
    /\ r.seq = b.next /\ r.id \notin b.seen

LEMMA AppendedStep ==
    ASSUME IntakeInv, NEW w \in Worker, Does(w, "write"),
           NEW T, TypedIn(T), NEW c \in Local(T), NEW d \in Days, NEW r \in Recs(T),
           Appends(worker[w], c, d, r), \A f \in c.parsed : IsFile(f),
           worker' = [worker EXCEPT ![w] = c],
           UNCHANGED <<disk, through, windows, crossed, day>>
    PROVE  IntakeInv'
<1> DEFINE b == worker[w]
<1>1. worker'[w] = c /\ \A v \in Worker \ {w} : worker'[v] = worker[v]
  BY DEF TypedIn
<1>2. OnDisk' = OnDisk
  BY DEF OnDisk
<1>3. Typed'
  <2>1. TypedIn(T)'
    BY DEF TypedIn
  <2> QED
    BY <2>1 DEF Typed
<1>4. Known(b) /\ Rising(b) /\ Holds(w)
  BY DEF IntakeInv, InvOf, Does, Holding, Holds
<1>5. b \in Local(T) /\ b.buffer \in [Days -> Seq(Recs(T))] /\ c.buffer \in [Days -> Seq(Recs(T))]
  BY DEF TypedIn, Local
<1> DEFINE n == Len(b.buffer[d]) + 1
<1>6. /\ \A x \in Days \ {d} : c.buffer[x] = b.buffer[x]
      /\ DOMAIN c.buffer[d] = DOMAIN b.buffer[d] \cup {n}
      /\ n \notin DOMAIN b.buffer[d]
      /\ \A i \in DOMAIN b.buffer[d] : i < n /\ c.buffer[d][i] = b.buffer[d][i]
      /\ c.buffer[d][n] = r
      /\ Buffered(c) = Buffered(b) \cup {r}
  <2>1. c.buffer = [b.buffer EXCEPT ![d] = Append(@, r)]
    BY DEF Appends
  <2> DEFINE f == b.buffer
             g == c.buffer
             R == Recs(T)
  <2>2. f \in Files(R) /\ g \in Files(R) /\ r \in R
        /\ g[d] = Append(f[d], r) /\ \A x \in Days \ {d} : g[x] = f[x]
    BY <1>5, <2>1 DEF Files
  <2> HIDE DEF f, g, R
  <2>3. /\ DOMAIN g[d] = DOMAIN f[d] \cup {Len(f[d]) + 1}
        /\ Len(f[d]) + 1 \notin DOMAIN f[d]
        /\ \A i \in DOMAIN f[d] : i < Len(f[d]) + 1 /\ g[d][i] = f[d][i]
        /\ g[d][Len(f[d]) + 1] = r
        /\ RecordsIn(g) = RecordsIn(f) \cup {r}
    BY <2>2, Appending
  <2> QED
    BY <2>2, <2>3 DEF f, g, Buffered
<1>7. OnDisk \cup Buffered(b) \subseteq Recs(T) /\ r \in Recs(T) /\ b.next \in Nat /\ b.days \subseteq Days
  BY <1>5, DiskTypes, BufferTypes DEF Local
<1>8. \A s \in OnDisk \cup Buffered(b) : s.seq < r.seq /\ s.id # r.id
  BY <1>4, <1>7 DEF Known, Appends
<1>9. Known(worker[w])'
  <2>1. OneEach(OnDisk \cup Buffered(c))
    BY <1>4, <1>6, <1>7, <1>8 DEF Known, OneEach, Recs
  <2>2. \A s \in OnDisk \cup Buffered(c) : s.id \in c.seen /\ s.seq < c.next
    BY <1>4, <1>6, <1>7 DEF Known, Appends, Recs
  <2>3. c.next > 0
    BY <1>7 DEF Appends
  <2> QED
    BY <1>1, <1>2, <2>1, <2>2, <2>3 DEF Known, Buffered
<1>10. \A x \in Days : \A i \in DOMAIN b.buffer[x] : b.buffer[x][i] \in Buffered(b)
  BY Records DEF Buffered
<1>11. \A x \in Days : \A i \in DOMAIN disk[x] : disk[x][i] \in OnDisk
  BY Records, DiskRecords
<1>12. Rising(worker[w])'
  <2>1. ASSUME NEW x \in Days, c.buffer[x] # <<>>
        PROVE  x \in c.days
    BY <1>4, <1>6, <2>1 DEF Rising, Appends
  <2>2. ASSUME NEW x \in Days, NEW i \in DOMAIN c.buffer[x], NEW j \in DOMAIN c.buffer[x], i < j
        PROVE  c.buffer[x][i].seq < c.buffer[x][j].seq
    <3>1. CASE x # d
      BY <1>4, <1>6, <2>2, <3>1 DEF Rising
    <3>2. CASE x = d /\ j \in DOMAIN b.buffer[d]
      <4>1. i \in DOMAIN b.buffer[d]
        <5>1. j < n /\ j \in Nat /\ n \in Nat
          BY <1>5, <1>6, <3>2, LenProperties
        <5> QED
          BY <1>6, <2>2, <3>2, <5>1
      <4> QED
        BY <1>4, <1>6, <2>2, <3>2, <4>1 DEF Rising
    <3>3. CASE x = d /\ j = n
      <4>1. i # n
        BY <1>5, <2>2, <3>3, LenProperties
      <4>2. i \in DOMAIN b.buffer[d]
        BY <1>6, <2>2, <3>3, <4>1
      <4>3. c.buffer[x][i] \in Buffered(b) /\ c.buffer[x][j] = r
        BY <1>6, <1>10, <3>3, <4>2
      <4> QED
        BY <1>8, <4>3
    <3> QED
      BY <1>6, <2>2, <3>1, <3>2, <3>3
  <2>3. ASSUME NEW x \in Days, NEW y \in Days, NEW i \in DOMAIN disk[x], NEW j \in DOMAIN c.buffer[y]
        PROVE  disk[x][i].seq < c.buffer[y][j].seq \/ (x # y /\ x \in c.days)
    <3>1. CASE y = d /\ j = n
      BY <1>6, <1>8, <1>11, <3>1
    <3>2. CASE y # d \/ j # n
      <4>1. j \in DOMAIN b.buffer[y] /\ c.buffer[y][j] = b.buffer[y][j]
        <5>1. CASE y = d
          BY <1>6, <2>3, <3>2, <5>1
        <5>2. CASE y # d
          BY <1>6, <2>3, <5>2
        <5> QED
          BY <5>1, <5>2
      <4>2. disk[x][i].seq < b.buffer[y][j].seq \/ (x # y /\ x \in b.days)
        BY <1>4, <4>1 DEF Rising
      <4> QED
        BY <4>1, <4>2 DEF Appends
    <3> QED
      BY <3>1, <3>2
  <2> QED
    BY <1>1, <2>1, <2>2, <2>3 DEF Rising
<1>13. c.pc = "write" /\ InvOf(worker[w])'
  <2>1. c.pc = "write"
    BY DEF Appends, Does
  <2> QED
    BY <1>1, <1>9, <1>12, <2>1 DEF InvOf, Holding
<1>14. \A v \in Worker : InvOf(worker[v])'
  BY <1>1, <1>2, <1>13, OthersStep
<1>15. \A v \in Worker : Holds(v)' <=> Holds(v)
  BY <1>1, <1>13 DEF Holds, Does
<1>16. \A v \in Worker : Does(v, "publish")' => Does(v, "publish") /\ worker'[v] = worker[v]
  BY <1>1, <1>13 DEF Does
<1>17. Past' /\ EachBatchOnce' /\ OneEach(OnDisk)' /\ Largest' /\ PassedIsCovered'
  BY <1>2 DEF IntakeInv, Past, EachBatchOnce, Largest, Covered, PassedIsCovered
<1>18. Later(r)'
  <2>1. r.seq > through
    <3>1. r.seq \in Nat \ {0} /\ through \in Nat
      BY DEF Recs, TypedIn
    <3> QED
      BY <1>7, <1>8, <3>1 DEF IntakeInv, Past, Recs
  <2>2. ASSUME NEW v \in Worker, Does(v, "publish")
        PROVE  r.seq > worker[v].end
    <3>1. PICK s \in OnDisk : s.seq = worker[v].end
      BY <2>2 DEF IntakeInv, InvOf, Does, Read
    <3>2. s.seq \in Nat /\ r.seq \in Nat /\ s.seq < r.seq
      BY <1>7, <1>8 DEF Recs
    <3> QED
      BY <3>1, <3>2
  <2> QED
    BY <1>16, <2>1, <2>2 DEF Later
<1>19. ASSUME ~crossed', NEW v \in Worker
       PROVE  /\ Does(v, "publish")' => ~Lacks(worker[v])'
              /\ Holds(v)' => \A s \in Buffered(worker[v])' : Later(s)'
  <2>1. Does(v, "publish")' => ~Lacks(worker[v])'
    BY <1>2, <1>16, <1>19 DEF IntakeInv, Covered, Lacks
  <2>2. ASSUME Holds(v)', NEW s \in Buffered(worker[v])'
        PROVE  Later(s)'
    <3>1. v = w
      BY <1>4, <1>15, <2>2 DEF IntakeInv, Lone
    <3>2. s \in Buffered(b) \/ s = r
      BY <1>1, <1>6, <2>2, <3>1 DEF Buffered
    <3>3. Later(s) => Later(s)'
      BY <1>16 DEF Later
    <3>4. \A q \in Buffered(b) : Later(q)
      BY <1>4, <1>19 DEF IntakeInv, Covered
    <3> QED
      BY <1>18, <3>2, <3>3, <3>4
  <2> QED
    BY <2>1, <2>2
<1>20. Lone'
  BY <1>15 DEF IntakeInv, Lone
<1> QED
  BY <1>3, <1>14, <1>17, <1>19, <1>20 DEF IntakeInv, Covered

LEMMA AppendEventStep ==
    ASSUME IntakeInv, NEW w \in Worker, NEW file, AppendEvent(w, file)
    PROVE  IntakeInv'
<1>1. PICK S : TypedIn(S)
  BY DEF IntakeInv, Typed
<1>2. UNCHANGED <<disk, through, windows, crossed, day>>
      /\ file \in worker[w].parsed /\ IsFile(file) /\ Does(w, "write")
  BY DEF AppendEvent, IntakeInv, InvOf
<1> DEFINE b == worker[w]
<1>3. CASE worker' = [worker EXCEPT ![w].parsed = @ \ {file}]
  <2> DEFINE parsed == b.parsed \ {file}
  <2>1. PICK T : S \subseteq T /\ parsed \in T
    <3>1. S \subseteq S \cup {parsed} /\ parsed \in S \cup {parsed}
      OBVIOUS
    <3> QED
      BY <3>1
  <2>2. worker' = [worker EXCEPT ![w].parsed = parsed]
    BY <1>3
  <2>3. worker \in [Worker -> Local(T)]
    BY <1>1, <2>1, Widen DEF TypedIn
  <2>4. \A f \in parsed : IsFile(f)
    BY DEF IntakeInv, InvOf
  <2> HIDE DEF parsed
  <2>5. /\ worker' \in [Worker -> Local(T)]
        /\ \A v \in Worker \ {w} : worker'[v] = worker[v]
        /\ Keeps(worker'[w], worker[w]) /\ worker'[w].parsed = parsed
    BY <2>1, <2>2, <2>3 DEF Local, Keeps
  <2> QED
    BY <1>2, <2>4, <2>5, OneQuiet
<1>4. ASSUME NEW k \in NewEvents(b.seen, file.events), NEW parsed,
             \A f \in parsed : f \in b.parsed \/ IsFile(f),
             worker' = [worker EXCEPT
                 ![w].parsed = parsed,
                 ![w].seen = b.seen \cup {file.events[k].id},
                 ![w].next = @ + 1,
                 ![w].days = @ \cup {file.day},
                 ![w].buffer[file.day] =
                     Append(@, [seq |-> b.next, id |-> file.events[k].id,
                                msg |-> file.events[k].msg, project |-> file.events[k].project])]
      PROVE  IntakeInv'
  <2> DEFINE e == file.events[k]
             seen == b.seen \cup {e.id}
             r == [seq |-> b.next, id |-> e.id, msg |-> e.msg, project |-> e.project]
             d == file.day
             c == [b EXCEPT !.parsed = parsed, !.seen = seen, !.next = b.next + 1,
                            !.days = b.days \cup {d},
                            !.buffer = [b.buffer EXCEPT ![d] = Append(@, r)]]
  <2>1. PICK T : S \subseteq T /\ {parsed, seen, e.id, e.msg, e.project} \subseteq T
    <3> DEFINE U == S \cup {parsed, seen, e.id, e.msg, e.project}
    <3>1. S \subseteq U /\ {parsed, seen, e.id, e.msg, e.project} \subseteq U
      OBVIOUS
    <3> HIDE DEF U
    <3> QED
      BY <3>1
  <2>2. TypedIn(T)
    BY <1>1, <2>1, Widen DEF TypedIn
  <2>3. b \in Local(T) /\ b.next \in Nat \ {0} /\ d \in Days
    <3>1. b \in Local(T) /\ d \in Days
      BY <1>2, <2>2 DEF TypedIn, IsFile
    <3>2. b.next > 0
      BY <1>2 DEF IntakeInv, InvOf, Known, Does, Holding
    <3>3. b.next \in Nat
      BY <3>1 DEF Local
    <3> QED
      BY <3>1, <3>2, <3>3
  <2>4. r \in Recs(T)
    BY <2>1, <2>3 DEF Recs
  <2>5. worker' = [worker EXCEPT ![w] = c]
    BY <1>1, <1>4, <2>3 DEF TypedIn, Local
  <2>6. e.id \notin b.seen
    BY DEF NewEvents
  <2>7. r.seq = b.next /\ r.id = e.id
    OBVIOUS
  <2> HIDE DEF r, e
  <2>8. [b.buffer EXCEPT ![d] = Append(@, r)] \in [Days -> Seq(Recs(T))]
    BY <2>3, <2>4 DEF Local
  <2>9. c \in Local(T) /\ Appends(b, c, d, r) /\ c.parsed = parsed
    <3> DEFINE buffer == [b.buffer EXCEPT ![d] = Append(@, r)]
               days == b.days \cup {d}
               next == b.next + 1
    <3>1. buffer \in [Days -> Seq(Recs(T))] /\ days \in SUBSET Days /\ next \in Nat
          /\ seen \in T /\ parsed \in T
      BY <2>1, <2>3, <2>8 DEF Local
    <3>2. c = [b EXCEPT !.parsed = parsed, !.seen = seen, !.next = next, !.days = days, !.buffer = buffer]
      OBVIOUS
    <3>3. seen = b.seen \cup {r.id}
      BY <2>7
    <3>4. b \in Local(T)
      BY <2>3
    <3> HIDE DEF buffer, days, next, seen, c, b
    <3>5. c.pc = b.pc /\ c.parsed = parsed /\ c.seen = seen /\ c.next = next
          /\ c.days = days /\ c.buffer = buffer
      BY <3>2, <3>4 DEF Local
    <3>6. c \in Local(T)
      BY <3>1, <3>2, <3>4 DEF Local
    <3> QED
      BY <2>6, <2>7, <3>3, <3>5, <3>6 DEF Appends, buffer, days, next
  <2>10. \A f \in parsed : IsFile(f)
    BY <1>2, <1>4 DEF IntakeInv, InvOf
  <2> HIDE DEF c, d
  <2> QED
    BY <1>2, <2>2, <2>3, <2>4, <2>5, <2>9, <2>10, AppendedStep
<1>5. QED
  <2>1. CASE NewEvents(b.seen, file.events) = {}
    BY <1>3, <2>1 DEF AppendEvent
  <2>2. CASE NewEvents(b.seen, file.events) # {}
    <3>1. PICK k \in NewEvents(b.seen, file.events) :
            LET e == file.events[k]
                seen == b.seen \cup {e.id}
                left == IF NewEvents(seen, file.events) = {} THEN {}
                        ELSE {[file EXCEPT !.begun = TRUE]}
            IN  worker' = [worker EXCEPT
                   ![w].parsed = (@ \ {file}) \cup left,
                   ![w].seen = seen,
                   ![w].next = @ + 1,
                   ![w].days = @ \cup {file.day},
                   ![w].buffer[file.day] =
                       Append(@, [seq |-> b.next, id |-> e.id,
                                  msg |-> e.msg, project |-> e.project])]
      BY <2>2 DEF AppendEvent
    <3> DEFINE seen == b.seen \cup {file.events[k].id}
               left == IF NewEvents(seen, file.events) = {} THEN {}
                       ELSE {[file EXCEPT !.begun = TRUE]}
               parsed == (b.parsed \ {file}) \cup left
    <3>2. \A f \in parsed : f \in b.parsed \/ IsFile(f)
      <4>1. IsFile([file EXCEPT !.begun = TRUE])
        BY <1>2 DEF IsFile
      <4> QED
        BY <4>1
    <3>3. worker' = [worker EXCEPT
                 ![w].parsed = parsed,
                 ![w].seen = b.seen \cup {file.events[k].id},
                 ![w].next = @ + 1,
                 ![w].days = @ \cup {file.day},
                 ![w].buffer[file.day] =
                     Append(@, [seq |-> b.next, id |-> file.events[k].id,
                                msg |-> file.events[k].msg, project |-> file.events[k].project])]
      BY <3>1
    <3> HIDE DEF parsed
    <3> QED
      BY <1>4, <3>2, <3>3
  <2> QED
    BY <2>1, <2>2

-----------------------------------------------------------------------------
(* A buffer, or a part of it, is written to its file. *)

Flushed(S, f, p, k, g, q) ==
    /\ g \in Seq(S) /\ q \in Seq(S)
    /\ \A i \in DOMAIN g : \/ i \in DOMAIN f /\ g[i] = f[i]
                           \/ \E j \in DOMAIN p : j <= k /\ g[i] = p[j]
    /\ \A i \in DOMAIN f : i \in DOMAIN g /\ g[i] = f[i]
    /\ \E i \in DOMAIN g : g[i] = p[k]
    /\ \A j \in DOMAIN q : k + j \in DOMAIN p /\ k + j > k /\ q[j] = p[k + j]
    /\ \A j \in DOMAIN p : (\E i \in DOMAIN g : g[i] = p[j]) \/ (\E i \in DOMAIN q : q[i] = p[j])

LEMMA Flushing ==
    ASSUME NEW S, NEW f \in Seq(S), NEW p \in Seq(S), NEW k \in DOMAIN p
    PROVE  Flushed(S, f, p, k, f \o SubSeq(p, 1, k), SubSeq(p, k + 1, Len(p)))
<1> DEFINE q == SubSeq(p, k + 1, Len(p))
           m == SubSeq(p, 1, k)
           g == f \o m
<1>1. /\ Len(f) \in Nat /\ DOMAIN f = 1..Len(f)
      /\ Len(p) \in Nat /\ DOMAIN p = 1..Len(p) /\ k \in 1..Len(p)
      /\ \A i \in 1..Len(p) : p[i] \in S
  BY LenProperties, ElementOfSeq
<1>2. m \in Seq(S) /\ Len(m) = k /\ \A i \in 1..k : m[i] = p[i]
  BY <1>1, SubSeqProperties
<1>3. q \in Seq(S) /\ Len(q) = Len(p) - k /\ \A i \in 1..(Len(p) - k) : q[i] = p[k + i]
  <2>1. \A i \in (k + 1)..Len(p) : p[i] \in S
    BY <1>1
  <2>2. k + 1 \in Int /\ Len(p) \in Int
    BY <1>1
  <2>3. /\ SubSeq(p, k + 1, Len(p)) \in Seq(S)
        /\ Len(SubSeq(p, k + 1, Len(p))) = IF k + 1 <= Len(p) THEN Len(p) - (k + 1) + 1 ELSE 0
        /\ \A i \in 1..(Len(p) - (k + 1) + 1) : SubSeq(p, k + 1, Len(p))[i] = p[(k + 1) + i - 1]
    BY <2>1, <2>2, SubSeqProperties
  <2>4. \A i \in 1..(Len(p) - k) : (k + 1) + i - 1 = k + i /\ i \in 1..(Len(p) - (k + 1) + 1)
    BY <1>1
  <2>5. Len(q) = Len(p) - k
    <3>1. Len(q) = IF k + 1 <= Len(p) THEN Len(p) - (k + 1) + 1 ELSE 0
      BY <2>3
    <3>2. Len(p) \in Nat /\ k \in Nat /\ k <= Len(p)
      BY <1>1
    <3> HIDE DEF q
    <3> QED
      BY <3>1, <3>2
  <2>6. q \in Seq(S)
    BY <2>3
  <2>7. \A i \in 1..(Len(p) - k) : q[i] = p[k + i]
    BY <2>3, <2>4
  <2> QED
    BY <2>5, <2>6, <2>7
<1> HIDE DEF m, q
<1>4. f \o m \in Seq(S) /\ Len(f \o m) = Len(f) + Len(m)
      /\ \A i \in 1..(Len(f) + Len(m)) : (f \o m)[i] = IF i <= Len(f) THEN f[i] ELSE m[i - Len(f)]
  BY <1>2, ConcatProperties
<1>5. /\ g \in Seq(S) /\ Len(g) = Len(f) + k
      /\ \A i \in 1..(Len(f) + k) : g[i] = IF i <= Len(f) THEN f[i] ELSE m[i - Len(f)]
  BY <1>2, <1>4
<1> HIDE DEF g
<1>6. DOMAIN g = 1..(Len(f) + k) /\ DOMAIN q = 1..(Len(p) - k)
  BY <1>3, <1>5, LenProperties
<1>7. ASSUME NEW i \in DOMAIN g
      PROVE  \/ i \in DOMAIN f /\ g[i] = f[i]
             \/ \E j \in DOMAIN p : j <= k /\ g[i] = p[j]
  <2>1. CASE i <= Len(f)
    BY <1>1, <1>5, <1>6, <2>1
  <2>2. CASE ~(i <= Len(f))
    <3>1. i - Len(f) \in 1..k /\ i - Len(f) \in DOMAIN p
      BY <1>1, <1>6, <2>2
    <3>2. g[i] = p[i - Len(f)]
      BY <1>2, <1>5, <1>6, <2>2, <3>1
    <3> QED
      BY <3>1, <3>2
  <2> QED
    BY <2>1, <2>2
<1>8. \A i \in DOMAIN f : i \in DOMAIN g /\ g[i] = f[i]
  BY <1>1, <1>5, <1>6
<1>9. \E i \in DOMAIN g : g[i] = p[k]
  <2>1. Len(f) + k \in DOMAIN g /\ ~(Len(f) + k <= Len(f)) /\ (Len(f) + k) - Len(f) = k
    BY <1>1, <1>6
  <2>2. g[Len(f) + k] = m[k]
    BY <1>1, <1>5, <1>6, <2>1
  <2> QED
    BY <1>1, <1>2, <2>1, <2>2
<1>10. \A j \in DOMAIN q : k + j \in DOMAIN p /\ k + j > k /\ q[j] = p[k + j]
  BY <1>1, <1>3, <1>6
<1>11. ASSUME NEW j \in DOMAIN p
       PROVE  (\E i \in DOMAIN g : g[i] = p[j]) \/ (\E i \in DOMAIN q : q[i] = p[j])
  <2>1. CASE j <= k
    <3>1. Len(f) + j \in DOMAIN g /\ ~(Len(f) + j <= Len(f)) /\ (Len(f) + j) - Len(f) = j /\ j \in 1..k
      BY <1>1, <1>6, <2>1
    <3>2. g[Len(f) + j] = m[j]
      BY <1>1, <1>5, <1>6, <3>1
    <3> QED
      BY <1>2, <3>1, <3>2
  <2>2. CASE ~(j <= k)
    <3>1. j - k \in DOMAIN q /\ k + (j - k) = j
      BY <1>1, <1>6, <2>2
    <3> QED
      BY <1>10, <3>1
  <2> QED
    BY <2>1, <2>2
<1>12. Flushed(S, f, p, k, g, q)
  BY <1>3, <1>5, <1>7, <1>8, <1>9, <1>10, <1>11 DEF Flushed
<1> QED
  BY <1>12 DEF g, q, m

LEMMA WriteBufferStep ==
    ASSUME IntakeInv, NEW w \in Worker, NEW d \in Days, WriteBuffer(w, d)
    PROVE  IntakeInv'
<1>1. PICK S : TypedIn(S)
  BY DEF IntakeInv, Typed
<1> DEFINE b == worker[w]
           c == worker'[w]
           p == b.buffer
           q == c.buffer
<1>2. PICK k \in DOMAIN p[d] :
        /\ disk' = [disk EXCEPT ![d] = @ \o SubSeq(p[d], 1, k)]
        /\ worker' = [worker EXCEPT ![w].buffer[d] = SubSeq(@, k + 1, Len(@))]
  BY DEF WriteBuffer
<1>3. UNCHANGED <<through, windows, crossed, day>> /\ b.pc = "write" /\ p[d] # <<>>
  BY DEF WriteBuffer, Does
<1>4. /\ b \in Local(S) /\ p \in [Days -> Seq(Recs(S))] /\ disk \in [Days -> Seq(Recs(S))]
      /\ p[d] \in Seq(Recs(S)) /\ disk[d] \in Seq(Recs(S))
  BY <1>1 DEF TypedIn, Local
<1> DEFINE g == disk[d] \o SubSeq(p[d], 1, k)
           rest == SubSeq(p[d], k + 1, Len(p[d]))
<1>5. /\ disk'[d] = g /\ \A x \in Days \ {d} : disk'[x] = disk[x]
      /\ c = [b EXCEPT !.buffer = [p EXCEPT ![d] = rest]]
      /\ \A v \in Worker \ {w} : worker'[v] = worker[v]
  BY <1>1, <1>2, <1>4 DEF TypedIn
<1>6. /\ g \in Seq(Recs(S)) /\ rest \in Seq(Recs(S))
      /\ \A i \in DOMAIN g : \/ i \in DOMAIN disk[d] /\ g[i] = disk[d][i]
                             \/ \E j \in DOMAIN p[d] : j <= k /\ g[i] = p[d][j]
      /\ \A i \in DOMAIN disk[d] : i \in DOMAIN g /\ g[i] = disk[d][i]
      /\ \E i \in DOMAIN g : g[i] = p[d][k]
      /\ \A j \in DOMAIN rest : k + j \in DOMAIN p[d] /\ k + j > k /\ rest[j] = p[d][k + j]
  <2> DEFINE R == Recs(S)
             f == disk[d]
             h == p[d]
  <2>1. f \in Seq(R) /\ h \in Seq(R) /\ k \in DOMAIN h
        /\ g = f \o SubSeq(h, 1, k) /\ rest = SubSeq(h, k + 1, Len(h))
    BY <1>4
  <2> HIDE DEF R, f, h, g, rest
  <2>2. /\ g \in Seq(R) /\ rest \in Seq(R)
        /\ \A i \in DOMAIN g : \/ i \in DOMAIN f /\ g[i] = f[i]
                               \/ \E j \in DOMAIN h : j <= k /\ g[i] = h[j]
        /\ \A i \in DOMAIN f : i \in DOMAIN g /\ g[i] = f[i]
        /\ \E i \in DOMAIN g : g[i] = h[k]
        /\ \A j \in DOMAIN rest : k + j \in DOMAIN h /\ k + j > k /\ rest[j] = h[k + j]
    <3>1. Flushed(R, f, h, k, f \o SubSeq(h, 1, k), SubSeq(h, k + 1, Len(h)))
      BY <2>1, Flushing
    <3>2. Flushed(R, f, h, k, g, rest)
      BY <2>1, <3>1
    <3> QED
      BY <3>2 DEF Flushed
  <2> QED
    BY <2>2 DEF R, f, h
<1> HIDE DEF g, rest
<1>7. /\ c.pc = b.pc /\ c.seen = b.seen /\ c.next = b.next /\ c.days = b.days
      /\ c.parsed = b.parsed
      /\ q[d] = rest /\ \A x \in Days \ {d} : q[x] = p[x]
      /\ c \in Local(S)
  <2> DEFINE buffer == [p EXCEPT ![d] = rest]
  <2>1. buffer \in [Days -> Seq(Recs(S))] /\ buffer[d] = rest /\ \A x \in Days \ {d} : buffer[x] = p[x]
    BY <1>4, <1>6
  <2>2. b \in Local(S) /\ c = [b EXCEPT !.buffer = buffer]
    BY <1>4, <1>5
  <2> HIDE DEF buffer
  <2>3. c.buffer = buffer /\ c.pc = b.pc /\ c.seen = b.seen /\ c.next = b.next
        /\ c.days = b.days /\ c.parsed = b.parsed
    BY <2>2 DEF Local
  <2>4. c \in Local(S)
    BY <2>1, <2>2 DEF Local
  <2> QED
    BY <2>1, <2>3, <2>4
<1>8. Typed'
  <2>1. worker' \in [Worker -> Local(S)]
    BY <1>1, <1>2, <1>5, <1>7 DEF TypedIn
  <2>2. disk' \in [Days -> Seq(Recs(S))]
    BY <1>1, <1>2, <1>5, <1>6 DEF TypedIn
  <2>3. TypedIn(S)'
    BY <1>1, <1>3, <2>1, <2>2 DEF TypedIn
  <2> QED
    BY <2>3 DEF Typed
<1> DEFINE Moved == {p[d][j] : j \in {i \in DOMAIN p[d] : i <= k}}
<1> HIDE DEF b, c
<1>9. OnDisk \subseteq OnDisk' /\ p[d][k] \in OnDisk'
  <2>1. ASSUME NEW x \in Days, NEW i \in DOMAIN disk[x]
        PROVE  i \in DOMAIN disk'[x] /\ disk'[x][i] = disk[x][i]
    BY <1>5, <1>6, <2>1
  <2> QED
    BY <1>5, <1>6, <2>1 DEF OnDisk
<1>10. \A x \in Days : \A i \in DOMAIN disk'[x] :
          \/ i \in DOMAIN disk[x] /\ disk'[x][i] = disk[x][i]
          \/ x = d /\ \E j \in DOMAIN p[d] : j <= k /\ disk'[x][i] = p[d][j]
  BY <1>5, <1>6
<1>11. OnDisk' \subseteq OnDisk \cup Moved
  BY <1>10 DEF OnDisk
<1>12. \A x \in Days : \A j \in DOMAIN q[x] :
          \E i \in DOMAIN p[x] : q[x][j] = p[x][i] /\ (x = d => i = k + j /\ i > k)
  BY <1>6, <1>7
<1>13. Buffered(c) \subseteq Buffered(b) /\ Moved \subseteq Buffered(b)
  BY <1>12 DEF Buffered, RecordsIn
<1>14. Known(b) /\ Rising(b) /\ Holds(w)
  BY <1>3 DEF IntakeInv, InvOf, Holding, Holds, b
<1>15. OnDisk \cup Buffered(b) \subseteq Recs(S) /\ Moved \subseteq Recs(S)
  BY <1>1, <1>4, <1>13, DiskTypes, BufferTypes
<1>16. \A r, s : r \in Moved /\ s \in OnDisk => r \in Recs(S) /\ s \in Recs(S)
  BY <1>15
<1>17. \A r \in Moved : r.seq <= p[d][k].seq
  <2>1. ASSUME NEW j \in DOMAIN p[d], j <= k
        PROVE  p[d][j].seq <= p[d][k].seq
    <3>1. p[d][j].seq \in Nat /\ p[d][k].seq \in Nat
      <4>1. p[d][j] \in Recs(S) /\ p[d][k] \in Recs(S)
        BY <1>4, LenProperties, ElementOfSeq
      <4> QED
        BY <4>1 DEF Recs
    <3>2. j = k \/ j < k
      BY <1>4, <2>1, LenProperties
    <3> QED
      BY <1>14, <3>1, <3>2 DEF Rising
  <2> QED
    BY <2>1
<1> HIDE DEF Moved
<1>18. Known(worker[w])'
  <2>1. OnDisk' \cup Buffered(c) \subseteq OnDisk \cup Buffered(b)
    BY <1>11, <1>13
  <2>2. OneEach(OnDisk' \cup Buffered(c))
    BY <1>14, <2>1 DEF Known, OneEach
  <2>3. \A r \in OnDisk' \cup Buffered(c) : r.id \in c.seen /\ r.seq < c.next
    BY <1>7, <1>14, <2>1 DEF Known
  <2>4. c.next > 0
    BY <1>7, <1>14 DEF Known
  <2> QED
    BY <2>2, <2>3, <2>4 DEF Known, Buffered, c
<1>19. Rising(worker[w])'
  <2>1. ASSUME NEW x \in Days, q[x] # <<>>
        PROVE  x \in c.days
    BY <1>3, <1>7, <1>14, <2>1 DEF Rising
  <2>2. ASSUME NEW x \in Days, NEW i \in DOMAIN q[x], NEW j \in DOMAIN q[x], i < j
        PROVE  q[x][i].seq < q[x][j].seq
    <3>1. CASE x # d
      BY <1>7, <1>14, <2>2, <3>1 DEF Rising
    <3>2. CASE x = d
      <4>1. k + i \in DOMAIN p[d] /\ k + j \in DOMAIN p[d] /\ q[d][i] = p[d][k + i] /\ q[d][j] = p[d][k + j]
        BY <1>6, <1>7, <2>2, <3>2
      <4>2. i \in Nat /\ j \in Nat /\ k \in Nat
        <5>1. rest \in Seq(Recs(S)) /\ i \in DOMAIN rest /\ j \in DOMAIN rest
          BY <1>6, <1>7, <2>2, <3>2
        <5>2. i \in Nat /\ j \in Nat
          BY <5>1, LenProperties
        <5>3. k \in Nat
          BY <1>4, LenProperties
        <5> QED
          BY <5>2, <5>3
      <4>3. k + i < k + j
        BY <2>2, <4>2
      <4> QED
        BY <1>14, <3>2, <4>1, <4>3 DEF Rising
    <3> QED
      BY <3>1, <3>2
  <2>3. ASSUME NEW x \in Days, NEW y \in Days, NEW i \in DOMAIN disk'[x], NEW j \in DOMAIN q[y]
        PROVE  disk'[x][i].seq < q[y][j].seq \/ (x # y /\ x \in c.days)
    <3>1. PICK n \in DOMAIN p[y] : q[y][j] = p[y][n] /\ (y = d => n > k)
      BY <1>12
    <3>2. CASE i \in DOMAIN disk[x] /\ disk'[x][i] = disk[x][i]
      <4>1. disk[x][i].seq < p[y][n].seq \/ (x # y /\ x \in b.days)
        BY <1>14, <3>2 DEF Rising
      <4> QED
        BY <1>7, <3>1, <3>2, <4>1
    <3>3. ASSUME x = d, NEW m \in DOMAIN p[d], m <= k, disk'[x][i] = p[d][m]
          PROVE  disk'[x][i].seq < q[y][j].seq \/ (x # y /\ x \in c.days)
      <4>1. CASE y = d
        <5>1. m < n
          BY <1>4, <3>1, <3>3, <4>1, LenProperties
        <5> QED
          BY <1>14, <3>1, <3>3, <4>1, <5>1 DEF Rising
      <4>2. CASE y # d
        BY <1>3, <1>7, <1>14, <3>3, <4>2 DEF Rising
      <4> QED
        BY <4>1, <4>2
    <3> QED
      BY <1>10, <3>2, <3>3
  <2> QED
    BY <2>1, <2>2, <2>3 DEF Rising, c
<1>20. InvOf(worker[w])'
  <2>1. \A f \in c.parsed : IsFile(f)
    BY <1>7 DEF IntakeInv, InvOf, b
  <2> QED
    BY <1>3, <1>7, <1>18, <1>19, <2>1 DEF InvOf, Holding, c
<1>21. \A v \in Worker : InvOf(worker[v])'
  BY <1>5, <1>9, <1>14, <1>20, OthersStep
<1>22. \A v \in Worker : Holds(v)' <=> Holds(v)
  BY <1>5, <1>7 DEF Holds, b, c
<1>23. \A v \in Worker : Does(v, "publish")' => Does(v, "publish") /\ worker'[v] = worker[v]
  BY <1>3, <1>5, <1>7 DEF Does, b, c
<1>24. Lone'
  BY <1>22 DEF IntakeInv, Lone
<1>25. OneEach(OnDisk)'
  BY <1>11, <1>13, <1>14 DEF Known, OneEach
<1>26. Largest'
  <2>1. PICK n \in {0} \cup {r.seq : r \in OnDisk} : \A r \in OnDisk : r.seq <= n
    BY DEF IntakeInv, Largest
  <2>2. n \in Nat /\ p[d][k].seq \in Nat /\ (\A r \in OnDisk \cup Moved : r.seq \in Nat)
    <3>1. p[d][k] \in Recs(S)
      BY <1>4, LenProperties, ElementOfSeq
    <3> QED
      BY <1>15, <2>1, <3>1 DEF Recs
  <2>3. CASE n <= p[d][k].seq
    <3>1. \A r \in OnDisk' : r.seq <= p[d][k].seq
      BY <1>11, <1>17, <2>1, <2>2, <2>3
    <3> QED
      BY <1>9, <3>1 DEF Largest
  <2>4. CASE ~(n <= p[d][k].seq)
    <3>1. \A r \in OnDisk' : r.seq <= n
      BY <1>11, <1>17, <2>1, <2>2, <2>4
    <3>2. n \in {0} \cup {r.seq : r \in OnDisk'}
      BY <1>9, <2>1
    <3> QED
      BY <3>1, <3>2 DEF Largest
  <2> QED
    BY <2>3, <2>4
<1>27. Past' /\ EachBatchOnce'
  <2>1. through' = 0 \/ \E r \in OnDisk' : r.seq = through'
    BY <1>3, <1>9 DEF IntakeInv, Past
  <2>2. \A j \in DOMAIN windows' : \A id \in windows'[j] :
           \E r \in OnDisk' : r.id = id /\ r.seq <= through'
    BY <1>3, <1>9 DEF IntakeInv, Past
  <2> QED
    BY <1>3, <2>1, <2>2 DEF IntakeInv, Past, EachBatchOnce
<1>28. ASSUME ~crossed', NEW r \in Moved
       PROVE  Later(r)
  BY <1>3, <1>13, <1>14, <1>28 DEF IntakeInv, Covered, b
<1>29. PassedIsCovered'
  <2>1. ASSUME ~crossed', NEW r \in OnDisk', r.seq <= through'
        PROVE  \E j \in DOMAIN windows' : r.id \in windows'[j]
    <3>1. r \in Moved => Later(r) /\ r.seq \in Nat /\ through \in Nat
      BY <1>1, <1>15, <1>28, <2>1 DEF TypedIn, Recs
    <3>2. r \in OnDisk
      BY <1>3, <1>11, <2>1, <3>1 DEF Later
    <3> QED
      BY <1>3, <2>1, <3>2 DEF IntakeInv, Covered, PassedIsCovered
  <2> QED
    BY <2>1 DEF PassedIsCovered
<1>30. ASSUME ~crossed', NEW v \in Worker
       PROVE  /\ Does(v, "publish")' => ~Lacks(worker[v])'
              /\ Holds(v)' => \A s \in Buffered(worker[v])' : Later(s)'
  <2>1. Does(v, "publish")' => ~Lacks(worker[v])'
    <3>1. SUFFICES ASSUME Does(v, "publish")', NEW r \in OnDisk',
                          worker[v].from < r.seq, r.seq <= worker[v].end, r.id \notin worker[v].window
                   PROVE  FALSE
      BY <1>23 DEF Lacks
    <3>2. Does(v, "publish") /\ ~Lacks(worker[v])
      BY <1>3, <1>23, <1>30, <3>1 DEF IntakeInv, Covered
    <3>3. r \in Moved
      BY <1>11, <3>1, <3>2 DEF Lacks
    <3>4. r.seq \in Nat /\ worker[v].end \in Nat /\ r.seq > worker[v].end
      BY <1>1, <1>15, <1>28, <1>30, <3>2, <3>3 DEF Later, TypedIn, Local, Recs
    <3> QED
      BY <3>1, <3>4
  <2>2. ASSUME Holds(v)', NEW s \in Buffered(worker[v])'
        PROVE  Later(s)'
    <3>1. v = w
      BY <1>14, <1>22, <2>2 DEF IntakeInv, Lone
    <3>2. s \in Buffered(b)
      BY <1>13, <2>2, <3>1 DEF Buffered, c
    <3>3. Later(s) => Later(s)'
      BY <1>3, <1>23 DEF Later
    <3>4. \A r \in Buffered(b) : Later(r)
      BY <1>3, <1>14, <1>30 DEF IntakeInv, Covered, b
    <3> QED
      BY <3>2, <3>3, <3>4
  <2> QED
    BY <2>1, <2>2
<1> QED
  BY <1>8, <1>21, <1>24, <1>25, <1>26, <1>27, <1>29, <1>30 DEF IntakeInv, Covered

-----------------------------------------------------------------------------
(* A batch is read, and published. *)

LEMMA TwoDays ==
    ASSUME NEW days \in SUBSET Days, NEW x \in days, NEW y \in days, x # y
    PROVE  Cardinality(days) > 1
<1>1. IsFiniteSet(Days)
  BY IntakeAssumption, FS_Interval DEF Days
<1>2. IsFiniteSet(days) /\ Cardinality(days) \in Nat
  BY <1>1, FS_Subset, FS_CardinalityType
<1>3. Cardinality(days) # 0
  BY <1>2, FS_EmptySet
<1>4. Cardinality(days) # 1
  BY <1>2, FS_Singleton
<1> QED
  BY <1>2, <1>3, <1>4

(* What run_batch has when it has read the journal: all there is after the *)
(* checkpoint, up to a number that is there.                               *)
WholeBatch(c) ==
    /\ c.from = through
    /\ \E r \in OnDisk : r.seq = c.end /\ r.seq > through
    /\ c.window = {s.id : s \in {r \in OnDisk : r.seq > through /\ r.seq <= c.end}}

OneDayEach == \A v \in Worker : Holds(v) => ~(Cardinality(worker[v].days) > 1)

(* While every writer has written for one day, what is in its buffers is   *)
(* later than all on disk.                                                 *)
LEMMA BufferedIsLast ==
    ASSUME IntakeInv, OneDayEach, NEW v \in Worker, Holds(v),
           NEW s \in Buffered(worker[v]), NEW r \in OnDisk
    PROVE  r.seq < s.seq
<1>1. PICK S : TypedIn(S)
  BY DEF IntakeInv, Typed
<1>2. Rising(worker[v]) /\ worker[v].days \subseteq Days
  <2>1. worker[v] \in Local(S)
    BY <1>1 DEF TypedIn
  <2> QED
    BY <2>1 DEF IntakeInv, InvOf, Holds, Holding, Local
<1>3. PICK x \in Days : \E i \in DOMAIN disk[x] : r = disk[x][i]
  BY DEF OnDisk
<1>4. PICK i \in DOMAIN disk[x] : r = disk[x][i]
  BY <1>3
<1>5. PICK d \in Days : \E j \in DOMAIN worker[v].buffer[d] : s = worker[v].buffer[d][j]
  BY DEF Buffered, RecordsIn
<1>6. PICK j \in DOMAIN worker[v].buffer[d] : s = worker[v].buffer[d][j]
  BY <1>5
<1>7. r.seq < s.seq \/ (x # d /\ x \in worker[v].days)
  BY <1>2, <1>4, <1>6 DEF Rising
<1>8. worker[v].buffer[d] # <<>>
  BY <1>6
<1>9. d \in worker[v].days
  BY <1>2, <1>8 DEF Rising
<1> QED
  BY <1>2, <1>7, <1>9, TwoDays DEF OneDayEach

LEMMA BatchedStep ==
    ASSUME IntakeInv, NEW w \in Worker, Does(w, "batch"),
           NEW T, NEW c \in Local(T), c.pc \in {"idle", "publish"},
           c.pc = "publish" => WholeBatch(c),
           c.buffer = Empty, c.days = {}, \A f \in c.parsed : IsFile(f),
           worker' = [worker EXCEPT ![w] = c],
           UNCHANGED <<disk, through, windows, day>>,
           ~crossed' => ~crossed /\ OneDayEach
    PROVE  IntakeInv'
<1>1. PICK S : TypedIn(S)
  BY DEF IntakeInv, Typed
<1>2. OnDisk' = OnDisk
  BY DEF OnDisk
<1>3. worker'[w] = c /\ \A v \in Worker \ {w} : worker'[v] = worker[v]
  BY <1>1 DEF TypedIn
<1>4. Typed'
  <2> DEFINE U == S \cup T
  <2>1. S \subseteq U /\ T \subseteq U
    OBVIOUS
  <2> HIDE DEF U
  <2>2. c \in Local(U) /\ worker \in [Worker -> Local(U)] /\ disk \in [Days -> Seq(Recs(U))]
        /\ windows \in Seq(U)
    BY <1>1, <2>1, Widen DEF TypedIn
  <2>3. worker' \in [Worker -> Local(U)]
    BY <2>2
  <2>4. TypedIn(U)'
    BY <1>1, <2>2, <2>3 DEF TypedIn
  <2> QED
    BY <2>4 DEF Typed
<1>5. \A r \in OnDisk : r.seq \in Nat
  BY <1>1, DiskTypes DEF Recs
<1>6. through \in Nat /\ c.end \in Nat
  BY <1>1 DEF TypedIn, Local
<1>7. InvOf(worker[w])'
  <2>1. c.pc = "publish" => Read(c)
    BY <1>5, <1>6 DEF WholeBatch, Read
  <2>2. Read(c) => Read(worker[w])'
    BY <1>2, <1>3 DEF Read
  <2> QED
    BY <1>3, <2>1, <2>2 DEF InvOf, Holding, Empty
<1>8. \A v \in Worker : InvOf(worker[v])'
  BY <1>2, <1>3, <1>7, OthersStep
<1>9. \A v \in Worker : Holds(v)' => v # w /\ Holds(v) /\ worker'[v] = worker[v]
  BY <1>3 DEF Holds
<1>10. Lone'
  BY <1>9 DEF IntakeInv, Lone
<1>11. Past' /\ EachBatchOnce' /\ OneEach(OnDisk)' /\ Largest' /\ PassedIsCovered'
  BY <1>2 DEF IntakeInv, Past, EachBatchOnce, Largest, Covered, PassedIsCovered
<1>12. ASSUME ~crossed', NEW v \in Worker
       PROVE  /\ Does(v, "publish")' => ~Lacks(worker[v])'
              /\ Holds(v)' => \A s \in Buffered(worker[v])' : Later(s)'
  <2>1. ASSUME Does(v, "publish")'
        PROVE  ~Lacks(worker[v])'
    <3>1. CASE v = w
      <4>1. WholeBatch(c)
        BY <1>3, <2>1, <3>1 DEF Does
      <4>2. ~Lacks(c)
        BY <1>5, <1>6, <4>1 DEF Lacks, WholeBatch
      <4> QED
        BY <1>2, <1>3, <3>1, <4>2 DEF Lacks
    <3>2. CASE v # w
      <4>1. Does(v, "publish") /\ worker'[v] = worker[v]
        BY <1>3, <2>1, <3>2 DEF Does
      <4> QED
        BY <1>2, <1>12, <4>1 DEF IntakeInv, Covered, Lacks
    <3> QED
      BY <3>1, <3>2
  <2>2. ASSUME Holds(v)', NEW s \in Buffered(worker[v])'
        PROVE  Later(s)'
    <3>1. Holds(v) /\ s \in Buffered(worker[v])
      BY <1>9, <2>2 DEF Buffered
    <3>2. Later(s)
      BY <1>12, <3>1 DEF IntakeInv, Covered
    <3>3. ASSUME NEW u \in Worker, Does(u, "publish")'
          PROVE  s.seq > worker'[u].end
      <4>1. CASE u = w
        <5>1. PICK r \in OnDisk : r.seq = c.end
          BY <1>3, <3>3, <4>1 DEF Does, WholeBatch
        <5>2. r.seq < s.seq
          BY <1>12, <3>1, BufferedIsLast
        <5>3. s.seq \in Nat
          <6>1. worker[v] \in Local(S)
            BY <1>1 DEF TypedIn
          <6> QED
            BY <3>1, <6>1, BufferTypes DEF Recs
        <5> QED
          BY <1>3, <1>6, <4>1, <5>1, <5>2, <5>3
      <4>2. CASE u # w
        BY <1>3, <3>2, <3>3, <4>2 DEF Later, Does
      <4> QED
        BY <4>1, <4>2
    <3> QED
      BY <3>2, <3>3 DEF Later
  <2> QED
    BY <2>1, <2>2
<1> QED
  BY <1>4, <1>8, <1>10, <1>11, <1>12 DEF IntakeInv, Covered

LEMMA ReadBatchStep ==
    ASSUME IntakeInv, NEW w \in Worker, ReadBatch(w)
    PROVE  IntakeInv'
<1>1. PICK S : TypedIn(S)
  BY DEF IntakeInv, Typed
<1>2. UNCHANGED <<disk, through, windows, day>> /\ Does(w, "batch")
  BY DEF ReadBatch
<1>3. ~crossed' => ~crossed /\ OneDayEach
  BY DEF ReadBatch, OneDayEach
<1>4. CASE worker' = [worker EXCEPT ![w] = AtRest]
  <2>1. PICK T : AtRest \in Local(T) /\ Rests(AtRest) /\ AtRest.parsed = {} /\ AtRest.pc = "idle"
    <3>1. "idle" \in Steps \ {"list", "write", "publish"} /\ AtRest.pc = "idle"
          /\ AtRest = [AtRest EXCEPT !.pc = "idle"]
      BY DEF Steps, AtRest
    <3> QED
      BY <3>1, RestAt
  <2>2. AtRest.buffer = Empty /\ AtRest.days = {} /\ AtRest.pc # "publish"
    BY <2>1 DEF Rests
  <2> QED
    BY <1>2, <1>3, <1>4, <2>1, <2>2, BatchedStep
<1>5. ASSUME NEW i \in AllAfter,
             worker' = [worker EXCEPT ![w].pc = "publish", ![w].from = through,
                                      ![w].end = RecordAt(i).seq, ![w].window = Window(RecordAt(i).seq)]
      PROVE  IntakeInv'
  <2> DEFINE b == worker[w]
             end == RecordAt(i).seq
             window == Window(end)
             c == [b EXCEPT !.pc = "publish", !.from = through, !.end = end, !.window = window]
  <2>1. RecordAt(i) \in OnDisk /\ end > through
    BY DEF AllAfter, Positions, RecordAt, OnDisk
  <2>2. through \in Nat /\ end \in Nat /\ b \in Local(S)
    BY <1>1, <2>1, DiskTypes DEF TypedIn, Recs
  <2>3. window = {s.id : s \in {r \in OnDisk : r.seq > through /\ r.seq <= end}}
    <3>1. ASSUME NEW id
          PROVE  id \in window <=> \E r \in OnDisk : r.seq > through /\ r.seq <= end /\ r.id = id
      <4>1. id \in window
              <=> \E d \in Days : \E k \in DOMAIN disk[d] :
                     disk[d][k].seq > through /\ disk[d][k].seq <= end /\ disk[d][k].id = id
        <5>1. id \in window <=> \E j \in Positions :
                 RecordAt(j).seq > through /\ RecordAt(j).seq <= end /\ RecordAt(j).id = id
          BY DEF Window, AllAfter
        <5>2. \A d \in Days : \A k \in DOMAIN disk[d] : <<d, k>> \in Positions /\ RecordAt(<<d, k>>) = disk[d][k]
          BY DEF Positions, RecordAt
        <5>3. \A j \in Positions : \E d \in Days : \E k \in DOMAIN disk[d] : RecordAt(j) = disk[d][k]
          BY DEF Positions, RecordAt
        <5> QED
          BY <5>1, <5>2, <5>3
      <4> QED
        BY <4>1 DEF OnDisk
    <3> QED
      BY <3>1
  <2>4. PICK T : S \subseteq T /\ window \in T
    <3>1. S \subseteq S \cup {window} /\ window \in S \cup {window}
      OBVIOUS
    <3> HIDE DEF window
    <3> QED
      BY <3>1
  <2>5. worker' = [worker EXCEPT ![w] = c]
    BY <1>1, <1>5, <2>2 DEF TypedIn, Local
  <2>6. b.buffer = Empty /\ b.days = {} /\ \A f \in b.parsed : IsFile(f)
    BY <1>2 DEF IntakeInv, InvOf, Does, Holding
  <2>7. b \in Local(T)
    BY <2>2, <2>4, Widen
  <2> HIDE DEF window, end, b
  <2>8. c \in Local(T) /\ c.pc = "publish" /\ c.from = through /\ c.end = end /\ c.window = window
        /\ c.buffer = b.buffer /\ c.days = b.days /\ c.parsed = b.parsed
    BY <2>2, <2>4, <2>7 DEF Local, Steps
  <2> HIDE DEF c
  <2>9. RecordAt(i).seq = end
    BY DEF end
  <2>10. WholeBatch(c)
    BY <2>1, <2>3, <2>8, <2>9 DEF WholeBatch
  <2> QED
    BY <1>2, <1>3, <2>5, <2>6, <2>8, <2>10, BatchedStep
<1> QED
  BY <1>4, <1>5 DEF ReadBatch

LEMMA PublishBatchStep ==
    ASSUME IntakeInv, NEW w \in Worker, PublishBatch(w)
    PROVE  IntakeInv'
<1>1. PICK S : TypedIn(S)
  BY DEF IntakeInv, Typed
<1> DEFINE b == worker[w]
           c == [AtRest EXCEPT !.pc = "batch"]
<1>2. /\ UNCHANGED <<disk, day, crossed>> /\ Does(w, "publish") /\ through = b.from
      /\ through' = b.end /\ windows' = Append(windows, b.window)
      /\ worker' = [worker EXCEPT ![w] = c]
  BY DEF PublishBatch
<1>3. OnDisk' = OnDisk
  BY <1>2 DEF OnDisk
<1>4. PICK T : c \in Local(T) /\ Rests(c) /\ c.parsed = {}
  <2>1. "batch" \in Steps \ {"list", "write", "publish"}
    BY DEF Steps
  <2> QED
    BY <2>1, RestAt
<1>5. b \in Local(S) /\ b.end \in Nat /\ b.from \in Nat /\ b.window \in S /\ Read(b)
  <2>1. b \in Local(S)
    BY <1>1 DEF TypedIn
  <2> QED
    BY <1>2, <2>1 DEF Local, IntakeInv, InvOf, Does
<1> HIDE DEF c
<1>6. worker'[w] = c /\ \A v \in Worker \ {w} : worker'[v] = worker[v]
  BY <1>1, <1>2 DEF TypedIn
<1>7. /\ Len(windows) \in Nat /\ DOMAIN windows = 1..Len(windows)
      /\ windows' \in Seq(S) /\ DOMAIN windows' = 1..(Len(windows) + 1)
      /\ \A k \in DOMAIN windows : windows'[k] = windows[k]
      /\ windows'[Len(windows) + 1] = b.window
  BY <1>1, <1>2, <1>5, AppendProperties, LenProperties DEF TypedIn
<1>8. Typed'
  <2>1. PICK U : U = S \cup T
    OBVIOUS
  <2>2. S \subseteq U /\ T \subseteq U
    BY <2>1
  <2>3. c \in Local(U) /\ worker \in [Worker -> Local(U)] /\ disk \in [Days -> Seq(Recs(U))]
        /\ windows' \in Seq(U)
    BY <1>1, <1>4, <1>7, <2>2, Widen DEF TypedIn
  <2>4. worker' \in [Worker -> Local(U)]
    BY <1>2, <2>3
  <2>5. TypedIn(U)'
    BY <1>1, <1>2, <1>5, <2>3, <2>4 DEF TypedIn
  <2> QED
    BY <2>5 DEF Typed
<1>9. \A r \in OnDisk : r.seq \in Nat
  BY <1>1, DiskTypes DEF Recs
<1>10. InvOf(worker[w])'
  BY <1>4, <1>6 DEF InvOf, Rests, Empty
<1>11. \A v \in Worker : InvOf(worker[v])'
  BY <1>2, <1>3, <1>6, <1>10, OthersStep
<1>12. \A v \in Worker : Holds(v)' => v # w /\ Holds(v) /\ worker'[v] = worker[v]
  BY <1>4, <1>6 DEF Holds, Rests, Holding
<1>13. \A v \in Worker : Does(v, "publish")' => v # w /\ Does(v, "publish") /\ worker'[v] = worker[v]
  BY <1>4, <1>6 DEF Does, Rests
<1>14. Lone'
  BY <1>12 DEF IntakeInv, Lone
<1>15. OneEach(OnDisk)' /\ Largest'
  BY <1>3 DEF IntakeInv, Largest
<1>16. \A k \in DOMAIN windows : \A id \in windows[k] : \E r \in OnDisk : r.id = id /\ r.seq <= through
  BY DEF IntakeInv, Past
<1>17. Past'
  <2>1. \E r \in OnDisk : r.seq = through'
    BY <1>2, <1>5 DEF Read
  <2>2. ASSUME NEW k \in DOMAIN windows', NEW id \in windows'[k]
        PROVE  \E r \in OnDisk : r.id = id /\ r.seq <= through'
    <3>1. CASE k \in DOMAIN windows
      <4>1. PICK r \in OnDisk : r.id = id /\ r.seq <= through
        BY <1>7, <1>16, <2>2, <3>1
      <4>2. r.seq <= through'
        BY <1>2, <1>5, <1>9, <4>1 DEF Read
      <4> QED
        BY <4>1, <4>2
    <3>2. CASE k = Len(windows) + 1
      BY <1>2, <1>5, <1>7, <2>2, <3>2 DEF Read
    <3> QED
      BY <1>7, <2>2, <3>1, <3>2
  <2> QED
    BY <1>3, <2>1, <2>2 DEF Past
<1>18. EachBatchOnce'
  <2>1. ASSUME NEW k \in DOMAIN windows
        PROVE  windows[k] \cap b.window = {}
    <3>1. SUFFICES ASSUME NEW id \in windows[k], id \in b.window
                   PROVE  FALSE
      OBVIOUS
    <3>2. PICK r \in OnDisk : r.id = id /\ r.seq <= through
      BY <1>16, <3>1
    <3>3. PICK s \in OnDisk : s.id = id /\ through < s.seq
      BY <1>2, <1>5, <3>1 DEF Read
    <3>4. r = s
      BY <3>2, <3>3 DEF IntakeInv, OneEach
    <3>5. r.seq \in Nat /\ through \in Nat
      BY <1>1, <1>9 DEF TypedIn
    <3> QED
      BY <3>2, <3>3, <3>4, <3>5
  <2>2. ASSUME NEW j \in DOMAIN windows', NEW k \in DOMAIN windows', j # k
        PROVE  windows'[j] \cap windows'[k] = {}
    <3>1. CASE j \in DOMAIN windows /\ k \in DOMAIN windows
      BY <1>7, <2>2, <3>1 DEF IntakeInv, EachBatchOnce
    <3>2. CASE j = Len(windows) + 1 /\ k \in DOMAIN windows
      BY <1>7, <2>1, <3>2
    <3>3. CASE j \in DOMAIN windows /\ k = Len(windows) + 1
      BY <1>7, <2>1, <3>3
    <3> QED
      BY <1>7, <2>2, <3>1, <3>2, <3>3
  <2> QED
    BY <2>2 DEF EachBatchOnce
<1>19. PassedIsCovered'
  <2>1. ASSUME ~crossed', NEW r \in OnDisk, r.seq <= through'
        PROVE  \E k \in DOMAIN windows' : r.id \in windows'[k]
    <3>1. CASE r.seq <= through
      <4>1. PICK k \in DOMAIN windows : r.id \in windows[k]
        BY <1>2, <2>1, <3>1 DEF IntakeInv, Covered, PassedIsCovered
      <4>2. k \in DOMAIN windows' /\ r.id \in windows'[k]
        BY <1>7, <4>1
      <4> QED
        BY <4>2
    <3>2. CASE ~(r.seq <= through)
      <4>1. ~Lacks(b)
        BY <1>2, <2>1 DEF IntakeInv, Covered
      <4>2. r.seq \in Nat /\ through \in Nat
        BY <1>1, <1>9 DEF TypedIn
      <4>3. r.id \in b.window
        BY <1>2, <2>1, <3>2, <4>1, <4>2 DEF Lacks
      <4>4. Len(windows) + 1 \in DOMAIN windows'
        BY <1>7
      <4> QED
        BY <1>7, <4>3, <4>4
    <3> QED
      BY <3>1, <3>2
  <2> QED
    BY <1>3, <2>1 DEF PassedIsCovered
<1>20. ASSUME ~crossed', NEW v \in Worker
       PROVE  /\ Does(v, "publish")' => ~Lacks(worker[v])'
              /\ Holds(v)' => \A s \in Buffered(worker[v])' : Later(s)'
  <2>1. Does(v, "publish")' => ~Lacks(worker[v])'
    BY <1>2, <1>3, <1>13, <1>20 DEF IntakeInv, Covered, Lacks
  <2>2. ASSUME Holds(v)', NEW s \in Buffered(worker[v])'
        PROVE  Later(s)'
    <3>1. Holds(v) /\ s \in Buffered(worker[v])
      BY <1>12, <2>2 DEF Buffered
    <3>2. Later(s)
      BY <1>2, <1>20, <3>1 DEF IntakeInv, Covered
    <3> QED
      BY <1>2, <1>13, <3>2 DEF Later
  <2> QED
    BY <2>1, <2>2
<1> QED
  BY <1>8, <1>11, <1>14, <1>15, <1>17, <1>18, <1>19, <1>20 DEF IntakeInv, Covered

-----------------------------------------------------------------------------
(* Theorems *)

LEMMA InitInv == IntakeInit => IntakeInv
<1> SUFFICES ASSUME IntakeInit
             PROVE  IntakeInv
  OBVIOUS
<1>1. /\ disk = Empty /\ through = 0 /\ windows = <<>> /\ crossed = FALSE /\ day = 1
      /\ worker = [w \in Worker |-> AtRest]
  BY DEF IntakeInit
<1>2. PICK T : AtRest \in Local(T) /\ Rests(AtRest) /\ AtRest.parsed = {}
  <2>1. "idle" \in Steps \ {"list", "write", "publish"} /\ AtRest = [AtRest EXCEPT !.pc = "idle"]
    BY DEF Steps, AtRest
  <2> QED
    BY <2>1, RestAt
<1>3. OnDisk = {}
  BY <1>1 DEF OnDisk, Empty
<1>4. Typed
  <2>1. Empty \in [Days -> Seq(Recs(T))] /\ <<>> \in Seq(T)
    BY EmptySeq DEF Empty
  <2>2. worker \in [Worker -> Local(T)]
    BY <1>1, <1>2
  <2>3. 1 \in Days
    BY IntakeAssumption DEF Days
  <2>4. TypedIn(T)
    BY <1>1, <2>1, <2>2, <2>3 DEF TypedIn
  <2> QED
    BY <2>4 DEF Typed
<1>5. \A w \in Worker : worker[w] = AtRest
  BY <1>1
<1>6. \A w \in Worker : InvOf(worker[w])
  BY <1>2, <1>5 DEF InvOf, Rests
<1>7. Lone /\ \A w \in Worker : ~Holds(w) /\ ~Does(w, "publish")
  BY <1>2, <1>5 DEF Lone, Holds, Does, Rests, Holding
<1>8. Largest /\ OneEach(OnDisk)
  BY <1>3 DEF Largest, OneEach
<1>9. Past /\ EachBatchOnce
  BY <1>1 DEF Past, EachBatchOnce
<1>10. Covered
  BY <1>3, <1>7 DEF Covered, PassedIsCovered
<1> QED
  BY <1>4, <1>6, <1>7, <1>8, <1>9, <1>10 DEF IntakeInv

LEMMA StutterStep ==
    ASSUME IntakeInv, UNCHANGED intakeVars
    PROVE  IntakeInv'
<1>1. PICK S : TypedIn(S)
  BY DEF IntakeInv, Typed
<1>2. UNCHANGED <<day, disk, worker, through, windows, crossed>>
  BY DEF intakeVars
<1>3. worker' \in [Worker -> Local(S)] /\ day' \in Days
  BY <1>1, <1>2 DEF TypedIn
<1>4. \A v \in Worker : Keeps(worker'[v], worker[v])
  BY <1>2 DEF Keeps
<1>5. \A v \in Worker : \A f \in worker'[v].parsed : IsFile(f)
  BY <1>2 DEF IntakeInv, InvOf
<1> QED
  BY <1>2, <1>3, <1>4, <1>5, QuietStep

LEMMA StepInv == IntakeInv /\ [IntakeNext]_intakeVars => IntakeInv'
<1> SUFFICES ASSUME IntakeInv, [IntakeNext]_intakeVars
             PROVE  IntakeInv'
  OBVIOUS
<1>1. CASE UNCHANGED intakeVars
  BY <1>1, StutterStep
<1>2. ASSUME NEW n \in Names, Writes(n) \/ Archives(n)
      PROVE  IntakeInv'
  BY <1>2, WritesStep, ArchivesStep
<1>3. CASE Midnight
  BY <1>3, MidnightStep
<1>4. ASSUME NEW w \in Worker, IntakeStep(w)
      PROVE  IntakeInv'
  <2>1. ASSUME NEW command \in Commands, StartCommand(w, command)
        PROVE  IntakeInv'
    BY <2>1, StartStep
  <2>2. CASE OpenWriter(w)
    BY <2>2, OpenWriterStep
  <2>3. CASE LockIsHeld(w) \/ EndCommand(w) \/ Lag(w) \/ AbandonBatch(w) \/ KillWorker(w)
    BY <2>3, RestingSteps
  <2>4. CASE ListRoot(w)
    BY <2>4, ListRootStep
  <2>5. ASSUME NEW item \in worker[w].todo, ReadFile(w, item)
        PROVE  IntakeInv'
    BY <2>5, ReadFileStep
  <2>6. ASSUME NEW file \in worker[w].parsed, AppendEvent(w, file)
        PROVE  IntakeInv'
    BY <2>6, AppendEventStep
  <2>7. ASSUME NEW d \in Days, WriteBuffer(w, d)
        PROVE  IntakeInv'
    BY <2>7, WriteBufferStep
  <2>8. CASE NextRoot(w)
    BY <2>8, NextRootStep
  <2>9. CASE ReadBatch(w)
    BY <2>9, ReadBatchStep
  <2>10. CASE PublishBatch(w)
    BY <2>10, PublishBatchStep
  <2> QED
    BY <1>4, <2>1, <2>2, <2>3, <2>4, <2>5, <2>6, <2>7, <2>8, <2>9, <2>10 DEF IntakeStep
<1> QED
  BY <1>1, <1>2, <1>3, <1>4 DEF IntakeNext

(* What the theorems below rest on holds in every state there can be.      *)
THEOREM IntakeInvariant == IntakeSpec => []IntakeInv
BY InitInv, StepInv, PTL DEF IntakeSpec

(* Whatever the files hold and however their readers read them, no event   *)
(* is in two batches, though any number of processes consolidate, are      *)
(* killed or find that another has published first.                        *)
THEOREM NoEventTwice == IntakeSpec => []EachBatchOnce
<1>1. IntakeInv => EachBatchOnce
  BY DEF IntakeInv
<1> QED
  BY <1>1, IntakeInvariant, PTL

(* The checkpoint passes no event that no batch had, for any size of a     *)
(* batch, though the day files are not in the order of the numbers; unless *)
(* a batch was read while a command wrote for two days.                    *)
THEOREM NothingIsPassedOver == IntakeSpec => []PassedIsCovered
<1>1. IntakeInv => PassedIsCovered
  BY DEF IntakeInv, Covered
<1> QED
  BY <1>1, IntakeInvariant, PTL

-----------------------------------------------------------------------------
(* What a step does to the process that takes it. *)

Others(w) == \A v \in Worker \ {w} : worker'[v] = worker[v]

(* It goes on with the same command, where it was. *)
GoesOn(c, b) ==
    /\ c.pc = b.pc /\ c.command = b.command /\ c.place = b.place
    /\ c.due \subseteq b.due

(* What is due of a file that is read is what its reader can read. *)
Skips(n) == PassedOver({m \in {n} : ReadFails(m)})

LEMMA ReadFileEffect ==
    ASSUME Typed, NEW w \in Worker, NEW item, ReadFile(w, item)
    PROVE  /\ Others(w) /\ GoesOn(worker'[w], worker[w])
           /\ worker[w].pc = "write" /\ item \in worker[w].todo
           /\ worker'[w].seen = worker[w].seen /\ worker'[w].buffer = worker[w].buffer
           /\ worker'[w].todo = worker[w].todo \ {item}
           /\ \/ /\ item[2] = PlaceOf(item[1])
                 /\ \E events \in Readings(item[1]) :
                       worker'[w].parsed = worker[w].parsed \cup
                           {[day |-> day, begun |-> FALSE,
                             events |-> Tagged(events, TagOf(worker[w].command, item[1]))]}
                 /\ worker'[w].due \cap Skips(item[1]) = {}
              \/ item[2] # PlaceOf(item[1]) /\ worker'[w].parsed = worker[w].parsed
<1>1. PICK S : worker \in [Worker -> Local(S)]
  BY DEF Typed, TypedIn
<1>2. worker[w] \in Local(S) /\ item \in worker[w].todo /\ worker[w].pc = "write"
  BY <1>1 DEF ReadFile, Does
<1>3. ASSUME NEW events \in Readings(item[1]), item[2] = PlaceOf(item[1]),
             worker' = [worker EXCEPT
                 ![w].todo = @ \ {item},
                 ![w].due = @ \ Skips(item[1]),
                 ![w].parsed = @ \cup {[day |-> day, begun |-> FALSE,
                     events |-> Tagged(events, TagOf(worker[w].command, item[1]))]}]
      PROVE  /\ Others(w) /\ GoesOn(worker'[w], worker[w])
             /\ worker'[w].seen = worker[w].seen /\ worker'[w].buffer = worker[w].buffer
             /\ worker'[w].todo = worker[w].todo \ {item}
             /\ worker'[w].parsed = worker[w].parsed \cup
                     {[day |-> day, begun |-> FALSE,
                       events |-> Tagged(events, TagOf(worker[w].command, item[1]))]}
             /\ worker'[w].due \cap Skips(item[1]) = {}
  <2> DEFINE file == [day |-> day, begun |-> FALSE,
                      events |-> Tagged(events, TagOf(worker[w].command, item[1]))]
             due == worker[w].due \ Skips(item[1])
  <2>1. worker' = [worker EXCEPT ![w].todo = @ \ {item}, ![w].due = due, ![w].parsed = @ \cup {file}]
    BY <1>3
  <2>0. due \subseteq worker[w].due /\ due \cap Skips(item[1]) = {}
    OBVIOUS
  <2> HIDE DEF file, due
  <2>2. /\ Others(w) /\ GoesOn(worker'[w], worker[w])
        /\ worker'[w].seen = worker[w].seen /\ worker'[w].buffer = worker[w].buffer
        /\ worker'[w].todo = worker[w].todo \ {item}
        /\ worker'[w].parsed = worker[w].parsed \cup {file}
        /\ worker'[w].due = due
    BY <1>1, <1>2, <2>0, <2>1 DEF Local, Others, GoesOn
  <2> QED
    BY <2>0, <2>2 DEF file
<1>4. ASSUME worker' = [worker EXCEPT ![w].todo = @ \ {item}]
      PROVE  /\ Others(w) /\ GoesOn(worker'[w], worker[w])
             /\ worker'[w].seen = worker[w].seen /\ worker'[w].buffer = worker[w].buffer
             /\ worker'[w].todo = worker[w].todo \ {item}
             /\ worker'[w].parsed = worker[w].parsed
  BY <1>1, <1>2, <1>4 DEF Local, Others, GoesOn
<1> QED
  BY <1>2, <1>3, <1>4 DEF ReadFile, Skips

(* What is appended of a file: nothing, or its first new event. *)
Took(w, file, k, r) ==
    /\ k \in NewEvents(worker[w].seen, file.events)
    /\ r.id = file.events[k].id /\ r.msg = file.events[k].msg
    /\ r.project = file.events[k].project
    /\ worker'[w].seen = worker[w].seen \cup {file.events[k].id}
    /\ Buffered(worker'[w]) = Buffered(worker[w]) \cup {r}
    /\ \/ NewEvents(worker'[w].seen, file.events) = {}
          /\ worker'[w].parsed = worker[w].parsed \ {file}
       \/ worker'[w].parsed = (worker[w].parsed \ {file}) \cup {[file EXCEPT !.begun = TRUE]}

LEMMA AppendEventEffect ==
    ASSUME IntakeInv, NEW w \in Worker, NEW file, AppendEvent(w, file)
    PROVE  /\ Others(w) /\ GoesOn(worker'[w], worker[w])
           /\ worker[w].pc = "write" /\ file \in worker[w].parsed
           /\ worker'[w].todo = worker[w].todo
           /\ \/ /\ NewEvents(worker[w].seen, file.events) = {}
                 /\ worker'[w].parsed = worker[w].parsed \ {file}
                 /\ worker'[w].seen = worker[w].seen
                 /\ Buffered(worker'[w]) = Buffered(worker[w])
              \/ \E k, r : Took(w, file, k, r)
<1>1. PICK S : TypedIn(S)
  BY DEF IntakeInv, Typed
<1> DEFINE b == worker[w]
<1>2. b \in Local(S) /\ file \in b.parsed /\ b.pc = "write" /\ IsFile(file)
  BY <1>1 DEF TypedIn, AppendEvent, Does, IntakeInv, InvOf
<1>3. CASE NewEvents(b.seen, file.events) = {}
  <2>1. worker' = [worker EXCEPT ![w].parsed = @ \ {file}]
    BY <1>3 DEF AppendEvent
  <2>2. /\ Others(w) /\ GoesOn(worker'[w], b) /\ worker'[w].todo = b.todo
        /\ worker'[w].parsed = b.parsed \ {file}
        /\ worker'[w].seen = b.seen /\ worker'[w].buffer = b.buffer
    BY <1>1, <1>2, <2>1 DEF TypedIn, Local, Others, GoesOn
  <2> QED
    BY <1>2, <1>3, <2>2 DEF Buffered
<1>4. CASE NewEvents(b.seen, file.events) # {}
  <2>1. PICK k \in NewEvents(b.seen, file.events) :
          LET e == file.events[k]
              seen == b.seen \cup {e.id}
              left == IF NewEvents(seen, file.events) = {} THEN {}
                      ELSE {[file EXCEPT !.begun = TRUE]}
          IN  worker' = [worker EXCEPT
                 ![w].parsed = (@ \ {file}) \cup left,
                 ![w].seen = seen,
                 ![w].next = @ + 1,
                 ![w].days = @ \cup {file.day},
                 ![w].buffer[file.day] =
                     Append(@, [seq |-> b.next, id |-> e.id,
                                msg |-> e.msg, project |-> e.project])]
    BY <1>4 DEF AppendEvent
  <2> DEFINE e == file.events[k]
             seen == b.seen \cup {e.id}
             left == IF NewEvents(seen, file.events) = {} THEN {}
                     ELSE {[file EXCEPT !.begun = TRUE]}
             parsed == (b.parsed \ {file}) \cup left
             r == [seq |-> b.next, id |-> e.id, msg |-> e.msg, project |-> e.project]
             d == file.day
             buffer == [b.buffer EXCEPT ![d] = Append(@, r)]
  <2>2. worker' = [worker EXCEPT
                 ![w].parsed = parsed,
                 ![w].seen = seen,
                 ![w].next = @ + 1,
                 ![w].days = @ \cup {file.day},
                 ![w].buffer[file.day] = Append(@, r)]
    BY <2>1
  <2>3. r.seq = b.next /\ r.id = e.id /\ r.msg = e.msg /\ r.project = e.project
    OBVIOUS
  <2>4. d \in Days
    BY <1>2 DEF IsFile
  <2>5. \/ NewEvents(seen, file.events) = {} /\ parsed = b.parsed \ {file}
        \/ parsed = (b.parsed \ {file}) \cup {[file EXCEPT !.begun = TRUE]}
    OBVIOUS
  <2>6. r \in Recs(S \cup {e.id, e.msg, e.project}) 
    <3>1. b.next \in Nat \ {0}
      <4>1. b.next > 0
        BY <1>2 DEF IntakeInv, InvOf, Known, Holding
      <4> QED
        BY <1>2, <4>1 DEF Local
    <3> QED
      BY <3>1 DEF Recs
  <2> HIDE DEF parsed, seen, left, r, e
  <2>7. /\ Others(w) /\ GoesOn(worker'[w], b) /\ worker'[w].todo = b.todo
        /\ worker'[w].parsed = parsed
        /\ worker'[w].seen = seen /\ worker'[w].buffer = buffer
    BY <1>1, <1>2, <2>2 DEF TypedIn, Local, Others, GoesOn
  <2>8. Buffered(worker'[w]) = Buffered(b) \cup {r}
    <3> DEFINE U == S \cup {e.id, e.msg, e.project}
               R == Recs(U)
               f == b.buffer
    <3>1. f \in Files(R) /\ r \in R
      <4>1. b \in Local(U)
        <5>1. S \subseteq U
          OBVIOUS
        <5> HIDE DEF U
        <5> QED
          BY <1>2, <5>1, Widen
      <4> HIDE DEF U
      <4> QED
        BY <2>6, <4>1 DEF Local, Files, U
    <3> HIDE DEF R
    <3>2. buffer \in Files(R) /\ buffer[d] = Append(f[d], r) /\ \A x \in Days \ {d} : buffer[x] = f[x]
      BY <2>4, <3>1, AppendProperties DEF Files
    <3> HIDE DEF buffer, d, f
    <3>3. RecordsIn(buffer) = RecordsIn(f) \cup {r}
      BY <2>4, <3>1, <3>2, Appending
    <3> QED
      BY <2>7, <3>3 DEF Buffered, f
  <2>9. Took(w, file, k, r)
    BY <2>1, <2>3, <2>5, <2>7, <2>8 DEF Took, seen, e
  <2> QED
    BY <1>2, <2>7, <2>9
<1> QED
  BY <1>3, <1>4

LEMMA WriteBufferEffect ==
    ASSUME IntakeInv, NEW w \in Worker, NEW d \in Days, WriteBuffer(w, d)
    PROVE  /\ Others(w) /\ GoesOn(worker'[w], worker[w])
           /\ worker[w].pc = "write"
           /\ worker'[w].todo = worker[w].todo /\ worker'[w].parsed = worker[w].parsed
           /\ worker'[w].seen = worker[w].seen
           /\ OnDisk \subseteq OnDisk'
           /\ OnDisk' \cup Buffered(worker'[w]) = OnDisk \cup Buffered(worker[w])
<1>1. PICK S : TypedIn(S)
  BY DEF IntakeInv, Typed
<1> DEFINE b == worker[w]
           p == b.buffer
<1>2. /\ b \in Local(S) /\ p \in [Days -> Seq(Recs(S))] /\ disk \in [Days -> Seq(Recs(S))]
      /\ p[d] \in Seq(Recs(S)) /\ disk[d] \in Seq(Recs(S)) /\ b.pc = "write"
  <2>1. b \in Local(S) /\ disk \in [Days -> Seq(Recs(S))]
    BY <1>1 DEF TypedIn
  <2>2. p \in [Days -> Seq(Recs(S))]
    BY <2>1 DEF Local
  <2>3. b.pc = "write"
    BY DEF WriteBuffer, Does
  <2> HIDE DEF b, p
  <2> QED
    BY <2>1, <2>2, <2>3
<1>3. PICK k \in DOMAIN p[d] :
        /\ disk' = [disk EXCEPT ![d] = @ \o SubSeq(p[d], 1, k)]
        /\ worker' = [worker EXCEPT ![w].buffer[d] = SubSeq(@, k + 1, Len(@))]
  BY DEF WriteBuffer
<1> DEFINE g == disk[d] \o SubSeq(p[d], 1, k)
           q == SubSeq(p[d], k + 1, Len(p[d]))
           buffer == [p EXCEPT ![d] = q]
<1>4. disk' = [disk EXCEPT ![d] = g] /\ worker' = [worker EXCEPT ![w].buffer = buffer]
  BY <1>3
<1>5. Flushed(Recs(S), disk[d], p[d], k, g, q)
  <2> DEFINE R == Recs(S)
             f == disk[d]
             h == p[d]
  <2>1. f \in Seq(R) /\ h \in Seq(R) /\ k \in DOMAIN h
    BY <1>2
  <2> HIDE DEF R, f, h
  <2>2. Flushed(R, f, h, k, f \o SubSeq(h, 1, k), SubSeq(h, k + 1, Len(h)))
    BY <2>1, Flushing
  <2> QED
    BY <2>2 DEF R, f, h
<1>6. /\ \A i \in DOMAIN g : \/ i \in DOMAIN disk[d] /\ g[i] = disk[d][i]
                             \/ \E j \in DOMAIN p[d] : g[i] = p[d][j]
      /\ \A i \in DOMAIN disk[d] : i \in DOMAIN g /\ g[i] = disk[d][i]
      /\ \A j \in DOMAIN q : k + j \in DOMAIN p[d] /\ q[j] = p[d][k + j]
      /\ \A j \in DOMAIN p[d] : (\E i \in DOMAIN g : g[i] = p[d][j]) \/ (\E i \in DOMAIN q : q[i] = p[d][j])
  BY <1>5 DEF Flushed
<1>7. disk'[d] = g /\ (\A x \in Days \ {d} : disk'[x] = disk[x])
      /\ buffer[d] = q /\ (\A x \in Days \ {d} : buffer[x] = p[x])
  BY <1>2, <1>4
<1> HIDE DEF g, q
<1>8. /\ Others(w) /\ GoesOn(worker'[w], b)
      /\ worker'[w].todo = b.todo /\ worker'[w].parsed = b.parsed
      /\ worker'[w].seen = b.seen /\ worker'[w].buffer = buffer
  <2> HIDE DEF buffer
  <2> QED
    BY <1>1, <1>2, <1>4 DEF TypedIn, Local, Others, GoesOn
<1> HIDE DEF buffer, b
<1>9. OnDisk \subseteq OnDisk'
  <2>1. \A x \in Days : \A i \in DOMAIN disk[x] : i \in DOMAIN disk'[x] /\ disk'[x][i] = disk[x][i]
    BY <1>6, <1>7
  <2> QED
    BY <2>1 DEF OnDisk
<1>10. ASSUME NEW r \in OnDisk'
       PROVE  r \in OnDisk \cup RecordsIn(p)
  <2>1. PICK x \in Days : \E i \in DOMAIN disk'[x] : r = disk'[x][i]
    BY <1>10 DEF OnDisk
  <2>2. PICK i \in DOMAIN disk'[x] : r = disk'[x][i]
    BY <2>1
  <2>3. (i \in DOMAIN disk[x] /\ r = disk[x][i]) \/ (\E j \in DOMAIN p[x] : r = p[x][j])
    BY <1>6, <1>7, <2>2
  <2> QED
    BY <2>3 DEF OnDisk, RecordsIn
<1>11. ASSUME NEW r \in RecordsIn(buffer)
       PROVE  r \in RecordsIn(p)
  <2>1. PICK x \in Days : \E i \in DOMAIN buffer[x] : r = buffer[x][i]
    BY <1>11 DEF RecordsIn
  <2>2. \E j \in DOMAIN p[x] : r = p[x][j]
    BY <1>6, <1>7, <2>1
  <2> QED
    BY <2>2 DEF RecordsIn
<1>12. ASSUME NEW r \in RecordsIn(p)
       PROVE  r \in OnDisk' \cup RecordsIn(buffer)
  <2>1. PICK x \in Days : \E j \in DOMAIN p[x] : r = p[x][j]
    BY <1>12 DEF RecordsIn
  <2>2. (\E i \in DOMAIN disk'[x] : r = disk'[x][i]) \/ (\E i \in DOMAIN buffer[x] : r = buffer[x][i])
    BY <1>6, <1>7, <2>1
  <2> QED
    BY <2>2 DEF OnDisk, RecordsIn
<1>13. OnDisk' \cup RecordsIn(buffer) = OnDisk \cup RecordsIn(p)
  BY <1>9, <1>10, <1>11, <1>12
<1> QED
  BY <1>2, <1>8, <1>9, <1>13 DEF Buffered, b

(* It comes to rest, or begins. *)
Listed(command) ==
    IF command = "local" THEN {}
    ELSE UNION {ListedIn(command, place) \X {place} : place \in Places}

LEMMA BeginsEffect ==
    ASSUME Typed, NEW w \in Worker, NEW command, StartCommand(w, command), command # "consolidate"
    PROVE  /\ Others(w)
           /\ worker'[w].pc = "open" /\ worker'[w].command = command /\ worker'[w].place = "live"
           /\ worker'[w].due = Due(command)
           /\ worker'[w].todo = Listed(command)
           /\ worker'[w].parsed = {} /\ worker'[w].buffer = Empty
<1> DEFINE todo == Listed(command)
           due == Due(command)
           c == [AtRest EXCEPT !.pc = "open", !.command = command, !.due = due, !.todo = todo]
<1>1. PICK S : worker \in [Worker -> Local(S)]
  BY DEF Typed, TypedIn
<1>2. worker' = [worker EXCEPT ![w] = c]
  BY DEF StartCommand, Listed
<1> HIDE DEF due, todo
<1>3. /\ c.pc = "open" /\ c.command = command /\ c.place = "live" /\ c.due = due
      /\ c.todo = todo /\ c.parsed = {} /\ c.buffer = Empty
  BY DEF AtRest
<1> HIDE DEF c
<1>4. worker'[w] = c /\ Others(w)
  BY <1>1, <1>2 DEF Others
<1> QED
  BY <1>3, <1>4 DEF due, todo

Ends(w, pc) ==
    /\ Others(w)
    /\ worker'[w].pc = pc /\ worker'[w].parsed = {} /\ worker'[w].todo = {}
    /\ worker'[w].buffer = Empty

LEMMA EndsEffect ==
    ASSUME Typed, NEW w \in Worker, NEW pc, worker' = [worker EXCEPT ![w] = [AtRest EXCEPT !.pc = pc]]
    PROVE  Ends(w, pc)
<1> DEFINE c == [AtRest EXCEPT !.pc = pc]
<1>1. PICK S : worker \in [Worker -> Local(S)]
  BY DEF Typed, TypedIn
<1>2. c.pc = pc /\ c.todo = {} /\ c.parsed = {} /\ c.buffer = Empty
  BY DEF AtRest
<1> HIDE DEF c
<1>3. worker'[w] = c /\ Others(w)
  BY <1>1 DEF Others, c
<1> QED
  BY <1>2, <1>3 DEF Ends

LEMMA EndsOnRest ==
    ASSUME Typed, NEW w \in Worker,
           \/ LockIsHeld(w) \/ EndCommand(w) \/ Lag(w) \/ AbandonBatch(w) \/ KillWorker(w)
           \/ PublishBatch(w) \/ StartCommand(w, "consolidate")
           \/ ReadBatch(w) /\ worker' = [worker EXCEPT ![w] = AtRest]
    PROVE  (\E pc \in {"idle", "lag", "batch"} : Ends(w, pc)) /\ UNCHANGED disk
<1>1. AtRest = [AtRest EXCEPT !.pc = "idle"]
  BY DEF AtRest
<1> DEFINE Goes == \E pc \in {"idle", "lag", "batch"} :
                        worker' = [worker EXCEPT ![w] = [AtRest EXCEPT !.pc = pc]]
<1>2. LockIsHeld(w) \/ EndCommand(w) => Goes
  BY DEF LockIsHeld, EndCommand, AfterCommand
<1>3. Lag(w) => Goes
  BY DEF Lag
<1>4. AbandonBatch(w) \/ KillWorker(w) \/ worker' = [worker EXCEPT ![w] = AtRest] => Goes
  BY <1>1 DEF AbandonBatch, KillWorker
<1>5. PublishBatch(w) => Goes
  BY DEF PublishBatch
<1>6. StartCommand(w, "consolidate") => Goes
  BY DEF StartCommand
<1>7. UNCHANGED disk
  BY DEF LockIsHeld, EndCommand, Lag, AbandonBatch, KillWorker, PublishBatch, StartCommand, ReadBatch
<1> HIDE DEF Goes
<1>8. Goes
  BY <1>2, <1>3, <1>4, <1>5, <1>6
<1> QED
  BY <1>7, <1>8, EndsEffect DEF Goes

(* The rest of its steps. *)
LEMMA LockEffects ==
    ASSUME Typed, NEW w \in Worker
    PROVE  /\ OpenWriter(w) =>
                /\ Others(w) /\ worker[w].pc = "open"
                /\ worker'[w].pc = IF worker[w].command = "local" THEN "list" ELSE "write"
                /\ worker'[w].seen = {r.id : r \in OnDisk}
                /\ worker'[w].command = worker[w].command /\ worker'[w].place = worker[w].place
                /\ worker'[w].todo = worker[w].todo /\ worker'[w].parsed = worker[w].parsed
                /\ worker'[w].due = worker[w].due /\ worker'[w].buffer = worker[w].buffer
           /\ ListRoot(w) =>
                /\ Others(w) /\ worker[w].pc = "list" /\ worker'[w].pc = "write"
                /\ worker'[w].seen = worker[w].seen
                /\ worker'[w].command = worker[w].command /\ worker'[w].place = worker[w].place
                /\ worker'[w].todo = ListedIn("local", worker[w].place) \X {worker[w].place}
                /\ worker'[w].parsed = worker[w].parsed
                /\ worker'[w].due = worker[w].due \ PassedOver(Unlistable(worker[w].place))
                /\ worker'[w].buffer = worker[w].buffer
           /\ NextRoot(w) =>
                /\ Others(w) /\ worker[w].pc = "write" /\ worker'[w].pc = "list"
                /\ worker'[w].seen = worker[w].seen
                /\ worker'[w].command = worker[w].command /\ worker'[w].place = "archive"
                /\ worker[w].command = "local" /\ NothingLeft(w)
                /\ worker'[w].todo = worker[w].todo /\ worker'[w].parsed = worker[w].parsed
                /\ worker'[w].due = worker[w].due /\ worker'[w].buffer = worker[w].buffer
<1>1. PICK S : worker \in [Worker -> Local(S)]
  BY DEF Typed, TypedIn
<1>2. worker[w] \in Local(S)
  BY <1>1
<1>3. ASSUME OpenWriter(w)
      PROVE  /\ Others(w) /\ worker[w].pc = "open"
             /\ worker'[w].pc = IF worker[w].command = "local" THEN "list" ELSE "write"
             /\ worker'[w].seen = {r.id : r \in OnDisk}
             /\ worker'[w].command = worker[w].command /\ worker'[w].place = worker[w].place
             /\ worker'[w].todo = worker[w].todo /\ worker'[w].parsed = worker[w].parsed
             /\ worker'[w].due = worker[w].due /\ worker'[w].buffer = worker[w].buffer
  <2> DEFINE ids == {r.id : r \in OnDisk}
             pc == IF worker[w].command = "local" THEN "list" ELSE "write"
             next == LastSeq + 1
  <2>1. worker' = [worker EXCEPT ![w].pc = pc, ![w].seen = ids, ![w].next = next]
    BY <1>3 DEF OpenWriter
  <2> HIDE DEF ids, pc, next
  <2>2. /\ Others(w) /\ worker'[w].pc = pc /\ worker'[w].seen = ids
        /\ worker'[w].command = worker[w].command /\ worker'[w].place = worker[w].place
        /\ worker'[w].todo = worker[w].todo /\ worker'[w].parsed = worker[w].parsed
        /\ worker'[w].due = worker[w].due /\ worker'[w].buffer = worker[w].buffer
    BY <1>1, <1>2, <2>1 DEF Local, Others
  <2> QED
    BY <1>3, <2>2 DEF OpenWriter, Does, ids, pc
<1>4. ASSUME ListRoot(w)
      PROVE  /\ Others(w) /\ worker[w].pc = "list" /\ worker'[w].pc = "write"
             /\ worker'[w].seen = worker[w].seen
             /\ worker'[w].command = worker[w].command /\ worker'[w].place = worker[w].place
             /\ worker'[w].todo = ListedIn("local", worker[w].place) \X {worker[w].place}
             /\ worker'[w].parsed = worker[w].parsed
             /\ worker'[w].due = worker[w].due \ PassedOver(Unlistable(worker[w].place))
             /\ worker'[w].buffer = worker[w].buffer
  <2> DEFINE todo == ListedIn("local", worker[w].place) \X {worker[w].place}
             due == worker[w].due \ PassedOver(Unlistable(worker[w].place))
  <2>1. worker' = [worker EXCEPT ![w].pc = "write", ![w].todo = todo, ![w].due = due]
    BY <1>4 DEF ListRoot
  <2> HIDE DEF todo, due
  <2>2. /\ Others(w) /\ worker'[w].pc = "write" /\ worker'[w].todo = todo
        /\ worker'[w].seen = worker[w].seen
        /\ worker'[w].command = worker[w].command /\ worker'[w].place = worker[w].place
        /\ worker'[w].parsed = worker[w].parsed
        /\ worker'[w].due = due /\ worker'[w].buffer = worker[w].buffer
    BY <1>1, <1>2, <2>1 DEF Local, Others
  <2> QED
    BY <1>4, <2>2 DEF ListRoot, Does, todo, due
<1>5. ASSUME NextRoot(w)
      PROVE  /\ Others(w) /\ worker[w].pc = "write" /\ worker'[w].pc = "list"
             /\ worker'[w].seen = worker[w].seen
             /\ worker'[w].command = worker[w].command /\ worker'[w].place = "archive"
             /\ worker[w].command = "local" /\ NothingLeft(w)
             /\ worker'[w].todo = worker[w].todo /\ worker'[w].parsed = worker[w].parsed
             /\ worker'[w].due = worker[w].due /\ worker'[w].buffer = worker[w].buffer
  BY <1>1, <1>2, <1>5 DEF NextRoot, Does, Local, Others
<1> QED
  BY <1>3, <1>4, <1>5

LEMMA BatchEffect ==
    ASSUME Typed, NEW w \in Worker, ReadBatch(w), worker' # [worker EXCEPT ![w] = AtRest]
    PROVE  /\ Others(w) /\ worker'[w].pc = "publish"
           /\ worker'[w].command = worker[w].command
           /\ worker'[w].todo = worker[w].todo /\ worker'[w].parsed = worker[w].parsed
           /\ worker'[w].buffer = worker[w].buffer
<1>1. PICK S : worker \in [Worker -> Local(S)]
  BY DEF Typed, TypedIn
<1>2. worker[w] \in Local(S)
  BY <1>1
<1>3. PICK end, window :
         worker' = [worker EXCEPT ![w].pc = "publish", ![w].from = through,
                                  ![w].end = end, ![w].window = window]
  BY DEF ReadBatch
<1> QED
  BY <1>1, <1>2, <1>3 DEF Local, Others

(* Other programs only take from what is due. *)
LEMMA LostEffect ==
    ASSUME Typed, NEW n, NEW commands, Lost(n, commands), NEW v \in Worker
    PROVE  /\ worker'[v].pc = worker[v].pc /\ worker'[v].command = worker[v].command
           /\ worker'[v].place = worker[v].place
           /\ worker'[v].todo = worker[v].todo /\ worker'[v].parsed = worker[v].parsed
           /\ worker'[v].seen = worker[v].seen /\ worker'[v].buffer = worker[v].buffer
           /\ worker'[v].due \subseteq worker[v].due
           /\ worker[v].command \in commands => worker'[v].due \cap Messages(n) = {}
<1>1. PICK S : worker \in [Worker -> Local(S)]
  BY DEF Typed, TypedIn
<1>2. worker[v] \in Local(S)
  BY <1>1
<1> DEFINE due == worker[v].due \ Messages(n)
<1>3. due \subseteq worker[v].due /\ due \cap Messages(n) = {}
  OBVIOUS
<1>4. worker'[v] = IF worker[v].command \in commands THEN [worker[v] EXCEPT !.due = due] ELSE worker[v]
  BY DEF Lost
<1> HIDE DEF due
<1> QED
  BY <1>2, <1>3, <1>4 DEF Local

-----------------------------------------------------------------------------
(* What is read of the files is what gets to the journal. *)

IsEvent(e) == e = Event(e.id, e.msg, e.project)

(* All that any command reads of any file, filed under its project, is in E. *)
Reads(E) ==
    \A command \in Command : \A n \in Looks(command) : \A events \in Readings(n) :
        \A k \in DOMAIN events :
            IsEvent(events[k]) /\ Tagged(events, TagOf(command, n))[k] \in E

Said(E, x) == Event(x.id, x.msg, x.project) \in E

IsRead(E, f) ==
    /\ f = [day |-> f.day, begun |-> f.begun, events |-> f.events]
    /\ \A k \in DOMAIN f.events : Said(E, f.events[k])

(* Who has the lock knows no id but those that are there. *)
Carries(E, c) ==
    /\ \A r \in Buffered(c) : Said(E, r)
    /\ \A f \in c.parsed : IsRead(E, f)
    /\ \A item \in c.todo : item[1] \in Looks(c.command)
    /\ c.pc = "list" => c.command = "local"
    /\ c.pc \in Holding => \A id \in c.seen : \E r \in OnDisk \cup Buffered(c) : r.id = id

SaidInv(E) ==
    /\ \A r \in OnDisk : Said(E, r)
    /\ \A w \in Worker : Carries(E, worker[w])

LEMMA SourcesAreStill ==
    ASSUME NEW w, IntakeStep(w)
    PROVE  UNCHANGED <<world, grown, tail, archived>> /\ (UNCHANGED owed \/ EndCommand(w))
<1>1. ASSUME NEW command, StartCommand(w, command)
      PROVE  UNCHANGED <<world, grown, tail, archived, owed>>
  BY <1>1 DEF StartCommand, sources
<1>2. CASE OpenWriter(w) \/ LockIsHeld(w) \/ ListRoot(w) \/ NextRoot(w) \/ Lag(w)
  BY <1>2 DEF OpenWriter, LockIsHeld, ListRoot, NextRoot, Lag, sources
<1>3. ASSUME NEW x, ReadFile(w, x) \/ AppendEvent(w, x) \/ WriteBuffer(w, x)
      PROVE  UNCHANGED <<world, grown, tail, archived, owed>>
  BY <1>3 DEF ReadFile, AppendEvent, WriteBuffer, sources
<1>4. CASE ReadBatch(w) \/ PublishBatch(w) \/ AbandonBatch(w) \/ KillWorker(w)
  BY <1>4 DEF ReadBatch, PublishBatch, AbandonBatch, KillWorker, sources
<1>5. CASE EndCommand(w)
  BY <1>5 DEF EndCommand, sources
<1> QED
  BY <1>1, <1>2, <1>3, <1>4, <1>5 DEF IntakeStep

LEMMA WorldIsStill ==
    ASSUME [IntakeNext]_intakeVars
    PROVE  UNCHANGED world
<1>1. ASSUME NEW n, Writes(n) \/ Archives(n)
      PROVE  UNCHANGED world
  BY <1>1 DEF Writes, Archives
<1>2. CASE Midnight \/ UNCHANGED intakeVars
  BY <1>2 DEF Midnight, intakeVars, sources
<1> QED
  BY <1>1, <1>2, SourcesAreStill DEF IntakeNext

LEMMA LooksAreStill ==
    ASSUME UNCHANGED world
    PROVE  \A command : Looks(command)' = Looks(command)
BY DEF Looks, Walked, Names

LEMMA PromisesAreStill ==
    ASSUME UNCHANGED world
    PROVE  Promised("local")' = Promised("local")
<1>1. Looks("local")' = Looks("local")
  BY LooksAreStill
<1> QED
  BY <1>1 DEF Promised

LEMMA LooksForCommands ==
    ASSUME NEW command, NEW n \in Looks(command)
    PROVE  command \in {"local", "all", "paths"} /\ command \in Command
BY DEF Looks, Command

LEMMA OthersCarry ==
    ASSUME NEW E, SaidInv(E), NEW w \in Worker, Others(w), UNCHANGED world,
           OnDisk \subseteq OnDisk', NEW v \in Worker \ {w}
    PROVE  Carries(E, worker[v])'
<1>1. Carries(E, worker[v]) /\ worker'[v] = worker[v]
  BY DEF SaidInv, Others
<1>2. Looks(worker[v].command)' = Looks(worker[v].command)
  BY <1>1, LooksAreStill
<1> QED
  BY <1>1, <1>2 DEF Carries

LEMMA NobodyWrote ==
    ASSUME UNCHANGED disk
    PROVE  OnDisk' = OnDisk
BY DEF OnDisk

LEMMA NoBuffer == ASSUME NEW c, c.buffer = Empty
                  PROVE  Buffered(c) = {}
BY DEF Buffered, RecordsIn, Empty

(* A file that was read tells what Tagged makes of a reading. *)
LEMMA TaggedIsSaid ==
    ASSUME NEW E, Reads(E), NEW command, NEW n \in Looks(command), NEW events \in Readings(n)
    PROVE  /\ DOMAIN Tagged(events, TagOf(command, n)) = DOMAIN events
           /\ \A k \in DOMAIN events :
                 /\ Said(E, Tagged(events, TagOf(command, n))[k])
                 /\ Tagged(events, TagOf(command, n))[k].id = events[k].id
                 /\ Tagged(events, TagOf(command, n))[k].msg = events[k].msg
<1> DEFINE project == TagOf(command, n)
           tagged == Tagged(events, project)
<1>1. command \in Command
  BY LooksForCommands
<1>2. DOMAIN tagged = DOMAIN events
  BY DEF Tagged
<1>3. ASSUME NEW k \in DOMAIN events
      PROVE  Said(E, tagged[k]) /\ tagged[k].id = events[k].id /\ tagged[k].msg = events[k].msg
  <2>1. IsEvent(events[k]) /\ tagged[k] \in E
    BY <1>1 DEF Reads
  <2>2. PICK p : tagged[k] = [events[k] EXCEPT !.project = p]
    BY DEF Tagged
  <2>3. PICK i, m, q : events[k] = [id |-> i, msg |-> m, project |-> q] /\ i = events[k].id /\ m = events[k].msg
    BY <2>1 DEF IsEvent, Event
  <2>4. tagged[k] = [id |-> i, msg |-> m, project |-> p]
    BY <2>2, <2>3
  <2> HIDE DEF tagged
  <2>5. tagged[k] = Event(tagged[k].id, tagged[k].msg, tagged[k].project)
    BY <2>4 DEF Event
  <2> QED
    BY <2>1, <2>3, <2>4, <2>5 DEF Said
<1> QED
  BY <1>2, <1>3

LEMMA SaidStep ==
    ASSUME NEW E, Reads(E), IntakeInv, SaidInv(E), [IntakeNext]_intakeVars
    PROVE  SaidInv(E)'
<1>0. Typed
  BY DEF IntakeInv
<1>1. UNCHANGED world
  BY WorldIsStill
<1>2. \A command : Looks(command)' = Looks(command)
  BY <1>1, LooksAreStill
<1>3. CASE UNCHANGED <<disk, worker>>
  <2>1. OnDisk' = OnDisk
    BY <1>3, NobodyWrote
  <2>2. ASSUME NEW v \in Worker
        PROVE  Carries(E, worker[v])'
    <3>1. Carries(E, worker[v]) /\ worker'[v] = worker[v]
      BY <1>3 DEF SaidInv
    <3> QED
      BY <1>2, <2>1, <3>1 DEF Carries
  <2> QED
    BY <2>1, <2>2 DEF SaidInv
<1>4. ASSUME NEW n, NEW commands, Lost(n, commands), UNCHANGED disk
      PROVE  SaidInv(E)'
  <2>1. OnDisk' = OnDisk
    BY <1>4, NobodyWrote
  <2>2. ASSUME NEW v \in Worker
        PROVE  Carries(E, worker[v])'
    <3>1. Carries(E, worker[v])
      BY DEF SaidInv
    <3>2. /\ worker'[v].pc = worker[v].pc /\ worker'[v].command = worker[v].command
          /\ worker'[v].todo = worker[v].todo /\ worker'[v].parsed = worker[v].parsed
          /\ worker'[v].seen = worker[v].seen /\ worker'[v].buffer = worker[v].buffer
      BY <1>0, <1>4, LostEffect
    <3> QED
      BY <1>2, <2>1, <3>1, <3>2 DEF Carries, Buffered
  <2> QED
    BY <2>1, <2>2 DEF SaidInv
<1>5. ASSUME NEW w \in Worker, Others(w), UNCHANGED disk, Carries(E, worker[w])'
      PROVE  SaidInv(E)'
  <2>1. OnDisk' = OnDisk
    BY <1>5, NobodyWrote
  <2>2. \A v \in Worker : Carries(E, worker[v])'
    BY <1>1, <1>5, <2>1, OthersCarry
  <2> QED
    BY <2>1, <2>2 DEF SaidInv
<1>6. ASSUME NEW w \in Worker, NEW pc \in {"idle", "lag", "batch"}, Ends(w, pc), UNCHANGED disk
      PROVE  SaidInv(E)'
  <2>1. Others(w) /\ worker'[w].buffer = Empty /\ worker'[w].parsed = {}
        /\ worker'[w].todo = {} /\ worker'[w].pc \notin Holding /\ worker'[w].pc # "list"
    BY <1>6 DEF Ends, Holding
  <2>2. Carries(E, worker[w])'
    BY <2>1, NoBuffer DEF Carries
  <2> QED
    BY <1>5, <1>6, <2>1, <2>2
<1>7. ASSUME NEW w \in Worker, NEW command, StartCommand(w, command)
      PROVE  SaidInv(E)'
  <2>1. CASE command = "consolidate"
    BY <1>0, <1>6, <1>7, <2>1, EndsOnRest
  <2>2. CASE command # "consolidate"
    <3>1. /\ Others(w) /\ worker'[w].pc = "open" /\ worker'[w].command = command
          /\ worker'[w].todo = Listed(command)
          /\ worker'[w].parsed = {} /\ worker'[w].buffer = Empty
      BY <1>0, <1>7, <2>2, BeginsEffect
    <3>2. \A item \in worker'[w].todo : item[1] \in Looks(command)
      BY <3>1 DEF Listed, ListedIn
    <3>3. Carries(E, worker[w])'
      BY <1>2, <3>1, <3>2, NoBuffer DEF Carries, Holding
    <3>4. UNCHANGED disk
      BY <1>7 DEF StartCommand
    <3> QED
      BY <1>5, <3>1, <3>3, <3>4
  <2> QED
    BY <2>1, <2>2
<1>8. ASSUME NEW w \in Worker, OpenWriter(w) \/ ListRoot(w) \/ NextRoot(w)
      PROVE  SaidInv(E)'
  <2>1. /\ Others(w) /\ worker'[w].command = worker[w].command
        /\ worker'[w].parsed = worker[w].parsed /\ worker'[w].buffer = worker[w].buffer
    BY <1>0, <1>8, LockEffects
  <2>2. UNCHANGED disk /\ OnDisk' = OnDisk
    <3>1. UNCHANGED disk
      BY <1>8 DEF OpenWriter, ListRoot, NextRoot
    <3> QED
      BY <3>1, NobodyWrote
  <2>3. Carries(E, worker[w]) /\ Buffered(worker'[w]) = Buffered(worker[w])
    BY <2>1 DEF SaidInv, Buffered
  <2>4. ASSUME NEW item \in worker'[w].todo
        PROVE  item[1] \in Looks(worker[w].command)
    <3>1. CASE OpenWriter(w) \/ NextRoot(w)
      BY <1>0, <2>3, <2>4, <3>1, LockEffects DEF Carries
    <3>2. CASE ListRoot(w)
      <4>1. item[1] \in Looks("local") /\ worker[w].pc = "list"
        BY <1>0, <2>4, <3>2, LockEffects DEF ListedIn
      <4>2. worker[w].command = "local"
        BY <2>3, <4>1 DEF Carries
      <4> QED
        BY <4>1, <4>2
    <3> QED
      BY <1>8, <3>1, <3>2
  <2>5. worker'[w].pc \in Holding =>
           \A id \in worker'[w].seen : \E r \in OnDisk \cup Buffered(worker[w]) : r.id = id
    <3>1. CASE OpenWriter(w)
      BY <1>0, <3>1, LockEffects
    <3>2. CASE ListRoot(w) \/ NextRoot(w)
      <4>1. worker[w].pc \in Holding /\ worker'[w].seen = worker[w].seen
        BY <1>0, <3>2, LockEffects DEF Holding
      <4> QED
        BY <2>3, <4>1 DEF Carries
    <3> QED
      BY <1>8, <3>1, <3>2
  <2>6. worker'[w].pc = "list" => worker'[w].command = "local"
    BY <1>0, <1>8, LockEffects
  <2>7. Carries(E, worker[w])'
    BY <1>2, <2>1, <2>2, <2>3, <2>4, <2>5, <2>6 DEF Carries
  <2> QED
    BY <1>5, <2>1, <2>2, <2>7
<1>9. ASSUME NEW w \in Worker, NEW item, ReadFile(w, item)
      PROVE  SaidInv(E)'
  <2>1. /\ Others(w) /\ GoesOn(worker'[w], worker[w])
        /\ worker[w].pc = "write" /\ item \in worker[w].todo
        /\ worker'[w].seen = worker[w].seen /\ worker'[w].buffer = worker[w].buffer
        /\ worker'[w].todo = worker[w].todo \ {item}
        /\ \/ \E events \in Readings(item[1]) :
                 worker'[w].parsed = worker[w].parsed \cup
                     {[day |-> day, begun |-> FALSE,
                       events |-> Tagged(events, TagOf(worker[w].command, item[1]))]}
           \/ worker'[w].parsed = worker[w].parsed
    BY <1>0, <1>9, ReadFileEffect
  <2>2. UNCHANGED disk /\ OnDisk' = OnDisk
    <3>1. UNCHANGED disk
      BY <1>9 DEF ReadFile
    <3> QED
      BY <3>1, NobodyWrote
  <2>3. Carries(E, worker[w]) /\ Buffered(worker'[w]) = Buffered(worker[w])
    BY <2>1 DEF SaidInv, Buffered
  <2>4. item[1] \in Looks(worker[w].command)
    BY <2>1, <2>3 DEF Carries
  <2>5. ASSUME NEW f \in worker'[w].parsed
        PROVE  IsRead(E, f)
    <3>1. CASE f \in worker[w].parsed
      BY <2>3, <3>1 DEF Carries
    <3>2. ASSUME NEW events \in Readings(item[1]),
                 f = [day |-> day, begun |-> FALSE,
                      events |-> Tagged(events, TagOf(worker[w].command, item[1]))]
          PROVE  IsRead(E, f)
      <4> DEFINE tagged == Tagged(events, TagOf(worker[w].command, item[1]))
      <4>1. \A k \in DOMAIN tagged : Said(E, tagged[k])
        BY <2>4, TaggedIsSaid
      <4> HIDE DEF tagged
      <4>2. f = [day |-> day, begun |-> FALSE, events |-> tagged]
        BY <3>2 DEF tagged
      <4> QED
        BY <4>1, <4>2 DEF IsRead
    <3> QED
      BY <2>1, <2>5, <3>1, <3>2
  <2>6. Carries(E, worker[w])'
    BY <1>2, <2>1, <2>2, <2>3, <2>5 DEF Carries, GoesOn
  <2> QED
    BY <1>5, <2>1, <2>2, <2>6
<1>10. ASSUME NEW w \in Worker, NEW file, AppendEvent(w, file)
       PROVE  SaidInv(E)'
  <2>1. /\ Others(w) /\ GoesOn(worker'[w], worker[w])
        /\ worker[w].pc = "write" /\ file \in worker[w].parsed
        /\ worker'[w].todo = worker[w].todo
        /\ \/ /\ worker'[w].parsed = worker[w].parsed \ {file}
              /\ worker'[w].seen = worker[w].seen
              /\ Buffered(worker'[w]) = Buffered(worker[w])
           \/ \E k, r : Took(w, file, k, r)
    BY <1>10, AppendEventEffect
  <2>2. UNCHANGED disk /\ OnDisk' = OnDisk
    <3>1. UNCHANGED disk
      BY <1>10 DEF AppendEvent
    <3> QED
      BY <3>1, NobodyWrote
  <2>3. Carries(E, worker[w])
    BY DEF SaidInv
  <2>4. CASE /\ worker'[w].parsed = worker[w].parsed \ {file}
             /\ worker'[w].seen = worker[w].seen
             /\ Buffered(worker'[w]) = Buffered(worker[w])
    <3>1. /\ worker'[w].pc = worker[w].pc /\ worker'[w].command = worker[w].command
          /\ worker'[w].todo = worker[w].todo /\ worker'[w].parsed \subseteq worker[w].parsed
      BY <2>1, <2>4 DEF GoesOn
    <3>2. Looks(worker[w].command)' = Looks(worker[w].command)
      BY <1>2, <3>1
    <3>3. \A r \in Buffered(worker'[w]) : Said(E, r)
      BY <2>3, <2>4 DEF Carries
    <3>4. worker[w].pc \in Holding =>
             \A id \in worker[w].seen : \E r \in OnDisk \cup Buffered(worker[w]) : r.id = id
      BY <2>3 DEF Carries
    <3>5. worker'[w].pc \in Holding =>
             \A id \in worker'[w].seen : \E r \in OnDisk' \cup Buffered(worker'[w]) : r.id = id
      BY <2>2, <2>4, <3>1, <3>4
    <3>6. Carries(E, worker[w])'
      BY <2>3, <3>1, <3>2, <3>3, <3>5 DEF Carries
    <3> QED
      BY <1>5, <2>1, <2>2, <3>6
  <2>5. ASSUME NEW k, NEW r, Took(w, file, k, r)
        PROVE  Carries(E, worker[w])'
    <3>1. k \in DOMAIN file.events /\ IsRead(E, file)
      BY <2>1, <2>3, <2>5 DEF Took, NewEvents, Carries
    <3>2. Said(E, r)
      BY <2>5, <3>1 DEF Took, IsRead, Said
    <3>3. IsRead(E, [file EXCEPT !.begun = TRUE])
      <4>1. PICK d, b, events : /\ file = [day |-> d, begun |-> b, events |-> events]
                                /\ \A j \in DOMAIN events : Said(E, events[j])
        BY <3>1 DEF IsRead
      <4>2. [file EXCEPT !.begun = TRUE] = [day |-> d, begun |-> TRUE, events |-> events]
        <5>1. \A t : [[day |-> d, begun |-> b, events |-> events] EXCEPT !.begun = t]
                = [day |-> d, begun |-> t, events |-> events]
          OBVIOUS
        <5> QED
          BY <4>1, <5>1, Zenon
      <4>3. IsRead(E, [day |-> d, begun |-> TRUE, events |-> events])
        BY <4>1 DEF IsRead
      <4> QED
        BY <4>2, <4>3
    <3>4. \A f \in worker'[w].parsed : IsRead(E, f)
      BY <2>3, <2>5, <3>3 DEF Took, Carries
    <3>5. \A id \in worker'[w].seen : \E q \in OnDisk' \cup Buffered(worker'[w]) : q.id = id
      <4>1. worker[w].pc \in Holding
        BY <2>1 DEF Holding
      <4>2. \A id \in worker[w].seen : \E q \in OnDisk \cup Buffered(worker[w]) : q.id = id
        BY <2>3, <4>1 DEF Carries
      <4> QED
        BY <2>2, <2>5, <4>2 DEF Took
    <3> QED
      BY <1>2, <2>1, <2>3, <2>5, <3>2, <3>4, <3>5 DEF Took, Carries, GoesOn
  <2> QED
    BY <1>5, <2>1, <2>2, <2>4, <2>5
<1>11. ASSUME NEW w \in Worker, NEW d \in Days, WriteBuffer(w, d)
       PROVE  SaidInv(E)'
  <2>1. /\ Others(w) /\ GoesOn(worker'[w], worker[w]) /\ worker[w].pc = "write"
        /\ worker'[w].todo = worker[w].todo /\ worker'[w].parsed = worker[w].parsed
        /\ worker'[w].seen = worker[w].seen
        /\ OnDisk \subseteq OnDisk'
        /\ OnDisk' \cup Buffered(worker'[w]) = OnDisk \cup Buffered(worker[w])
    BY <1>11, WriteBufferEffect
  <2>2. Carries(E, worker[w]) /\ \A r \in OnDisk \cup Buffered(worker[w]) : Said(E, r)
    BY DEF SaidInv, Carries
  <2>3. Carries(E, worker[w])'
    BY <1>2, <2>1, <2>2 DEF Carries, GoesOn
  <2>4. \A v \in Worker : Carries(E, worker[v])'
    BY <1>1, <2>1, <2>3, OthersCarry
  <2>5. \A r \in OnDisk' : Said(E, r)
    BY <2>1, <2>2
  <2> QED
    BY <2>4, <2>5 DEF SaidInv
<1>12. ASSUME NEW w \in Worker, ReadBatch(w)
       PROVE  SaidInv(E)'
  <2>1. UNCHANGED disk /\ OnDisk' = OnDisk
    <3>1. UNCHANGED disk
      BY <1>12 DEF ReadBatch
    <3> QED
      BY <3>1, NobodyWrote
  <2>2. CASE worker' = [worker EXCEPT ![w] = AtRest]
    BY <1>0, <1>6, <1>12, <2>2, EndsOnRest
  <2>3. CASE worker' # [worker EXCEPT ![w] = AtRest]
    <3>1. /\ Others(w) /\ worker'[w].pc = "publish"
          /\ worker'[w].command = worker[w].command
          /\ worker'[w].todo = worker[w].todo /\ worker'[w].parsed = worker[w].parsed
          /\ worker'[w].buffer = worker[w].buffer
      BY <1>0, <1>12, <2>3, BatchEffect
    <3>2. Carries(E, worker[w])
      BY DEF SaidInv
    <3>3. Carries(E, worker[w])'
      BY <1>2, <3>1, <3>2 DEF Carries, Holding, Buffered
    <3> QED
      BY <1>5, <2>1, <3>1, <3>3
  <2> QED
    BY <2>2, <2>3
<1>13. ASSUME NEW w \in Worker,
              LockIsHeld(w) \/ EndCommand(w) \/ Lag(w) \/ AbandonBatch(w) \/ KillWorker(w) \/ PublishBatch(w)
       PROVE  SaidInv(E)'
  BY <1>0, <1>6, <1>13, EndsOnRest
<1>14. ASSUME NEW n \in Names, Writes(n) \/ Archives(n)
       PROVE  SaidInv(E)'
  BY <1>4, <1>14 DEF Writes, Archives
<1>15. CASE Midnight \/ UNCHANGED intakeVars
  BY <1>3, <1>15 DEF Midnight, intakeVars
<1>16. ASSUME NEW w \in Worker, IntakeStep(w)
       PROVE  SaidInv(E)'
  BY <1>7, <1>8, <1>9, <1>10, <1>11, <1>12, <1>13, <1>16 DEF IntakeStep
<1> QED
  BY <1>14, <1>15, <1>16 DEF IntakeNext

LEMMA InitSaid ==
    ASSUME NEW E, IntakeInit
    PROVE  SaidInv(E)
<1>1. disk = Empty /\ \A w \in Worker : worker[w] = AtRest
  BY DEF IntakeInit
<1>2. OnDisk = {}
  BY <1>1 DEF OnDisk, Empty
<1>3. AtRest.buffer = Empty /\ AtRest.parsed = {} /\ AtRest.todo = {} /\ AtRest.pc \notin Holding
      /\ AtRest.pc # "list"
  BY DEF AtRest, Holding
<1>4. \A w \in Worker : Carries(E, worker[w])
  BY <1>1, <1>3, NoBuffer DEF Carries
<1> QED
  BY <1>2, <1>4 DEF SaidInv

(* All that the journal says some reader told: whatever commands run, are   *)
(* killed or write at the same time, no record is made up, put together of *)
(* two others or filed elsewhere than its reader and its command say.      *)
THEOREM NothingInvented ==
    ASSUME NEW E
    PROVE  IntakeSpec /\ []Reads(E) => []SaidInv(E)
<1>1. IntakeInit => SaidInv(E)
  BY InitSaid
<1>2. Reads(E) /\ IntakeInv /\ SaidInv(E) /\ [IntakeNext]_intakeVars => SaidInv(E)'
  BY SaidStep
<1> QED
  BY <1>1, <1>2, IntakeInvariant, PTL DEF IntakeSpec

-----------------------------------------------------------------------------
(* What a command that ends without an error has taken in. *)

(* A reader leaves out no message of a file that it can read, whether all  *)
(* of it is written or not.                                                *)
ReadingsWhole ==
    \A n \in Names : ~ReadFails(n) =>
        \A events \in Readings(n) : \A msg \in Messages(n) :
            \E k \in DOMAIN events : events[k].msg = msg

(* backfill-local finds a session of the project by its folder, or by what *)
(* the rollout says if it can be read.                                     *)
FoundByProject ==
    \A n \in Promised("local") : Messages(n) # {} /\ ~CwdFails(n) => OfProject(n)

(* An id is of one message. *)
Tells(E) == \A d, e \in E : d.id = e.id => d.msg = e.msg

(* The files that w has yet to come to: where they are now they are on its *)
(* list, or it will look there later.                                      *)
ToRead(w) ==
    {n \in Looks(worker[w].command) :
        \/ worker[w].command # "local" /\ <<n, PlaceOf(n)>> \in worker[w].todo
        \/ /\ worker[w].command = "local" /\ n \in Promised("local")
           /\ \/ worker[w].place = "live" /\ worker[w].pc \in {"open", "list"}
              \/ worker[w].place = "live" /\ worker[w].pc = "write"
                 /\ (n \in archived \/ <<n, "live">> \in worker[w].todo)
              \/ n \in archived /\ worker[w].place = "archive" /\ worker[w].pc = "list"
              \/ n \in archived /\ worker[w].place = "archive" /\ worker[w].pc = "write"
                 /\ <<n, "archive">> \in worker[w].todo}

InHand(w, msg) == \E f \in worker[w].parsed : \E k \in DOMAIN f.events : f.events[k].msg = msg

Pending(w, msg) ==
    \/ \E r \in OnDisk \cup Buffered(worker[w]) : r.msg = msg
    \/ InHand(w, msg)
    \/ \E n \in ToRead(w) : msg \in Messages(n)

Expects(w) ==
    worker[w].pc \in {"open"} \cup Holding => \A msg \in worker[w].due : Pending(w, msg)

(* How far each file is written, and the part of its next line. *)
Written(g, t) == g \in [Names -> Nat] /\ t \in [Names -> {<<>>} \cup {<<cut>> : cut \in Cuts}]

KeptInv ==
    /\ Written(grown, tail)
    /\ \A w \in Worker : Expects(w)
    /\ MessageKept

LEMMA OthersExpect ==
    ASSUME KeptInv, NEW w \in Worker, Others(w), UNCHANGED <<world, grown, tail, archived>>,
           OnDisk \subseteq OnDisk', NEW v \in Worker \ {w}
    PROVE  Expects(v)'
<1>1. Expects(v) /\ worker'[v] = worker[v]
  BY DEF KeptInv, Others
<1>2. \A n : Messages(n)' = Messages(n)
  BY DEF Messages
<1>3. ToRead(v)' = ToRead(v)
  <2>1. Looks(worker[v].command)' = Looks(worker[v].command)
    BY <1>1, LooksAreStill
  <2> QED
    BY <1>1, <2>1, PromisesAreStill DEF ToRead, PlaceOf
<1>4. \A msg : InHand(v, msg) => InHand(v, msg)'
  BY <1>1 DEF InHand
<1> QED
  BY <1>1, <1>2, <1>3, <1>4 DEF Expects, Pending

(* A message that was once in a file stays there, but for a memory file. *)
LEMMA MessagesStay ==
    ASSUME KeptInv, NEW n \in Names, Writes(n) \/ Archives(n), NEW m \in Names,
           m # n \/ world[m].kind # "md" \/ Archives(n)
    PROVE  Messages(m) \subseteq Messages(m)'
<1>1. UNCHANGED world /\ Written(grown, tail)
  BY DEF Writes, Archives, KeptInv
<1>2. CASE Archives(n)
  BY <1>1, <1>2 DEF Messages, Archives
<1>3. CASE Writes(n) /\ m # n
  <2>1. grown'[m] = grown[m] /\ tail'[m] = tail[m]
    BY <1>1, <1>3 DEF Writes, Written
  <2> QED
    BY <1>1, <2>1 DEF Messages
<1>4. CASE Writes(n) /\ m = n /\ world[m].kind # "md"
  <2>1. grown[m] \in Nat /\ (grown'[m] = grown[m] \/ grown'[m] = grown[m] + 1)
    BY <1>1, <1>4 DEF Writes, Written
  <2>2. 1..grown[m] \subseteq 1..grown'[m]
    BY <2>1
  <2> QED
    BY <1>1, <1>4, <2>2 DEF Messages
<1> QED
  BY <1>2, <1>3, <1>4

LEMMA FilesChange ==
    ASSUME IntakeInv, KeptInv, NEW n \in Names, Writes(n) \/ Archives(n)
    PROVE  KeptInv'
<1>0. Typed
  BY DEF IntakeInv
<1>1. PICK commands : /\ Lost(n, commands)
                      /\ Writes(n) /\ world[n].kind = "md" => commands = Command
                      /\ Archives(n) => commands = {"all"}
  BY DEF Writes, Archives
<1>2. /\ UNCHANGED <<world, disk, owed>> /\ OnDisk' = OnDisk
      /\ archived \subseteq archived' /\ archived' \subseteq archived \cup {n}
      /\ n \in archived' => Archives(n) /\ n \notin archived
  <2>1. /\ UNCHANGED <<world, disk, owed>>
        /\ archived \subseteq archived' /\ archived' \subseteq archived \cup {n}
        /\ n \in archived' => Archives(n) /\ n \notin archived
    BY DEF Writes, Archives
  <2> QED
    BY <2>1, NobodyWrote
<1>3. Written(grown, tail)'
  <2>1. Written(grown, tail) /\ Names' = Names
    BY <1>2 DEF KeptInv, Names
  <2> QED
    BY <2>1 DEF Writes, Archives, Written
<1>4. MessageKept'
  BY <1>2 DEF KeptInv, MessageKept, RecordsOf
<1>5. ASSUME NEW v \in Worker, worker'[v].pc \in {"open"} \cup Holding, NEW msg \in worker'[v].due
      PROVE  Pending(v, msg)'
  <2>1. /\ worker'[v].pc = worker[v].pc /\ worker'[v].command = worker[v].command
        /\ worker'[v].place = worker[v].place
        /\ worker'[v].todo = worker[v].todo /\ worker'[v].parsed = worker[v].parsed
        /\ worker'[v].buffer = worker[v].buffer
        /\ msg \in worker[v].due
        /\ worker[v].command \in commands => msg \notin Messages(n)
    BY <1>0, <1>1, <1>5, LostEffect
  <2>2. Pending(v, msg)
    BY <1>5, <2>1 DEF KeptInv, Expects
  <2>3. CASE \E r \in OnDisk \cup Buffered(worker[v]) : r.msg = msg
    BY <1>2, <2>1, <2>3 DEF Pending, Buffered
  <2>4. CASE InHand(v, msg)
    BY <2>1, <2>4 DEF Pending, InHand
  <2>5. ASSUME NEW m \in ToRead(v), msg \in Messages(m)
        PROVE  Pending(v, msg)'
    <3>1. m \in Looks(worker[v].command) /\ m \in Names
          /\ worker[v].command \in {"local", "all", "paths"} /\ worker[v].command \in Command
      BY <2>5, LooksForCommands DEF ToRead, Looks
    <3>2. m # n \/ world[m].kind # "md" \/ Archives(n)
      BY <1>1, <2>1, <2>5, <3>1
    <3>3. msg \in Messages(m)'
      BY <2>5, <3>1, <3>2, MessagesStay
    <3>4. m \in ToRead(v)'
      <4>1. Looks(worker[v].command)' = Looks(worker[v].command)
        BY <1>2, <2>1, LooksAreStill
      <4>2. CASE worker[v].command = "local"
        BY <1>2, <2>1, <2>5, <3>1, <4>1, <4>2, PromisesAreStill DEF ToRead
      <4>3. CASE worker[v].command # "local"
        <5>1. m \in archived' <=> m \in archived
          <6>1. CASE m = n /\ Archives(n)
            <7>1. worker[v].command = "paths"
              BY <1>1, <2>1, <2>5, <3>1, <4>3, <6>1
            <7> QED
              BY <3>1, <6>1, <7>1 DEF Looks, Archives
          <6> QED
            BY <1>2, <6>1
        <5> QED
          BY <1>2, <2>1, <2>5, <4>1, <4>3, <5>1 DEF ToRead, PlaceOf
      <4> QED
        BY <4>2, <4>3
    <3> QED
      BY <3>3, <3>4 DEF Pending
  <2> QED
    BY <2>2, <2>3, <2>4, <2>5 DEF Pending
<1> QED
  BY <1>3, <1>4, <1>5 DEF KeptInv, Expects

(* What is in hand or written stays so, and what is to be read is read. *)
LEMMA GoesOnExpecting ==
    ASSUME KeptInv, NEW w \in Worker, worker[w].pc \in {"open"} \cup Holding,
           UNCHANGED <<world, grown, tail, archived>>,
           OnDisk \cup Buffered(worker[w]) \subseteq OnDisk' \cup Buffered(worker'[w]),
           worker'[w].due \subseteq worker[w].due,
           \A msg : InHand(w, msg) => Pending(w, msg)',
           \A n \in ToRead(w) : \A msg \in Messages(n) \cap worker'[w].due : Pending(w, msg)'
    PROVE  Expects(w)'
<1>1. SUFFICES ASSUME NEW msg \in worker'[w].due
               PROVE  Pending(w, msg)'
  BY DEF Expects
<1>2. Pending(w, msg)
  BY DEF KeptInv, Expects
<1>3. ASSUME NEW r \in OnDisk \cup Buffered(worker[w]), r.msg = msg
      PROVE  Pending(w, msg)'
  <2>1. r \in OnDisk' \cup Buffered(worker'[w])
    OBVIOUS
  <2>2. r \in (OnDisk \cup Buffered(worker[w]))'
    BY <2>1 DEF Buffered
  <2> QED
    BY <1>3, <2>2 DEF Pending
<1> QED
  BY <1>2, <1>3 DEF Pending

LEMMA KeptStep ==
    ASSUME NEW E, Tells(E), ReadingsWhole, FoundByProject, Reads(E),
           IntakeInv, SaidInv(E), KeptInv, NEW w \in Worker, IntakeStep(w)
    PROVE  KeptInv'
<1>0. Typed
  BY DEF IntakeInv
<1>1. UNCHANGED <<world, grown, tail, archived>>
  BY SourcesAreStill
<1>2. /\ Written(grown, tail)'
      /\ \A n : Messages(n)' = Messages(n) /\ PlaceOf(n)' = PlaceOf(n)
      /\ \A command : Looks(command)' = Looks(command)
      /\ Promised("local")' = Promised("local")
  <2>1. Written(grown, tail)'
    BY <1>1 DEF KeptInv, Written, Names
  <2>2. \A n : Messages(n)' = Messages(n) /\ PlaceOf(n)' = PlaceOf(n)
    BY <1>1 DEF Messages, PlaceOf
  <2> QED
    BY <1>1, <2>1, <2>2, LooksAreStill, PromisesAreStill
<1>3. ASSUME Others(w), OnDisk \subseteq OnDisk', Expects(w)', UNCHANGED owed
      PROVE  KeptInv'
  <2>1. \A v \in Worker : Expects(v)'
    BY <1>1, <1>3, OthersExpect
  <2>2. MessageKept'
    BY <1>3 DEF KeptInv, MessageKept, RecordsOf
  <2> QED
    BY <1>2, <2>1, <2>2 DEF KeptInv
<1>4. ASSUME UNCHANGED disk
      PROVE  OnDisk' = OnDisk
  BY <1>4, NobodyWrote
<1>5. ASSUME NEW pc \in {"idle", "lag", "batch"}, Ends(w, pc)
      PROVE  Others(w) /\ Expects(w)'
  <2>1. worker'[w].pc \notin {"open"} \cup Holding
    BY <1>5 DEF Ends, Holding
  <2> QED
    BY <1>5, <2>1 DEF Expects, Ends
<1>6. CASE EndCommand(w)
  <2>1. /\ worker[w].pc = "write" /\ worker[w].todo = {} /\ worker[w].parsed = {}
        /\ worker[w].buffer = Empty
        /\ worker[w].command = "local" => worker[w].place = "archive"
        /\ owed' = owed \cup worker[w].due
    BY <1>6 DEF EndCommand, Does, NothingLeft
  <2>2. ASSUME NEW n \in ToRead(w)
        PROVE  FALSE
    <3>1. CASE worker[w].command # "local"
      BY <2>1, <2>2, <3>1 DEF ToRead
    <3>2. CASE worker[w].command = "local"
      BY <2>1, <2>2, <3>2 DEF ToRead
    <3> QED
      BY <3>1, <3>2
  <2>3. ASSUME NEW msg \in worker[w].due
        PROVE  \E r \in OnDisk : r.msg = msg
    <3>1. Pending(w, msg)
      BY <2>1 DEF KeptInv, Expects, Holding
    <3>2. Buffered(worker[w]) = {}
      BY <2>1, NoBuffer
    <3>3. ~InHand(w, msg)
      BY <2>1 DEF InHand
    <3> QED
      BY <2>2, <3>1, <3>2, <3>3 DEF Pending
  <2>4. (\E pc \in {"idle", "lag", "batch"} : Ends(w, pc)) /\ UNCHANGED disk
    BY <1>0, <1>6, EndsOnRest
  <2>5. OnDisk' = OnDisk /\ Others(w) /\ Expects(w)'
    BY <1>4, <1>5, <2>4
  <2>6. \A v \in Worker : Expects(v)'
    BY <1>1, <2>5, OthersExpect
  <2>7. MessageKept'
    BY <2>1, <2>3, <2>5 DEF KeptInv, MessageKept, RecordsOf
  <2> QED
    BY <1>2, <2>6, <2>7 DEF KeptInv
<1>7. CASE ~EndCommand(w)
  <2>0. UNCHANGED owed
    BY <1>7, SourcesAreStill
  <2>1. ASSUME NEW command, StartCommand(w, command)
        PROVE  KeptInv'
    <3>1. CASE command = "consolidate"
      <4>1. (\E pc \in {"idle", "lag", "batch"} : Ends(w, pc)) /\ UNCHANGED disk
        BY <1>0, <2>1, <3>1, EndsOnRest
      <4> QED
        BY <1>3, <1>4, <1>5, <2>0, <4>1
    <3>2. CASE command # "consolidate"
      <4>1. /\ Others(w)
            /\ worker'[w].pc = "open" /\ worker'[w].command = command /\ worker'[w].place = "live"
            /\ worker'[w].due = Due(command) /\ worker'[w].todo = Listed(command)
        BY <1>0, <2>1, <3>2, BeginsEffect
      <4>2. ASSUME NEW msg \in Due(command)
            PROVE  Pending(w, msg)'
        <5>1. PICK n \in Promised(command) : msg \in Messages(n)
          BY <4>2 DEF Due
        <5>2. n \in Looks(command)
          BY DEF Promised
        <5>3. CASE command = "local"
          <6>1. n \in ToRead(w)'
            BY <1>1, <1>2, <4>1, <5>1, <5>2, <5>3 DEF ToRead
          <6> QED
            BY <1>2, <5>1, <6>1 DEF Pending
        <5>4. CASE command # "local"
          <6>1. PlaceOf(n) \in Places /\ n \in ListedIn(command, PlaceOf(n))
            BY <5>2, <5>4 DEF PlaceOf, Places, ListedIn
          <6>2. <<n, PlaceOf(n)>> \in Listed(command)
            BY <5>4, <6>1 DEF Listed
          <6>3. n \in ToRead(w)'
            BY <1>2, <4>1, <5>2, <5>4, <6>2 DEF ToRead
          <6> QED
            BY <1>2, <5>1, <6>3 DEF Pending
        <5> QED
          BY <5>3, <5>4
      <4>3. Expects(w)'
        BY <4>1, <4>2 DEF Expects
      <4>4. UNCHANGED disk
        BY <2>1 DEF StartCommand
      <4> QED
        BY <1>3, <1>4, <2>0, <4>1, <4>3, <4>4
    <3> QED
      BY <3>1, <3>2
  <2>2. CASE OpenWriter(w) \/ NextRoot(w)
    <3>1. /\ Others(w) /\ worker[w].pc \in {"open"} \cup Holding
          /\ worker'[w].command = worker[w].command
          /\ worker'[w].todo = worker[w].todo /\ worker'[w].parsed = worker[w].parsed
          /\ worker'[w].due = worker[w].due /\ worker'[w].buffer = worker[w].buffer
      BY <1>0, <2>2, LockEffects DEF Holding
    <3>2. UNCHANGED disk
      BY <2>2 DEF OpenWriter, NextRoot
    <3>3. ASSUME NEW n \in ToRead(w)
          PROVE  n \in ToRead(w)'
      <4>1. n \in Looks(worker[w].command)' /\ n \in Looks(worker[w].command)
        BY <1>2, <3>1, <3>3 DEF ToRead
      <4>2. CASE worker[w].command # "local"
        BY <1>2, <3>1, <3>3, <4>1, <4>2 DEF ToRead
      <4>3. CASE OpenWriter(w) /\ worker[w].command = "local"
        <5>1. worker[w].pc = "open" /\ worker'[w].pc = "list" /\ worker'[w].place = worker[w].place
          BY <1>0, <4>3, LockEffects
        <5> QED
          BY <1>1, <1>2, <3>1, <3>3, <4>1, <4>3, <5>1 DEF ToRead
      <4>4. CASE NextRoot(w)
        <5>1. /\ worker[w].pc = "write" /\ worker'[w].pc = "list" /\ worker'[w].place = "archive"
              /\ worker[w].command = "local" /\ worker[w].todo = {}
          BY <1>0, <4>4, LockEffects DEF NothingLeft
        <5>2. n \in archived
          BY <3>3, <5>1 DEF ToRead
        <5> QED
          BY <1>1, <1>2, <3>1, <3>3, <4>1, <5>1, <5>2 DEF ToRead
      <4> QED
        BY <2>2, <4>2, <4>3, <4>4
    <3>4. \A msg : InHand(w, msg) => Pending(w, msg)'
      BY <3>1 DEF InHand, Pending
    <3>5. \A n \in ToRead(w) : \A msg \in Messages(n) : Pending(w, msg)'
      BY <1>2, <3>3 DEF Pending
    <3>6. OnDisk \cup Buffered(worker[w]) \subseteq OnDisk' \cup Buffered(worker'[w])
      BY <1>4, <3>1, <3>2 DEF Buffered
    <3>7. Expects(w)'
      BY <1>1, <3>1, <3>4, <3>5, <3>6, GoesOnExpecting
    <3> QED
      BY <1>3, <1>4, <2>0, <3>1, <3>2, <3>7
  <2>3. CASE ListRoot(w)
    <3>1. /\ Others(w) /\ worker[w].pc = "list" /\ worker'[w].pc = "write"
          /\ worker'[w].command = worker[w].command /\ worker'[w].place = worker[w].place
          /\ worker'[w].todo = ListedIn("local", worker[w].place) \X {worker[w].place}
          /\ worker'[w].parsed = worker[w].parsed
          /\ worker'[w].due = worker[w].due \ PassedOver(Unlistable(worker[w].place))
          /\ worker'[w].buffer = worker[w].buffer
      BY <1>0, <2>3, LockEffects
    <3>2. UNCHANGED disk
      BY <2>3 DEF ListRoot
    <3>3. worker[w].command = "local"
      BY <3>1 DEF SaidInv, Carries
    <3>4. ASSUME NEW n \in ToRead(w), NEW msg \in Messages(n) \cap worker'[w].due
          PROVE  n \in ToRead(w)'
      <4>1. /\ n \in Looks("local") /\ n \in Promised("local")
            /\ worker[w].place = "live" \/ (worker[w].place = "archive" /\ n \in archived)
        BY <3>1, <3>3, <3>4 DEF ToRead
      <4>2. ASSUME PlaceOf(n) = worker[w].place
            PROVE  OfProject(n)
        <5>1. CASE CwdFails(n)
          <6>1. msg \in PassedOver(Unlistable(worker[w].place))
            BY <3>4, <4>1, <4>2, <5>1 DEF PassedOver, Unlistable
          <6> QED
            BY <3>1, <3>4, <6>1
        <5>2. CASE ~CwdFails(n)
          BY <3>4, <4>1, <5>2 DEF FoundByProject
        <5> QED
          BY <5>1, <5>2
      <4>3. PlaceOf(n) = worker[w].place => <<n, worker[w].place>> \in worker'[w].todo
        BY <3>1, <4>1, <4>2 DEF ListedIn
      <4>4. n \in Looks(worker[w].command)'
        <5>1. worker'[w].command = "local"
          BY <3>1, <3>3
        <5>2. n \in Looks("local")'
          BY <1>2, <4>1
        <5> QED
          BY <5>1, <5>2
      <4> QED
        BY <1>1, <1>2, <3>1, <3>3, <4>1, <4>3, <4>4 DEF ToRead, PlaceOf
    <3>5. \A msg : InHand(w, msg) => Pending(w, msg)'
      BY <3>1 DEF InHand, Pending
    <3>6. \A n \in ToRead(w) : \A msg \in Messages(n) \cap worker'[w].due : Pending(w, msg)'
      BY <1>2, <3>4 DEF Pending
    <3>7. OnDisk \cup Buffered(worker[w]) \subseteq OnDisk' \cup Buffered(worker'[w])
      BY <1>4, <3>1, <3>2 DEF Buffered
    <3>8. Expects(w)'
      BY <1>1, <3>1, <3>5, <3>6, <3>7, GoesOnExpecting DEF Holding
    <3> QED
      BY <1>3, <1>4, <2>0, <3>1, <3>2, <3>8
  <2>4. ASSUME NEW item, ReadFile(w, item)
        PROVE  KeptInv'
    <3>1. /\ Others(w) /\ GoesOn(worker'[w], worker[w])
          /\ worker[w].pc = "write" /\ item \in worker[w].todo
          /\ worker'[w].buffer = worker[w].buffer
          /\ worker'[w].todo = worker[w].todo \ {item}
          /\ \/ /\ item[2] = PlaceOf(item[1])
                /\ \E events \in Readings(item[1]) :
                      worker'[w].parsed = worker[w].parsed \cup
                          {[day |-> day, begun |-> FALSE,
                            events |-> Tagged(events, TagOf(worker[w].command, item[1]))]}
                /\ worker'[w].due \cap Skips(item[1]) = {}
             \/ item[2] # PlaceOf(item[1]) /\ worker'[w].parsed = worker[w].parsed
      BY <1>0, <2>4, ReadFileEffect
    <3>2. UNCHANGED disk
      BY <2>4 DEF ReadFile
    <3>3. item[1] \in Looks(worker[w].command) /\ item[1] \in Names
      BY <3>1 DEF SaidInv, Carries, Looks
    <3>4. ASSUME NEW n \in ToRead(w), NEW msg \in Messages(n) \cap worker'[w].due
          PROVE  Pending(w, msg)'
      <4>1. CASE n \in ToRead(w)'
        BY <1>2, <3>4, <4>1 DEF Pending
      <4>2. CASE n \notin ToRead(w)'
        <5>1. item = <<n, PlaceOf(n)>>
          <6>1. n \in Looks(worker[w].command) /\ n \in Looks(worker[w].command)'
                /\ worker'[w].command = worker[w].command /\ worker'[w].place = worker[w].place
                /\ worker'[w].pc = "write"
            BY <1>2, <3>1, <3>4 DEF ToRead, GoesOn
          <6>2. CASE worker[w].command # "local"
            BY <1>2, <3>1, <3>4, <4>2, <6>1, <6>2 DEF ToRead
          <6>3. CASE worker[w].command = "local"
            BY <1>1, <1>2, <3>1, <3>4, <4>2, <6>1, <6>3 DEF ToRead, PlaceOf
          <6> QED
            BY <6>2, <6>3
        <5>2. item[1] = n /\ item[2] = PlaceOf(n)
          BY <5>1
        <5>3. PICK events \in Readings(n) :
                worker'[w].parsed = worker[w].parsed \cup
                    {[day |-> day, begun |-> FALSE,
                      events |-> Tagged(events, TagOf(worker[w].command, n))]}
          BY <3>1, <5>2
        <5> DEFINE tagged == Tagged(events, TagOf(worker[w].command, n))
                   file == [day |-> day, begun |-> FALSE, events |-> tagged]
        <5>8. ~ReadFails(n)
          BY <3>1, <3>4, <5>2 DEF Skips, PassedOver
        <5>4. PICK k \in DOMAIN events : events[k].msg = msg
          BY <3>3, <3>4, <5>2, <5>8 DEF ReadingsWhole
        <5>5. k \in DOMAIN tagged /\ tagged[k].msg = msg
          BY <3>3, <5>2, <5>4, TaggedIsSaid
        <5> HIDE DEF tagged
        <5>6. file \in worker'[w].parsed /\ file.events = tagged
          BY <5>3 DEF tagged
        <5> HIDE DEF file
        <5>7. InHand(w, msg)'
          BY <5>5, <5>6 DEF InHand
        <5> QED
          BY <5>7 DEF Pending
      <4> QED
        BY <4>1, <4>2
    <3>5. \A msg : InHand(w, msg) => Pending(w, msg)'
      <4>1. worker[w].parsed \subseteq worker'[w].parsed
        BY <3>1
      <4> QED
        BY <4>1 DEF InHand, Pending
    <3>6. OnDisk \cup Buffered(worker[w]) \subseteq OnDisk' \cup Buffered(worker'[w])
      BY <1>4, <3>1, <3>2 DEF Buffered
    <3>7. Expects(w)'
      BY <1>1, <3>1, <3>4, <3>5, <3>6, GoesOnExpecting DEF Holding, GoesOn
    <3> QED
      BY <1>3, <1>4, <2>0, <3>1, <3>2, <3>7
  <2>5. ASSUME NEW file, AppendEvent(w, file)
        PROVE  KeptInv'
    <3>1. /\ Others(w) /\ GoesOn(worker'[w], worker[w])
          /\ worker[w].pc = "write" /\ file \in worker[w].parsed
          /\ worker'[w].todo = worker[w].todo
          /\ \/ /\ NewEvents(worker[w].seen, file.events) = {}
                /\ worker'[w].parsed = worker[w].parsed \ {file}
                /\ worker'[w].seen = worker[w].seen
                /\ Buffered(worker'[w]) = Buffered(worker[w])
             \/ \E k, r : Took(w, file, k, r)
      BY <2>5, AppendEventEffect
    <3>2. UNCHANGED disk /\ OnDisk' = OnDisk
      <4>1. UNCHANGED disk
        BY <2>5 DEF AppendEvent
      <4> QED
        BY <1>4, <4>1
    <3> DEFINE There == OnDisk' \cup Buffered(worker'[w])
    <3>3. OnDisk \cup Buffered(worker[w]) \subseteq There
      BY <3>1, <3>2 DEF Took
    <3>4. \A id \in worker[w].seen : \E r \in OnDisk \cup Buffered(worker[w]) : r.id = id
      BY <3>1 DEF SaidInv, Carries, Holding
    <3>5. \A id \in worker'[w].seen : \E r \in There : r.id = id
      <4>1. CASE worker'[w].seen = worker[w].seen
        BY <3>3, <3>4, <4>1
      <4>2. ASSUME NEW k, NEW r, Took(w, file, k, r)
            PROVE  \A id \in worker'[w].seen : \E q \in There : q.id = id
        BY <3>3, <3>4, <4>2 DEF Took
      <4> QED
        BY <3>1, <4>1, <4>2
    <3>6. \A r \in There : Said(E, r)
      <4>1. SaidInv(E)'
        <5>1. [IntakeNext]_intakeVars
          BY DEF IntakeNext
        <5> QED
          BY <5>1, SaidStep
      <4> QED
        BY <4>1 DEF SaidInv, Carries, Buffered
    <3>7. ASSUME NEW j \in DOMAIN file.events, file.events[j].id \in worker'[w].seen
          PROVE  \E r \in There : r.msg = file.events[j].msg
      <4>1. PICK r \in There : r.id = file.events[j].id
        BY <3>5, <3>7
      <4>2. Said(E, r) /\ Said(E, file.events[j])
        <5>1. IsRead(E, file)
          BY <3>1 DEF SaidInv, Carries
        <5> QED
          BY <3>6, <5>1 DEF IsRead
      <4> QED
        BY <4>1, <4>2 DEF Said, Tells, Event
    <3>8. ASSUME NEW msg, InHand(w, msg)
          PROVE  Pending(w, msg)'
      <4>1. PICK f \in worker[w].parsed : \E j \in DOMAIN f.events : f.events[j].msg = msg
        BY <3>8 DEF InHand
      <4>2. CASE f # file
        <5>1. f \in worker'[w].parsed
          BY <3>1, <4>1, <4>2 DEF Took
        <5> QED
          BY <4>1, <5>1 DEF InHand, Pending
      <4>3. CASE f = file
        <5>1. PICK j \in DOMAIN file.events : file.events[j].msg = msg
          BY <4>1, <4>3
        <5>2. CASE file.events[j].id \in worker'[w].seen
          <6>1. \E r \in There : r.msg = msg
            BY <3>7, <5>1, <5>2
          <6> QED
            BY <6>1 DEF Pending, Buffered
        <5>3. CASE file.events[j].id \notin worker'[w].seen
          <6>1. /\ NewEvents(worker[w].seen, file.events) # {} \/ ~(worker'[w].seen = worker[w].seen)
                /\ NewEvents(worker'[w].seen, file.events) # {}
            BY <5>1, <5>3 DEF NewEvents
          <6>2. [file EXCEPT !.begun = TRUE] \in worker'[w].parsed
            BY <3>1, <6>1 DEF Took
          <6>3. [file EXCEPT !.begun = TRUE].events = file.events
            <7>1. file = [day |-> file.day, begun |-> file.begun, events |-> file.events]
              BY <3>1 DEF SaidInv, Carries, IsRead
            <7> QED
              BY <7>1
          <6> QED
            BY <5>1, <6>2, <6>3 DEF InHand, Pending
        <5> QED
          BY <5>2, <5>3
      <4> QED
        BY <4>2, <4>3
    <3>9. ToRead(w)' = ToRead(w)
      BY <1>1, <1>2, <3>1 DEF ToRead, GoesOn
    <3>10. \A n \in ToRead(w) : \A msg \in Messages(n) : Pending(w, msg)'
      BY <1>2, <3>9 DEF Pending
    <3>11. Expects(w)'
      BY <1>1, <3>1, <3>3, <3>8, <3>10, GoesOnExpecting DEF Holding, GoesOn
    <3> QED
      BY <1>3, <2>0, <3>1, <3>2, <3>11
  <2>6. ASSUME NEW d \in Days, WriteBuffer(w, d)
        PROVE  KeptInv'
    <3>1. /\ Others(w) /\ GoesOn(worker'[w], worker[w]) /\ worker[w].pc = "write"
          /\ worker'[w].todo = worker[w].todo /\ worker'[w].parsed = worker[w].parsed
          /\ OnDisk \subseteq OnDisk'
          /\ OnDisk' \cup Buffered(worker'[w]) = OnDisk \cup Buffered(worker[w])
      BY <2>6, WriteBufferEffect
    <3>2. ToRead(w)' = ToRead(w)
      BY <1>1, <1>2, <3>1 DEF ToRead, GoesOn
    <3>3. \A n \in ToRead(w) : \A msg \in Messages(n) : Pending(w, msg)'
      BY <1>2, <3>2 DEF Pending
    <3>4. \A msg : InHand(w, msg) => Pending(w, msg)'
      BY <3>1 DEF InHand, Pending
    <3>5. Expects(w)'
      BY <1>1, <3>1, <3>3, <3>4, GoesOnExpecting DEF Holding, GoesOn
    <3> QED
      BY <1>3, <2>0, <3>1, <3>5
  <2>7. CASE ReadBatch(w)
    <3>1. UNCHANGED disk
      BY <2>7 DEF ReadBatch
    <3>2. Others(w) /\ Expects(w)'
      <4>1. CASE worker' = [worker EXCEPT ![w] = AtRest]
        BY <1>0, <1>5, <2>7, <4>1, EndsOnRest
      <4>2. CASE worker' # [worker EXCEPT ![w] = AtRest]
        <5>1. Others(w) /\ worker'[w].pc = "publish"
          BY <1>0, <2>7, <4>2, BatchEffect
        <5> QED
          BY <5>1 DEF Expects, Holding
      <4> QED
        BY <4>1, <4>2
    <3> QED
      BY <1>3, <1>4, <2>0, <3>1, <3>2
  <2>8. CASE LockIsHeld(w) \/ Lag(w) \/ AbandonBatch(w) \/ KillWorker(w) \/ PublishBatch(w)
    <3>1. (\E pc \in {"idle", "lag", "batch"} : Ends(w, pc)) /\ UNCHANGED disk
      BY <1>0, <2>8, EndsOnRest
    <3> QED
      BY <1>3, <1>4, <1>5, <2>0, <3>1
  <2> QED
    BY <1>7, <2>1, <2>2, <2>3, <2>4, <2>5, <2>6, <2>7, <2>8 DEF IntakeStep
<1> QED
  BY <1>6, <1>7

LEMMA InitKept == IntakeInit => KeptInv
<1> SUFFICES ASSUME IntakeInit
             PROVE  KeptInv
  OBVIOUS
<1>1. Written(grown, tail)
  <2>1. \A n \in Names : world[n].from \in Nat
    BY ScriptsAssumption DEF IntakeInit, Names
  <2> QED
    BY <2>1 DEF IntakeInit, Written
<1>2. \A w \in Worker : Expects(w)
  <2>1. AtRest.pc = "idle"
    BY DEF AtRest
  <2> QED
    BY <2>1 DEF IntakeInit, Expects, Holding
<1>3. MessageKept
  BY DEF IntakeInit, MessageKept
<1> QED
  BY <1>1, <1>2, <1>3 DEF KeptInv

(* When a command ends without an error, every message that was in the     *)
(* files it looks through when it started is in the journal: also of those *)
(* that grew, and with backfill-local of those that were archived while it *)
(* ran, whatever other commands did or were killed.  Not so of a file that *)
(* its reader could not read when it came to it (ReadFails), and of a      *)
(* rollout that could not be read for its directory (CwdFails): these are  *)
(* passed over without an error.  The conditions: no reader leaves out a   *)
(* message of a file that it can read, an id is of one message, and a      *)
(* session of the project that can be read can be told to be one.          *)
THEOREM NothingIsLeftBehind ==
    ASSUME NEW E, Tells(E)
    PROVE  IntakeSpec /\ []Reads(E) /\ []ReadingsWhole /\ []FoundByProject => []MessageKept
<1>1. IntakeInit => KeptInv
  BY InitKept
<1>2. /\ Reads(E) /\ ReadingsWhole /\ FoundByProject
      /\ IntakeInv /\ SaidInv(E) /\ KeptInv /\ [IntakeNext]_intakeVars
      => KeptInv'
  <2> SUFFICES ASSUME Reads(E), ReadingsWhole, FoundByProject,
                      IntakeInv, SaidInv(E), KeptInv, [IntakeNext]_intakeVars
               PROVE  KeptInv'
    OBVIOUS
  <2>1. ASSUME NEW n \in Names, Writes(n) \/ Archives(n)
        PROVE  KeptInv'
    BY <2>1, FilesChange
  <2>2. ASSUME NEW w \in Worker, IntakeStep(w)
        PROVE  KeptInv'
    BY <2>2, KeptStep
  <2>3. CASE Midnight \/ UNCHANGED intakeVars
    <3>1. UNCHANGED <<world, grown, tail, archived, disk, worker, owed>>
      BY <2>3 DEF Midnight, intakeVars, sources
    <3>2. OnDisk' = OnDisk
      BY <3>1, NobodyWrote
    <3>3. (\A command : Looks(command)' = Looks(command)) /\ \A n : Messages(n)' = Messages(n)
      BY <3>1, LooksAreStill DEF Messages
    <3>4. ASSUME NEW v \in Worker
          PROVE  Expects(v)'
      <4>1. ToRead(v)' = ToRead(v)
        BY <3>1, <3>3, PromisesAreStill DEF ToRead, PlaceOf
      <4>2. \A msg : Pending(v, msg) => Pending(v, msg)'
        BY <3>1, <3>2, <3>3, <4>1 DEF Pending, InHand, Buffered
      <4> QED
        BY <3>1, <4>2 DEF KeptInv, Expects
    <3>5. Written(grown, tail)' /\ MessageKept'
      BY <3>1, <3>2 DEF KeptInv, Written, Names, MessageKept, RecordsOf
    <3> QED
      BY <3>4, <3>5 DEF KeptInv
  <2> QED
    BY <2>1, <2>2, <2>3 DEF IntakeNext
<1>3. KeptInv => MessageKept
  BY DEF KeptInv
<1> QED
  BY <1>1, <1>2, <1>3, IntakeInvariant, NothingInvented, PTL DEF IntakeSpec

-----------------------------------------------------------------------------
(* What the journal is, by what the readers tell. *)

(* A message of Spoken has one id, in whichever files its source writes it. *)
OneId(E, Spoken) == \A d, e \in E : d.msg = e.msg /\ d.msg \in Spoken => d.id = e.id

(* Where the readers give a message one id the journal has it once,        *)
(* whatever commands ran, side by side, over again or until killed.        *)
THEOREM NoMessageTwice ==
    ASSUME NEW E, NEW Spoken, OneId(E, Spoken)
    PROVE  IntakeSpec /\ []Reads(E) /\ [](AllMessages \subseteq Spoken) => []MessageOnce
<1>1. IntakeInv /\ SaidInv(E) /\ AllMessages \subseteq Spoken => MessageOnce
  <2> SUFFICES ASSUME IntakeInv, SaidInv(E), AllMessages \subseteq Spoken, NEW msg \in AllMessages
               PROVE  Cardinality(RecordsOf(msg)) <= 1
    BY DEF MessageOnce
  <2>1. ASSUME NEW r \in RecordsOf(msg), NEW s \in RecordsOf(msg)
        PROVE  r = s
    <3>1. r \in OnDisk /\ s \in OnDisk /\ r.msg = msg /\ s.msg = msg
      BY DEF RecordsOf
    <3>2. Event(r.id, r.msg, r.project) \in E /\ Event(s.id, s.msg, s.project) \in E
      BY <3>1 DEF SaidInv, Said
    <3>3. r.id = s.id
      BY <3>1, <3>2 DEF OneId, Event
    <3> QED
      BY <3>1, <3>3 DEF IntakeInv, OneEach
  <2>2. CASE RecordsOf(msg) = {}
    BY <2>2, FS_EmptySet
  <2>3. ASSUME NEW r \in RecordsOf(msg)
        PROVE  Cardinality(RecordsOf(msg)) <= 1
    <3>1. RecordsOf(msg) = {r}
      BY <2>1
    <3>2. Cardinality({r}) = 1
      BY FS_Singleton
    <3> QED
      BY <3>1, <3>2
  <2> QED
    BY <2>2, <2>3
<1> QED
  BY <1>1, IntakeInvariant, NothingInvented, PTL

(* Where a message of Mine is told of, its reader says the directory, or   *)
(* its command does, and it is one of the project.                         *)
Located(Mine) ==
    \A command \in Command : \A n \in Looks(command) : \A events \in Readings(n) :
        \A k \in DOMAIN events : events[k].msg \in Mine =>
            LET cwd == IF events[k].project # None THEN events[k].project ELSE TagOf(command, n)
            IN  cwd # None /\ PathsMatch(cwd, Project)

(* The messages of the project's sessions are in Mine. *)
Covers(Mine) ==
    \A n \in Names :
        /\ world[n].kind \in {"claude", "codex", "opencode", "local", "md"}
        /\ PathsMatch(world[n].cwd, Project)
        => Messages(n) \subseteq Mine

Ours(E, Mine) == {e \in E : e.msg \in Mine => e.project = Project}

LEMMA ReadsOurs ==
    ASSUME NEW E, NEW Mine, Reads(E), Located(Mine)
    PROVE  Reads(Ours(E, Mine))
<1> SUFFICES ASSUME NEW command \in Command, NEW n \in Looks(command),
                    NEW events \in Readings(n), NEW k \in DOMAIN events
             PROVE  /\ IsEvent(events[k])
                    /\ Tagged(events, TagOf(command, n))[k] \in Ours(E, Mine)
  BY DEF Reads
<1> DEFINE cwd == IF events[k].project # None THEN events[k].project ELSE TagOf(command, n)
           filed == IF cwd = None THEN None ELSE ProjectRoot(cwd)
<1>1. IsEvent(events[k]) /\ Tagged(events, TagOf(command, n))[k] \in E
  BY DEF Reads
<1>2. Tagged(events, TagOf(command, n))[k] = [events[k] EXCEPT !.project = filed]
  BY DEF Tagged
<1>3. events[k].msg \in Mine => filed = Project
  BY DEF Located, ProjectRoot
<1> HIDE DEF filed
<1>4. PICK i, m, q : events[k] = [id |-> i, msg |-> m, project |-> q]
  BY <1>1 DEF IsEvent, Event
<1>5. [events[k] EXCEPT !.project = filed] = [id |-> i, msg |-> m, project |-> filed]
  BY <1>4
<1>6. events[k].msg = m
  BY <1>4
<1> QED
  BY <1>1, <1>2, <1>3, <1>5, <1>6 DEF Ours

(* Where the readers find the directories, the journal files each message  *)
(* of a session of the project under the project, whichever command came   *)
(* first.                                                                  *)
THEOREM SessionsKeepTheirProject ==
    ASSUME NEW E, NEW Mine
    PROVE  IntakeSpec /\ []Reads(E) /\ []Located(Mine) /\ []Covers(Mine) => []OwnProject
<1>1. Reads(E) /\ Located(Mine) => Reads(Ours(E, Mine))
  BY ReadsOurs
<1>2. /\ IntakeInit => SaidInv(Ours(E, Mine))
      /\ Reads(Ours(E, Mine)) /\ IntakeInv /\ SaidInv(Ours(E, Mine)) /\ [IntakeNext]_intakeVars
         => SaidInv(Ours(E, Mine))'
  BY InitSaid, SaidStep
<1>3. SaidInv(Ours(E, Mine)) /\ Covers(Mine) => OwnProject
  <2> SUFFICES ASSUME SaidInv(Ours(E, Mine)), Covers(Mine)
               PROVE  OwnProject
    OBVIOUS
  <2>1. ASSUME NEW r \in OnDisk, r.msg \in Mine
        PROVE  r.project = Project
    <3>1. Event(r.id, r.msg, r.project) \in Ours(E, Mine)
      BY DEF SaidInv, Said
    <3> QED
      BY <2>1, <3>1 DEF Ours, Event
  <2> QED
    BY <2>1 DEF Covers, OwnProject
<1> QED
  BY <1>1, <1>2, <1>3, IntakeInvariant, PTL DEF IntakeSpec
=============================================================================
