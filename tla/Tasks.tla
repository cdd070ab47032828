------------------------------- MODULE Tasks -------------------------------
(***************************************************************************)
(* The shared task list (ops.rs) as HTTP threads and other processes use   *)
(* it: tasks.json under tasks.lock, read, compared with the version that   *)
(* the client expects, truncated and written.  And the table of finished   *)
(* operations of the HTTP server (http_serve.rs), where a client can fetch *)
(* the result again.                                                       *)
(*                                                                         *)
(* A process can be killed at any step, and its threads with it.           *)
(***************************************************************************)
EXTENDS Naturals, Sequences, FiniteSets

CONSTANTS
    Server,     \* processes
    Thread,     \* threads that serve requests
    ServerOf,   \* the process of each thread
    Free,       \* nobody has the lock
    MaxAsks,    \* bound on requests
    MaxCrashes  \* bound on kills and failed writes

ASSUME TasksAssumption ==
    /\ ServerOf \in [Thread -> Server]
    /\ Free \notin Thread
    /\ MaxAsks \in Nat /\ MaxCrashes \in Nat

VARIABLES
    tasksFile, \* tasks.json: whether it is there, torn or whole; its titles
    taskLock,  \* who holds tasks.lock
    thread,    \* what each thread is doing
    nextOp,    \* NEXT_OP of each process
    stored,    \* the finished operations of each process
    asks,      \* requests so far
    crashes,   \* kills and failed writes so far
    answers,   \* history: [title, expected, version] of the updates answered with success
    handed     \* history: [server, id, ask] that clients of a live process have

tasksVars == <<tasksFile, taskLock, thread, nextOp, stored, asks, crashes, answers, handed>>

-----------------------------------------------------------------------------

NoTasks == [state |-> "missing", titles |-> <<>>]

Whole(titles) == [state |-> "whole", titles |-> titles]

TornFile == [state |-> "torn", titles |-> <<>>]

(* The version is the number of tasks: each update adds one to both.       *)
Version(titles) == Len(titles)

(* `ask`: the number of the request, and the title that it adds.  `op`:    *)
(* what it asks.  `expected`: the version it names.  `found`: the titles   *)
(* read.  `result`: what execute returns; `version`: the one it reports.   *)
(* `id`: the operation's id.                                               *)
Resting == [at |-> "rest", ask |-> 0, op |-> "tasks_read", expected |-> 0,
            found |-> <<>>, result |-> "none", version |-> 0, id |-> 0]

TaskOps == {"tasks_read", "tasks_update", "malformed"}

Status == {"ok", "conflict", "error"}

ThreadAt(t, place) == thread[t].at = place

TasksInit ==
    /\ tasksFile = NoTasks
    /\ taskLock = Free
    /\ thread = [t \in Thread |-> Resting]
    /\ nextOp = [s \in Server |-> 1]
    /\ stored = [s \in Server |-> {}]
    /\ asks = 0 /\ crashes = 0
    /\ answers = {} /\ handed = {}

-----------------------------------------------------------------------------
(* One request *)

(* A request without a title or a version is refused before the lock.      *)
Ask(t, op, expected) ==
    /\ ThreadAt(t, "rest")
    /\ asks < MaxAsks
    /\ op # "tasks_update" => expected = 0
    /\ asks' = asks + 1
    /\ thread' = [thread EXCEPT ![t] =
          [Resting EXCEPT !.at = IF op = "malformed" THEN "executed" ELSE "waiting",
                          !.ask = asks + 1, !.op = op, !.expected = expected,
                          !.result = IF op = "malformed" THEN "error" ELSE "none"]]
    /\ UNCHANGED <<tasksFile, taskLock, nextOp, stored, crashes, answers, handed>>

(* with_task_lock: flock of a file opened by each caller. *)
TakeLock(t) ==
    /\ ThreadAt(t, "waiting")
    /\ taskLock = Free
    /\ taskLock' = t
    /\ thread' = [thread EXCEPT ![t].at = "locked"]
    /\ UNCHANGED <<tasksFile, nextOp, stored, asks, crashes, answers, handed>>

Finish(t, result, titles) ==
    thread' = [thread EXCEPT ![t] =
        [@ EXCEPT !.at = "unlocking", !.result = result,
                  !.found = titles, !.version = Version(titles)]]

GoOn(t, titles) ==
    thread' = [thread EXCEPT ![t] = [@ EXCEPT !.at = "truncating", !.found = titles]]

(* Mutant: what does not parse is an empty list. *)
ReadLenient(t) ==
    /\ ThreadAt(t, "locked")
    /\ LET titles == tasksFile.titles
           update == thread[t].op = "tasks_update"
           expected == Version(titles) = thread[t].expected
       IN  \/ ~update /\ Finish(t, "ok", titles)
           \/ update /\ ~expected /\ Finish(t, "conflict", titles)
           \/ update /\ expected /\ GoOn(t, titles)
    /\ UNCHANGED <<tasksFile, taskLock, nextOp, stored, asks, crashes, answers, handed>>

(* read_tasks_file and the comparison.  No file is an empty list; one that *)
(* does not parse is an error.                                             *)
Read(t) ==
    /\ ThreadAt(t, "locked")
    /\ LET titles == tasksFile.titles
           torn == tasksFile.state = "torn"
           update == thread[t].op = "tasks_update"
           expected == Version(titles) = thread[t].expected
       IN  \/ torn /\ Finish(t, "error", <<>>)
           \/ ~torn /\ ~update /\ Finish(t, "ok", titles)
           \/ ~torn /\ update /\ ~expected /\ Finish(t, "conflict", titles)
           \/ ~torn /\ update /\ expected /\ GoOn(t, titles)
    /\ UNCHANGED <<tasksFile, taskLock, nextOp, stored, asks, crashes, answers, handed>>

(* write_tasks_file opens the file with truncate, and then writes it. *)
Truncate(t) ==
    /\ ThreadAt(t, "truncating")
    /\ tasksFile' = TornFile
    /\ thread' = [thread EXCEPT ![t].at = "writing"]
    /\ UNCHANGED <<taskLock, nextOp, stored, asks, crashes, answers, handed>>

WriteTasks(t) ==
    /\ ThreadAt(t, "writing")
    /\ LET titles == Append(thread[t].found, thread[t].ask)
       IN  tasksFile' = Whole(titles) /\ Finish(t, "ok", titles)
    /\ UNCHANGED <<taskLock, nextOp, stored, asks, crashes, answers, handed>>

(* The request fails: the disk is full and the file stays torn, or it is    *)
(* written and cannot be synced.                                           *)
WriteFails(t) ==
    /\ ThreadAt(t, "writing")
    /\ crashes < MaxCrashes
    /\ crashes' = crashes + 1
    /\ \/ UNCHANGED tasksFile
       \/ tasksFile' = Whole(Append(thread[t].found, thread[t].ask))
    /\ Finish(t, "error", <<>>)
    /\ UNCHANGED <<taskLock, nextOp, stored, asks, answers, handed>>

DropLock(t) ==
    /\ ThreadAt(t, "unlocking")
    /\ taskLock' = Free
    /\ thread' = [thread EXCEPT ![t].at = "executed"]
    /\ UNCHANGED <<tasksFile, nextOp, stored, asks, crashes, answers, handed>>

-----------------------------------------------------------------------------
(* handle_connection, after execute *)

(* Mutant: the id is the number of operations stored so far. *)
TakeIdOfTable(t) ==
    /\ ThreadAt(t, "executed")
    /\ thread' = [thread EXCEPT ![t].at = "storing",
                                ![t].id = Cardinality(stored[ServerOf[t]]) + 1]
    /\ UNCHANGED <<tasksFile, taskLock, nextOp, stored, asks, crashes, answers, handed>>

(* The id is taken with a fetch_add, before the table is locked. *)
TakeId(t) ==
    LET s == ServerOf[t]
    IN  /\ ThreadAt(t, "executed")
        /\ thread' = [thread EXCEPT ![t].at = "storing", ![t].id = nextOp[s]]
        /\ nextOp' = [nextOp EXCEPT ![s] = @ + 1]
        /\ UNCHANGED <<tasksFile, taskLock, stored, asks, crashes, answers, handed>>

(* HashMap::insert: an id has one entry, the last. *)
Store(t) ==
    /\ ThreadAt(t, "storing")
    /\ stored' = [stored EXCEPT ![ServerOf[t]] =
          {o \in @ : o.id # thread[t].id} \cup {[id |-> thread[t].id, ask |-> thread[t].ask]}]
    /\ thread' = [thread EXCEPT ![t].at = "answering"]
    /\ UNCHANGED <<tasksFile, taskLock, nextOp, asks, crashes, answers, handed>>

(* The client has the result, and the id to ask for it again.              *)
Answer(t) ==
    LET c == thread[t]
    IN  /\ ThreadAt(t, "answering")
        /\ answers' = IF c.op = "tasks_update" /\ c.result = "ok"
                      THEN answers \cup {[title |-> c.ask, expected |-> c.expected,
                                           version |-> c.version]}
                      ELSE answers
        /\ handed' = handed \cup {[server |-> ServerOf[t], id |-> c.id, ask |-> c.ask]}
        /\ thread' = [thread EXCEPT ![t] = Resting]
        /\ UNCHANGED <<tasksFile, taskLock, nextOp, stored, asks, crashes>>

(* The kernel drops the lock; the next process counts from one again, and  *)
(* its table is empty.                                                     *)
KillServer(s) ==
    /\ crashes < MaxCrashes
    /\ crashes' = crashes + 1
    /\ thread' = [t \in Thread |-> IF ServerOf[t] = s THEN Resting ELSE thread[t]]
    /\ taskLock' = IF taskLock # Free /\ ServerOf[taskLock] = s THEN Free ELSE taskLock
    /\ nextOp' = [nextOp EXCEPT ![s] = 1]
    /\ stored' = [stored EXCEPT ![s] = {}]
    /\ handed' = {h \in handed : h.server # s}
    /\ UNCHANGED <<tasksFile, asks, answers>>

ThreadStep(t) ==
    \/ TakeLock(t) \/ Read(t) \/ Truncate(t) \/ WriteTasks(t)
    \/ DropLock(t) \/ TakeId(t) \/ Store(t) \/ Answer(t)

TasksNext ==
    \/ \E t \in Thread, op \in TaskOps, expected \in 0..MaxAsks : Ask(t, op, expected)
    \/ \E t \in Thread : ThreadStep(t) \/ WriteFails(t)
    \/ \E s \in Server : KillServer(s)

TasksSpec == TasksInit /\ [][TasksNext]_tasksVars

-----------------------------------------------------------------------------
(* Properties *)

Request ==
    [at : {"rest", "waiting", "locked", "truncating", "writing", "unlocking",
           "executed", "storing", "answering"},
     ask : 0..MaxAsks, op : TaskOps, expected : 0..MaxAsks, found : Seq(1..MaxAsks),
     result : Status \cup {"none"}, version : Nat, id : Nat]

TaskFile == [state : {"missing", "torn", "whole"}, titles : Seq(1..MaxAsks)]

TasksTypeOK ==
    /\ tasksFile \in TaskFile
    /\ taskLock \in Thread \cup {Free}
    /\ thread \in [Thread -> Request]
    /\ nextOp \in [Server -> Nat]
    /\ stored \in [Server -> SUBSET [id : Nat, ask : 1..MaxAsks]]
    /\ asks \in 0..MaxAsks /\ crashes \in 0..MaxCrashes
    /\ answers \subseteq [title : 1..MaxAsks, expected : 0..MaxAsks, version : Nat]
    /\ handed \subseteq [server : Server, id : Nat, ask : 1..MaxAsks]

(* What the clients see is a list that only grows.  While the file is      *)
(* written, the list is still the one that the writer has read; a file     *)
(* that is torn with nobody writing it is lost.                            *)
TaskList ==
    IF tasksFile.state = "torn" /\ taskLock # Free /\ ThreadAt(taskLock, "writing")
    THEN thread[taskLock].found
    ELSE tasksFile.titles

TasksLost ==
    tasksFile.state = "torn" /\ ~(taskLock # Free /\ ThreadAt(taskLock, "writing"))

Promise == INSTANCE AtomicTasks WITH list <- TaskList, lost <- TasksLost, told <- answers

(* A client that was told of a version finds its task there for as long as *)
(* the file can be read, and had expected the version before: two updates  *)
(* that expect the same version never both succeed, on one server or on    *)
(* two, across kills and failures, and a list that is lost is an error for *)
(* everyone and never a shorter list.                                      *)
ImplementsPromise == Promise!PromiseSpec

(* A client that asks the live server for the operation it was told of     *)
(* gets the result of its own request.                                     *)
OwnResult ==
    \A h \in handed :
        /\ \E o \in stored[h.server] : o.id = h.id
        /\ \A o \in stored[h.server] : o.id = h.id => o.ask = h.ask
=============================================================================
