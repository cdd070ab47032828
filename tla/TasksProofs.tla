---------------------------- MODULE TasksProofs ----------------------------
(***************************************************************************)
(* That the task list keeps its promise, and the table of operations too,  *)
(* for any processes, threads, requests and kills.                         *)
(***************************************************************************)
EXTENDS Tasks, TLAPS

Inside(c) == c.at \in {"locked", "truncating", "writing", "unlocking"}

Done(c) == c.at \in {"unlocking", "executed", "storing", "answering"}

(* What is known of one thread in state c, with the file f, the lock l and *)
(* the list as the clients see it.                                         *)
Sound(t, c, f, l, shown, gone) ==
    /\ Inside(c) <=> l = t
    /\ c.at = "truncating" => /\ f.state # "torn" /\ c.found = f.titles
                              /\ c.op = "tasks_update" /\ Len(c.found) = c.expected
    /\ c.at = "writing" => /\ f.state = "torn"
                           /\ c.op = "tasks_update" /\ Len(c.found) = c.expected
    /\ Done(c) /\ c.op = "tasks_update" /\ c.result = "ok" =>
          /\ c.version = c.expected + 1
          /\ gone \/ (c.version \in DOMAIN shown /\ shown[c.version] = c.ask)
    /\ c.at = "waiting" => c.op # "malformed"
    /\ c.at = "locked" => c.op # "malformed"
    /\ c.at # "rest" => c.ask \in 1..MaxAsks

PromiseInv ==
    /\ TasksTypeOK
    /\ tasksFile.state # "whole" => tasksFile.titles = <<>>
    /\ \A t \in Thread : Sound(t, thread[t], tasksFile, taskLock, TaskList, TasksLost)

(* The operations of one server: no id is in use twice. *)
Numbered(c) == c.at \in {"storing", "answering"}

TableInv ==
    /\ \A t \in Thread : Numbered(thread[t]) => thread[t].id < nextOp[ServerOf[t]]
    /\ \A t, u \in Thread :
          t # u /\ Numbered(thread[t]) /\ Numbered(thread[u]) /\ ServerOf[t] = ServerOf[u]
             => thread[t].id # thread[u].id
    /\ \A s \in Server : \A o \in stored[s] : o.id < nextOp[s]
    /\ \A s \in Server : \A o, q \in stored[s] : o.id = q.id => o = q
    /\ \A t \in Thread : ThreadAt(t, "storing") =>
          \A o \in stored[ServerOf[t]] : o.id # thread[t].id
    /\ \A t \in Thread : ThreadAt(t, "answering") =>
          [id |-> thread[t].id, ask |-> thread[t].ask] \in stored[ServerOf[t]]
    /\ \A h \in handed : [id |-> h.id, ask |-> h.ask] \in stored[h.server]

-----------------------------------------------------------------------------
(* One thread takes a step. *)

Shown == <<TaskList, TasksLost>>

(* What clients saw stays, unless it is lost. *)
Grows ==
    TasksLost' \/ (/\ ~TasksLost
                   /\ \A v \in DOMAIN TaskList :
                         v \in DOMAIN TaskList' /\ TaskList'[v] = TaskList[v])

LEMMA ThreadTyped == ASSUME PromiseInv, NEW t \in Thread PROVE thread[t] \in Request
  BY DEF PromiseInv, TasksTypeOK

(* A step of thread t keeps the invariant when t is sound after it, when   *)
(* only the holder of the lock changes the file, and when the lock passes  *)
(* only between t and nobody.                                              *)
LEMMA OneThread ==
    ASSUME PromiseInv, NEW t \in Thread, NEW c \in Request,
           thread' = [thread EXCEPT ![t] = c],
           taskLock' = taskLock \/ (taskLock \in {Free, t} /\ taskLock' \in {Free, t}),
           tasksFile' = tasksFile \/ taskLock = t,
           tasksFile'.state # "whole" => tasksFile'.titles = <<>>,
           TasksTypeOK', Grows,
           Sound(t, c, tasksFile', taskLock', TaskList', TasksLost')
    PROVE  PromiseInv'
  <1>1. thread'[t] = c /\ \A u \in Thread : u # t => thread'[u] = thread[u]
    BY DEF PromiseInv, TasksTypeOK
  <1>2. ASSUME NEW u \in Thread, u # t
        PROVE  Sound(u, thread[u], tasksFile', taskLock', TaskList', TasksLost')
    <2>1. Sound(u, thread[u], tasksFile, taskLock, TaskList, TasksLost)
      BY DEF PromiseInv
    <2>2. Inside(thread[u]) <=> taskLock' = u
      BY <2>1, <1>2, TasksAssumption DEF Sound
    <2>3. Inside(thread[u]) => tasksFile' = tasksFile
      BY <2>1, <1>2 DEF Sound
    <2>4. Inside(thread[u]) <=> thread[u].at \in {"locked", "truncating", "writing", "unlocking"}
      BY DEF Inside
    <2>5. Done(thread[u]) /\ thread[u].op = "tasks_update" /\ thread[u].result = "ok" =>
            /\ thread[u].version = thread[u].expected + 1
            /\ TasksLost' \/ (/\ thread[u].version \in DOMAIN TaskList'
                              /\ TaskList'[thread[u].version] = thread[u].ask)
      BY <2>1 DEF Sound, Grows
    <2>. QED  BY <2>1, <2>2, <2>3, <2>4, <2>5 DEF Sound
  <1>. QED  BY <1>1, <1>2 DEF PromiseInv

(* A step that does not touch the file, and in which t does not write      *)
(* before or after, shows clients what they saw.                           *)
LEMMA SameList ==
    ASSUME PromiseInv, NEW t \in Thread, NEW c \in Request,
           thread' = [thread EXCEPT ![t] = c],
           tasksFile' = tasksFile,
           taskLock' = taskLock \/ (taskLock \in {Free, t} /\ taskLock' \in {Free, t}),
           thread[t].at # "writing", c.at # "writing"
    PROVE  Shown' = Shown /\ Grows
  <1>1. thread'[t] = c /\ \A u \in Thread : u # t => thread'[u] = thread[u]
    BY DEF PromiseInv, TasksTypeOK
  <1>2. taskLock \in Thread \cup {Free} /\ Free \notin Thread
    BY TasksAssumption DEF PromiseInv, TasksTypeOK
  <1>3. TaskList' = TaskList /\ TasksLost' = TasksLost
    BY <1>1, <1>2 DEF TaskList, TasksLost, ThreadAt
  <1>. QED  BY <1>3 DEF Shown, Grows

(* The steps of the promise that change nothing. *)
Stutters == UNCHANGED <<TaskList, TasksLost, answers>>

LEMMA AskStep ==
    ASSUME PromiseInv, NEW t \in Thread, NEW op \in TaskOps, NEW expected \in 0..MaxAsks,
           Ask(t, op, expected)
    PROVE  PromiseInv' /\ Stutters
  <1> DEFINE c == [Resting EXCEPT !.at = IF op = "malformed" THEN "executed" ELSE "waiting",
                       !.ask = asks + 1, !.op = op, !.expected = expected,
                       !.result = IF op = "malformed" THEN "error" ELSE "none"]
  <1>1. asks + 1 \in 1..MaxAsks /\ asks' \in 0..MaxAsks
    BY TasksAssumption DEF Ask, PromiseInv, TasksTypeOK
  <1>2. /\ c \in Request
        /\ c.at = IF op = "malformed" THEN "executed" ELSE "waiting"
        /\ c.ask = asks + 1 /\ c.op = op /\ c.result # "ok"
    <2>1. Resting \in Request
      BY TasksAssumption DEF Resting, Request, TaskOps
    <2>2. asks + 1 \in 0..MaxAsks
      BY <1>1
    <2>3. c \in Request
      BY <2>1, <2>2 DEF Request, Status
    <2>4. /\ c.at = IF op = "malformed" THEN "executed" ELSE "waiting"
          /\ c.ask = asks + 1 /\ c.op = op /\ c.result # "ok"
      BY DEF Resting
    <2>. QED  BY <2>3, <2>4
  <1>3. thread[t].at = "rest" /\ thread' = [thread EXCEPT ![t] = c]
    BY DEF Ask, ThreadAt
  <1> HIDE DEF c
  <1>4. Shown' = Shown /\ Grows
    BY <1>2, <1>3, SameList DEF Ask
  <1>5. TasksTypeOK'
    BY <1>1, <1>2, <1>3 DEF Ask, PromiseInv, TasksTypeOK
  <1>6. Sound(t, c, tasksFile', taskLock', TaskList', TasksLost')
    BY <1>1, <1>2, <1>3 DEF Ask, PromiseInv, Sound, Inside, Done
  <1>7. tasksFile'.state # "whole" => tasksFile'.titles = <<>>
    BY DEF Ask, PromiseInv
  <1>8. PromiseInv'
    BY <1>2, <1>3, <1>4, <1>5, <1>6, <1>7, OneThread DEF Ask
  <1>. QED  BY <1>4, <1>8 DEF Ask, Shown, Stutters

LEMMA TakeLockStep ==
    ASSUME PromiseInv, NEW t \in Thread, TakeLock(t)
    PROVE  PromiseInv' /\ Stutters
  <1> DEFINE c == [thread[t] EXCEPT !.at = "locked"]
  <1>1. c \in Request /\ c.at = "locked" /\ c.ask = thread[t].ask /\ c.op = thread[t].op
    BY ThreadTyped DEF Request
  <1>2. thread[t].at = "waiting" /\ thread' = [thread EXCEPT ![t] = c]
    BY DEF TakeLock, ThreadAt
  <1> HIDE DEF c
  <1>3. Shown' = Shown /\ Grows
    BY <1>1, <1>2, SameList DEF TakeLock
  <1>4. TasksTypeOK'
    BY <1>1, <1>2 DEF TakeLock, PromiseInv, TasksTypeOK
  <1>5. Sound(t, c, tasksFile', taskLock', TaskList', TasksLost')
    BY <1>1, <1>2 DEF TakeLock, PromiseInv, Sound, Inside, Done
  <1>6. PromiseInv'
    BY <1>1, <1>2, <1>3, <1>4, <1>5, OneThread DEF TakeLock, PromiseInv
  <1>. QED  BY <1>3, <1>6 DEF TakeLock, Shown, Stutters

LEMMA ReadStep ==
    ASSUME PromiseInv, NEW t \in Thread, Read(t)
    PROVE  PromiseInv' /\ Stutters
  <1> DEFINE done(result, titles) ==
          [thread[t] EXCEPT !.at = "unlocking", !.result = result, !.found = titles,
                            !.version = Version(titles)]
             go == [thread[t] EXCEPT !.at = "truncating", !.found = tasksFile.titles]
  <1>1. thread[t] \in Request /\ thread[t].at = "locked"
    BY ThreadTyped DEF Read, ThreadAt
  <1>2. tasksFile \in TaskFile /\ tasksFile.titles \in Seq(1..MaxAsks) /\ Len(tasksFile.titles) \in Nat
    BY DEF PromiseInv, TasksTypeOK, TaskFile
  <1>3. <<>> \in Seq(1..MaxAsks) /\ Len(<<>>) = 0
    OBVIOUS
  <1>4. thread[t].ask \in 1..MaxAsks /\ taskLock = t /\ thread[t].op # "malformed"
    BY <1>1 DEF PromiseInv, Sound, Inside
  <1>5. PICK c \in Request :
          /\ thread' = [thread EXCEPT ![t] = c]
          /\ c.ask = thread[t].ask
          /\ \/ c.at = "unlocking" /\ (c.op = "tasks_update" => c.result # "ok")
             \/ /\ c.at = "truncating" /\ tasksFile.state # "torn"
                /\ c.found = tasksFile.titles
                /\ c.op = "tasks_update" /\ Len(c.found) = c.expected
    <2>1. CASE tasksFile.state = "torn"
      <3>1. done("error", <<>>) \in Request
        BY <1>1, <1>3 DEF Request, Status, Version
      <3>2. /\ done("error", <<>>).ask = thread[t].ask /\ done("error", <<>>).at = "unlocking"
            /\ done("error", <<>>).result = "error"
        BY <1>1 DEF Request
      <3>3. thread' = [thread EXCEPT ![t] = done("error", <<>>)]
        BY <2>1 DEF Read, Finish
      <3>. QED  BY <3>1, <3>2, <3>3
    <2>2. CASE tasksFile.state # "torn" /\ thread[t].op # "tasks_update"
      <3>1. done("ok", tasksFile.titles) \in Request
        BY <1>1, <1>2 DEF Request, Status, Version
      <3>2. /\ done("ok", tasksFile.titles).ask = thread[t].ask
            /\ done("ok", tasksFile.titles).at = "unlocking"
            /\ done("ok", tasksFile.titles).op # "tasks_update"
        BY <1>1, <2>2 DEF Request
      <3>3. thread' = [thread EXCEPT ![t] = done("ok", tasksFile.titles)]
        BY <2>2 DEF Read, Finish
      <3>. QED  BY <3>1, <3>2, <3>3
    <2>3. CASE /\ tasksFile.state # "torn" /\ thread[t].op = "tasks_update"
               /\ Version(tasksFile.titles) # thread[t].expected
      <3>1. done("conflict", tasksFile.titles) \in Request
        BY <1>1, <1>2 DEF Request, Status, Version
      <3>2. /\ done("conflict", tasksFile.titles).ask = thread[t].ask
            /\ done("conflict", tasksFile.titles).at = "unlocking"
            /\ done("conflict", tasksFile.titles).result = "conflict"
        BY <1>1 DEF Request
      <3>3. thread' = [thread EXCEPT ![t] = done("conflict", tasksFile.titles)]
        BY <2>3 DEF Read, Finish
      <3>. QED  BY <3>1, <3>2, <3>3
    <2>4. CASE /\ tasksFile.state # "torn" /\ thread[t].op = "tasks_update"
               /\ Version(tasksFile.titles) = thread[t].expected
      <3>1. go \in Request
        BY <1>1, <1>2 DEF Request
      <3>2. /\ go.ask = thread[t].ask /\ go.at = "truncating" /\ go.found = tasksFile.titles
            /\ go.op = "tasks_update" /\ go.expected = thread[t].expected
        BY <1>1, <2>4 DEF Request
      <3>3. thread' = [thread EXCEPT ![t] = go]
        BY <2>4 DEF Read, GoOn
      <3>. QED  BY <2>4, <3>1, <3>2, <3>3 DEF Version
    <2>. QED  BY <1>1, <1>4, <2>1, <2>2, <2>3, <2>4 DEF Request, TaskOps
  <1>6. Shown' = Shown /\ Grows
    BY <1>1, <1>5, SameList DEF Read
  <1>7. TasksTypeOK'
    BY <1>5 DEF Read, PromiseInv, TasksTypeOK
  <1>8. Sound(t, c, tasksFile', taskLock', TaskList', TasksLost')
    BY <1>4, <1>5 DEF Read, Sound, Inside, Done
  <1>9. PromiseInv'
    BY <1>5, <1>6, <1>7, <1>8, OneThread DEF Read, PromiseInv
  <1>. QED  BY <1>6, <1>9 DEF Read, Shown, Stutters

LEMMA TruncateStep ==
    ASSUME PromiseInv, NEW t \in Thread, Truncate(t)
    PROVE  PromiseInv' /\ Stutters
  <1> DEFINE c == [thread[t] EXCEPT !.at = "writing"]
  <1>1. /\ c \in Request /\ c.at = "writing" /\ c.ask = thread[t].ask /\ c.op = thread[t].op
        /\ c.found = thread[t].found /\ c.expected = thread[t].expected
    BY ThreadTyped DEF Request
  <1>2. thread[t].at = "truncating" /\ thread' = [thread EXCEPT ![t] = c]
    BY DEF Truncate, ThreadAt
  <1> HIDE DEF c
  <1>3. /\ taskLock = t /\ tasksFile.state # "torn" /\ c.found = tasksFile.titles
        /\ c.op = "tasks_update" /\ Len(c.found) = c.expected /\ c.ask \in 1..MaxAsks
    BY <1>1, <1>2 DEF PromiseInv, Sound, Inside
  <1>4. thread'[t] = c /\ taskLock' = t /\ t # Free
    BY <1>2, <1>3, TasksAssumption DEF Truncate, PromiseInv, TasksTypeOK
  <1>5. tasksFile' = TornFile /\ tasksFile'.state = "torn" /\ tasksFile'.titles = <<>>
    BY DEF Truncate, TornFile
  <1>6. TaskList' = TaskList /\ TasksLost' = TasksLost /\ ~TasksLost
    BY <1>1, <1>3, <1>4, <1>5 DEF TaskList, TasksLost, ThreadAt
  <1>7. TasksTypeOK'
    <2>1. TornFile \in TaskFile
      BY DEF TornFile, TaskFile
    <2>. QED  BY <1>1, <1>2, <1>5, <2>1 DEF Truncate, PromiseInv, TasksTypeOK
  <1>8. Sound(t, c, tasksFile', taskLock', TaskList', TasksLost')
    BY <1>1, <1>3, <1>4, <1>5 DEF Sound, Inside, Done
  <1>9. Grows
    BY <1>6 DEF Grows
  <1>10. PromiseInv'
    BY <1>1, <1>2, <1>3, <1>5, <1>7, <1>8, <1>9, OneThread DEF Truncate
  <1>. QED  BY <1>6, <1>10 DEF Truncate, Stutters

(* The write is where the task joins the list. *)
LEMMA WriteStep ==
    ASSUME PromiseInv, NEW t \in Thread, WriteTasks(t)
    PROVE  /\ PromiseInv'
           /\ ~TasksLost /\ ~TasksLost' /\ answers' = answers
           /\ \E k \in DOMAIN TaskList' : TaskList' = Append(TaskList, TaskList'[k])
  <1> DEFINE titles == Append(thread[t].found, thread[t].ask)
             c == [thread[t] EXCEPT !.at = "unlocking", !.result = "ok", !.found = titles,
                                    !.version = Version(titles)]
  <1>1. /\ thread[t].at = "writing" /\ taskLock = t /\ tasksFile.state = "torn"
        /\ thread[t].op = "tasks_update" /\ Len(thread[t].found) = thread[t].expected
        /\ thread[t].ask \in 1..MaxAsks
    BY DEF WriteTasks, ThreadAt, PromiseInv, Sound, Inside
  <1>2. thread[t] \in Request /\ thread[t].found \in Seq(1..MaxAsks)
    BY ThreadTyped DEF Request
  <1>3. /\ titles \in Seq(1..MaxAsks) /\ Len(titles) = thread[t].expected + 1
        /\ titles[Len(titles)] = thread[t].ask
        /\ DOMAIN titles = 1..Len(titles)
        /\ DOMAIN thread[t].found = 1..Len(thread[t].found)
        /\ \A v \in DOMAIN thread[t].found : titles[v] = thread[t].found[v]
        /\ Len(titles) \in Nat /\ thread[t].expected \in Nat
    BY <1>1, <1>2
  <1> HIDE DEF titles
  <1>4. /\ c \in Request /\ c.at = "unlocking" /\ c.ask = thread[t].ask
        /\ c.version = Len(titles) /\ c.expected = thread[t].expected
    BY <1>2, <1>3 DEF Request, Status, Version
  <1>5. thread' = [thread EXCEPT ![t] = c] /\ tasksFile' = Whole(titles)
    BY DEF WriteTasks, Finish, titles
  <1> HIDE DEF c
  <1>6. tasksFile'.state = "whole" /\ tasksFile'.titles = titles /\ tasksFile' \in TaskFile
    BY <1>3, <1>5 DEF Whole, TaskFile
  <1>7. TaskList = thread[t].found /\ ~TasksLost /\ TaskList' = titles /\ ~TasksLost'
    BY <1>1, <1>6, TasksAssumption DEF TaskList, TasksLost, ThreadAt
  <1>8. TasksTypeOK'
    BY <1>4, <1>5, <1>6 DEF WriteTasks, PromiseInv, TasksTypeOK
  <1>9. Sound(t, c, tasksFile', taskLock', TaskList', TasksLost')
    BY <1>1, <1>3, <1>4, <1>7 DEF WriteTasks, Sound, Inside, Done
  <1>10. Grows
    <2>1. DOMAIN TaskList \subseteq DOMAIN TaskList'
      BY <1>1, <1>3, <1>7
    <2>2. \A v \in DOMAIN TaskList : TaskList'[v] = TaskList[v]
      BY <1>3, <1>7
    <2> QED
      BY <1>7, <2>1, <2>2 DEF Grows
  <1>11. PromiseInv'
    <2>1. taskLock' = taskLock /\ taskLock = t
      BY <1>1 DEF WriteTasks
    <2>2. c \in Request /\ thread' = [thread EXCEPT ![t] = c]
      BY <1>4, <1>5
    <2>3. tasksFile'.state # "whole" => tasksFile'.titles = <<>>
      BY <1>6
    <2> QED
      BY <1>8, <1>9, <1>10, <2>1, <2>2, <2>3, OneThread
  <1>12. Len(titles) \in DOMAIN TaskList' /\ TaskList' = Append(TaskList, TaskList'[Len(titles)])
    BY <1>3, <1>7 DEF titles
  <1>. QED  BY <1>7, <1>11, <1>12 DEF WriteTasks

(* A write that fails loses the list, or adds to it what is not told. *)
LEMMA WriteFailsStep ==
    ASSUME PromiseInv, NEW t \in Thread, WriteFails(t)
    PROVE  /\ PromiseInv' /\ answers' = answers
           /\ \/ TasksLost' /\ TaskList' = <<>>
              \/ /\ ~TasksLost /\ ~TasksLost'
                 /\ \E k \in DOMAIN TaskList' : TaskList' = Append(TaskList, TaskList'[k])
  <1> DEFINE titles == Append(thread[t].found, thread[t].ask)
             c == [thread[t] EXCEPT !.at = "unlocking", !.result = "error", !.found = <<>>,
                                    !.version = Version(<<>>)]
  <1>1. /\ thread[t].at = "writing" /\ taskLock = t /\ tasksFile.state = "torn"
        /\ thread[t].op = "tasks_update" /\ thread[t].ask \in 1..MaxAsks
    BY DEF WriteFails, ThreadAt, PromiseInv, Sound, Inside
  <1>2. c \in Request /\ c.at = "unlocking" /\ c.ask = thread[t].ask /\ c.result = "error"
    <2>1. <<>> \in Seq(1..MaxAsks) /\ Version(<<>>) \in Nat
      BY DEF Version
    <2>. QED  BY <2>1, ThreadTyped DEF Request, Status
  <1>3. thread' = [thread EXCEPT ![t] = c]
    BY DEF WriteFails, Finish
  <1> HIDE DEF c
  <1>4. thread'[t] = c
    BY <1>3 DEF PromiseInv, TasksTypeOK
  <1>5. /\ titles \in Seq(1..MaxAsks) /\ Len(titles) \in DOMAIN titles
        /\ titles = Append(thread[t].found, titles[Len(titles)])
        /\ DOMAIN thread[t].found \subseteq DOMAIN titles
        /\ \A v \in DOMAIN thread[t].found : titles[v] = thread[t].found[v]
    <2>1. thread[t].found \in Seq(1..MaxAsks)
      BY ThreadTyped DEF Request
    <2>. QED  BY <1>1, <2>1
  <1> HIDE DEF titles
  <1>6. CASE tasksFile' = tasksFile
    <2>1. TasksLost' /\ TaskList' = <<>>
      BY <1>1, <1>2, <1>4, <1>6 DEF WriteFails, TaskList, TasksLost, ThreadAt, PromiseInv
    <2>2. TasksTypeOK'
      BY <1>2, <1>3, <1>6, TasksAssumption DEF WriteFails, PromiseInv, TasksTypeOK
    <2>3. Sound(t, c, tasksFile', taskLock', TaskList', TasksLost')
      BY <1>1, <1>2 DEF WriteFails, Sound, Inside, Done
    <2>4. PromiseInv'
      BY <1>2, <1>3, <1>6, <2>1, <2>2, <2>3, OneThread DEF WriteFails, PromiseInv, Grows
    <2>. QED  BY <2>1, <2>4 DEF WriteFails
  <1>7. CASE tasksFile' = Whole(titles)
    <2>1. tasksFile'.state = "whole" /\ tasksFile'.titles = titles /\ tasksFile' \in TaskFile
      BY <1>5, <1>7 DEF Whole, TaskFile
    <2>2. TaskList = thread[t].found /\ ~TasksLost /\ TaskList' = titles /\ ~TasksLost'
      BY <1>1, <2>1, TasksAssumption DEF TaskList, TasksLost, ThreadAt
    <2>3. TasksTypeOK'
      BY <1>2, <1>3, <2>1, TasksAssumption DEF WriteFails, PromiseInv, TasksTypeOK
    <2>4. Sound(t, c, tasksFile', taskLock', TaskList', TasksLost')
      BY <1>1, <1>2 DEF WriteFails, Sound, Inside, Done
    <2>5. Grows
      BY <1>5, <2>2 DEF Grows
    <2>6. PromiseInv'
      <3>1. taskLock' = taskLock /\ taskLock = t
        BY <1>1 DEF WriteFails
      <3>2. tasksFile'.state # "whole" => tasksFile'.titles = <<>>
        BY <2>1
      <3>. QED  BY <1>2, <1>3, <2>3, <2>4, <2>5, <3>1, <3>2, OneThread
    <2>. QED  BY <1>5, <2>2, <2>6 DEF WriteFails
  <1>. QED  BY <1>6, <1>7 DEF WriteFails, titles

LEMMA DropLockStep ==
    ASSUME PromiseInv, NEW t \in Thread, DropLock(t)
    PROVE  PromiseInv' /\ Stutters
  <1> DEFINE c == [thread[t] EXCEPT !.at = "executed"]
  <1>1. /\ c \in Request /\ c.at = "executed" /\ c.ask = thread[t].ask /\ c.op = thread[t].op
        /\ c.result = thread[t].result /\ c.version = thread[t].version
        /\ c.expected = thread[t].expected
    BY ThreadTyped DEF Request
  <1>2. thread[t].at = "unlocking" /\ thread' = [thread EXCEPT ![t] = c]
    BY DEF DropLock, ThreadAt
  <1> HIDE DEF c
  <1>3. taskLock = t /\ t # Free
    BY <1>2, TasksAssumption DEF PromiseInv, Sound, Inside
  <1>4. Shown' = Shown /\ Grows
    BY <1>1, <1>2, <1>3, SameList DEF DropLock
  <1>5. TasksTypeOK'
    BY <1>1, <1>2 DEF DropLock, PromiseInv, TasksTypeOK
  <1>6. Sound(t, c, tasksFile', taskLock', TaskList', TasksLost')
    <2>1. Sound(t, thread[t], tasksFile, taskLock, TaskList, TasksLost)
      BY DEF PromiseInv
    <2>. QED  BY <2>1, <1>1, <1>2, <1>3, <1>4 DEF DropLock, Sound, Inside, Done, Shown
  <1>7. PromiseInv'
    BY <1>1, <1>2, <1>3, <1>4, <1>5, <1>6, OneThread DEF DropLock, PromiseInv
  <1>. QED  BY <1>4, <1>7 DEF DropLock, Shown, Stutters

LEMMA TakeIdStep ==
    ASSUME PromiseInv, NEW t \in Thread, TakeId(t)
    PROVE  PromiseInv' /\ Stutters
  <1> DEFINE c == [thread[t] EXCEPT !.at = "storing", !.id = nextOp[ServerOf[t]]]
  <1>1. nextOp \in [Server -> Nat] /\ ServerOf[t] \in Server
    BY TasksAssumption DEF PromiseInv, TasksTypeOK
  <1>2. /\ c \in Request /\ c.at = "storing" /\ c.ask = thread[t].ask /\ c.op = thread[t].op
        /\ c.result = thread[t].result /\ c.version = thread[t].version
        /\ c.expected = thread[t].expected
    BY <1>1, ThreadTyped DEF Request
  <1>3. thread[t].at = "executed" /\ thread' = [thread EXCEPT ![t] = c]
    BY DEF TakeId, ThreadAt
  <1> HIDE DEF c
  <1>4. Shown' = Shown /\ Grows
    BY <1>2, <1>3, SameList DEF TakeId
  <1>5. TasksTypeOK'
    <2>1. nextOp' = [nextOp EXCEPT ![ServerOf[t]] = nextOp[ServerOf[t]] + 1]
      BY DEF TakeId
    <2>2. nextOp' \in [Server -> Nat]
      BY <1>1, <2>1
    <2>. QED  BY <1>2, <1>3, <2>2 DEF TakeId, PromiseInv, TasksTypeOK
  <1>6. Sound(t, c, tasksFile', taskLock', TaskList', TasksLost')
    <2>1. Sound(t, thread[t], tasksFile, taskLock, TaskList, TasksLost)
      BY DEF PromiseInv
    <2>. QED  BY <2>1, <1>2, <1>3, <1>4 DEF TakeId, Sound, Inside, Done, Shown
  <1>7. PromiseInv'
    BY <1>2, <1>3, <1>4, <1>5, <1>6, OneThread DEF TakeId, PromiseInv
  <1>. QED  BY <1>4, <1>7 DEF TakeId, Shown, Stutters

LEMMA StoreStep ==
    ASSUME PromiseInv, NEW t \in Thread, Store(t)
    PROVE  PromiseInv' /\ Stutters
  <1> DEFINE c == [thread[t] EXCEPT !.at = "answering"]
  <1>1. /\ c \in Request /\ c.at = "answering" /\ c.ask = thread[t].ask /\ c.op = thread[t].op
        /\ c.result = thread[t].result /\ c.version = thread[t].version
        /\ c.expected = thread[t].expected
    BY ThreadTyped DEF Request
  <1>2. thread[t].at = "storing" /\ thread' = [thread EXCEPT ![t] = c]
    BY DEF Store, ThreadAt
  <1> HIDE DEF c
  <1>3. Shown' = Shown /\ Grows
    BY <1>1, <1>2, SameList DEF Store
  <1>4. stored' \in [Server -> SUBSET [id : Nat, ask : 1..MaxAsks]]
    <2>1. [id |-> thread[t].id, ask |-> thread[t].ask] \in [id : Nat, ask : 1..MaxAsks]
      BY <1>2, ThreadTyped DEF PromiseInv, Sound, Request
    <2>. QED  BY <2>1, TasksAssumption DEF Store, PromiseInv, TasksTypeOK
  <1>5. TasksTypeOK'
    BY <1>1, <1>2, <1>4 DEF Store, PromiseInv, TasksTypeOK
  <1>6. Sound(t, c, tasksFile', taskLock', TaskList', TasksLost')
    <2>1. Sound(t, thread[t], tasksFile, taskLock, TaskList, TasksLost)
      BY DEF PromiseInv
    <2>. QED  BY <2>1, <1>1, <1>2, <1>3 DEF Store, Sound, Inside, Done, Shown
  <1>7. PromiseInv'
    BY <1>1, <1>2, <1>3, <1>5, <1>6, OneThread DEF Store, PromiseInv
  <1>. QED  BY <1>3, <1>7 DEF Store, Shown, Stutters

(* An answer of success tells of a task that is where it says. *)
LEMMA AnswerStep ==
    ASSUME PromiseInv, NEW t \in Thread, Answer(t)
    PROVE  /\ PromiseInv' /\ UNCHANGED <<TaskList, TasksLost>>
           /\ \/ answers' = answers
              \/ \E answer \in answers' :
                    /\ answer.version = answer.expected + 1
                    /\ TasksLost \/ (/\ answer.version \in DOMAIN TaskList
                                     /\ TaskList[answer.version] = answer.title)
                    /\ answers' = answers \cup {answer}
  <1> DEFINE new == [title |-> thread[t].ask, expected |-> thread[t].expected,
                     version |-> thread[t].version]
  <1>1. thread[t].at = "answering" /\ thread' = [thread EXCEPT ![t] = Resting]
    BY DEF Answer, ThreadAt
  <1>2. Resting \in Request /\ Resting.at = "rest"
    BY TasksAssumption DEF Resting, Request, TaskOps
  <1>3. Sound(t, thread[t], tasksFile, taskLock, TaskList, TasksLost)
    BY DEF PromiseInv
  <1>4. Shown' = Shown /\ Grows
    BY <1>1, <1>2, SameList DEF Answer
  <1>5. /\ thread[t].ask \in 1..MaxAsks /\ thread[t].id \in Nat /\ thread[t].version \in Nat
        /\ thread[t].expected \in 0..MaxAsks /\ ServerOf[t] \in Server
    BY <1>1, <1>3, ThreadTyped, TasksAssumption DEF Sound, Request
  <1>6. new \in [title : 1..MaxAsks, expected : 0..MaxAsks, version : Nat]
    BY <1>5
  <1>7. TasksTypeOK'
    <2>1. answers' = answers \/ answers' = answers \cup {new}
      BY DEF Answer
    <2>2. handed' \subseteq [server : Server, id : Nat, ask : 1..MaxAsks]
      BY <1>5 DEF Answer, PromiseInv, TasksTypeOK
    <2>3. answers' \subseteq [title : 1..MaxAsks, expected : 0..MaxAsks, version : Nat]
      BY <1>6, <2>1 DEF PromiseInv, TasksTypeOK
    <2>. QED  BY <1>1, <1>2, <2>2, <2>3 DEF Answer, PromiseInv, TasksTypeOK
  <1>8. Sound(t, Resting, tasksFile', taskLock', TaskList', TasksLost')
    BY <1>1, <1>2, <1>3 DEF Answer, Sound, Inside, Done
  <1>9. PromiseInv'
    BY <1>1, <1>2, <1>4, <1>7, <1>8, OneThread DEF Answer, PromiseInv
  <1>10. CASE thread[t].op = "tasks_update" /\ thread[t].result = "ok"
    <2>1. /\ new.version = new.expected + 1
          /\ TasksLost \/ (new.version \in DOMAIN TaskList /\ TaskList[new.version] = new.title)
      BY <1>1, <1>3, <1>10 DEF Sound, Done
    <2>2. answers' = answers \cup {new}
      BY <1>10 DEF Answer
    <2>3. new \in answers'
      BY <2>2
    <2> HIDE DEF new
    <2>. QED  BY <1>4, <1>9, <2>1, <2>2, <2>3 DEF Shown
  <1>11. CASE ~(thread[t].op = "tasks_update" /\ thread[t].result = "ok")
    BY <1>4, <1>9, <1>11 DEF Answer, Shown
  <1>. QED  BY <1>10, <1>11

(* A kill takes the threads of one server: if one of them was writing, the *)
(* list is lost.                                                           *)
LEMMA KillStep ==
    ASSUME PromiseInv, NEW s \in Server, KillServer(s)
    PROVE  /\ PromiseInv' /\ answers' = answers
           /\ \/ UNCHANGED <<TaskList, TasksLost>>
              \/ TasksLost' /\ TaskList' = <<>>
  <1>1. /\ \A t \in Thread : thread'[t] = IF ServerOf[t] = s THEN Resting ELSE thread[t]
        /\ taskLock \in Thread \cup {Free} /\ Free \notin Thread /\ tasksFile' = tasksFile
        /\ taskLock' = IF taskLock # Free /\ ServerOf[taskLock] = s THEN Free ELSE taskLock
        /\ answers' = answers
    BY TasksAssumption DEF KillServer, PromiseInv, TasksTypeOK
  <1>2. Resting \in Request /\ Resting.at = "rest"
    BY TasksAssumption DEF Resting, Request, TaskOps
  <1>3. TasksTypeOK'
    <2>1. thread' \in [Thread -> Request]
      BY <1>2 DEF KillServer, PromiseInv, TasksTypeOK
    <2>2. /\ nextOp' \in [Server -> Nat]
          /\ stored' \in [Server -> SUBSET [id : Nat, ask : 1..MaxAsks]]
          /\ crashes' \in 0..MaxCrashes
          /\ handed' \subseteq [server : Server, id : Nat, ask : 1..MaxAsks]
          /\ taskLock' \in Thread \cup {Free}
      BY TasksAssumption, <1>1 DEF KillServer, PromiseInv, TasksTypeOK
    <2>. QED  BY <2>1, <2>2 DEF KillServer, PromiseInv, TasksTypeOK
  <1>4. \/ UNCHANGED <<TaskList, TasksLost>>
        \/ TasksLost' /\ TaskList' = <<>>
    <2>1. CASE /\ tasksFile.state = "torn" /\ taskLock # Free
               /\ thread[taskLock].at = "writing" /\ ServerOf[taskLock] = s
      BY <1>1, <2>1 DEF TaskList, TasksLost, ThreadAt, PromiseInv
    <2>2. CASE ~(/\ tasksFile.state = "torn" /\ taskLock # Free
                 /\ thread[taskLock].at = "writing" /\ ServerOf[taskLock] = s)
      <3>1. CASE taskLock # Free /\ ServerOf[taskLock] = s
        BY <1>1, <2>2, <3>1 DEF TaskList, TasksLost, ThreadAt
      <3>2. CASE taskLock = Free
        BY <1>1, <3>2 DEF TaskList, TasksLost, ThreadAt
      <3>3. CASE taskLock # Free /\ ServerOf[taskLock] # s
        BY <1>1, <3>3 DEF TaskList, TasksLost, ThreadAt
      <3>. QED  BY <3>1, <3>2, <3>3
    <2>. QED  BY <2>1, <2>2
  <1>5. ASSUME NEW t \in Thread
        PROVE  Sound(t, thread'[t], tasksFile', taskLock', TaskList', TasksLost')
    <2>1. Sound(t, thread[t], tasksFile, taskLock, TaskList, TasksLost)
      BY DEF PromiseInv
    <2>2. CASE ServerOf[t] = s
      BY <1>1, <1>2, <2>1, <2>2 DEF Sound, Inside, Done
    <2>3. CASE ServerOf[t] # s
      BY <1>1, <1>4, <2>1, <2>3 DEF Sound, Inside, Done
    <2>. QED  BY <2>2, <2>3
  <1>6. tasksFile'.state # "whole" => tasksFile'.titles = <<>>
    BY <1>1 DEF PromiseInv
  <1>. QED  BY <1>1, <1>3, <1>4, <1>5, <1>6 DEF PromiseInv

-----------------------------------------------------------------------------
(* The promise *)

LEMMA PromiseStarts == TasksInit => PromiseInv /\ Promise!PromiseInit
  <1> SUFFICES ASSUME TasksInit PROVE PromiseInv /\ Promise!PromiseInit
    OBVIOUS
  <1>1. Resting \in Request /\ Resting.at = "rest"
    BY TasksAssumption DEF Resting, Request, TaskOps
  <1>2. NoTasks \in TaskFile /\ NoTasks.state = "missing" /\ NoTasks.titles = <<>>
    BY DEF NoTasks, TaskFile
  <1>3. TasksTypeOK
    BY <1>1, <1>2, TasksAssumption DEF TasksInit, TasksTypeOK
  <1>4. \A t \in Thread : Sound(t, thread[t], tasksFile, taskLock, TaskList, TasksLost)
    BY <1>1, TasksAssumption DEF TasksInit, Sound, Inside, Done
  <1>5. TaskList = <<>> /\ TasksLost = FALSE /\ answers = {}
    BY <1>2 DEF TasksInit, TaskList, TasksLost
  <1>. QED  BY <1>2, <1>3, <1>4, <1>5 DEF TasksInit, PromiseInv, Promise!PromiseInit

LEMMA PromiseStep ==
    PromiseInv /\ [TasksNext]_tasksVars => PromiseInv' /\ [Promise!PromiseNext]_(Promise!taskPromise)
  <1> SUFFICES ASSUME PromiseInv, [TasksNext]_tasksVars
               PROVE  PromiseInv' /\ [Promise!PromiseNext]_(Promise!taskPromise)
    OBVIOUS
  <1>s. Stutters => UNCHANGED Promise!taskPromise
    BY DEF Stutters, Promise!taskPromise
  <1>1. ASSUME NEW t \in Thread, NEW op \in TaskOps, NEW expected \in 0..MaxAsks,
               Ask(t, op, expected)
        PROVE  PromiseInv' /\ [Promise!PromiseNext]_(Promise!taskPromise)
    BY <1>1, <1>s, AskStep
  <1>2. ASSUME NEW t \in Thread, ThreadStep(t)
        PROVE  PromiseInv' /\ [Promise!PromiseNext]_(Promise!taskPromise)
    <2>1. CASE TakeLock(t)  BY <2>1, <1>s, TakeLockStep
    <2>2. CASE Read(t)  BY <2>2, <1>s, ReadStep
    <2>3. CASE Truncate(t)  BY <2>3, <1>s, TruncateStep
    <2>4. CASE WriteTasks(t)
      <3>1. /\ PromiseInv' /\ ~TasksLost /\ ~TasksLost' /\ answers' = answers
            /\ \E k \in DOMAIN TaskList' : TaskList' = Append(TaskList, TaskList'[k])
        BY <2>4, WriteStep
      <3>2. TasksLost' = TasksLost
        BY <3>1 DEF TasksLost
      <3>. QED  BY <3>1, <3>2 DEF Promise!PromiseNext, Promise!Add
    <2>5. CASE DropLock(t)  BY <2>5, <1>s, DropLockStep
    <2>6. CASE TakeId(t)  BY <2>6, <1>s, TakeIdStep
    <2>7. CASE Store(t)  BY <2>7, <1>s, StoreStep
    <2>8. CASE Answer(t)
      BY <2>8, AnswerStep DEF Promise!PromiseNext, Promise!Tell, Promise!taskPromise
    <2>. QED  BY <1>2, <2>1, <2>2, <2>3, <2>4, <2>5, <2>6, <2>7, <2>8 DEF ThreadStep
  <1>3. ASSUME NEW t \in Thread, WriteFails(t)
        PROVE  PromiseInv' /\ [Promise!PromiseNext]_(Promise!taskPromise)
    <2>1. PromiseInv' /\ answers' = answers
      BY <1>3, WriteFailsStep
    <2>2. CASE TasksLost' /\ TaskList' = <<>>
      <3>1. TasksLost' = TRUE
        BY <2>2 DEF TasksLost
      <3>. QED  BY <2>1, <2>2, <3>1 DEF Promise!PromiseNext, Promise!Lose
    <2>3. CASE /\ ~TasksLost /\ ~TasksLost'
               /\ \E k \in DOMAIN TaskList' : TaskList' = Append(TaskList, TaskList'[k])
      <3>1. TasksLost' = TasksLost
        BY <2>3 DEF TasksLost
      <3>. QED  BY <2>1, <2>3, <3>1 DEF Promise!PromiseNext, Promise!Add
    <2>. QED  BY <1>3, <2>2, <2>3, WriteFailsStep
  <1>4. ASSUME NEW s \in Server, KillServer(s)
        PROVE  PromiseInv' /\ [Promise!PromiseNext]_(Promise!taskPromise)
    <2>1. /\ PromiseInv' /\ answers' = answers
          /\ \/ UNCHANGED <<TaskList, TasksLost>>
             \/ TasksLost' /\ TaskList' = <<>>
      BY <1>4, KillStep
    <2>2. TasksLost' => TasksLost' = TRUE
      BY DEF TasksLost
    <2>. QED  BY <2>1, <2>2 DEF Promise!PromiseNext, Promise!Lose, Promise!taskPromise
  <1>5. CASE UNCHANGED tasksVars
    BY <1>5 DEF tasksVars, PromiseInv, TasksTypeOK, TaskList, TasksLost, ThreadAt,
                Promise!taskPromise
  <1>. QED  BY <1>1, <1>2, <1>3, <1>4, <1>5 DEF TasksNext

(* The task list keeps its promise: tasks_update and the file under it     *)
(* implement a list that only grows and whose answers are true.            *)
THEOREM PromiseIsKept == TasksSpec => ImplementsPromise
  <1>1. TasksInit => PromiseInv /\ Promise!PromiseInit
    BY PromiseStarts
  <1>2. PromiseInv /\ [TasksNext]_tasksVars => PromiseInv' /\ [Promise!PromiseNext]_(Promise!taskPromise)
    BY PromiseStep
  <1>. QED  BY <1>1, <1>2, PTL DEF TasksSpec, ImplementsPromise, Promise!PromiseSpec

-----------------------------------------------------------------------------
(* The table *)

TablesInv == PromiseInv /\ TableInv

(* Steps that leave the table alone, and give nobody a number. *)
LEMMA TableSame ==
    ASSUME TableInv, UNCHANGED <<nextOp, stored, handed>>,
           \A t \in Thread : Numbered(thread'[t]) \/ Numbered(thread[t]) => thread'[t] = thread[t]
    PROVE  TableInv'
  <1>1. \A t \in Thread : Numbered(thread'[t]) => thread'[t] = thread[t] /\ Numbered(thread[t])
    OBVIOUS
  <1>2. \A t \in Thread :
          /\ ThreadAt(t, "storing")' => thread'[t] = thread[t] /\ ThreadAt(t, "storing")
          /\ ThreadAt(t, "answering")' => thread'[t] = thread[t] /\ ThreadAt(t, "answering")
    BY DEF ThreadAt, Numbered
  <1>. QED  BY <1>1, <1>2 DEF TableInv

LEMMA TableTakeId ==
    ASSUME TablesInv, NEW t \in Thread, TakeId(t)
    PROVE  TableInv'
  <1> DEFINE n == nextOp[ServerOf[t]]
  <1>1. /\ nextOp \in [Server -> Nat] /\ ServerOf \in [Thread -> Server] /\ n \in Nat
        /\ stored \in [Server -> SUBSET [id : Nat, ask : 1..MaxAsks]]
        /\ thread \in [Thread -> Request]
    BY TasksAssumption DEF TablesInv, PromiseInv, TasksTypeOK
  <1>2. /\ thread'[t].at = "storing" /\ thread'[t].id = n
        /\ \A u \in Thread : u # t => thread'[u] = thread[u]
        /\ stored' = stored /\ handed' = handed
    BY <1>1 DEF TakeId, Request
  <1>3. \A s \in Server : nextOp'[s] = IF s = ServerOf[t] THEN n + 1 ELSE nextOp[s]
    BY <1>1 DEF TakeId
  <1>4. \A u \in Thread : thread[u].id \in Nat
    BY <1>1 DEF Request
  <1>5. \A s \in Server : \A o \in stored[s] : o.id \in Nat
    BY <1>1
  <1>6. \A u \in Thread : Numbered(thread'[u]) => thread'[u].id < nextOp'[ServerOf[u]]
    BY <1>1, <1>2, <1>3, <1>4 DEF TablesInv, TableInv
  <1>7. \A u, v \in Thread :
          u # v /\ Numbered(thread'[u]) /\ Numbered(thread'[v]) /\ ServerOf[u] = ServerOf[v]
             => thread'[u].id # thread'[v].id
    BY <1>1, <1>2, <1>4 DEF TablesInv, TableInv
  <1>8. \A s \in Server : \A o \in stored'[s] : o.id < nextOp'[s]
    BY <1>1, <1>2, <1>3, <1>5 DEF TablesInv, TableInv
  <1>9. \A u \in Thread : ThreadAt(u, "storing")' =>
          \A o \in stored'[ServerOf[u]] : o.id # thread'[u].id
    BY <1>1, <1>2, <1>5 DEF TablesInv, TableInv, ThreadAt
  <1>10. \A u \in Thread : ThreadAt(u, "answering")' =>
          [id |-> thread'[u].id, ask |-> thread'[u].ask] \in stored'[ServerOf[u]]
    BY <1>1, <1>2 DEF TablesInv, TableInv, ThreadAt
  <1>. QED  BY <1>2, <1>6, <1>7, <1>8, <1>9, <1>10 DEF TablesInv, TableInv

LEMMA TableStore ==
    ASSUME TablesInv, NEW t \in Thread, Store(t)
    PROVE  TableInv'
  <1> DEFINE s == ServerOf[t]
             o == [id |-> thread[t].id, ask |-> thread[t].ask]
  <1>1. /\ ServerOf \in [Thread -> Server] /\ s \in Server
        /\ stored \in [Server -> SUBSET [id : Nat, ask : 1..MaxAsks]]
        /\ thread \in [Thread -> Request] /\ thread[t].at = "storing"
    BY TasksAssumption DEF Store, ThreadAt, TablesInv, PromiseInv, TasksTypeOK
  <1>2. \A q \in stored[s] : q.id # thread[t].id
    BY <1>1 DEF TablesInv, TableInv, ThreadAt
  <1>3. stored'[s] = stored[s] \cup {o} /\ \A z \in Server : z # s => stored'[z] = stored[z]
    BY <1>1, <1>2 DEF Store
  <1>4. /\ thread'[t].at = "answering" /\ thread'[t].id = thread[t].id /\ thread'[t].ask = thread[t].ask
        /\ \A u \in Thread : u # t => thread'[u] = thread[u]
        /\ nextOp' = nextOp /\ handed' = handed
    BY <1>1 DEF Store, Request
  <1>5. \A u \in Thread : Numbered(thread'[u]) =>
          Numbered(thread[u]) /\ thread'[u].id = thread[u].id
    BY <1>1, <1>4 DEF Numbered
  <1>6. o.id = thread[t].id
    OBVIOUS
  <1> HIDE DEF o
  <1>7. \A z \in Server : \A q \in stored'[z] : q.id < nextOp'[z]
    BY <1>1, <1>3, <1>4, <1>6 DEF TablesInv, TableInv, Numbered
  <1>8. \A z \in Server : \A q, r \in stored'[z] : q.id = r.id => q = r
    BY <1>1, <1>2, <1>3, <1>6 DEF TablesInv, TableInv
  <1>9. \A u \in Thread : ThreadAt(u, "storing")' =>
          \A q \in stored'[ServerOf[u]] : q.id # thread'[u].id
    BY <1>1, <1>3, <1>4, <1>6 DEF TablesInv, TableInv, ThreadAt, Numbered
  <1>10. \A u \in Thread : ThreadAt(u, "answering")' =>
          [id |-> thread'[u].id, ask |-> thread'[u].ask] \in stored'[ServerOf[u]]
    BY <1>1, <1>3, <1>4 DEF TablesInv, TableInv, ThreadAt, o
  <1>11. \A h \in handed' : [id |-> h.id, ask |-> h.ask] \in stored'[h.server]
    <2>1. \A h \in handed : h.server \in Server
      BY DEF TablesInv, PromiseInv, TasksTypeOK
    <2>. QED  BY <1>3, <1>4, <2>1 DEF TablesInv, TableInv
  <1>12. \A u \in Thread : Numbered(thread'[u]) => thread'[u].id < nextOp'[ServerOf[u]]
    BY <1>4, <1>5 DEF TablesInv, TableInv
  <1>13. \A u, v \in Thread :
          u # v /\ Numbered(thread'[u]) /\ Numbered(thread'[v]) /\ ServerOf[u] = ServerOf[v]
             => thread'[u].id # thread'[v].id
    BY <1>5 DEF TablesInv, TableInv
  <1>. QED  BY <1>7, <1>8, <1>9, <1>10, <1>11, <1>12, <1>13 DEF TableInv

LEMMA TableAnswer ==
    ASSUME TablesInv, NEW t \in Thread, Answer(t)
    PROVE  TableInv'
  <1>1. /\ thread \in [Thread -> Request] /\ thread[t].at = "answering" /\ Resting.at = "rest"
    BY DEF Answer, ThreadAt, TablesInv, PromiseInv, TasksTypeOK, Resting
  <1>2. /\ thread'[t].at = "rest" /\ \A u \in Thread : u # t => thread'[u] = thread[u]
        /\ nextOp' = nextOp /\ stored' = stored
    BY <1>1 DEF Answer
  <1>3. \A u \in Thread : Numbered(thread'[u]) => thread'[u] = thread[u]
    BY <1>2 DEF Numbered
  <1>4. \A h \in handed' : [id |-> h.id, ask |-> h.ask] \in stored'[h.server]
    <2>1. [id |-> thread[t].id, ask |-> thread[t].ask] \in stored[ServerOf[t]]
      BY <1>1 DEF TablesInv, TableInv, ThreadAt
    <2>2. handed' = handed \cup {[server |-> ServerOf[t], id |-> thread[t].id, ask |-> thread[t].ask]}
      BY DEF Answer
    <2> DEFINE new == [server |-> ServerOf[t], id |-> thread[t].id, ask |-> thread[t].ask]
    <2>3. new.server = ServerOf[t] /\ new.id = thread[t].id /\ new.ask = thread[t].ask
      OBVIOUS
    <2>4. \A h \in handed : [id |-> h.id, ask |-> h.ask] \in stored[h.server]
      BY DEF TablesInv, TableInv
    <2> HIDE DEF new
    <2>5. ASSUME NEW h \in handed' PROVE [id |-> h.id, ask |-> h.ask] \in stored'[h.server]
      <3>1. CASE h \in handed  BY <1>2, <2>4, <3>1
      <3>2. CASE h = new  BY <1>2, <2>1, <2>3, <3>2
      <3>. QED  BY <2>2, <3>1, <3>2 DEF new
    <2>. QED  BY <2>5
  <1>. QED  BY <1>2, <1>3, <1>4 DEF TablesInv, TableInv, ThreadAt, Numbered

LEMMA TableKill ==
    ASSUME TablesInv, NEW s \in Server, KillServer(s)
    PROVE  TableInv'
  <1>1. /\ \A t \in Thread : thread'[t] = IF ServerOf[t] = s THEN Resting ELSE thread[t]
        /\ Resting.at = "rest" /\ ServerOf \in [Thread -> Server]
    BY TasksAssumption DEF KillServer, Resting
  <1>2. /\ stored'[s] = {} /\ \A z \in Server : z # s => stored'[z] = stored[z] /\ nextOp'[z] = nextOp[z]
        /\ handed' = {h \in handed : h.server # s}
    BY DEF KillServer, TablesInv, PromiseInv, TasksTypeOK
  <1>3. \A t \in Thread : Numbered(thread'[t]) => ServerOf[t] # s /\ thread'[t] = thread[t]
    BY <1>1 DEF Numbered
  <1>4. \A h \in handed' : h \in handed /\ h.server # s /\ h.server \in Server
    BY <1>2 DEF TablesInv, PromiseInv, TasksTypeOK
  <1>5. \A t \in Thread : ServerOf[t] \in Server
    BY <1>1
  <1>6. \A t \in Thread : Numbered(thread'[t]) => thread'[t].id < nextOp'[ServerOf[t]]
    BY <1>2, <1>3, <1>5 DEF TablesInv, TableInv
  <1>7. \A t, u \in Thread :
          t # u /\ Numbered(thread'[t]) /\ Numbered(thread'[u]) /\ ServerOf[t] = ServerOf[u]
             => thread'[t].id # thread'[u].id
    BY <1>3 DEF TablesInv, TableInv
  <1>8. \A z \in Server : \A o \in stored'[z] : o.id < nextOp'[z]
    BY <1>2 DEF TablesInv, TableInv
  <1>9. \A z \in Server : \A o, q \in stored'[z] : o.id = q.id => o = q
    BY <1>2 DEF TablesInv, TableInv
  <1>10. \A t \in Thread : ThreadAt(t, "storing")' =>
           \A o \in stored'[ServerOf[t]] : o.id # thread'[t].id
    BY <1>2, <1>3, <1>5 DEF TablesInv, TableInv, ThreadAt, Numbered
  <1>11. \A t \in Thread : ThreadAt(t, "answering")' =>
           [id |-> thread'[t].id, ask |-> thread'[t].ask] \in stored'[ServerOf[t]]
    BY <1>2, <1>3, <1>5 DEF TablesInv, TableInv, ThreadAt, Numbered
  <1>12. \A h \in handed' : [id |-> h.id, ask |-> h.ask] \in stored'[h.server]
    BY <1>2, <1>4 DEF TablesInv, TableInv
  <1>. QED  BY <1>6, <1>7, <1>8, <1>9, <1>10, <1>11, <1>12 DEF TableInv

LEMMA TableStep == TablesInv /\ [TasksNext]_tasksVars => TablesInv'
  <1> SUFFICES ASSUME TablesInv, [TasksNext]_tasksVars PROVE TablesInv'
    OBVIOUS
  <1>1. PromiseInv'
    BY PromiseStep DEF TablesInv
  <1>2. thread \in [Thread -> Request]
    BY DEF TablesInv, PromiseInv, TasksTypeOK
  <1>3. ASSUME NEW t \in Thread, NEW op \in TaskOps, NEW expected \in 0..MaxAsks,
               Ask(t, op, expected)
        PROVE  TableInv'
    <2>1. thread'[t].at \in {"executed", "waiting"} /\ thread[t].at = "rest"
          /\ \A u \in Thread : u # t => thread'[u] = thread[u]
      BY <1>2, <1>3 DEF Ask, ThreadAt, Resting
    <2>. QED  BY <2>1, <1>3, TableSame DEF Ask, Numbered, TablesInv
  <1>4. ASSUME NEW t \in Thread, TakeLock(t) \/ Truncate(t) \/ DropLock(t)
        PROVE  TableInv'
    <2>1. /\ thread'[t].at \in {"locked", "writing", "executed"}
          /\ thread[t].at \in {"waiting", "truncating", "unlocking"}
          /\ \A u \in Thread : u # t => thread'[u] = thread[u]
      BY <1>2, <1>4 DEF TakeLock, Truncate, DropLock, ThreadAt, Request
    <2>. QED  BY <2>1, <1>4, TableSame DEF TakeLock, Truncate, DropLock, Numbered, TablesInv
  <1>5. ASSUME NEW t \in Thread, Read(t) \/ WriteTasks(t) \/ WriteFails(t)
        PROVE  TableInv'
    <2>1. \/ \E result, titles : Finish(t, result, titles)
          \/ \E titles : GoOn(t, titles)
      BY <1>5, Zenon DEF Read, WriteTasks, WriteFails
    <2>2. /\ thread'[t].at \in {"unlocking", "truncating"}
          /\ \A u \in Thread : u # t => thread'[u] = thread[u]
      BY <1>2, <2>1 DEF Finish, GoOn, Request
    <2>3. thread[t].at \in {"locked", "writing"} /\ UNCHANGED <<nextOp, stored, handed>>
      BY <1>5 DEF Read, WriteTasks, WriteFails, ThreadAt
    <2>. QED  BY <2>2, <2>3, TableSame DEF Numbered, TablesInv
  <1>6. CASE UNCHANGED tasksVars
    <2>1. UNCHANGED <<thread, nextOp, stored, handed>>
      BY <1>6 DEF tasksVars
    <2>. QED  BY <1>1, <2>1, TableSame DEF TablesInv
  <1>7. TableInv'
    BY <1>3, <1>4, <1>5, <1>6, TableTakeId, TableStore, TableAnswer, TableKill
       DEF TasksNext, ThreadStep, TablesInv
  <1>. QED  BY <1>1, <1>7 DEF TablesInv

(* A client that was given an operation's id by a live server finds the    *)
(* result of its own request under it.                                     *)
THEOREM ResultIsOwn == TasksSpec => []OwnResult
  <1>1. TasksInit => TablesInv
    <2>1. TasksInit => TableInv
      BY DEF TasksInit, TableInv, ThreadAt, Numbered, Resting
    <2>. QED  BY <2>1, PromiseStarts DEF TablesInv
  <1>2. TablesInv /\ [TasksNext]_tasksVars => TablesInv'
    BY TableStep
  <1>3. TablesInv => OwnResult
    <2> SUFFICES ASSUME TablesInv, NEW h \in handed
                 PROVE  /\ \E o \in stored[h.server] : o.id = h.id
                        /\ \A o \in stored[h.server] : o.id = h.id => o.ask = h.ask
      BY DEF OwnResult
    <2> DEFINE mine == [id |-> h.id, ask |-> h.ask]
    <2>1. mine \in stored[h.server] /\ mine.id = h.id /\ mine.ask = h.ask /\ h.server \in Server
      BY DEF TablesInv, TableInv, PromiseInv, TasksTypeOK
    <2> HIDE DEF mine
    <2>2. \A o \in stored[h.server] : o.id = h.id => o = mine
      BY <2>1 DEF TablesInv, TableInv
    <2>. QED  BY <2>1, <2>2
  <1>. QED  BY <1>1, <1>2, <1>3, PTL DEF TasksSpec
=============================================================================
