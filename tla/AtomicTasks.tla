---------------------------- MODULE AtomicTasks ----------------------------
(***************************************************************************)
(* What the task list promises to its clients: a list that only grows, a   *)
(* version that is its length, and a client that is told it has added a    *)
(* task has.  A disk or a process that fails while the list is written may *)
(* lose it; it is then gone for everyone, and never a shorter list.        *)
(***************************************************************************)
EXTENDS Naturals, Sequences

VARIABLES
    list,    \* the titles
    lost,    \* whether the list is lost
    told     \* [title, expected, version] that clients were told

taskPromise == <<list, lost, told>>

PromiseInit == list = <<>> /\ lost = FALSE /\ told = {}

Add(title) ==
    /\ ~lost
    /\ list' = Append(list, title)
    /\ UNCHANGED <<lost, told>>

Lose == lost' = TRUE /\ list' = <<>> /\ UNCHANGED told

(* A client is told of what is there, or was there before it was lost, and *)
(* that its task came right after what it knew.                            *)
Tell(answer) ==
    /\ answer.version = answer.expected + 1
    /\ lost \/ (answer.version \in DOMAIN list /\ list[answer.version] = answer.title)
    /\ told' = told \cup {answer}
    /\ UNCHANGED <<list, lost>>

PromiseNext ==
    \/ \E k \in DOMAIN list' : Add(list'[k])
    \/ Lose
    \/ \E answer \in told' : Tell(answer)

PromiseSpec == PromiseInit /\ [][PromiseNext]_taskPromise
=============================================================================
