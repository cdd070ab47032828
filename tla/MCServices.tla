----------------------------- MODULE MCServices -----------------------------
(***************************************************************************)
(* Five components that share no state (erasure, ingestion, tasks, search, *)
(* edits of other programs' files) side by side on small instances: a      *)
(* behaviour is one of theirs, and the other four stay as they begin.      *)
(***************************************************************************)
EXTENDS Erasure, Intake, Tasks, Scan, Files, TLC

VARIABLE part \* the component that takes the steps

Parts == {"erasure", "intake", "tasks", "scan", "files"}

ServicesVars == <<part, vars, intakeVars, tasksVars, scanVars, filesVars>>

-----------------------------------------------------------------------------
(* The processes of Erasure and the workers of Intake are two threads of   *)
(* one server of Tasks, which has a third on another.                      *)

CONSTANTS p1, p2, p3, s1, s2
MCServerOf == (p1 :> s1) @@ (p2 :> s1) @@ (p3 :> s2)

(* Search: a row that is cut off, a short turn that ends in dots and may   *)
(* leave the hits before the first comes, and an acknowledgement, all of   *)
(* one session; a long hit of another, and one that is filtered out.       *)
Kind(id, score, len, dotted, passes) ==
    [id |-> id, score |-> score, len |-> len, dotted |-> dotted, passes |-> passes]

Kinds == {Kind("i", 3, 3000, FALSE, TRUE), Kind("i", 1, 30, TRUE, TRUE),
          Kind("i", 0, 5, FALSE, TRUE), Kind("j", 2, 3000, FALSE, TRUE),
          Kind("j", 1, 20, FALSE, FALSE)}

(* Facts: the best does not pass, and takes the place of one that does.    *)
FactOf(key, score, passes) == [key |-> key, score |-> score, passes |-> passes]

TheFacts == {<<>>, <<FactOf(1, 1, TRUE), FactOf(2, 2, FALSE), FactOf(3, 1, TRUE), FactOf(4, 0, TRUE)>>}

-----------------------------------------------------------------------------
(* Intake: worlds of files, each with the cases that one reader has. *)

Home == <<<<"home">>, <<"p">>>>
Sub == Append(Home, <<"sub">>)

(* `from`: how many of its lines it has to begin with. *)
File(kind, cwd, script, from, subagent) ==
    [kind |-> kind, cwd |-> cwd, script |-> script, from |-> from, subagent |-> subagent]

ClaudeLine(uuid, text, cwd) ==
    [Line EXCEPT !.type = "user", !.session = "s", !.uuid = uuid, !.text = text, !.cwd = cwd]

Meta(session, cwd, subagent) ==
    [Line EXCEPT !.type = "session_meta", !.session = session, !.cwd = cwd,
                 !.subagent = subagent, !.real = FALSE]

Item(role, channel, text) ==
    [Line EXCEPT !.type = "response_item", !.part = "message", !.role = role,
                 !.channel = channel, !.text = text]

(* A session in a folder of the project, with a line that has no uuid, a   *)
(* copy of it among the project's files, and a subagent's transcript.      *)
ClaudeWorld ==
    ("c" :> File("claude", Sub, <<ClaudeLine("u1", "m1", Sub), ClaudeLine(None, "m2", Sub)>>, 0, FALSE))
    @@ ("copy" :> File("local", Sub, <<ClaudeLine("u1", "m1", Sub)>>, 1, FALSE))
    @@ ("sub" :> File("claude", Sub, <<[ClaudeLine("u9", "m9", Sub) EXCEPT !.real = FALSE]>>, 1, TRUE))

(* A rollout and its fork, which has the session id of its parent. *)
CodexWorld ==
    ("r" :> File("codex", Sub, <<Meta("s", Sub, FALSE), Item("user", None, "m1")>>, 2, FALSE))
    @@ ("fork" :> File("codex", Sub, <<Meta("s", Sub, FALSE), Item("assistant", "final", "m2")>>, 2, FALSE))

(* A rollout that grows, and so may end inside a character. *)
RolloutWorld ==
    "r" :> File("codex", Home,
                <<Meta("s", Home, FALSE), Item("user", None, "m1"), Item("user", None, "m2")>>, 2, FALSE)

(* A transcript with roles only that grows. *)
Spoken(text) == [Line EXCEPT !.role = "user", !.text = text]

PlainWorld == "t" :> File("local", Home, <<Spoken("m1"), Spoken("m2")>>, 1, FALSE)

(* A memory file that changes, and one that is not in the root. *)
LocalWorld ==
    ("AGENTS" :> File("md", Home, <<[Line EXCEPT !.text = "v1"], [Line EXCEPT !.text = "v2"]>>, 0, FALSE))
    @@ ("README" :> File("md", Sub, <<[Line EXCEPT !.text = "v3"]>>, 1, FALSE))

Part(id, text) == [Line EXCEPT !.role = "user", !.part = "text", !.uuid = id, !.text = text]

OpencodeWorld ==
    "o" :> File("opencode", Home, <<Part("p1", "m1"), Part("p2", "m2")>>, 0, FALSE)

(* Files that are given by their paths. *)
PathsWorld ==
    ("chat" :> File("chat", Home, <<[Line EXCEPT !.role = "user", !.uuid = "x1", !.text = "m1"]>>, 1, FALSE))
    @@ ("cal" :> File("calendar", Home,
            <<[Line EXCEPT !.type = "UID", !.uuid = "e1", !.real = FALSE],
              [Line EXCEPT !.type = "SUMMARY", !.text = "m2"],
              [Line EXCEPT !.type = "END", !.real = FALSE]>>, 3, FALSE))
    @@ ("ide" :> File("ide", Home, <<[Line EXCEPT !.text = "m4"]>>, 1, FALSE))

IntakeWorlds == {ClaudeWorld, CodexWorld, RolloutWorld, PlainWorld, LocalWorld, OpencodeWorld, PathsWorld}

TheWorld == OpencodeWorld

-----------------------------------------------------------------------------
TheSearch == [facts |-> <<>>, rerank |-> FALSE, factsOnly |-> FALSE]

ServicesInit ==
    /\ part \in Parts
    /\ Init /\ IntakeInit /\ TasksInit /\ ScanInit /\ FilesInit
    /\ part # "intake" => world = TheWorld
    /\ part # "scan" => search = TheSearch
    /\ part = "scan" /\ search.facts = <<>> => search.rerank
    /\ part # "files" => target = "agents"

ServicesNext ==
    /\ UNCHANGED part
    /\ \/ /\ part = "erasure" /\ Next
          /\ UNCHANGED <<intakeVars, tasksVars, scanVars, filesVars>>
       \/ /\ part = "intake" /\ IntakeNext
          /\ UNCHANGED <<vars, tasksVars, scanVars, filesVars>>
       \/ /\ part = "tasks" /\ TasksNext
          /\ UNCHANGED <<vars, intakeVars, scanVars, filesVars>>
       \/ /\ part = "scan" /\ ScanNext
          /\ UNCHANGED <<vars, intakeVars, tasksVars, filesVars>>
       \/ /\ part = "files" /\ FilesNext
          /\ UNCHANGED <<vars, intakeVars, tasksVars, scanVars>>

ServicesSpec == ServicesInit /\ [][ServicesNext]_ServicesVars

(* Bounds on what the clients of Tasks ask for: versions that the requests *)
(* before can have led to, and one request at a time that is no update.    *)
TasksBound ==
    LET busy == {t \in Thread : ~ThreadAt(t, "rest")}
    IN  /\ \A t \in busy : thread[t].expected < thread[t].ask
        /\ Cardinality({t \in busy : thread[t].op # "tasks_update"}) <= 1

(* The types of all five. *)
ServicesTypeOK == TypeOK /\ IntakeTypeOK /\ TasksTypeOK /\ ScanTypeOK /\ FilesTypeOK

Symmetry == Permutations({p1, p2}) \cup Permutations(Fact)
=============================================================================
