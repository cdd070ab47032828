------------------------------ MODULE Adapters ------------------------------
(***************************************************************************)
(* ingest.rs and the readers of cli.rs: the events that a source file      *)
(* gives.  A file is a sequence of lines, as far as another program has    *)
(* written it.  What a line holds is a record of the fields the readers    *)
(* look at; a line that is cut short is Torn, or Garbled if the cut is     *)
(* inside a character, so that the file is not UTF-8.                      *)
(*                                                                         *)
(* An event is [id, msg, project].  Ids are tuples where the code puts     *)
(* strings together: the two are equal together, since the parts between   *)
(* the colons are session ids, file names, uuids and numbers.              *)
(***************************************************************************)
EXTENDS Naturals, Sequences
LOCAL INSTANCE SequencesExt

CONSTANT SniffLines  \* how many records sniff_jsonl looks at

None == "none"

Event(id, msg, project) == [id |-> id, msg |-> msg, project |-> project]

-----------------------------------------------------------------------------
(* JSON lines.  `session` is sessionId, or payload.id of a session_meta;   *)
(* `uuid` is uuid, or the id of an exported message; `part` is             *)
(* payload.type.  `text` is the text found in the parts of the message,    *)
(* less Codex's environment_context.  `real` is no field of the line: it   *)
(* says that the text is somebody's message, for the properties.           *)

Line == [json |-> TRUE, utf8 |-> TRUE, type |-> None, session |-> None, uuid |-> None,
         role |-> None, part |-> None, channel |-> None, subagent |-> FALSE,
         text |-> None, cwd |-> None, real |-> TRUE]

Torn == [Line EXCEPT !.json = FALSE, !.real = FALSE]

Garbled == [Torn EXCEPT !.utf8 = FALSE]

(* Readers that go line by line skip a line that is not UTF-8.  For those  *)
(* that take the file for one text (read_to_string), it is an error.       *)
IsText(lines) == \A k \in DOMAIN lines : lines[k].utf8

IfText(lines, events) == IF IsText(lines) THEN events ELSE <<>>

(* The session and the line's own uuid, or its place in the file. *)
ClaudeId(l, i) ==
    IF l.uuid # None THEN <<"claude", l.session, "uuid", l.uuid>>
                     ELSE <<"claude", l.session, "line", i>>

ClaudeAdapter(lines) ==
    LET Gives(i, l) ==
            IF l.json /\ l.type \in {"user", "assistant"} /\ l.text # None /\ l.session # None
            THEN <<Event(ClaudeId(l, i), l.text, l.cwd)>>
            ELSE <<>>
    IN  FlattenSeq([i \in DOMAIN lines |-> Gives(i, lines[i])])

(* What the last session_meta above a line says. *)
MetaAbove(lines, i, field) ==
    LET above == {k \in 1..(i - 1) : lines[k].json /\ lines[k].type = "session_meta"}
    IN  IF above = {} THEN None
        ELSE lines[CHOOSE k \in above : \A j \in above : j <= k][field]

IsCodexSubagent(lines) ==
    \E k \in DOMAIN lines :
        lines[k].json /\ lines[k].type = "session_meta" /\ lines[k].subagent

CodexKeeps(l) ==
    /\ l.json /\ l.type = "response_item" /\ l.part = "message"
    /\ l.role \in {"user", "assistant"}
    /\ l.role = "assistant" => l.channel \in {None, "final"}
    /\ l.text # None

(* `label` is the session given on the command line. *)
CodexSession(lines, i, label) ==
    LET id == MetaAbove(lines, i, "session") IN IF id = None THEN label ELSE id

(* Forked rollouts repeat the session id: the file is part of the id. *)
CodexId(lines, i, rollout, label) ==
    <<"codex", CodexSession(lines, i, label), rollout, i>>

CodexAdapter(lines, rollout, label) ==
    LET Gives(i) ==
            IF ~IsCodexSubagent(lines) /\ CodexKeeps(lines[i])
            THEN <<Event(CodexId(lines, i, rollout, label), lines[i].text,
                         MetaAbove(lines, i, "cwd"))>>
            ELSE <<>>
    IN  FlattenSeq([i \in DOMAIN lines |-> Gives(i)])

(* The directory a rollout says it ran in, if all of it is text. *)
ReadCodexCwd(lines) ==
    LET with == {k \in DOMAIN lines :
                    lines[k].json /\ lines[k].type = "session_meta" /\ lines[k].cwd # None}
    IN  IF with = {} \/ ~IsText(lines) THEN None
        ELSE lines[CHOOSE k \in with : \A j \in with : k <= j].cwd

(* Other transcripts in a project: a role and a text, by place in the file. *)
PlainTranscript(lines, path) ==
    LET Gives(i, l) ==
            IF l.json /\ l.role \in {"user", "assistant"} /\ l.text # None
            THEN <<Event(<<"local", path, i>>, l.text, None)>>
            ELSE <<>>
    IN  IfText(lines, FlattenSeq([i \in DOMAIN lines |-> Gives(i, lines[i])]))

LocalTranscript(lines, path) ==
    LET claude == ClaudeAdapter(lines)
    IN  IF claude # <<>> THEN claude ELSE PlainTranscript(lines, path)

(* extract_text_field: without any text, the record itself is the text. *)
ExportText(l) == IF l.text # None THEN l.text ELSE "{...}"

ExportRole(l) == IF l.role = None THEN "user" ELSE l.role

ChatExportAdapter(lines) ==
    LET Gives(l) ==
            IF /\ l.json /\ l.uuid # None
               /\ ExportRole(l) \in {"user", "assistant", "tool", "system", "note"}
            THEN <<Event(<<"chat", l.uuid>>, ExportText(l), None)>>
            ELSE <<>>
    IN  FlattenSeq([i \in DOMAIN lines |-> Gives(lines[i])])

(* Which reader a .jsonl or .json file gets: by the first record that has  *)
(* the fields of one, among the first SniffLines lines and above the first *)
(* that is not UTF-8.                                                      *)
LooksLike(l) ==
    CASE ~l.json -> None
      [] l.session # None /\ l.type \notin {None, "session_meta"} -> "claude"
      [] l.type \in {"session_meta", "response_item", "event_msg", "turn_context"} -> "codex"
      [] l.role # None \/ l.text # None -> "chat"
      [] OTHER -> None

SniffJsonl(lines) ==
    LET telling == {k \in DOMAIN lines :
                       /\ k <= SniffLines /\ IsText(SubSeq(lines, 1, k))
                       /\ LooksLike(lines[k]) # None}
    IN  IF telling = {} THEN "chat"
        ELSE LooksLike(lines[CHOOSE k \in telling : \A j \in telling : k <= j])

-----------------------------------------------------------------------------
(* Other formats: all but the last take the file for one text.             *)

(* The whole file is one event, named for its path and its content: its    *)
(* last line stands for the version it is in.                              *)
MarkdownAdapter(lines, path) ==
    IF lines = <<>> \/ ~IsText(lines) THEN <<>>
    ELSE LET content == lines[Len(lines)].text
         IN  <<Event(<<"md", path, content>>, content, path.folder)>>

(* Calendar lines are BEGIN, END, UID with the uid, SUMMARY with a text    *)
(* and DTSTART.  An entry opens with the first of the last three.          *)
NoEntry == [open |-> FALSE, uid |-> None, text |-> None]

CalendarStep(state, l) ==
    CASE l.type = "BEGIN" -> [state EXCEPT !.entry = NoEntry]
      [] l.type = "END" /\ state.entry.open ->
            [entry |-> NoEntry,
             events |-> Append(state.events,
                 Event(<<"cal", state.entry.uid, Len(state.events)>>, state.entry.text, None))]
      [] l.type = "UID" -> [state EXCEPT !.entry.open = TRUE, !.entry.uid = l.uuid]
      [] l.type = "SUMMARY" -> [state EXCEPT !.entry.open = TRUE, !.entry.text = l.text]
      [] l.type = "DTSTART" -> [state EXCEPT !.entry.open = TRUE]
      [] OTHER -> state

CalendarAdapter(lines) ==
    IfText(lines, FoldLeft(CalendarStep, [entry |-> NoEntry, events |-> <<>>], lines).events)

(* Every line of a transcript that is no timing and no comment is an event, *)
(* and so are the numbers of the cues.                                     *)
VoiceAdapter(lines, stem) ==
    LET spoken == SelectSeq(lines, LAMBDA l : l.type \notin {"WEBVTT", "NOTE", "-->"})
    IN  IfText(lines,
               [i \in DOMAIN spoken |-> Event(<<"voice", stem, i>>, spoken[i].text, None)])

(* The file is one JSON text: a part of it does not parse, and is an error. *)
IsJson(lines) == \A k \in DOMAIN lines : lines[k].json

IdeHistoryAdapter(lines, stem) ==
    LET Gives(i, l) ==
            Event(<<"ide", IF l.uuid = None THEN <<stem, i>> ELSE <<l.uuid>>, i>>, l.text, None)
    IN  IF IsJson(lines) THEN [i \in DOMAIN lines |-> Gives(i, lines[i])] ELSE <<>>

(* The text parts of the messages of one session; each part is a file.     *)
OpencodeParts(lines, session) ==
    {Event(<<"opencode", session, lines[k].uuid>>, lines[k].text, None) :
        k \in {j \in DOMAIN lines :
                  /\ lines[j].json /\ lines[j].role \in {"user", "assistant"}
                  /\ lines[j].part = "text" /\ lines[j].text # None}}
=============================================================================
