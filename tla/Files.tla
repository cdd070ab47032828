------------------------------- MODULE Files -------------------------------
(***************************************************************************)
(* Files of people and of other programs that `mem` edits in place: the    *)
(* managed block of AGENTS.md (cli.rs, writeback), Codex's config.toml and *)
(* Claude Code's settings.json (setup.rs), and .git/info/exclude.  An edit *)
(* reads the whole file, computes the new text, truncates the file and     *)
(* writes it; there is no lock, and people edit the same files meanwhile.  *)
(*                                                                         *)
(* A line is [kind, of].  `of` is Ours, or else whose line of their own it *)
(* is.  Blank lines and the wording of what is written are left out; a     *)
(* table of config.toml with what is in it is one line, and so is a group  *)
(* of hooks in settings.json, whose kind is the event.  What lies where    *)
(* hooks go and is no list of them is left out: setup puts its own there.  *)
(***************************************************************************)
EXTENDS Naturals, SequencesExt

CONSTANTS
    Editor,     \* processes that run `mem`
    OwnLine,    \* lines of people
    Ours,       \* what `mem` writes
    HookEvents, \* the hooks of Claude Code that `mem` wants
    MaxSaves    \* bound on edits, of people and of `mem`

(* What a line can be that is no group of hooks. *)
OtherKinds == {"own", "begin", "fact", "end", "header", "key", "sub", "table", "entry", "torn"}

ASSUME FilesAssumption ==
    /\ Ours \notin OwnLine /\ MaxSaves \in Nat
    /\ IsFiniteSet(HookEvents) /\ HookEvents \cap OtherKinds = {}

VARIABLES
    target,  \* which file this is
    content, \* its lines
    utf8,    \* whether all of it is UTF-8: people may save it otherwise
    editor,  \* what each process is doing with it
    saves,   \* edits begun so far
    settled, \* history: lines people added while nobody was editing, and
             \* that no edit was bound to drop
    spoiled  \* history: an edit was killed in its write, or began in another's

filesVars == <<target, content, utf8, editor, saves, settled, spoiled>>

Target == {"agents", "config", "settings", "exclude"}

LineOf(kind) == [kind |-> kind, of |-> Ours]

OwnLines(t) == {l.of : l \in ToSet(t)} \cap OwnLine

Has(t, kind) == LineOf(kind) \in ToSet(t)

(* The lines at the places in S, in their order. *)
PlaceOfNth(S, n) == CHOOSE i \in S : Cardinality({j \in S : j <= i}) = n

LinesAt(t, S) == [n \in 1 .. Cardinality(S) |-> t[PlaceOfNth(S, n)]]

(* str::find: the first. *)
PlaceOfFirst(t, kind) ==
    CHOOSE i \in DOMAIN t : t[i] = LineOf(kind) /\ \A j \in 1 .. (i - 1) : t[j] # LineOf(kind)

-----------------------------------------------------------------------------
(* The new text *)

Block == <<LineOf("begin"), LineOf("fact"), LineOf("end")>>

(* Mutant: what follows the block is taken for a part of it. *)
SpliceToTheEnd(t) ==
    IF Has(t, "begin") THEN SubSeq(t, 1, PlaceOfFirst(t, "begin") - 1) \o Block ELSE t \o Block

(* splice_managed_block: the block is replaced, or a new one appended.     *)
Splice(t) ==
    LET b == PlaceOfFirst(t, "begin")
        e == PlaceOfFirst(t, "end")
    IN  IF Has(t, "begin") /\ Has(t, "end") /\ e > b
        THEN SubSeq(t, 1, b - 1) \o Block \o SubSeq(t, e + 1, Len(t))
        ELSE t \o Block

(* Mutant: setup does not look whether it ran before. *)
AddTableAgain(t) == t \o <<LineOf("header"), LineOf("key")>>

(* codex_mcp *)
AddTable(t) ==
    IF Has(t, "header") THEN t ELSE t \o <<LineOf("header"), LineOf("key")>>

(* Lines are skipped from a header of ours (or a table inside it) to the   *)
(* next header of another table.                                           *)
RemoveTable(t) ==
    LET opens(i) == \E k \in 1 .. i :
            /\ t[k].kind \in {"header", "sub"}
            /\ \A j \in (k + 1) .. i : t[j].kind # "table"
    IN  IF ~Has(t, "header") THEN t
        ELSE LinesAt(t, {i \in DOMAIN t : ~opens(i)})

(* claude_hooks: a group for each event that has none of ours.             *)
AddHooks(t) ==
    t \o SetToSeq({LineOf(event) : event \in {h \in HookEvents : ~Has(t, h)}})

RemoveHooks(t) == LinesAt(t, {i \in DOMAIN t : t[i].of # Ours})

(* exclude_from_git *)
AddEntry(t) == IF Has(t, "entry") THEN t ELSE Append(t, LineOf("entry"))

Edits(file) ==
    CASE file = "agents" -> {"writeback", "force"}
      [] file = "exclude" -> {"add"}
      [] OTHER -> {"add", "remove"}

NewText(edit, t) ==
    CASE edit = "writeback" -> Splice(t)
      [] edit = "force" -> Block
      [] edit = "add" /\ target = "config" -> AddTable(t)
      [] edit = "remove" /\ target = "config" -> RemoveTable(t)
      [] edit = "add" /\ target = "settings" -> AddHooks(t)
      [] edit = "remove" /\ target = "settings" -> RemoveHooks(t)
      [] OTHER -> AddEntry(t)

-----------------------------------------------------------------------------
Away == [step |-> "away", edit |-> "none", hand |-> <<>>]

EditorAt(p, step) == editor[p].step = step

BeingWritten == \E p \in Editor : EditorAt(p, "writes")

FilesInit ==
    /\ target \in Target
    /\ content = <<>> /\ utf8 = TRUE
    /\ editor = [p \in Editor |-> Away]
    /\ saves = 0
    /\ settled = {} /\ spoiled = FALSE

(* read_to_string fails where the file is not UTF-8.  setup and the entry  *)
(* in .git/info/exclude then go on as if there were no file.               *)
TextRead == IF utf8 THEN content ELSE <<>>

(* A write-back stops there, unless it is forced and so reads nothing.     *)
(* Half a settings.json is not JSON, and setup refuses it; half of any     *)
(* other file is read for the whole.                                       *)
Refused(edit) ==
    \/ target = "agents" /\ edit = "writeback" /\ ~utf8
    \/ target = "settings" /\ utf8 /\ (BeingWritten \/ Has(content, "torn"))

(* What changes nothing is not written; a write-back always is.            *)
Idle(edit) == target # "agents" /\ NewText(edit, TextRead) = TextRead

(* The edit will write over lines that it has not seen. *)
TakesForNone(edit) == target # "agents" /\ ~utf8 /\ ~Idle(edit)

ReadsFile(p, edit) ==
    /\ EditorAt(p, "away") /\ saves < MaxSaves
    /\ ~Refused(edit)
    /\ saves' = saves + 1
    /\ editor' = [editor EXCEPT ![p] =
          IF Idle(edit) THEN Away
          ELSE [step |-> "computed", edit |-> edit, hand |-> NewText(edit, TextRead)]]
    /\ settled' = IF TakesForNone(edit) THEN {} ELSE settled
    /\ spoiled' = (spoiled \/ BeingWritten)
    /\ UNCHANGED <<target, content, utf8>>

TruncatesFile(p) ==
    /\ EditorAt(p, "computed")
    /\ content' = <<>> /\ utf8' = TRUE
    /\ editor' = [editor EXCEPT ![p].step = "writes"]
    /\ UNCHANGED <<target, saves, settled, spoiled>>

(* With --force the whole file is the block's. *)
WritesFile(p) ==
    /\ EditorAt(p, "writes")
    /\ content' = editor[p].hand
    /\ settled' = IF editor[p].edit = "force" THEN {} ELSE settled
    /\ editor' = [editor EXCEPT ![p] = Away]
    /\ utf8' = TRUE
    /\ UNCHANGED <<target, saves, spoiled>>

(* What is left of a file whose writer was killed; a part may end inside a *)
(* character.                                                              *)
Remains(new) ==
    IF target = "settings" THEN {<<LineOf("torn")>>, new}
    ELSE {SubSeq(new, 1, k) : k \in 0 .. Len(new)}

KillEditor(p) ==
    /\ ~EditorAt(p, "away")
    /\ IF EditorAt(p, "writes")
       THEN /\ content' \in Remains(editor[p].hand)
            /\ utf8' \in {TRUE, content' = editor[p].hand}
            /\ spoiled' = TRUE
       ELSE UNCHANGED <<content, utf8, spoiled>>
    /\ editor' = [editor EXCEPT ![p] = Away]
    /\ UNCHANGED <<target, saves, settled>>

-----------------------------------------------------------------------------
(* People *)

(* Anywhere but inside what `mem` wrote.  In config.toml and settings.json *)
(* it is a table or a group.                                               *)
Apart(i) ==
    CASE target = "agents" -> ~\E b \in 1 .. i, e \in (i + 1) .. Len(content) :
                                  content[b] = LineOf("begin") /\ content[e] = LineOf("end")
      [] target = "config" -> i < Len(content) => content[i + 1].kind \notin {"key", "sub"}
      [] OTHER -> TRUE

OwnKinds ==
    CASE target = "config" -> {"table"}
      [] target = "settings" -> HookEvents
      [] OTHER -> {"own"}

PersonAdds(u, kind) ==
    /\ saves < MaxSaves /\ ~BeingWritten
    /\ u \notin OwnLines(content)
    /\ saves' = saves + 1
    /\ \E i \in 0 .. Len(content) :
          Apart(i) /\ content' = InsertAt(content, i + 1, [kind |-> kind, of |-> u])
    /\ settled' = IF \A p \in Editor : EditorAt(p, "away") THEN settled \cup {u} ELSE settled
    /\ UNCHANGED <<target, utf8, editor, spoiled>>

(* A table inside the one of `mem`: its environment, say. *)
PersonAddsSub ==
    /\ target = "config" /\ Has(content, "header") /\ ~Has(content, "sub")
    /\ saves < MaxSaves /\ ~BeingWritten
    /\ saves' = saves + 1
    /\ \/ content' = Append(content, LineOf("sub"))
       \/ content' = <<LineOf("sub")>> \o content
    /\ UNCHANGED <<target, utf8, editor, settled, spoiled>>

PersonRemoves(u) ==
    /\ saves < MaxSaves /\ ~BeingWritten
    /\ saves' = saves + 1
    /\ \E i \in DOMAIN content : content[i].of = u /\ content' = RemoveAt(content, i)
    /\ settled' = settled \ {u}
    /\ UNCHANGED <<target, utf8, editor, spoiled>>

(* Somebody saves the file in another encoding, or in UTF-8 again. *)
PersonRecodes ==
    /\ saves < MaxSaves /\ ~BeingWritten /\ content # <<>>
    /\ saves' = saves + 1
    /\ utf8' = ~utf8
    /\ UNCHANGED <<target, content, editor, settled, spoiled>>

-----------------------------------------------------------------------------
FilesNext ==
    \/ \E p \in Editor :
          \/ \E edit \in Edits(target) : ReadsFile(p, edit)
          \/ TruncatesFile(p) \/ WritesFile(p) \/ KillEditor(p)
    \/ \E u \in OwnLine :
          \/ \E kind \in OwnKinds : PersonAdds(u, kind)
          \/ PersonRemoves(u)
    \/ PersonAddsSub \/ PersonRecodes

FilesSpec == FilesInit /\ [][FilesNext]_filesVars

-----------------------------------------------------------------------------
(* Properties *)

TextLine == [kind : OtherKinds \cup HookEvents, of : OwnLine \cup {Ours}]

FilesTypeOK ==
    /\ target \in Target
    /\ content \in Seq(TextLine) /\ utf8 \in BOOLEAN
    /\ editor \in [Editor -> [step : {"away", "computed", "writes"},
                              edit : {"none"} \cup UNION {Edits(f) : f \in Target},
                              hand : Seq(TextLine)]]
    /\ saves \in 0 .. MaxSaves
    /\ settled \subseteq OwnLine /\ spoiled \in BOOLEAN

(* README, writeback: "Text outside the block is never touched"; setup.rs: *)
(* "`--remove` undoes it".  A line of somebody's own that was saved while  *)
(* no edit was under way outlives all later ones, in any order and number, *)
(* until its owner removes it or forces the file, or until setup or the    *)
(* entry in exclude finds the file in another encoding and takes it for    *)
(* none.  A write-back never does: there the line stays in such a file.    *)
OwnTextKept ==
    ~spoiled /\ ~BeingWritten => settled \subseteq OwnLines(content)

(* setup.rs: "running setup again changes nothing".  However many edits    *)
(* ran, at once or one after another, there is one block, one table, one   *)
(* hook for an event and one entry, and a block is whole.                  *)
OneOfEach ==
    ~spoiled =>
        /\ \A i, j \in DOMAIN content : i # j /\ content[i].of = Ours => content[i] # content[j]
        /\ Has(content, "begin") <=> Has(content, "end")
=============================================================================
