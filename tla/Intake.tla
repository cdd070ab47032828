------------------------------- MODULE Intake -------------------------------
(***************************************************************************)
(* How conversations get from the files of other programs into the journal *)
(* and through consolidation: `mem backfill`, `ingest`, `backfill-local`   *)
(* and `backfill-all` (cli.rs), the sync that a session hook starts        *)
(* (hook.rs), and the windows and checkpoint of `mem consolidate`          *)
(* (consolidate.rs).  The agents write their files meanwhile, and move     *)
(* them to an archive.                                                     *)
(*                                                                         *)
(* Journal has what a crash does to the files of the journal; here a       *)
(* record is in its day file or in the buffer of the writer.  Curation     *)
(* has what a batch publishes besides its checkpoint.                      *)
(***************************************************************************)
EXTENDS Naturals, Sequences, FiniteSets, Adapters
LOCAL INSTANCE SequencesExt

CONSTANTS
    Worlds,     \* the worlds to look at: each a function from names to files
    Worker,     \* processes that run commands
    Commands,   \* what they run: some of Command
    Project,    \* the directory the commands run in
    HighWater,  \* events in a batch
    SyncAt,     \* events that make a sync consolidate
    MaxDay,     \* bound on midnights
    MaxRuns,    \* bound on commands
    MaxKills    \* bound on kills

ASSUME IntakeAssumption ==
    /\ HighWater \in Nat \ {0} /\ SyncAt \in Nat
    /\ MaxDay \in Nat \ {0} /\ MaxRuns \in Nat /\ MaxKills \in Nat

ASSUME ScriptsAssumption ==
    \A files \in Worlds : \A n \in DOMAIN files : files[n].from \in 0..Len(files[n].script)

(* A file: its kind, the directory its session ran in, its script (the     *)
(* lines that will be written to it), from how many of them it starts, and *)
(* whether it lies in a folder of subagents.                               *)

VARIABLES
    world,    \* the files there are
    grown,    \* how many lines of each file are written
    tail,     \* what is there of the next line of each: nothing, or a part
    archived, \* the files their program has moved to its archive
    day,      \* today
    disk,     \* the journal: a sequence of records for each day
    worker,   \* what each process is doing
    through,  \* the checkpoint at the head of the branch
    runs,     \* commands and kills so far
    windows,  \* history: the ids in each batch that was published
    owed,     \* history: messages that a finished command has taken in
    crossed   \* history: a batch was read while two days were being written

intakeVars == <<world, grown, tail, archived, day, disk, worker, through,
                runs, windows, owed, crossed>>

sources == <<world, grown, tail, archived>>

Command == {"local", "all", "paths", "consolidate"}

-----------------------------------------------------------------------------
(* The files *)

Names == DOMAIN world

Days == 1..MaxDay

(* What is there to read. *)
Cuts == {Torn, Garbled}

LinesOf(n) == SubSeq(world[n].script, 1, grown[n]) \o tail[n]

(* The messages written so far.  A memory file has one, its last version.  *)
Messages(n) ==
    {world[n].script[k].text :
        k \in {j \in 1..grown[n] : /\ world[n].script[j].real
                                   /\ world[n].kind = "md" => j = grown[n] /\ tail[n] = <<>>}}

Places == {"live", "archive"}

PlaceOf(n) == IF n \in archived THEN "archive" ELSE "live"

(* A directory is a sequence of names, and a name is a sequence of words   *)
(* with dashes between them.  These are the ones that exist.               *)
Directories == {world[n].cwd : n \in Names} \cup {Project}

(* Claude Code puts a session in a folder named for its directory, with a  *)
(* dash for every slash; decoding makes every dash a slash.                *)
ClaudeFolder(cwd) == FlattenSeq(cwd)

DecodeClaudeProjectDir(folder) == [k \in DOMAIN folder |-> <<folder[k]>>]

PathsMatch(cwd, project) == IsPrefix(project, cwd)

(* project_root: a session in a folder of the project belongs to the       *)
(* project, which is the only directory here with a repository in it.      *)
(* Mutant: it belongs to its folder. *)
ProjectOfFolder(cwd) == cwd

ProjectRoot(cwd) == IF PathsMatch(cwd, Project) THEN Project ELSE cwd

(* Memory files are taken by their names in the project's root.            *)
OfProject(n) ==
    CASE world[n].kind = "claude" ->
            LET decoded == DecodeClaudeProjectDir(ClaudeFolder(world[n].cwd))
            IN  decoded \in Directories /\ PathsMatch(decoded, Project)
      [] world[n].kind = "codex" ->
            LET cwd == ReadCodexCwd(LinesOf(n)) IN cwd # None /\ PathsMatch(cwd, Project)
      [] world[n].kind = "md" -> world[n].cwd = Project
      [] OTHER -> PathsMatch(world[n].cwd, Project)

(* Folders of subagents are not walked, at any depth. *)
Walked(n) == ~world[n].subagent

(* What each command looks through.  For `all` it is one source a run.     *)
Looks(command) ==
    {n \in Names : Walked(n) /\ CASE
        command = "local" -> world[n].kind \in {"claude", "codex", "opencode", "local", "md"}
     [] command = "all" -> world[n].kind \in {"claude", "codex", "opencode"}
     [] command = "paths" -> world[n].kind \in {"chat", "calendar", "voice", "ide"}
     [] OTHER -> FALSE}

ListedIn(command, place) ==
    {n \in Looks(command) : PlaceOf(n) = place /\ (command = "local" => OfProject(n))}

(* The events in a file.  The parts of an OpenCode session come in the     *)
(* order of the directory, which is any.                                   *)
Readings(n) ==
    LET f == world[n]
        lines == LinesOf(n)
    IN  CASE f.kind = "claude" -> {ClaudeAdapter(lines)}
          [] f.kind = "codex" -> {CodexAdapter(lines, n, "default")}
          [] f.kind = "local" -> {LocalTranscript(lines, n)}
          [] f.kind = "md" -> {MarkdownAdapter(lines, [folder |-> f.cwd, name |-> n])}
          [] f.kind = "opencode" -> SetToSeqs(OpencodeParts(lines, n))
          [] f.kind = "calendar" -> {CalendarAdapter(lines)}
          [] f.kind = "voice" -> {VoiceAdapter(lines, n)}
          [] f.kind = "ide" -> {IdeHistoryAdapter(lines, n)}
          [] OTHER -> {CASE SniffJsonl(lines) = "claude" -> ClaudeAdapter(lines)
                         [] SniffJsonl(lines) = "codex" -> CodexAdapter(lines, n, "default")
                         [] OTHER -> ChatExportAdapter(lines)}

(* A file that cannot be read as its reader reads it: cut inside a         *)
(* character, or no JSON.  The command goes on with the next.              *)
ReadFails(n) ==
    LET lines == LinesOf(n)
    IN  CASE world[n].kind \in {"md", "calendar", "voice"} -> ~IsText(lines)
          [] world[n].kind = "ide" -> ~IsJson(lines)
          [] world[n].kind = "local" -> ClaudeAdapter(lines) = <<>> /\ ~IsText(lines)
          [] OTHER -> FALSE

(* backfill-local reads a rollout twice, for its directory all as one text. *)
CwdFails(n) == world[n].kind = "codex" /\ ~IsText(LinesOf(n))

(* The project an event is filed under: of the directory it names itself,  *)
(* else of the one the command says (set_project_from).                    *)
Tagged(events, project) ==
    [k \in DOMAIN events |->
        LET cwd == IF events[k].project # None THEN events[k].project ELSE project
        IN  [events[k] EXCEPT !.project = IF cwd = None THEN None ELSE ProjectRoot(cwd)]]

TagOf(command, n) ==
    CASE world[n].kind = "opencode" /\ command = "all" -> world[n].cwd
      [] world[n].kind \in {"opencode", "local"} -> Project
      [] OTHER -> None

-----------------------------------------------------------------------------
(* The journal *)

OnDisk == UNION {{disk[d][k] : k \in DOMAIN disk[d]} : d \in Days}

LastSeq ==
    CHOOSE n \in {0} \cup {r.seq : r \in OnDisk} : \A r \in OnDisk : r.seq <= n

(* The places of the records, and JournalIter: day file by day file.       *)
Positions == UNION {{d} \X DOMAIN disk[d] : d \in Days}

RecordAt(i) == disk[i[1]][i[2]]

InOrder(i, j) == i[1] < j[1] \/ (i[1] = j[1] /\ i[2] <= j[2])

Empty == [d \in Days |-> <<>>]

(* `todo`: files listed.  `parsed`: what was read of a file and not yet    *)
(* appended, with the day it was read, and whether the writer is at it.    *)
(* `buffer`: what was appended and is *)
(* not in a day file.  `due`: the messages this command should take in.    *)
(* `days`: the days of what was appended.  `from`, `window`, `end`: a      *)
(* batch.                                                                  *)
AtRest == [pc |-> "idle", command |-> "consolidate", place |-> "live", todo |-> {},
           parsed |-> {}, seen |-> {}, next |-> 0, buffer |-> Empty, days |-> {}, due |-> {},
           from |-> 0, window |-> {}, end |-> 0]

Does(w, pc) == worker[w].pc = pc

Holds(w) == worker[w].pc \in {"list", "write"}

IntakeInit ==
    /\ world \in Worlds
    /\ grown = [n \in Names |-> world[n].from]
    /\ tail = [n \in Names |-> <<>>] /\ archived = {}
    /\ day = 1
    /\ disk = Empty
    /\ worker = [w \in Worker |-> AtRest]
    /\ through = 0
    /\ runs = [commands |-> 0, kills |-> 0]
    /\ windows = <<>> /\ owed = {} /\ crossed = FALSE

-----------------------------------------------------------------------------
(* Other programs *)

(* No command counts on what is no longer where it looked. *)
Lost(n, commands) ==
    worker' = [w \in Worker |-> IF worker[w].command \in commands
                                THEN [worker[w] EXCEPT !.due = @ \ Messages(n)]
                                ELSE worker[w]]

(* A line is written in pieces, or in one.  A memory file is written over. *)
Writes(n) ==
    /\ n \notin archived /\ grown[n] < Len(world[n].script)
    /\ \/ \E cut \in Cuts : tail' = [tail EXCEPT ![n] = <<cut>>] /\ UNCHANGED grown
       \/ tail' = [tail EXCEPT ![n] = <<>>] /\ grown' = [grown EXCEPT ![n] = @ + 1]
    /\ Lost(n, IF world[n].kind = "md" THEN Command ELSE {})
    /\ UNCHANGED <<world, archived, day, disk, through, runs, windows, owed, crossed>>

(* A command that had listed the file will not find it: only `local` looks *)
(* at the archive after the rest.                                          *)
Archives(n) ==
    /\ n \notin archived /\ tail[n] = <<>>
    /\ world[n].kind \in {"claude", "codex"}
    /\ archived' = archived \cup {n}
    /\ Lost(n, {"all"})
    /\ UNCHANGED <<world, grown, tail, day, disk, through, runs, windows, owed, crossed>>

Midnight ==
    /\ day < MaxDay
    /\ day' = day + 1
    /\ UNCHANGED <<sources, disk, worker, through, runs, windows, owed, crossed>>

-----------------------------------------------------------------------------
(* Commands that write the journal *)

(* What somebody who knows the files expects of a command: with            *)
(* backfill-local, the sessions that ran in the project and its memory     *)
(* files.                                                                  *)
Promised(command) ==
    {n \in Looks(command) : command = "local" =>
        IF world[n].kind = "md" THEN world[n].cwd = Project
                                ELSE PathsMatch(world[n].cwd, Project)}

Due(command) == UNION {Messages(n) : n \in Promised(command)}

(* The messages of files that are passed over, for the properties. *)
PassedOver(files) == UNION {Messages(n) : n \in files}

Unlistable(place) == {n \in Looks("local") : PlaceOf(n) = place /\ CwdFails(n)}

(* backfill-all and backfill list their files first; backfill-local walks  *)
(* one root after the other under the lock.                                *)
StartCommand(w, command) ==
    /\ Does(w, "idle")
    /\ runs.commands < MaxRuns
    /\ runs' = [runs EXCEPT !.commands = @ + 1]
    /\ worker' = [worker EXCEPT ![w] =
          IF command = "consolidate" THEN [AtRest EXCEPT !.pc = "batch"]
          ELSE [AtRest EXCEPT
                  !.pc = "open", !.command = command, !.due = Due(command),
                  !.todo = IF command = "local" THEN {}
                           ELSE UNION {ListedIn(command, place) \X {place} : place \in Places}]]
    /\ UNCHANGED <<sources, day, disk, through, windows, owed, crossed>>

(* Mutant: only the number is looked up. *)
OpenWriterFresh(w) ==
    /\ Does(w, "open")
    /\ \A v \in Worker : ~Holds(v)
    /\ worker' = [worker EXCEPT
          ![w].pc = IF worker[w].command = "local" THEN "list" ELSE "write",
          ![w].next = LastSeq + 1]
    /\ UNCHANGED <<sources, day, disk, through, runs, windows, owed, crossed>>

(* BulkWriter::open: the lock, the ids and the largest number there are.   *)
OpenWriter(w) ==
    /\ Does(w, "open")
    /\ \A v \in Worker : ~Holds(v)
    /\ worker' = [worker EXCEPT
          ![w].pc = IF worker[w].command = "local" THEN "list" ELSE "write",
          ![w].seen = {r.id : r \in OnDisk},
          ![w].next = LastSeq + 1]
    /\ UNCHANGED <<sources, day, disk, through, runs, windows, owed, crossed>>

(* After five seconds the command fails.  A sync does not look at that.    *)
AfterCommand(w) == IF worker[w].command = "local" THEN "lag" ELSE "idle"

LockIsHeld(w) ==
    /\ Does(w, "open")
    /\ \E v \in Worker : Holds(v)
    /\ worker' = [worker EXCEPT ![w] = [AtRest EXCEPT !.pc = AfterCommand(w)]]
    /\ UNCHANGED <<sources, day, disk, through, runs, windows, owed, crossed>>

(* Mutant: the archive is walked first. *)
ListRootArchiveFirst(w) ==
    /\ Does(w, "list")
    /\ LET place == IF worker[w].place = "live" THEN "archive" ELSE "live"
       IN  worker' = [worker EXCEPT ![w].pc = "write",
                                    ![w].todo = ListedIn("local", place) \X {place},
                                    ![w].due = @ \ PassedOver(Unlistable(place))]
    /\ UNCHANGED <<sources, day, disk, through, runs, windows, owed, crossed>>

(* backfill-local: one root, then its archive. *)
ListRoot(w) ==
    /\ Does(w, "list")
    /\ LET place == worker[w].place
       IN  worker' = [worker EXCEPT ![w].pc = "write",
                                    ![w].todo = ListedIn("local", place) \X {place},
                                    ![w].due = @ \ PassedOver(Unlistable(place))]
    /\ UNCHANGED <<sources, day, disk, through, runs, windows, owed, crossed>>

(* backfill-all reads all files, in parallel, before it appends; the other *)
(* commands append each file as it is read.                                *)
ReadFile(w, item) ==
    /\ Does(w, "write") /\ item \in worker[w].todo
    /\ worker[w].command # "all" => worker[w].parsed = {}
    /\ LET n == item[1]
       IN  \/ /\ item[2] = PlaceOf(n)
              /\ \E events \in Readings(n) :
                    worker' = [worker EXCEPT
                        ![w].todo = @ \ {item},
                        ![w].due = @ \ PassedOver({m \in {n} : ReadFails(m)}),
                        ![w].parsed = @ \cup {[day |-> day, begun |-> FALSE,
                                                events |-> Tagged(events, TagOf(worker[w].command, n))]}]
           \/ /\ item[2] # PlaceOf(n)
              /\ worker' = [worker EXCEPT ![w].todo = @ \ {item}]
    /\ UNCHANGED <<sources, day, disk, through, runs, windows, owed, crossed>>

(* The events whose id is new. *)
NewEvents(seen, events) == {k \in DOMAIN events : events[k].id \notin seen}

(* BulkWriter::append, of the events of one file after the other.          *)
AppendEvent(w, file) ==
    /\ Does(w, "write") /\ file \in worker[w].parsed
    /\ worker[w].command = "all" => worker[w].todo = {}
    /\ \A other \in worker[w].parsed \ {file} : ~other.begun
    /\ LET new == NewEvents(worker[w].seen, file.events)
       IN  \/ /\ new = {}
              /\ worker' = [worker EXCEPT ![w].parsed = @ \ {file}]
           \/ \E k \in new :
                 LET e == file.events[k]
                     seen == worker[w].seen \cup {e.id}
                     left == IF NewEvents(seen, file.events) = {} THEN {}
                             ELSE {[file EXCEPT !.begun = TRUE]}
                 IN  /\ \A j \in new : k <= j
                     /\ worker' = [worker EXCEPT
                           ![w].parsed = (@ \ {file}) \cup left,
                           ![w].seen = seen,
                           ![w].next = @ + 1,
                           ![w].days = @ \cup {file.day},
                           ![w].buffer[file.day] =
                               Append(@, [seq |-> worker[w].next, id |-> e.id,
                                          msg |-> e.msg, project |-> e.project])]
    /\ UNCHANGED <<sources, day, disk, through, runs, windows, owed, crossed>>

(* A buffer is written to its file when it is full, when enough events are *)
(* pending, and at the end; the days in any order.                         *)
WriteBuffer(w, d) ==
    /\ Does(w, "write") /\ worker[w].buffer[d] # <<>>
    /\ \E k \in DOMAIN worker[w].buffer[d] :
          /\ disk' = [disk EXCEPT ![d] = @ \o SubSeq(worker[w].buffer[d], 1, k)]
          /\ worker' = [worker EXCEPT ![w].buffer[d] = SubSeq(@, k + 1, Len(@))]
    /\ UNCHANGED <<sources, day, through, runs, windows, owed, crossed>>

NothingLeft(w) == worker[w].todo = {} /\ worker[w].parsed = {}

NextRoot(w) ==
    /\ Does(w, "write") /\ NothingLeft(w)
    /\ worker[w].command = "local" /\ worker[w].place = "live"
    /\ worker' = [worker EXCEPT ![w].pc = "list", ![w].place = "archive"]
    /\ UNCHANGED <<sources, day, disk, through, runs, windows, owed, crossed>>

EndCommand(w) ==
    /\ Does(w, "write") /\ NothingLeft(w) /\ worker[w].buffer = Empty
    /\ worker[w].command = "local" => worker[w].place = "archive"
    /\ owed' = owed \cup worker[w].due
    /\ worker' = [worker EXCEPT ![w] = [AtRest EXCEPT !.pc = AfterCommand(w)]]
    /\ UNCHANGED <<sources, day, disk, through, runs, windows, crossed>>

(* hook.rs: enough events wait, by the numbers of the last and of the      *)
(* checkpoint, or they do not.                                             *)
Lag(w) ==
    /\ Does(w, "lag")
    /\ worker' = [worker EXCEPT ![w] =
          [AtRest EXCEPT !.pc = IF LastSeq - through >= SyncAt /\ LastSeq >= through
                                THEN "batch" ELSE "idle"]]
    /\ UNCHANGED <<sources, day, disk, through, runs, windows, owed, crossed>>

-----------------------------------------------------------------------------
(* Consolidation *)

(* Where the events after the checkpoint are. *)
AllAfter == {i \in Positions : RecordAt(i).seq > through}

(* The last one of those that a batch takes, in the order of the journal.  *)
Counted(i) == Cardinality({j \in AllAfter : InOrder(j, i)})

LastTaken(i) ==
    /\ i \in AllAfter
    /\ Counted(i) = HighWater \/ (Counted(i) < HighWater /\ \A j \in AllAfter : InOrder(j, i))

(* Mutant: the window is what was counted off, not what the checkpoint     *)
(* will say.                                                               *)
WindowTaken(end) == {RecordAt(i).id : i \in {j \in AllAfter : Counted(j) <= HighWater}}

(* "The window is bounded by journal position": every event up to `end`.   *)
Window(end) == {RecordAt(i).id : i \in {j \in AllAfter : RecordAt(j).seq <= end}}

ReadBatch(w) ==
    /\ Does(w, "batch")
    /\ crossed' = (crossed \/ \E v \in Worker : Holds(v) /\ Cardinality(worker[v].days) > 1)
    /\ \/ /\ AllAfter = {}
          /\ worker' = [worker EXCEPT ![w] = AtRest]
       \/ \E i \in AllAfter :
             LET end == RecordAt(i).seq
             IN  /\ LastTaken(i)
                 /\ worker' = [worker EXCEPT ![w].pc = "publish", ![w].from = through,
                                             ![w].end = end, ![w].window = Window(end)]
    /\ UNCHANGED <<sources, day, disk, through, runs, windows, owed>>

(* Mutant: whoever publishes last is right. *)
PublishBatchBlind(w) ==
    /\ Does(w, "publish")
    /\ through' = worker[w].end
    /\ windows' = Append(windows, worker[w].window)
    /\ worker' = [worker EXCEPT ![w] = [AtRest EXCEPT !.pc = "batch"]]
    /\ UNCHANGED <<sources, day, disk, runs, owed, crossed>>

(* Mutant: the checkpoint is the number after the batch. *)
PublishBatchPast(w) ==
    /\ Does(w, "publish") /\ through = worker[w].from
    /\ through' = worker[w].end + 1
    /\ windows' = Append(windows, worker[w].window)
    /\ worker' = [worker EXCEPT ![w] = [AtRest EXCEPT !.pc = "batch"]]
    /\ UNCHANGED <<sources, day, disk, runs, owed, crossed>>

(* publish: the checkpoint moves with the batch, when the branch is where  *)
(* it was; and then the next batch.                                        *)
PublishBatch(w) ==
    /\ Does(w, "publish") /\ through = worker[w].from
    /\ through' = worker[w].end
    /\ windows' = Append(windows, worker[w].window)
    /\ worker' = [worker EXCEPT ![w] = [AtRest EXCEPT !.pc = "batch"]]
    /\ UNCHANGED <<sources, day, disk, runs, owed, crossed>>

(* A change of the branch, a model that does not answer: nothing is        *)
(* published, and the command fails.                                       *)
AbandonBatch(w) ==
    /\ Does(w, "publish")
    /\ worker' = [worker EXCEPT ![w] = AtRest]
    /\ UNCHANGED <<sources, day, disk, through, runs, windows, owed, crossed>>

(* What was not written is gone, and the lock is free. *)
KillWorker(w) ==
    /\ ~Does(w, "idle") /\ runs.kills < MaxKills
    /\ runs' = [runs EXCEPT !.kills = @ + 1]
    /\ worker' = [worker EXCEPT ![w] = AtRest]
    /\ UNCHANGED <<sources, day, disk, through, windows, owed, crossed>>

-----------------------------------------------------------------------------
IntakeStep(w) ==
    \/ \E command \in Commands : StartCommand(w, command)
    \/ OpenWriter(w) \/ LockIsHeld(w)
    \/ ListRoot(w)
    \/ \E item \in worker[w].todo : ReadFile(w, item)
    \/ \E file \in worker[w].parsed : AppendEvent(w, file)
    \/ \E d \in Days : WriteBuffer(w, d)
    \/ NextRoot(w) \/ EndCommand(w) \/ Lag(w)
    \/ ReadBatch(w) \/ PublishBatch(w) \/ AbandonBatch(w)
    \/ KillWorker(w)

IntakeNext ==
    \/ \E n \in Names : Writes(n) \/ Archives(n)
    \/ Midnight
    \/ \E w \in Worker : IntakeStep(w)

IntakeSpec == IntakeInit /\ [][IntakeNext]_intakeVars

-----------------------------------------------------------------------------
(* Properties *)

IntakeTypeOK ==
    /\ grown \in [Names -> Nat]
    /\ \A n \in Names : grown[n] <= Len(world[n].script)
    /\ tail \in [Names -> {<<>>} \cup {<<cut>> : cut \in Cuts}] /\ archived \subseteq Names
    /\ day \in Days
    /\ through \in Nat /\ through <= LastSeq
    /\ \A w \in Worker :
          worker[w].pc \in {"idle", "open", "list", "write", "lag", "batch", "publish"}
    /\ runs.commands \in 0..MaxRuns /\ runs.kills \in 0..MaxKills
    /\ crossed \in BOOLEAN

RecordsOf(msg) == {r \in OnDisk : r.msg = msg}

AllMessages == UNION {Messages(n) : n \in Names}

(* A message is in the journal at most once and each place in the journal  *)
(* has one record, however often and by whichever command its file is      *)
(* read, while it grows, before and after it is archived, in two copies or *)
(* halfway through a run that was killed.                                  *)
MessageOnce ==
    \A msg \in AllMessages : Cardinality(RecordsOf(msg)) <= 1

(* A command that has ended without an error has taken in every message    *)
(* that was in the files it looks through when it started, though they     *)
(* grow while it reads; and backfill-local also those of a session that is *)
(* archived meanwhile.  What it may leave for the next run is a file that  *)
(* ends inside a character, or is no JSON, when it is read as one text.    *)
MessageKept ==
    \A msg \in owed : RecordsOf(msg) # {}

(* A message of a session that ran anywhere in the project is filed under  *)
(* the project, whichever command came first.                              *)
OwnProject ==
    \A n \in Names :
        /\ world[n].kind \in {"claude", "codex", "opencode", "local", "md"}
        /\ PathsMatch(world[n].cwd, Project)
        => \A msg \in Messages(n), r \in OnDisk : r.msg = msg => r.project = Project

(* Nothing the checkpoint has passed was left out of the batches, though   *)
(* the order of the journal is not the order of its numbers; unless a      *)
(* batch was read while a command wrote the files of two days.             *)
PassedIsCovered ==
    ~crossed => \A r \in OnDisk :
        r.seq <= through => \E k \in DOMAIN windows : r.id \in windows[k]

(* No event is in two batches, though several may be consolidating. *)
EachBatchOnce ==
    \A j, k \in DOMAIN windows : j # k => windows[j] \cap windows[k] = {}
=============================================================================
