# Formal models of `mem` (instinctual-memory)

`mem` keeps the durable memory of coding agents. Its state is a bare Git
repository (`memory.git`, curated facts), a directory of journal files (the raw
events facts come from), a directory of intent files (changes under way) and a
task list. Nothing runs permanently: every command, hook and agent session is a
process of its own, and several of them work on one store at the same time.
What makes that hard is in the code paths between those processes, and that is
what the modules here describe.

All source paths below are relative to `src/src/`.

## 1. Inventory

| component | state it keeps | operations | talks to | hard behaviour | what makes it correct |
|---|---|---|---|---|---|
| publication core (`repo.rs`, `change.rs`, `git.rs`) | branch `memory`, receipts in it, `intents/*.json`, `intents/*.stale` | `publish`, `apply_against_base`, `write_intent`, `complete_intent`, `recover_in_dir`, `set_aside` | Git processes, the intents directory | any number of writers, no lock; kills between any two steps; recovery of intents that are still running | no lost update; one commit per request id; success only when published; an interrupted change is finished or kept |
| entry points (`ops.rs` `request_change`, `cli.rs` `cmd_change`) | - | look up receipt, recover, apply | publication core | repeated requests, the order of the three steps | a repeat is answered with the first answer |
| journal (`journal.rs`) | `events-<day>.jsonl`, `.seq.lock`; per writer: buffers, next number, seen ids | `open`/`recover`, `append`, `BulkWriter::{open,append,flush,drop}`, `redact`, iteration | file locks, fsync | tail recovery outside the lock; buffers of several files; kills and power loss in the middle of a record | no duplicate ids or numbers; what was synced stays readable; erased text stays erased |
| consolidation (`consolidate.rs`, `checkpoint.rs`) | `state/checkpoint.json`, dispositions, entity files | `run_batch`, the loop of `cmd_consolidate` | journal, publication core, a language model | reads a journal that is being written, publishes against a base read earlier | every event is consolidated once; the checkpoint never goes back |
| erasure (`erasure.rs`) | deletions in `state/controls.json` | publish, redact, rewrite history, remove intents | journal, publication core, `git gc` | four steps, no atomicity; publishers run meanwhile | no commit of the branch shows the fact again until it is told again; nobody else's change is lost; what is pruned is gone |
| entity files and facts (`entity.rs`, `fact.rs`, `load_family`, `next_spill`) | `memory/**/*.md` | upsert, supersede, retract, prune, spill | publication core, validator | families of up to 50 files, any order of requests, batches on older heads | one fact in one file; a corrected one hidden; no file overwritten |
| controls (`controls.rs`) | `state/controls.json` | suppress, retract, delete, redact | change, erase, tidy, consolidate | only grows | a forgotten fact stays forgotten |
| validator (`validate.rs`) | - | `validate` | publication core | runs after the intent is written | refuses every malformed candidate |
| index, tidy (`index.rs`, `tidy.rs`) | `INDEX.md` | `rebuild`, `forget_all` | publication core | publishers without an intent | as publication |
| write-back, setup (`cli.rs`, `setup.rs`) | a block of AGENTS.md, entries in `settings.json`, `config.toml`, `info/exclude` | `splice_managed_block`, `claude_hooks`, `codex_mcp`, `exclude_from_git` | people and programs that edit the same files | read, truncate, write, without a lock | text that is not `mem`'s stays; `mem`'s own does not pile up |
| tasks (`ops.rs`) | `tasks.json`, `tasks.lock` | `tasks_read`, `tasks_update` | file lock | truncated, then written | versions count updates; a version is never used twice |
| HTTP, MCP, shell (`http_serve.rs`, `mcp.rs`, `shell.rs`) | table of finished operations (HTTP) | `serve`, `handle_connection` | `ops::execute` | one thread per connection | every operation has one id and one result |
| ingest, backfill, hook (`ingest.rs`, `cli.rs`, `hook.rs`) | - | parse, append, sync | journal, consolidation | files grow, are copied and archived while they are read; runs overlap, are killed and repeated over midnight | a message is in the journal once, whichever command found it first, and under its own project; every event is in one batch |
| search (`search/`, `ops.rs`) | heap, tracked ids and short rows of one scan | `combined_search`, `search_detailed`, `rerank_auto` | snapshots, journal, rankers | rows in no order of their own; rankers that decline or fail | the best rows, the short rows next to them, a full page |
| JEV judge, evaluation (`jev.rs`, `evaluation.rs`) | - | - | a language model | - | not modelled |
| paths, errors (`paths.rs`, `error.rs`, `lib.rs`, `main.rs`) | - | checks on strings, start-up | - | - | not modelled |

## 2. Modules

- `AtomicMemory`: what the publication layer promises: one object, each request
  takes effect at most once and at one instant, success is only reported after.
- `Publication`: the layer as the code has it, one action per step that another
  process can come between.
- `MCPublication`: model values and the symmetry set for TLC.
- `PublicationProofs`: the theorems about it.
- `Journal`: the journal files, their lock, and the processes that recover,
  write, read and redact them.
- `MCJournal`: model values and the symmetry set for TLC.
- `JournalProofs`: type correctness, uniqueness of numbers and ids, that what is
  acknowledged stays readable and what is erased stays erased.
- `Curation`: what the published snapshots say: the facts of one entity and its
  spill files, the controls, `INDEX.md` and the checkpoint, under every command
  that writes them.
- `MCCuration`: what the events of the runs say, and the symmetry set.
- `CurationProofs`: type correctness and size limits, that what is forgotten stays
  out, and that file facts are current; of spill files, that what is remembered is
  readable, what is corrected hidden, each fact in one file, everything within
  reach, `INDEX.md` right.
- `Erasure`: the four steps of `mem erase` next to changes, recoveries and other
  erasures, on a branch whose history is rewritten.
- `ErasureProofs`: types, `ErasedForGood`, `OthersKept`, `AnsweredMeansRedacted`,
  `BranchIntact`, `PrunedForGood`.
- `AtomicTasks`: what the task list promises to its clients.
- `Tasks`: the list under its lock, and the finished operations of the HTTP
  server.
- `TasksProofs`: `Tasks` implements `AtomicTasks`; `OwnResult`.
- `Adapters`: the events that each kind of source file gives.
- `Intake`: the commands that bring these files into the journal, and the windows
  of consolidation.
- `IntakeProofs`: no event in two batches, none passed over; no message twice, left
  behind, made up or filed elsewhere than under its project.
- `Scan`: one search, from the rows of the journal to the page.
- `ScanProofs`: the heap of a scan is the best of what was read, the short rows next to
  it stay, and the page is full.
- `Files`: edits of files that belong to people and other programs.
- `FilesProofs`: people's lines outlive these edits, and the edits do not pile up.
- `MCServices`: `Erasure`, `Intake`, `Tasks`, `Scan` and `Files` side by side.

`Publication` and `Journal` share no state: one lives in `memory.git` and the
intents directory, the other in its own directory. `Curation` stands on both. It
takes from `Publication` that a change set is published as a whole and only on
the head it was computed from (`NoUpdateIsLost`), and from `Journal` that an
event is there once and keeps its number (`OneRecord`, `OneNumber`).

`Erasure` crosses all three: it publishes, redacts and scrubs intents. It has its
own branch, since a rewrite gives every commit a new id, which `Publication` (a
commit is its position) cannot say; and it takes redaction as the one step that
`Journal` shows it to be under the journal's lock. `Intake` feeds `Journal` (what a
crash does to day files is there) and reads it for the batches of `Curation` (what
they publish is there). `Tasks`, `Scan` and `Files` have state of their own.

## 3. How `Publication` corresponds to the code

State. `branch` is the chain of commits on `refs/heads/memory`; a commit is
named by its position, which is sound because the ref only moves by
compare-and-swap to a child of the old value (`Erasure` has the rewrites). `intents` and `stale` are the two kinds of
file in the intents directory. `call[p]` is the program counter and the locals
of one process. `acked` and `written` are history variables.

Data. A change set rewrites whole files with text computed from its base, so a
snapshot is abstracted to the set of builds whose effect it shows: publishing a
build made from base `b` gives a snapshot that shows what `b` showed, and the
build. A lost update is then visible as a missing build. A build is named by a
stamp, and two builds with one stamp have the same text.

Repeated builds. `publish` compares digests of base and text, so it matters
when two builds can be equal. `cmd_change` puts `Utc::now()` into the fact:
its builds always differ (`timed`). `make_fact` of `memory_request_change` uses
a fixed date, and `mem index` writes no time: built again on the same base they
may be equal, which is the choice in `Build` and `BuildBatch`.

| code | action |
|---|---|
| `request_change` 432-453, receipt lookup | `ReceiptCheck` |
| `recover_in_dir`, listing, reading, setting aside | `ListIntents`, `ReadIntent`, `IntentGone`, `SetAside`, `RecoveryDone` |
| `repo.head()` of `apply` | `TakeHead` |
| the body of `apply_against_base` up to `write_intent` | `Build`, `BuildFails` |
| `index::rebuild`, `forget_all`, `run_batch`, `erase` step 1: publishers without an intent | `BuildBatch`, `AnswerBatch` |
| `publish`: head, receipt, base, validator | `PublishCheck` |
| `publish`: `update-ref` and what follows its failure | `CompareAndSwap`, `SwapFails`, `Recheck` |
| `complete_intent` and the answer | `CompleteIntent` |
| kill, failing call | `Stop` |
| power loss (rename without fsync in `write_atomic`) | `PowerLoss` |

`PublishCheck` reads the head, the receipt and the base of that same head in one
step: all three are functions of one commit, and the receipt is read from the
revision that `head()` returned. The validator reads the candidate, which no
other process changes.

## 4. How `Journal` corresponds to the code

State. `files[d]` is the file of day `d`, a sequence of records; `synced[d]` is
how many of them the last `sync_all` of that file covers; `lock` is the advisory
lock on `.seq.lock`, which the operating system releases when its holder exits.
`proc[p]` is the step and the locals of one process: for a bulk writer its next
number, the ids it has seen and one buffer per day. `acked` and `promised` are
history variables: what some `flush` returned `Ok` for, what some `redact` did.

Data. An event is its id and its number; whether its text is erased is a flag.
Bytes are abstracted to the form of a record on disk, which is all that
recovery tells apart: `whole`; `bare`, with only the last newline missing; `part`,
cut anywhere before that; `junk`, bytes that are no record. `Good` is the test
`recover_tail` and `JournalIter` apply: a bare record passes at the end of a file
and swallows what follows elsewhere. `Survivors` is what a cut at any byte
behind a given record leaves.

| code | action |
|---|---|
| `Journal::open` 265-271, then an operation; `BulkWriter::open` | `Begin` |
| `recover_tail`: the scan, and `set_len` at the offset found | `Scan`, `Cut`, `Recovered` |
| `lock_exclusive`; `try_lock_exclusive` for five seconds | `TakeLock`, `LockTimeout` |
| `BulkWriter::open` 497-516, largest number and known ids | `Baseline` |
| `BulkWriter::append` | `BulkAppend`; its `BufWriter` hands over what it holds in `WriteRecord`, `WriteSome`, `WriteRest` |
| `flush`, `flush_inner_locked`, `Drop` | `StartFlush`, `SyncDay`, `FlushDone`, `StartDrop`, `DropDone` |
| `Journal::append` | `TakeNumber` (before the lock), `TakeLock`, `AppendOne`, the flush actions |
| `Journal::redact` | `ReadDay`, `Persist`, `RedactDone` |
| process killed; machine stopped | `Kill`, `PowerLoss` |

`Scan` and `Cut` are two actions, since a process without the lock can be
overtaken between them; the offset it truncates at then falls anywhere in what
the file has become. `WriteSome` and `WriteRest` split a record in two: the
buffer of 64 KiB fills up in the middle of a record, and a process that opens
the journal then sees half of it. `Persist` reads nothing: what `redact` writes
back is what `ReadDay` read.

## 5. How `Curation` corresponds to the code

State. `files[n]` is the n-th file of a family (`p_alex`, `p_alex_2`, ...) at the
head, `suppressed`, `retracted` and `deleted` are the three sets of
`state/controls.json`, `index` what `INDEX.md` says, `through` the checkpoint.
`journal` is the sequence of events. `work` is the batch under way: its own copy
of the files, what it blocks, what it has changed, and whether the head it
started from is still the head. `named`, `kept` and `corrected` are history
variables.

Data. A statement is its fact id, which `place` computes from it; an entry is a
status and the event it came from. A fact in state `retracted` never reaches a
file, since every operation that retracts also prunes. Statements have one
length, so that a file is full at `Room` facts and too large at `HardRoom`. The
events of `Versions` are the versions of one memory file; a later event is a
later version. What an extractor finds in an event is any subset of `Says`, in
any order.

| code | action |
|---|---|
| `apply_against_base`, the three kinds | `Remember`, `Correct`, `Forget` |
| where a fact goes: `holder`, `find`, `next_spill` | `IsHolder`, `GoesTo`, `FileBefore` |
| `prune_forgotten` before every write | `Without`, in `PublishFile`, `Tidy`, `StartBatch` |
| `tidy --apply`, `forget_all` | `Tidy` |
| `erase` step 1 | `EraseFact`, `EraseEntity` |
| `run_batch` 107-161: head, checkpoint, journal, controls, files | `StartBatch` |
| `place` | `Place` |
| `retire_outdated_file_facts`, `INDEX.md`, checkpoint, `publish` | `PublishBatch` |
| a conflict, a failed model call, a kill | `AbandonBatch` |
| `BulkWriter::append` | `Ingest` |
| `eligible_facts`, `find_fact`, the lexical scan | `Readable` |

A change, a removal and a publication are one step each, since `Publication`
shows that they take effect at one instant or not at all. A batch is many steps:
minutes lie between its base and its publication, and in between any other
operation moves the head or the journal grows.

## 6. How the other modules correspond to the code

**Erasure.** A commit id is a hash of the commit and all before it, so here it is
the sequence of commits: two ids are equal when Git's are, and a rewrite that
changes nothing keeps the id. `pool` is what is in the object store, `intents`
the files of the intents directory with every id their text mentions. One entity
file holds the facts, and each cites one event.

| code | action |
|---|---|
| `apply` up to `write_intent`; `recover_in_dir` taking up one intent | `BeginRemember`, `BeginForget`, `WriteIntent`; `BeginRecover` |
| `publish`: receipt and base; objects; `update-ref` | `Check`; `WriteCandidate`; `Swap` |
| `complete_intent`, `set_aside` | `Complete`, `SetAside` |
| `erase` step 1, step 2 | `BeginErase` and the publication; `Redact`, `RedactFails` |
| step 3: copy under the writer lock; `update-ref`; `git gc` | `Rewrite`; `Replace`; `Mark`, `Prune` |
| step 4: `read_dir`, then file by file; the answer | `ListFiles`, `RemoveFile`; `EraseDone` |

`git gc` is two actions, since it decides what is unreachable before it deletes;
what is written in between it may or may not see, which is a choice in `Prune`.
`calm` says that nobody wrote objects between the two: Git itself advises against
`--prune=now` next to writers, and without `calm` a candidate can be published
whose objects are just being deleted.

**Tasks.** `thread[t]` is a request on one thread, `ServerOf[t]` its process.
`TakeLock`, `Read`, `Truncate`, `WriteTasks`, `DropLock` are `with_task_lock` and
what it calls, and `WriteFails` an error of the write (the file stays torn) or of the
sync after it (the file is whole and the client is told of an error all the same).
`TakeId`, `Store`, `Answer` are `handle_connection` after
`execute`. `KillServer` may come anywhere; the operating system gives its lock
back. Seen through `TaskList` (what the file says, or while it is written what its
writer read) the module is `AtomicTasks`.

**Adapters and Intake.** A file is a sequence of lines with the fields its reader
looks at, as far as its program has written them; of the next line there may be a
part (`tail`), which may end inside a character, and the file is then not UTF-8. Readers
that go line by line skip what does not parse. Those that take the file for one text
(`read_to_string`: `read_local_transcript`, `read_codex_cwd`, memory files, calendars,
voice notes), and the one that takes it for one JSON text (IDE dumps), fail and leave out
all of it (`ReadFails`, `CwdFails`), and the command goes on and ends without an error.
An adapter gives the events of a file, with ids as tuples where the code
puts strings together. `Intake` has the commands `backfill-local` ("local"),
`backfill-all` ("all"), `backfill` and `ingest` ("paths") and `consolidate`:

| code | action |
|---|---|
| programs append a line in two pieces, rewrite a memory file, archive a session | `Writes`, `Archives` |
| the command lists what it will read; `backfill-local` root by root | `StartCommand`, `ListRoot`, `NextRoot` |
| `BulkWriter::open`, its time limit | `OpenWriter`, `LockIsHeld` |
| an adapter reads one file; `BulkWriter::append` of its events one after the other | `ReadFile`; `AppendEvent` |
| buffers reach the day files; the command ends | `WriteBuffer`; `EndCommand` |
| `hook.rs` `sync` looks at the lag | `Lag` |
| `run_batch`: the window; publication of the checkpoint; failure | `ReadBatch`; `PublishBatch`; `AbandonBatch` |

Directories are sequences of names, and a name is a sequence of words with dashes
between, so that decoding a Claude Code folder name is what it is in the code: not
always the directory it came from.

**Scan.** `Filtered`, `Ranked`, `Unranked` are one turn of the loop of
`search_detailed` each; `heap`, `tracked`, `shorts` and `recent` are its locals. A list
that the code keeps sorted is a set here, and is listed (`Listed`) where its order
matters; a short row has the turn `at` which it was read, which is what a stable sort
and a queue tell rows of one length apart by.
`EndOfScan` sorts the heap and adds the short rows. `FactsFound` is what `LexicalSearch`
returns, cut to its limit, and `FactHits` what the project and the source filter, which
come after that cut, leave of it. `Plain`, `FallThrough`, `Jev`
and `Laya` are the four ways `combined_search` gets to its page; a ranker's scores
are any. Scores of rows are small numbers, ties included.

**Files.** `ReadsFile`, `TruncatesFile`, `WritesFile` are the three moments of every
edit; `NewText` is what the edit computes: `splice_managed_block`, `codex_mcp`,
`claude_hooks`, `exclude_from_git`. `KillEditor` leaves a part of the text.
`PersonAdds` and `PersonRemoves` edit outside what `mem` wrote; `PersonRecodes` saves the
file in another encoding (`utf8`), so that `read_to_string` fails. A write-back then ends
with the error (`Refused`); setup and `exclude_from_git` take the file for an empty one
(`TextRead`) and write over it.

## 7. Runs

| run | question | result |
|---|---|---|
| `publication_safety` | two processes, two change requests (one refused by the validator), a publisher without an intent, three builds, one fault: the safety properties | holds |
| `publication_liveness` | one change and one publisher without an intent: is an intent left behind dealt with in the end, and is the layer one atomic memory? | holds when the validator accepts the change |
| `publication_refused` | the same when the validator refuses it | counterexample |
| `journal_unique` | two processes, readers, writers and redactions, one day, records torn in both ways, no fault: one number and one id per record | holds |
| `journal_alone` | one process after another, two days, two faults: acknowledged events stay readable, erased text stays erased | holds |
| `journal_lock` | all four operations in two processes: is the lock always given back? | holds |
| `journal_bare` | journal.rs:10-11, acknowledged is durable, when a crash takes only the last newline | counterexample |
| `journal_race` | the same, with a reader next to a writer | counterexample |
| `curation_all` | every operation next to a batch: does anything forgotten or erased come back, is what was remembered kept, are a memory file's facts those of its latest version, and is `INDEX.md` right although a batch writes it from its own pruned copy? | holds |
| `curation_spill` | families at their limit of files, where nothing is forgotten: each fact in one file, a corrected one hidden, everything readable within reach of `correct` and `forget` | holds |
| `curation_copy` | README.md:73 and 91, a corrected fact is not returned, when room comes free in an earlier file | counterexample |
| `services` | five components next to each other, below | holds |

What `services` asks, by component:

| component | properties |
|---|---|
| Erasure: two processes, two facts, three requests, one kill | `ErasedForGood`: a fact taken out of the history is in no commit until it is told again; `OthersKept`: nothing else is lost; `PrunedForGood`, `BranchIntact`: what `git gc` takes; `AnsweredMeansRedacted` |
| Intake: two processes, two commands of four kinds, two days, one kill, seven worlds of files | `MessageOnce`, `MessageKept`, `OwnProject`; `PassedIsCovered`, `EachBatchOnce` for the batches |
| Tasks: three threads on two servers, three requests, one crash | `ImplementsPromise`; `OwnResult` |
| Scan: four rows of five kinds, in any order, no facts or four, with and without rankers | `ScanIsTop`, `SiblingsKept`, `PageIsFull` |
| Files: two processes and two lines of people in each of four files, five edits, in UTF-8 and not | `OwnTextKept`, `OneOfEach` |

The publication counterexample loses no data. The intent is written before the
validator runs, so a refused change stays in the intents directory, where
recovery fails on it before every later change: until somebody removes it by hand, or
until a publisher that does not recover first (`mem index`, `tidy`, `consolidate`, `erase`)
moves the head, since the next recovery then finds a conflict and sets it aside.

Two journal counterexamples lose acknowledged events:

- `journal_bare`. `recover_tail` compares the length of a body line, which
  `lines()` gives without its newline, and so takes a record that lost only that
  newline for good (line 682; `consumed`, line 660, then counts a byte that is
  not there). The file is not longer than that count, so nothing is cut and
  nothing is completed. The next record's header goes on the same line; it is
  synced and acknowledged, and the next recovery drops both.
- `journal_race`. `Journal::open` recovers without the lock. A search that
  starts while an ingest has half a record in the file takes it for a torn
  tail, and truncates there after the writer has completed and synced it.

A third way to go wrong has no run, since only tests use the interface at
present: `Journal::append` reads the largest number before it takes the lock
(`TakeNumber`), so that two callers write the same one. Hence the condition of
`OneNumber` below, and no `append` among the `Ops` of the uniqueness runs.

`curation_copy` returns what was corrected. `place` goes through the files of a
family until one has the fact or has room. A fact in `p_alex_2` that is said
again after somebody forgot a fact in `p_alex` is therefore put into `p_alex`, and
is there twice. `correct` supersedes the first copy; the second stays active, and
search and `INDEX.md` go on showing it. (`forget` and `erase` hide both, by id.)

Bounds of the publication runs. Two processes are enough for every race of the
layer, which is between a writer and one other (two writers, two recoveries, a
recovery and the change it recovers); the theorems below hold for any number. Two request ids give a
recovery two files to go through: one that it can publish and one on which it fails. In
`publication_safety` the one accepted change and the publisher without an intent are
two writers whose commits can overwrite each other. Three builds allow a request,
its retry and that competitor, so that a base can be two commits old (the theorems
have no bound on either). `RefusedBound` lets only one process at a time ask for the refused
change, and on the command line: what it does to the others is done by the intent that it
leaves. One fault (a kill, a failing
swap or a power loss) is what an intent needs to be left behind; a second one
only repeats that.

Bounds of the journal runs. Two processes give every race, since what is not
under the lock is one process's recovery against another's write, truncation or
rename. Two events and two days make a buffer with a second file behind it, so
that a crash loses an earlier number and keeps a later one; `MaxSeq` 3 lets a
number be lost and used again. The second fault hits the recovery from the
first. `journal_unique` has one day and no fault for its size (one fault makes
it three million states); the theorems behind it have neither bound, and the one
about bulk writers that compete (`AcknowledgedByWriters`) has no run at all: with two
days and two faults its states are too many beside the other runs. `journal_bare` and
`journal_race` are the smallest instances that show what they show, and the
passing run of `AckedReadable` stays clear of them: `Tears` without `bare`, and one
process at a time.

Bounds of the curation runs. Two facts that callers bring and two that events
say are what a correction, a spill, and an extraction next to both need. In
`curation_all` a file has room for one fact, so that every second fact spills, and
64 KiB hold two, so that a correction fits and a second one does not. Its two
events are two versions of a memory file, of which the second repeats a fact of
the first; a window can hold either or both. `curation_spill` adds a message that
says what the memory file says, and two statements that restate each other. It has
no `forget`, `tidy` or `erase`, since its properties need files that lose no facts:
`curation_copy` is the smallest instance with one `forget` more. `INDEX.md` is asked for
in `curation_all`, where a batch drops from its copy what `forget`, `tidy` and
`erase` have taken back. In both, no more
facts exist than the files of a family hold: the 51st file (section 10) is not
reached.

Bounds of `services`. The five components share no variable, so a behaviour of the
run is one of theirs (`part` says whose) and nothing is gained by interleaving
them. They share the model values of their processes, and facts double as lines
of people: the symmetry set permutes two processes and the two facts in all parts
at once, and no part tells its processes or facts apart (`ServerOf` maps the two
to one server). The properties are about any number of each; two are what every
race has: two erasures, an erasure and a recovery, a backfill and a sync, two
consolidations, an edit and another. Three requests of `Erasure` are an erasure, a change
before and one after; its kill leaves an intent or half an erasure. The worlds of
`Intake` each have the case its reader exists for: a line without uuid and a copy
of another, a fork of a rollout, a rollout and a plain transcript that grow and so may
end inside a character, two versions of a memory file and one that is not in the
project's root, the parts of a
message in any order, files given by path. `HighWater` 1 and two events make a
second batch; `MaxDay` 2 makes one run write two day files. In `Scan` the pool is
two rows, or three with a ranker, and a fourth row is pushed out of it; the scores are
such that a session can leave the heap for another and come back in with a better
row. The best of the four facts is filtered out after it has taken one of the two places.
`SiblingsPerId` 1 and `RecentShorts` 1 make their limits bite; without a ranker the scan runs
with the four facts only. `TasksBound` has at most one request under way that is no update,
and no version expected that the requests before could not have led to.

Deadlock is checked in the runs of `Publication` and `Journal`, where an idle
process can always begin something, and not in those of `Curation`, where all the
facts there are may have been said, corrected and forgotten, nor in `services`,
whose components stop at their bounds.

Fairness of `Publication` (`FairSpec`). `WF(Run(p))`: a process that is running is scheduled and
its Git and file calls return. `SF` of the start of a `mem change`: recovery only
runs when somebody changes something, so "in the end" means as long as changes
keep being requested. Faults are not required and are finitely many
(`MaxFaults`), which is necessary: a store whose every process is killed makes
no progress.

Fairness of `Journal`. `WF(Run(p))`: a running process keeps running. Its loops
are bounded (events, files), and a blocked `lock_exclusive` does not disable the
holder. No run needs a process to start.
`Curation` claims no liveness: `mem consolidate` is run by hooks and by hand.

## 8. Proofs

`PublicationProofs` proves, for every set of processes, request ids and
refusals and every bound, that the specification keeps `TypeOK`,
`NoLostUpdate`, `AtMostOnce`, `AckedIsPublished`, `NeverLost` and
`RecoveredBeforeChange`, and implements `AtomicMemory` (`Refinement`). The only
assumptions are those named in `Publication`: request ids are numbers (their
order is that of file names), changes and batches use different ids, and the
bounds are naturals.

None of these is inductive by itself. `IndInv` adds what every change set that
is still under way knows about the history it will meet: it was computed from a
published snapshot (`IsBuild`), wherever it is kept; a process about to swap
whose base still is the head has no receipt there (`Coherent`, the fact the
compare-and-swap turns into `AtMostOnce`); a process past a successful publish
finds its build in the history. `ListedInv` does the same for recovery: an
intent that was listed and is still there is on the list or in the hands of a
process that is recovering. The proof of each has one step per action.

`JournalProofs` proves for every set of processes, events and days, both ways of
tearing a record, and any number of faults, that `TypeOK` always holds, and that
`NumbersUnique` and `NoDuplicates` hold as long as `"append" \notin Ops`
(`OneNumber`, `OneRecord`; section 7 says why).
The inductive invariant is `UniqueInv`: who is past the lock holds it, and then a
writer's next number is larger than, and its seen ids include, all that is in
any file or buffer; what `redact` is about to write back differs from what the
other files hold. Most actions only take records away, which the lemmas
`FewerDifferent`, `FewerWriter` and `FewerPersist` settle once: recovery outside
the lock does harm to what is readable, and none to uniqueness.

The module proves `AcknowledgedStays`: `AckedReadable`, for any number of readers,
writers and redactions next to each other, kills and power losses, under three
conditions: `"append" \notin Ops`, `Tears \subseteq {"part"}`, and `CutsClear`, which is
about the runs of the system and not about its constants: between `Scan` and `Cut`
nobody has changed the file, and no writer is half through a record in it.
`journal_bare` and `journal_race` are what happens without the second and the
third. That the file is unchanged (`CutsFresh`) does not suffice, as TLC shows: the
beginning of a record that is being written is a torn tail to a reader, which cuts
it off; the writer then appends the rest of the record, syncs, and reports it durable.
The inductive invariant is `DurableInv`: to `UniqueInv` it adds that a file is torn at
its end at most; what is acknowledged is whole and within the synced part; a writer
has cleaned the files it is done with, keeps what it appended in its file or its
buffer, and has synced what its flush has passed; what `redact` is about to write back
is the file as it is. The argument is that a recovery which sees the file as it is
cuts off a torn last record and nothing else (`TornCut`), that redaction only rewrites
files that are not torn (`ReadDayDurable`), and that a power loss cuts behind the
synced part (`SurvivorsTorn`). `CutsClear` holds whenever one process runs after the
other (`AcknowledgedStaysAlone`, which is what `journal_alone` runs) and between any
number of bulk writers, which recover under the lock (`AcknowledgedByWriters`).

`ErasedForGood` states `ErasedStaysErased` for any processes, events and days, readers,
writers and redactions next to each other, if `"append" \notin Ops` and every
recovery cuts the file it saw (`CutsFresh`). The second condition is about the runs
of the system and not about its constants: between `Scan` and `Cut` nobody has
changed the file, which recovery outside the lock does not see to. Without it TLC
finds, with two processes, a recovery that was overtaken and cuts off an erased
record, after which its transcript is ingested again and the text is back.
`ErasedForGoodAlone` shows that one process after another always keeps to it, and
so has no condition but the first. `ErasedInv` adds to `UniqueInv`: an
erased record is synced, with whole records only before it, so that neither a fresh
recovery nor a power loss reaches it (`Firm`); every erased event is in the
files (`There`), hence among the ids a writer has seen and in none of its buffers;
what `redact` is about to write back is still what is in the file, and the files it is
done with have no target that is not erased (`EraserOf`).

`CurationProofs` proves, for any finite set of facts, any events, sizes and numbers
of files:

- `TypeCorrect`: `TypeOK`, with no file ever over the hard limit.
- `NothingComesBack`: `BlockedStaysOut`, if `FreshOnly`. A caller who passes the
  id of an erased fact himself can bring it back; the program's own ids are new.
  The inductive invariant is `BlockedInv`: a batch on the present head blocks
  everything that is forgotten or erased, and has in hand no such fact that is
  not in the same file at the head; every id in use was given before. When the
  head moves, the batch can no longer be published, and nothing need be known of
  it: this is where the compare-and-swap of `Publication` is used.
- `LatestVersion`: `FileFactsCurrent`, without conditions. `CurrentInv` adds that
  the batch's files have nothing outdated as of the old checkpoint, and that its
  unchanged files are the head's. An entry from version `i` that a version `j`
  of the window follows is retired because no event is in the journal twice, so
  no later version can have its id (`RetiredCurrent`).

What a change or a removal does to any file is put into one predicate
(`HeadWritten`), so that each invariant has one case for all six of them.

The rest of `CurationProofs` is about a family of files. Its properties do not hold for
every use of the program, and each theorem names what it needs: `FreshOnly`
(callers leave new ids to the program), `OwnApart` (an event does not say, word for
word, what a caller also said), `NoRemovals` (nothing is forgotten, tidied or
erased), and two conditions on states, `FamilyRead` (the entity has not outgrown the fifty
files that are read, section 10) and `FactOnce`.

| theorem | states | under | without it |
|---|---|---|---|
| `RememberedStaysReadable` | `RememberedKept`, for every operation | `FreshOnly`, `OwnApart`, `FamilyRead` | file 51 is overwritten; a caller or an event names the fact of another |
| `CorrectedStaysHidden` | `CorrectedHidden`, for every operation | `FactOnce` | `curation_copy` |
| `NothingOutOfReach` | `ReadableIsReachable` while `FamilyRead` | no `erase` | erasing leaves gaps (section 10) |
| `IndexAlwaysMatches` | `IndexMatches`, for every operation | `FreshOnly`, `FactOnce` | `forget` prunes one of two copies, a batch prunes the other in its hand, counts without it, and may have no reason to write that file |
| `OneFileEach` | `FactOnce`, and with it `CorrectedHidden`, `IndexMatches` | `FreshOnly`, `NoRemovals` | room comes free in an earlier file (`curation_copy`) |
| `SmallEntityIsRead` | `RememberedKept`, `ReadableIsReachable` | both, `OwnApart`, and no more facts than the files hold | as in the first line |

`OwnInv` says that a caller's fact is in one file, open and not blocked while it is
kept, and that a batch on the present head has the callers' facts as the head has them.
`HiddenInv` says of a corrected fact that it is in no file as an active one, nor in
the batch's hand unless the batch said it. `NoGapInv` says that a missing file has none
behind it, in the head and in the hand, and that the hand lacks a file it has not
changed exactly if the head does. `SpillInv` says that a file is there only if
those before it are full, so that `place`, which stops at the first with room, has
looked at all of them. `NoneEmptyInv` then gives `FamilyRead`: file 51 would mean fifty
full files and one fact more.

`ErasureProofs` proves, for any processes, facts and faults, the types
(`ErasureTyped`; the rewrite happens only under `writer.lock`), `ErasedForGood`
(`ScrubbedStaysOut`) and `OthersKept` (`NothingElseLost`). The invariant `IInv` adds
three facts. What a process has in hand does to the file of its base what its
request asked for, and no more (`HandsFaithful`). A rewritten copy is the scrub of
the commit it was made from (`CopiesScrubbed`), so that a swap by commit id either
finds that commit or does nothing. At the head nothing forgotten is in the file
(`HeadConsistent`). A candidate or intent from before the rewrite is harmless for
one reason: commit ids stand for all the history behind them, and no rewritten
head has the id of an old base unless nothing was rewritten. `OthersKept`
follows since a scrub takes out only what was erased.

`StoreInv` is about the journal and the object store, and gives `AnsweredIsRedacted`,
`PruningSparesBranch` and `PrunedStaysGone`. An erasure past step 2 has its facts
redacted (`GoneRedacted`). The copy that is about to replace the branch is in the
store with all before it (`CopiesThere`). Between the halves of `git gc`, as long as
`calm`, what is to go and the branch have no commit in common, and whatever else
is in the store is the branch's (`DeadIsRest`). So what is pruned leaves the branch's
own history, which by `IInv` does not show what was erased.

`IntakeProofs` proves `EachBatchOnce` (`NoEventTwice`) and `PassedIsCovered`
(`NothingIsPassedOver`) for any workers, days, batch sizes and kills, whatever the
files hold and however an adapter reads them: the theorems assume nothing of
`Adapters`. `IntakeInv` says of the holder of the lock that it knows every id and
number on disk and in its buffers; that its buffers rise, and are later than what is
on disk, except that of another day it writes; of a batch in hand, that it ends above
the checkpoint it was read at and is what lies between the two; that what was
published is at or below the checkpoint; and, as long as no batch was read while a
command wrote for two days, that nothing still in a buffer is below a checkpoint, nor
below the end of a batch in hand (`Covered`). A batch counts its events in the order of the
journal (`LastTaken`) and passes them by number (`Window`); the proof needs of the
first only that it names a record.

Three more theorems say what becomes of the files, in terms of what the readers tell. Let
`E` be any set of events that has all a reader tells of a file, filed as its command
says (`Reads`). `NothingInvented` shows that the journal has nothing but `E`, nor have
the buffers and the files in hand (`SaidInv`); and since the holder of the lock counts
as known only ids that are there, an event that is passed over as known has a record.

| theorem | states | if |
|---|---|---|
| `NoMessageTwice` | `MessageOnce` | in `E` a message has one id (`OneId`) |
| `SessionsKeepTheirProject` | `OwnProject` | for a message of the project the reader, or else the command, has a directory in it (`Located`) |
| `NothingIsLeftBehind` | `MessageKept` | in `E` an id is of one message (`Tells`), readers leave out no message of a file that they can read (`ReadingsWhole`), and a session of the project that can be read can be told to be one (`FoundByProject`) |

The invariant of the last is `KeptInv`: what a command owes is in the journal or its
buffer, in a file in hand, or in one it has yet to come to (`ToRead`). A session that is
archived meanwhile stays among those, because the live root is read before the
archive: one that is moved before its turn, listed or not, is in the archive when that
is listed. `MessageKept` does not ask for everything: a command owes nothing of a file
whose reader failed when its turn came, since the code passes over it and ends without an
error (section 10), and `backfill-all`, which listed its files before, owes nothing of a
session that is archived after that. All the conditions hold in every state of
`services`, for the `E` of each world, which does not change while the system runs;
section 10 has the sources for which some do not.

`TasksProofs` proves that `Tasks` implements `AtomicTasks` (`PromiseIsKept`) and
`ResultIsOwn`, for any servers, threads and kills. `PromiseInv` says who is between
taking and giving back `tasks.lock` (its holder and nobody else), that a file is
torn only while its writer is writing or after its end, and what each thread
will answer. `TableInv` says that ids in use at one server are different and
below its next one. A server that starts again begins at 1 with an empty table, so
`OwnResult` speaks of one life of a server.

`ScanProofs` proves of a search, for any rows in any order, any facts and all limits:

- `BestOfRead` (`ScanIsTop`). `HitBeats` orders rows with different numbers totally, hence
  a finite set of them has exactly one worst (`OneWorst`); a row that enters a full heap
  beats that one, and what it pushes out is beaten by all that stay. `ScanInv` adds that
  the heap is finite, within the pool, and that no number was read twice.
- `ShortsStayNear` (`SiblingsKept`). `remember_short` sorts and truncates with every row.
  The first k of a set in a total order stay the first k when they are determined anew
  with every member that comes (`OneAtATime`): one that was dropped has k before it, which
  stay. So what is kept for an id is the shortest of some set of the rows that were read,
  and this set has all the last short rows with this id, because an id that is new in the
  heap starts with those (`ShortsInv`).
- `PageStaysFull` (`PageIsFull`), for every way to rank and all scores. `PageInv` says that
  no row was read twice and that the scan returns none twice: a short row that is also a
  hit is not added. What follows filters, sorts, cuts, joins and interleaves, and of each
  it is proved that it gives a list without repetition of a known length; the rows that
  JEV judged and the others together are those of the baseline, counted by their ids. It
  assumes that a fact is in the list of facts once (`FactsOnce`; `FactOnce` of `Curation`).
- `ScanTyped`: the types, and that heap, short rows, last rows and rows returned stay
  within their limits.

`FilesProofs` proves `OwnTextOutlivesEdits` (`OwnTextKept`) and `EditsDoNotPileUp`
(`OneOfEach`) for any editors, lines, hooks and number of edits, concurrent ones
included. `FilesInv` says that, until an edit is killed in its write or reads in
another's, the file and every text that waits to be written to it are `Neat`: a line
of `mem`'s is of a kind this file has, and there once; a block is its three lines in a
row; the keys of the table follow its header. None of these texts lacks a settled
line, a forced one excepted. A line is no longer settled when an edit takes the file for
an empty one, which a write-back never does: in AGENTS.md what was saved stays in any
encoding. An editor that computed its text before somebody's line was
saved does overwrite that line, but then it was not settled. Each edit has a lemma
that it keeps a neat text neat and everybody's lines in it (`Kept`). For the two removals
that is a counting argument: the n-th kept line is at the n-th place of the kept set
(`PlaceOfNth`), so places rise, and each kept line has a number.

The inductive invariants (`IndInv`, `ListedInv`, `UniqueInv`, `DurableInv`, `ErasedInv`,
`BlockedInv`, `CurrentInv`, `OwnInv`, `HiddenInv`, `NoGapInv`, `SpillInv`, `NoneEmptyInv`,
`IInv`, `StoreInv`, `IntakeInv`, `SaidInv`, `KeptInv`, `PromiseInv`, `ScanInv`, `ShortsInv`,
`PageInv`, `FilesInv`) are not among the properties of the runs: for those the proofs are the stronger statement.

## 9. What is only model-checked, and what is not modelled

Out of the prover's reach are liveness (`PendingResolved`, `LockReleased`), which needs
fairness, and what a recursion over data computes: the adapters, the scripts of
`Intake`. Only model-checked are:

- `AckedReadable`, `ErasedStaysErased` and `FactOnce` outside the conditions of their
  theorems, where they do not hold in general; the runs stay within them, too;
- that the readers of `Adapters` are as the theorems about `Intake` ask (`Reads`, `Tells`,
  `ReadingsWhole`, `FoundByProject`, `Located`): their loops are recursions over the lines;
- `ServicesTypeOK`, the types of five components at once; of `Erasure`, `Tasks`,
  `Scan` and `Files` they are proved, of `Intake` in the form `Typed`, which leaves open what a file holds.

Left out of `Publication`: the limits of a change set (64 files, 256 KiB), which
only lead to `BuildFails`; a power loss that undoes a ref update or a removed file,
which depends on the file system; reads by other commands, which take one
snapshot. Rewrites of the branch are in `Erasure`.

Left out of `Journal`: the file `seq`, which is written and never read;
`MEM_JOURNAL_FSYNC=0`, with which nothing is acknowledged as durable; the error
paths of a single file call, which end the process as `Kill` does; the time
between a rename and the sync of its directory.

Left out of `Curation`: families other than one, since no operation but
`restates_existing` (preferences against projects) looks across them; dates,
visibility and disputed facts; several sources of one fact; the scope filter; the
limit of 60 files per batch; the extractors' own rules.

Left out of `Erasure`: spill files and a second entity; how the journal is redacted,
which is `Redact` of `Journal`; power loss; what `git gc` keeps through reflogs,
which the code turns off. Left out of `Tasks`: the fields of a task but its
title; the other operations behind the HTTP and MCP servers, which are those of the
other modules; limits on request size. Left out of `Intake`: transcription,
and what `ingest` does with images, PDFs and mail besides reading text; the
network; clocks that go back. Left out of `Scan`: how a text gets its score, and
the text of a hit. Left out of `Files`: the files `setup` writes whole (the skill,
the command lines of the hooks) and directories it creates.

Not modelled: the JEV judge and the evaluation, which are prompts and measurements
(what `Scan` needs of a judge is that it gives scores); paths and identifiers, which are
checks on one string; errors, `main` and the library root, which have no state.

## 10. Where the code and its documents part

Four divergences have runs (section 7): `publication_refused`, `journal_bare`,
`journal_race`, `curation_copy`. The others were met while the modules were written. The
modules follow the code, and the properties are stated so that they hold for it.

Changes and facts.

- "Repeating it replays the stored receipt" (README.md:183). The digest in a receipt
  includes the base, so a repeated `mem change`, which is computed from the newer
  head, has another one and ends in a conflict (repo.rs:224).
  `memory_request_change` looks for the receipt itself, but before it recovers: a request
  whose intent that recovery publishes meets the same conflict.
- An upsert replaces the sources of a fact (entity.rs:95). A fact that a user told,
  and that a memory file repeats, cites only the file afterwards and is retired
  with it, though README.md:57 keeps what users told.
- With fifty full files `remember` writes file 51 (change.rs:230), which
  `load_family` never reads: the next `remember` overwrites it. A
  `controls.json` of more than 64 KiB can be neither read nor written again.

Ingestion and consolidation.

- Claude Code's folder names are decoded with every dash taken for a slash
  (cli.rs:1117). A project whose path has a dash is never found by `backfill-local`
  and the session hook, which README.md:115 promises to be enough.
- "Re-ingesting never duplicates" (README.md:56) holds for messages with ids of
  their own. Calendar entries without UID and IDE dumps are numbered by position, and
  shift when a file changes; `backfill` gives a local transcript other ids than
  `backfill-local`; a memory file given by a relative path is another file than by
  its absolute path. Lines without uuid in two files of one session share
  ids, and so do voice notes of one stem: of two such, one is lost.
- The checkpoint passes events still buffered for another day, whose numbers are
  lower (checkpoint.rs:62, consolidate.rs:115): they are never consolidated.
  `PassedIsCovered` leaves out exactly these.
- A project is what `git` says in most adapters, and the recorded directory in
  opencode's, so that a repository within a repository has two names. A session is
  recognised from its first fifty lines only.
- A file that is not UTF-8 as a whole, as one whose last character is not yet written
  in full, is skipped as a whole where it is read with `read_to_string`: other
  transcripts of a project (cli.rs:1173, passed over at :799), a rollout whose directory
  `backfill-local` wants to know (:1092, passed over at :918 without a word), memory
  files, calendars and voice notes (ingest.rs:540, 616, 694); an IDE dump also when it is
  half a JSON text (:769). The command ends without an error. The next one takes the
  messages in, once the file is text again. `MessageKept` leaves out these files.
- `backfill-local` takes memory files by seven fixed names in the project's root only
  (cli.rs:810). Sessions that are archived after `backfill-all` has listed its files are
  not found by it.
- A record without text is the caller's to skip (ingest.rs:32-35), but the code gives
  back the record itself as its text (:89-91). "Each cue becomes a journal event"
  (ingest.rs:685, cli.rs:1709): each line of a cue does, and so does the number of a
  SubRip cue, since the check for digits wants text that has just been cleared.

Search.

- Of the short rows next to a hit, the eight shortest are kept
  (search/journal.rs:232), and acknowledgements are dropped only when they are
  returned (:159). Eight of them push out the turn that the comments at :88-92
  and :157 are about. `SiblingsKept` allows for it.
- Facts are cut to twenty, or to the rows asked for, before the project and the source
  filter are applied (ops.rs:177-190): a page can be short though more facts match
  and pass. `PageIsFull` counts what the filters leave.
- A long query all of whose words are stop words condenses to nothing and fails.

Erasure.

- A second `erase` after the first failed or was killed before the journal was
  redacted, or after a `forget` whose fact was pruned, finds no fact, hence no
  sources, and answers `Ok` with the text still in the journal (erasure.rs:108).
  `AnsweredMeansRedacted` therefore speaks of facts that the erasure found.
- When the branch moved, the caller is told to run `erase` again; an entity is
  gone by then, and the second run refuses it.
- Erasing an entity leaves its spill files, and in the history the facts that it had
  forgotten before (:77). Erasing the last fact of a spill file leaves a gap at which
  `load_family` stops (:92).
- "Their text becomes `[erased]`" is not for good: a recovery outside the lock that was
  overtaken by the redaction truncates at an offset of the old file (journal.rs:281), which
  can drop an erased record with its id; a later ingest of the transcript brings the
  text back (`CutsFresh`, section 8).
- Every intent that mentions the id is removed, other people's too; one that
  is set aside (renamed to `.stale`) between the listing and the removal is missed.
  A fact told again between step 1 and step 3 is scrubbed though acknowledged.
- `git gc --prune=now` next to a publisher can delete objects of a candidate that is
  swapped in a moment later (`BranchIntact` holds when `calm`).

Tasks, write-back and setup.

- A `tasks.json` torn by a kill can be neither read nor written until somebody
  removes it. Operation ids start again with the server, and its table only grows.
- "Text outside the block is never touched" (README.md:75). A fact that contains
  `<!-- mem:end -->`, an end marker written by hand before the block, or a block torn
  by a kill make blocks pile up or swallow what is between them
  (cli.rs:1862-1864); of two edits at once, one person's text can be lost.
  `OwnTextKept` and `OneOfEach` hold for whole blocks, and as long as no edit begins in
  the middle of another's write.
- "`--remove` undoes it" (setup.rs) not always: setup and the entry in
  `.git/info/exclude` take a file they cannot read, as one that is not UTF-8, for an
  empty one and write over it (setup.rs:86, 195; cli.rs:2107). Setup keeps a copy first,
  and so stops at a file it has no right to read; the exclude entry keeps none. A
  `hooks` in `settings.json` that is no object is replaced as well (setup.rs:91), and an
  event in it that is no list (:96). `OwnTextKept` leaves these cases out for setup and the
  exclude entry; a write-back returns the error (cli.rs:1744).
- `setup --remove` deletes a whole group of hooks, with a command somebody put into
  it, the comments behind `mem`'s table up to the next table, and the whole
  directory of the skill.

## 11. Plan

Done: publication, the journal, what is published, erasure, tasks, ingestion with
the windows of consolidation, search, and edits of foreign files; theorems about all
of them. What is left, in this order:

1. Families in `Erasure`: erasing from a spill file and an entity that has some.
2. Several sources of one fact in `Curation`, for the retirement of what a user
   also told.
