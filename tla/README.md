# code-kb in TLA+

code-kb keeps a symbol index of a project in `.code-kb/artifact.db` and answers an agent's
questions from it through an MCP server. An answer is only worth something when the index agrees
with the files. A background watcher, a reconcile at start, a refresh of the file a call names, and
a gate in front of every answer keep it so, while the user edits, other processes write the index,
and any step may fail. These modules model that machinery, the hooks that check an agent's edits, the
servers of several versions that may share one index, the launcher, and the algorithms behind the
answers whose correctness depends on the order things are found in. Source paths below are relative to `src/`.

## Inventory

| Component | State | Operations | Correct when |
|---|---|---|---|
| File watcher worker, `crates/code-kb-core/src/watcher.rs` | event channel of 32 batches, overflow flag, failure state with a generation, retired workers | start, receive, drain a batch, reconcile, retry registrations, stop | no change is lost without a reconcile owed or a failure on record |
| Watch registrations, same file | registered folders with file IDs, native watches | synchronise after a walk, watch again, remove a tree | every folder that holds a file has a watch, or a failure says which has not |
| Debouncer, `debouncer/mod.rs` | one queue of events for each path, half a rename, a rescan | add a raw event, deliver what is older than the timeout | every changed path is named by a delivery |
| Extractor runs and reconcile, `sync.rs` | rows and content hashes, skipped files | update, delete, scan, `ensure_fresh_file`, `reconcile_offline_edits` | a row is of a content the file had, and its successor is on the way |
| Index rebuild, `sync.rs` | index file, side file, recorded extractor versions | `ensure_index_matches_extractor`, `rebuild_index`, `create_index` | never beside a worker, a failed rebuild is not repeated |
| MCP server, `crates/code-kb-cli/src/mcp/server.rs` | active root, watcher handle, prepare, parked prepares, failed rebuilds | tool call, root switch, gate, recovery | one worker and one prepare for each root, no answer over a stale row |
| Session hooks, `hooks.rs`, `edit_check/session.rs` | session file and lock file | record the base, follow up a block, check and block | a diff blocks once, the base stays |
| Edit check, `edit_check*` | a check under way | pair symbols of two revisions, follow moves and renames, list sites | no lost name goes unreported, an addition is no change |
| Blast radius, `queries.rs`, `ops.rs` | a walk and the answer made of it | walk callers by levels, probe past the depth, join reports, walk on, cut | a row stands at its shortest way, a test is listed or counted |
| Reference reports, `reference_report*` | rows and verdicts of one report, two deadlines | judge, decide, compare with other definitions | no label that the clock changed goes without a word |
| Other queries and operations, formatters, test commands, text scan | none beyond one snapshot | read and render | functions of the snapshot |
| Telemetry, logging, workspace paths, protocol types, command line | append-only rows and files | I/O | nothing reads them back |
| Launcher, `bin/code-kb-launcher.cjs` | cache of unpacked releases | download, verify, unpack, rename | a launch runs the version it asked for |

How they interact. The operating system's watches feed the debouncer's callback, which takes a lock
and merges the event into a queue. The debouncer thread delivers what is due to the worker's
callback, which puts a batch on a bounded channel (`try_send`) or raises the overflow flag. The
worker refreshes single files by running `julie-extract update` in a child process, or reconciles
the tree. The server's main thread handles one call at a time; a prepare thread for each root
rebuilds or creates the index, starts the watcher and reconciles, all beside a live worker. They
share the index through SQLite, the failure state through a mutex, and the retired workers through
a process-wide list. The hooks are processes of their own that share two files.

What is hard here: two writers of one index with different views of the file system; flags that are
lowered before the work they ask for; failures recorded while an earlier one is being recovered;
watchers that go on after they were dropped; calls that give up waiting for work which goes on;
events merged by an order nobody enumerated; lock files left by killed processes; folders that take
each other's names under the walk that registers them; and answers put together from several passes,
each of which may stop early. PROJECT.json lists these hazards with their lines.

## Modules

| Module | Models | Composed with |
|---|---|---|
| `IndexFreshness` | what the machinery around the index promises: the abstract specification | |
| `WatcherRefresh` | the worker, its buffers, registrations as one step, extractor runs | implements `IndexFreshness` |
| `FreshnessGate` | the server's reconciles, recoveries, just-in-time refreshes and answers | extends `WatcherRefresh`: a step is one of the watcher or one of the server |
| `Debouncer` | the queues between native events and deliveries | justifies, and limits, the debouncer step of `WatcherRefresh` |
| `Registrations` | watches of single folders: the walk, file IDs, removals, retries (proofs in `DebouncerProofs`) | extends `Debouncer`, whose deliveries it reads; the detail of the one step of `WatcherRefresh` that registers |
| `ServerPrepare` | roots, prepares, rebuilds, watcher handles and retired workers | abstracts a watcher to starting, running, stopping and ended |
| `IndexVersions` | servers of two versions on one index: rebuild lock, side files, swaps, rescans | the other processes that `ServerPrepare` leaves out |
| `SessionHooks` | the hooks of one session and their lock | stands alone |
| `Launcher` | first launches that share a cache of releases | stands alone |
| `CallerWalk` | the walk behind a blast radius and what it collects | |
| `BlastRadius` | how walks and callers reports become one answer | extends `CallerWalk` |
| `EditCheck` | which symbols an edit check says changed | stands alone |
| `ReportSites` | how the rows of a name get their labels against the clock | stands alone |
| `WatcherRefreshProofs`, `FreshnessGateProofs`, `ServerPrepareProofs`, `SessionHooksProofs`, `DebouncerProofs`, `EditCheckProofs` | theorems about the module of that name | extend it; the gate's also the watcher's |
| `VersionsProofs` | theorems about `IndexVersions` and `Launcher` | extends both |
| `AnswerProofs` | theorems about `CallerWalk`, `BlastRadius` and `ReportSites` | extends the last two |

The `MC` modules give them small constants. `MCParts` and `MCProcesses` run several modules that share
no state, one of them in each behaviour: the others keep an `...Off` state that enables none of their
steps. Operators marked "Mutant of" stand before the
definition they change the way a plausible bug would; no specification uses them.

### WatcherRefresh

A content is an opaque value; `Absent` is both a missing file and a missing row. A folder is the
set of its files: a file is `blind` while its folder has no native watch, and then an edit makes no
event. It is `denied` while its folder, or one above it, may not be listed (`Below` is what such a
folder can hold; the root itself is never denied). The item `Folder` stands for any event that asks
for a reconcile (folders, ignore files).
`changed` is what the system and the debouncer hold, `queue` the channel, `batch` and `pending` the
locals of `process_events`, and `target`, `toRead`, `got` a run of the extractor: files are read
one by one and their rows are committed together, so a file may change between its read and the
commit. `overflow` is the flag, `throttled` says that the next overflow reconcile has to wait.

Choices worth knowing:

* A denied folder is no failure to the code: `synchronize_registrations` skips it with a warning and
  returns `Ok` (`watcher.rs:954`, `:1012`), so `SyncOk` may leave any denied file blind and still clears the
  failure on record. A scan passes over it and keeps its rows; a refresh of a single file in it reads the
  file, or takes it for gone and removes its row (`refresh_file` asks `exists()`, which is false
  where the folder may not be entered). `Deny` and `Allow` are the user's and may happen at any step. The
  properties except denied files by name and nothing more: once a folder is allowed again, its
  unwatched files and its old rows count at once, and the event of the change of permission has to
  see to them.
* A native error records a failure and raises the flag in two stores; they are one step, since the
  worker reads the failure only after the server did.
* The drain of the channel and the test of the flag at the top of `process_events` are one step,
  and a shutdown seen between the registrations and the scan of a reconcile is seen before them.
* `BTreeMap::pop_first` is a choice of any pending file: the properties do not depend on the order.
* An update of a file that vanished meanwhile writes `Absent`: the extractor removes the row.
* An extractor that reports unreadable files and exits with 1 has indexed the others: they are in
  `skipped`, and the code leaves them to "the next reconcile".
* Rows below a removed folder are part of the reconcile the folder's event asks for.
* A matcher that cannot be built has no reachable cause and is left out.

### IndexFreshness

Disk, index, the copies a run has taken, and `owed`, the files that somebody still has to see to. A
row is written only from a copy of the present run, a file is copied only while it is owed, and it
stops being owed only in a state where file and row agree. `WatcherRefresh` implements it
(`KeepsPromise`): `copies` is what the present run of the extractor has read, and `owed` is the union
of all its buffers and flags, a failure on record, and the files the extractor could not read or that are
denied. The denied ones are its `hidden`: a run may find no such file where there is one. The
abstract specification has no queue, flag or worker, so a buffer that is emptied without its work done
is a step it does not have. `FreshnessGate` is not a refinement of it: `gate_lost_file` is the
counterexample.

### Registrations

`registered` is what the worker believes, `watch` what the kernel does. A pass of
`synchronize_registrations` lists a folder after it is watched, compares the file ID of a known one,
starts over once when a folder vanishes under it, and at its end unwatches what it did not come to.
Folders are made, removed and renamed with all they hold at any step, and removed folders' IDs are
given out again, as file systems do. A native watch is of a folder, not of a path: `watch[p]` is the
folder that the watch made at `p` still sees, and it goes with that folder, or when the backend sees a
name above it move away. Events reach the worker through the queues of `Debouncer`, which drop those of
the paths below a removal: that is why a removal may never be heard of. `outdated` remembers the folders
whose record went wrong unheard, in one of two ways: the queues forgot a removal there (`Forgets`), or
the folder was replaced between the look and the watch (`WatchFolder`). `FoldersAreWatched` excepts what
is at or below an outdated folder whose file ID is the one on record, for nothing tells it from the folder
that was watched. A reused ID is one way to get there; a longer one needs none: `mv d e; mkdir d; mv e/c
d/c; rmdir e` in one window brings `c` back to its path with its own ID and without its watch.
Left out: the recursive root of Windows and macOS, a rename over an existing folder, two folders on one
kernel watch, a delivery the channel takes in part, and the first pass of a worker.

### FreshnessGate

Adds the server: a prepare that starts the watcher and then reconciles beside it, a call that
passes the gate when no failure is pending, a call that recovers (reads the generation, reconciles,
acknowledges only that generation), `ensure_fresh_file` in its three outcomes, and leaving a root.
The walk of the reconcile passes over a denied folder with a warning, keeps the rows below it and ends
without a failure (`WalkPassesOver`, `sync.rs:1018`, `:1150`), so a recovery is acknowledged and answers are
given over rows that nobody read again: `NoSilentStaleRow` and `AnswersAreHonest` except those rows while the
folder is denied. Any other error of the walk makes the report incomplete (`WalkCannotRead`).
The reconcile keeps its real order: the walk over the files, then the list of rows, then updates
and deletions one by one, or one bulk scan. Extractor runs the server starts are single steps,
because the extractor holds the database's write lock while it works; runs of the worker are not.

### ServerPrepare

A root's index is missing, torn (`is_unreadable_database`), old (another extractor wrote it) or
current. Threads and workers are numbered and reused lowest first once nobody refers to them, which
keeps the state finite. A prepare goes through the version check, the join of retired workers, the
rebuild or creation, the start of the watcher and the reconcile; every step may fail. The server's
main thread goes idle, gate, (join, startup), open, answer. `Damage` and `UserScans` are the
environment: other programs and `code-kb scan`.

Left out: the `--db` option that pins the index; other server processes and which extractor is newer,
which are `IndexVersions`'. A creation that fails after it copied a parent's index leaves an old one.

### IndexVersions

A server checks who wrote the index, takes `rebuild.lock` or goes on without it, decides again under
the lock, and rebuilds into the side file all servers share, or creates a missing index by a scan or
from the parent repository's. Later, an update meets the index of another version: `foreign` says
whether the extractor takes it, refuses it (`fingerprint_mismatch`, then a rescan into a side file of
its own) or cannot read it. A server that is killed, or whose rescan fails, leaves the event it had to
see to; `orphaned` remembers that until a server rescans. The workspace is one file whose content counts its changes; a run on the
index itself is one step, since the extractor holds the write lock of the database; a scan into a side
file reads and writes in two. Swaps may be refused, on Windows between the removal and the rename.
Left out: that SQLite may pair the new file with another connection's write-ahead log.

### SessionHooks

`SessionStart` records the base; a Stop hook first follows up an earlier block and then checks the
diff. Both take the lock, read the whole session file, and replace it whole. The lock is given up
after a deadline, and it is stolen when it looks stale. A lock grows stale only when its owner was
killed: the harness kills a hook at the age at which a lock counts as stale. What a check finds is a
function of the diff. The print of the answer and the telemetry row belong to the write; a kill
between the write and the print loses the text of that block, which no state can show.
`prune_sessions`, which removes files idle for a week, is left out.

### Debouncer

Files only, with the pair of events inotify reports for a rename, one tracker for both halves, and
no file IDs (`WorkspaceCache` is `NoCache`). An event is `due` when it is older than the timeout;
`Age` makes everything queued due, and since it may happen before any event, every cutoff the clock
can produce is covered without a counter. `indexed` is history: the files that have a row, when the worker
refreshes what is delivered at its delivery. Between the halves of a rename other events may arrive
and the thread may deliver, but the kernel holds the folders' locks, so no name of that rename is
made or removed. The order inside one delivery (`sort_events`) is left out: the worker collects the
paths in a map and looks at the disk itself. Folders, and with them the removal of the queues of
children, are in `Registrations`, by what they do to a delivery.

### Launcher

One action for each step of `ensureBinary` and `main`. The folder of downloads belongs to a version,
not to a launch, so whoever ends removes the files of the others; the folder's time of change, which
pruning sorts by, is a relation, `newer`, between `folders`. `blamed` is history: the launches whose own download failed, that met
another launch of their version, or whose version was pruned under them. They may end up with another
version or none; all others must run what they asked for. Left out: a launch that is killed midway, which
leaves its `stage-<pid>` folder for good, and a prune that cannot remove a folder (`:206`), which is only logged.

### CallerWalk and BlastRadius

A caller step is a tuple `(origin, caller, constructor, kept)`: the SQL that ties a call to a symbol is
data, and `Graphs` are the indexes checked. `CallerWalk` follows the steps level by level, one further
than asked, collects tests and impacted code up to a ceiling, goes on to the largest depth to count the
tests it leaves out, and lists open ends. `BlastRadius` is what `discover_blast_radius` makes of it for
a symbol, a file and a diff: which callers reports run and when, which of their callers join at depth
1, the second walk from those that are new or moved up, the merge and the cut. A test around a reached symbol
is looked for through `scopes`, of any kind the code lets pass, listed or not. Properties compare the
answer with paths of exact length, a definition that shares nothing with the walk. Left out: the cut of
the list of tests inside the walk, and text that only formats. Four things the properties do not claim,
since the code does otherwise:

* A file's answer may count a test as past the depth that a report lists: `JoinFile` does not look again.
* Two tied symbols that only call each other may return to the open ends.
* A walk whose only caller one level past its depth is of a kind it does not list (`RanIntoLow`) takes
  itself for one that ran out, so the tests behind it are neither listed nor counted, although
  `models.rs:602` says `stopped_at_depth` tells of a walk "that has callers beyond it".
* The second walk starts from the callers that joined and does not know the symbol that was asked about.
  When that calls one of them, it is listed as impacted by its own change, at the length of such a way.

### EditCheck

The index of the base revision and that of the project are sets of rows; parameters and bodies are
values that differ or do not. Modelled are the pairing of overloads by signature and order, renames by
body, moves to another file of a scope, the four rules by which one symbol reports for another, the
limits, and refreshes and listings that fail. What a signature is, arms, fields of literals, bindings
and which sites a change breaks are opaque.

### ReportSites

`account_spec` against its two deadlines: rows are judged in chunks until half of the time is gone,
decided by rules, compared chunk by chunk with the other definitions of the name, and the rest decided
by how many of those could be meant. What a rule finds of a row is a field of the row. The reference,
`Unhurried`, says what the label would be with no clock. A row that the number of its arguments
excludes loses its mark, which the property excepts, though `models.rs:632` says of every unchecked
site that it is likely or unresolved. The merge of the rows of one line, the sections and the text
scan are not modelled.

## Checks

| Run | Bounds | Shows |
|---|---|---|
| `watcher` | 2 files, one of them in a folder that may be denied, 1 content, 2 edits, 2 faults, channel 1, batch 1 | safety, convergence and the refinement of `IndexFreshness` |
| `gate_safety` | 2 files, one of them in a folder that may be denied, 1 content, 2 edits, 1 fault | the server's writes beside the worker's lose nothing silently |
| `gate_answers` | 1 file, in a folder that may be denied, 2 contents, 1 edit, 2 faults | honest answers, and recovery of every failure |
| `gate_lost_file` | 1 file in the root, 1 edit, no fault; violation | a row deleted by a reconcile that did not see the file |
| `prepare_safety` | 2 roots (one with a project marker), 3 threads, 4 workers, 1 fault, 1 user scan | one worker, one prepare, rebuilds alone, answers under a live watcher |
| `prepare_staying` | 3 workers, no user scan | staying on a root is answered |
| `prepare_two_roots` | violation | alternating between two roots may never be answered |
| `processes` | 2 hooks, 3 diffs (2 block), 2 commits, 1 kill; or 2 servers of 2 versions, 1 change, 2 mishaps | blocks once, keeps the base, every hook ends; one writer of a side file, swaps lose nothing, the lock keeps nobody out |
| `hooks_takeover` | 3 hooks, 1 kill; violation | two hooks take one stale lock over |
| `parts` | below | the modules without shared state |
| `debounce_ghost` | 3 files, 3 changes; violation | the name of an indexed file that is gone is swallowed |
| `check_members` | 1 file, up to 3 symbols; violation | a method lost by a type that changed its kind is not reported |

The parts of `parts`, each in behaviours of its own:

| Part | Bounds | Properties |
|---|---|---|
| `debouncer` | 3 files, 3 changes | `PresentIsReported`, `RenameLeads` |
| `folders` | 3 folders, one inside another, 3 file IDs, 3 changes, 1 loss of events or failed watch | `FoldersAreWatched` |
| `launches` | 3 launches of 2 versions, any cache of 3 versions, 2 attempts, 1 failed or damaged download | `OtherVersionsDoNotDisturb`, `NothingIsLeft` |
| `walk` | 5 symbols in 3 files, every graph of up to 3 of 8 steps, a caller that is code, test, fixture or unlisted, the last also as a scope inside a test, depth 1 and 2, probe to 3, ceiling 3 | `RowsAreShortestPaths`, `TestsAreListed`, `FoldedOnlyConstruct`, `OpenEndsAreUncalled` |
| `question` | every graph of up to 4 of 7 steps, one a call of the symbol to itself, 3 kinds of question, up to 2 ties from reports | `JoinedRowsAreNearest`, `PastIsUnlisted` |
| `edit` | up to 3 of 9 symbols before and after, moves to a second file, 1 failed refresh or listing | `LostNamesAreReported`, `AdditionsAreNoChange` |
| `report` | up to 3 rows of 18 kinds, up to 3 other definitions of which 2 are compared, chunks of 1 | `TimeIsTold` |

Why the bounds are enough. Capacities of one make every limit bite: one batch fills the channel and
two events overflow a batch. Two files are needed for a partial batch, an overflow beside a refresh
and a bulk scan; a third adds a copy of one of them. Two edits let a file change again while its
first change is under way; denying or allowing a folder is one of them, and rows may be old and folders
denied from the first state, so a denied row is met by every walk and allowed after it. Two faults let a failure strike during the recovery from another.
Two roots are every case of "another root", three threads allow a parked, a finished and a running
prepare, four workers allow an old and a new one for each root. In `SessionHooks` the stale
takeover needs three hooks (one killed, two that steal), so the passing run has two and the run with
three is the finding. Three paths are the shortest chain of renames, and three IDs let a folder get
that of another while a third exists. Two servers are an older and a newer one; a third adds a second
waiter at the lock. Three launches are two of one version and one of another. The walk's depth of 3
against the code's 5 keeps its two borders, the asked depth and the largest, apart. Chunks of one make
the clock stop a comparison between any two rows. A deadlock is checked in every run but `processes`,
`parts` and `check_members`, whose processes and computations end.

Fairness. The debouncer thread and the worker thread are loops that run until they are told to stop,
hence weak fairness on their steps. The throttle and the retry of registrations end with the clock
although other work may come first again and again: strong fairness on those two. `FreshnessGate`
adds that the agent keeps calling; `ServerPrepare` that every thread runs and that the agent calls
the root it is on; `SessionHooks` that a hook that is not killed runs on, and that its deadline
passes; `IndexVersions` that every server that runs goes on, and that one that tries for the lock again
and again gets it if it is free again and again (`VersionsFairness`). The launcher, the walks and the
checks have no liveness property: each is a finite computation. Nothing is assumed of edits, faults, switches or kills. Convergence excuses a watcher that
has stopped and a failure that waits for the server; `FailuresAreRecovered` closes the second case.

## Proofs

Eight modules prove, for every value of the constants that their named assumptions allow, what the runs
check on small instances. The assumptions say only what the constants are (limits are positive, `None` is
none of the values, files and symbols are finite); TLC evaluates each of them. Every invariant below is
the conjunction of named parts, each with a lemma for the steps that can disturb it.

| Module | Theorems | Inductive invariant, and why the property alone is not inductive |
|---|---|---|
| `WatcherRefreshProofs` | `TypeOK`, `BlindIsKnown`, `NoLostUpdate`, `ReadIsCurrent`, `FailuresAreCounted`, the refinement `KeepsPromise` | `WatcherInv`: a commit makes a row of what was read, so `NoLostUpdate` needs `ReadIsCurrent`; a read of a blind file is current only until an edit without an event, so both need `BlindIsKnown`, which says that a blind file is denied or a reconcile is owed; between runs nothing is half read, and only `process_events` holds a batch |
| `FreshnessGateProofs` | `NoSilentStaleRow`, `AnswersAreHonest` | `GateInv`: an acknowledgement hides no stale row only if the recovery has dealt with every file or is going to (`PlanCovers`), as long as no failure was recorded since it read the generation |
| `ServerPrepareProofs` | `PrepareTypeOK`, `OneWorkerPerRoot`, `RebuildsAlone`, `OnePreparePerRoot`, `AnswersAreWatched`, `NoSecondRebuild` | `PrepareInv`: a new worker is alone only if all earlier ones of the root were retired and joined (`AllAreJoined`), and whoever is live is held by the server, by a prepare or by the list of the retired (`LiveAreKnown`) |
| `VersionsProofs`, servers | types, `SideFileHasOneWriter`, `SwappedRowsAreSeenTo` | `VersionsInv`: whoever builds holds the lock or went on without it; a server that misses a change while it scans a side file has the event on its list |
| `SessionHooksProofs` | `SessionTypeOK`; under `CarefulTakeovers` `BlocksOnce`, `FollowsOwnBlock`, `BaseIsKept` | `HooksInv`: a hook under the lock owns the lock file, so what it read of the session is what it replaces, and the file tells the last block |
| `DebouncerProofs`, queues | `DebouncerTypeOK`, `RenameLeads`, `PresentIsReported` | `DebouncerInv`: only removals come before a rename, the half of a rename that waits is the last event of its queue, and a present, changed file has an event of its own or is named by a rename that leads |
| `DebouncerProofs`, folders | `FoldersAreWatched` | `FoldersInv`: a folder that is not watched and of which nothing is known is one the worker takes for another, or lies below one (`Misled`); what a pass has walked past is in its generation (`PassCovers`), so the end of the pass unwatches nothing that is still needed |
| `VersionsProofs`, launches | `OtherVersionsDoNotDisturb`, `NothingIsLeft` | `LauncherInv`: a launch that nothing disturbed is the only one of its version at work and finds what its earlier steps made; what is half done belongs to a launch at work |
| `EditCheckProofs` | `LostNamesAreReported`, `AdditionsAreNoChange` | `CheckInv`: what was compared is the edit unless a refresh failed, no changed file is left out without a word, and what was found waits, is reported or is named among the cuts |
| `AnswerProofs` | `RowsAreShortestPaths`, `TestsAreListed`, `FoldedOnlyConstruct`, `OpenEndsAreUncalled`, `JoinedRowsAreNearest`, `PastIsUnlisted`, `TimeIsTold` | `WalkInv`, `BlastInv` and `SitesInv`, below |

`KeepsPromise` is proved step by step: the initial states map to initial states of `IndexFreshness`, and
from `WatcherInv` every step maps to one of its steps or to a stutter, the lossy ones (a full channel, an
overflow, a failed run) included. It is safety: the abstract specification states no fairness.

The hooks. The promises of the session are false in general, as `hooks_takeover` shows. `CarefulTakeovers`
is the specification with one condition: a takeover that removes the lock file removes the stale one it
saw (`TakesStaleFile`). `TakeoversAreCareful` proves that condition where nobody is killed, and where two
hooks share a session however many are killed, so there the promises hold with no condition
(`TwoHooksAgree`). The violation is exactly the failure of that condition, with three hooks and one kill.

The walk. `RowsAreShortestPaths` compares a walk that expands each symbol once for each way it was
reached with all paths of exact length. `LevelsInv` says which places a level holds (those of paths of
its length, and of none shorter), that the frontier is the last level, and what `seen` and `called` tell.
The report's part says of each phase what was collected for which depth, so that the tests of `Collect`
still stand when `CountPast` has walked on. `BlastInv` then follows an answer: `JoinedAs` is what the
first walk and the reports leave, `DeeperAs` what the second walk finds from the callers that joined, and
`Combine` proves that the nearest rows of both are the shortest joined ways. That a path through joined
callers splits into a path from the seeds or one, a step shorter, from those callers is `JoinedSplit`.

The report. `TimeIsTold` compares a finished report with one that has no clock. `SitesInv` keeps the
comparison through the passes: a row has one verdict or is among the rows that wait (`RowsAreKept`), a
row that waits is open to the cheap rules and was spared by each definition compared (`Spared`), what the
last pass decides was compared with all of them or `noted` says that it was not (`RestIsNoted`), so a
verdict given on the way is the one that no clock would change, or is noted (`VerdictsAreRight`).

The edit check. `CheckInv` leaves a question about two sets of rows: are the `Candidates` all that has to
be said of an edit? Rows of a key are told apart by their ranks, so the proofs begin with what a rank is:
the rows of a finite set have the positions below its size, once each (`Ranks`), a smaller side is paired
row by row (`FewerPaired`), and a side is paired with itself as it is (`SamePaired`). For
`LostNamesAreReported` a lost name's row has no pair and does not move (`LostIsRemoved`). The four rules
that skip it each point to another removed row of its name, of which the first of its kind stands for all
(`LostIsNamed`), or to its type, which is reported, became another kind of type, or moved, and then the
comparison at the new place misses it (`LostInside`). For `AdditionsAreNoChange` an added overload leaves
every old row paired with one of its signature (`AddedShiftNothing`). The one assumption, `DiffsAssumption`,
says that an index holds finitely many rows, in an order, each with a name.

The folders. `FoldersInv` has four parts. `FoldersAreTree`: a folder is in a folder. `RecordsHold`: what
is on record is the folder the native watch sees, or the watch is gone and that is noted (`lost`),
announced by a removal on its way (`Marked`), or everything is to be watched again and this folder was
not yet; or it is outdated. `FoldersReached`: a folder without a watch is heard of, or a pass will come
to it, or it was skipped, or the last pass failed, or the worker takes it, or one above it, for watched
(`Misled`). `PassCovers`: what a running pass has walked past is of its generation. The property follows,
for a misled folder has a record that does not hold. It is not inductive alone: the sweep at the end of a
pass takes every record it did not renew, which loses nothing only by `PassCovers`; and a folder that
arrives unseen is known by what is known of the unwatched one it came to (`ArrivalsKeep`). A parent's
parents are the least set closed under `Parent`, so the way between two folders is followed without
recursion (`AboveHasChild`); trees may be of any depth. `ParentAssumption` says that each path has a last
ancestor below the root, and `NameAssumption` that two paths of one folder differ in their last part.

Recursive functions and induction. The paths of exact length and the moves of an
edit check are recursive functions. A theorem with an
operator as a parameter cannot be instantiated here, so they are shown to exist with `Iteration`, a lemma
about functions, and induction runs over sets of naturals (`SetInduction`, from the least element of the
complement).

Only model-checked:

* Every liveness property, and deadlock: fairness and ENABLED are beyond the prover.

## Findings

* `gate_lost_file` (`sync.rs:1216`): the reconcile lists the rows after its walk; a file created
  behind the walk and indexed by the worker in between is deleted from the index, and nothing is
  left that would bring it back.
* `debounce_ghost` (`debouncer/mod.rs:469`): `mv a b; rm b` in one debounce window delivers no event
  that names `a`, so the row of an indexed `a` stays. `PresentIsReported` shows that the opposite error, a file
  that exists and is missed, cannot happen.
* `hooks_takeover` (`session.rs:191`): two hooks that saw the stale lock both get it, and both block. It
  is the one way there is: `SessionHooksProofs` proves the promises from its absence.
* `prepare_two_roots` (`server.rs:345`): a parked prepare that finished is dropped on the way back
  to its root, so an agent that alternates may be told to call again for ever.
* `check_members` (`edit_check.rs:1529`): a type that became another kind is skipped because its name
  still compiles, and the members it lost in the same edit are skipped because it is unpaired.

`WatcherRefresh` takes the debouncer's report of a changed file as certain. `Debouncer` shows where
that holds: for files that exist. The theorems therefore speak of the worker and what is behind it.

## Not modelled

The other queries and operations, formatters, test commands, text scan and path functions are functions
of one snapshot: unit tests reach them, and they have no interleavings. The rules of languages in
reference reports and edit checks, and the SQL that ties a call to a symbol, are data to the models:
what is modelled is the order they are asked in and what is made of their answers. Telemetry, logging,
protocol types, the command line and the build script are I/O or data.

## Plan

In order of weight:

1. Registrations by their interface: that a pass without a failure leaves no blind folder but denied ones,
   as the step `SyncOk` of `WatcherRefresh` has it, now that `FoldersInv` says what a pass covers.
2. The closure of re-exports and loaded files in `reference_report`, the merge of the rows of a line,
   the choice of test commands, and what the full-text triggers of `db.rs` keep equal.

New questions of the same kind extend an existing configuration rather than add a run.
