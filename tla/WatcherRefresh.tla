--------------------------- MODULE WatcherRefresh ---------------------------
(***************************************************************************)
(* The background file watcher of code-kb (watcher.rs) and the extractor   *)
(* runs it starts (sync.rs).                                               *)
(*                                                                         *)
(* A filesystem change reaches the index through a chain of buffers: the   *)
(* debouncer, a bounded queue of batches, the batch the worker took, the   *)
(* map of files that wait for a refresh, and a run of the extractor, which *)
(* reads files and then commits their rows.  Every buffer may drop what it *)
(* holds; a drop is legal only when a full reconcile is owed (`overflow`)  *)
(* or a failure is on record for the server to act on.                     *)
(*                                                                         *)
(* Contents of files are opaque values.  A folder is represented by the    *)
(* files it holds: a file is `blind` while its folder has no native watch, *)
(* and `denied` while its folder, or one above it, may not be listed.  A   *)
(* denied folder is passed over with a warning by every walk and no        *)
(* failure is recorded, so what it hides is excepted, by name, from the    *)
(* properties below.                                                       *)
(***************************************************************************)
EXTENDS Naturals, Sequences, FiniteSets

CONSTANTS
    Files,          \* the files of the workspace that the ignore rules accept
    Below,          \* those in folders below the root: the root is never denied
    Contents,       \* what a file can hold, Absent among them
    Absent,         \* no such file on disk, or no row in the index
    Folder,         \* any event that requires a reconcile (a folder, an ignore file)
    QueueCapacity,  \* EVENT_QUEUE_CAPACITY: batches the channel holds
    BatchLimit,     \* MAX_QUEUED_EVENTS_PER_BATCH
    MaxEdits,       \* bound: changes the user makes
    MaxFaults       \* bound: failures, losses and restarts

ASSUME ContentsAssumption == Absent \in Contents
ASSUME BelowAssumption    == Below \subseteq Files
ASSUME FolderAssumption   == Folder \notin Files
ASSUME LimitsAssumption   == QueueCapacity \in Nat \ {0} /\ BatchLimit \in Nat \ {0}
ASSUME BoundsAssumption   == MaxEdits \in Nat /\ MaxFaults \in Nat
ASSUME FiniteAssumption   == IsFiniteSet(Files)

VARIABLES
    disk,       \* [Files -> Contents]: the workspace
    denied,     \* files below a folder that may not be listed
    index,      \* [Files -> Contents]: the rows of artifact.db
    blind,      \* files whose folder has no native watch
    changed,    \* events in the operating system and the debouncer
    queue,      \* batches in the channel, each a set of events
    overflow,   \* the flag that owes a full reconcile
    throttled,  \* overflow_reconcile_ready_at was set
    pc,         \* where the worker is
    batch,      \* `events` of process_events
    pending,    \* `pending_files` of process_events
    target,     \* files that the running extractor writes
    toRead,     \* files of target that it has not read
    got,        \* what it read
    skipped,    \* files the last scan reported as unreadable
    shutdown,   \* WatcherHandle.shutdown
    failure,    \* WatcherFailureState.failure is Some
    regFailure, \* WatcherFailureState.registration_failure is Some
    generation, \* WatcherFailureState.generation
    edits,      \* history: changes made
    faults      \* history: faults so far

world    == <<disk, denied, edits>>
delivery == <<changed, queue, overflow>>
work     == <<batch, pending>>
run      == <<target, toRead, got>>
health   == <<failure, regFailure, generation>>
control  == <<throttled, shutdown>>
vars     == <<disk, denied, index, blind, changed, queue, overflow, throttled, pc, batch,
              pending, target, toRead, got, skipped, shutdown, failure, regFailure,
              generation, edits, faults>>

Items == Files \cup {Folder}

(* The worker's program counter.  "startSync" and "startScan" are the      *)
(* startup; "loop" is the top of the main loop; "drain" the top of the     *)
(* loop of process_events; "refresh" and "scan" an extractor run; "recon"  *)
(* the entry of reconcile_workspace.                                       *)
Places == {"stopped", "startSync", "startScan", "loop", "drain", "refresh",
           "recon", "scan"}

Extracting == pc \in {"startScan", "refresh", "scan"}
Batches(q) == UNION {q[i] : i \in 1..Len(q)}
Queued     == Batches(queue)
InFlight   == changed \cup Queued \cup batch \cup pending
Nothing    == [f \in Files |-> Absent]

-----------------------------------------------------------------------------
(* Shared steps. *)

Fault == faults < MaxFaults /\ faults' = faults + 1

RecordFailure ==
    /\ failure' = TRUE
    /\ generation' = generation + 1
    /\ UNCHANGED regFailure

(* Mutant of RecordRegistrationFailure: the failure is only logged.        *)
LogRegistrationFailure == UNCHANGED health

(* record_registration_failure: the generation moves only when the text    *)
(* differs from the one on record.                                         *)
RecordRegistrationFailure ==
    /\ regFailure' = TRUE
    /\ \/ generation' = generation + 1
       \/ regFailure /\ generation' = generation
    /\ UNCHANGED failure

(* Mutant of ClearRegistrationFailure: a cleared failure is not counted.   *)
ClearUncounted == regFailure' = FALSE /\ UNCHANGED <<failure, generation>>

ClearRegistrationFailure ==
    /\ regFailure' = FALSE
    /\ generation' = IF regFailure THEN generation + 1 ELSE generation
    /\ UNCHANGED failure

BeginRun(files) == target' = files /\ toRead' = files /\ got' = Nothing
EndRun          == target' = {} /\ toRead' = {} /\ got' = Nothing

(* A folder that may not be listed is skipped with a warning, and so is a  *)
(* new folder that may not be watched: neither keeps a registration from   *)
(* succeeding, and either may stay without a watch or lose the one it has. *)
SyncOk   == blind' \in SUBSET denied
SyncFail == blind' \in SUBSET Files

-----------------------------------------------------------------------------
(* The user and the operating system. *)

Edit(f, c) ==
    /\ edits < MaxEdits
    /\ c # disk[f]
    /\ edits' = edits + 1
    /\ disk' = [disk EXCEPT ![f] = c]
    /\ changed' = IF f \in blind THEN changed ELSE changed \cup {f}
    /\ UNCHANGED <<denied, index, blind, queue, overflow, control, pc, work, run, skipped,
                   health, faults>>

(* A folder is made, moved in or made again: its files arrive unwatched    *)
(* and the watch of its parent reports the folder.                         *)
MakeFolder(f, c) ==
    /\ f \in Below
    /\ edits < MaxEdits
    /\ edits' = edits + 1
    /\ disk' = [disk EXCEPT ![f] = c]
    /\ blind' = blind \cup {f}
    /\ \/ pc # "stopped" /\ changed' = changed \cup {Folder}
       \/ f \in blind /\ UNCHANGED changed
    /\ UNCHANGED <<denied, index, queue, overflow, control, pc, work, run, skipped,
                   health, faults>>

(* The permissions of a folder change.  Its own watch or that of the       *)
(* folder around it reports a change of a folder, if there is one.         *)
Permissions ==
    /\ edits < MaxEdits
    /\ edits' = edits + 1
    /\ UNCHANGED <<disk, index, blind, queue, overflow, control, pc, work, run, skipped,
                   health, faults>>

Deny(f) ==
    /\ f \in Below \ denied
    /\ denied' = denied \cup {f}
    /\ \/ pc # "stopped" /\ changed' = changed \cup {Folder}
       \/ (pc = "stopped" \/ f \in blind) /\ UNCHANGED changed
    /\ Permissions

(* No event comes when the folder around it is not watched although it may *)
(* be listed, as before the first registration: some file of that folder   *)
(* is then blind and not denied.                                           *)
Allow(f) ==
    /\ f \in denied
    /\ denied' = denied \ {f}
    /\ \/ pc # "stopped" /\ changed' = changed \cup {Folder}
       \/ /\ pc \in {"stopped", "startSync"} \/ blind \ denied # {}
          /\ UNCHANGED changed
    /\ Permissions

(* Mutants of DebounceFlush: a full queue takes one batch more, or drops   *)
(* the batch.                                                              *)
DebounceFlushPastCapacity(events) ==
    /\ pc # "stopped"
    /\ events # {}
    /\ changed' = changed \ events
    /\ IF Cardinality(events) <= BatchLimit /\ Len(queue) <= QueueCapacity
       THEN queue' = Append(queue, events) /\ UNCHANGED overflow
       ELSE overflow' = TRUE /\ UNCHANGED queue
    /\ UNCHANGED <<world, index, blind, control, pc, work, run, skipped, health, faults>>

DebounceFlushDrops(events) ==
    /\ pc # "stopped"
    /\ events # {}
    /\ changed' = changed \ events
    /\ queue' = IF Len(queue) < QueueCapacity THEN Append(queue, events) ELSE queue
    /\ UNCHANGED <<world, overflow, index, blind, control, pc, work, run, skipped, health, faults>>

(* The debouncer callback with Ok(events). *)
DebounceFlush(events) ==
    /\ pc # "stopped"
    /\ events # {}
    /\ changed' = changed \ events
    /\ IF Cardinality(events) <= BatchLimit /\ Len(queue) < QueueCapacity
       THEN queue' = Append(queue, events) /\ UNCHANGED overflow
       ELSE overflow' = TRUE /\ UNCHANGED queue
    /\ UNCHANGED <<world, index, blind, control, pc, work, run, skipped, health, faults>>

(* Mutant of NativeRescan: the rescan event is ignored.                    *)
NativeRescanIgnored(lost) ==
    /\ pc # "stopped"
    /\ Fault
    /\ changed' = changed \ lost
    /\ UNCHANGED <<world, overflow, index, blind, queue, control, pc, work, run, skipped, health>>

(* The backend lost events and says so with a rescan event. *)
NativeRescan(lost) ==
    /\ pc # "stopped"
    /\ Fault
    /\ changed' = changed \ lost
    /\ overflow' = TRUE
    /\ UNCHANGED <<world, index, blind, queue, control, pc, work, run, skipped, health>>

(* The backend lost events with an error. *)
NativeError(lost) ==
    /\ pc # "stopped"
    /\ Fault
    /\ changed' = changed \ lost
    /\ RecordFailure
    /\ overflow' = TRUE
    /\ UNCHANGED <<world, index, blind, queue, control, pc, work, run, skipped>>

-----------------------------------------------------------------------------
(* Startup and shutdown. *)

(* start_watcher: the worker starts with a new failure state.              *)
Start ==
    /\ pc = "stopped"
    /\ pc' = "startSync"
    /\ failure' = FALSE /\ regFailure' = FALSE /\ generation' = 0
    /\ UNCHANGED <<world, index, blind, delivery, control, work, run, skipped, faults>>

(* The worker ends; its debouncer, channel and flags go with it.           *)
Quit ==
    /\ pc' = "stopped"
    /\ blind' = Files
    /\ changed' = {} /\ queue' = <<>> /\ overflow' = FALSE
    /\ throttled' = FALSE /\ shutdown' = FALSE

StartSync ==
    /\ pc = "startSync"
    /\ SyncOk
    /\ pc' = "startScan"
    /\ BeginRun(Files)
    /\ UNCHANGED <<world, index, delivery, control, work, skipped, health, faults>>

(* A startup failure ends the worker; start_watcher returns the error.     *)
StartFail ==
    /\ pc \in {"startSync", "startScan"}
    /\ Fault
    /\ Quit
    /\ EndRun
    /\ UNCHANGED <<world, index, work, skipped, health>>

(* WatcherHandle is dropped; it exists once the startup is over.           *)
Shutdown ==
    /\ pc \notin {"stopped", "startSync", "startScan"}
    /\ ~shutdown
    /\ Fault
    /\ shutdown' = TRUE
    /\ UNCHANGED <<world, index, blind, delivery, throttled, pc, work, run, skipped, health>>

Stop ==
    /\ pc = "loop"
    /\ shutdown
    /\ Quit
    /\ UNCHANGED <<world, index, work, run, skipped, health, faults>>

-----------------------------------------------------------------------------
(* The main loop. *)

(* Mutant of RetryRegistrations: the scan that follows is forgotten.       *)
RetryWithoutScan ==
    /\ pc = "loop" /\ ~shutdown /\ regFailure
    /\ SyncOk
    /\ ClearRegistrationFailure
    /\ UNCHANGED <<world, index, delivery, control, pc, work, run, skipped, faults>>

RetryRegistrations ==
    /\ pc = "loop" /\ ~shutdown /\ regFailure
    /\ SyncOk
    /\ ClearRegistrationFailure
    /\ pc' = "scan"
    /\ BeginRun(Files)
    /\ UNCHANGED <<world, index, delivery, control, work, skipped, faults>>

RetryRegistrationsFails ==
    /\ pc = "loop" /\ ~shutdown /\ regFailure
    /\ Fault
    /\ SyncFail
    /\ RecordRegistrationFailure
    /\ UNCHANGED <<world, index, delivery, control, pc, work, run, skipped>>

(* Before overflow_reconcile_ready_at a received batch is thrown away.     *)
DiscardBatch ==
    /\ pc = "loop" /\ ~shutdown /\ overflow /\ throttled
    /\ queue # <<>>
    /\ queue' = Tail(queue)
    /\ UNCHANGED <<world, index, blind, changed, overflow, control, pc, work, run,
                   skipped, health, faults>>

(* The flag is lowered before the reconcile, never after it.               *)
OverflowReconcile ==
    /\ pc = "loop" /\ ~shutdown /\ overflow
    /\ overflow' = FALSE
    /\ throttled' = TRUE
    /\ pc' = "recon"
    /\ UNCHANGED <<world, index, blind, changed, queue, shutdown, work, run, skipped,
                   health, faults>>

Receive ==
    /\ pc = "loop" /\ ~shutdown /\ ~overflow
    /\ queue # <<>>
    /\ batch' = Head(queue)
    /\ queue' = Tail(queue)
    /\ pc' = "drain"
    /\ UNCHANGED <<world, index, blind, changed, overflow, control, pending, run, skipped,
                   health, faults>>

(* recv_timeout ends without a batch.                                      *)
Poll ==
    /\ pc = "loop" /\ ~shutdown /\ queue = <<>>
    /\ UNCHANGED vars

-----------------------------------------------------------------------------
(* process_events, one turn of its loop: take what arrived meanwhile, then *)
(* give up, reconcile, run one bulk scan, or refresh one file.             *)

TakeArrived ==
    /\ pc = "drain"
    /\ queue' = <<>>
    /\ batch' = {}
    /\ UNCHANGED <<world, index, changed, overflow, blind, control, skipped>>

Waiting == pending \cup batch \cup Queued

(* collect_relevant_files: an ignore rule that cannot be loaded is a       *)
(* failure on record, and the files it was asked about are kept.           *)
IgnoreRules ==
    \/ UNCHANGED <<health, faults>>
    \/ batch \cup Queued # {} /\ Fault /\ RecordFailure

DrainGivesUp ==
    /\ TakeArrived
    /\ shutdown \/ overflow
    /\ pending' = {}
    /\ pc' = "loop"
    /\ UNCHANGED <<run, health, faults>>

DrainReconciles ==
    /\ TakeArrived
    /\ ~shutdown /\ ~overflow
    /\ Folder \in Waiting
    /\ pending' = {}
    /\ pc' = "recon"
    /\ UNCHANGED <<run, health, faults>>

DrainScans ==
    /\ TakeArrived
    /\ ~shutdown /\ ~overflow
    /\ Folder \notin Waiting
    /\ Cardinality(Waiting) > BatchLimit
    /\ pending' = {}
    /\ pc' = "scan"
    /\ BeginRun(Files)
    /\ IgnoreRules

DrainRefreshes(f) ==
    /\ TakeArrived
    /\ ~shutdown /\ ~overflow
    /\ Folder \notin Waiting
    /\ Cardinality(Waiting) <= BatchLimit
    /\ f \in Waiting
    /\ pending' = Waiting \ {f}
    /\ pc' = "refresh"
    /\ BeginRun({f})
    /\ IgnoreRules

(* The index cannot be opened: the waiting files are dropped.              *)
DrainCannotOpen ==
    /\ TakeArrived
    /\ ~shutdown /\ ~overflow
    /\ Folder \notin Waiting
    /\ Waiting # {}
    /\ Cardinality(Waiting) <= BatchLimit
    /\ Fault
    /\ RecordFailure
    /\ pending' = {}
    /\ pc' = "loop"
    /\ UNCHANGED run

DrainEnds ==
    /\ TakeArrived
    /\ ~shutdown /\ ~overflow
    /\ Waiting = {}
    /\ pending' = {}
    /\ pc' = "loop"
    /\ IgnoreRules
    /\ UNCHANGED run

-----------------------------------------------------------------------------
(* reconcile_workspace: the registrations first, then a full scan, which   *)
(* runs even when the registrations failed.  A shutdown that interrupts    *)
(* the registrations makes them an early success.                          *)

ReconcileStops ==
    /\ pc = "recon"
    /\ shutdown
    /\ pc' = "loop"
    /\ \/ UNCHANGED <<blind, health>>
       \/ blind' \in SUBSET blind /\ ClearRegistrationFailure
    /\ UNCHANGED <<world, index, delivery, control, work, run, skipped, faults>>

ReconcileSync ==
    /\ pc = "recon" /\ ~shutdown
    /\ SyncOk
    /\ ClearRegistrationFailure
    /\ pc' = "scan"
    /\ BeginRun(Files)
    /\ UNCHANGED <<world, index, delivery, control, work, skipped, faults>>

ReconcileSyncFails ==
    /\ pc = "recon" /\ ~shutdown
    /\ Fault
    /\ SyncFail
    /\ RecordRegistrationFailure
    /\ pc' = "scan"
    /\ BeginRun(Files)
    /\ UNCHANGED <<world, index, delivery, control, work, skipped>>

-----------------------------------------------------------------------------
(* A run of the extractor. *)

(* A file below a folder that may not be entered does not exist for who    *)
(* asks (refresh_file: `!absolute.exists()`), and its row is removed.      *)
ExtractRead(f) ==
    /\ f \in toRead
    /\ toRead' = toRead \ {f}
    /\ \/ got' = [got EXCEPT ![f] = disk[f]]
       \/ f \in denied /\ got' = [got EXCEPT ![f] = Absent]
    /\ UNCHANGED <<world, index, blind, delivery, control, pc, work, target, skipped,
                   health, faults>>

(* A scan that may not list a folder leaves the rows below it as they are. *)
ExtractPassesOver(f) ==
    /\ pc \in {"startScan", "scan"}
    /\ f \in toRead \cap denied
    /\ toRead' = toRead \ {f} /\ target' = target \ {f}
    /\ UNCHANGED <<world, index, blind, delivery, control, pc, work, got, skipped,
                   health, faults>>

AfterRun == IF pc = "refresh" THEN "drain" ELSE "loop"

(* Mutant of ExtractCommit: a run commits before it has read every file,   *)
(* and takes an unread one for a missing one.                              *)
CommitUnread(unreadable) ==
    /\ Extracting
    /\ IF unreadable = {} THEN UNCHANGED faults ELSE pc # "refresh" /\ Fault
    /\ index' = [f \in Files |-> IF f \in target \ unreadable THEN got[f] ELSE index[f]]
    /\ skipped' = (skipped \ target) \cup unreadable
    /\ pc' = AfterRun
    /\ EndRun
    /\ UNCHANGED <<world, blind, delivery, control, work, health>>

(* A commit writes every file of the run.  A scan that ends with           *)
(* "partial" leaves the rows of the files it could not read and is taken   *)
(* for a success; an update never is partial.                              *)
ExtractCommit(unreadable) ==
    /\ Extracting
    /\ toRead = {}
    /\ IF unreadable = {} THEN UNCHANGED faults ELSE pc # "refresh" /\ Fault
    /\ index' = [f \in Files |-> IF f \in target \ unreadable THEN got[f] ELSE index[f]]
    /\ skipped' = (skipped \ target) \cup unreadable
    /\ pc' = AfterRun
    /\ EndRun
    /\ UNCHANGED <<world, blind, delivery, control, work, health>>

ExtractFail ==
    /\ pc \in {"refresh", "scan"}
    /\ Fault
    /\ RecordFailure
    /\ pc' = AfterRun
    /\ EndRun
    /\ UNCHANGED <<world, index, blind, delivery, control, work, skipped>>

-----------------------------------------------------------------------------
Init ==
    /\ disk \in [Files -> Contents]
    /\ index \in [Files -> Contents]
    /\ denied \in SUBSET Below
    /\ blind = Files
    /\ changed = {} /\ queue = <<>> /\ overflow = FALSE /\ throttled = FALSE
    /\ pc = "stopped"
    /\ batch = {} /\ pending = {}
    /\ target = {} /\ toRead = {} /\ got = Nothing
    /\ skipped = {}
    /\ shutdown = FALSE
    /\ failure = FALSE /\ regFailure = FALSE /\ generation = 0
    /\ edits = 0 /\ faults = 0

User ==
    \/ \E f \in Files, c \in Contents : Edit(f, c) \/ MakeFolder(f, c)
    \/ \E f \in Files : Deny(f) \/ Allow(f)

Backend ==
    \/ \E events \in SUBSET changed : DebounceFlush(events)
    \/ \E lost \in SUBSET changed : NativeRescan(lost) \/ NativeError(lost)

Drain ==
    \/ DrainGivesUp \/ DrainReconciles \/ DrainScans \/ DrainCannotOpen \/ DrainEnds
    \/ \E f \in Files : DrainRefreshes(f)

Reconcile == ReconcileStops \/ ReconcileSync \/ ReconcileSyncFails

Extractor ==
    \/ \E f \in Files : ExtractRead(f) \/ ExtractPassesOver(f)
    \/ \E unreadable \in SUBSET Files : ExtractCommit(unreadable)
    \/ ExtractFail

Worker ==
    \/ StartSync \/ StartFail \/ Stop
    \/ RetryRegistrations \/ RetryRegistrationsFails
    \/ DiscardBatch \/ OverflowReconcile \/ Receive \/ Poll
    \/ Drain \/ Reconcile \/ Extractor

Next == User \/ Backend \/ Start \/ Shutdown \/ Worker

Spec == Init /\ [][Next]_vars

(* The debouncer thread and the worker thread keep running, and the clock  *)
(* brings the throttle and the registration retry to their end.  Nothing   *)
(* is assumed of the user, of the faults or of a restart.                  *)
Fairness ==
    /\ WF_vars(\E events \in SUBSET changed : DebounceFlush(events))
    /\ WF_vars(Worker)
    /\ SF_vars(RetryRegistrations)
    /\ SF_vars(OverflowReconcile)

FairSpec == Spec /\ Fairness

-----------------------------------------------------------------------------
(* Properties. *)

(* Type correctness of every variable.                                     *)
TypeOK ==
    /\ disk \in [Files -> Contents] /\ index \in [Files -> Contents]
    /\ denied \subseteq Below /\ blind \subseteq Files
    /\ changed \subseteq Items
    /\ queue \in Seq(SUBSET Items) /\ Len(queue) <= QueueCapacity
    /\ overflow \in BOOLEAN /\ throttled \in BOOLEAN /\ shutdown \in BOOLEAN
    /\ pc \in Places
    /\ batch \subseteq Items /\ pending \subseteq Files
    /\ target \subseteq Files /\ toRead \subseteq target
    /\ got \in [Files -> Contents]
    /\ skipped \subseteq Files
    /\ failure \in BOOLEAN /\ regFailure \in BOOLEAN /\ generation \in Nat
    /\ edits \in 0..MaxEdits /\ faults \in 0..MaxFaults

(* The worker is about to register every folder and scan every file, or it *)
(* is being discarded and its successor will.                              *)
ReconcileAhead == pc \in {"stopped", "startSync", "recon"} \/ shutdown

(* Every folder will be registered and every file scanned without anything *)
(* having to fail first: the event of a folder is on the way, or a         *)
(* reconcile is owed, is being retried or lies ahead.                      *)
ReconcileOwed == Folder \in InFlight \/ overflow \/ regFailure \/ ReconcileAhead

(* A folder that may be listed and has no native watch is never forgotten, *)
(* however registrations fail, watches are lost and permissions come and   *)
(* go.  (Nothing remembers a folder that may not be listed: it is skipped  *)
(* with a warning.  When it may be listed again that has to be noticed.)   *)
BlindIsKnown == blind \ denied # {} => ReconcileOwed

(* The work that will bring the row of f up to date without any failure    *)
(* having to be acted upon.                                                *)
WorkOwed(f) ==
    \/ f \in InFlight \/ ReconcileOwed
    \/ f \in toRead
    \/ f \in target /\ got[f] = disk[f]

(* No lost update: when the row of a file differs from the file, the       *)
(* change is still in some buffer, a full reconcile is owed, or a failure  *)
(* is on record.  Two kinds of file are only logged: those the extractor   *)
(* reported as unreadable (scan_workspace leaves them for "the next        *)
(* reconcile") and those below a folder that may not be listed.  A file    *)
(* whose folder may be listed again has to be back on the books at once.   *)
NoLostUpdate ==
    \A f \in Files : index[f] # disk[f] =>
        WorkOwed(f) \/ failure \/ f \in skipped \/ f \in denied

(* What a run of the extractor has read and not yet committed is current,  *)
(* or what makes it old is still on its way, or the folder is denied.      *)
ReadIsCurrent ==
    \A f \in target \ toRead :
        got[f] # disk[f] => f \in InFlight \/ ReconcileOwed \/ f \in denied

(* The inductive invariant of the watcher: the three properties above hold *)
(* together, since a commit writes what was read, between runs nothing is  *)
(* half read, and only process_events holds a batch.                       *)
RunIdle   == ~Extracting => target = {}
BatchIdle == pc # "drain" => batch = {}
WatcherInv ==
    TypeOK /\ RunIdle /\ BatchIdle /\ BlindIsKnown /\ NoLostUpdate /\ ReadIsCurrent

(* The failure on record is cleared by nobody but the server, and every    *)
(* new failure moves the generation, so a recovery that read an older      *)
(* generation cannot acknowledge it.                                       *)
FailuresAreCounted ==
    [][pc # "stopped" => /\ failure => failure'
                         /\ generation' >= generation
                         /\ (~failure /\ failure') => generation' > generation
                         /\ regFailure # regFailure' => generation' > generation]_vars

(* The watcher keeps the promise of IndexFreshness: rows are written only  *)
(* from what the present run of the extractor read, and a file is off the  *)
(* books only while its row agrees with it.  The books are all the buffers *)
(* and flags of the watcher together.                                      *)
Promise == INSTANCE IndexFreshness WITH
    copies <- [f \in Files |-> IF f \in target \ toRead THEN {got[f]} ELSE {}],
    hidden <- denied,
    owed   <- {f \in Files : WorkOwed(f) \/ failure \/ f \in skipped \/ f \in denied}

KeepsPromise == Promise!Spec

(* After the last edit and the last fault the index becomes equal to the   *)
(* workspace, except for the files that are only logged, unless the        *)
(* watcher was stopped or a failure waits for the server.                  *)
Fresh == \A f \in Files \ (skipped \cup denied) : index[f] = disk[f]

EventuallyFresh == <>[](pc = "stopped" \/ failure \/ Fresh)
=============================================================================
