---------------------------- MODULE FreshnessGate ----------------------------
(***************************************************************************)
(* The MCP server beside its watcher (mcp/server.rs, sync.rs).             *)
(*                                                                         *)
(* A prepare thread starts the watcher and then reconciles the index with  *)
(* the workspace.  A call looks at the failures the watcher recorded: none *)
(* means it answers; otherwise it reconciles, and it answers only when it  *)
(* can acknowledge the failure it read.  Both reconciles run beside the    *)
(* live worker.  Extractor runs that the server starts are one step each:  *)
(* the extractor holds the write lock of the database while it runs.       *)
(***************************************************************************)
EXTENDS WatcherRefresh

CONSTANT ReconcileLimit   \* more changes than this (50) run one bulk scan

ASSUME ReconcileAssumption == ReconcileLimit \in Nat

VARIABLES
    spc,        \* where the server is
    watching,   \* the server holds a WatcherHandle
    recovering, \* the reconcile is a recovery of a call, not a prepare
    genRead,    \* the generation pending_failure returned
    toWalk,     \* files the walk of the reconcile has not reached
    seen,       \* files the walk found, and those below an unreadable prefix
    todo,       \* files found added or modified
    gone,       \* indexed files found missing
    incomplete  \* ReconcileFailures.count > 0

plan       == <<toWalk, seen, todo, gone, incomplete>>
serverVars == <<spc, watching, recovering, genRead, plan>>
gateVars   == <<vars, serverVars>>

ServerPlaces == {"idle", "starting", "walk", "apply", "bulk", "answer", "drop"}

WatcherOnly == UNCHANGED <<world, blind, delivery, control, pc, work, run, health>>

WriteRow(f, content) ==
    /\ index' = [index EXCEPT ![f] = content]
    /\ skipped' = skipped \ {f}

BeginReconcile ==
    /\ spc' = "walk"
    /\ toWalk' = Files /\ seen' = {} /\ todo' = {} /\ gone' = {}
    /\ incomplete' = FALSE

-----------------------------------------------------------------------------
(* The prepare thread and the watcher handle. *)

(* spawn_index_prepare: start_watcher, which first joins the retired       *)
(* worker of the root.                                                     *)
Prepare ==
    /\ spc = "idle" /\ ~watching
    /\ Start
    /\ spc' = "starting"
    /\ UNCHANGED <<watching, recovering, genRead, plan>>

PrepareReconciles ==
    /\ spc = "starting"
    /\ pc \notin {"stopped", "startSync", "startScan"}
    /\ BeginReconcile
    /\ recovering' = FALSE
    /\ UNCHANGED <<vars, watching, genRead>>

PrepareFails ==
    /\ spc = "starting" /\ pc = "stopped"
    /\ spc' = "idle"
    /\ UNCHANGED <<vars, watching, recovering, genRead, plan>>

(* A call for another root drops the watcher.                              *)
LeaveRoot ==
    /\ spc = "idle" /\ watching
    /\ Shutdown
    /\ watching' = FALSE
    /\ UNCHANGED <<spc, recovering, genRead, plan>>

-----------------------------------------------------------------------------
(* handle_call_tool_inner: the gate in front of every query. *)

CallHealthy ==
    /\ spc = "idle" /\ watching
    /\ ~failure /\ ~regFailure
    /\ spc' = "answer"
    /\ UNCHANGED <<vars, watching, recovering, genRead, plan>>

(* Mutants of CallRecovers: the failure is cleared before the reconcile,   *)
(* or the call returns it and leaves the recovery to another.              *)
CallRecoversTooEarly ==
    /\ spc = "idle" /\ watching
    /\ failure \/ regFailure
    /\ genRead' = generation
    /\ failure' = FALSE
    /\ BeginReconcile
    /\ recovering' = TRUE
    /\ UNCHANGED <<world, index, blind, delivery, control, pc, work, run, skipped,
                   regFailure, generation, faults, watching>>

CallRefuses ==
    /\ spc = "idle" /\ watching
    /\ failure \/ regFailure
    /\ UNCHANGED gateVars

CallRecovers ==
    /\ spc = "idle" /\ watching
    /\ failure \/ regFailure
    /\ genRead' = generation
    /\ BeginReconcile
    /\ recovering' = TRUE
    /\ UNCHANGED <<vars, watching>>

-----------------------------------------------------------------------------
(* reconcile_offline_edits. *)

Walk(f) ==
    /\ spc = "walk"
    /\ f \in toWalk
    /\ toWalk' = toWalk \ {f}
    /\ IF disk[f] = Absent
       THEN UNCHANGED <<seen, todo>>
       ELSE /\ seen' = seen \cup {f}
            /\ todo' = IF index[f] = disk[f] THEN todo ELSE todo \cup {f}
    /\ UNCHANGED <<vars, spc, watching, recovering, genRead, gone, incomplete>>

(* A folder below the root that may not be listed is skipped with a        *)
(* warning: the rows below it stay, and the reconcile remains complete.    *)
WalkPassesOver(f) ==
    /\ spc = "walk"
    /\ f \in toWalk \cap denied
    /\ toWalk' = toWalk \ {f}
    /\ seen' = seen \cup {f}
    /\ UNCHANGED <<vars, spc, watching, recovering, genRead, todo, gone, incomplete>>

(* Any other failure of a folder or a file is counted.                     *)
WalkCannotRead(f) ==
    /\ spc = "walk"
    /\ f \in toWalk
    /\ Fault
    /\ toWalk' = toWalk \ {f}
    /\ seen' = seen \cup {f}
    /\ incomplete' = TRUE
    /\ WatcherOnly
    /\ UNCHANGED <<index, skipped, spc, watching, recovering, genRead, todo, gone>>

(* The rows of the index are read only now, and those the walk did not     *)
(* find count as deleted.  Many changes, or a changed C header, are left   *)
(* to one scan.                                                            *)
ListRows ==
    /\ spc = "walk" /\ toWalk = {}
    /\ gone' = {f \in Files : index[f] # Absent /\ f \notin seen}
    /\ \/ Cardinality(todo) + Cardinality(gone') <= ReconcileLimit /\ spc' = "apply"
       \/ /\ \/ Cardinality(todo) + Cardinality(gone') > ReconcileLimit
             \/ todo # {}
          /\ spc' = "bulk"
    /\ UNCHANGED <<vars, watching, recovering, genRead, toWalk, seen, todo, incomplete>>

UpdateChanged(f) ==
    /\ spc = "apply" /\ f \in todo
    /\ todo' = todo \ {f}
    /\ WriteRow(f, disk[f])
    /\ WatcherOnly
    /\ UNCHANGED <<faults, spc, watching, recovering, genRead, toWalk, seen, gone, incomplete>>

DeleteGone(f) ==
    /\ spc = "apply" /\ todo = {} /\ f \in gone
    /\ gone' = gone \ {f}
    /\ WriteRow(f, Absent)
    /\ WatcherOnly
    /\ UNCHANGED <<faults, spc, watching, recovering, genRead, toWalk, seen, todo, incomplete>>

ApplyFails(f) ==
    /\ spc = "apply"
    /\ f \in todo \/ (todo = {} /\ f \in gone)
    /\ Fault
    /\ todo' = todo \ {f}
    /\ gone' = IF todo = {} THEN gone \ {f} ELSE gone
    /\ incomplete' = TRUE
    /\ WatcherOnly
    /\ UNCHANGED <<index, skipped, spc, watching, recovering, genRead, toWalk, seen>>

(* What one scan may leave in the row of f; denied folders as in           *)
(* ExtractRead and ExtractPassesOver.                                      *)
Scanned(f, unreadable) ==
    (IF f \in unreadable THEN {index[f]} ELSE {disk[f]})
        \cup (IF f \in denied THEN {index[f], Absent} ELSE {})

BulkScan(unreadable) ==
    /\ spc = "bulk"
    /\ IF unreadable = {} THEN UNCHANGED faults ELSE Fault
    /\ index' \in {rows \in [Files -> Contents] :
                      \A f \in Files : rows[f] \in Scanned(f, unreadable)}
    /\ skipped' = unreadable
    /\ spc' = "apply" /\ todo' = {} /\ gone' = {}
    /\ WatcherOnly
    /\ UNCHANGED <<watching, recovering, genRead, toWalk, seen, incomplete>>

BulkScanFails ==
    /\ spc = "bulk"
    /\ Fault
    /\ incomplete' = TRUE
    /\ spc' = "apply" /\ todo' = {} /\ gone' = {}
    /\ WatcherOnly
    /\ UNCHANGED <<index, skipped, watching, recovering, genRead, toWalk, seen>>

ReconcileDone == spc = "apply" /\ todo = {} /\ gone = {}

-----------------------------------------------------------------------------
(* What follows a reconcile. *)

HandOver ==
    /\ ReconcileDone /\ ~recovering /\ ~incomplete
    /\ spc' = "idle"
    /\ watching' = TRUE
    /\ UNCHANGED <<vars, recovering, genRead, plan>>

(* The prepare returns its error and drops the watcher it started.         *)
PrepareIncomplete ==
    /\ ReconcileDone /\ ~recovering /\ incomplete
    /\ shutdown' = TRUE
    /\ spc' = "idle"
    /\ UNCHANGED <<world, index, blind, delivery, throttled, pc, work, run, skipped, health,
                   faults, watching, recovering, genRead, plan>>

(* Mutant of Acknowledge: the generation is not compared.                  *)
AcknowledgeAny ==
    /\ ReconcileDone /\ recovering /\ ~incomplete
    /\ ~regFailure
    /\ failure' = FALSE
    /\ spc' = "answer"
    /\ UNCHANGED <<world, index, blind, delivery, control, pc, work, run, skipped,
                   regFailure, generation, faults, watching, recovering, genRead, plan>>

(* clear_failure_if_unchanged *)
Acknowledge ==
    /\ ReconcileDone /\ recovering /\ ~incomplete
    /\ generation = genRead /\ ~regFailure
    /\ failure' = FALSE
    /\ spc' = "answer"
    /\ UNCHANGED <<world, index, blind, delivery, control, pc, work, run, skipped,
                   regFailure, generation, faults, watching, recovering, genRead, plan>>

RecoveryError ==
    /\ ReconcileDone /\ recovering
    /\ incomplete \/ generation # genRead \/ regFailure
    /\ spc' = "idle"
    /\ UNCHANGED <<vars, watching, recovering, genRead, plan>>

-----------------------------------------------------------------------------
(* The query.  A body or skeleton read first runs ensure_fresh_file on its *)
(* target: a missing file is deleted in a later run of the extractor.      *)

Answer ==
    /\ spc = "answer"
    /\ spc' = "idle"
    /\ UNCHANGED <<vars, watching, recovering, genRead, plan>>

EnsureFreshFile(f) ==
    /\ spc = "answer"
    /\ disk[f] # Absent
    /\ WriteRow(f, disk[f])
    /\ spc' = "idle"
    /\ WatcherOnly
    /\ UNCHANGED <<faults, watching, recovering, genRead, plan>>

EnsureFreshFindsMissing(f) ==
    /\ spc = "answer"
    /\ disk[f] = Absent /\ index[f] # Absent
    /\ gone' = {f}
    /\ spc' = "drop"
    /\ UNCHANGED <<vars, watching, recovering, genRead, toWalk, seen, todo, incomplete>>

EnsureFreshDeletes(f) ==
    /\ spc = "drop" /\ f \in gone
    /\ gone' = {}
    /\ WriteRow(f, Absent)
    /\ spc' = "idle"
    /\ WatcherOnly
    /\ UNCHANGED <<faults, watching, recovering, genRead, toWalk, seen, todo, incomplete>>

-----------------------------------------------------------------------------
GateInit ==
    /\ Init
    /\ spc = "idle" /\ watching = FALSE /\ recovering = FALSE /\ genRead = 0
    /\ toWalk = {} /\ seen = {} /\ todo = {} /\ gone = {} /\ incomplete = FALSE

ReconcileStep ==
    \/ \E f \in Files : Walk(f) \/ WalkPassesOver(f) \/ WalkCannotRead(f)
    \/ ListRows
    \/ \E f \in Files : UpdateChanged(f) \/ DeleteGone(f) \/ ApplyFails(f)
    \/ \E unreadable \in SUBSET Files : BulkScan(unreadable)
    \/ BulkScanFails

Server ==
    \/ Prepare \/ PrepareReconciles \/ PrepareFails
    \/ CallHealthy \/ CallRecovers
    \/ ReconcileStep
    \/ HandOver \/ PrepareIncomplete \/ Acknowledge \/ RecoveryError
    \/ Answer
    \/ \E f \in Files :
         EnsureFreshFile(f) \/ EnsureFreshFindsMissing(f) \/ EnsureFreshDeletes(f)

WatcherStep == (User \/ Backend \/ Worker) /\ UNCHANGED serverVars

GateNext == WatcherStep \/ Server \/ LeaveRoot

GateSpec == GateInit /\ [][GateNext]_gateVars

(* The agent keeps calling, and the threads of the server keep running.    *)
GateFairSpec ==
    /\ GateSpec
    /\ WF_gateVars((\E events \in SUBSET changed : DebounceFlush(events)) /\ UNCHANGED serverVars)
    /\ WF_gateVars(Worker /\ UNCHANGED serverVars)
    /\ SF_gateVars(RetryRegistrations /\ UNCHANGED serverVars)
    /\ SF_gateVars(OverflowReconcile /\ UNCHANGED serverVars)
    /\ WF_gateVars(Server)

-----------------------------------------------------------------------------
(* Properties. *)

StaleRow(f) == index[f] # Absent /\ index[f] # disk[f]

(* A row of an old content is never silent, though the server reconciles,  *)
(* refreshes and acknowledges failures while the worker runs: work is owed *)
(* for it, or a failure stands.  Rows below a folder that may not be       *)
(* listed are excepted: the code keeps and serves them with a warning in   *)
(* its log.  The exception ends with the denial, not with the next scan.   *)
NoSilentStaleRow ==
    \A f \in Files : StaleRow(f) =>
        WorkOwed(f) \/ failure \/ f \in skipped \/ f \in denied

(* A call answers only when no failure is on record and every old row has  *)
(* work on the way that no failure has interrupted ("If a refresh fails,   *)
(* indexed reads return an error ... instead of serving stale results").   *)
(* Unreadable files and denied folders are excepted as above.              *)
AnswersAreHonest ==
    [][(spc # "answer" /\ spc' = "answer") =>
         /\ ~failure' /\ ~regFailure'
         /\ \A f \in Files : StaleRow(f)' =>
                WorkOwed(f)' \/ f \in skipped' \/ f \in denied']_gateVars

(* A recorded failure is either recovered or dies with its watcher: it     *)
(* cannot keep the server from answering for ever.                         *)
FailuresAreRecovered == (failure \/ regFailure) ~> (~failure /\ ~regFailure)

(* README: "Filesystem edits automatically refresh indexed files."  With   *)
(* nothing in any buffer, no failure and no reconcile under way, the index *)
(* equals the workspace.                                                   *)
Quiet ==
    /\ pc = "loop" /\ InFlight = {} /\ ~overflow /\ ~failure /\ ~regFailure
    /\ spc = "idle" /\ watching /\ ~shutdown

EditsRefreshTheIndex == Quiet => Fresh
=============================================================================
