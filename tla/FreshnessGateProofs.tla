------------------------- MODULE FreshnessGateProofs -------------------------
(***************************************************************************)
(* Proofs about FreshnessGate: the server that reconciles, acknowledges    *)
(* failures and answers beside the watcher never hides a stale row.        *)
(***************************************************************************)
EXTENDS FreshnessGate, WatcherRefreshProofs

-----------------------------------------------------------------------------
(* The inductive invariant. *)

Reconciling == {"walk", "apply", "bulk"}
Startup     == {"stopped", "startSync", "startScan"}

(* Every variable of the server has its type.                              *)
GateTypeOK ==
    /\ spc \in ServerPlaces
    /\ watching \in BOOLEAN /\ recovering \in BOOLEAN /\ incomplete \in BOOLEAN
    /\ genRead \in Nat
    /\ toWalk \subseteq Files /\ seen \subseteq Files
    /\ todo \subseteq Files /\ gone \subseteq Files

(* The worker of a handle, or of a reconcile, is past its startup and is   *)
(* not shut down: its failure state is not replaced under a reconcile.     *)
WorkerIsUp == pc \notin Startup /\ ~shutdown

HandleIsLive ==
    /\ pc \in Startup => ~shutdown
    /\ watching \/ spc \in Reconciling => WorkerIsUp
    /\ spc = "starting" => ~shutdown /\ ~watching
    /\ spc \in Reconciling => (watching <=> recovering)

Recovers == recovering /\ spc \in Reconciling

(* The generation a recovery read was the generation then.                 *)
GenerationIsRead == Recovers => genRead <= generation

(* A walk reaches a file once.                                             *)
WalkIsOnce == spc = "walk" => toWalk \cap seen = {}

(* Nothing need fail or be acknowledged for the row of f to be corrected,  *)
(* or the code means to leave it as it is.                                 *)
Settled(f) == StaleRow(f) => WorkOwed(f) \/ f \in skipped \/ f \in denied

(* The reconcile under way will still write the row of f if it is old.     *)
Planned(f) ==
    \/ spc = "walk" /\ (f \in toWalk \cup todo \/ f \notin seen)
    \/ spc = "apply" /\ f \in todo \cup gone
    \/ spc = "bulk"

(* A recovery with no failure of its own, and none recorded since it read  *)
(* the generation, has dealt with every file or is going to: this is what  *)
(* allows it to acknowledge the failure that stood when it began.          *)
PlanCovers ==
    Recovers /\ ~incomplete /\ generation = genRead =>
        \A f \in Files : Settled(f) \/ Planned(f)

(* The invariants of the watcher that the server's steps keep.             *)
WorkerInv == TypeOK /\ Idle /\ BlindIsKnown /\ ReadIsCurrent

ServerInv ==
    GateTypeOK /\ HandleIsLive /\ GenerationIsRead /\ WalkIsOnce /\ PlanCovers

GateInv == WorkerInv /\ ServerInv /\ NoSilentStaleRow

(* No old row is hidden: each one is settled, or a failure stands.         *)
LEMMA SilentIsSettled ==
    /\ NoSilentStaleRow <=> \A f \in Files : Settled(f) \/ failure
    /\ NoSilentStaleRow' <=> \A f \in Files : Settled(f)' \/ failure'
  BY DEF NoSilentStaleRow, Settled

-----------------------------------------------------------------------------
(* The steps of the watcher. *)

(* A step of the watcher leaves a settled file settled, or records a       *)
(* failure with a new generation.                                          *)
LEMMA SettledNext ==
    ASSUME WorkerInv, Next, NEW f \in Files, Settled(f)
    PROVE  Settled(f)' \/ (failure' /\ generation' # generation)
<1> USE DEF WorkerInv, BlindIsKnown, Settled, StaleRow, WorkOwed, ReconcileOwed, ReconcileAhead,
            InFlight,
            world, delivery, work, run, health, control
<1>0. ASSUME RecordFailure PROVE failure' /\ generation' # generation
  BY <1>0 DEF RecordFailure, TypeOK
<1>1. ASSUME NEW g \in Files, NEW c \in Contents, Edit(g, c)
      PROVE  Settled(f)'
  BY <1>1, QueuedStays DEF Edit, TypeOK
<1>2. ASSUME NEW g \in Files, NEW c \in Contents, MakeFolder(g, c)
      PROVE  Settled(f)'
  BY <1>2, QueuedStays DEF MakeFolder, TypeOK
<1>3. ASSUME NEW events \in SUBSET changed, DebounceFlush(events)
      PROVE  Settled(f)'
  <2>1. UNCHANGED <<disk, denied, index, blind, pc, shutdown, target, toRead, got, skipped, regFailure>>
    BY <1>3 DEF DebounceFlush
  <2>2. QED
    BY <1>3, <2>1, FlushKeeps
<1>4. ASSUME NEW lost \in SUBSET changed, NativeRescan(lost) \/ NativeError(lost)
      PROVE  Settled(f)'
  BY <1>4 DEF NativeRescan, NativeError
<1>5. CASE Start \/ Shutdown
  BY <1>5 DEF Start, Shutdown
<1>6. CASE StartFail \/ Stop
  BY <1>6 DEF StartFail, Stop, Quit
<1>7. CASE StartSync \/ RetryRegistrations \/ ReconcileSync \/ ReconcileSyncFails \/ DrainScans
  <2>1. toRead' = Files
    BY <1>7 DEF StartSync, RetryRegistrations, ReconcileSync, ReconcileSyncFails, DrainScans,
                BeginRun
  <2>2. QED
    BY <2>1
<1>8. CASE RetryRegistrationsFails
  BY <1>8 DEF RetryRegistrationsFails, RecordRegistrationFailure
<1>9. CASE DiscardBatch \/ OverflowReconcile
  BY <1>9 DEF DiscardBatch, OverflowReconcile
<1>10. CASE Receive
  <2>1. UNCHANGED <<disk, denied, index, blind, overflow, shutdown, target, toRead, got, skipped,
                    regFailure>> /\ pc = "loop"
    BY <1>10 DEF Receive
  <2>2. QED
    BY <1>10, <2>1, ReceiveKeeps DEF Idle
<1>11. CASE Poll
  BY <1>11, QueuedStays DEF Poll, vars
<1>12. CASE Drain
  <2>1. TakeArrived
    BY <1>12 DEF Drain, DrainGivesUp, DrainReconciles, DrainScans, DrainCannotOpen, DrainEnds,
                 DrainRefreshes
  <2>2. UNCHANGED <<disk, denied, index, blind, overflow, shutdown, skipped>> /\ pc = "drain"
    BY <2>1 DEF TakeArrived
  <2>3. target = {} /\ toRead = {}
    BY <2>2 DEF Idle, RunIdle, Extracting, TypeOK
  <2>4. CASE DrainGivesUp \/ DrainReconciles
    BY <2>2, <2>4 DEF DrainGivesUp, DrainReconciles
  <2>5. CASE DrainCannotOpen
    BY <2>5, <1>0 DEF DrainCannotOpen
  <2>6. CASE DrainEnds
    <3>1. Waiting = {} /\ regFailure' = regFailure
      BY <2>6 DEF DrainEnds, IgnoreRules, RecordFailure
    <3>2. QED
      BY <2>1, <2>2, <2>3, <3>1, DrainKeeps
  <2>7. ASSUME NEW g \in Files, DrainRefreshes(g)
        PROVE  Settled(f)'
    <3>1. pending' = Waiting \ {g} /\ toRead' = {g} /\ regFailure' = regFailure
          /\ Folder \notin Waiting /\ ~shutdown
      BY <2>7 DEF DrainRefreshes, BeginRun, IgnoreRules, RecordFailure
    <3>2. CASE f = g
      BY <3>1, <3>2
    <3>3. CASE f # g
      <4>1. InFlight' = changed \cup (Waiting \ {g}) /\ InFlight \subseteq changed \cup Waiting
        BY <2>1, <3>1, DrainKeeps
      <4>2. (f \in InFlight => f \in InFlight') /\ (Folder \in InFlight => Folder \in InFlight')
        BY <3>1, <3>3, <4>1
      <4>3. StaleRow(f)' <=> StaleRow(f)
        BY <2>2
      <4>4. CASE ~StaleRow(f) \/ f \in skipped \cup denied
        BY <2>2, <4>3, <4>4
      <4>5. CASE f \in InFlight \/ Folder \in InFlight
        BY <4>2, <4>5
      <4>6. CASE overflow \/ regFailure
        BY <2>2, <3>1, <4>6
      <4>7. QED
        BY <2>2, <2>3, <3>1, <4>4, <4>5, <4>6
    <3>4. QED
      BY <3>2, <3>3
  <2>8. QED
    BY <1>7, <1>12, <2>4, <2>5, <2>6, <2>7 DEF Drain
<1>13. CASE ReconcileStops
  BY <1>13 DEF ReconcileStops
<1>14. ASSUME NEW g \in Files, ExtractRead(g)
       PROVE  Settled(f)'
  BY <1>14, QueuedStays DEF ExtractRead, TypeOK
<1>15. ASSUME NEW unreadable \in SUBSET Files, ExtractCommit(unreadable)
       PROVE  Settled(f)'
  <2>1. UNCHANGED <<disk, denied, blind, changed, queue, overflow, batch, pending, shutdown,
                    regFailure>>
    BY <1>15 DEF ExtractCommit
  <2>2. Queued' = Queued
    BY <2>1, QueuedStays
  <2>3. toRead = {} /\ Extracting /\ skipped' = (skipped \ target) \cup unreadable
        /\ index' = [g \in Files |-> IF g \in target \ unreadable THEN got[g] ELSE index[g]]
    BY <1>15 DEF ExtractCommit
  <2>4. SUFFICES ASSUME StaleRow(f)', f \notin skipped', f \notin denied
                 PROVE  f \in InFlight \/ Folder \in InFlight \/ overflow \/ regFailure
                        \/ shutdown
    BY <2>1, <2>2
  <2>5. CASE f \in target
    <3>1. got[f] # disk[f]
      BY <2>1, <2>3, <2>4, <2>5
    <3>2. QED
      BY <2>3, <2>4, <2>5, <3>1 DEF ReadIsCurrent, Extracting
  <2>6. CASE f \notin target
    <3>1. StaleRow(f) /\ f \notin skipped
      BY <2>1, <2>3, <2>4, <2>6
    <3>2. QED
      BY <2>3, <2>4, <2>6, <3>1 DEF Extracting, TypeOK
  <2>7. QED
    BY <2>5, <2>6
<1>16. CASE ExtractFail
  BY <1>16, <1>0 DEF ExtractFail
<1>17. ASSUME NEW g \in Files, Deny(g) \/ Allow(g)
       PROVE  Settled(f)'
  BY <1>17, QueuedStays DEF Deny, Allow, Permissions, TypeOK
<1>18. ASSUME NEW g \in Files, ExtractPassesOver(g)
       PROVE  Settled(f)'
  BY <1>18, QueuedStays DEF ExtractPassesOver
<1>19. QED
  BY <1>1, <1>2, <1>3, <1>4, <1>5, <1>6, <1>7, <1>8, <1>9, <1>10, <1>11, <1>12, <1>13, <1>14,
     <1>15, <1>16, <1>17, <1>18
     DEF Next, User, Backend, Worker, Reconcile, Extractor

(* The worker of a handle leaves its loop only when it is shut down.       *)
LEMMA WorkerStays ==
    ASSUME User \/ Backend \/ Worker, pc \in Startup => ~shutdown
    PROVE  /\ WorkerIsUp => WorkerIsUp'
           /\ (pc \in Startup => ~shutdown)'
           /\ ~shutdown => ~shutdown'
<1> USE DEF WorkerIsUp, Startup, world, delivery, work, run, health, control
<1>1. CASE User
  BY <1>1 DEF User, Edit, MakeFolder, Deny, Allow, Permissions
<1>2. CASE Backend
  BY <1>2 DEF Backend, DebounceFlush, NativeRescan, NativeError
<1>3. CASE StartSync \/ StartFail \/ Stop
  BY <1>3 DEF StartSync, StartFail, Stop, Quit
<1>4. CASE RetryRegistrations \/ RetryRegistrationsFails
  BY <1>4 DEF RetryRegistrations, RetryRegistrationsFails
<1>5. CASE DiscardBatch \/ OverflowReconcile \/ Receive \/ Poll
  BY <1>5 DEF DiscardBatch, OverflowReconcile, Receive, Poll, vars
<1>6. CASE Drain
  <2>1. UNCHANGED shutdown /\ pc = "drain" /\ pc' \in {"loop", "recon", "scan", "refresh"}
    BY <1>6 DEF Drain, TakeArrived, DrainGivesUp, DrainReconciles, DrainScans, DrainCannotOpen,
                DrainEnds, DrainRefreshes
  <2>2. QED
    BY <2>1
<1>7. CASE Reconcile
  BY <1>7 DEF Reconcile, ReconcileStops, ReconcileSync, ReconcileSyncFails
<1>8. CASE Extractor
  BY <1>8 DEF Extractor, ExtractRead, ExtractPassesOver, ExtractCommit, ExtractFail, Extracting, AfterRun
<1>9. QED
  BY <1>1, <1>2, <1>3, <1>4, <1>5, <1>6, <1>7, <1>8 DEF Worker

(* Every step of the watcher, its start and its shutdown keep its own      *)
(* invariants and never hide an old row.                                   *)
LEMMA WatcherKeeps ==
    ASSUME WorkerInv, NoSilentStaleRow, Next
    PROVE  WorkerInv' /\ NoSilentStaleRow'
<1>1. WorkerInv'
  BY TypeNext, IdleNext, BlindNext, ReadNext DEF WorkerInv
<1>2. ASSUME NEW f \in Files PROVE Settled(f)' \/ failure'
  <2>1. CASE Settled(f)
    BY <2>1, SettledNext
  <2>2. CASE ~Settled(f)
    <3>1. failure /\ pc # "stopped"
      BY <2>2, SilentIsSettled DEF Settled, WorkOwed, ReconcileOwed, ReconcileAhead
    <3>2. failure'
      BY <3>1, CountedNext DEF WorkerInv, Counted
    <3>3. QED
      BY <3>2
  <2>3. QED
    BY <2>1, <2>2
<1>3. QED
  BY <1>1, <1>2, SilentIsSettled

(* A step of the watcher beside the server keeps the whole invariant.      *)
LEMMA GateWatcherStep ==
    ASSUME GateInv, WatcherStep
    PROVE  GateInv'
<1>1. /\ User \/ Backend \/ Worker
      /\ UNCHANGED <<spc, watching, recovering, genRead, toWalk, seen, todo, gone, incomplete>>
  BY DEF WatcherStep, serverVars, plan
<1>2. Next
  BY <1>1 DEF Next
<1>3. WorkerInv' /\ NoSilentStaleRow'
  BY <1>2, WatcherKeeps DEF GateInv
<1>4. GateTypeOK' /\ WalkIsOnce'
  BY <1>1 DEF GateInv, ServerInv, GateTypeOK, WalkIsOnce
<1>5. HandleIsLive'
  BY <1>1, WorkerStays DEF GateInv, ServerInv, HandleIsLive
<1>6. Recovers' => Recovers /\ pc # "stopped"
  BY <1>1 DEF GateInv, ServerInv, HandleIsLive, Recovers, WorkerIsUp, Startup
<1>7. Recovers' => generation' >= generation
  BY <1>2, <1>6, CountedNext DEF GateInv, WorkerInv, Counted
<1>8. generation \in Nat /\ generation' \in Nat /\ genRead \in Nat
  BY <1>3 DEF GateInv, WorkerInv, ServerInv, GateTypeOK, TypeOK
<1>9. GenerationIsRead'
  BY <1>1, <1>6, <1>7, <1>8 DEF GateInv, ServerInv, GenerationIsRead
<1>10. PlanCovers'
  <2>1. SUFFICES ASSUME Recovers', ~incomplete', generation' = genRead', NEW f \in Files
                 PROVE  Settled(f)' \/ Planned(f)'
    BY DEF PlanCovers
  <2>2. generation = genRead /\ generation' = generation
    BY <1>1, <1>6, <1>7, <1>8, <2>1 DEF GateInv, ServerInv, GenerationIsRead
  <2>3. Settled(f) \/ Planned(f)
    BY <1>1, <1>6, <2>1, <2>2 DEF GateInv, ServerInv, PlanCovers
  <2>4. CASE Settled(f)
    BY <1>2, <2>2, <2>4, SettledNext DEF GateInv
  <2>5. CASE Planned(f)
    BY <1>1, <2>5 DEF Planned
  <2>6. QED
    BY <2>3, <2>4, <2>5
<1>11. QED
  BY <1>3, <1>4, <1>5, <1>9, <1>10 DEF GateInv, ServerInv

-----------------------------------------------------------------------------
(* The steps of the server. *)

(* What the server writes into the index leaves the watcher's own state as *)
(* it was: the same work is owed for every file.                           *)
LEMMA ServerWrites ==
    ASSUME WorkerInv, WatcherOnly, index' \in [Files -> Contents], skipped' \in SUBSET Files,
           faults' = faults \/ Fault
    PROVE  /\ WorkerInv'
           /\ \A f \in Files : WorkOwed(f)' <=> WorkOwed(f)
           /\ UNCHANGED <<disk, denied, pc, shutdown, failure, regFailure, generation>>
<1> USE DEF WorkerInv, world, delivery, work, run, health, control
<1>1. /\ UNCHANGED <<disk, denied, edits, blind, changed, queue, overflow, throttled>>
      /\ UNCHANGED <<shutdown, pc>>
      /\ UNCHANGED <<batch, pending, target, toRead, got, failure, regFailure, generation>>
  BY DEF WatcherOnly
<1>2. InFlight' = InFlight
  BY <1>1, QueuedStays DEF InFlight
<1>3. faults' \in 0..MaxFaults
  <2>1. faults \in 0..MaxFaults
    BY DEF TypeOK
  <2>2. QED
    BY <2>1, BoundsAssumption DEF Fault
<1>4. TypeOK'
  BY <1>1, <1>3 DEF TypeOK
<1>5. Idle'
  BY <1>1 DEF Idle, RunIdle, BatchIdle, Extracting
<1>6. ReconcileOwed' <=> ReconcileOwed
  BY <1>1, <1>2 DEF ReconcileOwed, ReconcileAhead
<1>7. BlindIsKnown' /\ ReadIsCurrent'
  BY <1>1, <1>2, <1>6 DEF BlindIsKnown, ReadIsCurrent
<1>8. \A f \in Files : WorkOwed(f)' <=> WorkOwed(f)
  BY <1>1, <1>2, <1>6 DEF WorkOwed
<1>9. QED
  BY <1>1, <1>4, <1>5, <1>7, <1>8

(* A step that leaves the watcher and the index alone.                     *)
LEMMA ServerLeaves ==
    ASSUME WorkerInv, UNCHANGED vars
    PROVE  /\ WorkerInv'
           /\ \A f \in Files : Settled(f)' <=> Settled(f)
           /\ UNCHANGED <<disk, denied, index, pc, shutdown, failure, regFailure, generation>>
<1>1. WatcherOnly /\ UNCHANGED <<disk, denied, index, skipped, faults>>
  BY DEF vars, WatcherOnly, world, delivery, work, run, health, control
<1>2. index \in [Files -> Contents] /\ skipped \in SUBSET Files
  BY DEF WorkerInv, TypeOK
<1>3. WorkerInv' /\ (\A f \in Files : WorkOwed(f)' <=> WorkOwed(f))
      /\ UNCHANGED <<disk, denied, pc, shutdown, failure, regFailure, generation>>
  BY <1>1, <1>2, ServerWrites
<1>4. QED
  BY <1>1, <1>3 DEF Settled, StaleRow

(* A row written from the present content of its file, or removed, is      *)
(* settled, and no other row is touched.                                   *)
LEMMA WrittenIsSettled ==
    ASSUME WorkerInv, NEW f \in Files, NEW c \in {disk[f], Absent},
           WriteRow(f, c), WatcherOnly, UNCHANGED faults
    PROVE  /\ WorkerInv'
           /\ Settled(f)'
           /\ \A g \in Files : Settled(g) => Settled(g)'
           /\ UNCHANGED <<disk, denied, pc, shutdown, failure, regFailure, generation>>
<1>1. /\ index' = [index EXCEPT ![f] = c] /\ skipped' = skipped \ {f}
      /\ index \in [Files -> Contents] /\ skipped \subseteq Files /\ c \in Contents
  BY ContentsAssumption DEF WriteRow, WorkerInv, TypeOK
<1>2. index' \in [Files -> Contents] /\ skipped' \in SUBSET Files
  BY <1>1
<1>3. /\ WorkerInv'
      /\ \A g \in Files : WorkOwed(g)' <=> WorkOwed(g)
      /\ UNCHANGED <<disk, denied, pc, shutdown, failure, regFailure, generation>>
  BY <1>2, ServerWrites
<1>4. Settled(f)'
  BY <1>1, <1>3 DEF Settled, StaleRow
<1>5. ASSUME NEW g \in Files, Settled(g), g # f PROVE Settled(g)'
  BY <1>1, <1>3, <1>5 DEF Settled, StaleRow
<1>6. QED
  BY <1>3, <1>4, <1>5

(* A step that fails writes nothing.                                       *)
LEMMA FaultWritesNothing ==
    ASSUME WorkerInv, Fault, WatcherOnly, UNCHANGED <<index, skipped>>
    PROVE  /\ WorkerInv'
           /\ \A g \in Files : Settled(g) => Settled(g)'
           /\ UNCHANGED <<disk, denied, pc, shutdown, failure, regFailure, generation>>
<1>1. index' \in [Files -> Contents] /\ skipped' \in SUBSET Files
  BY DEF WorkerInv, TypeOK
<1>2. /\ WorkerInv'
      /\ \A g \in Files : WorkOwed(g)' <=> WorkOwed(g)
      /\ UNCHANGED <<disk, denied, pc, shutdown, failure, regFailure, generation>>
  BY <1>1, ServerWrites
<1>3. QED
  BY <1>2 DEF Settled, StaleRow

(* While the failures stay as they are, no settled row becomes hidden.     *)
LEMMA SettledStaysLoud ==
    ASSUME NoSilentStaleRow, \A g \in Files : Settled(g) => Settled(g)', failure' = failure
    PROVE  NoSilentStaleRow'
  BY SilentIsSettled

(* With no reconcile under way nothing is planned.                         *)
LEMMA OutsideReconcile ==
    ASSUME GateTypeOK', HandleIsLive', spc' \notin Reconciling
    PROVE  ServerInv'
  BY DEF ServerInv, GenerationIsRead, WalkIsOnce, PlanCovers, Recovers, Reconciling

(* The prepare and the handle: the worker's failure state is replaced only *)
(* while no call looks at it.                                              *)
LEMMA HandleSteps ==
    ASSUME GateInv, Prepare \/ PrepareReconciles \/ PrepareFails \/ LeaveRoot
    PROVE  GateInv'
<1> USE DEF GateInv, GateTypeOK, HandleIsLive, WorkerIsUp, Startup, Reconciling, ServerPlaces
<1>1. GateTypeOK /\ HandleIsLive
  BY DEF ServerInv
<1>2. CASE Prepare
  <2>1. Start /\ spc = "idle" /\ spc' = "starting"
        /\ UNCHANGED <<watching, recovering, genRead, toWalk, seen, todo, gone, incomplete>>
        /\ ~watching
    BY <1>2 DEF Prepare, plan
  <2>2. pc = "stopped" /\ pc' = "startSync" /\ shutdown' = shutdown
    BY <2>1 DEF Start, control
  <2>3. WorkerInv' /\ NoSilentStaleRow'
    BY <2>1, WatcherKeeps DEF Next
  <2>4. GateTypeOK' /\ HandleIsLive' /\ spc' \notin Reconciling
    BY <1>1, <2>1, <2>2
  <2>5. QED
    BY <2>3, <2>4, OutsideReconcile
<1>3. CASE PrepareFails
  <2>1. spc' = "idle" /\ UNCHANGED vars
        /\ UNCHANGED <<watching, recovering, genRead, toWalk, seen, todo, gone, incomplete>>
    BY <1>3 DEF PrepareFails, plan
  <2>2. WorkerInv' /\ NoSilentStaleRow' /\ UNCHANGED <<pc, shutdown>>
    BY <2>1, ServerLeaves, SettledStaysLoud
  <2>3. GateTypeOK' /\ HandleIsLive' /\ spc' \notin Reconciling
    BY <1>1, <2>1, <2>2
  <2>4. QED
    BY <2>2, <2>3, OutsideReconcile
<1>4. CASE LeaveRoot
  <2>1. Shutdown /\ spc = "idle" /\ watching' = FALSE
        /\ UNCHANGED <<spc, recovering, genRead, toWalk, seen, todo, gone, incomplete>>
    BY <1>4 DEF LeaveRoot, plan
  <2>2. pc \notin Startup /\ pc' = pc
    BY <2>1 DEF Shutdown
  <2>3. WorkerInv' /\ NoSilentStaleRow'
    BY <2>1, WatcherKeeps DEF Next
  <2>4. GateTypeOK' /\ HandleIsLive' /\ spc' \notin Reconciling
    BY <1>1, <2>1, <2>2
  <2>5. QED
    BY <2>3, <2>4, OutsideReconcile
<1>5. CASE PrepareReconciles
  <2>1. /\ spc = "starting" /\ spc' = "walk" /\ recovering' = FALSE
        /\ toWalk' = Files /\ seen' = {} /\ todo' = {} /\ gone' = {} /\ incomplete' = FALSE
        /\ UNCHANGED vars /\ UNCHANGED <<watching, genRead>> /\ pc \notin Startup
    BY <1>5 DEF PrepareReconciles, BeginReconcile
  <2>2. WorkerInv' /\ NoSilentStaleRow' /\ UNCHANGED <<pc, shutdown>>
    BY <2>1, ServerLeaves, SettledStaysLoud
  <2>3. GateTypeOK' /\ HandleIsLive'
    BY <1>1, <2>1, <2>2
  <2>4. GenerationIsRead' /\ WalkIsOnce' /\ PlanCovers'
    BY <2>1 DEF GenerationIsRead, WalkIsOnce, PlanCovers, Recovers
  <2>5. QED
    BY <2>2, <2>3, <2>4 DEF ServerInv
<1>6. QED
  BY <1>2, <1>3, <1>4, <1>5

(* A call that finds a failure starts to recover: it plans every file.     *)
LEMMA RecoveryBegins ==
    ASSUME GateInv, CallRecovers
    PROVE  GateInv'
<1> USE DEF GateInv, GateTypeOK, HandleIsLive, WorkerIsUp, Startup, Reconciling, ServerPlaces
<1>1. /\ spc = "idle" /\ watching /\ spc' = "walk" /\ recovering' = TRUE /\ genRead' = generation
      /\ toWalk' = Files /\ seen' = {} /\ todo' = {} /\ gone' = {} /\ incomplete' = FALSE
      /\ UNCHANGED vars /\ UNCHANGED watching
  BY DEF CallRecovers, BeginReconcile
<1>2. WorkerInv' /\ NoSilentStaleRow' /\ UNCHANGED <<pc, shutdown, generation>>
  BY <1>1, ServerLeaves, SettledStaysLoud
<1>3. generation \in Nat
  BY DEF WorkerInv, TypeOK
<1>4. GateTypeOK' /\ HandleIsLive'
  BY <1>1, <1>2, <1>3 DEF ServerInv
<1>5. GenerationIsRead' /\ WalkIsOnce'
  BY <1>1, <1>2, <1>3 DEF GenerationIsRead, WalkIsOnce
<1>6. PlanCovers'
  BY <1>1 DEF PlanCovers, Planned
<1>7. QED
  BY <1>2, <1>4, <1>5, <1>6 DEF ServerInv

(* A call that answers or drops the row of a missing file plans nothing.   *)
LEMMA AnswerSteps ==
    ASSUME GateInv,
           \/ CallHealthy \/ Answer \/ RecoveryError
           \/ \E f \in Files :
                EnsureFreshFile(f) \/ EnsureFreshFindsMissing(f) \/ EnsureFreshDeletes(f)
    PROVE  GateInv'
<1> USE DEF GateInv, GateTypeOK, HandleIsLive, WorkerIsUp, Startup, Reconciling, ServerPlaces
<1>1. GateTypeOK /\ HandleIsLive
  BY DEF ServerInv
<1>2. ASSUME UNCHANGED <<pc, shutdown, watching, recovering, genRead, toWalk, seen, todo, incomplete>>,
             spc' \in {"idle", "answer", "drop"}, gone' \subseteq Files,
             spc = "starting" \/ spc \in Reconciling \cup {"idle", "answer", "drop"}
      PROVE  ServerInv'
  <2>1. GateTypeOK' /\ HandleIsLive' /\ spc' \notin Reconciling
    BY <1>1, <1>2
  <2>2. QED
    BY <2>1, OutsideReconcile
<1>3. CASE CallHealthy \/ Answer \/ RecoveryError
  <2>1. /\ spc \in {"idle", "answer", "apply"} /\ spc' \in {"idle", "answer"} /\ UNCHANGED vars
        /\ UNCHANGED <<watching, recovering, genRead, toWalk, seen, todo, gone, incomplete>>
    BY <1>3 DEF CallHealthy, Answer, RecoveryError, ReconcileDone, plan
  <2>2. WorkerInv' /\ NoSilentStaleRow' /\ UNCHANGED <<pc, shutdown>>
    BY <2>1, ServerLeaves, SettledStaysLoud
  <2>3. QED
    BY <1>1, <1>2, <2>1, <2>2
<1>4. ASSUME NEW f \in Files, EnsureFreshFindsMissing(f)
      PROVE  GateInv'
  <2>1. /\ spc = "answer" /\ spc' = "drop" /\ gone' = {f} /\ UNCHANGED vars
        /\ UNCHANGED <<watching, recovering, genRead, toWalk, seen, todo, incomplete>>
    BY <1>4 DEF EnsureFreshFindsMissing
  <2>2. WorkerInv' /\ NoSilentStaleRow' /\ UNCHANGED <<pc, shutdown>>
    BY <2>1, ServerLeaves, SettledStaysLoud
  <2>3. QED
    BY <1>1, <1>2, <2>1, <2>2
<1>5. ASSUME NEW f \in Files, EnsureFreshFile(f) \/ EnsureFreshDeletes(f)
      PROVE  GateInv'
  <2>1. /\ spc \in {"answer", "drop"} /\ spc' = "idle" /\ gone' \subseteq Files
        /\ WatcherOnly /\ UNCHANGED faults
        /\ UNCHANGED <<watching, recovering, genRead, toWalk, seen, todo, incomplete>>
    BY <1>1, <1>5 DEF EnsureFreshFile, EnsureFreshDeletes, plan
  <2>2. PICK c \in {disk[f], Absent} : WriteRow(f, c)
    BY <1>5 DEF EnsureFreshFile, EnsureFreshDeletes
  <2>3. WorkerInv' /\ (\A g \in Files : Settled(g) => Settled(g)')
        /\ UNCHANGED <<pc, shutdown, failure>>
    BY <2>1, <2>2, WrittenIsSettled
  <2>4. NoSilentStaleRow'
    BY <2>3, SettledStaysLoud
  <2>5. QED
    BY <1>1, <1>2, <2>1, <2>3, <2>4
<1>6. QED
  BY <1>3, <1>4, <1>5

-----------------------------------------------------------------------------
(* The reconcile.  Each step hands a file on: from what is to be walked to *)
(* what was found, from there to a row that is written.                    *)

(* A step of a reconcile stays within it, or within what it was before.    *)
LEMMA ReconcileStays ==
    ASSUME ServerInv, WorkerInv, spc \in Reconciling, spc' \in Reconciling,
           UNCHANGED <<pc, shutdown, generation, watching, recovering, genRead>>,
           toWalk' \subseteq Files, seen' \subseteq Files, todo' \subseteq Files,
           gone' \subseteq Files, incomplete' \in BOOLEAN,
           WalkIsOnce'
    PROVE  /\ GateTypeOK' /\ HandleIsLive' /\ GenerationIsRead'
           /\ PlanCovers' => ServerInv'
           /\ (Recovers' /\ generation' = genRead') => (Recovers /\ generation = genRead)
<1>1. GateTypeOK'
  BY DEF ServerInv, GateTypeOK, Reconciling, ServerPlaces
<1>2. HandleIsLive'
  BY DEF ServerInv, HandleIsLive, Reconciling, WorkerIsUp
<1>3. GenerationIsRead' /\ (Recovers' => Recovers)
  BY DEF ServerInv, GenerationIsRead, Recovers
<1>4. QED
  BY <1>1, <1>2, <1>3 DEF ServerInv

(* The walk and the list of the rows.                                      *)
LEMMA WalkSteps ==
    ASSUME GateInv,
           ListRows \/ \E f \in Files : Walk(f) \/ WalkPassesOver(f) \/ WalkCannotRead(f)
    PROVE  GateInv'
<1> USE DEF GateInv
<1>1. GateTypeOK /\ (spc = "walk" => toWalk \cap seen = {})
  BY DEF ServerInv, WalkIsOnce
<1>2. ASSUME NEW f \in Files, Walk(f)
      PROVE  GateInv'
  <2>1. /\ spc = "walk" /\ spc' = "walk" /\ f \in toWalk /\ toWalk' = toWalk \ {f}
        /\ UNCHANGED vars /\ UNCHANGED <<watching, recovering, genRead, gone, incomplete>>
    BY <1>2 DEF Walk
  <2>2. \/ disk[f] = Absent /\ seen' = seen /\ todo' = todo
        \/ disk[f] # Absent /\ index[f] = disk[f] /\ seen' = seen \cup {f} /\ todo' = todo
        \/ disk[f] # Absent /\ seen' = seen \cup {f} /\ todo' = todo \cup {f}
    BY <1>2 DEF Walk
  <2>3. /\ WorkerInv' /\ NoSilentStaleRow'
        /\ \A g \in Files : Settled(g)' <=> Settled(g)
        /\ UNCHANGED <<pc, shutdown, generation>>
    BY <2>1, ServerLeaves, SettledStaysLoud
  <2>4. WalkIsOnce' /\ toWalk' \subseteq Files /\ seen' \subseteq Files /\ todo' \subseteq Files
        /\ gone' \subseteq Files /\ incomplete' \in BOOLEAN
    BY <1>1, <2>1, <2>2 DEF WalkIsOnce, GateTypeOK
  <2>5. ASSUME NEW g \in Files, Settled(g) \/ Planned(g)
        PROVE  Settled(g)' \/ Planned(g)'
    <3>1. CASE g # f
      BY <2>1, <2>2, <2>3, <2>5, <3>1 DEF Planned
    <3>2. CASE g = f
      <4>1. f \notin seen
        BY <1>1, <2>1
      <4>2. CASE index[f] = disk[f]
        BY <2>3, <3>2, <4>2 DEF Settled, StaleRow
      <4>3. CASE index[f] # disk[f]
        BY <2>1, <2>2, <3>2, <4>1, <4>3 DEF Planned
      <4>4. QED
        BY <4>2, <4>3
    <3>3. QED
      BY <3>1, <3>2
  <2>6. PlanCovers'
    BY <2>1, <2>3, <2>4, <2>5, ReconcileStays DEF PlanCovers, ServerInv, Reconciling
  <2>7. QED
    BY <2>1, <2>3, <2>4, <2>6, ReconcileStays DEF Reconciling
<1>3. ASSUME NEW f \in Files, WalkPassesOver(f)
      PROVE  GateInv'
  <2>1. /\ spc = "walk" /\ spc' = "walk" /\ f \in toWalk /\ toWalk' = toWalk \ {f}
        /\ seen' = seen \cup {f} /\ f \in denied /\ UNCHANGED vars
        /\ UNCHANGED <<watching, recovering, genRead, todo, gone, incomplete>>
    BY <1>3 DEF WalkPassesOver
  <2>2. /\ WorkerInv' /\ NoSilentStaleRow'
        /\ \A g \in Files : Settled(g)' <=> Settled(g)
        /\ UNCHANGED <<pc, shutdown, generation>>
    BY <2>1, ServerLeaves, SettledStaysLoud
  <2>3. WalkIsOnce' /\ toWalk' \subseteq Files /\ seen' \subseteq Files /\ todo' \subseteq Files
        /\ gone' \subseteq Files /\ incomplete' \in BOOLEAN
    BY <1>1, <2>1 DEF WalkIsOnce, GateTypeOK
  <2>4. ASSUME NEW g \in Files, Settled(g) \/ Planned(g)
        PROVE  Settled(g)' \/ Planned(g)'
    <3>1. CASE g # f
      BY <2>1, <2>2, <2>4, <3>1 DEF Planned
    <3>2. CASE g = f
      BY <2>1, <2>2, <3>2 DEF Settled
    <3>3. QED
      BY <3>1, <3>2
  <2>5. PlanCovers'
    BY <2>1, <2>2, <2>3, <2>4, ReconcileStays DEF PlanCovers, ServerInv, Reconciling
  <2>6. QED
    BY <2>1, <2>2, <2>3, <2>5, ReconcileStays DEF Reconciling
<1>4. ASSUME NEW f \in Files, WalkCannotRead(f)
      PROVE  GateInv'
  <2>1. /\ spc = "walk" /\ spc' = "walk" /\ f \in toWalk /\ toWalk' = toWalk \ {f}
        /\ seen' = seen \cup {f} /\ incomplete' = TRUE
        /\ Fault /\ WatcherOnly /\ UNCHANGED <<index, skipped>>
        /\ UNCHANGED <<watching, recovering, genRead, todo, gone>>
    BY <1>4 DEF WalkCannotRead
  <2>2. WorkerInv' /\ NoSilentStaleRow' /\ UNCHANGED <<pc, shutdown, generation>>
    BY <2>1, FaultWritesNothing, SettledStaysLoud
  <2>3. WalkIsOnce' /\ PlanCovers' /\ toWalk' \subseteq Files /\ seen' \subseteq Files
        /\ todo' \subseteq Files /\ gone' \subseteq Files /\ incomplete' \in BOOLEAN
    BY <1>1, <2>1 DEF WalkIsOnce, GateTypeOK, PlanCovers
  <2>4. QED
    BY <2>1, <2>2, <2>3, ReconcileStays DEF Reconciling
<1>5. CASE ListRows
  <2>1. /\ spc = "walk" /\ spc' \in {"apply", "bulk"} /\ toWalk = {}
        /\ gone' = {f \in Files : index[f] # Absent /\ f \notin seen}
        /\ UNCHANGED vars
        /\ UNCHANGED <<watching, recovering, genRead, toWalk, seen, todo, incomplete>>
    BY <1>5 DEF ListRows
  <2>2. /\ WorkerInv' /\ NoSilentStaleRow'
        /\ \A g \in Files : Settled(g)' <=> Settled(g)
        /\ UNCHANGED <<pc, shutdown, generation>>
    BY <2>1, ServerLeaves, SettledStaysLoud
  <2>3. WalkIsOnce' /\ toWalk' \subseteq Files /\ seen' \subseteq Files /\ todo' \subseteq Files
        /\ gone' \subseteq Files /\ incomplete' \in BOOLEAN
    BY <1>1, <2>1 DEF WalkIsOnce, GateTypeOK
  <2>4. ASSUME NEW g \in Files, Settled(g) \/ Planned(g)
        PROVE  Settled(g)' \/ Planned(g)'
    <3>1. CASE index[g] = Absent
      BY <2>2, <3>1 DEF Settled, StaleRow
    <3>2. CASE index[g] # Absent
      BY <2>1, <2>2, <2>4, <3>2 DEF Planned
    <3>3. QED
      BY <3>1, <3>2
  <2>5. PlanCovers'
    BY <2>1, <2>2, <2>3, <2>4, ReconcileStays DEF PlanCovers, ServerInv, Reconciling
  <2>6. QED
    BY <2>1, <2>2, <2>3, <2>5, ReconcileStays DEF Reconciling
<1>6. QED
  BY <1>2, <1>3, <1>4, <1>5

(* The rows of changed and missing files, one run of the extractor each.   *)
LEMMA ApplySteps ==
    ASSUME GateInv, \E f \in Files : UpdateChanged(f) \/ DeleteGone(f) \/ ApplyFails(f)
    PROVE  GateInv'
<1> USE DEF GateInv
<1>1. GateTypeOK
  BY DEF ServerInv
<1>2. ASSUME NEW f \in Files, UpdateChanged(f) \/ DeleteGone(f)
      PROVE  GateInv'
  <2>1. /\ spc = "apply" /\ spc' = "apply"
        /\ todo \cup gone \subseteq todo' \cup gone' \cup {f}
        /\ todo' \subseteq todo /\ gone' \subseteq gone
        /\ WatcherOnly /\ UNCHANGED faults
        /\ UNCHANGED <<watching, recovering, genRead, toWalk, seen, incomplete>>
    BY <1>2 DEF UpdateChanged, DeleteGone
  <2>2. PICK c \in {disk[f], Absent} : WriteRow(f, c)
    BY <1>2 DEF UpdateChanged, DeleteGone
  <2>3. /\ WorkerInv' /\ NoSilentStaleRow' /\ Settled(f)'
        /\ \A g \in Files : Settled(g) => Settled(g)'
        /\ UNCHANGED <<pc, shutdown, generation>>
    BY <2>1, <2>2, WrittenIsSettled, SettledStaysLoud
  <2>4. WalkIsOnce' /\ toWalk' \subseteq Files /\ seen' \subseteq Files /\ todo' \subseteq Files
        /\ gone' \subseteq Files /\ incomplete' \in BOOLEAN
    BY <1>1, <2>1 DEF WalkIsOnce, GateTypeOK
  <2>5. ASSUME NEW g \in Files, Settled(g) \/ Planned(g)
        PROVE  Settled(g)' \/ Planned(g)'
    BY <2>1, <2>3, <2>5 DEF Planned
  <2>6. PlanCovers'
    BY <2>1, <2>3, <2>4, <2>5, ReconcileStays DEF PlanCovers, ServerInv, Reconciling
  <2>7. QED
    BY <2>1, <2>3, <2>4, <2>6, ReconcileStays DEF Reconciling
<1>3. ASSUME NEW f \in Files, ApplyFails(f)
      PROVE  GateInv'
  <2>1. /\ spc = "apply" /\ spc' = "apply" /\ incomplete' = TRUE
        /\ todo' \subseteq todo /\ gone' \subseteq gone
        /\ Fault /\ WatcherOnly /\ UNCHANGED <<index, skipped>>
        /\ UNCHANGED <<watching, recovering, genRead, toWalk, seen>>
    BY <1>3 DEF ApplyFails
  <2>2. WorkerInv' /\ NoSilentStaleRow' /\ UNCHANGED <<pc, shutdown, generation>>
    BY <2>1, FaultWritesNothing, SettledStaysLoud
  <2>3. WalkIsOnce' /\ PlanCovers' /\ toWalk' \subseteq Files /\ seen' \subseteq Files
        /\ todo' \subseteq Files /\ gone' \subseteq Files /\ incomplete' \in BOOLEAN
    BY <1>1, <2>1 DEF WalkIsOnce, GateTypeOK, PlanCovers
  <2>4. QED
    BY <2>1, <2>2, <2>3, ReconcileStays DEF Reconciling
<1>4. QED
  BY <1>2, <1>3

(* One scan in the place of many runs settles every file it could read,    *)
(* and reports the others.                                                 *)
LEMMA BulkSteps ==
    ASSUME GateInv, BulkScanFails \/ \E unreadable \in SUBSET Files : BulkScan(unreadable)
    PROVE  GateInv'
<1> USE DEF GateInv
<1>1. GateTypeOK
  BY DEF ServerInv
<1>2. ASSUME NEW unreadable \in SUBSET Files, BulkScan(unreadable)
      PROVE  GateInv'
  <2>1. /\ spc = "bulk" /\ spc' = "apply" /\ todo' = {} /\ gone' = {}
        /\ index' \in [Files -> Contents]
        /\ \A f \in Files : index'[f] \in Scanned(f, unreadable)
        /\ skipped' = unreadable /\ WatcherOnly /\ (faults' = faults \/ Fault)
        /\ UNCHANGED <<watching, recovering, genRead, toWalk, seen, incomplete>>
    BY <1>2 DEF BulkScan
  <2>2. index' \in [Files -> Contents] /\ skipped' \in SUBSET Files
    BY <2>1 DEF WorkerInv, TypeOK
  <2>3. WorkerInv' /\ UNCHANGED <<disk, denied, pc, shutdown, generation>>
    BY <2>1, <2>2, ServerWrites
  <2>4. \A f \in Files : Settled(f)'
    BY <2>1, <2>3 DEF Scanned, Settled, StaleRow
  <2>5. NoSilentStaleRow' /\ PlanCovers'
    BY <2>4, SilentIsSettled DEF PlanCovers
  <2>6. WalkIsOnce' /\ toWalk' \subseteq Files /\ seen' \subseteq Files /\ todo' \subseteq Files
        /\ gone' \subseteq Files /\ incomplete' \in BOOLEAN
    BY <1>1, <2>1 DEF WalkIsOnce, GateTypeOK
  <2>7. QED
    BY <2>1, <2>3, <2>5, <2>6, ReconcileStays DEF Reconciling
<1>3. CASE BulkScanFails
  <2>1. /\ spc = "bulk" /\ spc' = "apply" /\ incomplete' = TRUE /\ todo' = {} /\ gone' = {}
        /\ Fault /\ WatcherOnly /\ UNCHANGED <<index, skipped>>
        /\ UNCHANGED <<watching, recovering, genRead, toWalk, seen>>
    BY <1>3 DEF BulkScanFails
  <2>2. WorkerInv' /\ NoSilentStaleRow' /\ UNCHANGED <<pc, shutdown, generation>>
    BY <2>1, FaultWritesNothing, SettledStaysLoud
  <2>3. WalkIsOnce' /\ PlanCovers' /\ toWalk' \subseteq Files /\ seen' \subseteq Files
        /\ todo' \subseteq Files /\ gone' \subseteq Files /\ incomplete' \in BOOLEAN
    BY <1>1, <2>1 DEF WalkIsOnce, GateTypeOK, PlanCovers
  <2>4. QED
    BY <2>1, <2>2, <2>3, ReconcileStays DEF Reconciling
<1>4. QED
  BY <1>2, <1>3

-----------------------------------------------------------------------------
(* What follows a reconcile. *)

(* The failure that is acknowledged hid no row: every row is settled.      *)
LEMMA AcknowledgedIsSettled ==
    ASSUME GateInv, Acknowledge
    PROVE  \A f \in Files : Settled(f) /\ Settled(f)'
<1>1. /\ Recovers /\ ~incomplete /\ generation = genRead
      /\ spc = "apply" /\ todo = {} /\ gone = {}
  BY DEF Acknowledge, ReconcileDone, Recovers, Reconciling
<1>2. \A f \in Files : Settled(f)
  BY <1>1 DEF GateInv, ServerInv, PlanCovers, Planned
<1>3. /\ UNCHANGED <<disk, denied, index, blind, changed, queue, overflow, shutdown, pc, batch>>
      /\ UNCHANGED <<pending, target, toRead, got, skipped, regFailure>>
  BY DEF Acknowledge, world, delivery, control, work, run
<1>4. InFlight' = InFlight
  BY <1>3, QueuedStays DEF InFlight
<1>5. \A f \in Files : Settled(f)' <=> Settled(f)
  BY <1>3, <1>4 DEF Settled, StaleRow, WorkOwed, ReconcileOwed, ReconcileAhead
<1>6. QED
  BY <1>2, <1>5

(* The end of a reconcile: the prepare hands its watcher over or gives it  *)
(* up, a recovery acknowledges the failure.                                *)
LEMMA EndSteps ==
    ASSUME GateInv, HandOver \/ PrepareIncomplete \/ Acknowledge
    PROVE  GateInv'
<1> USE DEF GateInv, GateTypeOK, HandleIsLive, WorkerIsUp, Startup, Reconciling, ServerPlaces
<1>1. GateTypeOK /\ HandleIsLive
  BY DEF ServerInv
<1>2. ASSUME UNCHANGED <<disk, denied, edits, index, blind, changed, queue, overflow, throttled, pc>>,
             UNCHANGED <<batch, pending, target, toRead, got, skipped, regFailure>>,
             UNCHANGED <<generation, faults>>, failure' \in BOOLEAN, shutdown' \in BOOLEAN,
             shutdown => shutdown'
      PROVE  WorkerInv'
  <2>1. InFlight' = InFlight
    BY <1>2, QueuedStays DEF InFlight
  <2>2. TypeOK'
    BY <1>2 DEF WorkerInv, TypeOK
  <2>3. Idle' /\ ReadIsCurrent'
    BY <1>2, <2>1 DEF WorkerInv, Idle, RunIdle, BatchIdle, Extracting, ReadIsCurrent,
                      ReconcileOwed, ReconcileAhead
  <2>4. BlindIsKnown'
    BY <1>2, <2>1 DEF WorkerInv, BlindIsKnown, ReconcileOwed, ReconcileAhead
  <2>5. QED
    BY <2>2, <2>3, <2>4 DEF WorkerInv
<1>3. CASE HandOver
  <2>1. /\ spc = "apply" /\ ~recovering /\ spc' = "idle" /\ watching' = TRUE /\ UNCHANGED vars
        /\ UNCHANGED <<recovering, genRead, toWalk, seen, todo, gone, incomplete>>
    BY <1>3 DEF HandOver, ReconcileDone, plan
  <2>2. WorkerInv' /\ NoSilentStaleRow' /\ UNCHANGED <<pc, shutdown>>
    BY <2>1, ServerLeaves, SettledStaysLoud
  <2>3. GateTypeOK' /\ HandleIsLive' /\ spc' \notin Reconciling
    BY <1>1, <2>1, <2>2
  <2>4. QED
    BY <2>2, <2>3, OutsideReconcile
<1>4. CASE PrepareIncomplete
  <2>1. /\ spc = "apply" /\ ~recovering /\ spc' = "idle" /\ shutdown' = TRUE
        /\ UNCHANGED <<watching, recovering, genRead, toWalk, seen, todo, gone, incomplete>>
    BY <1>4 DEF PrepareIncomplete, ReconcileDone, plan
  <2>2. /\ UNCHANGED <<disk, denied, edits, index, blind, changed, queue, overflow, throttled, pc>>
        /\ UNCHANGED <<batch, pending, target, toRead, got, skipped, failure, regFailure>>
        /\ UNCHANGED <<generation, faults>>
    BY <1>4 DEF PrepareIncomplete, world, delivery, work, run, health
  <2>3. WorkerInv'
    BY <1>2, <2>1, <2>2 DEF WorkerInv, TypeOK
  <2>4. NoSilentStaleRow'
    BY <2>1 DEF NoSilentStaleRow, WorkOwed, ReconcileOwed, ReconcileAhead
  <2>5. GateTypeOK' /\ HandleIsLive' /\ spc' \notin Reconciling
    BY <1>1, <2>1, <2>2
  <2>6. QED
    BY <2>3, <2>4, <2>5, OutsideReconcile
<1>5. CASE Acknowledge
  <2>1. /\ spc = "apply" /\ recovering /\ spc' = "answer" /\ failure' = FALSE
        /\ UNCHANGED <<watching, recovering, genRead, toWalk, seen, todo, gone, incomplete>>
    BY <1>5 DEF Acknowledge, ReconcileDone, plan
  <2>2. /\ UNCHANGED <<disk, denied, edits, index, blind, changed, queue, overflow, throttled, pc>>
        /\ UNCHANGED <<batch, pending, target, toRead, got, skipped, regFailure>>
        /\ UNCHANGED <<generation, faults, shutdown>>
    BY <1>5 DEF Acknowledge, world, delivery, work, run, control
  <2>3. WorkerInv'
    BY <1>2, <2>1, <2>2 DEF WorkerInv, TypeOK
  <2>4. NoSilentStaleRow'
    BY <1>5, AcknowledgedIsSettled, SilentIsSettled
  <2>5. GateTypeOK' /\ HandleIsLive' /\ spc' \notin Reconciling
    BY <1>1, <2>1, <2>2
  <2>6. QED
    BY <2>3, <2>4, <2>5, OutsideReconcile
<1>6. QED
  BY <1>3, <1>4, <1>5

-----------------------------------------------------------------------------
(* The theorems. *)

(* The initial states satisfy the inductive invariant.                     *)
LEMMA GateInvInit == GateInit => GateInv
<1> SUFFICES ASSUME GateInit PROVE GateInv
  OBVIOUS
<1>1. Init /\ spc = "idle" /\ watching = FALSE /\ recovering = FALSE /\ genRead = 0
      /\ toWalk = {} /\ seen = {} /\ todo = {} /\ gone = {} /\ incomplete = FALSE
  BY DEF GateInit
<1>2. WorkerInv
  BY <1>1, InvInit DEF WorkerInv, WatcherInv, Idle
<1>3. pc = "stopped" /\ shutdown = FALSE
  BY <1>1 DEF Init
<1>4. NoSilentStaleRow
  BY <1>3 DEF NoSilentStaleRow, WorkOwed, ReconcileOwed, ReconcileAhead
<1>5. ServerInv
  BY <1>1, <1>3 DEF ServerInv, GateTypeOK, HandleIsLive, GenerationIsRead, WalkIsOnce,
                    PlanCovers, Recovers, Reconciling, ServerPlaces
<1>6. QED
  BY <1>2, <1>4, <1>5 DEF GateInv

(* Every step keeps the inductive invariant.                               *)
LEMMA GateInvNext == GateInv /\ [GateNext]_gateVars => GateInv'
<1>1. ASSUME GateInv, ReconcileStep PROVE GateInv'
  BY <1>1, WalkSteps, ApplySteps, BulkSteps DEF ReconcileStep
<1>2. ASSUME GateInv, Server PROVE GateInv'
  BY <1>1, <1>2, HandleSteps, RecoveryBegins, AnswerSteps, EndSteps DEF Server
<1>3. ASSUME GateInv, GateNext PROVE GateInv'
  BY <1>2, <1>3, GateWatcherStep, HandleSteps DEF GateNext
<1>4. ASSUME GateInv, UNCHANGED gateVars PROVE GateInv'
  <2>1. /\ UNCHANGED vars
        /\ UNCHANGED <<spc, watching, recovering, genRead, toWalk, seen, todo, gone, incomplete>>
    BY <1>4 DEF gateVars, serverVars, plan
  <2>2. /\ WorkerInv' /\ NoSilentStaleRow'
        /\ \A f \in Files : Settled(f)' <=> Settled(f)
        /\ UNCHANGED <<pc, shutdown, generation>>
    BY <1>4, <2>1, ServerLeaves, SettledStaysLoud DEF GateInv
  <2>3. GateTypeOK' /\ HandleIsLive' /\ GenerationIsRead' /\ WalkIsOnce'
    BY <1>4, <2>1, <2>2 DEF GateInv, ServerInv, GateTypeOK, HandleIsLive, WorkerIsUp,
                            GenerationIsRead, WalkIsOnce, Recovers
  <2>4. PlanCovers'
    BY <1>4, <2>1, <2>2 DEF GateInv, ServerInv, PlanCovers, Planned, Recovers
  <2>5. QED
    BY <2>2, <2>3, <2>4 DEF GateInv, ServerInv
<1>5. QED
  BY <1>3, <1>4

(* The inductive invariant holds in every reachable state of the server    *)
(* and its watcher.                                                        *)
THEOREM GateInvariantHolds == GateSpec => []GateInv
  BY GateInvInit, GateInvNext, PTL DEF GateSpec

(* A row of an old content is never hidden, whatever the server does       *)
(* beside the worker, for every set of files and any number of faults.     *)
THEOREM NoRowIsHidden == GateSpec => []NoSilentStaleRow
<1>1. GateInv => NoSilentStaleRow
  BY DEF GateInv
<1>2. QED
  BY <1>1, GateInvariantHolds, PTL

Honest ==
    (spc # "answer" /\ spc' = "answer") =>
         /\ ~failure' /\ ~regFailure'
         /\ \A f \in Files : StaleRow(f)' =>
                WorkOwed(f)' \/ f \in skipped' \/ f \in denied'

(* Only two steps begin an answer: a call with no failure on record, and   *)
(* one whose recovery is acknowledged.                                     *)
LEMMA HonestNext ==
    ASSUME GateInv, [GateNext]_gateVars
    PROVE  Honest
<1>1. SUFFICES ASSUME spc # "answer", spc' = "answer"
               PROVE  ~failure' /\ ~regFailure' /\ \A f \in Files : Settled(f)'
  BY DEF Honest, Settled
<1>2. CASE CallHealthy
  <2>1. UNCHANGED vars /\ ~failure /\ ~regFailure
    BY <1>2 DEF CallHealthy
  <2>2. /\ \A f \in Files : Settled(f)' <=> Settled(f)
        /\ UNCHANGED <<failure, regFailure>>
    BY <2>1, ServerLeaves DEF GateInv
  <2>3. \A f \in Files : Settled(f)
    BY <2>1, SilentIsSettled DEF GateInv
  <2>4. QED
    BY <2>1, <2>2, <2>3
<1>3. CASE Acknowledge
  <2>1. ~failure' /\ ~regFailure'
    BY <1>3 DEF Acknowledge
  <2>2. QED
    BY <1>3, <2>1, AcknowledgedIsSettled
<1>4. CallHealthy \/ Acknowledge
  <2>1. ~UNCHANGED gateVars /\ ~WatcherStep /\ ~LeaveRoot
    BY <1>1 DEF gateVars, serverVars, WatcherStep, LeaveRoot
  <2>2. ~Prepare /\ ~PrepareReconciles /\ ~PrepareFails /\ ~CallRecovers
    BY <1>1 DEF Prepare, PrepareReconciles, PrepareFails, CallRecovers, BeginReconcile
  <2>3. ~ReconcileStep
    BY <1>1 DEF ReconcileStep, Walk, WalkPassesOver, WalkCannotRead, ListRows, UpdateChanged,
                DeleteGone,
                ApplyFails, BulkScan, BulkScanFails
  <2>4. ~HandOver /\ ~PrepareIncomplete /\ ~RecoveryError /\ ~Answer
    BY <1>1 DEF HandOver, PrepareIncomplete, RecoveryError, Answer
  <2>5. \A f \in Files : ~EnsureFreshFile(f) /\ ~EnsureFreshFindsMissing(f)
                         /\ ~EnsureFreshDeletes(f)
    BY <1>1 DEF EnsureFreshFile, EnsureFreshFindsMissing, EnsureFreshDeletes
  <2>6. QED
    BY <2>1, <2>2, <2>3, <2>4, <2>5 DEF GateNext, Server
<1>5. QED
  BY <1>2, <1>3, <1>4

(* A call answers only with no failure on record and with every old row    *)
(* accounted for by work that needs no failure to be acted upon.           *)
THEOREM CallsAnswerHonestly == GateSpec => AnswersAreHonest
<1>1. GateInv /\ [GateNext]_gateVars => [Honest]_gateVars
  BY HonestNext
<1>2. QED
  BY <1>1, GateInvariantHolds, PTL DEF GateSpec, AnswersAreHonest, Honest
=============================================================================
