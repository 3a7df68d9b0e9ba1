------------------------ MODULE WatcherRefreshProofs ------------------------
(***************************************************************************)
(* Proofs about WatcherRefresh for every set of files, every queue         *)
(* capacity and batch limit, and any number of edits and faults.           *)
(***************************************************************************)
EXTENDS WatcherRefresh, TLAPS

-----------------------------------------------------------------------------
(* The events of a queue of batches. *)

(* A queued batch adds its events to those of the queue.                   *)
LEMMA BatchesAppend ==
    ASSUME NEW S, NEW q \in Seq(S), NEW e \in S
    PROVE  Batches(Append(q, e)) = Batches(q) \cup e
<1> DEFINE a == Append(q, e)
<1>1. Len(a) = Len(q) + 1 /\ a[Len(q) + 1] = e /\ \A i \in 1..Len(q) : a[i] = q[i]
  OBVIOUS
<1>2. Len(q) \in Nat
  OBVIOUS
<1>3. ASSUME NEW x \in Batches(a) PROVE x \in Batches(q) \cup e
  <2>1. PICK i \in 1..Len(a) : x \in a[i]
    BY <1>3 DEF Batches
  <2>2. i \in 1..Len(q) \/ i = Len(q) + 1
    BY <1>1, <1>2
  <2>3. QED
    BY <2>1, <2>2, <1>1 DEF Batches
<1>4. ASSUME NEW x \in Batches(q) \cup e PROVE x \in Batches(a)
  <2>1. CASE x \in e
    <3>1. Len(q) + 1 \in 1..Len(a)
      BY <1>1, <1>2
    <3>2. QED
      BY <2>1, <3>1, <1>1 DEF Batches
  <2>2. CASE x \in Batches(q)
    <3>1. PICK i \in 1..Len(q) : x \in q[i]
      BY <2>2 DEF Batches
    <3>2. i \in 1..Len(a)
      BY <1>1, <1>2
    <3>3. QED
      BY <3>1, <3>2, <1>1 DEF Batches
  <2>3. QED
    BY <1>4, <2>1, <2>2
<1>5. QED
  BY <1>3, <1>4

(* Taking the first batch loses no event.                                  *)
LEMMA BatchesTail ==
    ASSUME NEW S, NEW q \in Seq(S), q # <<>>
    PROVE  Batches(q) = Head(q) \cup Batches(Tail(q))
<1> DEFINE t == Tail(q)
<1>1. Len(q) \in Nat \ {0}
  OBVIOUS
<1>2. Len(t) = Len(q) - 1 /\ Head(q) = q[1] /\ \A i \in 1..Len(t) : t[i] = q[i + 1]
  OBVIOUS
<1>3. ASSUME NEW x \in Batches(q) PROVE x \in Head(q) \cup Batches(t)
  <2>1. PICK i \in 1..Len(q) : x \in q[i]
    BY <1>3 DEF Batches
  <2>2. CASE i = 1
    BY <2>1, <2>2, <1>2
  <2>3. CASE i # 1
    <3>1. i - 1 \in 1..Len(t) /\ t[i - 1] = q[i]
      BY <2>3, <1>1, <1>2
    <3>2. QED
      BY <2>1, <3>1 DEF Batches
  <2>4. QED
    BY <2>2, <2>3
<1>4. ASSUME NEW x \in Head(q) \cup Batches(t) PROVE x \in Batches(q)
  <2>1. CASE x \in Head(q)
    BY <2>1, <1>1, <1>2 DEF Batches
  <2>2. CASE x \in Batches(t)
    <3>1. PICK i \in 1..Len(t) : x \in t[i]
      BY <2>2 DEF Batches
    <3>2. i + 1 \in 1..Len(q) /\ q[i + 1] = t[i]
      BY <1>1, <1>2
    <3>3. QED
      BY <3>1, <3>2 DEF Batches
  <2>3. QED
    BY <1>4, <2>1, <2>2
<1>5. QED
  BY <1>3, <1>4

(* An empty queue holds no event.                                          *)
LEMMA BatchesEmpty == Batches(<<>>) = {}
  BY DEF Batches

-----------------------------------------------------------------------------
(* Type correctness. *)

USE ContentsAssumption, BelowAssumption, FolderAssumption, LimitsAssumption, BoundsAssumption

(* The empty result of a run is well typed.                                *)
LEMMA NothingType == Nothing \in [Files -> Contents]
  BY DEF Nothing

(* The empty queue is well typed and within its capacity.                  *)
LEMMA EmptyQueueType == <<>> \in Seq(SUBSET Items) /\ Len(<<>>) <= QueueCapacity
  OBVIOUS

(* The initial states are well typed.                                      *)
LEMMA TypeInit == Init => TypeOK
<1> SUFFICES ASSUME Init PROVE TypeOK
  OBVIOUS
<1>1. queue \in Seq(SUBSET Items) /\ Len(queue) <= QueueCapacity
  BY EmptyQueueType DEF Init
<1>2. disk \in [Files -> Contents] /\ index \in [Files -> Contents] /\ got \in [Files -> Contents]
  BY NothingType DEF Init
<1>3. pc \in Places /\ edits \in 0..MaxEdits /\ faults \in 0..MaxFaults
  BY DEF Init, Places
<1>4. denied \subseteq Below /\ blind \subseteq Files /\ changed \subseteq Items /\ batch \subseteq Items
      /\ pending \subseteq Files /\ target \subseteq Files /\ toRead \subseteq target
      /\ skipped \subseteq Files
  BY DEF Init
<1>5. QED
  BY <1>1, <1>2, <1>3, <1>4 DEF Init, TypeOK

(* The steps of the user, the backend and the handle keep the types.       *)
LEMMA TypeEnvironment ==
    ASSUME TypeOK, User \/ Backend \/ Start \/ Shutdown
    PROVE  TypeOK'
<1> USE DEF TypeOK, Items, Places, world, delivery, work, run, health, control, Fault
<1>1. ASSUME NEW f \in Files, NEW c \in Contents, Edit(f, c)
      PROVE  TypeOK'
  BY <1>1 DEF Edit
<1>2. ASSUME NEW f \in Files, NEW c \in Contents, MakeFolder(f, c)
      PROVE  TypeOK'
  BY <1>2 DEF MakeFolder
<1>3. ASSUME NEW events \in SUBSET changed, DebounceFlush(events)
      PROVE  TypeOK'
  <2>1. queue' \in Seq(SUBSET Items) /\ Len(queue') <= QueueCapacity
    <3>1. CASE queue' = Append(queue, events) /\ Len(queue) < QueueCapacity
      BY <3>1
    <3>2. CASE queue' = queue
      BY <3>2
    <3>3. QED
      BY <1>3, <3>1, <3>2 DEF DebounceFlush
  <2>2. QED
    BY <1>3, <2>1 DEF DebounceFlush
<1>4. ASSUME NEW lost \in SUBSET changed, NativeRescan(lost)
      PROVE  TypeOK'
  BY <1>4 DEF NativeRescan
<1>5. ASSUME NEW lost \in SUBSET changed, NativeError(lost)
      PROVE  TypeOK'
  BY <1>5 DEF NativeError, RecordFailure
<1>6. CASE Start
  BY <1>6 DEF Start
<1>7. CASE Shutdown
  BY <1>7 DEF Shutdown
<1>8. ASSUME NEW f \in Files, Deny(f) \/ Allow(f)
      PROVE  TypeOK'
  BY <1>8 DEF Deny, Allow, Permissions
<1>9. QED
  BY <1>1, <1>2, <1>3, <1>4, <1>5, <1>6, <1>7, <1>8 DEF User, Backend

(* What waits in process_events is well typed.                             *)
LEMMA WaitingType ==
    ASSUME TypeOK
    PROVE  Waiting \subseteq Items /\ (Folder \notin Waiting => Waiting \subseteq Files)
<1>1. Queued \subseteq Items
  BY DEF TypeOK, Queued, Batches
<1>2. QED
  BY <1>1 DEF TypeOK, Waiting, Items

(* Loading the ignore rules keeps the types of the failure state.          *)
LEMMA IgnoreRulesType ==
    ASSUME TypeOK, IgnoreRules
    PROVE  failure' \in BOOLEAN /\ regFailure' \in BOOLEAN /\ generation' \in Nat
           /\ faults' \in 0..MaxFaults
<1>1. CASE UNCHANGED <<failure, regFailure, generation, faults>>
  BY <1>1 DEF TypeOK
<1>2. CASE RecordFailure /\ Fault
  BY <1>2, BoundsAssumption DEF TypeOK, RecordFailure, Fault
<1>3. QED
  BY <1>1, <1>2 DEF IgnoreRules, health

(* The steps of process_events keep the types.                             *)
LEMMA TypeDrain ==
    ASSUME TypeOK, Drain
    PROVE  TypeOK'
<1> USE DEF TypeOK, Items, Places, world, delivery, work, run, health, control, Fault,
            TakeArrived
<1>1. queue' \in Seq(SUBSET Items) /\ Len(queue') <= QueueCapacity
  BY EmptyQueueType DEF Drain, DrainGivesUp, DrainReconciles, DrainScans, DrainCannotOpen, DrainEnds,
         DrainRefreshes
<1>2. CASE DrainGivesUp
  BY <1>1, <1>2 DEF DrainGivesUp
<1>3. CASE DrainReconciles
  BY <1>1, <1>3 DEF DrainReconciles
<1>4. CASE DrainScans
  BY <1>1, <1>4, NothingType, IgnoreRulesType DEF DrainScans, BeginRun
<1>5. CASE DrainCannotOpen
  BY <1>1, <1>5 DEF DrainCannotOpen, RecordFailure
<1>6. CASE DrainEnds
  BY <1>1, <1>6, IgnoreRulesType DEF DrainEnds
<1>7. ASSUME NEW f \in Files, DrainRefreshes(f)
      PROVE  TypeOK'
  <2>1. pending' \subseteq Files
    BY <1>7, WaitingType DEF DrainRefreshes
  <2>2. QED
    BY <1>1, <1>7, <2>1, NothingType, IgnoreRulesType DEF DrainRefreshes, BeginRun
<1>8. QED
  BY <1>2, <1>3, <1>4, <1>5, <1>6, <1>7 DEF Drain

(* The other steps of the worker keep the types.                           *)
LEMMA TypeWorker ==
    ASSUME TypeOK, Worker
    PROVE  TypeOK'
<1> USE DEF TypeOK, Items, Places, world, delivery, work, run, health, control, Fault
<1>1. CASE StartSync
  BY <1>1, NothingType DEF StartSync, SyncOk, BeginRun
<1>2. CASE StartFail
  <2>1. queue' \in Seq(SUBSET Items) /\ Len(queue') <= QueueCapacity
    BY <1>2, EmptyQueueType DEF StartFail, Quit
  <2>2. target' = {} /\ toRead' = {} /\ got' \in [Files -> Contents]
    BY <1>2, NothingType DEF StartFail, EndRun
  <2>3. blind' = Files /\ changed' = {} /\ overflow' = FALSE /\ throttled' = FALSE
        /\ shutdown' = FALSE /\ pc' \in Places
    BY <1>2 DEF StartFail, Quit
  <2>4. faults' \in 0..MaxFaults
        /\ UNCHANGED <<disk, denied, edits, index, batch, pending, skipped>>
        /\ UNCHANGED <<failure, regFailure, generation>>
    BY <1>2 DEF StartFail
  <2>5. QED
    BY <2>1, <2>2, <2>3, <2>4
<1>3. CASE Stop
  BY <1>3, EmptyQueueType DEF Stop, Quit
<1>4. CASE RetryRegistrations
  <2>1. generation' \in Nat
    BY <1>4 DEF RetryRegistrations, ClearRegistrationFailure
  <2>2. QED
    BY <1>4, <2>1, NothingType DEF RetryRegistrations, SyncOk, ClearRegistrationFailure, BeginRun
<1>5. CASE RetryRegistrationsFails
  <2>1. generation' \in Nat
    BY <1>5 DEF RetryRegistrationsFails, RecordRegistrationFailure
  <2>2. QED
    BY <1>5, <2>1 DEF RetryRegistrationsFails, SyncFail, RecordRegistrationFailure
<1>6. CASE DiscardBatch
  BY <1>6 DEF DiscardBatch
<1>7. CASE OverflowReconcile
  BY <1>7 DEF OverflowReconcile
<1>8. CASE Receive
  BY <1>8 DEF Receive
<1>9. CASE Poll
  BY <1>9 DEF Poll, vars
<1>10. CASE Drain
  BY <1>10, TypeDrain
<1>11. CASE Reconcile
  <2>1. CASE ReconcileStops
    <3>1. generation' \in Nat /\ failure' \in BOOLEAN /\ regFailure' \in BOOLEAN
      <4>1. CASE UNCHANGED health
        BY <4>1
      <4>2. CASE ClearRegistrationFailure
        <5>1. generation' \in Nat
          BY <4>2 DEF ClearRegistrationFailure
        <5>2. QED
          BY <4>2, <5>1 DEF ClearRegistrationFailure
      <4>3. QED
        BY <2>1, <4>1, <4>2 DEF ReconcileStops
    <3>2. blind' \subseteq Files
      BY <2>1 DEF ReconcileStops
    <3>3. pc' \in Places
      BY <2>1 DEF ReconcileStops
    <3>4. UNCHANGED <<disk, denied, edits, index, changed, queue, overflow, throttled, shutdown>>
      BY <2>1 DEF ReconcileStops
    <3>5. UNCHANGED <<batch, pending, target, toRead, got, skipped, faults>>
      BY <2>1 DEF ReconcileStops
    <3>6. QED
      BY <3>1, <3>2, <3>3, <3>4, <3>5
  <2>2. CASE ReconcileSync
    <3>1. generation' \in Nat
      BY <2>2 DEF ReconcileSync, ClearRegistrationFailure
    <3>2. QED
      BY <2>2, <3>1, NothingType DEF ReconcileSync, SyncOk, ClearRegistrationFailure, BeginRun
  <2>3. CASE ReconcileSyncFails
    <3>1. generation' \in Nat
      BY <2>3 DEF ReconcileSyncFails, RecordRegistrationFailure
    <3>2. QED
      BY <2>3, <3>1, NothingType
         DEF ReconcileSyncFails, SyncFail, RecordRegistrationFailure, BeginRun
  <2>4. QED
    BY <1>11, <2>1, <2>2, <2>3 DEF Reconcile
<1>12. ASSUME NEW f \in Files, ExtractRead(f)
       PROVE  TypeOK'
  BY <1>12 DEF ExtractRead
<1>13. ASSUME NEW unreadable \in SUBSET Files, ExtractCommit(unreadable)
       PROVE  TypeOK'
  <2>1. index' \in [Files -> Contents]
    BY <1>13 DEF ExtractCommit
  <2>2. QED
    BY <1>13, <2>1, NothingType DEF ExtractCommit, AfterRun, EndRun
<1>14. CASE ExtractFail
  BY <1>14, NothingType DEF ExtractFail, RecordFailure, AfterRun, EndRun
<1>15. ASSUME NEW f \in Files, ExtractPassesOver(f)
       PROVE  TypeOK'
  BY <1>15 DEF ExtractPassesOver
<1>16. QED
  BY <1>1, <1>2, <1>3, <1>4, <1>5, <1>6, <1>7, <1>8, <1>9, <1>10, <1>11, <1>12, <1>13, <1>14,
     <1>15
     DEF Worker, Extractor

(* Every step keeps the types.                                             *)
LEMMA TypeNext == TypeOK /\ [Next]_vars => TypeOK'
<1>1. ASSUME TypeOK, UNCHANGED vars PROVE TypeOK'
  BY <1>1 DEF TypeOK, vars
<1>2. QED
  BY <1>1, TypeEnvironment, TypeWorker DEF Next

(* Every variable of the watcher always has its type; the queue never      *)
(* outgrows its capacity.                                                  *)
THEOREM TypeCorrect == Spec => []TypeOK
<1>1. QED
  BY TypeInit, TypeNext, PTL DEF Spec

-----------------------------------------------------------------------------
(* What the steps do to the events in flight. *)

(* A queue that stays keeps its events.                                    *)
LEMMA QueuedStays == queue' = queue => Queued' = Queued
  BY DEF Queued, Batches

(* An empty queue has no event.                                            *)
LEMMA QueuedNone == queue' = <<>> => Queued' = {}
  BY BatchesEmpty DEF Queued, Batches

(* A flush of the debouncer either raises the flag or loses no event.      *)
LEMMA FlushKeeps ==
    ASSUME TypeOK, NEW events \in SUBSET changed, DebounceFlush(events)
    PROVE  overflow' \/ (InFlight' = InFlight /\ overflow' = overflow)
<1>1. UNCHANGED <<batch, pending>> /\ changed' = changed \ events
  BY DEF DebounceFlush, work
<1>2. CASE queue' = Append(queue, events) /\ UNCHANGED overflow
  <2>1. queue \in Seq(SUBSET Items) /\ events \in SUBSET Items
    BY DEF TypeOK
  <2>2. Batches(Append(queue, events)) = Batches(queue) \cup events
    BY <2>1, BatchesAppend
  <2>3. Queued' = Queued \cup events
    BY <1>2, <2>2 DEF Queued, Batches
  <2>4. QED
    BY <1>1, <1>2, <2>3 DEF InFlight
<1>3. CASE overflow' = TRUE
  BY <1>3
<1>4. QED
  BY <1>2, <1>3 DEF DebounceFlush

(* Taking a batch from the queue loses no event.                           *)
LEMMA ReceiveKeeps ==
    ASSUME TypeOK, BatchIdle, Receive
    PROVE  InFlight' = InFlight
<1>1. batch = {} /\ batch' = Head(queue) /\ queue' = Tail(queue)
      /\ UNCHANGED <<changed, pending>> /\ queue # <<>>
  BY DEF Receive, BatchIdle
<1>2. Batches(queue) = Head(queue) \cup Batches(Tail(queue))
  BY <1>1, BatchesTail DEF TypeOK
<1>3. Queued = batch' \cup Queued'
  BY <1>1, <1>2 DEF Queued, Batches
<1>4. QED
  BY <1>1, <1>3 DEF InFlight

(* A turn of process_events leaves nothing in the queue or in the batch.   *)
LEMMA DrainKeeps ==
    ASSUME TakeArrived
    PROVE  InFlight' = changed \cup pending' /\ InFlight \subseteq changed \cup Waiting
<1>1. Queued' = {} /\ batch' = {} /\ changed' = changed
  BY QueuedNone DEF TakeArrived
<1>2. QED
  BY <1>1 DEF InFlight, Waiting

-----------------------------------------------------------------------------
(* Between runs nothing is half read, and only process_events has a batch. *)

Idle == RunIdle /\ BatchIdle

(* Every step keeps Idle.                                                  *)
LEMMA IdleNext ==
    ASSUME TypeOK, Idle, Next
    PROVE  Idle'
<1> USE DEF Idle, RunIdle, BatchIdle, Extracting, world, delivery, work, run, health, control
<1>1. CASE User
  BY <1>1 DEF User, Edit, MakeFolder, Deny, Allow, Permissions
<1>2. CASE Backend
  BY <1>2 DEF Backend, DebounceFlush, NativeRescan, NativeError
<1>3. CASE Start \/ Shutdown
  BY <1>3 DEF Start, Shutdown
<1>4. CASE StartSync \/ StartFail \/ Stop
  BY <1>4 DEF StartSync, StartFail, Stop, Quit, BeginRun, EndRun
<1>5. CASE RetryRegistrations \/ RetryRegistrationsFails
  BY <1>5 DEF RetryRegistrations, RetryRegistrationsFails, BeginRun
<1>6. CASE DiscardBatch \/ OverflowReconcile \/ Receive \/ Poll
  BY <1>6 DEF DiscardBatch, OverflowReconcile, Receive, Poll, vars
<1>7. CASE Drain
  BY <1>7 DEF Drain, TakeArrived, DrainGivesUp, DrainReconciles, DrainScans, DrainCannotOpen,
              DrainEnds, DrainRefreshes, BeginRun
<1>8. CASE Reconcile
  BY <1>8 DEF Reconcile, ReconcileStops, ReconcileSync, ReconcileSyncFails, BeginRun
<1>9. CASE Extractor
  BY <1>9 DEF Extractor, ExtractRead, ExtractPassesOver, ExtractCommit, ExtractFail, EndRun,
              AfterRun
<1>10. QED
  BY <1>1, <1>2, <1>3, <1>4, <1>5, <1>6, <1>7, <1>8, <1>9 DEF Next, Worker

-----------------------------------------------------------------------------
(* A folder without a watch is never forgotten. *)

(* Every step keeps BlindIsKnown: who takes the event of a folder owes the *)
(* reconcile, and a registration that passes over denied folders only      *)
(* leaves nothing else without a watch.                                    *)
LEMMA BlindNext ==
    ASSUME TypeOK, Idle, BlindIsKnown, Next
    PROVE  BlindIsKnown'
<1> USE DEF BlindIsKnown, ReconcileOwed, ReconcileAhead, InFlight, world, delivery, work, run, health, control
<1>1. ASSUME NEW f \in Files, NEW c \in Contents, Edit(f, c)
      PROVE  BlindIsKnown'
  BY <1>1, QueuedStays DEF Edit
<1>2. ASSUME NEW f \in Files, NEW c \in Contents, MakeFolder(f, c)
      PROVE  BlindIsKnown'
  BY <1>2, QueuedStays DEF MakeFolder
<1>3. ASSUME NEW events \in SUBSET changed, DebounceFlush(events)
      PROVE  BlindIsKnown'
  BY <1>3, FlushKeeps DEF DebounceFlush
<1>4. ASSUME NEW lost \in SUBSET changed, NativeRescan(lost) \/ NativeError(lost)
      PROVE  BlindIsKnown'
  BY <1>4 DEF NativeRescan, NativeError
<1>5. CASE Start \/ Shutdown
  BY <1>5 DEF Start, Shutdown
<1>6. CASE StartSync \/ StartFail \/ Stop
  BY <1>6 DEF StartSync, SyncOk, StartFail, Stop, Quit
<1>7. CASE RetryRegistrations \/ RetryRegistrationsFails
  BY <1>7 DEF RetryRegistrations, SyncOk, RetryRegistrationsFails, RecordRegistrationFailure
<1>8. CASE DiscardBatch \/ OverflowReconcile
  BY <1>8 DEF DiscardBatch, OverflowReconcile
<1>9. CASE Receive
  BY <1>9, ReceiveKeeps DEF Receive, Idle
<1>10. CASE Poll
  BY <1>10, QueuedStays DEF Poll, vars
<1>11. CASE Drain
  <2>1. TakeArrived
    BY <1>11 DEF Drain, DrainGivesUp, DrainReconciles, DrainScans, DrainCannotOpen, DrainEnds,
                 DrainRefreshes
  <2>2. UNCHANGED <<denied, blind, overflow, shutdown>> /\ pc = "drain"
    BY <2>1 DEF TakeArrived
  <2>3. regFailure' = regFailure
    BY <1>11 DEF Drain, DrainGivesUp, DrainReconciles, DrainScans, DrainCannotOpen, DrainEnds,
                 DrainRefreshes, IgnoreRules, RecordFailure
  <2>4. shutdown \/ overflow \/ pc' = "recon" \/ Folder \notin Waiting
    BY <1>11 DEF Drain, DrainGivesUp, DrainReconciles, DrainScans, DrainCannotOpen, DrainEnds,
                 DrainRefreshes
  <2>5. QED
    BY <2>1, <2>2, <2>3, <2>4, DrainKeeps
<1>12. CASE ReconcileStops
  BY <1>12 DEF ReconcileStops
<1>13. CASE ReconcileSync \/ ReconcileSyncFails
  BY <1>13 DEF ReconcileSync, SyncOk, ReconcileSyncFails, RecordRegistrationFailure
<1>14. CASE Extractor
  BY <1>14, QueuedStays DEF Extractor, ExtractRead, ExtractPassesOver, ExtractCommit, ExtractFail,
                            RecordFailure, Extracting
<1>15. ASSUME NEW f \in Files, Deny(f) \/ Allow(f)
       PROVE  BlindIsKnown'
  BY <1>15, QueuedStays DEF Deny, Allow, Permissions
<1>16. QED
  BY <1>1, <1>2, <1>3, <1>4, <1>5, <1>6, <1>7, <1>8, <1>9, <1>10, <1>11, <1>12, <1>13, <1>14,
     <1>15
     DEF Next, User, Backend, Worker, Reconcile

-----------------------------------------------------------------------------
(* What a run has read stays current, or its change is on the way. *)

(* Every step keeps ReadIsCurrent.                                         *)
LEMMA ReadNext ==
    ASSUME TypeOK, Idle, BlindIsKnown, ReadIsCurrent, Next
    PROVE  ReadIsCurrent'
<1> USE DEF BlindIsKnown, ReadIsCurrent, ReconcileOwed, ReconcileAhead, InFlight, world, delivery, work, run, health, control
<1>1. ASSUME NEW f \in Files, NEW c \in Contents, Edit(f, c)
      PROVE  ReadIsCurrent'
  BY <1>1, QueuedStays DEF Edit, TypeOK
<1>2. ASSUME NEW f \in Files, NEW c \in Contents, MakeFolder(f, c)
      PROVE  ReadIsCurrent'
  BY <1>2, QueuedStays DEF MakeFolder, TypeOK
<1>3. ASSUME NEW events \in SUBSET changed, DebounceFlush(events)
      PROVE  ReadIsCurrent'
  <2>1. UNCHANGED <<disk, denied, blind, pc, shutdown, regFailure, target, toRead, got>>
    BY <1>3 DEF DebounceFlush
  <2>2. QED
    BY <1>3, <2>1, FlushKeeps
<1>4. ASSUME NEW lost \in SUBSET changed, NativeRescan(lost) \/ NativeError(lost)
      PROVE  ReadIsCurrent'
  BY <1>4 DEF NativeRescan, NativeError
<1>5. CASE Start
  BY <1>5, QueuedStays DEF Start, Idle, RunIdle, Extracting
<1>6. CASE Shutdown
  BY <1>6 DEF Shutdown
<1>7. CASE StartSync \/ RetryRegistrations \/ ReconcileSync \/ ReconcileSyncFails \/ DrainScans
           \/ \E f \in Files : DrainRefreshes(f)
  <2>1. toRead' = target'
    BY <1>7 DEF StartSync, RetryRegistrations, ReconcileSync, ReconcileSyncFails, DrainScans,
                DrainRefreshes, BeginRun
  <2>2. QED
    BY <2>1
<1>8. CASE StartFail \/ ExtractFail
  BY <1>8 DEF StartFail, ExtractFail, EndRun
<1>9. CASE Stop \/ RetryRegistrationsFails \/ DiscardBatch \/ OverflowReconcile \/ Receive
           \/ ReconcileStops \/ DrainGivesUp \/ DrainReconciles \/ DrainCannotOpen \/ DrainEnds
  <2>1. target' = target
    BY <1>9 DEF Stop, RetryRegistrationsFails, DiscardBatch, OverflowReconcile, Receive,
                ReconcileStops, DrainGivesUp, DrainReconciles, DrainCannotOpen, DrainEnds
  <2>2. target = {}
    BY <1>9 DEF Stop, RetryRegistrationsFails, DiscardBatch, OverflowReconcile, Receive,
                ReconcileStops, DrainGivesUp, DrainReconciles, DrainCannotOpen, DrainEnds,
                TakeArrived, Idle, RunIdle, Extracting
  <2>3. QED
    BY <2>1, <2>2
<1>10. CASE Poll
  BY <1>10, QueuedStays DEF Poll, vars
<1>11. ASSUME NEW f \in Files, ExtractRead(f)
       PROVE  ReadIsCurrent'
  BY <1>11, QueuedStays DEF ExtractRead, TypeOK
<1>12. ASSUME NEW unreadable \in SUBSET Files, ExtractCommit(unreadable)
       PROVE  ReadIsCurrent'
  BY <1>12 DEF ExtractCommit, EndRun
<1>13. ASSUME NEW f \in Files, Deny(f) \/ Allow(f)
       PROVE  ReadIsCurrent'
  BY <1>13, QueuedStays DEF Deny, Allow, Permissions, TypeOK
<1>14. ASSUME NEW f \in Files, ExtractPassesOver(f)
       PROVE  ReadIsCurrent'
  BY <1>14, QueuedStays DEF ExtractPassesOver
<1>15. QED
  BY <1>1, <1>2, <1>3, <1>4, <1>5, <1>6, <1>7, <1>8, <1>9, <1>10, <1>11, <1>12,
     <1>13, <1>14
     DEF Next, User, Backend, Worker, Drain, Reconcile, Extractor

-----------------------------------------------------------------------------
(* No update is lost. *)

(* Every step keeps NoLostUpdate.                                          *)
LEMMA LostNext ==
    ASSUME TypeOK, Idle, BlindIsKnown, ReadIsCurrent, NoLostUpdate, Next
    PROVE  NoLostUpdate'
<1> USE DEF BlindIsKnown, NoLostUpdate, WorkOwed, ReconcileOwed, ReconcileAhead, InFlight,
            world, delivery, work, run, health, control
<1>1. ASSUME NEW f \in Files, NEW c \in Contents, Edit(f, c)
      PROVE  NoLostUpdate'
  BY <1>1, QueuedStays DEF Edit, TypeOK
<1>2. ASSUME NEW f \in Files, NEW c \in Contents, MakeFolder(f, c)
      PROVE  NoLostUpdate'
  BY <1>2, QueuedStays DEF MakeFolder, TypeOK
<1>3. ASSUME NEW events \in SUBSET changed, DebounceFlush(events)
      PROVE  NoLostUpdate'
  <2>1. UNCHANGED <<disk, denied, index, blind, pc, shutdown, target, toRead, got, skipped, failure,
                    regFailure>>
    BY <1>3 DEF DebounceFlush
  <2>2. QED
    BY <1>3, <2>1, FlushKeeps
<1>4. ASSUME NEW lost \in SUBSET changed, NativeRescan(lost) \/ NativeError(lost)
      PROVE  NoLostUpdate'
  BY <1>4 DEF NativeRescan, NativeError
<1>5. CASE Start \/ Shutdown
  BY <1>5 DEF Start, Shutdown
<1>6. CASE StartFail \/ Stop
  BY <1>6 DEF StartFail, Stop, Quit
<1>7. CASE StartSync \/ RetryRegistrations \/ ReconcileSync \/ ReconcileSyncFails \/ DrainScans
  <2>1. toRead' = Files
    BY <1>7 DEF StartSync, RetryRegistrations, ReconcileSync, ReconcileSyncFails, DrainScans,
                BeginRun
  <2>2. QED
    BY <2>1
<1>8. CASE RetryRegistrationsFails
  BY <1>8 DEF RetryRegistrationsFails, RecordRegistrationFailure
<1>9. CASE DiscardBatch \/ OverflowReconcile
  BY <1>9 DEF DiscardBatch, OverflowReconcile
<1>10. CASE Receive
  <2>1. UNCHANGED <<disk, denied, index, blind, overflow, shutdown, target, toRead, got, skipped,
                    failure, regFailure>> /\ pc = "loop"
    BY <1>10 DEF Receive
  <2>2. QED
    BY <1>10, <2>1, ReceiveKeeps DEF Idle
<1>11. CASE Poll
  BY <1>11, QueuedStays DEF Poll, vars
<1>12. CASE Drain
  <2>1. TakeArrived
    BY <1>12 DEF Drain, DrainGivesUp, DrainReconciles, DrainScans, DrainCannotOpen, DrainEnds,
                 DrainRefreshes
  <2>2. UNCHANGED <<disk, denied, index, blind, overflow, shutdown, skipped>> /\ pc = "drain"
    BY <2>1 DEF TakeArrived
  <2>3. target = {} /\ toRead = {}
    BY <2>2 DEF Idle, RunIdle, Extracting, TypeOK
  <2>4. CASE DrainGivesUp \/ DrainReconciles
    BY <2>2, <2>4 DEF DrainGivesUp, DrainReconciles
  <2>5. CASE DrainCannotOpen
    BY <2>5 DEF DrainCannotOpen, RecordFailure
  <2>6. CASE DrainEnds
    <3>1. Waiting = {} /\ regFailure' = regFailure /\ (failure => failure')
      BY <2>6 DEF DrainEnds, IgnoreRules, RecordFailure
    <3>2. QED
      BY <2>1, <2>2, <2>3, <3>1, DrainKeeps
  <2>7. ASSUME NEW f \in Files, DrainRefreshes(f)
        PROVE  NoLostUpdate'
    <3>1. pending' = Waiting \ {f} /\ toRead' = {f} /\ regFailure' = regFailure
          /\ (failure => failure')
      BY <2>7 DEF DrainRefreshes, BeginRun, IgnoreRules, RecordFailure
    <3>2. QED
      BY <2>1, <2>2, <2>3, <3>1, DrainKeeps
  <2>8. QED
    BY <1>7, <1>12, <2>4, <2>5, <2>6, <2>7 DEF Drain
<1>13. CASE ReconcileStops
  BY <1>13 DEF ReconcileStops
<1>14. ASSUME NEW f \in Files, ExtractRead(f)
       PROVE  NoLostUpdate'
  BY <1>14, QueuedStays DEF ExtractRead, TypeOK
<1>15. ASSUME NEW unreadable \in SUBSET Files, ExtractCommit(unreadable)
       PROVE  NoLostUpdate'
  <2>1. UNCHANGED <<disk, denied, blind, changed, queue, overflow, batch, pending, shutdown,
                    failure, regFailure>>
    BY <1>15 DEF ExtractCommit
  <2>2. Queued' = Queued
    BY <2>1, QueuedStays
  <2>3. toRead = {} /\ Extracting /\ skipped' = (skipped \ target) \cup unreadable
        /\ index' = [g \in Files |-> IF g \in target \ unreadable THEN got[g] ELSE index[g]]
    BY <1>15 DEF ExtractCommit
  <2>4. SUFFICES ASSUME NEW g \in Files, index'[g] # disk[g], g \notin skipped', g \notin denied
                 PROVE  g \in InFlight \/ Folder \in InFlight \/ overflow \/ regFailure
                        \/ shutdown \/ failure
    BY <2>1, <2>2
  <2>5. CASE g \in target
    <3>1. got[g] # disk[g]
      BY <2>3, <2>4, <2>5
    <3>2. QED
      BY <2>3, <2>4, <2>5, <3>1 DEF ReadIsCurrent, Extracting
  <2>6. CASE g \notin target
    <3>1. index[g] # disk[g] /\ g \notin skipped
      BY <2>3, <2>4, <2>6
    <3>2. QED
      BY <2>3, <2>4, <2>6, <3>1 DEF Extracting
  <2>7. QED
    BY <2>5, <2>6
<1>16. CASE ExtractFail
  BY <1>16 DEF ExtractFail, RecordFailure
<1>17. ASSUME NEW f \in Files, Deny(f) \/ Allow(f)
       PROVE  NoLostUpdate'
  BY <1>17, QueuedStays DEF Deny, Allow, Permissions, TypeOK
<1>18. ASSUME NEW f \in Files, ExtractPassesOver(f)
       PROVE  NoLostUpdate'
  BY <1>18, QueuedStays DEF ExtractPassesOver
<1>19. QED
  BY <1>1, <1>2, <1>3, <1>4, <1>5, <1>6, <1>7, <1>8, <1>9, <1>10, <1>11, <1>12, <1>13, <1>14,
     <1>15, <1>16, <1>17, <1>18
     DEF Next, User, Backend, Worker, Reconcile, Extractor

-----------------------------------------------------------------------------
(* The invariants of the specification. *)

(* The initial states satisfy the inductive invariant: the worker is       *)
(* stopped.                                                                *)
LEMMA InvInit == Init => WatcherInv
<1> SUFFICES ASSUME Init PROVE WatcherInv
  OBVIOUS
<1>1. TypeOK
  BY TypeInit
<1>2. target = {} /\ batch = {} /\ pc = "stopped"
  BY DEF Init
<1>3. QED
  BY <1>1, <1>2 DEF WatcherInv, RunIdle, BatchIdle, BlindIsKnown, NoLostUpdate, ReadIsCurrent,
                    WorkOwed, ReconcileOwed, ReconcileAhead

(* Every step keeps the inductive invariant.                               *)
LEMMA InvNext == WatcherInv /\ [Next]_vars => WatcherInv'
<1>1. ASSUME WatcherInv, Next PROVE WatcherInv'
  BY <1>1, TypeNext, IdleNext, BlindNext, LostNext, ReadNext DEF WatcherInv, Idle
<1>2. ASSUME WatcherInv, UNCHANGED vars PROVE WatcherInv'
  <2>1. Queued' = Queued
    BY <1>2, QueuedStays DEF vars
  <2>2. TypeOK'
    BY <1>2, TypeNext DEF WatcherInv
  <2>3. RunIdle' /\ BatchIdle'
    BY <1>2 DEF WatcherInv, vars, RunIdle, BatchIdle, Extracting
  <2>4. BlindIsKnown'
    BY <1>2, <2>1 DEF WatcherInv, vars, BlindIsKnown, ReconcileOwed, ReconcileAhead, InFlight
  <2>5. NoLostUpdate'
    BY <1>2, <2>1 DEF WatcherInv, vars, NoLostUpdate, WorkOwed, ReconcileOwed, ReconcileAhead,
                      InFlight
  <2>6. ReadIsCurrent'
    BY <1>2, <2>1 DEF WatcherInv, vars, ReadIsCurrent, ReconcileOwed, ReconcileAhead, InFlight
  <2>7. QED
    BY <2>2, <2>3, <2>4, <2>5, <2>6 DEF WatcherInv
<1>3. QED
  BY <1>1, <1>2

(* The inductive invariant holds in every reachable state.                 *)
THEOREM InvariantHolds == Spec => []WatcherInv
  BY InvInit, InvNext, PTL DEF Spec

(* A folder that may be listed and has no native watch is never forgotten. *)
THEOREM BlindFilesAreKnown == Spec => []BlindIsKnown
<1>1. WatcherInv => BlindIsKnown
  BY DEF WatcherInv
<1>2. QED
  BY <1>1, InvariantHolds, PTL

(* A stale row always has work owed for it or a failure on record, through *)
(* every buffer of the watcher and every run of the extractor.             *)
THEOREM NoUpdateIsLost == Spec => []NoLostUpdate
<1>1. WatcherInv => NoLostUpdate
  BY DEF WatcherInv
<1>2. QED
  BY <1>1, InvariantHolds, PTL

(* What a run is about to commit is current or already known to be old.    *)
THEOREM ReadsAreCurrent == Spec => []ReadIsCurrent
<1>1. WatcherInv => ReadIsCurrent
  BY DEF WatcherInv
<1>2. QED
  BY <1>1, InvariantHolds, PTL

-----------------------------------------------------------------------------
(* The generation of the failures. *)

Counted ==
    pc # "stopped" => /\ failure => failure'
                      /\ generation' >= generation
                      /\ (~failure /\ failure') => generation' > generation
                      /\ regFailure # regFailure' => generation' > generation

(* A step of a running worker that records or clears a failure counts it.  *)
LEMMA CountedNext ==
    ASSUME TypeOK, [Next]_vars
    PROVE  Counted
<1> USE DEF Counted, world, delivery, work, run, health, control
<1>0. generation \in Nat /\ failure \in BOOLEAN /\ regFailure \in BOOLEAN
  BY DEF TypeOK
<1>1. ASSUME UNCHANGED health PROVE Counted
  BY <1>0, <1>1
<1>2. ASSUME RecordFailure PROVE Counted
  BY <1>0, <1>2 DEF RecordFailure
<1>3. ASSUME RecordRegistrationFailure PROVE Counted
  <2>1. CASE generation' = generation + 1
    <3>1. failure' = failure
      BY <1>3 DEF RecordRegistrationFailure
    <3>2. generation' > generation /\ generation' >= generation
      BY <1>0, <2>1
    <3>3. QED
      BY <3>1, <3>2
  <2>2. CASE regFailure /\ generation' = generation
    <3>1. regFailure = TRUE /\ regFailure' = TRUE /\ failure' = failure
      BY <1>0, <1>3, <2>2 DEF RecordRegistrationFailure
    <3>2. QED
      BY <1>0, <2>2, <3>1
  <2>3. QED
    BY <1>3, <2>1, <2>2 DEF RecordRegistrationFailure
<1>4. ASSUME ClearRegistrationFailure PROVE Counted
  <2>1. regFailure' = FALSE /\ failure' = failure
    BY <1>4 DEF ClearRegistrationFailure
  <2>2. CASE regFailure = TRUE
    <3>1. generation' = generation + 1
      BY <1>4, <2>2 DEF ClearRegistrationFailure
    <3>2. QED
      BY <1>0, <2>1, <3>1
  <2>3. CASE regFailure = FALSE
    <3>1. generation' = generation
      BY <1>4, <2>3 DEF ClearRegistrationFailure
    <3>2. generation' >= generation
      BY <1>0, <3>1
    <3>3. regFailure' = regFailure
      BY <2>1, <2>3
    <3>4. QED
      BY <2>1, <3>2, <3>3
  <2>4. QED
    BY <1>0, <2>2, <2>3
<1>5. CASE UNCHANGED vars
  BY <1>1, <1>5 DEF vars
<1>6. CASE User
  BY <1>1, <1>6 DEF User, Edit, MakeFolder, Deny, Allow, Permissions
<1>7. CASE Backend
  BY <1>1, <1>2, <1>7 DEF Backend, DebounceFlush, NativeRescan, NativeError
<1>8. CASE Start
  BY <1>8 DEF Start
<1>9. CASE Shutdown
  BY <1>1, <1>9 DEF Shutdown
<1>10. CASE StartSync \/ StartFail \/ Stop \/ DiscardBatch \/ OverflowReconcile \/ Receive \/ Poll
  BY <1>1, <1>10 DEF StartSync, StartFail, Stop, DiscardBatch, OverflowReconcile, Receive, Poll,
                     vars
<1>11. CASE RetryRegistrations \/ RetryRegistrationsFails
  BY <1>3, <1>4, <1>11 DEF RetryRegistrations, RetryRegistrationsFails
<1>12. CASE Drain
  BY <1>1, <1>2, <1>12 DEF Drain, DrainGivesUp, DrainReconciles, DrainScans, DrainCannotOpen,
                           DrainEnds, DrainRefreshes, IgnoreRules
<1>13. CASE Reconcile
  BY <1>1, <1>3, <1>4, <1>13 DEF Reconcile, ReconcileStops, ReconcileSync, ReconcileSyncFails
<1>14. CASE Extractor
  BY <1>1, <1>2, <1>14 DEF Extractor, ExtractRead, ExtractPassesOver, ExtractCommit, ExtractFail
<1>15. QED
  BY <1>5, <1>6, <1>7, <1>8, <1>9, <1>10, <1>11, <1>12, <1>13, <1>14 DEF Next, Worker

(* No failure goes away while its worker runs, and every new one moves the *)
(* generation.                                                             *)
THEOREM EveryFailureIsCounted == Spec => FailuresAreCounted
<1>1. TypeOK /\ [Next]_vars => [Counted]_vars
  BY CountedNext
<1>2. QED
  BY <1>1, TypeCorrect, PTL DEF Spec, FailuresAreCounted, Counted
-----------------------------------------------------------------------------
(* The watcher implements IndexFreshness: its books are its buffers and    *)
(* flags together, and what its run has read are the copies.               *)

Copies == [f \in Files |-> IF f \in target \ toRead THEN {got[f]} ELSE {}]
Owed   == {f \in Files : WorkOwed(f) \/ failure \/ f \in skipped \/ f \in denied}

(* NoLostUpdate says that a file off the books agrees with its row.        *)
LEMMA BooksAreTrue ==
    /\ TypeOK /\ NoLostUpdate => Promise!Accounted
    /\ (TypeOK /\ NoLostUpdate)' => Promise!Accounted'
  BY BelowAssumption DEF TypeOK, NoLostUpdate, Promise!Accounted

(* A run that begins or ends has copied nothing.                           *)
LEMMA NothingCopied ==
    /\ target \subseteq toRead => Copies = Promise!NoCopies
    /\ (target \subseteq toRead)' => Copies' = Promise!NoCopies
<1>1. ASSUME target \subseteq toRead PROVE Copies = Promise!NoCopies
  BY <1>1 DEF Copies, Promise!NoCopies
<1>2. ASSUME target' \subseteq toRead' PROVE Copies' = Promise!NoCopies
  BY <1>2 DEF Copies, Promise!NoCopies
<1>3. QED
  BY <1>1, <1>2

(* What a step of the user leaves alone.                                   *)
LEMMA UserLeaves ==
    ASSUME User
    PROVE  /\ UNCHANGED <<index, target, toRead, got, pc, shutdown, overflow, regFailure, failure>>
           /\ UNCHANGED <<skipped, queue, batch, pending>>
           /\ changed \subseteq changed' /\ InFlight \subseteq InFlight'
           /\ Queued' = Queued
<1> USE DEF work, run, health, control
<1>1. /\ UNCHANGED <<index, target, toRead, got, pc, shutdown, overflow, regFailure, failure>>
      /\ UNCHANGED <<skipped, queue, batch, pending>>
      /\ changed \subseteq changed'
  BY DEF User, Edit, MakeFolder, Deny, Allow, Permissions
<1>2. QED
  BY <1>1, QueuedStays DEF InFlight

(* A change of a file puts it on the books: its event is on the way, or    *)
(* its folder has no watch, which is known, or it is denied.               *)
LEMMA UserChanges ==
    ASSUME WatcherInv, NEW f \in Files, NEW c \in Contents, Edit(f, c) \/ MakeFolder(f, c)
    PROVE  Promise!Change
<1> USE DEF world, delivery, work, run, health, control
<1>1. /\ disk' = [disk EXCEPT ![f] = c] /\ denied' = denied
      /\ disk \in [Files -> Contents] /\ blind \subseteq blind'
      /\ f \in changed' \/ Folder \in changed' \/ f \in blind
  BY DEF Edit, MakeFolder, WatcherInv, TypeOK
<1>2. User
  BY DEF User
<1>3. /\ UNCHANGED <<index, target, toRead, got, pc, shutdown, overflow, regFailure, failure>>
      /\ UNCHANGED <<skipped, queue, batch, pending>>
      /\ changed \subseteq changed' /\ InFlight \subseteq InFlight'
  BY <1>2, UserLeaves
<1>4. f \in changed' \/ Folder \in changed' \/ ReconcileOwed \/ f \in denied
  BY <1>1 DEF WatcherInv, BlindIsKnown
<1>5. (f \in Owed)'
  BY <1>1, <1>3, <1>4 DEF Owed, WorkOwed, ReconcileOwed, ReconcileAhead, InFlight
<1>6. ASSUME NEW g \in Files, g # f, g \in Owed PROVE (g \in Owed)'
  <2>1. disk'[g] = disk[g]
    BY <1>1, <1>6
  <2>2. QED
    BY <1>1, <1>3, <1>6, <2>1 DEF Owed, WorkOwed, ReconcileOwed, ReconcileAhead
<1>7. Owed \cup {f} \subseteq Owed' /\ Owed' \subseteq Files
  BY <1>5, <1>6 DEF Owed
<1>8. Copies' = Copies
  BY <1>3 DEF Copies
<1>9. QED
  BY <1>1, <1>3, <1>7, <1>8 DEF Promise!Change, Owed, Copies

(* A folder that is denied or allowed again leaves its files on the books: *)
(* when it is allowed a reconcile is owed for them.                        *)
LEMMA UserPermits ==
    ASSUME WatcherInv, NEW f \in Files, Deny(f) \/ Allow(f)
    PROVE  Promise!Permit
<1>1. /\ disk' = disk /\ denied' \in SUBSET Files /\ blind' = blind
      /\ \/ denied' = denied \cup {f}
         \/ /\ f \in denied /\ denied' = denied \ {f}
            /\ \/ Folder \in changed' \/ pc \in {"stopped", "startSync"}
               \/ blind \ denied # {}
  BY BelowAssumption DEF Deny, Allow, Permissions, WatcherInv, TypeOK
<1>2. User
  BY DEF User
<1>3. /\ UNCHANGED <<index, target, toRead, got, pc, shutdown, overflow, regFailure, failure>>
      /\ UNCHANGED <<skipped, queue, batch, pending>>
      /\ changed \subseteq changed' /\ InFlight \subseteq InFlight'
  BY <1>2, UserLeaves
<1>4. f \in denied' \/ ReconcileOwed'
  <2>1. CASE blind \ denied # {}
    BY <1>3, <2>1 DEF WatcherInv, BlindIsKnown, ReconcileOwed, ReconcileAhead
  <2>2. CASE Folder \in changed' \/ pc \in {"stopped", "startSync"}
    BY <1>3, <2>2 DEF ReconcileOwed, ReconcileAhead, InFlight
  <2>3. QED
    BY <1>1, <2>1, <2>2
<1>5. ASSUME NEW g \in Files, g \in Owed PROVE (g \in Owed)'
  <2>1. CASE g = f
    BY <1>4, <2>1 DEF Owed, WorkOwed
  <2>2. CASE g # f
    BY <1>1, <1>3, <1>5, <2>2 DEF Owed, WorkOwed, ReconcileOwed, ReconcileAhead
  <2>3. QED
    BY <2>1, <2>2
<1>6. denied \subseteq Owed
  BY BelowAssumption DEF Owed, WatcherInv, TypeOK
<1>7. denied' \subseteq Owed'
  BY <1>1 DEF Owed
<1>8. Owed \cup denied \cup denied' \subseteq Owed' /\ Owed' \subseteq Files
  BY <1>5, <1>6, <1>7 DEF Owed
<1>9. Copies' = Copies
  BY <1>3 DEF Copies
<1>10. QED
  BY <1>1, <1>3, <1>8, <1>9 DEF Promise!Permit, Owed, Copies

(* The extractor reads a file that is on the books, and what it read keeps *)
(* the file there.                                                         *)
LEMMA ReadCopies ==
    ASSUME WatcherInv, NEW f \in Files, ExtractRead(f)
    PROVE  Promise!Copy
<1> USE DEF world, delivery, work, run, health, control
<1>1. /\ f \in toRead /\ f \in target /\ toRead' = toRead \ {f}
      /\ got \in [Files -> Contents]
      /\ UNCHANGED <<disk, denied, index, target, blind, changed, queue, overflow, pc, shutdown,
                     regFailure, failure, skipped, batch, pending>>
  BY DEF ExtractRead, WatcherInv, TypeOK
<1>2. PICK c : got' = [got EXCEPT ![f] = c] /\ (c = disk[f] \/ (f \in denied /\ c = Absent))
  BY DEF ExtractRead
<1>3. got'[f] = c /\ \A g \in Files : g # f => got'[g] = got[g]
  BY <1>1, <1>2
<1>4. InFlight' = InFlight
  BY <1>1, QueuedStays DEF InFlight
<1>5. f \in Owed
  BY <1>1 DEF Owed, WorkOwed
<1>6. ASSUME NEW g \in Files PROVE (g \in Owed)' <=> g \in Owed
  <2>1. CASE g = f
    BY <1>1, <1>2, <1>3, <1>5, <2>1 DEF Owed, WorkOwed
  <2>2. CASE g # f
    BY <1>1, <1>3, <1>4, <2>2 DEF Owed, WorkOwed, ReconcileOwed, ReconcileAhead
  <2>3. QED
    BY <2>1, <2>2
<1>7. Owed' = Owed
  BY <1>6 DEF Owed
<1>8. Copies' = [Copies EXCEPT ![f] = {c}]
  BY <1>1, <1>3 DEF Copies
<1>9. QED
  BY <1>1, <1>2, <1>5, <1>7, <1>8 DEF Promise!Copy, Owed, Copies

(* A commit writes rows from the copies of its run and from nothing else.  *)
LEMMA CommitWrites ==
    ASSUME WatcherInv, WatcherInv', NEW unreadable \in SUBSET Files, ExtractCommit(unreadable)
    PROVE  Promise!Commit
<1>1. /\ toRead = {} /\ target' = {} /\ disk' = disk /\ denied' = denied
      /\ index' = [f \in Files |-> IF f \in target \ unreadable THEN got[f] ELSE index[f]]
  BY DEF ExtractCommit, EndRun, world
<1>2. \A f \in Files : index'[f] \in Copies[f] \cup {index[f]}
  BY <1>1 DEF Copies
<1>3. index' \in [Files -> Contents]
  BY DEF WatcherInv, TypeOK
<1>4. Copies' = Promise!NoCopies
  BY <1>1, NothingCopied
<1>5. Promise!Accounted'
  BY BooksAreTrue DEF WatcherInv
<1>6. QED
  BY <1>1, <1>2, <1>3, <1>4, <1>5 DEF Promise!Commit, Copies

(* A scan that passes over a denied file had not read it: no copy is lost. *)
LEMMA PassingCopies ==
    ASSUME WatcherInv, WatcherInv', NEW f \in Files, ExtractPassesOver(f)
    PROVE  Promise!Account
<1>1. /\ f \in toRead /\ target' \ toRead' = target \ toRead
      /\ UNCHANGED <<disk, denied, index, got>>
  BY DEF ExtractPassesOver, world
<1>2. Copies' = Copies
  BY <1>1 DEF Copies
<1>3. Promise!Accounted'
  BY BooksAreTrue DEF WatcherInv
<1>4. QED
  BY <1>1, <1>2, <1>3 DEF Promise!Account, Copies

(* Every other step hands work on, finds it done or finds it needed: files *)
(* and rows stay, and what was copied is kept or given up as a whole.      *)
LEMMA OthersAccount ==
    ASSUME WatcherInv, WatcherInv',
           Backend \/ Start \/ Shutdown \/ Worker,
           \A f \in Files : ~ExtractRead(f) /\ ~ExtractPassesOver(f),
           \A unreadable \in SUBSET Files : ~ExtractCommit(unreadable)
    PROVE  Promise!Account \/ UNCHANGED vars
<1> USE DEF world, delivery, work, run, health, control
<1>1. ASSUME UNCHANGED <<disk, denied, index, target, toRead, got>> PROVE Promise!Account
  BY <1>1, BooksAreTrue DEF Promise!Account, Copies, WatcherInv
<1>2. ASSUME UNCHANGED <<disk, denied, index>>, (target \subseteq toRead)' PROVE Promise!Account
  BY <1>2, BooksAreTrue, NothingCopied DEF Promise!Account, Copies, WatcherInv
<1>3. ASSUME NEW files, BeginRun(files) PROVE (target \subseteq toRead)'
  BY <1>3 DEF BeginRun
<1>4. EndRun => (target \subseteq toRead)'
  BY DEF EndRun
<1>5. CASE Backend
  BY <1>1, <1>5 DEF Backend, DebounceFlush, NativeRescan, NativeError
<1>6. CASE Start \/ Shutdown
  BY <1>1, <1>6 DEF Start, Shutdown
<1>7. CASE StartSync \/ StartFail \/ Stop
  BY <1>1, <1>2, <1>3, <1>4, <1>7 DEF StartSync, StartFail, Stop
<1>8. CASE RetryRegistrations \/ RetryRegistrationsFails
  BY <1>1, <1>2, <1>3, <1>8 DEF RetryRegistrations, RetryRegistrationsFails
<1>9. CASE DiscardBatch \/ OverflowReconcile \/ Receive
  BY <1>1, <1>9 DEF DiscardBatch, OverflowReconcile, Receive
<1>10. CASE Drain
  <2>1. CASE DrainScans \/ \E f \in Files : DrainRefreshes(f)
    BY <1>2, <1>3, <2>1 DEF DrainScans, DrainRefreshes, TakeArrived
  <2>2. CASE DrainGivesUp \/ DrainReconciles \/ DrainCannotOpen \/ DrainEnds
    BY <1>1, <2>2 DEF DrainGivesUp, DrainReconciles, DrainCannotOpen, DrainEnds, TakeArrived
  <2>3. QED
    BY <1>10, <2>1, <2>2 DEF Drain
<1>11. CASE Reconcile
  BY <1>1, <1>2, <1>3, <1>11 DEF Reconcile, ReconcileStops, ReconcileSync, ReconcileSyncFails
<1>12. CASE ExtractFail
  BY <1>2, <1>4, <1>12 DEF ExtractFail
<1>13. CASE Poll
  BY <1>13 DEF Poll
<1>14. QED
  BY <1>5, <1>6, <1>7, <1>8, <1>9, <1>10, <1>11, <1>12, <1>13 DEF Worker, Extractor

(* The initial states owe every file: no worker has been started.          *)
LEMMA PromiseInit == Init => Promise!Init
<1> SUFFICES ASSUME Init PROVE Promise!Init
  OBVIOUS
<1>1. Copies = Promise!NoCopies
  BY NothingCopied DEF Init
<1>2. Owed = Files
  BY DEF Init, Owed, WorkOwed, ReconcileOwed, ReconcileAhead
<1>3. denied \in SUBSET Files
  BY BelowAssumption DEF Init
<1>4. QED
  BY <1>1, <1>2, <1>3 DEF Init, Promise!Init, Copies, Owed

(* Every step of the watcher is a step of the promise, or none of it.      *)
LEMMA PromiseNext ==
    ASSUME WatcherInv, WatcherInv', [Next]_vars
    PROVE  [Promise!Next]_Promise!freshVars
<1>1. CASE UNCHANGED vars
  <2>1. Queued' = Queued
    BY <1>1, QueuedStays DEF vars
  <2>2. Owed' = Owed
    BY <1>1, <2>1 DEF vars, Owed, WorkOwed, ReconcileOwed, ReconcileAhead, InFlight
  <2>3. Copies' = Copies
    BY <1>1 DEF vars, Copies
  <2>4. disk' = disk /\ index' = index /\ denied' = denied
    BY <1>1 DEF vars
  <2>5. QED
    BY <2>2, <2>3, <2>4 DEF Promise!freshVars, Owed, Copies
<1>2. CASE User
  BY <1>2, UserChanges, UserPermits DEF User, Promise!Next
<1>3. CASE \E f \in Files : ExtractRead(f)
  BY <1>3, ReadCopies DEF Promise!Next
<1>4. CASE \E unreadable \in SUBSET Files : ExtractCommit(unreadable)
  BY <1>4, CommitWrites DEF Promise!Next
<1>5. CASE /\ Backend \/ Start \/ Shutdown \/ Worker
           /\ \A f \in Files : ~ExtractRead(f) /\ ~ExtractPassesOver(f)
           /\ \A unreadable \in SUBSET Files : ~ExtractCommit(unreadable)
  BY <1>1, <1>5, OthersAccount DEF Promise!Next
<1>6. CASE \E f \in Files : ExtractPassesOver(f)
  BY <1>6, PassingCopies DEF Promise!Next
<1>7. QED
  BY <1>1, <1>2, <1>3, <1>4, <1>5, <1>6 DEF Next

(* The watcher implements IndexFreshness, with no failure, loss, shutdown  *)
(* or restart excluded.                                                    *)
THEOREM PromiseIsKept == Spec => KeepsPromise
<1>1. WatcherInv /\ WatcherInv' /\ [Next]_vars => [Promise!Next]_Promise!freshVars
  BY PromiseNext
<1>2. QED
  BY <1>1, PromiseInit, InvariantHolds, PTL DEF Spec, KeepsPromise, Promise!Spec
=============================================================================
