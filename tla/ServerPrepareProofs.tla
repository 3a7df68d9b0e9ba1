--------------------------- MODULE ServerPrepareProofs ---------------------------
(***************************************************************************)
(* Proofs about ServerPrepare for every set of roots, threads and workers  *)
(* and any number of faults and scans.                                     *)
(*                                                                         *)
(* The inductive invariant PrepareInv says who knows of each worker that   *)
(* has not ended, and that nobody but the prepare of a root, or the call   *)
(* for it, starts a worker of the root.                                    *)
(***************************************************************************)
EXTENDS ServerPrepare, TLAPS

-----------------------------------------------------------------------------
(* The inductive invariant. *)

(* A thread that is not free is the prepare of the active root or parked,  *)
(* and a free one refers to nothing.                                       *)
ThreadsAreKnown ==
    /\ \A t \in Threads :
         IF thread[t].at = "free"
         THEN thread[t] = FreeThread /\ t \notin parked \cup {reconcile}
         ELSE thread[t].root \in Roots /\ t \in parked \cup {reconcile}

(* What a thread refers to: while it joins, stopped workers of its root;   *)
(* from the start of a watcher on, that watcher's worker.                  *)
Joining  == {"joinRebuild", "joinCreate", "joinStart"}
Watching == {"start", "reconcile", "ok"}
Stopped(w) == worker[w].at \in {"stopping", "ended"}

ThreadsHold ==
    \A t \in Threads :
        /\ thread[t].at \notin Joining => thread[t].joins = {}
        /\ \A w \in thread[t].joins : Stopped(w) /\ worker[w].root = thread[t].root
        /\ thread[t].at \in Watching <=> thread[t].worker # None
        /\ thread[t].worker # None => worker[thread[t].worker].root = thread[t].root
        /\ thread[t].at \in {"reconcile", "ok"} => worker[thread[t].worker].at = "running"

(* What the server's thread refers to.                                     *)
ServerHolds ==
    /\ held # None => worker[held] = [at |-> "running", root |-> active] /\ reconcile = None
    /\ main \in {"open", "answer"} => held # None
    /\ main \in {"join", "startup"} =>
         held = None /\ reconcile = None /\ active \notin failed
    /\ main \notin {"join", "startup"} => mainJoins = {}
    /\ \A w \in mainJoins : worker[w].root = active
    /\ main = "join" => \A w \in mainJoins : Stopped(w)
    /\ main = "startup" => \E w \in Workers : mainJoins = {w}

RetiredAreStopped == \A w \in retired : Stopped(w)

(* A worker that has not ended is held, listed, joined or a thread's.      *)
LiveAreKnown ==
    \A w \in Workers : Live(w) =>
        \/ w \in retired \cup mainJoins \cup {held}
        \/ \E t \in Threads : w \in thread[t].joins \cup {thread[t].worker}

(* Once the stopped workers of a root are joined, no other one is listed   *)
(* until the next worker of the root is started.                           *)
AllAreJoined ==
    \A w \in retired : Live(w) =>
        /\ main = "join" => worker[w].root # active
        /\ \A t \in Threads :
             thread[t].at \in Joining \cup {"rebuild", "create"} => worker[w].root # thread[t].root

(* An unreadable index whose rebuild failed is on record, or the failed    *)
(* prepare has not been settled; nobody prepares its root meanwhile.       *)
TriedAreKnown ==
    /\ \A r \in tried :
         /\ db[r] = "torn"
         /\ r \in failed \/ \E t \in Threads : thread[t].at = "err" /\ thread[t].root = r
    /\ \A t \in Threads : thread[t].at # "err" => thread[t].root \notin tried

PrepareInv ==
    /\ PrepareTypeOK /\ ThreadsAreKnown /\ OnePreparePerRoot
    /\ ThreadsHold /\ ServerHolds /\ RetiredAreStopped /\ LiveAreKnown /\ AllAreJoined
    /\ OneWorkerPerRoot /\ TriedAreKnown

USE MarkedAssumption, NoneAssumption, CapsAssumption

-----------------------------------------------------------------------------
(* Type correctness. *)

ThreadType == [at : ThreadPlaces, root : Roots \cup {None},
               joins : SUBSET Workers, worker : Workers \cup {None}]
WorkerType == [at : WorkerPlaces, root : Roots]

(* A fault keeps the counters within their bounds.                         *)
LEMMA FaultType ==
    ASSUME PrepareTypeOK, Fault
    PROVE  faults' \in 0..MaxFaults /\ scans' \in 0..MaxScans
  BY DEF PrepareTypeOK, Fault

(* The condition of one root changes.                                      *)
LEMMA SetDbType ==
    ASSUME PrepareTypeOK, NEW r \in Roots, NEW condition \in Conditions, SetDb(r, condition)
    PROVE  db' \in [Roots -> Conditions] /\ tried' \subseteq Roots
  BY DEF PrepareTypeOK, SetDb

(* Workers that are told to stop stay workers.                             *)
LEMMA DropType ==
    ASSUME PrepareTypeOK, NEW ws \in SUBSET Workers, Drop(ws)
    PROVE  worker' \in [Workers -> WorkerType] /\ retired' \subseteq Workers
  BY DEF PrepareTypeOK, Drop, WorkerType, WorkerPlaces

(* The workers of a set of prepares.                                       *)
LEMMA StartedType ==
    ASSUME PrepareTypeOK, ThreadsHold, NEW ts \in SUBSET Threads
    PROVE  Started(ts) \subseteq Workers
  BY DEF PrepareTypeOK, ThreadsHold, Started, Watching

(* Both Spawn and NoSpawn free the threads that were joined; Spawn takes a *)
(* free one for r.                                                         *)
ThreadsAfter(new, r, gone) ==
    [u \in Threads |-> IF u = new THEN NewThread(r)
                       ELSE IF u \in gone THEN FreeThread ELSE thread[u]]

(* Spawn in these terms.                                                   *)
LEMMA SpawnEffect ==
    ASSUME NEW r, NEW gone, \A u \in gone : thread[u].at # "free", Spawn(r, gone)
    PROVE  \E new \in Threads \cup {None} :
               /\ reconcile' = new
               /\ thread' = ThreadsAfter(new, r, gone)
               /\ new # None => thread[new].at = "free"
<1>1. CASE CanSpawn(r)
  <2>1. PICK t \in Threads :
           /\ Lowest({u \in Threads : thread[u].at = "free"}, t)
           /\ reconcile' = t
           /\ thread' = [u \in Threads |-> CASE u = t     -> NewThread(r)
                                             [] u \in gone -> FreeThread
                                             [] OTHER      -> thread[u]]
    BY <1>1 DEF Spawn
  <2>2. thread[t].at = "free"
    BY <2>1 DEF Lowest
  <2>3. thread' = ThreadsAfter(t, r, gone)
    <3>1. ASSUME NEW u \in Threads
          PROVE  (CASE u = t     -> NewThread(r)
                    [] u \in gone -> FreeThread
                    [] OTHER      -> thread[u])
                 = IF u = t THEN NewThread(r) ELSE IF u \in gone THEN FreeThread ELSE thread[u]
      <4>1. CASE u = t
        BY <2>2, <4>1
      <4>2. CASE u # t /\ u \in gone
        BY <4>2
      <4>3. CASE u # t /\ u \notin gone
        BY <4>3
      <4>4. QED
        BY <4>1, <4>2, <4>3
    <3>2. QED
      BY <2>1, <3>1 DEF ThreadsAfter
  <2>4. QED
    BY <2>1, <2>2, <2>3
<1>2. CASE ~CanSpawn(r)
  BY <1>2 DEF Spawn, ThreadsAfter
<1>3. QED
  BY <1>1, <1>2

(* NoSpawn in these terms.                                                 *)
LEMMA NoSpawnEffect ==
    ASSUME NEW next, NEW gone, NoSpawn(next, gone), NEW r
    PROVE  reconcile' = next /\ thread' = ThreadsAfter(None, r, gone)
  BY DEF NoSpawn, ThreadsAfter

(* The threads stay well typed.                                            *)
LEMMA ThreadsAfterType ==
    ASSUME PrepareTypeOK, NEW r \in Roots, NEW new, NEW gone
    PROVE  ThreadsAfter(new, r, gone) \in [Threads -> ThreadType]
  BY DEF PrepareTypeOK, ThreadsAfter, FreeThread, NewThread, ThreadType, ThreadPlaces

(* A step of a thread changes where it is and what it refers to.           *)
Becomes(t, place, joins, w) ==
    thread' = [thread EXCEPT ![t] = [at |-> place, root |-> thread[t].root,
                                     joins |-> joins, worker |-> w]]

(* Every assignment to a thread in these terms.                            *)
LEMMA BecomesEffect ==
    ASSUME PrepareTypeOK, NEW t \in Threads, NEW place, NEW w
    PROVE  /\ Goto(t, place) => Becomes(t, place, thread[t].joins, thread[t].worker)
           /\ BeginJoin(t, place) =>
                Becomes(t, place, RetiredOf(thread[t].root), thread[t].worker)
           /\ EndJoin(t, place) => Becomes(t, place, {}, thread[t].worker)
           /\ thread' = [thread EXCEPT ![t].at = place, ![t].joins = {}]
                => Becomes(t, place, {}, thread[t].worker)
           /\ thread' = [thread EXCEPT ![t].at = place, ![t].worker = None]
                => Becomes(t, place, thread[t].joins, None)
           /\ thread' = [thread EXCEPT ![t].at = place, ![t].joins = {}, ![t].worker = w]
                => Becomes(t, place, {}, w)
<1>1. thread \in [Threads -> ThreadType]
  BY DEF PrepareTypeOK, ThreadType
<1>2. thread[t] = [at |-> thread[t].at, root |-> thread[t].root,
                   joins |-> thread[t].joins, worker |-> thread[t].worker]
  BY <1>1 DEF ThreadType
<1>3. QED
  BY <1>1, <1>2 DEF Goto, BeginJoin, EndJoin, Becomes, ThreadType

(* The thread stays well typed.                                            *)
LEMMA BecomesType ==
    ASSUME PrepareTypeOK, NEW t \in Threads, NEW place \in ThreadPlaces,
           NEW joins \in SUBSET Workers, NEW w \in Workers \cup {None},
           Becomes(t, place, joins, w)
    PROVE  thread' \in [Threads -> ThreadType]
  BY DEF Becomes, PrepareTypeOK, ThreadType

(* The check of an index leads to one of the joins.                        *)
LEMMA CheckEffect ==
    ASSUME PrepareTypeOK, NEW t \in Threads, thread[t].root \in Roots, CheckIndex(t)
    PROVE  \E place \in Joining : BeginJoin(t, place)
<1>1. db[thread[t].root] \in Conditions
  BY DEF PrepareTypeOK
<1>2. CASE db[thread[t].root] \in {"torn", "old"}
  BY <1>2 DEF CheckIndex, Joining
<1>3. CASE db[thread[t].root] = "missing"
  BY <1>3 DEF CheckIndex, Joining
<1>4. CASE db[thread[t].root] = "current"
  BY <1>4 DEF CheckIndex, Joining
<1>5. QED
  BY <1>1, <1>2, <1>3, <1>4 DEF Conditions

(* The initial states are well typed.                                      *)
LEMMA TypeInit == Init => PrepareTypeOK
<1> SUFFICES ASSUME Init PROVE PrepareTypeOK
  OBVIOUS
<1>1. (CHOOSE r \in Roots : TRUE) \in Roots
  OBVIOUS
<1>2. worker \in [Workers -> WorkerType]
  BY <1>1 DEF Init, WorkerType, WorkerPlaces
<1>3. reconcile \in Threads \cup {None} /\ thread \in [Threads -> ThreadType]
  BY DEF Init, NewThread, FreeThread, ThreadType, ThreadPlaces
<1>4. prepared \in BOOLEAN
  <2>1. CASE active \in Marked \/ db[active] # "missing"
    BY <2>1 DEF Init, CanSpawn
  <2>2. CASE ~(active \in Marked \/ db[active] # "missing")
    BY <2>2 DEF Init, CanSpawn
  <2>3. QED
    BY <2>1, <2>2
<1>5. /\ db \in [Roots -> Conditions] /\ active \in Roots
      /\ held = None /\ parked = {} /\ failed = {} /\ main = "idle" /\ mainJoins = {}
      /\ retired = {} /\ tried = {} /\ faults = 0 /\ scans = 0
  BY DEF Init
<1>6. main \in MainPlaces /\ faults \in 0..MaxFaults /\ scans \in 0..MaxScans
  BY <1>5 DEF MainPlaces
<1>7. QED
  BY <1>2, <1>3, <1>4, <1>5, <1>6 DEF PrepareTypeOK, ThreadType, WorkerType

(* The steps of a worker and of the user keep the types.                   *)
LEMMA TypeOutside ==
    ASSUME PrepareTypeOK, Environment \/ \E w \in Workers : WorkerStep(w)
    PROVE  PrepareTypeOK'
<1> USE DEF server, history
<1>1. ASSUME NEW r \in Roots, Damage(r) PROVE PrepareTypeOK'
  <2>1. db' \in [Roots -> Conditions] /\ tried' \subseteq Roots
    BY <1>1, SetDbType DEF Damage
  <2>2. faults' \in 0..MaxFaults /\ scans' \in 0..MaxScans
    BY <1>1, FaultType DEF Damage
  <2>3. QED
    BY <1>1, <2>1, <2>2 DEF Damage, PrepareTypeOK
<1>2. ASSUME NEW r \in Roots, UserScans(r) PROVE PrepareTypeOK'
  <2>1. db' \in [Roots -> Conditions] /\ tried' \subseteq Roots
    BY <1>2, SetDbType DEF UserScans, Conditions
  <2>2. scans' \in 0..MaxScans
    BY <1>2 DEF UserScans, PrepareTypeOK
  <2>3. QED
    BY <1>2, <2>1, <2>2 DEF UserScans, PrepareTypeOK
<1>3. ASSUME NEW w \in Workers, WorkerStarts(w) \/ WorkerScans(w) PROVE PrepareTypeOK'
  <2>1. worker[w].root \in Roots
    BY DEF PrepareTypeOK
  <2>2. db' \in [Roots -> Conditions] /\ tried' \subseteq Roots
    BY <1>3, <2>1, SetDbType DEF WorkerStarts, WorkerScans, Conditions
  <2>3. worker' \in [Workers -> WorkerType]
    BY <1>3 DEF WorkerStarts, WorkerScans, PrepareTypeOK, WorkerType, WorkerPlaces
  <2>4. QED
    BY <1>3, <2>2, <2>3 DEF WorkerStarts, WorkerScans, PrepareTypeOK, WorkerType
<1>4. ASSUME NEW w \in Workers, WorkerFailsToStart(w) \/ WorkerEnds(w) PROVE PrepareTypeOK'
  <2>1. worker' \in [Workers -> WorkerType]
    BY <1>4 DEF WorkerFailsToStart, WorkerEnds, PrepareTypeOK, WorkerType, WorkerPlaces
  <2>2. faults' \in 0..MaxFaults /\ scans' \in 0..MaxScans
    BY <1>4, FaultType DEF WorkerFailsToStart, WorkerEnds, PrepareTypeOK
  <2>3. QED
    BY <1>4, <2>1, <2>2 DEF WorkerFailsToStart, WorkerEnds, PrepareTypeOK, WorkerType
<1>5. QED
  BY <1>1, <1>2, <1>3, <1>4 DEF Environment, WorkerStep

(* A worker that is started is a worker.                                   *)
LEMMA StartWorkerType ==
    ASSUME PrepareTypeOK, NEW w \in Workers, NEW r \in Roots, StartWorker(w, r)
    PROVE  worker' \in [Workers -> WorkerType]
  BY DEF PrepareTypeOK, StartWorker, WorkerType, WorkerPlaces

(* Each step of a prepare as a change of its thread.                       *)
LEMMA ThreadEffect ==
    ASSUME PrepareTypeOK, NEW t \in Threads, thread[t].root \in Roots, ThreadStep(t)
    PROVE  \/ /\ CheckIndex(t)
              /\ \E place \in Joining :
                   Becomes(t, place, RetiredOf(thread[t].root), thread[t].worker)
           \/ /\ JoinsEnd(t) /\ Ended(thread[t].joins)
              /\ \/ thread[t].at = "joinRebuild" /\ Becomes(t, "rebuild", {}, thread[t].worker)
                 \/ thread[t].at = "joinCreate" /\ Becomes(t, "create", {}, thread[t].worker)
           \/ /\ BuildIndex(t)
              /\ Becomes(t, "joinStart", RetiredOf(thread[t].root), thread[t].worker)
           \/ /\ RebuildFails(t) \/ CreateFails(t)
              /\ Becomes(t, "err", thread[t].joins, thread[t].worker)
           \/ \E w \in Workers : StartsWatcher(t, w) /\ Becomes(t, "start", {}, w)
           \/ PrepareFails(t) /\ Becomes(t, "err", {}, thread[t].worker)
           \/ /\ StartupEnds(t) /\ worker[thread[t].worker].at = "running"
              /\ Becomes(t, "reconcile", thread[t].joins, thread[t].worker)
           \/ /\ StartupEnds(t) /\ worker[thread[t].worker].at = "ended"
              /\ Becomes(t, "err", thread[t].joins, None)
           \/ Reconciles(t) /\ Becomes(t, "ok", thread[t].joins, thread[t].worker)
           \/ ReconcileFails(t) /\ Becomes(t, "err", thread[t].joins, None)
<1>1. CASE CheckIndex(t)
  BY <1>1, CheckEffect, BecomesEffect
<1>2. CASE JoinsEnd(t)
  BY <1>2, BecomesEffect DEF JoinsEnd, EndJoin
<1>3. CASE BuildIndex(t)
  BY <1>3, BecomesEffect DEF BuildIndex
<1>4. CASE RebuildFails(t) \/ CreateFails(t)
  BY <1>4, BecomesEffect DEF RebuildFails, CreateFails
<1>5. CASE \E w \in Workers : StartsWatcher(t, w)
  BY <1>5, BecomesEffect DEF StartsWatcher
<1>6. CASE PrepareFails(t)
  BY <1>6, BecomesEffect DEF PrepareFails
<1>7. CASE StartupEnds(t)
  BY <1>7, BecomesEffect DEF StartupEnds
<1>8. CASE Reconciles(t)
  BY <1>8, BecomesEffect DEF Reconciles
<1>9. CASE ReconcileFails(t)
  BY <1>9, BecomesEffect DEF ReconcileFails
<1>10. QED
  BY <1>1, <1>2, <1>3, <1>4, <1>5, <1>6, <1>7, <1>8, <1>9 DEF ThreadStep

(* The steps of a prepare keep the types.                                  *)
LEMMA TypeThread ==
    ASSUME PrepareTypeOK, ThreadsAreKnown, ThreadsHold, NEW t \in Threads, ThreadStep(t)
    PROVE  PrepareTypeOK'
<1> USE DEF server, history, ThreadOnly
<1>1. thread[t].at # "free"
  BY DEF ThreadStep, CheckIndex, JoinsEnd, BuildIndex, RebuildFails, CreateFails,
         StartsWatcher, PrepareFails, StartupEnds, Reconciles, ReconcileFails
<1>2. thread[t].root \in Roots
  BY <1>1 DEF ThreadsAreKnown
<1>3. /\ thread[t].joins \subseteq Workers /\ RetiredOf(thread[t].root) \subseteq Workers
      /\ thread[t].worker \in Workers \cup {None}
  BY DEF PrepareTypeOK, RetiredOf
<1>4. thread' \in [Threads -> ThreadType]
  <2>1. \/ \E place \in Joining :
              Becomes(t, place, RetiredOf(thread[t].root), thread[t].worker)
        \/ \E place \in {"rebuild", "create", "joinStart", "err", "reconcile", "ok"},
               joins \in {{}, RetiredOf(thread[t].root), thread[t].joins},
               w \in {None, thread[t].worker} :
              Becomes(t, place, joins, w)
        \/ \E w \in Workers : Becomes(t, "start", {}, w)
    BY <1>2, ThreadEffect
  <2>2. Joining \subseteq ThreadPlaces /\ "start" \in ThreadPlaces
        /\ {"rebuild", "create", "joinStart", "err", "reconcile", "ok"} \subseteq ThreadPlaces
    BY DEF ThreadPlaces, Joining
  <2>3. QED
    BY <1>3, <2>1, <2>2, BecomesType
<1>5. retired' \subseteq Workers /\ worker' \in [Workers -> WorkerType]
  <2>1. CASE ReconcileFails(t)
    <3>1. thread[t].worker \in Workers
      BY <2>1 DEF ReconcileFails, ThreadsHold, Watching, PrepareTypeOK
    <3>2. QED
      BY <2>1, <3>1, DropType DEF ReconcileFails
  <2>2. ASSUME NEW w \in Workers, StartsWatcher(t, w)
        PROVE  retired' \subseteq Workers /\ worker' \in [Workers -> WorkerType]
    BY <1>2, <2>2, StartWorkerType DEF StartsWatcher, PrepareTypeOK
  <2>3. ASSUME NEW place, BeginJoin(t, place) PROVE retired' \subseteq Workers
    BY <2>3 DEF BeginJoin, PrepareTypeOK
  <2>4. CASE CheckIndex(t) \/ BuildIndex(t)
    BY <1>2, <2>3, <2>4, CheckEffect DEF CheckIndex, BuildIndex, PrepareTypeOK, WorkerType
  <2>5. CASE \/ JoinsEnd(t) \/ RebuildFails(t) \/ CreateFails(t) \/ PrepareFails(t)
             \/ StartupEnds(t) \/ Reconciles(t)
    BY <2>5 DEF JoinsEnd, RebuildFails, CreateFails, PrepareFails, StartupEnds, Reconciles,
                PrepareTypeOK, WorkerType
  <2>6. QED
    BY <2>1, <2>2, <2>4, <2>5 DEF ThreadStep
<1>6. db' \in [Roots -> Conditions] /\ tried' \subseteq Roots
  <2>1. CASE SetDb(thread[t].root, "current") \/ SetDb(thread[t].root, "missing")
             \/ SetDb(thread[t].root, "old")
    BY <1>2, <2>1, SetDbType DEF Conditions
  <2>2. CASE UNCHANGED db /\ tried' \subseteq tried \cup {thread[t].root}
    BY <1>2, <2>2 DEF PrepareTypeOK
  <2>3. QED
    BY <2>1, <2>2 DEF ThreadStep, CheckIndex, JoinsEnd, BuildIndex, RebuildFails, CreateFails,
                      StartsWatcher, PrepareFails, StartupEnds, Reconciles, ReconcileFails
<1>7. faults' \in 0..MaxFaults /\ scans' \in 0..MaxScans
  BY FaultType DEF PrepareTypeOK, ThreadStep, CheckIndex, JoinsEnd, BuildIndex, RebuildFails,
         CreateFails, StartsWatcher, PrepareFails, StartupEnds, Reconciles, ReconcileFails
<1>8. UNCHANGED server
  BY DEF ThreadStep, CheckIndex, JoinsEnd, BuildIndex, RebuildFails, CreateFails,
         StartsWatcher, PrepareFails, StartupEnds, Reconciles, ReconcileFails
<1>9. QED
  BY <1>4, <1>5, <1>6, <1>7, <1>8 DEF PrepareTypeOK, ThreadType, WorkerType
-----------------------------------------------------------------------------
(* A call frees the threads of `gone`, drops the watchers `ws`, and may    *)
(* spawn the prepare `new` of the root that is then active.                *)

HandsOver(gone, new, ws) ==
    /\ gone \subseteq {t \in Threads : Finished(t)}
    /\ new \in Threads \cup {None} /\ (new # None => thread[new].at = "free")
    /\ thread' = ThreadsAfter(new, active', gone)
    /\ ws \subseteq Started(gone) \cup OnlyOf(held)
    /\ worker' = [w \in Workers |-> IF w \in ws THEN [worker[w] EXCEPT !.at = "stopping"]
                                                ELSE worker[w]]
    /\ retired' \subseteq retired \cup ws
    /\ ws \cup {w \in retired : Live(w)} \subseteq retired'
    /\ Started(gone) \cup OnlyOf(held) \subseteq ws \cup OnlyOf(held')
    /\ active' \in Roots
    /\ mainJoins' = {} /\ \A w \in mainJoins : Live(w) => w = held'
    /\ main' # "join"

(* A worker that is dropped is of no root whose prepare goes on.           *)
LEMMA DroppedClash ==
    ASSUME PrepareInv, NEW gone, NEW new, NEW ws, HandsOver(gone, new, ws),
           NEW w \in ws, NEW u \in Threads \ gone, thread[u].at # "free"
    PROVE  w \in Workers /\ thread[u].root # worker[w].root /\ thread[u].worker # w
<1> USE DEF PrepareInv
<1>1. u \in parked \cup {reconcile} /\ thread[u].root \in Roots
  BY DEF ThreadsAreKnown
<1>2. CASE w \in Started(gone)
  <2>1. PICK t \in gone : t \in Threads /\ thread[t].at = "ok" /\ w = thread[t].worker
    BY <1>2 DEF Started, HandsOver
  <2>2. w \in Workers /\ worker[w].root = thread[t].root
    BY <2>1 DEF ThreadsHold, Watching, PrepareTypeOK
  <2>3. thread[u].root # thread[t].root
    BY <2>1 DEF OnePreparePerRoot
  <2>4. thread[u].worker = w => worker[w].root = thread[u].root
    BY <2>2 DEF ThreadsHold
  <2>5. QED
    BY <2>2, <2>3, <2>4
<1>3. CASE w \in OnlyOf(held)
  <2>1. w = held /\ held # None /\ w \in Workers
    BY <1>3 DEF OnlyOf, PrepareTypeOK
  <2>2. worker[w].root = active /\ reconcile = None
    BY <2>1 DEF ServerHolds
  <2>3. u \in parked /\ thread[u].root # active
    BY <1>1, <2>2 DEF OnePreparePerRoot
  <2>4. thread[u].worker = w => worker[w].root = thread[u].root
    BY <2>1 DEF ThreadsHold
  <2>5. QED
    BY <2>1, <2>2, <2>3, <2>4
<1>4. QED
  BY <1>2, <1>3 DEF HandsOver

(* What a hand-over does to one thread and to one worker.                  *)
LEMMA HandOverEffect ==
    ASSUME PrepareInv, NEW gone, NEW new, NEW ws, HandsOver(gone, new, ws)
    PROVE  /\ \A u \in Threads :
                \/ thread'[u] = FreeThread
                \/ u = new /\ thread'[u] = NewThread(active')
                \/ /\ u # new /\ u \notin gone /\ thread'[u] = thread[u]
           /\ \A w \in Workers :
                /\ worker'[w].root = worker[w].root
                /\ w \in ws => worker'[w].at = "stopping"
                /\ w \notin ws => worker'[w] = worker[w]
<1>1. ASSUME NEW w \in Workers
      PROVE  /\ worker'[w].root = worker[w].root
             /\ w \in ws => worker'[w].at = "stopping"
             /\ w \notin ws => worker'[w] = worker[w]
  <2>1. worker[w] \in WorkerType
    BY DEF PrepareInv, PrepareTypeOK, WorkerType
  <2>2. CASE w \in ws
    <3>1. worker'[w] = [worker[w] EXCEPT !.at = "stopping"]
      BY <2>2 DEF HandsOver
    <3>2. QED
      BY <2>1, <2>2, <3>1 DEF WorkerType
  <2>3. CASE w \notin ws
    BY <2>3 DEF HandsOver
  <2>4. QED
    BY <2>2, <2>3
<1>2. ASSUME NEW u \in Threads
      PROVE  \/ thread'[u] = FreeThread
             \/ u = new /\ thread'[u] = NewThread(active')
             \/ u # new /\ u \notin gone /\ thread'[u] = thread[u]
  BY DEF HandsOver, ThreadsAfter
<1>3. QED
  BY <1>1, <1>2

(* Threads that go on keep what they refer to.                             *)
LEMMA HandOverHolds ==
    ASSUME PrepareInv, NEW gone, NEW new, NEW ws, HandsOver(gone, new, ws)
    PROVE  ThreadsHold' /\ RetiredAreStopped'
<1> USE DEF PrepareInv
<1>1. ASSUME NEW u \in Threads
      PROVE  /\ thread'[u].at \notin Joining => thread'[u].joins = {}
             /\ \A w \in thread'[u].joins :
                  Stopped(w)' /\ worker'[w].root = thread'[u].root
             /\ thread'[u].at \in Watching <=> thread'[u].worker # None
             /\ thread'[u].worker # None =>
                  worker'[thread'[u].worker].root = thread'[u].root
             /\ thread'[u].at \in {"reconcile", "ok"} =>
                  worker'[thread'[u].worker].at = "running"
  <2>1. CASE thread'[u] = FreeThread
    BY <2>1 DEF FreeThread, Watching, Joining
  <2>2. CASE thread'[u] = NewThread(active')
    BY <2>2 DEF NewThread, Watching, Joining
  <2>3. CASE u \notin gone /\ thread'[u] = thread[u] /\ thread[u].at # "free"
    <3>1. thread[u].joins \subseteq Workers /\ thread[u].worker \in Workers \cup {None}
      BY DEF PrepareTypeOK
    <3>2. \A w \in thread[u].joins : Stopped(w)'
      BY <3>1, HandOverEffect DEF ThreadsHold, Stopped
    <3>3. thread[u].worker # None => worker'[thread[u].worker] = worker[thread[u].worker]
      BY <2>3, <3>1, HandOverEffect, DroppedClash
    <3>4. thread[u].at \in {"reconcile", "ok"} => thread[u].worker # None
      BY DEF ThreadsHold, Watching
    <3>5. QED
      BY <2>3, <3>1, <3>2, <3>3, <3>4, HandOverEffect DEF ThreadsHold
  <2>4. CASE thread'[u] = thread[u] /\ thread[u].at = "free"
    BY <2>1, <2>4 DEF ThreadsAreKnown
  <2>5. QED
    BY <2>1, <2>2, <2>3, <2>4, HandOverEffect
<1>2. ThreadsHold'
  BY <1>1 DEF ThreadsHold
<1>3. ASSUME NEW w \in retired' PROVE Stopped(w)'
  <2>1. w \in retired \/ w \in ws
    BY <1>3 DEF HandsOver
  <2>2. w \in Workers
    BY <2>1, StartedType DEF HandsOver, OnlyOf, PrepareTypeOK
  <2>3. QED
    BY <2>1, <2>2, HandOverEffect DEF RetiredAreStopped, Stopped
<1>4. QED
  BY <1>2, <1>3 DEF RetiredAreStopped
(* No worker is forgotten: it is handed over, dropped into the list, or    *)
(* still with its thread.                                                  *)
LEMMA HandOverKnown ==
    ASSUME PrepareInv, NEW gone, NEW new, NEW ws, HandsOver(gone, new, ws)
    PROVE  LiveAreKnown'
<1> USE DEF PrepareInv
<1> SUFFICES ASSUME NEW w \in Workers, Live(w)'
             PROVE  \/ w \in retired' \cup mainJoins' \cup {held'}
                    \/ \E t \in Threads : w \in thread'[t].joins \cup {thread'[t].worker}
  BY DEF LiveAreKnown
<1>1. CASE w \in ws
  BY <1>1 DEF HandsOver
<1>2. CASE w \notin ws
  <2>1. Live(w)
    BY <1>2, HandOverEffect DEF Live
  <2>2. CASE w \in retired \cup mainJoins \cup {held}
    <3>1. w # None
      OBVIOUS
    <3>2. QED
      BY <1>2, <2>1, <2>2, <3>1 DEF HandsOver, OnlyOf
  <2>3. ASSUME NEW t \in Threads, w \in thread[t].joins \cup {thread[t].worker}
        PROVE  \/ w = held'
               \/ w \in thread'[t].joins \cup {thread'[t].worker}
    <3>1. CASE t \in gone
      <4>1. thread[t].at \in {"ok", "err"}
        BY <3>1 DEF HandsOver, Finished
      <4>2. w = thread[t].worker /\ w # None
        BY <2>3, <4>1 DEF ThreadsHold, Joining
      <4>3. thread[t].at = "ok"
        BY <4>1, <4>2 DEF ThreadsHold, Watching
      <4>4. w \in Started(gone)
        BY <3>1, <4>2, <4>3 DEF Started
      <4>5. QED
        BY <1>2, <4>4 DEF HandsOver, OnlyOf
    <3>2. CASE t \notin gone /\ t # new
      BY <2>3, <3>2 DEF HandsOver, ThreadsAfter
    <3>3. CASE t = new
      <4>1. thread[t] = FreeThread
        BY <3>3 DEF HandsOver, ThreadsAreKnown
      <4>2. w = None
        BY <2>3, <4>1 DEF FreeThread
      <4>3. QED
        BY <4>2
    <3>4. QED
      BY <3>1, <3>2, <3>3
  <2>4. QED
    BY <2>1, <2>2, <2>3 DEF LiveAreKnown
<1>3. QED
  BY <1>1, <1>2

(* The worker of a dropped watcher joins the list only when no prepare of  *)
(* its root goes on, and no root gets a second worker.                     *)
LEMMA HandOverJoined ==
    ASSUME PrepareInv, NEW gone, NEW new, NEW ws, HandsOver(gone, new, ws)
    PROVE  AllAreJoined' /\ OneWorkerPerRoot'
<1> USE DEF PrepareInv
<1>1. ASSUME NEW w \in Workers, Live(w)' PROVE Live(w) \/ w \in ws
  BY <1>1, HandOverEffect DEF Live
<1>2. ASSUME NEW w \in ws PROVE w \in Workers /\ Live(w)
  <2>1. CASE w \in OnlyOf(held)
    BY <2>1 DEF OnlyOf, PrepareTypeOK, ServerHolds, Live
  <2>2. CASE w \in Started(gone)
    BY <2>2 DEF Started, HandsOver, ThreadsHold, Watching, PrepareTypeOK, Live
  <2>3. QED
    BY <2>1, <2>2 DEF HandsOver
<1>3. ASSUME NEW w \in retired', Live(w)', NEW t \in Threads,
             thread'[t].at \in Joining \cup {"rebuild", "create"}
      PROVE  worker'[w].root # thread'[t].root
  <2>1. t \notin gone /\ t # new /\ thread'[t] = thread[t] /\ thread[t].at # "free"
    <3>1. thread'[t].at \notin {"free", "check"}
      BY <1>3 DEF Joining
    <3>2. FreeThread.at = "free" /\ NewThread(active').at = "check"
      BY DEF FreeThread, NewThread
    <3>3. QED
      BY <3>1, <3>2, HandOverEffect
  <2>2. w \in Workers
    BY <1>2 DEF HandsOver, PrepareTypeOK
  <2>3. CASE w \in ws
    BY <2>1, <2>2, <2>3, DroppedClash, HandOverEffect
  <2>4. CASE w \notin ws
    <3>1. w \in retired /\ Live(w)
      BY <1>1, <1>3, <2>2, <2>4 DEF HandsOver
    <3>2. worker[w].root # thread[t].root
      BY <1>3, <2>1, <3>1 DEF AllAreJoined
    <3>3. QED
      BY <2>1, <2>2, <3>2, HandOverEffect
  <2>5. QED
    BY <2>3, <2>4
<1>4. AllAreJoined'
  BY <1>3 DEF AllAreJoined, HandsOver
<1>5. OneWorkerPerRoot'
  <2> SUFFICES ASSUME NEW v \in Workers, NEW w \in Workers, Live(v)', Live(w)',
                      worker'[v].root = worker'[w].root
               PROVE  v = w
    BY DEF OneWorkerPerRoot
  <2>1. Live(v) /\ Live(w)
    BY <1>1, <1>2
  <2>2. worker[v].root = worker[w].root
    BY HandOverEffect
  <2>3. QED
    BY <2>1, <2>2 DEF OneWorkerPerRoot
<1>6. QED
  BY <1>4, <1>5

(* The threads after a hand-over are again those the server knows: `new`,  *)
(* if any, is the prepare of the active root, and no other one is of it.   *)
LEMMA HandOverThreads ==
    ASSUME PrepareInv, NEW gone, NEW new, NEW ws, HandsOver(gone, new, ws),
           OnlyOf(reconcile') \cup parked' = ((OnlyOf(reconcile) \cup parked) \ gone) \cup OnlyOf(new),
           \A t \in parked' : t # new /\ thread[t].root # active',
           new # None => reconcile' = new,
           reconcile' \notin {None, new} => thread[reconcile'].root = active'
    PROVE  ThreadsAreKnown' /\ OnePreparePerRoot'
<1> USE DEF PrepareInv
<1>1. ASSUME NEW t \in Threads
      PROVE  /\ t \in parked' \cup {reconcile'} <=>
                  (t \in parked \cup {reconcile} /\ t \notin gone) \/ t = new
             /\ t \in gone => thread[t].at # "free"
             /\ t = new => thread[t].at = "free"
  <2>1. t # None
    OBVIOUS
  <2>2. QED
    BY <2>1 DEF OnlyOf, HandsOver, Finished
<1>2. ASSUME NEW t \in Threads
      PROVE  IF thread'[t].at = "free"
             THEN thread'[t] = FreeThread /\ t \notin parked' \cup {reconcile'}
             ELSE thread'[t].root \in Roots /\ t \in parked' \cup {reconcile'}
  <2>1. CASE t = new
    <3>1. thread'[t] = NewThread(active')
      BY <2>1 DEF HandsOver, ThreadsAfter
    <3>2. QED
      BY <1>1, <2>1, <3>1 DEF NewThread, HandsOver
  <2>2. CASE t \in gone /\ t # new
    <3>1. thread'[t] = FreeThread
      BY <2>2 DEF HandsOver, ThreadsAfter
    <3>2. QED
      BY <1>1, <2>2, <3>1 DEF FreeThread
  <2>3. CASE t \notin gone /\ t # new
    <3>1. thread'[t] = thread[t]
      BY <2>3 DEF HandsOver, ThreadsAfter
    <3>2. QED
      BY <1>1, <2>3, <3>1 DEF ThreadsAreKnown
  <2>4. QED
    BY <2>1, <2>2, <2>3
<1>3. ThreadsAreKnown'
  BY <1>2 DEF ThreadsAreKnown
<1>4. ASSUME NEW t \in Threads, thread'[t].at # "free"
      PROVE  \/ t = new /\ thread'[t].root = active'
             \/ /\ t # new /\ thread'[t] = thread[t] /\ thread[t].at # "free"
                /\ t = reconcile' \/ thread[t].root # active'
  <2>1. CASE t = new
    BY <2>1 DEF HandsOver, ThreadsAfter, NewThread
  <2>2. CASE t # new
    <3>1. thread'[t] = thread[t]
      BY <1>4, <2>2 DEF HandsOver, ThreadsAfter, FreeThread
    <3>2. t \in parked' \cup {reconcile'}
      BY <1>2, <1>4
    <3>3. QED
      BY <1>4, <2>2, <3>1, <3>2
  <2>3. QED
    BY <2>1, <2>2
<1>5. OnePreparePerRoot'
  <2>1. ASSUME NEW t \in Threads, NEW u \in Threads, thread'[t].at # "free",
               thread'[u].at # "free", thread'[t].root = thread'[u].root
        PROVE  t = u
    <3>1. CASE t = new \/ u = new
      BY <1>4, <2>1, <3>1
    <3>2. CASE t # new /\ u # new
      BY <1>4, <2>1, <3>2 DEF OnePreparePerRoot
    <3>3. QED
      BY <3>1, <3>2
  <2>2. ASSUME NEW t \in parked' PROVE thread'[t].root # active'
    <3>1. t \in Threads /\ t # new /\ t \notin gone
      BY <2>2, <1>1 DEF OnlyOf, PrepareTypeOK
    <3>2. QED
      BY <2>2, <3>1 DEF HandsOver, ThreadsAfter
  <2>3. ASSUME reconcile' # None PROVE thread'[reconcile'].root = active'
    <3>1. reconcile' \in Threads
      BY <2>3 DEF OnlyOf, PrepareTypeOK, HandsOver
    <3>2. thread'[reconcile'].at # "free"
      BY <1>2, <3>1
    <3>3. QED
      BY <1>4, <2>3, <3>1, <3>2
  <2>4. QED
    BY <2>1, <2>2, <2>3 DEF OnePreparePerRoot
<1>6. QED
  BY <1>3, <1>5

(* A failed rebuild is on record when its thread is freed, and its root is *)
(* not prepared again.                                                     *)
LEMMA HandOverTried ==
    ASSUME PrepareInv, NEW gone, NEW new, NEW ws, HandsOver(gone, new, ws),
           UNCHANGED <<db, tried>>,
           Recorded(gone) \cup (tried \cap failed) \subseteq failed',
           new # None => active' \notin tried
    PROVE  TriedAreKnown'
<1> USE DEF PrepareInv
<1>1. ASSUME NEW r \in tried
      PROVE  r \in failed' \/ \E t \in Threads : thread'[t].at = "err" /\ thread'[t].root = r
  <2>1. CASE r \in failed
    BY <2>1
  <2>2. ASSUME NEW t \in Threads, thread[t].at = "err", thread[t].root = r
        PROVE  r \in failed' \/ thread'[t] = thread[t]
    <3>1. CASE t \in gone
      BY <2>2, <3>1 DEF Recorded, TriedAreKnown, PrepareTypeOK
    <3>2. CASE t \notin gone
      BY <2>2, <3>2 DEF HandsOver, ThreadsAfter
    <3>3. QED
      BY <3>1, <3>2
  <2>3. QED
    BY <2>1, <2>2 DEF TriedAreKnown
<1>2. ASSUME NEW t \in Threads, thread'[t].at # "err" PROVE thread'[t].root \notin tried
  <2>1. None \notin tried
    BY DEF PrepareTypeOK
  <2>2. t = new => active' \notin tried
    OBVIOUS
  <2>3. QED
    BY <1>2, <2>1, <2>2, HandOverEffect DEF FreeThread, NewThread, TriedAreKnown
<1>3. QED
  BY <1>1, <1>2 DEF TriedAreKnown
(* A hand-over keeps the inductive invariant.                              *)
LEMMA HandOverInv ==
    ASSUME PrepareInv, NEW gone, NEW new, NEW ws, HandsOver(gone, new, ws),
           UNCHANGED <<db, tried, faults, scans>>,
           prepared' \in BOOLEAN, held' \in Workers \cup {None},
           parked' \subseteq Threads, failed' \subseteq Roots,
           main' \in MainPlaces \ {"join", "startup"},
           OnlyOf(reconcile') \cup parked' = ((OnlyOf(reconcile) \cup parked) \ gone) \cup OnlyOf(new),
           \A t \in parked' : t # new /\ thread[t].root # active',
           new # None => reconcile' = new,
           reconcile' \notin {None, new} => thread[reconcile'].root = active',
           Recorded(gone) \cup (tried \cap failed) \subseteq failed',
           new # None => active' \notin tried,
           held' # None => /\ worker'[held'].at = "running" /\ worker'[held'].root = active'
                           /\ reconcile' = None,
           main' \in {"open", "answer"} => held' # None
    PROVE  PrepareInv'
<1>1. worker' \in [Workers -> WorkerType]
  <2>1. \A w \in Workers : worker[w] \in WorkerType
    BY DEF PrepareInv, PrepareTypeOK, WorkerType
  <2>2. \A w \in Workers : [worker[w] EXCEPT !.at = "stopping"] \in WorkerType
    BY <2>1 DEF WorkerType, WorkerPlaces
  <2>3. QED
    BY <2>1, <2>2 DEF HandsOver
<1>2. thread' \in [Threads -> ThreadType]
  BY ThreadsAfterType DEF HandsOver, PrepareInv
<1>3. reconcile' \in Threads \cup {None}
  BY DEF OnlyOf, PrepareInv, PrepareTypeOK, HandsOver
<1>4. retired' \subseteq Workers
  <2>1. ws \subseteq Workers
    BY StartedType DEF HandsOver, OnlyOf, PrepareInv, PrepareTypeOK
  <2>2. QED
    BY <2>1 DEF HandsOver, PrepareInv, PrepareTypeOK
<1>5. PrepareTypeOK'
  BY <1>1, <1>2, <1>3, <1>4 DEF PrepareInv, PrepareTypeOK, HandsOver, ThreadType, WorkerType
<1>6. ServerHolds'
  <2>1. ASSUME held' # None PROVE worker'[held'] = [at |-> "running", root |-> active']
    BY <1>1, <2>1 DEF WorkerType
  <2>2. QED
    BY <2>1 DEF ServerHolds, HandsOver
<1>7. QED
  BY <1>5, <1>6, HandOverHolds, HandOverKnown, HandOverJoined, HandOverThreads, HandOverTried
     DEF PrepareInv

(* What Drop does to the list.                                             *)
LEMMA DropEffect ==
    ASSUME NEW ws, Drop(ws)
    PROVE  /\ worker' = [w \in Workers |-> IF w \in ws THEN [worker[w] EXCEPT !.at = "stopping"]
                                                       ELSE worker[w]]
           /\ retired' \subseteq retired \cup ws
           /\ ws \cup {w \in retired : Live(w)} \subseteq retired'
  BY DEF Drop, Live

(* A call for the active root settles the parked prepares that are over.   *)
LEMMA InvCallSameRoot ==
    ASSUME PrepareInv, CallSameRoot
    PROVE  PrepareInv'
<1> DEFINE settled == {t \in parked : Finished(t)}
           ws == Started(settled)
<1> USE DEF server, history
<1>1. /\ main = "idle" /\ main' = "gate" /\ parked' = parked \ settled
      /\ failed' = failed \cup Recorded(settled)
      /\ Drop(ws) /\ NoSpawn(reconcile, settled)
      /\ UNCHANGED <<db, active, prepared, held, mainJoins, tried, faults, scans>>
  BY DEF CallSameRoot
<1>2. PrepareTypeOK
  BY DEF PrepareInv
<1>3. reconcile' = reconcile /\ thread' = ThreadsAfter(None, active', settled)
  BY <1>1, NoSpawnEffect
<1>4. mainJoins = {}
  BY <1>1 DEF PrepareInv, ServerHolds
<1>5. HandsOver(settled, None, ws)
  BY <1>1, <1>2, <1>3, <1>4, DropEffect DEF HandsOver, PrepareTypeOK
<1>6. reconcile \notin settled
  BY <1>2 DEF PrepareInv, OnePreparePerRoot, PrepareTypeOK
<1>7. ASSUME held # None
      PROVE  worker'[held'].at = "running" /\ worker'[held'].root = active' /\ reconcile' = None
  <2>1. worker[held] = [at |-> "running", root |-> active] /\ reconcile = None /\ held \in Workers
    BY <1>2, <1>7 DEF PrepareInv, ServerHolds, PrepareTypeOK
  <2>2. held \notin ws
    <3>1. ASSUME NEW t \in settled, held = thread[t].worker PROVE FALSE
      <4>1. t \in Threads /\ thread[t].root # active
        BY <1>2 DEF PrepareInv, OnePreparePerRoot, PrepareTypeOK
      <4>2. worker[held].root = thread[t].root
        BY <1>7, <3>1, <4>1 DEF PrepareInv, ThreadsHold
      <4>3. QED
        BY <2>1, <4>1, <4>2
    <3>2. QED
      BY <3>1 DEF Started
  <2>3. worker'[held] = worker[held]
    BY <1>5, <2>1, <2>2, HandOverEffect
  <2>4. QED
    BY <1>1, <1>3, <2>1, <2>3
<1>8. /\ OnlyOf(reconcile') \cup parked' = ((OnlyOf(reconcile) \cup parked) \ settled) \cup OnlyOf(None)
      /\ \A t \in parked' : t # None /\ thread[t].root # active'
      /\ reconcile' # None => thread[reconcile'].root = active'
  BY <1>1, <1>2, <1>3, <1>6 DEF OnlyOf, PrepareInv, OnePreparePerRoot, PrepareTypeOK
<1>9. failed' \subseteq Roots
  BY <1>1, <1>2 DEF PrepareTypeOK, Recorded
<1> HIDE DEF settled, ws
<1>10. main' \in MainPlaces \ {"join", "startup"} /\ main' \notin {"open", "answer"}
  BY <1>1 DEF MainPlaces
<1>11. parked' \subseteq Threads /\ prepared' \in BOOLEAN /\ held' \in Workers \cup {None}
  BY <1>1, <1>2 DEF PrepareTypeOK
<1>12. QED
  BY <1>1, <1>5, <1>7, <1>8, <1>9, <1>10, <1>11, HandOverInv
(* A call for another root drops the watcher, settles the prepares that    *)
(* are over, and parks, resumes or spawns one.                             *)
LEMMA InvSwitchRoot ==
    ASSUME PrepareInv, NEW r \in Roots, SwitchRoot(r)
    PROVE  PrepareInv'
<1> DEFINE left    == parked \cup OnlyOf(reconcile)
           settled == {t \in left : Finished(t)}
           resumed == Resumable(left \ settled, r)
           errors  == failed \cup Recorded(settled)
           ws      == Started(settled) \cup OnlyOf(held)
<1> USE DEF server, history
<1>1. /\ main = "idle" /\ main' = "gate" /\ active' = r /\ prepared' = TRUE
      /\ held' = None /\ Drop(ws)
      /\ parked' = left \ (settled \cup resumed)
      /\ failed' = IF resumed = {} /\ db[r] # "torn" THEN errors \ {r} ELSE errors
      /\ UNCHANGED <<db, mainJoins, tried, faults, scans>>
  BY DEF SwitchRoot, Release
<1>2. \/ \E t \in resumed : NoSpawn(t, settled)
      \/ resumed = {} /\ r \in failed' /\ NoSpawn(None, settled)
      \/ resumed = {} /\ r \notin failed' /\ Spawn(r, settled)
  BY DEF SwitchRoot
<1>3. PrepareTypeOK
  BY DEF PrepareInv
<1>4. mainJoins = {}
  BY <1>1 DEF PrepareInv, ServerHolds
<1>5. left \subseteq Threads /\ settled \subseteq left
      /\ \A t \in left : thread[t].at # "free"
  BY <1>3 DEF OnlyOf, PrepareTypeOK, PrepareInv, ThreadsAreKnown
<1>6. \A t \in Threads : thread[t].at # "free" => t \in left
  BY DEF OnlyOf, PrepareInv, ThreadsAreKnown
<1>7. resumed \subseteq left \ settled /\ \A t \in left \ settled : t \in resumed <=> thread[t].root = r
  BY DEF Resumable
<1>8. Recorded(settled) \cup (tried \cap failed) \subseteq failed' /\ failed' \subseteq Roots
  <2>1. \A x \in Recorded(settled) \cup tried : x \in Roots /\ db[x] = "torn"
    BY <1>3 DEF Recorded, PrepareInv, TriedAreKnown, PrepareTypeOK
  <2>2. failed \subseteq Roots
    BY <1>3 DEF PrepareTypeOK
  <2>3. QED
    BY <1>1, <2>1, <2>2
<1>9. r \in tried => r \in failed'
  <2> SUFFICES ASSUME r \in tried, r \notin failed PROVE r \in Recorded(settled)
    BY <1>8
  <2>1. PICK t \in Threads : thread[t].at = "err" /\ thread[t].root = r
    BY DEF PrepareInv, TriedAreKnown
  <2>2. t \in settled
    BY <1>6, <2>1 DEF Finished
  <2>3. db[r] = "torn"
    BY DEF PrepareInv, TriedAreKnown
  <2>4. QED
    BY <2>1, <2>2, <2>3 DEF Recorded
<1>10. PICK new \in Threads \cup {None} :
         /\ thread' = ThreadsAfter(new, active', settled)
         /\ new # None => thread[new].at = "free" /\ reconcile' = new /\ r \notin failed'
         /\ \/ resumed = {} /\ reconcile' = new
            \/ new = None /\ reconcile' \in resumed
  <2>1. CASE \E t \in resumed : NoSpawn(t, settled)
    <3>1. PICK t \in resumed : NoSpawn(t, settled)
      BY <2>1
    <3>2. reconcile' = t /\ thread' = ThreadsAfter(None, active', settled)
      BY <3>1, NoSpawnEffect
    <3>3. QED
      BY <3>1, <3>2
  <2>2. CASE resumed = {} /\ NoSpawn(None, settled)
    BY <2>2, NoSpawnEffect
  <2>3. CASE resumed = {} /\ r \notin failed' /\ Spawn(r, settled)
    BY <1>1, <1>5, <2>3, SpawnEffect
  <2>4. QED
    BY <1>2, <2>1, <2>2, <2>3
<1>11. HandsOver(settled, new, ws)
  BY <1>1, <1>4, <1>5, <1>10, DropEffect DEF HandsOver
<1>12. \A t \in parked' : t # new /\ thread[t].root # active'
  BY <1>1, <1>5, <1>7, <1>10
<1>13. reconcile' \notin {None, new} => thread[reconcile'].root = active'
  BY <1>1, <1>7, <1>10
<1>14. left \ settled = (parked' \cup OnlyOf(reconcile')) \ OnlyOf(new)
  <2>1. CASE resumed = {} /\ reconcile' = new
    <3>1. new \notin left
      BY <1>5, <1>10
    <3>2. parked' = left \ settled
      BY <1>1, <2>1
    <3>3. QED
      BY <2>1, <3>1, <3>2 DEF OnlyOf
  <2>2. CASE new = None /\ reconcile' \in resumed
    <3>1. \A t \in resumed : t = reconcile'
      BY <1>5, <1>7, <2>2 DEF PrepareInv, OnePreparePerRoot
    <3>2. resumed = {reconcile'} /\ reconcile' # None
      BY <1>5, <1>7, <2>2, <3>1
    <3>3. QED
      BY <1>1, <1>7, <2>2, <3>2 DEF OnlyOf
  <2>3. QED
    BY <1>10, <2>1, <2>2
<1>15. OnlyOf(new) \subseteq OnlyOf(reconcile')
  BY <1>10 DEF OnlyOf
<1> HIDE DEF settled, resumed, errors, ws
<1>16. OnlyOf(reconcile') \cup parked' = ((OnlyOf(reconcile) \cup parked) \ settled) \cup OnlyOf(new)
  BY <1>14, <1>15
<1>17. main' \in MainPlaces \ {"join", "startup"} /\ main' \notin {"open", "answer"}
  BY <1>1 DEF MainPlaces
<1>18. parked' \subseteq Threads /\ prepared' \in BOOLEAN /\ held' \in Workers \cup {None}
  BY <1>1, <1>5
<1>19. new # None => active' \notin tried /\ reconcile' = new
  BY <1>1, <1>9, <1>10
<1> HIDE DEF left
<1>20. QED
  BY <1>1, <1>8, <1>11, <1>12, <1>13, <1>16, <1>17, <1>18, <1>19, HandOverInv
(* At the gate the server knows of no retired worker it waits for, and the *)
(* prepare it has joined is the only one of the active root.               *)
LEMMA GateFacts ==
    ASSUME PrepareInv, AtGate
    PROVE  /\ mainJoins = {}
           /\ Joined \subseteq Threads /\ \A t \in Joined : t = reconcile /\ Finished(t)
           /\ Joined \cap parked = {}
           /\ \A t \in parked : thread[t].at # "free" /\ thread[t].root # active
           /\ \A t \in Threads : thread[t].at # "free" /\ thread[t].root = active => t \in Joined
           /\ HandedOver # {} => held = None
           /\ \A w \in HandedOver : /\ w \in Workers
                                    /\ worker[w].at = "running" /\ worker[w].root = active
           /\ Errored => HandedOver = {}
           /\ Errored \/ HandedOver # {} \/ Joined = {}
<1> USE DEF PrepareInv
<1>1. mainJoins = {}
  BY DEF AtGate, ServerHolds
<1>2. Joined \subseteq Threads /\ \A t \in Joined : t = reconcile /\ Finished(t) /\ reconcile # None
  BY DEF Joined, OnlyOf, AtGate, PrepareTypeOK
<1>3. \A t \in parked : t \in Threads /\ thread[t].at # "free" /\ thread[t].root # active
  BY DEF ThreadsAreKnown, OnePreparePerRoot, PrepareTypeOK
<1>4. \A t \in Joined : thread[t].root = active
  BY <1>2 DEF OnePreparePerRoot
<1>5. \A t \in Threads : thread[t].at # "free" /\ thread[t].root = active => t \in Joined
  BY <1>3 DEF ThreadsAreKnown, Joined, OnlyOf
<1>6. ASSUME NEW w \in HandedOver
      PROVE  /\ w \in Workers /\ worker[w].at = "running" /\ worker[w].root = active
             /\ held = None
  <2>1. PICK t \in Joined : thread[t].at = "ok" /\ w = thread[t].worker
    BY <1>6 DEF HandedOver, Started
  <2>2. w \in Workers /\ worker[w].at = "running" /\ worker[w].root = active
    BY <1>2, <1>4, <2>1 DEF ThreadsHold, Watching, PrepareTypeOK
  <2>3. held = None
    BY <1>2, <2>1 DEF ServerHolds
  <2>4. QED
    BY <2>2, <2>3
<1>7. Errored => HandedOver = {}
  BY <1>2 DEF Errored, HandedOver, Started
<1>8. Errored \/ HandedOver # {} \/ Joined = {}
  BY <1>2 DEF Errored, HandedOver, Started, Finished
<1>9. QED
  BY <1>1, <1>2, <1>3, <1>4, <1>5, <1>6, <1>7, <1>8

(* The gate drops what there is of a watcher, and may spawn a prepare.     *)
LEMMA GateReleases ==
    ASSUME PrepareInv, AtGate, NEW new \in Threads \cup {None}, NEW ws,
           Release(ws), HandedOver = ws,
           thread' = ThreadsAfter(new, active', Joined), reconcile' = new,
           new # None => thread[new].at = "free" /\ active \notin tried,
           main' = "idle", failed' \subseteq Roots,
           Recorded(Joined) \cup failed \subseteq failed',
           UNCHANGED <<db, active, prepared, parked, mainJoins, tried, faults, scans>>
    PROVE  PrepareInv'
<1> DEFINE all == ws \cup OnlyOf(held)
<1>1. Drop(all) /\ held' = None
  BY DEF Release
<1>2. PrepareTypeOK
  BY DEF PrepareInv
<1>3. HandsOver(Joined, new, all)
  BY <1>1, <1>2, DropEffect, GateFacts DEF HandsOver, HandedOver, PrepareTypeOK
<1> HIDE DEF all
<1>4. OnlyOf(reconcile') \cup parked' = ((OnlyOf(reconcile) \cup parked) \ Joined) \cup OnlyOf(new)
  BY GateFacts DEF Joined
<1>5. \A t \in parked' : t # new /\ thread[t].root # active'
  BY <1>2, GateFacts DEF PrepareTypeOK
<1>6. main' \in MainPlaces \ {"join", "startup"} /\ main' \notin {"open", "answer"}
  BY DEF MainPlaces
<1>7. parked' \subseteq Threads /\ prepared' \in BOOLEAN /\ held' \in Workers \cup {None}
  BY <1>1, <1>2 DEF PrepareTypeOK
<1>8. QED
  BY <1>1, <1>3, <1>4, <1>5, <1>6, <1>7, HandOverInv

(* The gate passes the watcher on, or keeps the one it has.                *)
LEMMA GateTakesOver ==
    ASSUME PrepareInv, AtGate, TakeOver, ~Errored,
           main' \in {"idle", "open"}, failed' \subseteq Roots,
           main' = "open" => held # None \/ HandedOver # {},
           tried \cap failed \subseteq failed',
           UNCHANGED <<db, active, prepared, parked, mainJoins, tried, faults, scans>>
    PROVE  PrepareInv'
<1>1. PrepareTypeOK
  BY DEF PrepareInv
<1>2. reconcile' = None /\ thread' = ThreadsAfter(None, active', Joined)
  BY NoSpawnEffect DEF TakeOver
<1>3. Recorded(Joined) = {}
  BY DEF Recorded, Errored
<1>4. OnlyOf(reconcile') \cup parked' = ((OnlyOf(reconcile) \cup parked) \ Joined) \cup OnlyOf(None)
  BY <1>2, GateFacts DEF Joined, OnlyOf
<1>5. \A t \in parked' : t # None /\ thread[t].root # active'
  BY <1>1, GateFacts DEF PrepareTypeOK
<1>6. main' \in MainPlaces \ {"join", "startup"}
  BY DEF MainPlaces
<1>7. parked' \subseteq Threads /\ prepared' \in BOOLEAN
  BY <1>1 DEF PrepareTypeOK
<1>8. ASSUME NEW w \in HandedOver, held' = w, Drop(OnlyOf(held)) PROVE PrepareInv'
  <2>1. held = None /\ OnlyOf(held) = {} /\ w \in Workers
    BY <1>8, GateFacts DEF OnlyOf
  <2>2. HandedOver \subseteq {w}
    BY <1>8, GateFacts DEF HandedOver, Started
  <2>3. w \in OnlyOf(held')
    BY <1>8, <2>1 DEF OnlyOf
  <2>4. HandsOver(Joined, None, {})
    BY <1>1, <1>2, <1>8, <2>1, <2>2, <2>3, DropEffect, GateFacts
       DEF HandsOver, HandedOver, PrepareTypeOK
  <2>5. worker'[w].at = "running" /\ worker'[w].root = active'
    BY <1>8, <2>1, <2>4, HandOverEffect, GateFacts
  <2>6. QED
    BY <1>2, <1>3, <1>4, <1>5, <1>6, <1>7, <1>8, <2>1, <2>4, <2>5, HandOverInv
<1>9. ASSUME HandedOver = {}, UNCHANGED <<held, worker, retired>> PROVE PrepareInv'
  <2>1. worker' = [w \in Workers |-> IF w \in {} THEN [worker[w] EXCEPT !.at = "stopping"]
                                                 ELSE worker[w]]
    BY <1>1, <1>9 DEF PrepareTypeOK
  <2>2. HandsOver(Joined, None, {})
    BY <1>1, <1>2, <1>9, <2>1, GateFacts DEF HandsOver, HandedOver, PrepareTypeOK
  <2>3. held' # None => worker'[held'].at = "running" /\ worker'[held'].root = active'
    BY <1>9 DEF PrepareInv, ServerHolds
  <2>4. held' \in Workers \cup {None} /\ (main' = "open" => held' # None)
    BY <1>1, <1>9 DEF PrepareTypeOK
  <2>5. QED
    BY <1>2, <1>3, <1>4, <1>5, <1>6, <1>7, <2>2, <2>3, <2>4, HandOverInv
<1>10. QED
  BY <1>8, <1>9 DEF TakeOver
(* The steps of the gate that end the call, and the one that lets it pass. *)
LEMMA InvGate ==
    ASSUME PrepareInv,
           GateFindsNoIndex \/ GateRecordsFailure \/ GateRetries \/ GateRefuses \/ GatePasses
    PROVE  PrepareInv'
<1> USE DEF server, history
<1>1. PrepareTypeOK
  BY DEF PrepareInv
<1>2. \A r \in tried : db[r] = "torn"
  BY DEF PrepareInv, TriedAreKnown
<1>3. ASSUME AtGate, NEW r \in Recorded(Joined) PROVE r = active /\ db[r] = "torn"
  <2>1. PICK t \in Joined : thread[t].at = "err" /\ thread[t].root = r
    BY <1>3 DEF Recorded
  <2>2. t = reconcile /\ t \in Threads
    BY <1>3, <2>1, GateFacts
  <2>3. thread[t].root = active
    BY <2>2 DEF PrepareInv, OnePreparePerRoot
  <2>4. QED
    BY <1>3, <2>1, <2>3 DEF Recorded
<1>4. AtGate => \A u \in Joined : thread[u].at # "free"
  BY GateFacts DEF Finished
<1>5. ASSUME AtGate, Release(HandedOver), Spawn(active, Joined), db[active] # "torn",
             main' = "idle",
             UNCHANGED <<db, active, prepared, parked, failed, mainJoins, tried, faults, scans>>
      PROVE  PrepareInv'
  <2>1. PICK new \in Threads \cup {None} :
          /\ reconcile' = new /\ thread' = ThreadsAfter(new, active', Joined)
          /\ new # None => thread[new].at = "free"
    BY <1>4, <1>5, SpawnEffect
  <2>2. active \notin tried /\ Recorded(Joined) = {} /\ failed' \subseteq Roots
    BY <1>1, <1>2, <1>3, <1>5 DEF PrepareTypeOK
  <2>3. QED
    BY <1>5, <2>1, <2>2, GateReleases
<1>6. CASE GateFindsNoIndex
  BY <1>5, <1>6 DEF GateFindsNoIndex
<1>7. CASE GateRetries
  <2>1. AtGate /\ Errored /\ db[active] # "torn"
    BY <1>7 DEF GateRetries, Unusable
  <2>2. HandedOver = {}
    BY <2>1, GateFacts
  <2>3. QED
    BY <1>5, <1>7, <2>1, <2>2 DEF GateRetries
<1>8. CASE GateRecordsFailure
  <2>1. AtGate /\ Errored /\ HandedOver = {}
    BY <1>8, GateFacts DEF GateRecordsFailure
  <2>2. reconcile' = None /\ thread' = ThreadsAfter(None, active', Joined)
    BY <1>8, NoSpawnEffect DEF GateRecordsFailure
  <2>3. Recorded(Joined) \cup failed \subseteq failed' /\ failed' \subseteq Roots
    BY <1>1, <1>3, <1>8, <2>1 DEF GateRecordsFailure, PrepareTypeOK
  <2>4. QED
    BY <1>8, <2>1, <2>2, <2>3, GateReleases DEF GateRecordsFailure
<1>9. CASE GateRefuses
  BY <1>1, <1>9, GateTakesOver DEF GateRefuses, PrepareTypeOK
<1>10. CASE GatePasses
  <2>1. tried \cap failed \subseteq failed' /\ failed' \subseteq Roots
    BY <1>1, <1>2, <1>10 DEF GatePasses, PrepareTypeOK
  <2>2. QED
    BY <1>10, <2>1, GateTakesOver DEF GatePasses
<1>11. QED
  BY <1>6, <1>7, <1>8, <1>9, <1>10

(* Steps that only move the server's thread.                               *)
LEMMA InvServerMoves ==
    ASSUME PrepareInv, GateTimesOut \/ Open \/ Answer
    PROVE  PrepareInv'
<1> USE DEF server, history
<1>1. /\ main \in {"gate", "open", "answer"}
      /\ main' \in {"idle", "answer"} /\ (main' = "answer" => main = "open")
      /\ UNCHANGED <<db, active, prepared, held, reconcile, parked, failed, mainJoins, thread,
                     worker, retired, tried, faults, scans>>
  BY DEF GateTimesOut, Open, Answer
<1>2. PrepareTypeOK'
  BY <1>1 DEF PrepareInv, PrepareTypeOK, MainPlaces
<1>3. ServerHolds'
  BY <1>1 DEF PrepareInv, ServerHolds, Stopped
<1>4. ThreadsAreKnown' /\ OnePreparePerRoot'
  BY <1>1 DEF PrepareInv, ThreadsAreKnown, OnePreparePerRoot
<1>5. ThreadsHold' /\ RetiredAreStopped'
  BY <1>1 DEF PrepareInv, ThreadsHold, RetiredAreStopped, Stopped
<1>6. LiveAreKnown' /\ AllAreJoined' /\ OneWorkerPerRoot'
  BY <1>1 DEF PrepareInv, LiveAreKnown, AllAreJoined, OneWorkerPerRoot, Live
<1>7. TriedAreKnown'
  BY <1>1 DEF PrepareInv, TriedAreKnown
<1>8. QED
  BY <1>2, <1>3, <1>4, <1>5, <1>6, <1>7 DEF PrepareInv

(* The call itself takes the retired workers of its root out of the list.  *)
LEMMA InvGateStartsWatcher ==
    ASSUME PrepareInv, GateStartsWatcher
    PROVE  PrepareInv'
<1> USE DEF server, history
<1>1. /\ AtGate /\ ~Errored /\ db[active] # "missing" /\ ~(active \in failed /\ db[active] = "torn")
      /\ failed' = failed \ {active} /\ held = None /\ HandedOver = {} /\ NoSpawn(None, Joined)
      /\ mainJoins' = RetiredOf(active) /\ retired' = retired \ RetiredOf(active)
      /\ main' = "join"
      /\ UNCHANGED <<db, active, prepared, held, parked, worker, tried, faults, scans>>
  BY DEF GateStartsWatcher
<1>2. PrepareTypeOK
  BY DEF PrepareInv
<1>3. Joined = {} /\ mainJoins = {}
  BY <1>1, GateFacts
<1>4. reconcile = None /\ reconcile' = None /\ thread' = thread
  <2>1. reconcile = None
    BY <1>3 DEF Joined, OnlyOf
  <2>2. reconcile' = None /\ thread' = [u \in Threads |-> thread[u]]
    BY <1>1, <1>3 DEF NoSpawn
  <2>3. QED
    BY <1>2, <2>1, <2>2 DEF PrepareTypeOK
<1>5. active \notin tried
  <2> SUFFICES ASSUME active \in tried PROVE FALSE
    OBVIOUS
  <2>1. PICK t \in Threads : thread[t].at = "err" /\ thread[t].root = active
    BY <1>1 DEF PrepareInv, TriedAreKnown
  <2>2. t \in Joined
    BY <1>1, <2>1, GateFacts
  <2>3. QED
    BY <1>3, <2>2
<1>6. mainJoins' \subseteq retired /\ mainJoins' \cup retired' = retired
  BY <1>1 DEF RetiredOf
<1>7. PrepareTypeOK'
  BY <1>1, <1>2, <1>4, <1>6 DEF PrepareTypeOK, MainPlaces
<1>8. ServerHolds'
  BY <1>1, <1>4, <1>6 DEF PrepareInv, ServerHolds, RetiredOf, RetiredAreStopped, Stopped
<1>9. ThreadsAreKnown' /\ OnePreparePerRoot'
  BY <1>1, <1>4 DEF PrepareInv, ThreadsAreKnown, OnePreparePerRoot
<1>10. ThreadsHold' /\ RetiredAreStopped'
  BY <1>1, <1>4 DEF PrepareInv, ThreadsHold, RetiredAreStopped, Stopped
<1>11. LiveAreKnown' /\ OneWorkerPerRoot'
  BY <1>1, <1>3, <1>4, <1>6 DEF PrepareInv, LiveAreKnown, OneWorkerPerRoot, Live
<1>12. AllAreJoined'
  BY <1>1, <1>4 DEF PrepareInv, AllAreJoined, Live, RetiredOf
<1>13. TriedAreKnown'
  BY <1>1, <1>4, <1>5 DEF PrepareInv, TriedAreKnown
<1>14. QED
  BY <1>7, <1>8, <1>9, <1>10, <1>11, <1>12, <1>13 DEF PrepareInv
-----------------------------------------------------------------------------
(* Starting a worker. *)

(* Once the stopped workers of its root are joined, a prepare knows of no  *)
(* other worker of the root: neither the server nor another prepare can    *)
(* have one.                                                               *)
LEMMA NoneLeft ==
    ASSUME PrepareInv, NEW t \in Threads,
           thread[t].at \in Joining \cup {"rebuild", "create"}, Ended(thread[t].joins),
           NEW w \in Workers, Live(w)
    PROVE  worker[w].root # thread[t].root
<1> USE DEF PrepareInv
<1>1. thread[t].at # "free" /\ thread[t].at \notin Watching
  BY DEF Joining, Watching
<1>2. t \in parked \cup {reconcile} /\ thread[t].root \in Roots /\ thread[t].worker = None
  BY <1>1 DEF ThreadsAreKnown, ThreadsHold
<1>3. thread[t].root = active => reconcile = t /\ reconcile # None
  BY <1>2 DEF OnePreparePerRoot
<1>4. CASE w \in retired
  BY <1>4 DEF AllAreJoined
<1>5. CASE w = held
  <2>1. worker[w].root = active /\ reconcile = None
    BY <1>5 DEF ServerHolds
  <2>2. QED
    BY <1>3, <2>1
<1>6. CASE w \in mainJoins
  <2>1. main \in {"join", "startup"} /\ worker[w].root = active
    BY <1>6 DEF ServerHolds
  <2>2. QED
    BY <1>3, <2>1 DEF ServerHolds
<1>7. ASSUME NEW u \in Threads, w \in thread[u].joins \cup {thread[u].worker},
             worker[w].root = thread[t].root
      PROVE  FALSE
  <2>1. worker[w].root = thread[u].root
    BY <1>7 DEF ThreadsHold
  <2>2. thread[u].at # "free"
    BY <1>7 DEF ThreadsHold, Joining, Watching
  <2>3. u = t
    BY <1>1, <1>7, <2>1, <2>2 DEF OnePreparePerRoot
  <2>4. QED
    BY <1>2, <1>7, <2>3 DEF Ended, Live
<1>8. QED
  BY <1>4, <1>5, <1>6, <1>7 DEF LiveAreKnown

(* So does a call that starts the watcher itself.                          *)
LEMMA NoneLeftOfActive ==
    ASSUME PrepareInv, main = "join", Ended(mainJoins), NEW w \in Workers, Live(w)
    PROVE  worker[w].root # active
<1> USE DEF PrepareInv
<1>1. held = None /\ reconcile = None
  BY DEF ServerHolds
<1>2. \A u \in Threads : thread[u].at # "free" => thread[u].root # active
  BY <1>1 DEF ThreadsAreKnown, OnePreparePerRoot
<1>3. CASE w \in retired
  BY <1>3 DEF AllAreJoined
<1>4. CASE w \in mainJoins \cup {held}
  BY <1>1, <1>4 DEF Ended, Live
<1>5. ASSUME NEW u \in Threads, w \in thread[u].joins \cup {thread[u].worker}
      PROVE  worker[w].root # active
  <2>1. worker[w].root = thread[u].root
    BY <1>5 DEF ThreadsHold
  <2>2. thread[u].at # "free"
    BY <1>5 DEF ThreadsHold, Joining, Watching
  <2>3. QED
    BY <1>2, <2>1, <2>2
<1>6. QED
  BY <1>3, <1>4, <1>5 DEF LiveAreKnown

(* The worker that is started was free, and it is alone with its root.     *)
LEMMA StartEffect ==
    ASSUME PrepareInv, NEW w \in Workers, NEW r \in Roots, StartWorker(w, r),
           \A v \in Workers : Live(v) => worker[v].root # r
    PROVE  /\ w \notin retired \cup mainJoins \cup {held}
           /\ \A t \in Threads : w \notin thread[t].joins \cup {thread[t].worker}
           /\ worker'[w].root = r /\ worker'[w].at = "starting"
           /\ \A v \in Workers \ {w} : worker'[v] = worker[v]
           /\ OneWorkerPerRoot'
<1>1. Idle(w) /\ worker' = [worker EXCEPT ![w] = [at |-> "starting", root |-> r]]
  BY DEF StartWorker, Lowest
<1>2. worker \in [Workers -> WorkerType]
  BY DEF PrepareInv, PrepareTypeOK, WorkerType
<1>3. /\ worker'[w].root = r /\ worker'[w].at = "starting"
      /\ \A v \in Workers \ {w} : worker'[v] = worker[v]
  BY <1>1, <1>2
<1>4. OneWorkerPerRoot'
  BY <1>3 DEF OneWorkerPerRoot, Live, PrepareInv
<1>5. QED
  BY <1>1, <1>3, <1>4 DEF Idle

(* A call starts the watcher of its root.                                  *)
LEMMA InvMainStartsWorker ==
    ASSUME PrepareInv, NEW w \in Workers, MainStartsWorker(w)
    PROVE  PrepareInv'
<1> USE DEF server, history
<1>1. /\ main = "join" /\ Ended(mainJoins) /\ StartWorker(w, active)
      /\ mainJoins' = {w} /\ main' = "startup"
      /\ UNCHANGED <<db, active, prepared, held, reconcile, parked, failed, thread, retired,
                     tried, faults, scans>>
  BY DEF MainStartsWorker
<1>2. PrepareTypeOK
  BY DEF PrepareInv
<1>3. /\ w \notin retired \cup mainJoins \cup {held}
      /\ \A t \in Threads : w \notin thread[t].joins \cup {thread[t].worker}
      /\ worker'[w].root = active /\ worker'[w].at = "starting"
      /\ \A v \in Workers \ {w} : worker'[v] = worker[v]
      /\ OneWorkerPerRoot'
  BY <1>1, <1>2, NoneLeftOfActive, StartEffect DEF PrepareTypeOK
<1>4. PrepareTypeOK'
  <2>1. worker' \in [Workers -> WorkerType]
    BY <1>1, <1>2, StartWorkerType DEF PrepareTypeOK
  <2>2. QED
    BY <1>1, <1>2, <2>1 DEF PrepareTypeOK, MainPlaces, WorkerType
<1>5. ServerHolds'
  BY <1>1, <1>3 DEF PrepareInv, ServerHolds
<1>6. ThreadsAreKnown' /\ OnePreparePerRoot'
  BY <1>1 DEF PrepareInv, ThreadsAreKnown, OnePreparePerRoot
<1>7. ThreadsHold'
  <2>1. ASSUME NEW t \in Threads, NEW v \in thread[t].joins \cup {thread[t].worker}, v # None
        PROVE  worker'[v] = worker[v]
    BY <1>2, <1>3, <2>1 DEF PrepareTypeOK
  <2>2. ASSUME NEW t \in Threads, NEW v \in thread[t].joins
        PROVE  worker'[v] = worker[v]
    BY <1>2, <1>3, <2>2 DEF PrepareTypeOK
  <2>3. \A t \in Threads : thread[t].at \in {"reconcile", "ok"} => thread[t].worker # None
    BY DEF PrepareInv, ThreadsHold, Watching
  <2>4. QED
    BY <1>1, <2>1, <2>2, <2>3 DEF PrepareInv, ThreadsHold, Stopped
<1>8. RetiredAreStopped'
  BY <1>1, <1>2, <1>3 DEF PrepareInv, RetiredAreStopped, Stopped, PrepareTypeOK
<1>9. LiveAreKnown'
  BY <1>1, <1>3 DEF PrepareInv, LiveAreKnown, Live, Ended
<1>10. AllAreJoined'
  BY <1>1, <1>2, <1>3 DEF PrepareInv, AllAreJoined, Live, PrepareTypeOK
<1>11. TriedAreKnown'
  BY <1>1 DEF PrepareInv, TriedAreKnown
<1>12. QED
  BY <1>3, <1>4, <1>5, <1>6, <1>7, <1>8, <1>9, <1>10, <1>11 DEF PrepareInv

(* The call takes the watcher it started, or a new prepare is spawned.     *)
LEMMA InvMainStartupEnds ==
    ASSUME PrepareInv, NEW w \in Workers, MainStartupEnds(w)
    PROVE  PrepareInv'
<1> USE DEF server, history
<1>1. /\ main = "startup" /\ w \in mainJoins /\ mainJoins' = {}
      /\ UNCHANGED <<db, active, prepared, parked, failed, worker, retired, tried, faults, scans>>
  BY DEF MainStartupEnds
<1>2. PrepareTypeOK
  BY DEF PrepareInv
<1>3. held = None /\ reconcile = None /\ active \notin failed /\ worker[w].root = active
      /\ mainJoins = {w}
  BY <1>1 DEF PrepareInv, ServerHolds
<1>4. \A t \in parked : thread[t].at # "free" /\ thread[t].root # active /\ t \in Threads
  BY <1>2 DEF PrepareInv, ThreadsAreKnown, OnePreparePerRoot, PrepareTypeOK
<1>5. active \notin tried
  BY <1>3, <1>4 DEF PrepareInv, TriedAreKnown, ThreadsAreKnown
<1>6. worker' = [v \in Workers |-> IF v \in {} THEN [worker[v] EXCEPT !.at = "stopping"]
                                               ELSE worker[v]]
  BY <1>1, <1>2 DEF PrepareTypeOK
<1>7. Started({}) = {} /\ Recorded({}) = {} /\ OnlyOf(None) = {}
  BY DEF Started, Recorded, OnlyOf
<1>8. CASE worker[w].at = "running" /\ held' = w /\ main' = "open" /\ UNCHANGED <<reconcile, thread>>
  <2>1. thread' = ThreadsAfter(None, active', {})
    BY <1>2, <1>8 DEF ThreadsAfter, PrepareTypeOK
  <2>2. HandsOver({}, None, {})
    BY <1>1, <1>2, <1>3, <1>6, <1>7, <1>8, <2>1 DEF HandsOver, PrepareTypeOK
  <2>3. main' \in MainPlaces \ {"join", "startup"}
    BY <1>8 DEF MainPlaces
  <2>4. OnlyOf(reconcile') \cup parked' = ((OnlyOf(reconcile) \cup parked) \ {}) \cup OnlyOf(None)
    BY <1>1, <1>3, <1>7, <1>8
  <2>5. held' \in Workers \cup {None} /\ parked' \subseteq Threads /\ prepared' \in BOOLEAN
        /\ failed' \subseteq Roots
    BY <1>1, <1>2, <1>8 DEF PrepareTypeOK
  <2>6. QED
    BY <1>1, <1>2, <1>3, <1>4, <1>7, <1>8, <2>2, <2>3, <2>4, <2>5, HandOverInv
<1>9. CASE worker[w].at = "ended" /\ main' = "idle" /\ Spawn(active, {}) /\ UNCHANGED held
  <2>1. PICK new \in Threads \cup {None} :
          /\ reconcile' = new /\ thread' = ThreadsAfter(new, active, {})
          /\ new # None => thread[new].at = "free"
    BY <1>9, SpawnEffect
  <2>2. HandsOver({}, new, {})
    BY <1>1, <1>2, <1>3, <1>6, <1>7, <1>9, <2>1 DEF HandsOver, PrepareTypeOK, Live
  <2>3. main' \in MainPlaces \ {"join", "startup"} /\ main' \notin {"open", "answer"}
    BY <1>9 DEF MainPlaces
  <2>4. OnlyOf(reconcile') \cup parked' = ((OnlyOf(reconcile) \cup parked) \ {}) \cup OnlyOf(new)
    BY <1>1, <1>3, <1>7, <2>1
  <2>5. held' \in Workers \cup {None} /\ parked' \subseteq Threads /\ prepared' \in BOOLEAN
        /\ failed' \subseteq Roots
    BY <1>1, <1>2, <1>9 DEF PrepareTypeOK
  <2>6. \A t \in parked' : t # new /\ thread[t].root # active'
    BY <1>1, <1>4, <2>1
  <2>7. QED
    BY <1>1, <1>3, <1>5, <1>7, <1>9, <2>1, <2>2, <2>3, <2>4, <2>5, <2>6, HandOverInv
<1>10. QED
  BY <1>8, <1>9 DEF MainStartupEnds
-----------------------------------------------------------------------------
(* The steps of a prepare. *)

Working == Joining \cup {"rebuild", "create"}

(* A step of a thread that stays where the server knows of it.             *)
LEMMA ThreadKnown ==
    ASSUME PrepareInv, NEW t \in Threads, thread[t].at # "free", NEW place, place # "free",
           NEW joins, NEW w, Becomes(t, place, joins, w), UNCHANGED server
    PROVE  /\ ThreadsAreKnown' /\ OnePreparePerRoot'
           /\ thread'[t] = [at |-> place, root |-> thread[t].root, joins |-> joins, worker |-> w]
           /\ \A u \in Threads \ {t} : thread'[u] = thread[u]
<1> USE DEF server
<1>1. thread \in [Threads -> ThreadType]
  BY DEF PrepareInv, PrepareTypeOK, ThreadType
<1>2. /\ thread'[t] = [at |-> place, root |-> thread[t].root, joins |-> joins, worker |-> w]
      /\ \A u \in Threads \ {t} : thread'[u] = thread[u]
  BY <1>1 DEF Becomes
<1>3. \A u \in Threads : /\ thread'[u].root = thread[u].root
                         /\ thread'[u].at = "free" <=> thread[u].at = "free"
  BY <1>2
<1>4. ThreadsAreKnown'
  BY <1>2, <1>3 DEF PrepareInv, ThreadsAreKnown
<1>5. OnePreparePerRoot'
  <2>1. \A u \in parked : u \in Threads
    BY DEF PrepareInv, PrepareTypeOK
  <2>2. reconcile # None => reconcile \in Threads
    BY DEF PrepareInv, PrepareTypeOK
  <2>3. QED
    BY <1>3, <2>1, <2>2 DEF PrepareInv, OnePreparePerRoot
<1>6. QED
  BY <1>2, <1>4, <1>5

(* A step of a thread that starts no worker and drops none.                *)
LEMMA ThreadKeepsWorkers ==
    ASSUME PrepareInv, NEW t \in Threads, thread[t].at # "free",
           NEW place, NEW joins, NEW w \in Workers \cup {None}, Becomes(t, place, joins, w),
           place # "free", UNCHANGED <<server, worker>>,
           place \notin Joining => joins = {},
           joins \subseteq thread[t].joins \cup RetiredOf(thread[t].root),
           w \in {thread[t].worker, None},
           place \in Watching <=> w # None,
           place = "reconcile" => worker[w].at = "running",
           place = "ok" => thread[t].at = "reconcile",
           \A v \in retired \cup thread[t].joins \cup OnlyOf(thread[t].worker) :
               Live(v) => v \in retired' \cup joins \cup {w},
           retired' \subseteq retired,
           place \in Working =>
               thread[t].at \in Working \/ \A v \in retired' : worker[v].root # thread[t].root
    PROVE  /\ ThreadsAreKnown' /\ OnePreparePerRoot' /\ ThreadsHold' /\ ServerHolds'
           /\ RetiredAreStopped' /\ LiveAreKnown' /\ AllAreJoined' /\ OneWorkerPerRoot'
<1>1. /\ ThreadsAreKnown' /\ OnePreparePerRoot'
      /\ thread'[t] = [at |-> place, root |-> thread[t].root, joins |-> joins, worker |-> w]
      /\ \A u \in Threads \ {t} : thread'[u] = thread[u]
  BY ThreadKnown
<1> USE DEF server
<1>2. ThreadsHold'
  <2>1. ASSUME NEW u \in Threads \ {t}
        PROVE  /\ thread'[u].at \notin Joining => thread'[u].joins = {}
               /\ \A v \in thread'[u].joins :
                    Stopped(v)' /\ worker'[v].root = thread'[u].root
               /\ thread'[u].at \in Watching <=> thread'[u].worker # None
               /\ thread'[u].worker # None =>
                    worker'[thread'[u].worker].root = thread'[u].root
               /\ thread'[u].at \in {"reconcile", "ok"} =>
                    worker'[thread'[u].worker].at = "running"
    BY <1>1 DEF PrepareInv, ThreadsHold, Stopped
  <2>2. \A v \in joins : Stopped(v) /\ worker[v].root = thread[t].root
    BY DEF PrepareInv, ThreadsHold, RetiredOf, RetiredAreStopped
  <2>3. w # None => worker[w].root = thread[t].root
    BY DEF PrepareInv, ThreadsHold
  <2>4. place \in {"reconcile", "ok"} => worker[w].at = "running"
    BY DEF PrepareInv, ThreadsHold, Watching
  <2>5. QED
    BY <1>1, <2>1, <2>2, <2>3, <2>4 DEF ThreadsHold, Stopped
<1>3. ServerHolds' /\ RetiredAreStopped' /\ OneWorkerPerRoot'
  BY DEF PrepareInv, ServerHolds, RetiredAreStopped, Stopped, OneWorkerPerRoot, Live
<1>4. LiveAreKnown'
  <2> SUFFICES ASSUME NEW v \in Workers, Live(v)
               PROVE  \/ v \in retired' \cup mainJoins \cup {held}
                      \/ \E u \in Threads : v \in thread'[u].joins \cup {thread'[u].worker}
    BY DEF LiveAreKnown, Live
  <2>1. CASE v \in retired \cup thread[t].joins \cup {thread[t].worker}
    BY <1>1, <2>1 DEF OnlyOf
  <2>2. CASE v \in mainJoins \cup {held}
    BY <2>2
  <2>3. ASSUME NEW u \in Threads \ {t}, v \in thread[u].joins \cup {thread[u].worker}
        PROVE  v \in thread'[u].joins \cup {thread'[u].worker}
    BY <1>1, <2>3
  <2>4. QED
    BY <2>1, <2>2, <2>3 DEF PrepareInv, LiveAreKnown
<1>5. AllAreJoined'
  BY <1>1 DEF PrepareInv, AllAreJoined, Live, Working
<1>6. QED
  BY <1>1, <1>2, <1>3, <1>4, <1>5

(* A prepare that fails over an unreadable index makes it a tried one.     *)
LEMMA ThreadTried ==
    ASSUME PrepareInv, NEW t \in Threads, thread[t].at \notin {"free", "err"},
           NEW place, NEW joins, NEW w, Becomes(t, place, joins, w), UNCHANGED failed,
           \/ UNCHANGED <<db, tried>>
           \/ \E condition \in Conditions : SetDb(thread[t].root, condition)
           \/ /\ UNCHANGED db /\ place = "err"
              /\ tried' = IF db[thread[t].root] = "torn" THEN tried \cup {thread[t].root} ELSE tried
    PROVE  TriedAreKnown'
<1>1. thread \in [Threads -> ThreadType]
  BY DEF PrepareInv, PrepareTypeOK, ThreadType
<1>2. /\ thread'[t] = [at |-> place, root |-> thread[t].root, joins |-> joins, worker |-> w]
      /\ \A u \in Threads \ {t} : thread'[u] = thread[u]
  BY <1>1 DEF Becomes
<1>3. \A r \in tried : /\ r \in Roots /\ db[r] = "torn"
                       /\ r \in failed \/ \E u \in Threads : thread'[u].at = "err" /\ thread'[u].root = r
  BY <1>2 DEF PrepareInv, TriedAreKnown, PrepareTypeOK
<1>4. \A u \in Threads : thread'[u].at # "err" => thread'[u].root \notin tried
  BY <1>2 DEF PrepareInv, TriedAreKnown
<1>5. CASE UNCHANGED <<db, tried>>
  BY <1>3, <1>4, <1>5 DEF TriedAreKnown
<1>6. ASSUME NEW condition \in Conditions, SetDb(thread[t].root, condition) PROVE TriedAreKnown'
  <2>1. tried' \subseteq tried /\ \A r \in tried' : db'[r] = "torn"
    BY <1>3, <1>6 DEF SetDb, PrepareInv, PrepareTypeOK
  <2>2. QED
    BY <1>3, <1>4, <2>1 DEF TriedAreKnown
<1>7. CASE /\ UNCHANGED db /\ place = "err"
           /\ tried' = IF db[thread[t].root] = "torn" THEN tried \cup {thread[t].root} ELSE tried
  <2>1. ASSUME NEW u \in Threads, thread'[u].at # "err" PROVE thread'[u].root # thread[t].root
    <3>1. u # t /\ thread'[u] = thread[u]
      BY <1>2, <1>7, <2>1
    <3>2. thread[t].root # None
      BY DEF PrepareInv, ThreadsAreKnown
    <3>3. CASE thread[u].at = "free"
      BY <3>1, <3>2, <3>3 DEF PrepareInv, ThreadsAreKnown, FreeThread
    <3>4. CASE thread[u].at # "free"
      BY <3>1, <3>4 DEF PrepareInv, OnePreparePerRoot
    <3>5. QED
      BY <3>3, <3>4
  <2>2. \A r \in tried' : r \in tried \/ (r = thread[t].root /\ db[r] = "torn")
    BY <1>7
  <2>3. thread'[t].at = "err" /\ thread'[t].root = thread[t].root
    BY <1>2, <1>7
  <2>4. QED
    BY <1>3, <1>4, <1>7, <2>1, <2>2, <2>3 DEF TriedAreKnown
<1>8. QED
  BY <1>5, <1>6, <1>7
(* A prepare starts the watcher of its root.                               *)
LEMMA InvStartsWatcher ==
    ASSUME PrepareInv, NEW t \in Threads, NEW w \in Workers, StartsWatcher(t, w),
           Becomes(t, "start", {}, w), PrepareTypeOK'
    PROVE  PrepareInv'
<1> USE DEF server, history
<1>1. /\ thread[t].at = "joinStart" /\ Ended(thread[t].joins) /\ StartWorker(w, thread[t].root)
      /\ UNCHANGED <<db, active, prepared, held, reconcile, parked, failed, main, mainJoins,
                     retired, tried, faults, scans>>
  BY DEF StartsWatcher, ThreadOnly
<1>2. PrepareTypeOK /\ thread[t].root \in Roots
  BY <1>1 DEF PrepareInv, ThreadsAreKnown
<1>3. \A v \in Workers : Live(v) => worker[v].root # thread[t].root
  BY <1>1, NoneLeft DEF Joining
<1>4. /\ w \notin retired \cup mainJoins \cup {held}
      /\ \A u \in Threads : w \notin thread[u].joins \cup {thread[u].worker}
      /\ worker'[w].root = thread[t].root /\ worker'[w].at = "starting"
      /\ \A v \in Workers \ {w} : worker'[v] = worker[v]
      /\ OneWorkerPerRoot'
  BY <1>1, <1>2, <1>3, StartEffect
<1>5. /\ ThreadsAreKnown' /\ OnePreparePerRoot'
      /\ thread'[t] = [at |-> "start", root |-> thread[t].root, joins |-> {}, worker |-> w]
      /\ \A u \in Threads \ {t} : thread'[u] = thread[u]
  BY <1>1, ThreadKnown
<1>6. ServerHolds'
  BY <1>1, <1>2, <1>4 DEF PrepareInv, ServerHolds, Stopped, PrepareTypeOK
<1>7. ThreadsHold'
  <2>1. ASSUME NEW u \in Threads \ {t}
        PROVE  /\ thread'[u].at \notin Joining => thread'[u].joins = {}
               /\ \A v \in thread'[u].joins :
                    Stopped(v)' /\ worker'[v].root = thread'[u].root
               /\ thread'[u].at \in Watching <=> thread'[u].worker # None
               /\ thread'[u].worker # None =>
                    worker'[thread'[u].worker].root = thread'[u].root
               /\ thread'[u].at \in {"reconcile", "ok"} =>
                    worker'[thread'[u].worker].at = "running"
    <3>1. \A v \in thread[u].joins : worker'[v] = worker[v]
      BY <1>2, <1>4 DEF PrepareTypeOK
    <3>2. thread[u].worker # None => worker'[thread[u].worker] = worker[thread[u].worker]
      BY <1>2, <1>4 DEF PrepareTypeOK
    <3>3. thread[u].at \in {"reconcile", "ok"} => thread[u].worker # None
      BY DEF PrepareInv, ThreadsHold, Watching
    <3>4. QED
      BY <1>5, <3>1, <3>2, <3>3 DEF PrepareInv, ThreadsHold, Stopped
  <2>2. w # None
    OBVIOUS
  <2>3. QED
    BY <1>4, <1>5, <2>1, <2>2 DEF ThreadsHold, Joining, Watching
<1>8. RetiredAreStopped'
  BY <1>1, <1>2, <1>4 DEF PrepareInv, RetiredAreStopped, Stopped, PrepareTypeOK
<1>9. LiveAreKnown'
  <2> SUFFICES ASSUME NEW v \in Workers, Live(v)', v # w
               PROVE  \/ v \in retired \cup mainJoins \cup {held}
                      \/ \E u \in Threads : v \in thread'[u].joins \cup {thread'[u].worker}
    BY <1>1, <1>5 DEF LiveAreKnown
  <2>1. Live(v)
    BY <1>4 DEF Live
  <2>2. thread[t].worker = None /\ v \notin thread[t].joins
    BY <1>1, <2>1 DEF PrepareInv, ThreadsHold, Watching, Ended, Live
  <2>3. QED
    BY <1>5, <2>1, <2>2 DEF PrepareInv, LiveAreKnown
<1>10. AllAreJoined'
  <2>1. \A v \in retired : worker'[v] = worker[v]
    BY <1>2, <1>4 DEF PrepareTypeOK
  <2>2. \A u \in Threads : thread'[u].at \in Joining \cup {"rebuild", "create"}
                              => thread'[u] = thread[u]
    BY <1>5 DEF Joining
  <2>3. QED
    BY <1>1, <2>1, <2>2 DEF PrepareInv, AllAreJoined, Live
<1>11. TriedAreKnown'
  BY <1>1, ThreadTried
<1>12. QED
  BY <1>4, <1>5, <1>6, <1>7, <1>8, <1>9, <1>10, <1>11 DEF PrepareInv

(* The error of the reconcile drops the watcher of the prepare: it is of   *)
(* the root of this prepare, so no other one waits for it.                 *)
LEMMA InvReconcileFails ==
    ASSUME PrepareInv, NEW t \in Threads, ReconcileFails(t),
           Becomes(t, "err", thread[t].joins, None), PrepareTypeOK'
    PROVE  PrepareInv'
<1> USE DEF server, history
<1> DEFINE w == thread[t].worker
<1>1. /\ thread[t].at = "reconcile" /\ Drop({w})
      /\ UNCHANGED <<db, active, prepared, held, reconcile, parked, failed, main, mainJoins, tried>>
  BY DEF ReconcileFails
<1>2. PrepareTypeOK
  BY DEF PrepareInv
<1>3. w \in Workers /\ worker[w].root = thread[t].root /\ Live(w) /\ thread[t].joins = {}
  BY <1>1, <1>2 DEF PrepareInv, ThreadsHold, Watching, Joining, PrepareTypeOK, Live
<1>4. /\ worker'[w].root = worker[w].root /\ worker'[w].at = "stopping"
      /\ \A v \in Workers \ {w} : worker'[v] = worker[v]
  <2>1. \A v \in Workers : worker[v] \in WorkerType
    BY <1>2 DEF PrepareTypeOK, WorkerType
  <2>2. worker' = [v \in Workers |-> IF v \in {w} THEN [worker[v] EXCEPT !.at = "stopping"]
                                                  ELSE worker[v]]
    BY <1>1, DropEffect
  <2>3. worker'[w] = [worker[w] EXCEPT !.at = "stopping"]
    BY <1>3, <2>2
  <2>4. QED
    BY <1>3, <2>1, <2>2, <2>3 DEF WorkerType
<1>5. /\ ThreadsAreKnown' /\ OnePreparePerRoot'
      /\ thread'[t] = [at |-> "err", root |-> thread[t].root, joins |-> {}, worker |-> None]
      /\ \A u \in Threads \ {t} : thread'[u] = thread[u]
  BY <1>1, <1>3, ThreadKnown
<1>6. ASSUME NEW u \in Threads \ {t}, thread[u].at # "free"
      PROVE  thread[u].root # worker[w].root
  BY <1>1, <1>3, <1>6 DEF PrepareInv, OnePreparePerRoot
<1>7. held # w /\ (main \in {"join", "startup"} => worker[w].root # active)
  <2>1. t \in parked \cup {reconcile}
    BY <1>1 DEF PrepareInv, ThreadsAreKnown
  <2>2. reconcile = None => thread[t].root # active
    BY <2>1 DEF PrepareInv, OnePreparePerRoot
  <2>3. held = w => reconcile = None /\ worker[w].root = active
    BY <1>3 DEF PrepareInv, ServerHolds
  <2>4. QED
    BY <1>3, <2>2, <2>3 DEF PrepareInv, ServerHolds
<1>8. retired' \subseteq retired \cup {w} /\ {w} \cup {v \in retired : Live(v)} \subseteq retired'
  BY <1>1, DropEffect
<1> HIDE DEF w
<1>9. ServerHolds'
  <2>1. held # None => worker'[held] = worker[held]
    BY <1>2, <1>4, <1>7 DEF PrepareTypeOK
  <2>2. \A v \in mainJoins : worker'[v] = worker[v]
    BY <1>2, <1>4, <1>7 DEF PrepareTypeOK, PrepareInv, ServerHolds
  <2>3. QED
    BY <1>1, <2>1, <2>2 DEF PrepareInv, ServerHolds, Stopped
<1>10. ThreadsHold'
  <2>1. ASSUME NEW u \in Threads \ {t}
        PROVE  /\ thread'[u].at \notin Joining => thread'[u].joins = {}
               /\ \A v \in thread'[u].joins :
                    Stopped(v)' /\ worker'[v].root = thread'[u].root
               /\ thread'[u].at \in Watching <=> thread'[u].worker # None
               /\ thread'[u].worker # None =>
                    worker'[thread'[u].worker].root = thread'[u].root
               /\ thread'[u].at \in {"reconcile", "ok"} =>
                    worker'[thread'[u].worker].at = "running"
    <3>1. \A v \in thread[u].joins \cup {thread[u].worker} : v # None => v # w
      BY <1>6 DEF PrepareInv, ThreadsHold, Joining, Watching
    <3>2. \A v \in thread[u].joins : worker'[v] = worker[v]
      BY <1>2, <1>4, <3>1 DEF PrepareTypeOK
    <3>3. thread[u].worker # None => worker'[thread[u].worker] = worker[thread[u].worker]
      BY <1>2, <1>4, <3>1 DEF PrepareTypeOK
    <3>4. thread[u].at \in {"reconcile", "ok"} => thread[u].worker # None
      BY DEF PrepareInv, ThreadsHold, Watching
    <3>5. QED
      BY <1>5, <3>2, <3>3, <3>4 DEF PrepareInv, ThreadsHold, Stopped
  <2>2. QED
    BY <1>5, <2>1 DEF ThreadsHold, Joining, Watching
<1>11. RetiredAreStopped'
  BY <1>2, <1>4, <1>8 DEF PrepareInv, RetiredAreStopped, Stopped, PrepareTypeOK
<1>12. \A v \in Workers : (Live(v)' => Live(v)) /\ worker'[v].root = worker[v].root
  BY <1>3, <1>4 DEF Live
<1>13. OneWorkerPerRoot'
  BY <1>12 DEF PrepareInv, OneWorkerPerRoot
<1>14. LiveAreKnown'
  <2> SUFFICES ASSUME NEW v \in Workers, Live(v), v # w
               PROVE  \/ v \in retired' \cup mainJoins \cup {held}
                      \/ \E u \in Threads : v \in thread'[u].joins \cup {thread'[u].worker}
    BY <1>1, <1>8, <1>12 DEF LiveAreKnown
  <2>1. v \notin thread[t].joins \cup {thread[t].worker}
    BY <1>3 DEF w
  <2>2. QED
    BY <1>5, <1>8, <2>1 DEF PrepareInv, LiveAreKnown
<1>15. AllAreJoined'
  <2> SUFFICES ASSUME NEW v \in retired', Live(v)'
               PROVE  /\ main' = "join" => worker'[v].root # active'
                      /\ \A u \in Threads :
                           thread'[u].at \in Joining \cup {"rebuild", "create"}
                             => worker'[v].root # thread'[u].root
    BY DEF AllAreJoined
  <2>1. v \in Workers
    BY <1>2, <1>3, <1>8 DEF PrepareTypeOK
  <2>2. CASE v = w
    BY <1>1, <1>5, <1>6, <1>7, <1>12, <2>1, <2>2 DEF Joining
  <2>3. CASE v # w
    BY <1>1, <1>5, <1>8, <1>12, <2>1, <2>3 DEF PrepareInv, AllAreJoined, Joining
  <2>4. QED
    BY <2>2, <2>3
<1>16. TriedAreKnown'
  BY <1>1, ThreadTried
<1>17. QED
  BY <1>5, <1>9, <1>10, <1>11, <1>13, <1>14, <1>15, <1>16 DEF PrepareInv
(* Every step of a prepare keeps the invariant.                            *)
LEMMA InvThread ==
    ASSUME PrepareInv, NEW t \in Threads, ThreadStep(t)
    PROVE  PrepareInv'
<1> USE DEF server, history, ThreadOnly
<1>1. PrepareTypeOK /\ PrepareTypeOK'
  BY TypeThread DEF PrepareInv
<1>2. thread[t].at \notin {"free", "ok", "err"}
  BY DEF ThreadStep, CheckIndex, JoinsEnd, BuildIndex, RebuildFails, CreateFails,
         StartsWatcher, PrepareFails, StartupEnds, Reconciles, ReconcileFails
<1>3. thread[t].root \in Roots
  BY <1>2 DEF PrepareInv, ThreadsAreKnown
<1>4. /\ thread[t].at \notin Joining => thread[t].joins = {}
      /\ thread[t].at \notin Watching => thread[t].worker = None
      /\ thread[t].worker \in Workers \cup {None}
      /\ thread[t].at \in Watching => thread[t].worker # None
  BY <1>1 DEF PrepareInv, ThreadsHold, PrepareTypeOK
<1>5. RetiredOf(thread[t].root) \subseteq retired
      /\ \A v \in retired \ RetiredOf(thread[t].root) : worker[v].root # thread[t].root
  BY DEF RetiredOf
<1>6. ASSUME NEW place, NEW joins, NEW w, Becomes(t, place, joins, w),
             ThreadsAreKnown' /\ OnePreparePerRoot' /\ ThreadsHold' /\ ServerHolds',
             RetiredAreStopped' /\ LiveAreKnown' /\ AllAreJoined' /\ OneWorkerPerRoot',
             \/ UNCHANGED <<db, tried>>
             \/ \E condition \in Conditions : SetDb(thread[t].root, condition)
             \/ /\ UNCHANGED db /\ place = "err"
                /\ tried' = IF db[thread[t].root] = "torn" THEN tried \cup {thread[t].root}
                                                           ELSE tried,
             UNCHANGED failed
      PROVE  PrepareInv'
  BY <1>1, <1>2, <1>6, ThreadTried DEF PrepareInv
<1>7. ASSUME CheckIndex(t), NEW place \in Joining, BeginJoin(t, place),
             Becomes(t, place, RetiredOf(thread[t].root), thread[t].worker)
      PROVE  PrepareInv'
  <2>1. thread[t].at = "check" /\ retired' = retired \ RetiredOf(thread[t].root)
        /\ UNCHANGED <<db, tried, server, worker>>
    BY <1>7 DEF CheckIndex, BeginJoin
  <2>2. place \notin Watching /\ place \notin {"free", "reconcile", "ok"}
        /\ thread[t].at \notin Watching \cup Joining
    BY <1>7, <2>1 DEF Joining, Watching
  <2>3. QED
    BY <1>2, <1>4, <1>5, <1>6, <1>7, <2>1, <2>2, ThreadKeepsWorkers DEF OnlyOf
<1>8. ASSUME BuildIndex(t), BeginJoin(t, "joinStart"),
             Becomes(t, "joinStart", RetiredOf(thread[t].root), thread[t].worker)
      PROVE  PrepareInv'
  <2>1. /\ thread[t].at \in {"rebuild", "create"} /\ retired' = retired \ RetiredOf(thread[t].root)
        /\ SetDb(thread[t].root, "current") /\ UNCHANGED <<server, worker>>
    BY <1>8 DEF BuildIndex, BeginJoin
  <2>2. "joinStart" \in Joining /\ "joinStart" \notin Watching
        /\ thread[t].at \notin Watching \cup Joining /\ "current" \in Conditions
    BY <2>1 DEF Joining, Watching, Conditions
  <2>3. QED
    BY <1>2, <1>4, <1>5, <1>6, <1>8, <2>1, <2>2, ThreadKeepsWorkers DEF OnlyOf
<1>9. ASSUME JoinsEnd(t), Ended(thread[t].joins), NEW place \in {"rebuild", "create"},
             Becomes(t, place, {}, thread[t].worker), thread[t].at \in Joining
      PROVE  PrepareInv'
  <2>1. UNCHANGED <<db, tried, server, worker, retired>>
    BY <1>9 DEF JoinsEnd
  <2>2. place \notin Watching \cup Joining /\ thread[t].at \in Working
        /\ thread[t].at \notin Watching
    BY <1>9 DEF Joining, Watching, Working
  <2>3. \A v \in thread[t].joins : ~Live(v)
    BY <1>9 DEF Ended, Live
  <2>4. QED
    BY <1>2, <1>4, <1>6, <1>9, <2>1, <2>2, <2>3, ThreadKeepsWorkers DEF OnlyOf
<1>10. ASSUME RebuildFails(t) \/ CreateFails(t),
              Becomes(t, "err", thread[t].joins, thread[t].worker)
       PROVE  PrepareInv'
  <2>1. thread[t].at \in {"rebuild", "create"} /\ UNCHANGED <<server, worker, retired>>
    BY <1>10 DEF RebuildFails, CreateFails
  <2>2. thread[t].at \notin Watching \cup Joining /\ "err" \notin Watching \cup Joining \cup Working
    BY <2>1 DEF Joining, Watching, Working
  <2>3. \/ UNCHANGED <<db, tried>>
        \/ \E condition \in Conditions : SetDb(thread[t].root, condition)
        \/ /\ UNCHANGED db
           /\ tried' = IF db[thread[t].root] = "torn" THEN tried \cup {thread[t].root} ELSE tried
    BY <1>10 DEF RebuildFails, CreateFails, Conditions
  <2>4. QED
    BY <1>2, <1>4, <1>6, <1>10, <2>1, <2>2, <2>3, ThreadKeepsWorkers DEF OnlyOf
<1>11. ASSUME PrepareFails(t), Becomes(t, "err", {}, thread[t].worker)
       PROVE  PrepareInv'
  <2>1. /\ thread[t].at = "joinStart" /\ Ended(thread[t].joins)
        /\ UNCHANGED <<db, tried, server, worker, retired>>
    BY <1>11 DEF PrepareFails
  <2>2. thread[t].at \notin Watching /\ "err" \notin Watching \cup Joining \cup Working
    BY <2>1 DEF Joining, Watching, Working
  <2>3. \A v \in thread[t].joins : ~Live(v)
    BY <2>1 DEF Ended, Live
  <2>4. QED
    BY <1>2, <1>4, <1>6, <1>11, <2>1, <2>2, <2>3, ThreadKeepsWorkers DEF OnlyOf
<1>12. ASSUME StartupEnds(t), worker[thread[t].worker].at = "running",
              Becomes(t, "reconcile", thread[t].joins, thread[t].worker)
       PROVE  PrepareInv'
  <2>1. thread[t].at = "start" /\ UNCHANGED <<db, tried, server, worker, retired>>
    BY <1>12 DEF StartupEnds
  <2>2. thread[t].at \in Watching \ Joining /\ "reconcile" \in Watching
        /\ "reconcile" \notin Joining \cup Working
    BY <2>1 DEF Joining, Watching, Working
  <2>3. QED
    BY <1>2, <1>4, <1>6, <1>12, <2>1, <2>2, ThreadKeepsWorkers DEF OnlyOf
<1>13. ASSUME StartupEnds(t), worker[thread[t].worker].at = "ended",
              Becomes(t, "err", thread[t].joins, None)
       PROVE  PrepareInv'
  <2>1. thread[t].at = "start" /\ UNCHANGED <<db, tried, server, worker, retired>>
    BY <1>13 DEF StartupEnds
  <2>2. thread[t].at \in Watching \ Joining /\ "err" \notin Watching \cup Joining \cup Working
    BY <2>1 DEF Joining, Watching, Working
  <2>3. ~Live(thread[t].worker)
    BY <1>13 DEF Live
  <2>4. QED
    BY <1>2, <1>4, <1>6, <1>13, <2>1, <2>2, <2>3, ThreadKeepsWorkers DEF OnlyOf
<1>14. ASSUME Reconciles(t), Becomes(t, "ok", thread[t].joins, thread[t].worker)
       PROVE  PrepareInv'
  <2>1. thread[t].at = "reconcile" /\ UNCHANGED <<db, tried, server, worker, retired>>
    BY <1>14 DEF Reconciles
  <2>2. thread[t].at \in Watching \ Joining /\ "ok" \in Watching
        /\ "ok" \notin Joining \cup Working
    BY <2>1 DEF Joining, Watching, Working
  <2>3. QED
    BY <1>2, <1>4, <1>6, <1>14, <2>1, <2>2, ThreadKeepsWorkers DEF OnlyOf
<1>15. CASE CheckIndex(t)
  <2>1. PICK place \in Joining : BeginJoin(t, place)
    BY <1>1, <1>3, <1>15, CheckEffect
  <2>2. Becomes(t, place, RetiredOf(thread[t].root), thread[t].worker)
    BY <1>1, <2>1, BecomesEffect
  <2>3. QED
    BY <1>7, <1>15, <2>1, <2>2
<1>16. CASE JoinsEnd(t)
  <2>1. \E place \in {"rebuild", "create"} : Becomes(t, place, {}, thread[t].worker)
    BY <1>1, <1>16, BecomesEffect DEF JoinsEnd
  <2>2. Ended(thread[t].joins) /\ thread[t].at \in Joining
    BY <1>16 DEF JoinsEnd, EndJoin, Joining
  <2>3. QED
    BY <1>9, <1>16, <2>1, <2>2
<1>17. CASE BuildIndex(t)
  BY <1>1, <1>8, <1>17, BecomesEffect DEF BuildIndex
<1>18. CASE RebuildFails(t) \/ CreateFails(t)
  BY <1>1, <1>10, <1>18, BecomesEffect DEF RebuildFails, CreateFails
<1>19. CASE \E w \in Workers : StartsWatcher(t, w)
  <2>1. PICK w \in Workers : StartsWatcher(t, w)
    BY <1>19
  <2>2. Becomes(t, "start", {}, w)
    BY <1>1, <2>1, BecomesEffect DEF StartsWatcher
  <2>3. QED
    BY <1>1, <2>1, <2>2, InvStartsWatcher
<1>20. CASE PrepareFails(t)
  BY <1>1, <1>11, <1>20, BecomesEffect DEF PrepareFails
<1>21. CASE StartupEnds(t)
  BY <1>1, <1>12, <1>13, <1>21, BecomesEffect DEF StartupEnds
<1>22. CASE Reconciles(t)
  BY <1>1, <1>14, <1>22, BecomesEffect DEF Reconciles
<1>23. CASE ReconcileFails(t)
  BY <1>1, <1>23, BecomesEffect, InvReconcileFails DEF ReconcileFails
<1>24. QED
  BY <1>15, <1>16, <1>17, <1>18, <1>19, <1>20, <1>21, <1>22, <1>23 DEF ThreadStep
-----------------------------------------------------------------------------
(* Workers and the user. *)

(* An index that changes under everybody: no thread moves.                 *)
LEMMA SetDbTried ==
    ASSUME PrepareInv, NEW r \in Roots, NEW condition \in Conditions, SetDb(r, condition),
           UNCHANGED <<server, thread>>
    PROVE  TriedAreKnown'
<1>1. tried' \subseteq tried /\ \A x \in tried' : db'[x] = "torn"
  BY DEF SetDb, PrepareInv, PrepareTypeOK, TriedAreKnown
<1>2. QED
  BY <1>1 DEF PrepareInv, TriedAreKnown, server

(* A worker goes on or ends on its own: nothing that relies on it notices, *)
(* for only a stopped worker ends, or one that did not start.              *)
LEMMA WorkerGoesOn ==
    ASSUME PrepareInv, NEW w \in Workers,
           \/ UNCHANGED worker
           \/ worker[w].at = "starting" /\ worker' = [worker EXCEPT ![w].at = "running"]
           \/ /\ worker[w].at \in {"starting", "stopping"}
              /\ worker' = [worker EXCEPT ![w].at = "ended"],
           UNCHANGED <<server, thread, retired>>
    PROVE  /\ ThreadsAreKnown' /\ OnePreparePerRoot' /\ ThreadsHold' /\ ServerHolds'
           /\ RetiredAreStopped' /\ LiveAreKnown' /\ AllAreJoined' /\ OneWorkerPerRoot'
<1> USE DEF server
<1>1. PrepareTypeOK /\ worker \in [Workers -> WorkerType]
  BY DEF PrepareInv, PrepareTypeOK, WorkerType
<1>2. \A v \in Workers : /\ worker'[v].root = worker[v].root
                         /\ worker[v].at = "running" => worker'[v].at = "running"
                         /\ Stopped(v) => Stopped(v)'
                         /\ Live(v)' => Live(v)
  BY <1>1 DEF WorkerType, Stopped, Live
<1>3. \A v \in Workers : worker[v] \in WorkerType /\ worker'[v] \in WorkerType
  BY <1>1 DEF WorkerType, WorkerPlaces
<1>4. ThreadsAreKnown' /\ OnePreparePerRoot'
  BY DEF PrepareInv, ThreadsAreKnown, OnePreparePerRoot
<1>5. ThreadsHold'
  <2>1. \A u \in Threads : thread[u].joins \subseteq Workers /\ thread[u].worker \in Workers \cup {None}
    BY <1>1 DEF PrepareTypeOK
  <2>2. \A u \in Threads : thread[u].at \in {"reconcile", "ok"} => thread[u].worker # None
    BY DEF PrepareInv, ThreadsHold, Watching
  <2>3. QED
    BY <1>2, <2>1, <2>2 DEF PrepareInv, ThreadsHold
<1>6. ServerHolds'
  <2>1. held # None => worker'[held] = [at |-> "running", root |-> active]
    <3>1. ASSUME held # None PROVE worker'[held] = [at |-> "running", root |-> active]
      <4>1. held \in Workers /\ worker[held] = [at |-> "running", root |-> active]
        BY <1>1, <3>1 DEF PrepareInv, ServerHolds, PrepareTypeOK
      <4>2. worker'[held].at = "running" /\ worker'[held].root = active
        BY <1>2, <4>1
      <4>3. QED
        BY <1>3, <4>1, <4>2 DEF WorkerType
    <3>2. QED
      BY <3>1
  <2>2. mainJoins \subseteq Workers
    BY <1>1 DEF PrepareTypeOK
  <2>3. QED
    BY <1>2, <2>1, <2>2 DEF PrepareInv, ServerHolds
<1>7. RetiredAreStopped'
  BY <1>1, <1>2 DEF PrepareInv, RetiredAreStopped, PrepareTypeOK
<1>8. LiveAreKnown' /\ OneWorkerPerRoot'
  BY <1>2 DEF PrepareInv, LiveAreKnown, OneWorkerPerRoot
<1>9. AllAreJoined'
  BY <1>1, <1>2 DEF PrepareInv, AllAreJoined, PrepareTypeOK
<1>10. QED
  BY <1>4, <1>5, <1>6, <1>7, <1>8, <1>9

(* The steps of the workers and of the user keep the invariant.            *)
LEMMA InvOutside ==
    ASSUME PrepareInv, Environment \/ \E w \in Workers : WorkerStep(w)
    PROVE  PrepareInv'
<1> USE DEF server, history
<1>1. PrepareTypeOK /\ PrepareTypeOK'
  BY TypeOutside DEF PrepareInv
<1>2. ASSUME NEW r \in Roots, Damage(r) \/ UserScans(r) PROVE PrepareInv'
  <2>1. \E condition \in Conditions : SetDb(r, condition)
    BY <1>2 DEF Damage, UserScans, Conditions
  <2>2. UNCHANGED <<server, thread, worker, retired>>
    BY <1>2 DEF Damage, UserScans
  <2>3. TriedAreKnown'
    BY <2>1, <2>2, SetDbTried
  <2>4. /\ ThreadsAreKnown' /\ OnePreparePerRoot' /\ ThreadsHold' /\ ServerHolds'
        /\ RetiredAreStopped' /\ LiveAreKnown' /\ AllAreJoined' /\ OneWorkerPerRoot'
    BY <2>2 DEF PrepareInv, ThreadsAreKnown, OnePreparePerRoot, ThreadsHold, ServerHolds,
       RetiredAreStopped, LiveAreKnown, AllAreJoined, OneWorkerPerRoot, Stopped, Live
  <2>5. QED
    BY <1>1, <2>3, <2>4 DEF PrepareInv
<1>3. ASSUME NEW w \in Workers, WorkerStarts(w) \/ WorkerScans(w) PROVE PrepareInv'
  <2>1. worker[w].root \in Roots /\ SetDb(worker[w].root, "current")
        /\ UNCHANGED <<server, thread, retired>>
    BY <1>1, <1>3 DEF WorkerStarts, WorkerScans, PrepareTypeOK
  <2>2. TriedAreKnown'
    BY <2>1, SetDbTried DEF Conditions
  <2>3. \/ UNCHANGED worker
        \/ worker[w].at = "starting" /\ worker' = [worker EXCEPT ![w].at = "running"]
    BY <1>3 DEF WorkerStarts, WorkerScans
  <2>4. QED
    BY <1>1, <2>1, <2>2, <2>3, WorkerGoesOn DEF PrepareInv
<1>4. ASSUME NEW w \in Workers, WorkerFailsToStart(w) \/ WorkerEnds(w) PROVE PrepareInv'
  <2>1. /\ worker[w].at \in {"starting", "stopping"}
        /\ worker' = [worker EXCEPT ![w].at = "ended"]
        /\ UNCHANGED <<db, server, thread, retired, tried>>
    BY <1>4 DEF WorkerFailsToStart, WorkerEnds
  <2>2. TriedAreKnown'
    BY <2>1 DEF PrepareInv, TriedAreKnown
  <2>3. QED
    BY <1>1, <2>1, <2>2, WorkerGoesOn DEF PrepareInv
<1>5. QED
  BY <1>2, <1>3, <1>4 DEF Environment, WorkerStep

-----------------------------------------------------------------------------
(* The invariants of the specification. *)

(* The initial states satisfy the inductive invariant: the prepare of the  *)
(* launch root, if any, has just been spawned.                             *)
LEMMA InvInit == Init => PrepareInv
<1> SUFFICES ASSUME Init PROVE PrepareInv
  OBVIOUS
<1>1. PrepareTypeOK
  BY TypeInit
<1>2. /\ held = None /\ parked = {} /\ failed = {} /\ main = "idle" /\ mainJoins = {}
      /\ retired = {} /\ tried = {}
      /\ \A w \in Workers : ~Live(w)
  BY DEF Init, Live
<1>3. \A u \in Threads : \/ thread[u] = FreeThread /\ u # reconcile
                         \/ thread[u] = NewThread(active) /\ u = reconcile
  BY DEF Init
<1>4. reconcile # None => reconcile \in Threads
  BY DEF Init
<1>5. FreeThread = [at |-> "free", root |-> None, joins |-> {}, worker |-> None]
      /\ NewThread(active) = [at |-> "check", root |-> active, joins |-> {}, worker |-> None]
  BY DEF FreeThread, NewThread
<1>6. ThreadsAreKnown /\ OnePreparePerRoot
  BY <1>1, <1>2, <1>3, <1>4, <1>5 DEF ThreadsAreKnown, OnePreparePerRoot, PrepareTypeOK
<1>7. ThreadsHold
  BY <1>3, <1>5 DEF ThreadsHold, Joining, Watching
<1>8. ServerHolds /\ RetiredAreStopped /\ LiveAreKnown /\ AllAreJoined /\ OneWorkerPerRoot
  BY <1>2 DEF ServerHolds, RetiredAreStopped, LiveAreKnown, AllAreJoined, OneWorkerPerRoot
<1>9. TriedAreKnown
  BY <1>2 DEF TriedAreKnown
<1>10. QED
  BY <1>1, <1>6, <1>7, <1>8, <1>9 DEF PrepareInv

(* Every step keeps the inductive invariant.                               *)
LEMMA InvNext == PrepareInv /\ [Next]_vars => PrepareInv'
<1> SUFFICES ASSUME PrepareInv, [Next]_vars PROVE PrepareInv'
  OBVIOUS
<1>1. CASE Call
  BY <1>1, InvCallSameRoot, InvSwitchRoot DEF Call
<1>2. CASE Main
  BY <1>2, InvServerMoves, InvGate, InvGateStartsWatcher, InvMainStartsWorker, InvMainStartupEnds
     DEF Main
<1>3. CASE Environment \/ \E w \in Workers : WorkerStep(w)
  BY <1>3, InvOutside
<1>4. CASE \E t \in Threads : ThreadStep(t)
  BY <1>4, InvThread
<1>5. CASE UNCHANGED vars
  <2>1. UNCHANGED <<db, active, prepared, held, reconcile, parked, failed, main, mainJoins, thread,
                    worker, retired, tried, faults, scans>>
    BY <1>5 DEF vars, server, history
  <2>2. PrepareTypeOK'
    BY <2>1 DEF PrepareInv, PrepareTypeOK
  <2>3. /\ ThreadsAreKnown' /\ OnePreparePerRoot' /\ ThreadsHold' /\ ServerHolds'
        /\ RetiredAreStopped' /\ LiveAreKnown' /\ AllAreJoined' /\ OneWorkerPerRoot'
        /\ TriedAreKnown'
    BY <2>1 DEF PrepareInv, ThreadsAreKnown, OnePreparePerRoot, ThreadsHold, ServerHolds,
       RetiredAreStopped, LiveAreKnown, AllAreJoined, OneWorkerPerRoot, Stopped, Live,
       TriedAreKnown
  <2>4. QED
    BY <2>2, <2>3 DEF PrepareInv
<1>6. QED
  BY <1>1, <1>2, <1>3, <1>4, <1>5 DEF Next

(* The inductive invariant holds in every reachable state.                 *)
THEOREM PrepareInvariantHolds == Spec => []PrepareInv
  BY InvInit, InvNext, PTL DEF Spec

(* Every variable of the server, its threads and workers is well typed.    *)
THEOREM PrepareTypeCorrect == Spec => []PrepareTypeOK
<1>1. PrepareInv => PrepareTypeOK
  BY DEF PrepareInv
<1>2. QED
  BY <1>1, PrepareInvariantHolds, PTL

(* No root ever has two watcher workers that have not ended, however often *)
(* the server leaves it and comes back while the old worker stops.         *)
THEOREM OneWorker == Spec => []OneWorkerPerRoot
<1>1. PrepareInv => OneWorkerPerRoot
  BY DEF PrepareInv
<1>2. QED
  BY <1>1, PrepareInvariantHolds, PTL

(* An index is built anew only when every worker of its root has ended.    *)
THEOREM RebuildIsAlone == Spec => []RebuildsAlone
<1>1. ASSUME PrepareInv PROVE RebuildsAlone
  <2> SUFFICES ASSUME NEW t \in Threads, thread[t].at \in {"rebuild", "create"},
                      NEW w \in Workers, Live(w)
               PROVE  worker[w].root # thread[t].root
    BY DEF RebuildsAlone
  <2>1. thread[t].joins = {}
    BY <1>1 DEF PrepareInv, ThreadsHold, Joining
  <2>2. QED
    BY <1>1, <2>1, NoneLeft DEF Ended
<1>2. QED
  BY <1>1, PrepareInvariantHolds, PTL

(* A root has one prepare at a time, parked, resumed or active.            *)
THEOREM OnePrepare == Spec => []OnePreparePerRoot
<1>1. PrepareInv => OnePreparePerRoot
  BY DEF PrepareInv
<1>2. QED
  BY <1>1, PrepareInvariantHolds, PTL

(* An answer is given under the running watcher of the root it is about.   *)
THEOREM AnswerIsWatched == Spec => []AnswersAreWatched
<1>1. PrepareInv => AnswersAreWatched
  BY DEF PrepareInv, ServerHolds, AnswersAreWatched
<1>2. QED
  BY <1>1, PrepareInvariantHolds, PTL

(* An unreadable index whose rebuild failed is not rebuilt again while it  *)
(* stays unreadable, whichever root the server was on when it failed.      *)
THEOREM NothingIsRebuiltTwice == Spec => []NoSecondRebuild
<1>1. PrepareInv => NoSecondRebuild
  BY DEF PrepareInv, TriedAreKnown, NoSecondRebuild
<1>2. QED
  BY <1>1, PrepareInvariantHolds, PTL
=============================================================================
