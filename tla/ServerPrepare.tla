----------------------------- MODULE ServerPrepare -----------------------------
(***************************************************************************)
(* How the MCP server prepares and switches project roots                  *)
(* (mcp/server.rs: spawn_index_prepare, switch_root and the head of        *)
(* handle_call_tool_inner; watcher.rs: start_watcher and the retired       *)
(* workers; sync.rs: ensure_index_matches_extractor and create_index).     *)
(*                                                                         *)
(* The server answers for one active root.  A prepare thread rebuilds or   *)
(* creates the index of its root, starts the watcher of the root,          *)
(* reconciles, and hands the watcher over to the call that joins it.  A    *)
(* call for another root parks an unfinished prepare.  A dropped watcher   *)
(* goes on until its current step is over; its worker is retired, and      *)
(* whoever rebuilds the index or starts the next worker of the root joins  *)
(* it first.  What a watcher does is in WatcherRefresh; here it only runs, *)
(* scans and ends.                                                         *)
(***************************************************************************)
EXTENDS Naturals, FiniteSets

CONSTANTS
    Roots,      \* project roots
    Marked,     \* those with a project marker (.git, Cargo.toml, ...)
    Threads,    \* ids of prepare threads, used again once free
    Workers,    \* ids of watcher workers, used again once free
    None,       \* no thread, no worker
    MaxFaults,  \* bound: failures, damage to index files
    MaxScans    \* bound: `code-kb scan` runs of the user

ASSUME MarkedAssumption == Marked \subseteq Roots /\ Roots # {}
ASSUME IdsAssumption    == Threads \subseteq Nat /\ Workers \subseteq Nat
ASSUME NoneAssumption   == None \notin Threads \cup Workers \cup Roots
ASSUME CapsAssumption   == MaxFaults \in Nat /\ MaxScans \in Nat

VARIABLES
    db,         \* [Roots -> Conditions]: the index file of a root
    active,     \* McpServer.workspace
    prepared,   \* McpServer.prepared
    held,       \* McpServer._watcher
    reconcile,  \* McpServer.reconcile
    parked,     \* McpServer.parked
    failed,     \* McpServer.failed_rebuilds
    main,       \* where the server's thread is
    mainJoins,  \* the retired workers it waits for
    thread,     \* the prepare threads
    worker,     \* the watcher workers
    retired,    \* RETIRED_WORKERS
    tried,      \* history: unreadable indexes whose rebuild failed
    faults,     \* history: faults so far
    scans       \* history: scans of the user

server  == <<active, prepared, held, reconcile, parked, failed, main, mainJoins>>
history == <<faults, scans>>
vars    == <<db, server, thread, worker, retired, tried, history>>

(* "old": another julie-extract wrote it; "torn": is_unreadable_database.  *)
Conditions   == {"missing", "torn", "old", "current"}
Unusable     == {"missing", "torn"}
MainPlaces   == {"idle", "gate", "join", "startup", "open", "answer"}
ThreadPlaces == {"free", "check", "joinRebuild", "rebuild", "joinCreate", "create",
                 "joinStart", "start", "reconcile", "ok", "err"}
WorkerPlaces == {"ended", "starting", "running", "stopping"}

FreeThread == [at |-> "free", root |-> None, joins |-> {}, worker |-> None]
Finished(t) == thread[t].at \in {"ok", "err"}
Ended(ws)   == \A w \in ws : worker[w].at = "ended"

(* An id is free once its worker has ended and nobody refers to it.        *)
Idle(w) ==
    /\ worker[w].at = "ended"
    /\ w \notin retired \cup mainJoins \cup {held}
    /\ \A t \in Threads : w \notin thread[t].joins \cup {thread[t].worker}

Lowest(ids, n) == n \in ids /\ \A m \in ids : n <= m

Fault == faults < MaxFaults /\ faults' = faults + 1 /\ UNCHANGED scans

(* An unreadable index counts as tried until it is replaced.               *)
SetDb(r, condition) ==
    /\ db' = [db EXCEPT ![r] = condition]
    /\ tried' = IF condition = "torn" THEN tried ELSE tried \ {r}

-----------------------------------------------------------------------------
(* Watcher handles and their workers. *)

RetiredOf(r) == {w \in retired : worker[w].root = r}

(* Mutant of Drop: the worker is told to stop and then forgotten.          *)
DropForgets(ws) ==
    /\ worker' = [w \in Workers |-> IF w \in ws THEN [worker[w] EXCEPT !.at = "stopping"]
                                                ELSE worker[w]]
    /\ UNCHANGED retired

(* WatcherHandle::drop, for each handle of ws.                             *)
Drop(ws) ==
    /\ worker' = [w \in Workers |-> IF w \in ws THEN [worker[w] EXCEPT !.at = "stopping"]
                                                ELSE worker[w]]
    /\ retired' = {w \in retired : worker[w].at # "ended"} \cup ws

(* The startup synchronizes the registrations and scans; it builds an      *)
(* index the extractor cannot use anew.                                    *)
WorkerStarts(w) ==
    /\ worker[w].at = "starting"
    /\ worker' = [worker EXCEPT ![w].at = "running"]
    /\ SetDb(worker[w].root, "current")
    /\ UNCHANGED <<server, thread, retired, history>>

WorkerFailsToStart(w) ==
    /\ worker[w].at = "starting"
    /\ Fault
    /\ worker' = [worker EXCEPT ![w].at = "ended"]
    /\ UNCHANGED <<db, server, thread, retired, tried>>

(* A reconcile of the watcher; a stopping worker finishes the one it runs. *)
WorkerScans(w) ==
    /\ worker[w].at \in {"running", "stopping"}
    /\ db[worker[w].root] # "current"
    /\ SetDb(worker[w].root, "current")
    /\ UNCHANGED <<server, thread, worker, retired, history>>

WorkerEnds(w) ==
    /\ worker[w].at = "stopping"
    /\ worker' = [worker EXCEPT ![w].at = "ended"]
    /\ UNCHANGED <<db, server, thread, retired, tried, history>>

StartWorker(w, r) ==
    /\ Lowest({v \in Workers : Idle(v)}, w)
    /\ worker' = [worker EXCEPT ![w] = [at |-> "starting", root |-> r]]

-----------------------------------------------------------------------------
(* The prepare thread. *)

ThreadOnly == UNCHANGED <<server, scans>>

Goto(t, place) == thread' = [thread EXCEPT ![t].at = place]

(* join_retired_workers takes the workers of the root out of the list.     *)
BeginJoin(t, place) ==
    /\ thread' = [thread EXCEPT ![t].at = place, ![t].joins = RetiredOf(thread[t].root)]
    /\ retired' = retired \ RetiredOf(thread[t].root)

(* Mutant of EndJoin: the thread goes on without the join.                 *)
EndJoinEarly(t, place) ==
    thread' = [thread EXCEPT ![t].at = place, ![t].joins = {}]

EndJoin(t, place) ==
    /\ Ended(thread[t].joins)
    /\ thread' = [thread EXCEPT ![t].at = place, ![t].joins = {}]

CheckIndex(t) ==
    /\ thread[t].at = "check"
    /\ CASE db[thread[t].root] \in {"torn", "old"} -> BeginJoin(t, "joinRebuild")
         [] db[thread[t].root] = "missing"         -> BeginJoin(t, "joinCreate")
         [] db[thread[t].root] = "current"         -> BeginJoin(t, "joinStart")
    /\ UNCHANGED <<db, worker, tried, faults>> /\ ThreadOnly

JoinsEnd(t) ==
    /\ \/ thread[t].at = "joinRebuild" /\ EndJoin(t, "rebuild")
       \/ thread[t].at = "joinCreate"  /\ EndJoin(t, "create")
    /\ UNCHANGED <<db, worker, retired, tried, faults>> /\ ThreadOnly

(* rebuild_index or create_index succeeds; start_watcher is next.          *)
BuildIndex(t) ==
    /\ thread[t].at \in {"rebuild", "create"}
    /\ SetDb(thread[t].root, "current")
    /\ BeginJoin(t, "joinStart")
    /\ UNCHANGED <<worker, faults>> /\ ThreadOnly

(* The rebuild works in a side file, so a failure keeps the old index; on  *)
(* Windows the second rename of the swap can fail after the removal.       *)
RebuildFails(t) ==
    /\ thread[t].at = "rebuild"
    /\ Fault
    /\ \/ UNCHANGED db
          /\ tried' = IF db[thread[t].root] = "torn" THEN tried \cup {thread[t].root} ELSE tried
       \/ SetDb(thread[t].root, "missing")
    /\ Goto(t, "err")
    /\ UNCHANGED <<server, worker, retired>>

(* The copy of a parent's index may be there and its rebuild have failed.  *)
CreateFails(t) ==
    /\ thread[t].at = "create"
    /\ Fault
    /\ \/ UNCHANGED <<db, tried>>
       \/ SetDb(thread[t].root, "old")
    /\ Goto(t, "err")
    /\ UNCHANGED <<server, worker, retired>>

(* ensure_fts_index_path needs a usable file before the worker is spawned. *)
StartsWatcher(t, w) ==
    /\ thread[t].at = "joinStart"
    /\ db[thread[t].root] \notin Unusable
    /\ Ended(thread[t].joins)
    /\ StartWorker(w, thread[t].root)
    /\ thread' = [thread EXCEPT ![t].at = "start", ![t].joins = {}, ![t].worker = w]
    /\ UNCHANGED <<db, retired, tried, faults>> /\ ThreadOnly

PrepareFails(t) ==
    /\ thread[t].at = "joinStart"
    /\ Ended(thread[t].joins)
    /\ IF db[thread[t].root] \in Unusable THEN UNCHANGED history ELSE Fault
    /\ thread' = [thread EXCEPT ![t].at = "err", ![t].joins = {}]
    /\ UNCHANGED <<db, server, worker, retired, tried>>

StartupEnds(t) ==
    /\ thread[t].at = "start"
    /\ \/ worker[thread[t].worker].at = "running" /\ Goto(t, "reconcile")
       \/ worker[thread[t].worker].at = "ended"
          /\ thread' = [thread EXCEPT ![t].at = "err", ![t].worker = None]
    /\ UNCHANGED <<db, worker, retired, tried, faults>> /\ ThreadOnly

Reconciles(t) ==
    /\ thread[t].at = "reconcile"
    /\ db[thread[t].root] \notin Unusable
    /\ Goto(t, "ok")
    /\ UNCHANGED <<db, worker, retired, tried, faults>> /\ ThreadOnly

(* The error of the reconcile drops the watcher the thread started.        *)
ReconcileFails(t) ==
    /\ thread[t].at = "reconcile"
    /\ IF db[thread[t].root] \in Unusable THEN UNCHANGED history ELSE Fault
    /\ Drop({thread[t].worker})
    /\ thread' = [thread EXCEPT ![t].at = "err", ![t].worker = None]
    /\ UNCHANGED <<db, server, tried>>

-----------------------------------------------------------------------------
(* The server's thread. *)

CanSpawn(r) == r \in Marked \/ db[r] # "missing"
NewThread(r) == [at |-> "check", root |-> r, joins |-> {}, worker |-> None]

(* The threads of `gone` were joined; one is spawned for r unless r has no *)
(* index and no marker.                                                    *)
Spawn(r, gone) ==
    IF CanSpawn(r)
    THEN \E t \in Threads :
           /\ Lowest({u \in Threads : thread[u].at = "free"}, t)
           /\ reconcile' = t
           /\ thread' = [u \in Threads |-> CASE u = t     -> NewThread(r)
                                             [] u \in gone -> FreeThread
                                             [] OTHER      -> thread[u]]
    ELSE reconcile' = None
         /\ thread' = [u \in Threads |-> IF u \in gone THEN FreeThread ELSE thread[u]]

NoSpawn(next, gone) ==
    /\ reconcile' = next
    /\ thread' = [u \in Threads |-> IF u \in gone THEN FreeThread ELSE thread[u]]

OnlyOf(x) == {x} \ {None}

(* Mutant of Started: every thread counts as one that holds a watcher.     *)
StartedAny(ts) == {thread[t].worker : t \in ts}

(* The watchers that finished prepares of ts hand over.                    *)
Started(ts) == {thread[t].worker : t \in {u \in ts : thread[u].at = "ok"}}

(* Mutant of Recorded: the error of an abandoned prepare is dropped.       *)
RecordedNone(ts) == {}

(* settle_inactive_prepare: an error over an unreadable index is recorded. *)
Recorded(ts) ==
    {r \in Roots : db[r] = "torn" /\ \E t \in ts : thread[t].at = "err" /\ thread[t].root = r}

(* Mutant of Resumable: a running prepare of the root is not found.        *)
ResumableNone(ts, r) == {}

Resumable(ts, r) == {t \in ts : thread[t].root = r}

(* Mutant of Release: the watcher of the root that is left stays in place. *)
ReleaseOthers(ws) == UNCHANGED held /\ Drop(ws)

(* The handle of the server and those of ws are dropped.                   *)
Release(ws) == held' = None /\ Drop(ws \cup OnlyOf(held))

(* A call for the active root: drop_finished_parked_prepares.              *)
CallSameRoot ==
    /\ main = "idle" /\ prepared
    /\ CanSpawn(active)
    /\ main' = "gate"
    /\ LET settled == {t \in parked : Finished(t)}
       IN /\ parked' = parked \ settled
          /\ failed' = failed \cup Recorded(settled)
          /\ Drop(Started(settled))
          /\ NoSpawn(reconcile, settled)
    /\ UNCHANGED <<db, active, prepared, held, mainJoins, tried, history>>

(* switch_root: the watcher is dropped, finished prepares are settled, an  *)
(* unfinished one is parked, and a parked one of the root is resumed.      *)
SwitchRoot(r) ==
    /\ main = "idle" /\ ~(prepared /\ active = r)
    /\ CanSpawn(r)
    /\ main' = "gate" /\ active' = r /\ prepared' = TRUE
    /\ LET left    == parked \cup OnlyOf(reconcile)
           settled == {t \in left : Finished(t)}
           resumed == Resumable(left \ settled, r)
           errors  == failed \cup Recorded(settled)
       IN /\ Release(Started(settled))
          /\ parked' = left \ (settled \cup resumed)
          /\ failed' = IF resumed = {} /\ db[r] # "torn" THEN errors \ {r} ELSE errors
          /\ \/ \E t \in resumed : NoSpawn(t, settled)
             \/ resumed = {} /\ r \in failed' /\ NoSpawn(None, settled)
             \/ resumed = {} /\ r \notin failed' /\ Spawn(r, settled)
    /\ UNCHANGED <<db, mainJoins, tried, history>>

(* The prepare is not finished in time: "Indexing ... started".            *)
GateTimesOut ==
    /\ main = "gate"
    /\ reconcile # None /\ ~Finished(reconcile)
    /\ main' = "idle"
    /\ UNCHANGED <<db, active, prepared, held, reconcile, parked, failed, mainJoins,
                   thread, worker, retired, tried, history>>

(* The gate goes on with no prepare, or with one it has joined.            *)
AtGate    == main = "gate" /\ (reconcile # None => Finished(reconcile))
Joined    == OnlyOf(reconcile)
Errored   == \E t \in Joined : thread[t].at = "err"
HandedOver == Started(Joined)

(* Mutant of GateFindsNoIndex: the initial scan is not retried.            *)
GateGivesUp ==
    /\ AtGate
    /\ db[active] = "missing"
    /\ main' = "idle"
    /\ Release(HandedOver)
    /\ NoSpawn(None, Joined)
    /\ UNCHANGED <<db, active, prepared, parked, failed, mainJoins, tried, history>>

GateFindsNoIndex ==
    /\ AtGate
    /\ db[active] = "missing"
    /\ main' = "idle"
    /\ Release(HandedOver)
    /\ Spawn(active, Joined)
    /\ UNCHANGED <<db, active, prepared, parked, failed, mainJoins, tried, history>>

(* A failed prepare over an unreadable index is recorded, never retried.   *)
GateRecordsFailure ==
    /\ AtGate
    /\ Errored /\ db[active] = "torn"
    /\ main' = "idle"
    /\ Release({})
    /\ failed' = failed \cup {active}
    /\ NoSpawn(None, Joined)
    /\ UNCHANGED <<db, active, prepared, parked, mainJoins, tried, history>>

GateRetries ==
    /\ AtGate
    /\ Errored /\ db[active] \notin Unusable
    /\ main' = "idle"
    /\ Release({})
    /\ Spawn(active, Joined)
    /\ UNCHANGED <<db, active, prepared, parked, failed, mainJoins, tried, history>>

(* What the gate holds once a prepare, if any, handed its watcher over.    *)
TakeOver ==
    /\ \/ \E w \in HandedOver : held' = w /\ Drop(OnlyOf(held))
       \/ HandedOver = {} /\ UNCHANGED <<held, worker, retired>>
    /\ NoSpawn(None, Joined)

GateRefuses ==
    /\ AtGate
    /\ ~Errored /\ active \in failed /\ db[active] = "torn"
    /\ main' = "idle"
    /\ TakeOver
    /\ UNCHANGED <<db, active, prepared, parked, failed, mainJoins, tried, history>>

GatePasses ==
    /\ AtGate
    /\ ~Errored /\ db[active] # "missing" /\ ~(active \in failed /\ db[active] = "torn")
    /\ failed' = failed \ {active}
    /\ held # None \/ HandedOver # {}
    /\ TakeOver
    /\ main' = "open"
    /\ UNCHANGED <<db, active, prepared, parked, mainJoins, tried, history>>

(* No watcher: the call itself runs start_watcher.                         *)
GateStartsWatcher ==
    /\ AtGate
    /\ ~Errored /\ db[active] # "missing" /\ ~(active \in failed /\ db[active] = "torn")
    /\ failed' = failed \ {active}
    /\ held = None /\ HandedOver = {}
    /\ NoSpawn(None, Joined)
    /\ mainJoins' = RetiredOf(active)
    /\ retired' = retired \ RetiredOf(active)
    /\ main' = "join"
    /\ UNCHANGED <<db, active, prepared, held, parked, worker, tried, history>>

MainStartsWorker(w) ==
    /\ main = "join"
    /\ Ended(mainJoins)
    /\ StartWorker(w, active)
    /\ mainJoins' = {w}
    /\ main' = "startup"
    /\ UNCHANGED <<db, active, prepared, held, reconcile, parked, failed, thread, retired,
                   tried, history>>

MainStartupEnds(w) ==
    /\ main = "startup" /\ w \in mainJoins
    /\ \/ /\ worker[w].at = "running"
          /\ held' = w /\ main' = "open"
          /\ UNCHANGED <<reconcile, thread>>
       \/ /\ worker[w].at = "ended"
          /\ main' = "idle"
          /\ Spawn(active, {})
          /\ UNCHANGED held
    /\ mainJoins' = {}
    /\ UNCHANGED <<db, active, prepared, parked, failed, worker, retired, tried, history>>

Open ==
    /\ main = "open"
    /\ main' = IF db[active] \in Unusable THEN "idle" ELSE "answer"
    /\ UNCHANGED <<db, active, prepared, held, reconcile, parked, failed, mainJoins,
                   thread, worker, retired, tried, history>>

Answer ==
    /\ main = "answer"
    /\ main' = "idle"
    /\ UNCHANGED <<db, active, prepared, held, reconcile, parked, failed, mainJoins,
                   thread, worker, retired, tried, history>>

-----------------------------------------------------------------------------
(* The user, and whatever else writes the files of .code-kb. *)

Damage(r) ==
    /\ Fault
    /\ \E condition \in Conditions \ {"current"} : SetDb(r, condition)
    /\ UNCHANGED <<server, thread, worker, retired>>

UserScans(r) ==
    /\ scans < MaxScans /\ db[r] # "current"
    /\ scans' = scans + 1
    /\ SetDb(r, "current")
    /\ UNCHANGED <<server, thread, worker, retired, faults>>

-----------------------------------------------------------------------------
(* McpServer::new prepares the launch root, unless it is refused.          *)
Init ==
    /\ db \in [Roots -> Conditions]
    /\ active \in Roots
    /\ prepared = CanSpawn(active)
    /\ held = None /\ parked = {} /\ failed = {} /\ main = "idle" /\ mainJoins = {}
    /\ \E t \in Threads :
         IF prepared
         THEN /\ Lowest(Threads, t)
              /\ reconcile = t
              /\ thread = [u \in Threads |-> IF u = t THEN NewThread(active) ELSE FreeThread]
         ELSE reconcile = None /\ thread = [u \in Threads |-> FreeThread]
    /\ worker = [w \in Workers |-> [at |-> "ended", root |-> CHOOSE r \in Roots : TRUE]]
    /\ retired = {} /\ tried = {} /\ faults = 0 /\ scans = 0

Call == CallSameRoot \/ \E r \in Roots : SwitchRoot(r)

Main ==
    \/ GateTimesOut \/ GateFindsNoIndex \/ GateRecordsFailure \/ GateRetries
    \/ GateRefuses \/ GatePasses \/ GateStartsWatcher
    \/ \E w \in Workers : MainStartsWorker(w) \/ MainStartupEnds(w)
    \/ Open \/ Answer

ThreadStep(t) ==
    \/ CheckIndex(t) \/ JoinsEnd(t) \/ BuildIndex(t) \/ RebuildFails(t) \/ CreateFails(t)
    \/ \E w \in Workers : StartsWatcher(t, w)
    \/ PrepareFails(t) \/ StartupEnds(t) \/ Reconciles(t) \/ ReconcileFails(t)

WorkerStep(w) ==
    WorkerStarts(w) \/ WorkerFailsToStart(w) \/ WorkerScans(w) \/ WorkerEnds(w)

Environment == \E r \in Roots : Damage(r) \/ UserScans(r)

Next ==
    \/ Call \/ Main \/ Environment
    \/ \E t \in Threads : ThreadStep(t)
    \/ \E w \in Workers : WorkerStep(w)

Spec == Init /\ [][Next]_vars

(* Every thread keeps running, and the agent keeps calling the active root *)
(* until it calls another.                                                 *)
FairSpec ==
    /\ Spec
    /\ WF_vars(Main) /\ WF_vars(CallSameRoot \/ SwitchRoot(active))
    /\ \A t \in Threads : WF_vars(ThreadStep(t))
    /\ \A w \in Workers : WF_vars(WorkerStep(w))

-----------------------------------------------------------------------------
(* Properties. *)

(* Type correctness of every variable.                                     *)
PrepareTypeOK ==
    /\ db \in [Roots -> Conditions]
    /\ active \in Roots /\ prepared \in BOOLEAN
    /\ held \in Workers \cup {None}
    /\ reconcile \in Threads \cup {None} /\ parked \subseteq Threads
    /\ failed \subseteq Roots /\ tried \subseteq Roots
    /\ main \in MainPlaces /\ mainJoins \subseteq Workers
    /\ thread \in [Threads -> [at : ThreadPlaces, root : Roots \cup {None},
                               joins : SUBSET Workers, worker : Workers \cup {None}]]
    /\ worker \in [Workers -> [at : WorkerPlaces, root : Roots]]
    /\ retired \subseteq Workers
    /\ faults \in 0..MaxFaults /\ scans \in 0..MaxScans

Live(w) == worker[w].at # "ended"

(* spawn_index_prepare: "so one root never has two workers", although the  *)
(* worker of a dropped watcher runs on and roots come and go meanwhile.    *)
OneWorkerPerRoot ==
    \A v, w \in Workers : Live(v) /\ Live(w) /\ worker[v].root = worker[w].root => v = w

(* wait_for_stopped_watchers: "so an index rebuild or a new index never    *)
(* runs beside a worker that still scans or holds the old index open".     *)
RebuildsAlone ==
    \A t \in Threads : thread[t].at \in {"rebuild", "create"} =>
        \A w \in Workers : Live(w) => worker[w].root # thread[t].root

(* A root has one prepare at a time, even when the server leaves it and    *)
(* comes back, and a parked one is of a root the server left.              *)
OnePreparePerRoot ==
    /\ \A t, u \in Threads :
         thread[t].at # "free" /\ thread[u].at # "free" /\ thread[t].root = thread[u].root => t = u
    /\ \A t \in parked : thread[t].root # active
    /\ reconcile # None => thread[reconcile].root = active

(* An answer is given under the live watcher of the root it is about, with *)
(* no prepare of that root still at work.                                  *)
AnswersAreWatched ==
    main \in {"open", "answer"} =>
        /\ held # None
        /\ worker[held] = [at |-> "running", root |-> active]
        /\ reconcile = None

(* failed_rebuilds: "The server does not rebuild such an index again while *)
(* it stays unreadable", whichever root was active when the rebuild failed.*)
NoSecondRebuild ==
    \A t \in Threads : thread[t].at = "rebuild" => thread[t].root \notin tried

(* README: "If the index is not ready in 5 s, the answer is `Indexing      *)
(* <root> started; call again in a few seconds.`"  An agent that stays on  *)
(* a root is answered in the end, unless its index is unreadable or there  *)
(* is nothing to index.                                                    *)
Hopeless == db[active] = "torn" \/ (db[active] = "missing" /\ active \notin Marked)

StayingIsAnswered ==
    \A r \in Roots : <>[](active = r) => []<>(main = "answer" \/ Hopeless)

(* The same sentence read for an agent that works in several projects and  *)
(* calls each of them again and again.                                     *)
CallingAgainIsAnswered ==
    \A r \in Roots : []<>(active = r /\ main = "gate")
                        => []<>(active = r /\ (main = "answer" \/ Hopeless))
=============================================================================
