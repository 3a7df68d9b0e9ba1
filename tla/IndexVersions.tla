---------------------------- MODULE IndexVersions ----------------------------
(***************************************************************************)
(* Servers of different versions on one index (sync.rs): the check of who  *)
(* wrote it, the rebuild into a side file under `rebuild.lock`, the rescan *)
(* into a side file of one's own, the rescan in place when the extractor   *)
(* refuses an update, and the creation of a missing index.                 *)
(*                                                                         *)
(* A server starts by checking the index, then watches the files and       *)
(* reconciles, then updates what changes.  One file stands for the         *)
(* workspace: its content is the number of changes it has seen.  A run of  *)
(* the extractor on the index itself is one step, since it holds the       *)
(* write lock of the database; a scan into a side file is not.             *)
(***************************************************************************)
EXTENDS Naturals, FiniteSetsExt

CONSTANTS
    Servers,        \* processes
    NoServer,
    Extractor,      \* [Servers -> Nat \ {0}]: the version of its julie-extract
    MaxFileChanges, \* bound
    MaxMishaps      \* bound: failed runs, refused locks and renames, kills

ASSUME ExtractorAssumption == Extractor \in [Servers -> Nat \ {0}] /\ NoServer \notin Servers
ASSUME ServerBounds == MaxFileChanges \in Nat /\ MaxMishaps \in Nat

VARIABLES
    content,    \* the content of the file
    idx,        \* artifact.db: who wrote it and the file's row
    side,       \* artifact.db.rebuild
    own,        \* artifact.db.rescan-<pid> of each server
    parent,     \* the version that wrote the index of the parent repository
    foreign,    \* what an extractor makes of the index of another version
    rebuildLock,\* who holds artifact.db.rebuild.lock
    spc,        \* where each server is
    seen,       \* what its scan into a side file read
    todo,       \* servers with an event of the file to work on
    unlocked,   \* history: servers that went on without the lock
    orphaned,   \* history: a server that had a row to see to was killed or failed
    mishaps

idxVars == <<content, idx, side, own, parent, foreign, rebuildLock, spc, seen, todo,
             unlocked, orphaned, mishaps>>
stores  == <<side, own>>
given   == <<parent, foreign>>
log     == <<unlocked, orphaned>>

(* `meta`: binary_version; `by`: the versions that last wrote the rows.    *)
(* A legacy index has an older schema; a torn one SQLite cannot read.      *)
Ok(v, row) == [kind |-> "ok", meta |-> v, by |-> {v}, row |-> row]
Gone       == [kind |-> "missing", meta |-> 0, by |-> {}, row |-> 0]
Kinds == {"ok", "missing", "torn", "legacy"}

(* It updates it, or it refuses (`fingerprint_mismatch`) anything but a    *)
(* forced scan, or its schema is another one (`schema_incompatible`,       *)
(* `schema_migration_required`) and only a new artifact will do.           *)
Relations == {"taken", "refused", "unusable"}

Building  == {"scan", "write", "swap", "gap"}
Rescanning== {"ownScan", "ownWrite", "ownSwap", "ownGap"}
Watching  == {"reconcile", "live"} \cup Rescanning

Mishap == mishaps < MaxMishaps /\ mishaps' = mishaps + 1
ServerAt(s, place) == spc' = [spc EXCEPT ![s] = place]
FreeLock(s) == rebuildLock' = IF rebuildLock = s THEN NoServer ELSE rebuildLock

Newest(i) == Max(i.by \cup {i.meta})

-----------------------------------------------------------------------------
(* Starting: ensure_index_matches_extractor and create_index. *)

StartServer(s) ==
    /\ spc[s] = "off"
    /\ ServerAt(s, IF idx.kind = "missing" THEN "create" ELSE "check")
    /\ UNCHANGED <<content, idx, stores, given, rebuildLock, seen, todo, log, mishaps>>

TakeLock(s) ==
    /\ spc[s] = "check" /\ rebuildLock = NoServer
    /\ rebuildLock' = s /\ ServerAt(s, "decide")
    /\ UNCHANGED <<content, idx, stores, given, seen, todo, log, mishaps>>

(* "Index rebuild lock unavailable": only a warning.                       *)
GoUnlocked(s) ==
    /\ spc[s] = "check"
    /\ Mishap
    /\ unlocked' = unlocked \cup {s} /\ ServerAt(s, "decide")
    /\ UNCHANGED <<content, idx, stores, given, rebuildLock, seen, todo, orphaned>>

(* other_writer and newest_writer_version.                                 *)
WrittenByOther(s) == idx.kind \in {"ok", "legacy"} /\ (idx.meta # Extractor[s] \/ idx.by # {Extractor[s]})
Rebuilds(s) ==
    idx.kind = "torn" \/ (WrittenByOther(s) /\ ~(Extractor[s] < Newest(idx)))

(* Mutants of Decide: the lock is given up before the scan, or kept by a   *)
(* server that has nothing to rebuild.                                     *)
DecideUnlocks(s) ==
    /\ spc[s] = "decide"
    /\ FreeLock(s)
    /\ IF Rebuilds(s) THEN ServerAt(s, "scan") /\ side' = Gone ELSE ServerAt(s, "reconcile") /\ UNCHANGED side
    /\ UNCHANGED <<content, idx, own, given, seen, todo, log, mishaps>>
DecideKeepsLock(s) ==
    /\ spc[s] = "decide"
    /\ UNCHANGED rebuildLock
    /\ IF Rebuilds(s) THEN ServerAt(s, "scan") /\ side' = Gone ELSE ServerAt(s, "reconcile") /\ UNCHANGED side
    /\ UNCHANGED <<content, idx, own, given, seen, todo, log, mishaps>>

(* The check under the lock; a rebuild removes what is left of the side    *)
(* file of another.                                                        *)
Decide(s) ==
    /\ spc[s] = "decide"
    /\ IF Rebuilds(s) THEN ServerAt(s, "scan") /\ side' = Gone /\ UNCHANGED rebuildLock
       ELSE ServerAt(s, "reconcile") /\ FreeLock(s) /\ UNCHANGED side
    /\ UNCHANGED <<content, idx, own, given, seen, todo, log, mishaps>>

(* scan_into_side_file: the scan reads, then writes the side file.         *)
ScanReads(s) ==
    /\ spc[s] = "scan"
    /\ seen' = [seen EXCEPT ![s] = content] /\ ServerAt(s, "write")
    /\ UNCHANGED <<content, idx, stores, given, rebuildLock, todo, log, mishaps>>

ScanWrites(s) ==
    /\ spc[s] = "write"
    /\ side' = Ok(Extractor[s], seen[s]) /\ ServerAt(s, "swap")
    /\ UNCHANGED <<content, idx, own, given, rebuildLock, seen, todo, log, mishaps>>

(* A failed scan removes the side file and leaves the index.               *)
ScanFails(s) ==
    /\ spc[s] \in {"scan", "write"}
    /\ Mishap
    /\ side' = Gone /\ ServerAt(s, "off") /\ FreeLock(s)
    /\ UNCHANGED <<content, idx, own, given, seen, todo, log>>

(* Mutant of Swap: what the fresh index missed is taken for read.          *)
SwapGoesLive(s) ==
    /\ spc[s] = "swap"
    /\ IF side.kind = "missing" THEN ServerAt(s, "off") /\ UNCHANGED <<idx, side>>
       ELSE idx' = side /\ side' = Gone /\ ServerAt(s, "live")
    /\ FreeLock(s)
    /\ UNCHANGED <<content, own, given, seen, todo, log, mishaps>>

Swap(s) ==
    /\ spc[s] = "swap"
    /\ IF side.kind = "missing" THEN ServerAt(s, "off") /\ UNCHANGED <<idx, side>>
       ELSE idx' = side /\ side' = Gone /\ ServerAt(s, "reconcile")
    /\ FreeLock(s)
    /\ UNCHANGED <<content, own, given, seen, todo, log, mishaps>>

(* "Windows refuses to replace a file that another handle holds open": the *)
(* index is removed first.                                                 *)
SwapRefused(s) ==
    /\ spc[s] = "swap" /\ side.kind # "missing"
    /\ Mishap
    /\ idx' = Gone /\ ServerAt(s, "gap")
    /\ UNCHANGED <<content, stores, given, rebuildLock, seen, todo, log>>

RenameAfterRemoval(s) ==
    /\ spc[s] = "gap"
    /\ IF side.kind = "missing" THEN ServerAt(s, "off") /\ UNCHANGED <<idx, side>>
       ELSE idx' = side /\ side' = Gone /\ ServerAt(s, "reconcile")
    /\ FreeLock(s)
    /\ UNCHANGED <<content, own, given, seen, todo, log, mishaps>>

(* create_index: a full scan in place, or a copy of the parent's index     *)
(* (taken to hold the same content), reconciled and then checked.          *)
CreateByScan(s) ==
    /\ spc[s] = "create" /\ parent = 0
    /\ idx' = IF idx.kind = "missing" THEN Ok(Extractor[s], content) ELSE idx
    /\ ServerAt(s, "reconcile")
    /\ UNCHANGED <<content, stores, given, rebuildLock, seen, todo, log, mishaps>>

CreateByCopy(s) ==
    /\ spc[s] = "create" /\ parent # 0
    /\ idx' = IF foreign = "taken" THEN Ok(parent, content) ELSE Ok(Extractor[s], content)
    /\ ServerAt(s, "check")
    /\ UNCHANGED <<content, stores, given, rebuildLock, seen, todo, log, mishaps>>

-----------------------------------------------------------------------------
(* Working: the first scan of the watcher, and updates of changed files. *)

Accepts(s) == idx.kind = "ok" /\ (idx.meta = Extractor[s] \/ foreign = "taken")
NeedsNewArtifact(s) ==
    \/ idx.kind \in {"torn", "legacy"}
    \/ idx.kind = "ok" /\ idx.meta # Extractor[s] /\ foreign = "unusable"

(* An update of a build the extractor knows stamps its version and leaves  *)
(* the rows it does not write; one of another build is refused, and        *)
(* write_incrementally rescans the index in place.                         *)
Updated(s) ==
    IF ~Accepts(s) THEN Ok(Extractor[s], content)
    ELSE [idx EXCEPT !.meta = Extractor[s], !.row = content,
                     !.by = IF idx.row = content THEN @ ELSE {Extractor[s]}]

(* scan_workspace over what is there: a missing index is made.             *)
Reconcile(s) ==
    /\ spc[s] = "reconcile"
    /\ IF NeedsNewArtifact(s)
       THEN ServerAt(s, "ownScan") /\ own' = [own EXCEPT ![s] = Gone] /\ UNCHANGED <<idx, orphaned>>
       ELSE /\ idx' = IF idx.kind = "missing" THEN Ok(Extractor[s], content) ELSE Updated(s)
            /\ ServerAt(s, "live") /\ orphaned' = FALSE /\ UNCHANGED own
    /\ UNCHANGED <<content, side, given, rebuildLock, seen, todo, unlocked, mishaps>>

ReconcileFails(s) ==
    /\ spc[s] \in {"reconcile", "ownScan", "ownWrite"}
    /\ Mishap
    /\ ServerAt(s, "off") /\ own' = [own EXCEPT ![s] = Gone]
    /\ todo' = todo \ {s} /\ orphaned' = TRUE
    /\ UNCHANGED <<content, idx, side, given, rebuildLock, seen, unlocked>>

OwnScanReads(s) ==
    /\ spc[s] = "ownScan"
    /\ seen' = [seen EXCEPT ![s] = content] /\ ServerAt(s, "ownWrite")
    /\ UNCHANGED <<content, idx, stores, given, rebuildLock, todo, log, mishaps>>

OwnScanWrites(s) ==
    /\ spc[s] = "ownWrite"
    /\ own' = [own EXCEPT ![s] = Ok(Extractor[s], seen[s])] /\ ServerAt(s, "ownSwap")
    /\ UNCHANGED <<content, idx, side, given, rebuildLock, seen, todo, log, mishaps>>

OwnSwapRefused(s) ==
    /\ spc[s] = "ownSwap"
    /\ Mishap
    /\ idx' = Gone /\ ServerAt(s, "ownGap")
    /\ UNCHANGED <<content, stores, given, rebuildLock, seen, todo, log>>

OwnSwap(s) ==
    /\ spc[s] \in {"ownSwap", "ownGap"}
    /\ idx' = own[s] /\ own' = [own EXCEPT ![s] = Gone] /\ ServerAt(s, "live")
    /\ UNCHANGED <<content, side, given, rebuildLock, seen, todo, log, mishaps>>

(* A changed file; an index that takes no update is a failure, which the   *)
(* server answers with a reconcile.                                        *)
UpdateFile(s) ==
    /\ spc[s] = "live" /\ s \in todo
    /\ todo' = todo \ {s}
    /\ IF idx.kind = "ok" /\ ~NeedsNewArtifact(s) THEN idx' = Updated(s) /\ UNCHANGED spc
       ELSE ServerAt(s, "reconcile") /\ UNCHANGED idx
    /\ UNCHANGED <<content, stores, given, rebuildLock, seen, log, mishaps>>

-----------------------------------------------------------------------------
(* The environment. *)

ChangeFile ==
    /\ content < MaxFileChanges
    /\ content' = content + 1
    /\ todo' = todo \cup {s \in Servers : spc[s] \in Watching}
    /\ UNCHANGED <<idx, stores, given, rebuildLock, spc, seen, log, mishaps>>

(* A killed server frees its lock and leaves its side files.               *)
KillServer(s) ==
    /\ spc[s] \notin {"off", "none"}
    /\ Mishap
    /\ ServerAt(s, "off") /\ FreeLock(s) /\ todo' = todo \ {s}
    /\ orphaned' = (orphaned \/ s \in todo \/ spc[s] \in {"reconcile"} \cup Rescanning)
    /\ UNCHANGED <<content, idx, stores, given, seen, unlocked>>

VersionsIdle ==
    /\ side = Gone /\ own = [s \in Servers |-> Gone]
    /\ rebuildLock = NoServer /\ seen = [s \in Servers |-> 0] /\ todo = {}
    /\ unlocked = {} /\ orphaned = FALSE /\ mishaps = 0 /\ content = 0

VersionsOff ==
    /\ VersionsIdle /\ spc = [s \in Servers |-> "none"]
    /\ idx = Gone /\ parent = 0 /\ foreign = "taken"

(* No index, or one of any kind that an older or a newer server left.      *)
VersionsInit ==
    /\ VersionsIdle /\ spc = [s \in Servers |-> "off"]
    /\ parent \in {0, 1} /\ foreign \in Relations
    /\ idx \in {Gone} \cup [kind : {"torn", "legacy"}, meta : {0}, by : {{0}}, row : {0}]
                \cup {Ok(Extractor[s], 0) : s \in Servers}

ServerStep(s) ==
    \/ StartServer(s) \/ TakeLock(s) \/ Decide(s) \/ ScanReads(s) \/ ScanWrites(s) \/ Swap(s)
    \/ RenameAfterRemoval(s) \/ CreateByScan(s) \/ CreateByCopy(s) \/ Reconcile(s)
    \/ OwnScanReads(s) \/ OwnScanWrites(s) \/ OwnSwap(s) \/ UpdateFile(s)

VersionsNext ==
    \/ \E s \in Servers : \/ ServerStep(s) \/ GoUnlocked(s) \/ ScanFails(s)
                          \/ SwapRefused(s) \/ OwnSwapRefused(s) \/ ReconcileFails(s) \/ KillServer(s)
    \/ (\E s \in Servers : spc[s] # "none") /\ ChangeFile

VersionsFairness ==
    \A s \in Servers : WF_idxVars(ServerStep(s)) /\ SF_idxVars(TakeLock(s))
VersionsSpec == VersionsInit /\ [][VersionsNext]_idxVars

-----------------------------------------------------------------------------
(* Properties. *)

(* "Servers that start together on one stale index must not each scan it   *)
(* into the same side file": while every server got the lock, one at most  *)
(* is between the removal of the old side file and the swap.               *)
SideFileHasOneWriter ==
    unlocked = {} => Cardinality({s \in Servers : spc[s] \in Building}) <= 1

(* An update that another server wrote into the index is lost when the     *)
(* index is swapped, and a side file holds what was on disk when the scan  *)
(* read it.  Still, a row that differs from the file has somebody to see   *)
(* to it, for as long as some server is live: a server that has the event, *)
(* or one that reconciles; unless one that had it to do was killed, or     *)
(* failed, before it did.                                                  *)
SwappedRowsAreSeenTo ==
    idx.kind = "ok" /\ idx.row # content =>
        \/ todo # {} \/ orphaned
        \/ \A s \in Servers : spc[s] # "live"
        \/ \E s \in Servers : spc[s] \in {"reconcile"} \cup Rescanning

(* A server that starts gets past the lock, whoever holds it.              *)
StartsAreNotBlocked ==
    \A s \in Servers : spc[s] = "check" ~> spc[s] # "check"
=============================================================================
