------------------------------- MODULE Launcher -------------------------------
(***************************************************************************)
(* The launcher of the plugin (bin/code-kb-launcher.cjs): it runs the      *)
(* cached binary of the plugin's version, and on the first launch of a     *)
(* version downloads and unpacks the release first.  When that fails, it   *)
(* runs the newest other version in the cache.                             *)
(*                                                                         *)
(* Launches run at the same time and share the cache.  The temporary file  *)
(* of a download and the stage folder carry the launch's process id; the   *)
(* folder of downloads of a version does not, and whoever ends removes it. *)
(***************************************************************************)
EXTENDS Naturals, FiniteSetsExt

CONSTANTS
    Launches,           \* processes
    Versions,           \* those that are or were published
    Version,            \* [Launches -> Versions]: the version a launch asks for
    DownloadAttempts,   \* DOWNLOAD_ATTEMPTS: 3
    RetainedOldVersions,\* RETAINED_OLD_VERSIONS: 1
    MaxLaunchFaults     \* bound: downloads that fail or arrive damaged

ASSUME LaunchVersions == Versions \subseteq Nat /\ Version \in [Launches -> Versions]
ASSUME LaunchLimits ==
    /\ DownloadAttempts \in Nat \ {0} /\ RetainedOldVersions \in Nat /\ MaxLaunchFaults \in Nat

VARIABLES
    lpc,        \* where each launch is
    tries,      \* failed attempts of its present download
    temp,       \* "none", "open" or "lost": the temporary file of each launch
    shelf,      \* [Versions -> what the folder of downloads holds]
    staged,     \* launches whose stage folder is there
    packages,   \* versions with a package folder
    folders,    \* versions that have a folder
    newer,      \* pairs of them of which the first one changed last
    runs,       \* [Launches -> Nat]: the version to run
    blamed,     \* history: launches that met a fault, a launch of the same
                \* version, or a launch that pruned their version
    lfaults

cache      == <<folders, newer>>
launchVars == <<lpc, tries, temp, shelf, staged, packages, cache, runs, blamed, lfaults>>

(* "sidecar" and "archive" are the downloads, "read" reads the sidecar,    *)
(* "exec" starts the binary that was found.                                *)
Busy == {"sidecar", "read", "archive", "hash", "unpack", "place", "prune", "bad", "good"}

Empty == {}
Peers(l) == {k \in Launches \ {l} : Version[k] = Version[l] /\ lpc[k] \in Busy}

(* The folder of v is made if it is not there, and is the last to change.  *)
Touch(v) ==
    /\ folders' = folders \cup {v}
    /\ newer' = {p \in newer : p[2] # v} \cup {<<v, u>> : u \in folders \ {v}}

Discard(vs) ==
    /\ folders' = folders \ vs
    /\ newer' = {p \in newer : p[1] \notin vs /\ p[2] \notin vs}

LaunchFault(l) == lfaults < MaxLaunchFaults /\ lfaults' = lfaults + 1 /\ blamed' = blamed \cup {l}

-----------------------------------------------------------------------------
(* ensureBinary. *)

(* Mutant of Start: whatever is in the cache will do. *)
StartCached(l) ==
    /\ lpc[l] = "start"
    /\ IF packages # {} THEN lpc' = [lpc EXCEPT ![l] = "exec"] /\ runs' = [runs EXCEPT ![l] = Max(packages)]
       ELSE lpc' = [lpc EXCEPT ![l] = "sidecar"] /\ UNCHANGED runs
    /\ UNCHANGED <<tries, temp, shelf, staged, packages, cache, blamed, lfaults>>

Start(l) ==
    /\ lpc[l] = "start"
    /\ IF Version[l] \in packages
       THEN /\ lpc' = [lpc EXCEPT ![l] = "exec"]
            /\ UNCHANGED blamed
       ELSE /\ lpc' = [lpc EXCEPT ![l] = "sidecar"]
            /\ blamed' = blamed \cup Peers(l) \cup (IF Peers(l) = {} THEN {} ELSE {l})
    /\ UNCHANGED <<tries, temp, shelf, staged, packages, cache, runs, lfaults>>

(* downloadFile makes the folder and writes to a temporary file.           *)
BeginDownload(l) ==
    /\ lpc[l] \in {"sidecar", "archive"} /\ temp[l] = "none"
    /\ temp' = [temp EXCEPT ![l] = "open"] /\ Touch(Version[l])
    /\ UNCHANGED <<lpc, tries, shelf, staged, packages, runs, blamed, lfaults>>

(* The temporary file takes its name.  `damaged`: it is not what was sent. *)
Shelved(had, item, damaged) ==
    IF damaged THEN had \ {item} ELSE had \cup {item}
EndDownload(l, damaged) ==
    /\ lpc[l] \in {"sidecar", "archive"} /\ temp[l] = "open"
    /\ temp' = [temp EXCEPT ![l] = "none"] /\ tries' = [tries EXCEPT ![l] = 0]
    /\ IF damaged THEN LaunchFault(l) ELSE UNCHANGED <<blamed, lfaults>>
    /\ shelf' = [shelf EXCEPT ![Version[l]] = Shelved(@, lpc[l], damaged)]
    /\ lpc' = [lpc EXCEPT ![l] = IF @ = "sidecar" THEN "read" ELSE "hash"]
    /\ UNCHANGED <<staged, packages, cache, runs>>

(* downloadWithRetry.                                                      *)
TryAgain(l) ==
    /\ temp' = [temp EXCEPT ![l] = "none"]
    /\ tries' = [tries EXCEPT ![l] = IF @ + 1 < DownloadAttempts THEN @ + 1 ELSE 0]
    /\ lpc' = [lpc EXCEPT ![l] = IF tries[l] + 1 < DownloadAttempts THEN @ ELSE "bad"]
    /\ UNCHANGED <<shelf, staged, packages, cache, runs>>

DownloadFails(l) ==
    /\ lpc[l] \in {"sidecar", "archive"} /\ temp[l] = "open"
    /\ LaunchFault(l)
    /\ TryAgain(l)

(* The temporary file was removed by another launch: its rename fails.     *)
DownloadLost(l) ==
    /\ lpc[l] \in {"sidecar", "archive"} /\ temp[l] = "lost"
    /\ TryAgain(l)
    /\ UNCHANGED <<blamed, lfaults>>

Proceed(l, ok, next) ==
    /\ lpc' = [lpc EXCEPT ![l] = IF ok THEN next ELSE "bad"]
    /\ UNCHANGED <<tries, temp, shelf, packages, cache, runs, blamed, lfaults>>

ReadSidecar(l) ==
    /\ lpc[l] = "read"
    /\ Proceed(l, "sidecar" \in shelf[Version[l]], "archive") /\ UNCHANGED staged

Hash(l) ==
    /\ lpc[l] = "hash"
    /\ Proceed(l, "archive" \in shelf[Version[l]], "unpack") /\ UNCHANGED staged

(* A damaged or missing archive makes tar fail.                            *)
Unpack(l) ==
    /\ lpc[l] = "unpack"
    /\ Proceed(l, "archive" \in shelf[Version[l]], "place")
    /\ staged' = IF "archive" \in shelf[Version[l]] THEN staged \cup {l} ELSE staged

(* The stage folder becomes the package, unless another launch was first.  *)
Place(l) ==
    /\ lpc[l] = "place"
    /\ IF Version[l] \in packages THEN UNCHANGED <<packages, staged, cache>> /\ lpc' = [lpc EXCEPT ![l] = "prune"]
       ELSE IF l \in staged
       THEN /\ packages' = packages \cup {Version[l]} /\ staged' = staged \ {l}
            /\ Touch(Version[l]) /\ lpc' = [lpc EXCEPT ![l] = "prune"]
       ELSE lpc' = [lpc EXCEPT ![l] = "bad"] /\ UNCHANGED <<packages, staged, cache>>
    /\ UNCHANGED <<tries, temp, shelf, runs, blamed, lfaults>>

Without(hit) ==
    [k \in Launches |-> IF k \in hit /\ temp[k] = "open" THEN "lost" ELSE temp[k]]

(* pruneOldVersions keeps the other version that changed last.             *)
Outdated(l) ==
    LET others == folders \ {Version[l]}
    IN {v \in others :
           Cardinality({u \in others : <<u, v>> \in newer}) >= RetainedOldVersions}

(* Whole folders go, with the downloads and stages of launches under way.  *)
Prune(l) ==
    /\ lpc[l] = "prune"
    /\ lpc' = [lpc EXCEPT ![l] = "good"]
    /\ LET gone == Outdated(l)
           hit  == {k \in Launches : Version[k] \in gone /\ lpc[k] \notin {"off", "start", "run", "failed"}}
       IN /\ packages' = packages \ gone
          /\ Discard(gone)
          /\ shelf' = [v \in Versions |-> IF v \in gone THEN Empty ELSE shelf[v]]
          /\ temp' = Without(hit) /\ staged' = staged \ hit
          /\ blamed' = blamed \cup (hit \ {l})
    /\ UNCHANGED <<tries, runs, lfaults>>

(* Mutant of CleanUp: only a launch that was served removes its stage.     *)
CleanUpWhenGood(l) ==
    /\ lpc[l] \in {"good", "bad"}
    /\ lpc' = [lpc EXCEPT ![l] = IF @ = "good" THEN "exec" ELSE "fallback"]
    /\ shelf' = [shelf EXCEPT ![Version[l]] = Empty]
    /\ temp' = Without({k \in Launches : Version[k] = Version[l]})
    /\ staged' = IF lpc[l] = "good" THEN staged \ {l} ELSE staged
    /\ Touch(Version[l])
    /\ UNCHANGED <<tries, packages, runs, blamed, lfaults>>

(* `finally`: the stage of this launch and the downloads of all launches   *)
(* of this version are removed, and the folder of the version if empty.    *)
CleanUp(l) ==
    /\ lpc[l] \in {"good", "bad"}
    /\ lpc' = [lpc EXCEPT ![l] = IF @ = "good" THEN "exec" ELSE "fallback"]
    /\ shelf' = [shelf EXCEPT ![Version[l]] = Empty]
    /\ temp' = Without({k \in Launches : Version[k] = Version[l]})
    /\ staged' = staged \ {l}
    /\ IF Version[l] \in packages \/ \E k \in staged' : Version[k] = Version[l]
       THEN Touch(Version[l]) ELSE Discard({Version[l]})
    /\ UNCHANGED <<tries, packages, runs, blamed, lfaults>>

-----------------------------------------------------------------------------
(* main. *)

(* newestCachedBinary: any version but the one that was asked for.         *)
Fallback(l) ==
    /\ lpc[l] = "fallback"
    /\ LET cached == packages \ {Version[l]}
       IN IF cached = {} THEN lpc' = [lpc EXCEPT ![l] = "failed"] /\ UNCHANGED runs
          ELSE lpc' = [lpc EXCEPT ![l] = "exec"] /\ runs' = [runs EXCEPT ![l] = Max(cached)]
    /\ UNCHANGED <<tries, temp, shelf, staged, packages, cache, blamed, lfaults>>

(* runBinary: the binary may have been pruned since it was found.          *)
Exec(l) ==
    /\ lpc[l] = "exec"
    /\ lpc' = [lpc EXCEPT ![l] = IF runs[l] \in packages THEN "run" ELSE "failed"]
    /\ UNCHANGED <<tries, temp, shelf, staged, packages, cache, runs, blamed, lfaults>>

NoFiles == /\ tries = [l \in Launches |-> 0] /\ temp = [l \in Launches |-> "none"]
           /\ shelf = [v \in Versions |-> Empty] /\ staged = {}
           /\ runs = Version /\ blamed = {} /\ lfaults = 0
LauncherOff == NoFiles /\ lpc = [l \in Launches |-> "off"] /\ packages = {} /\ folders = {} /\ newer = {}

(* The orders in which the folders of some versions may have changed.      *)
Orders(vs) ==
    {R \in SUBSET (vs \X vs) :
        \A u, v, w \in vs : /\ <<u, u>> \notin R
                            /\ u # v => (<<u, v>> \in R <=> <<v, u>> \notin R)
                            /\ <<u, v>> \in R /\ <<v, w>> \in R => <<u, w>> \in R}

(* A cache with some versions installed, in any order of their use.        *)
LauncherInit ==
    /\ NoFiles /\ lpc = [l \in Launches |-> "start"]
    /\ packages \in SUBSET Versions /\ folders = packages /\ newer \in Orders(packages)

LaunchStep(l) ==
    \/ Start(l) \/ BeginDownload(l) \/ EndDownload(l, FALSE) \/ DownloadLost(l)
    \/ ReadSidecar(l) \/ Hash(l) \/ Unpack(l) \/ Place(l) \/ Prune(l) \/ CleanUp(l)
    \/ Fallback(l) \/ Exec(l)
LauncherNext == \E l \in Launches : LaunchStep(l) \/ EndDownload(l, TRUE) \/ DownloadFails(l)

LauncherSpec == LauncherInit /\ [][LauncherNext]_launchVars

-----------------------------------------------------------------------------
(* Properties. *)

(* "Returns the path of the code-kb binary for `version`": a launch runs   *)
(* the version it asked for, whatever launches of other versions download, *)
(* prune and remove at the same time; only a fault of its own downloads, a *)
(* launch of the same version beside it, or a launch that pruned its       *)
(* version between two steps makes it run another version or fail.         *)
OtherVersionsDoNotDisturb ==
    \A l \in Launches \ blamed :
        lpc[l] # "failed" /\ (lpc[l] = "run" => runs[l] = Version[l])

(* However launches overlap, nothing half done is left when they are over, *)
(* and every version of the cache that has a folder has its binary.        *)
NothingIsLeft ==
    (\A l \in Launches : lpc[l] \in {"run", "failed"}) =>
        staged = {} /\ shelf = [v \in Versions |-> Empty] /\ folders = packages
=============================================================================
