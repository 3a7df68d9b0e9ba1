----------------------------- MODULE Registrations -----------------------------
(***************************************************************************)
(* The native watches of folders where the platform watches one folder at  *)
(* a time (watcher.rs: RegisteredDirectories, synchronize_registrations,   *)
(* forget_removed_directories, event_requires_reconciliation).             *)
(*                                                                         *)
(* `registered` is what the worker believes to watch.  The kernel drops a  *)
(* watch when its folder is removed or moved away, so a folder made again  *)
(* at a known path has none; the worker finds out by the folder's removal, *)
(* which it hears of through the queues of Debouncer, or by another file   *)
(* ID, but a file system may give the new folder the ID of the old one.    *)
(* Here Paths are folders below the root, which is always watched; the     *)
(* halves of a rename are one step (Debouncer has them apart).             *)
(***************************************************************************)
EXTENDS Debouncer

CONSTANTS
    Parent,     \* [Paths -> Paths \cup {None}]; None is the root
    Name,       \* the last part of a path
    Ids,        \* file IDs; those of removed folders are given out again
    NoId,       \* no folder, no watch
    MaxChanges, \* bound: changes of folders
    MaxTroubles \* bound: losses of events and failures of watches

(* The folders from p up to the root: what every set with p and with the   *)
(* parents of its members has.                                             *)
Lineage  == [p \in Paths |-> {q \in Paths : \A S \in SUBSET Paths :
                (p \in S /\ \A r \in S : Parent[r] \in S \cup {None}) => q \in S}]
Above(p) == Lineage[p]

ASSUME ParentAssumption ==
    /\ Parent \in [Paths -> Paths \cup {None}]
    /\ \A p \in Paths : \E q \in Above(p) : Parent[q] = None
ASSUME NameAssumption ==
    \A p, q \in Paths : Parent[p] = Parent[q] /\ Name[p] = Name[q] => p = q
ASSUME IdsAssumption    == NoId \notin Ids
ASSUME TroubleAssumption == MaxChanges \in Nat /\ MaxTroubles \in Nat

VARIABLES
    id,         \* [Paths -> Ids \cup {NoId}]: the folders on disk
    watch,      \* [Paths -> Ids \cup {NoId}]: the folder a native watch sees
    registered, \* RegisteredDirectories.paths: the file ID on record, or NoId
    current,    \* the registered paths of this generation
    again,      \* watch_again
    inbox,      \* delivered events that wait for the worker: <<path, event>>
    lost,       \* the overflow flag
    failed,     \* a registration failure is on record
    step,       \* where synchronize_registrations is
    agenda,     \* folders the walk has listed and not yet come to
    at,         \* the folder the walk is at: [path, id]
    retried,    \* directory_race_retries # 0
    denied,     \* folders skipped as unreadable
    outdated,   \* history: folders that may not be those on record, unheard
    troubles    \* history

kernel   == <<present, id, watch>>
believed == <<registered, current, again>>
walking  == <<step, agenda, at, retried, denied>>
feed     == <<inbox, lost>>
unusedD  == <<indexed, unreported, renameEvent, moving, rescan>>
regVars  == <<vars, kernel, believed, walking, feed, failed, outdated, troubles>>

Nowhere == [path |-> None, id |-> NoId]

Below(p)    == {q \in Paths : p \in Above(q)}
Children(p) == {q \in Paths : Parent[q] = p}

IsDir(p)   == IF p = None THEN TRUE ELSE id[p] # NoId
Watched(p) == IF p = None THEN TRUE ELSE watch[p] # NoId /\ watch[p] = id[p]
Trouble    == troubles < MaxTroubles /\ troubles' = troubles + 1

(* removed_paths.                                                          *)
RemovedBy(p, e) ==
    IF e.kind \in {"remove", "removeAny", "from"} THEN {p}
    ELSE IF IsBoth(e) THEN {e.source} ELSE {}
InQueues(qs) == UNION {{<<p, qs[p][i]>> : i \in DOMAIN qs[p]} : p \in Paths}
RemovedNames(pairs) == UNION {RemovedBy(x[1], x[2]) : x \in pairs}

-----------------------------------------------------------------------------
(* The user.  The kernel reports what a watched parent sees.               *)

Happens(dirs, qs) ==
    /\ events < MaxChanges /\ events' = events + 1
    /\ id' = dirs /\ present' = {p \in Paths : dirs[p] # NoId}
    /\ queues' = qs
    /\ UNCHANGED <<unusedD, believed, walking, feed, failed, troubles>>

(* A removal that was queued, or comes now, and that no queue tells of any *)
(* more, itself or by a folder above, leaves the records below it.         *)
Forgets(told, qs) ==
    outdated' = outdated \cup
        UNION {Below(q) : q \in {r \in RemovedNames(InQueues(queues)) \cup told :
                                   Above(r) \cap RemovedNames(InQueues(qs)) = {}}}

MakeFolder(p, new) ==
    /\ ~IsDir(p) /\ IsDir(Parent[p])
    /\ \A q \in Paths : id[q] # new
    /\ Happens([id EXCEPT ![p] = new],
               IF Watched(Parent[p]) THEN [queues EXCEPT ![p] = Pushed(@, "create")] ELSE queues)
    /\ UNCHANGED <<watch, outdated>>

(* push_remove_event: the queues of the folders below go too.  A removal   *)
(* is reported by the watch of the parent and by that of the folder, under *)
(* the path it was watched at.                                             *)
RemoveFolder(p) ==
    /\ p \in present /\ \A q \in Children(p) : ~IsDir(q)
    /\ LET own  == {q \in Paths : watch[q] = id[p]}
           told == own \cup IF Watched(Parent[p]) THEN {p} ELSE {}
           qs   == [q \in Paths |-> IF q \in told THEN <<Ev("remove")>>
                                    ELSE IF Above(q) \cap told # {} THEN <<>> ELSE queues[q]]
       IN /\ Happens([id EXCEPT ![p] = NoId], qs)
          /\ Forgets(told, qs)
          /\ watch' = [q \in Paths |-> IF q \in own THEN NoId ELSE watch[q]]

(* A folder is renamed with what it holds, to a name that is free.         *)
(* The backend drops the watches below a name it saw move away.            *)
Here(p) == {r \in Below(p) : IsDir(r)}
SameNames(to, p) ==
    \A r \in Here(p) \ {p} : Parent[to[r]] = to[Parent[r]] /\ Name[to[r]] = Name[r]
MoveFolder(p, q) ==
    /\ p \in present /\ q \notin Below(p) /\ ~IsDir(q) /\ IsDir(Parent[q])
    /\ \E to \in [Here(p) -> Below(q)] :
         LET seenFrom == Watched(Parent[p])
             seenTo   == Watched(Parent[q])
             dirs == [r \in Paths |-> IF r \in Below(p) THEN NoId
                                      ELSE IF \E s \in Here(p) : to[s] = r
                                           THEN id[CHOOSE s \in Here(p) : to[s] = r] ELSE id[r]]
             qs   == IF seenFrom /\ seenTo
                     THEN Renamed([queues EXCEPT ![p] = Pushed(@, "from")], p, q, FALSE)
                     ELSE IF seenFrom THEN [queues EXCEPT ![p] = Pushed(@, "from")]
                     ELSE IF seenTo   THEN [queues EXCEPT ![q] = Pushed(@, "to")] ELSE queues
         IN /\ to[p] = q /\ SameNames(to, p)
            /\ Happens(dirs, qs)
            /\ IF seenFrom THEN Forgets({p}, qs) ELSE UNCHANGED outdated
            /\ watch' = [r \in Paths |-> IF seenFrom /\ r \in Below(p) THEN NoId ELSE watch[r]]

-----------------------------------------------------------------------------
(* The debouncer and the channel, and what gets lost there. *)

Deliver(ps) ==
    /\ \A p \in ps : queues[p] # <<>>
    /\ ps # {}
    /\ inbox' = inbox \cup {x \in InQueues(queues) : x[1] \in ps}
    /\ queues' = [p \in Paths |-> IF p \in ps THEN <<>> ELSE queues[p]]
    /\ UNCHANGED <<unusedD, events, kernel, believed, walking, lost, failed, outdated, troubles>>

LoseEvents(ps) ==
    /\ Trouble
    /\ lost' = TRUE
    /\ queues' = [p \in Paths |-> IF p \in ps THEN <<>> ELSE queues[p]]
    /\ inbox' \in {inbox, {}}
    /\ UNCHANGED <<unusedD, events, kernel, believed, walking, failed, outdated>>

-----------------------------------------------------------------------------
(* The worker between two passes. *)

(* event_requires_reconciliation, of events that name folders.             *)
Requires(p, e) ==
    e.kind \in {"create", "remove"} \/ \E q \in Names(p, e) : IsDir(q) \/ registered[q] # NoId

(* A pass begins by listing the root, and tries every folder again.        *)
BeginPass ==
    /\ step' = "list" /\ at' = Nowhere /\ current' = {} /\ agenda' = {} /\ retried' = FALSE
    /\ denied' = {}

(* forget_removed_directories.                                             *)
Forgotten(names) == {p \in Paths : registered[p] # NoId /\ Above(p) \cap names # {}}

ProcessEvents ==
    /\ step = "idle" /\ ~lost /\ inbox # {}
    /\ LET gone == Forgotten(RemovedNames(inbox))
       IN /\ registered' = [p \in Paths |-> IF p \in gone THEN NoId ELSE registered[p]]
          /\ watch' = [p \in Paths |-> IF p \in gone THEN NoId ELSE watch[p]]
    /\ inbox' = {}
    /\ IF \E x \in inbox : Requires(x[1], x[2])
       THEN BeginPass ELSE UNCHANGED <<step, at, current, agenda, retried, denied>>
    /\ UNCHANGED <<vars, id, again, lost, failed, outdated, troubles>>

Reconcile ==
    /\ step = "idle" /\ lost
    /\ lost' = FALSE /\ again' = TRUE
    /\ BeginPass
    /\ UNCHANGED <<vars, kernel, registered, inbox, failed, outdated, troubles>>

Retry ==
    /\ step = "idle" /\ failed
    /\ BeginPass
    /\ UNCHANGED <<vars, kernel, registered, again, feed, failed, outdated, troubles>>

-----------------------------------------------------------------------------
(* One pass of synchronize_registrations. *)

Fail == step' = "idle" /\ failed' = TRUE /\ UNCHANGED <<current, agenda, at, retried>>

(* A folder vanished under the walk: `continue 'registration`, once.       *)
Vanished(known) ==
    IF known /\ ~retried
    THEN /\ step' = "list" /\ at' = Nowhere /\ current' = {} /\ agenda' = {} /\ retried' = TRUE
         /\ UNCHANGED failed
    ELSE Fail

(* The children of a folder are read after it is watched.                  *)
List ==
    /\ step = "list"
    /\ agenda' = agenda \cup {q \in Children(at.path) : IsDir(q)}
    /\ step' = "walk" /\ at' = Nowhere
    /\ UNCHANGED <<vars, kernel, believed, feed, retried, denied, failed, outdated, troubles>>

(* Mutant of Look: a known path is known to be watched.                    *)
LookByPath(p) ==
    /\ step = "walk" /\ p \in agenda
    /\ IF ~IsDir(p) THEN Vanished(registered[p] # NoId) /\ UNCHANGED <<watch, registered>>
       ELSE /\ agenda' = agenda \ {p}
            /\ at' = [path |-> p, id |-> id[p]]
            /\ step' = IF registered[p] # NoId /\ ~again THEN "list" ELSE "watch"
            /\ current' = IF registered[p] # NoId /\ ~again THEN current \cup {p} ELSE current
            /\ UNCHANGED <<retried, failed, watch, registered>>
    /\ UNCHANGED <<vars, id, again, feed, denied, outdated, troubles>>

(* The file ID tells a folder made again; watch_again trusts none.         *)
Look(p) ==
    /\ step = "walk" /\ p \in agenda
    /\ IF ~IsDir(p) THEN Vanished(registered[p] # NoId) /\ UNCHANGED <<watch, registered>>
       ELSE LET remade == registered[p] # NoId /\ registered[p] # id[p]
                known  == registered[p] = id[p] /\ ~again
            IN /\ agenda' = agenda \ {p}
               /\ at' = [path |-> p, id |-> id[p]]
               /\ step' = IF known THEN "list" ELSE "watch"
               /\ current' = IF known THEN current \cup {p} ELSE current
               /\ registered' = IF remade THEN [registered EXCEPT ![p] = NoId] ELSE registered
               /\ watch' = IF remade THEN [watch EXCEPT ![p] = NoId] ELSE watch
               /\ UNCHANGED <<retried, failed>>
    /\ UNCHANGED <<vars, id, again, feed, denied, outdated, troubles>>

(* The folder at the path is watched, be it the one that was looked at or  *)
(* one that was made since: then the record is of the wrong folder.        *)
WatchFolder ==
    /\ step = "watch" /\ IsDir(at.path)
    /\ watch' = [watch EXCEPT ![at.path] = id[at.path]]
    /\ registered' = [registered EXCEPT ![at.path] = at.id]
    /\ current' = current \cup {at.path}
    /\ denied' = denied \ {at.path}
    /\ outdated' = IF at.id = id[at.path] THEN outdated \ {at.path} ELSE outdated \cup {at.path}
    /\ step' = "list"
    /\ UNCHANGED <<vars, id, again, agenda, at, retried, feed, failed, troubles>>

WatchVanished ==
    /\ step = "watch" /\ ~IsDir(at.path)
    /\ Vanished(TRUE)
    /\ UNCHANGED <<vars, kernel, registered, again, feed, denied, outdated, troubles>>

(* Permission denied: the folder is skipped with a warning.                *)
WatchDenied ==
    /\ step = "watch"
    /\ Trouble
    /\ denied' = denied \cup {at.path}
    /\ step' = "walk" /\ at' = Nowhere
    /\ UNCHANGED <<vars, kernel, believed, agenda, retried, feed, failed, outdated>>

WatchFails ==
    /\ step = "watch"
    /\ Trouble
    /\ Fail
    /\ UNCHANGED <<vars, kernel, registered, again, feed, denied, outdated>>

(* The end of a pass: what it did not come to is unwatched; a folder that  *)
(* exists and cannot be unwatched is a failure, and stays registered.      *)
Sweep(kept) ==
    /\ step = "walk" /\ agenda = {}
    /\ again' = FALSE
    /\ LET stale == {p \in Paths : registered[p] # NoId} \ current
       IN /\ kept \subseteq {p \in stale : IsDir(p) /\ watch[p] # NoId}
          /\ registered' = [p \in Paths |-> IF p \in stale \ kept THEN NoId ELSE registered[p]]
          /\ watch' = [p \in Paths |-> IF p \in stale \ kept THEN NoId ELSE watch[p]]
    /\ IF kept = {} THEN failed' = FALSE /\ UNCHANGED troubles ELSE failed' = TRUE /\ Trouble
    /\ step' = "idle"
    /\ UNCHANGED <<vars, id, current, agenda, at, retried, denied, feed, outdated>>

-----------------------------------------------------------------------------
(* The worker starts with every folder watched, the first pass being over. *)
(* Folders have no rows.                                                   *)
RegInit ==
    /\ id \in {dirs \in [Paths -> Ids \cup {NoId}] :
                 \A p, q \in Paths : dirs[p] # NoId =>
                     /\ Parent[p] # None => dirs[Parent[p]] # NoId
                     /\ p # q => dirs[p] # dirs[q]}
    /\ watch = id /\ registered = id /\ current = {p \in Paths : id[p] # NoId}
    /\ present = current /\ indexed = {}
    /\ unreported = {} /\ queues = [p \in Paths |-> <<>>]
    /\ renameEvent = NoRename /\ moving = None /\ rescan = {} /\ events = 0
    /\ again = FALSE /\ inbox = {} /\ lost = FALSE /\ failed = FALSE
    /\ step = "idle" /\ agenda = {} /\ at = Nowhere /\ retried = FALSE
    /\ denied = {} /\ outdated = {} /\ troubles = 0

(* No worker registers folders: for runs of another specification.         *)
RegOff ==
    /\ id = [p \in Paths |-> NoId] /\ watch = id /\ registered = id /\ current = {}
    /\ again = FALSE /\ inbox = {} /\ lost = FALSE /\ failed = FALSE
    /\ step = "off" /\ agenda = {} /\ at = Nowhere /\ retried = FALSE
    /\ denied = {} /\ outdated = {} /\ troubles = 0

Folders ==
    \/ \E p \in Paths, new \in Ids : MakeFolder(p, new)
    \/ \E p \in Paths : RemoveFolder(p) \/ \E q \in Paths : MoveFolder(p, q)

Pass ==
    \/ List \/ WatchFolder \/ WatchVanished \/ WatchDenied \/ WatchFails
    \/ \E p \in Paths : Look(p)
    \/ \E kept \in SUBSET Paths : Sweep(kept)

RegNext ==
    \/ step # "off" /\ Folders
    \/ \E ps \in SUBSET Paths : step # "off" /\ (Deliver(ps) \/ LoseEvents(ps))
    \/ ProcessEvents \/ Reconcile \/ Retry \/ Pass

RegSpec == RegInit /\ [][RegNext]_regVars

-----------------------------------------------------------------------------
(* Properties. *)

Pending == InQueues(queues) \cup inbox

(* A pass that will come to p: one is asked for, or the walk of the one    *)
(* that runs has not passed p.                                             *)
WalkAhead(p) ==
    \/ step # "idle" /\ Above(p) \cap agenda # {}
    \/ step = "watch" /\ at.path \in Above(p)
    \/ step = "list" /\ at.path \in (Above(p) \ {p}) \cup {None}
PassAhead(p) == WalkAhead(p) \/ \E x \in Pending : Requires(x[1], x[2])

(* What makes that pass watch p.                                           *)
Doubted(p) == registered[p] = NoId \/ registered[p] # id[p] \/ again

OnRecord(p) ==
    \/ lost \/ Above(p) \cap denied # {}
    \/ Doubted(p) /\ (PassAhead(p) \/ failed)
    \/ Above(p) \cap RemovedNames(Pending) # {} /\ PassAhead(p)

(* However folders come, go and take each other's names and file IDs while *)
(* a pass walks over them, a folder without a native watch is on record: a *)
(* pass will come to it and will not take it for the folder it knew, the   *)
(* overflow or a failure is noted, or it was skipped as unreadable.  Save  *)
(* for what is at or below a folder with the file ID on record although    *)
(* the queues forgot a removal there, or it was replaced between the look  *)
(* and the watch: nothing tells it from the folder that was watched,       *)
(* though watcher.rs means "a folder made again at a known path" to be     *)
(* watched again.                                                          *)
FoldersAreWatched ==
    step # "off" => \A p \in present :
        \/ Watched(p) \/ OnRecord(p)
        \/ \E q \in Above(p) \cap outdated : registered[q] = id[q]
=============================================================================
