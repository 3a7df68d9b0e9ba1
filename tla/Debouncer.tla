------------------------------- MODULE Debouncer -------------------------------
(***************************************************************************)
(* The debouncer between the native watches and the watcher's worker       *)
(* (debouncer/mod.rs), on the platforms that report a rename as two halves *)
(* with one tracker and with the file ID cache the watcher gives it        *)
(* (NoCache).                                                              *)
(*                                                                         *)
(* Raw events are merged into one queue for each path.  A rename moves the *)
(* queue of its source to its target.  Events older than the timeout are   *)
(* delivered, and the worker refreshes every path an event names.  The     *)
(* model has files only: what it asks is whether each file that changed,   *)
(* and each row whose file is gone, is named by something that will be     *)
(* delivered.                                                              *)
(***************************************************************************)
EXTENDS Naturals, SequencesExt

CONSTANTS
    Paths,      \* files
    None,       \* no path
    MaxEvents   \* bound: changes of the file system

ASSUME PathsAssumption  == None \notin Paths
ASSUME EventsAssumption == MaxEvents \in Nat

VARIABLES
    present,     \* the files that exist
    indexed,     \* history: the files that have a row
    unreported,  \* history: those that changed since they were last delivered
    queues,      \* [Paths -> Seq(Event)]; an empty one is not in the map
    renameEvent, \* rename_event: the first half of a rename, or NoRename
    moving,      \* the target whose half of a rename is not read yet, or None
    rescan,      \* rescan_event: {} or {whether it is older than the timeout}
    events       \* history: changes so far

vars == <<present, indexed, unreported, queues, renameEvent, moving, rescan, events>>

(* An event is due when it is older than the timeout.                      *)
Kinds == {"create", "data", "access", "remove", "removeAny", "from", "to", "both"}
Event == [kind : Kinds, source : Paths \cup {None}, due : BOOLEAN]
Ev(kind) == [kind |-> kind, source |-> None, due |-> FALSE]

(* `linked`: the half in `moving` carries the tracker of this one.         *)
Half     == [path : Paths, due : BOOLEAN, linked : BOOLEAN]
NoRename == [path |-> None, due |-> FALSE, linked |-> FALSE]

-----------------------------------------------------------------------------
(* Queues. *)

FrontIs(q, kinds) == q # <<>> /\ Head(q).kind \in kinds
WasCreated(q) == FrontIs(q, {"create", "to"})
WasRemoved(q) == FrontIs(q, {"remove", "removeAny", "from"})
IsBoth(e)     == e.kind = "both"
IsFresh(e)    == ~e.due

(* The first rename event of a queue, and the first that is not due; or 0. *)
RenameAt(q)   == SelectInSeq(q, IsBoth)
FreshAt(q)    == SelectInSeq(q, IsFresh)

(* Mutant of Pushed: any event makes the modifications after it redundant. *)
PushedFirst(q, kind) ==
    IF kind \in {"create", "data"} /\ q # <<>> THEN q ELSE Append(q, Ev(kind))

(* push_event: a creation makes the modifications after it redundant.      *)
Pushed(q, kind) ==
    IF kind \in {"create", "data"} /\ WasCreated(q) THEN q ELSE Append(q, Ev(kind))

(* Mutant of Renamed: the rename event goes behind what it moves.          *)
RenamedBehind(qs, a, b, due) ==
    LET source == IF qs[a] = <<>> THEN <<>> ELSE Front(qs[a])
        both   == [kind |-> "both", source |-> a, due |-> due]
    IN [qs EXCEPT ![a] = <<>>, ![b] = Append(source, both)]

(* push_rename_event: the queue of a goes to b, behind one rename event    *)
(* with the first name the file had in the window.  What it replaces at b  *)
(* is forgotten, and so is a removal or creation of a file not delivered.  *)
Renamed(qs, a, b, due) ==
    LET source  == IF qs[a] = <<>> THEN <<>> ELSE Front(qs[a])
        at      == RenameAt(source)
        origin  == IF at = 0 THEN [source |-> a, due |-> due]
                   ELSE [source |-> source[at].source, due |-> source[at].due]
        others  == IF at = 0 THEN source ELSE RemoveAt(source, at)
        split   == WasRemoved(others)
        rest    == IF split THEN Tail(others) ELSE others
        both    == [kind |-> "both", source |-> origin.source, due |-> origin.due]
        moved   == IF WasCreated(rest) THEN rest ELSE <<both>> \o rest
        removal == [kind |-> "removeAny", source |-> None, due |-> origin.due]
        target  == IF qs[b] = <<>> \/ WasCreated(qs[b]) THEN moved
                   ELSE <<removal>> \o moved
    IN [qs EXCEPT ![a] = IF split THEN <<Head(others)>> ELSE <<>>, ![b] = target]

(* The paths the worker takes from an event in the queue of p.             *)
Names(p, e) ==
    IF e.kind = "access" THEN {} ELSE {p} \cup ({e.source} \ {None})

QueuedNames(p) == UNION {Names(p, queues[p][i]) : i \in DOMAIN queues[p]}

-----------------------------------------------------------------------------
(* The file system, and add_event. *)

(* A rename holds the locks of its folders until both halves are queued:   *)
(* no name of it is created, removed or renamed in between.                *)
Free(p) == moving # None => p # moving /\ (renameEvent.linked => p # renameEvent.path)

Change(ps) ==
    /\ events < MaxEvents
    /\ events' = events + 1
    /\ unreported' = unreported \cup ps
    /\ UNCHANGED indexed

Write(p) ==
    /\ p \in present \/ Free(p)
    /\ Change({p})
    /\ present' = present \cup {p}
    /\ queues' = [queues EXCEPT ![p] = Pushed(@, IF p \in present THEN "data" ELSE "create")]
    /\ UNCHANGED <<renameEvent, moving, rescan>>

Access(p) ==
    /\ p \in present
    /\ Change({})
    /\ queues' = [queues EXCEPT ![p] = Pushed(@, "access")]
    /\ UNCHANGED <<present, renameEvent, moving, rescan>>

(* push_remove_event.                                                      *)
Delete(p) ==
    /\ p \in present /\ Free(p)
    /\ Change({p})
    /\ present' = present \ {p}
    /\ queues' = [queues EXCEPT ![p] = <<Ev("remove")>>]
    /\ UNCHANGED <<renameEvent, moving, rescan>>

(* handle_rename_from, of a rename inside the watched folders or out of    *)
(* them (b = None).  The second half is an event of its own.               *)
RenameFrom(a, b) ==
    /\ a \in present /\ a # b /\ Free(a)
    /\ moving # None => b = None
    /\ Change({a, b} \ {None})
    /\ present' = (present \ {a}) \cup ({b} \ {None})
    /\ queues' = [queues EXCEPT ![a] = Pushed(@, "from")]
    /\ renameEvent' = [path |-> a, due |-> FALSE, linked |-> b # None]
    /\ moving' = IF b = None THEN moving ELSE b
    /\ UNCHANGED rescan

(* handle_rename_to: connected to its first half, or a file moved in.      *)
RenameTo ==
    /\ moving # None
    /\ queues' = IF renameEvent.linked
                 THEN Renamed(queues, renameEvent.path, moving, renameEvent.due)
                 ELSE [queues EXCEPT ![moving] = Pushed(@, "to")]
    /\ renameEvent' = NoRename /\ moving' = None
    /\ UNCHANGED <<present, indexed, unreported, rescan, events>>

MoveIn(p) ==
    /\ Free(p)
    /\ Change({p})
    /\ present' = present \cup {p}
    /\ queues' = [queues EXCEPT ![p] = Pushed(@, "to")]
    /\ renameEvent' = NoRename
    /\ UNCHANGED <<moving, rescan>>

(* Mutant of Overflow: a second rescan waits beside the first.             *)
OverflowTwice(p) ==
    /\ Change({p})
    /\ present' \in {present \cup {p}, present \ {p}}
    /\ moving' = None
    /\ renameEvent' = [renameEvent EXCEPT !.linked = FALSE]
    /\ rescan' = rescan \cup {FALSE}
    /\ UNCHANGED queues

(* The native queue overflowed: changes of p, and the second half of a     *)
(* rename under way, were not reported.                                    *)
Overflow(p) ==
    /\ Change({p})
    /\ present' \in {present \cup {p}, present \ {p}}
    /\ moving' = None
    /\ renameEvent' = [renameEvent EXCEPT !.linked = FALSE]
    /\ rescan' = {FALSE}
    /\ UNCHANGED queues

-----------------------------------------------------------------------------
(* The debouncer thread. *)

(* The timeout passes for everything queued so far.                        *)
Aged(q) == [i \in DOMAIN q |-> [q[i] EXCEPT !.due = TRUE]]
Age ==
    /\ queues' = [p \in Paths |-> Aged(queues[p])]
    /\ renameEvent' = [renameEvent EXCEPT !.due = renameEvent # NoRename]
    /\ rescan' = {TRUE : d \in rescan}
    /\ UNCHANGED <<present, indexed, unreported, moving, events>>

(* debounced_events: the due events at the front of a queue, each kind     *)
(* once; a kind that comes again next is left to that event.               *)
DueLength(q) ==
    IF FreshAt(q) = 0 THEN Len(q) ELSE FreshAt(q) - 1

Emitted(q) ==
    {i \in 1..DueLength(q) :
        \A j \in (i + 1)..(DueLength(q) + 1) :
            j \in DOMAIN q => q[j].kind # q[i].kind}

DeliveredFrom(p) == UNION {Names(p, queues[p][i]) : i \in Emitted(queues[p])}
Delivered == UNION {DeliveredFrom(p) : p \in Paths}

(* The worker refreshes what is delivered, or scans everything: a file     *)
(* that is read has a row and one that is gone loses its own.              *)
Refreshed(ps) == (indexed \ ps) \cup (present \cap ps)

Flush ==
    /\ rescan = {TRUE} \/ \E p \in Paths : DueLength(queues[p]) > 0
    /\ queues' = [p \in Paths |-> SubSeq(queues[p], DueLength(queues[p]) + 1, Len(queues[p]))]
    /\ unreported' = IF rescan = {TRUE} THEN {} ELSE unreported \ Delivered
    /\ indexed' = Refreshed(IF rescan = {TRUE} THEN Paths ELSE Delivered)
    /\ rescan' = rescan \ {TRUE}
    /\ UNCHANGED <<present, renameEvent, moving, events>>

-----------------------------------------------------------------------------
Init ==
    /\ present \in SUBSET Paths /\ indexed = present
    /\ unreported = {} /\ queues = [p \in Paths |-> <<>>]
    /\ renameEvent = NoRename /\ moving = None
    /\ rescan = {} /\ events = 0

FileSystem ==
    \/ \E a \in Paths, b \in Paths \cup {None} : RenameFrom(a, b)
    \/ \E p \in Paths : Write(p) \/ Access(p) \/ Delete(p) \/ MoveIn(p) \/ Overflow(p)

Thread == Age \/ Flush

Next == FileSystem \/ RenameTo \/ Thread

Spec == Init /\ [][Next]_vars

-----------------------------------------------------------------------------
(* Properties. *)

(* Type correctness.                                                       *)
DebouncerTypeOK ==
    /\ present \subseteq Paths /\ indexed \subseteq Paths /\ unreported \subseteq Paths
    /\ \A p \in Paths : \A i \in DOMAIN queues[p] : queues[p][i] \in Event
    /\ renameEvent \in Half \cup {NoRename}
    /\ moving \in Paths \cup {None}
    /\ rescan \in SUBSET BOOLEAN /\ Cardinality(rescan) <= 1
    /\ events \in 0..MaxEvents

Reported(p) ==
    \/ rescan # {} \/ p = moving
    \/ \E q \in Paths : p \in QueuedNames(q)

(* A file that exists and changed since it was last delivered is named by  *)
(* something still to be delivered, however renames, removals and repeated *)
(* events merged the queues: no content is missed.                         *)
PresentIsReported == \A p \in unreported \cap present : Reported(p)

(* A row whose file is gone is named by something still to be delivered:   *)
(* "Filesystem edits automatically refresh indexed files" (README), and an *)
(* indexed file that is renamed or removed is one.                         *)
RemovedRowsAreReported == \A p \in indexed \ present : Reported(p)

(* "Events must be stored in the following order: 1. remove or move out,   *)
(* 2. rename, 3. other events" (Queue): was_created and was_removed look   *)
(* at the front only, so nothing but a removal may come before a rename,   *)
(* and a queue has one rename.                                             *)
RenameLeads ==
    \A p \in Paths : \A i \in DOMAIN queues[p] :
        IsBoth(queues[p][i]) =>
            \A j \in 1..(i - 1) : queues[p][j].kind \in {"remove", "removeAny", "from"}
=============================================================================
