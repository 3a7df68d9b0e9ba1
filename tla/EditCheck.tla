------------------------------- MODULE EditCheck -------------------------------
(***************************************************************************)
(* Which symbols an edit check says changed shape (edit_check.rs: prepare, *)
(* PendingCheck::run, Detector).                                           *)
(*                                                                         *)
(* The changed files at the base revision are scanned into an index of     *)
(* their own, and their symbols are paired with those of the project's     *)
(* index, which is refreshed first.  What stays unpaired was removed, or   *)
(* renamed, or moved to another file of a scope that callers name instead  *)
(* of the file; what is paired may have changed.  What a symbol is like    *)
(* (its parameters, its body) is opaque: two values differ or do not.      *)
(***************************************************************************)
EXTENDS Integers, FiniteSetsExt

CONSTANTS
    Diffs,          \* the edits the check is asked about
    NoOwner,        \* the owner of a symbol at the top level
    NoBody,         \* the body hash of a symbol without one
    FilesLimit,     \* EditLimits.files: 200
    SymbolsLimit,   \* EditLimits.symbols: 30
    MaxCheckFaults  \* bound: refreshes and listings that fail

ASSUME CheckLimitsAssumption ==
    FilesLimit \in Nat \ {0} /\ SymbolsLimit \in Nat \ {0} /\ MaxCheckFaults \in Nat

Callables   == {"function", "method", "constructor"}
Types       == {"class", "struct", "interface", "trait", "enum", "record"}
MemberOwners == {"class", "struct", "record", "enum"}
Bindings    == {"constant", "variable", "type"}
KindGroups  == {Types \cup {"type"}, {"constant", "variable", "function"}}

(* Rows are ordered as in their index; a symbol has a name.                *)
IsRows(rows) ==
    /\ IsFiniteSet(rows)
    /\ \A r \in rows : r.at \in Nat /\ r.name # NoOwner
    /\ \A r, q \in rows : r.at = q.at => r = q

ASSUME DiffsAssumption ==
    \A d \in Diffs : IsRows(d.before) /\ IsRows(d.after) /\ IsFiniteSet(d.unread)

VARIABLES
    diff,       \* the edit: [before, after: rows; shared: a scope spans files;
                \* unread: files not in the index]
    cstage,     \* where the check is
    known,      \* the rows of the project's index
    check,      \* EditCheck: [files, changes, cuts]
    agendaC,    \* candidates whose sites are still to list
    checkFaults

checkVars == <<diff, cstage, known, check, agendaC, checkFaults>>

-----------------------------------------------------------------------------
(* Rows: [file, at, owner, kind, name, sig, body]; `at` orders all rows.   *)

Key(r) == <<r.owner, r.kind, r.name>>

(* "A constant, variable, or type alias counts only at the top level." *)
IsShape(r) == r.kind \in Callables \cup Types \/ (r.kind \in Bindings /\ r.owner = NoOwner)

RowsIn(rows, file) == {r \in rows : r.file = file}
IsParent(t, r) == t.file = r.file /\ t.kind \in Types /\ t.name = r.owner /\ t.owner = NoOwner

ChangedKindTo(r, other) ==
    /\ other.name = r.name /\ other.kind # r.kind /\ other.owner = r.owner /\ IsShape(other)
    /\ \E group \in KindGroups : {r.kind, other.kind} \subseteq group

-----------------------------------------------------------------------------
(* pair_rows. *)

Rank(r, rows) == Cardinality({q \in rows : q.at < r.at})
PairedInOrder(old, new) == {p \in old \X new : Rank(p[1], old) = Rank(p[2], new)}

(* Mutant of PairsOfKey: always in source order.                           *)
PairsInOrder(old, new) == PairedInOrder(old, new)

(* "Equal counts pair in source order; otherwise equal signatures pair     *)
(* first, so a new overload does not shift the others."                    *)
PairsOfKey(old, new) ==
    IF Cardinality(old) = Cardinality(new) THEN PairedInOrder(old, new)
    ELSE LET same == UNION {PairedInOrder({r \in old : r.sig = s}, {r \in new : r.sig = s}) :
                              s \in {r.sig : r \in old}}
         IN same \cup PairedInOrder(old \ {p[1] : p \in same}, new \ {p[2] : p \in same})

Pairs(old, new) ==
    LET of(rows, k) == {r \in rows : IsShape(r) /\ Key(r) = k}
    IN UNION {PairsOfKey(of(old, k), of(new, k)) : k \in {Key(r) : r \in old}}
Removed(old, new) == {r \in old : IsShape(r)} \ {p[1] : p \in Pairs(old, new)}
AddedRows(old, new) == {r \in new : IsShape(r)} \ {p[2] : p \in Pairs(old, new)}

(* renames: "a hash that more than one symbol on either side has names no  *)
(* rename".                                                                *)
SameBody(r, q) == r.body # NoBody /\ r.owner = q.owner /\ r.kind = q.kind /\ r.body = q.body
IsRenamed(r, old, new) ==
    /\ {q \in Removed(old, new) : SameBody(q, r)} = {r}
    /\ Cardinality({q \in AddedRows(old, new) : SameBody(q, r)}) = 1

-----------------------------------------------------------------------------
(* Detector. *)

(* changed_pair: the parameters of a callable, the names of the fields or  *)
(* the variants of a type.                                                 *)
MemberNames(t, rows) ==
    {r.name : r \in {q \in rows : q.kind \in {"field", "variant"} /\ IsParent(t, q)}}
ChangedPair(was, is, old, new) ==
    \/ is.kind \in Callables /\ was.sig # is.sig
    \/ is.kind \in MemberOwners /\ MemberNames(was, old) # MemberNames(is, new)

(* "A symbol whose parent is also removed" goes with its parent.           *)
InsideRemoved(r, removed) == \E t \in removed : IsParent(t, r)

(* The removed symbols that are no candidates of their own: inside another *)
(* removed one; a type alias beside a removed value of its name; a binding *)
(* that repeats one; "uses of the name still compile".                     *)
Unreported(r, removed, new) ==
    \/ InsideRemoved(r, removed)
    \/ r.kind = "type" /\ \E q \in removed : q.kind \in {"constant", "variable"}
                                             /\ q.name = r.name /\ q.owner = r.owner
    \/ r.kind \in Bindings /\ \E q \in removed : q.at < r.at /\ Key(q) = Key(r)
    \/ \E other \in new : ChangedKindTo(r, other)

(* compare_paired. *)
Compared(old, new, moved) ==
    LET removed == Removed(old, new)
    IN {[row |-> p[2], change |-> "changed"] :
          p \in {q \in Pairs(old, new) : ChangedPair(q[1], q[2], old, new)}}
       \cup {[row |-> r, change |-> IF IsRenamed(r, old, new) THEN "renamed" ELSE "removed"] :
               r \in {q \in removed \ moved : ~Unreported(q, removed, new)}}

(* The rows of a file that the extractor could not read are not compared.  *)
ComparedFiles == {f \in check.files : ~(/\ RowsIn(diff.before, f) # {} /\ RowsIn(known, f) = {}
                                        /\ f \in diff.unread)}
BaseRows(f) == RowsIn(diff.before, f)
KnownRows(f)  == RowsIn(known, f)

(* moves: each removed symbol that callers name by a scope of several      *)
(* files, with the first free new symbol of its key in another file.       *)
Movable == {r \in UNION {Removed(BaseRows(f), KnownRows(f)) : f \in ComparedFiles} :
              /\ diff.shared /\ r.owner = NoOwner
              /\ ~InsideRemoved(r, Removed(BaseRows(r.file), KnownRows(r.file)))}
Arrived == UNION {AddedRows(BaseRows(f), KnownRows(f)) : f \in ComparedFiles}
Earliest(rows) == CHOOSE r \in rows : \A q \in rows : r.at <= q.at
WithMove(found, r) ==
    LET free == {q \in Arrived : /\ q.file # r.file /\ Key(q) = Key(r)
                                 /\ \A p \in found : p[2] # q}
    IN IF free = {} THEN found ELSE found \cup {<<r, Earliest(free)>>}
Placed(rows) ==
    LET moved[n \in 0..Cardinality(rows)] ==
            IF n = 0 THEN {}
            ELSE WithMove(moved[n - 1], CHOOSE r \in rows : Rank(r, rows) = n - 1)
    IN moved
Moves == Placed(Movable)[Cardinality(Movable)]

(* Mutant of Subtree: a moved type is compared without its members.        *)
TypeAlone(t, rows) == {t}

Subtree(t, rows) == {t} \cup {r \in rows : IsParent(t, r)}

(* detect. *)
Candidates ==
    (UNION {Compared(BaseRows(f), KnownRows(f), {p[1] : p \in Moves}) : f \in ComparedFiles})
    \cup (UNION {Compared(Subtree(p[1], BaseRows(p[1].file)),
                          Subtree(p[2], KnownRows(p[2].file)), {}) : p \in Moves})

-----------------------------------------------------------------------------
NoDiff == [before |-> {}, after |-> {}, shared |-> FALSE, unread |-> {}]
CheckOff == diff = NoDiff /\ cstage = "off" /\ known = {} /\ agendaC = {} /\ checkFaults = 0
            /\ check = [files |-> {}, changes |-> {}, cuts |-> {}]

CheckInit ==
    /\ diff \in Diffs /\ cstage = "prepare" /\ known = diff.before /\ agendaC = {}
    /\ checkFaults = 0 /\ check = [files |-> {}, changes |-> {}, cuts |-> {}]

ChangedFiles ==
    {r.file : r \in (diff.before \ diff.after) \cup (diff.after \ diff.before)} \cup diff.unread

(* prepare: the changed files, as many as the limit allows. *)
Prepare ==
    /\ cstage = "prepare"
    /\ \E files \in SUBSET ChangedFiles :
         /\ Cardinality(files) = Min({FilesLimit, Cardinality(ChangedFiles)})
         /\ check' = [check EXCEPT !.files = files,
                                   !.cuts = IF files = ChangedFiles THEN {} ELSE {"files"}]
         /\ cstage' = IF files = {} THEN "done" ELSE "refresh"
    /\ UNCHANGED <<diff, known, agendaC, checkFaults>>

(* run: refresh_files; a refresh that fails is only logged.  When the time *)
(* is up the check says so and stops.  Without a base file nothing can     *)
(* have changed shape.                                                     *)
Refresh ==
    /\ cstage = "refresh"
    /\ \E stale \in SUBSET (check.files \ diff.unread) :
         /\ checkFaults + Cardinality(stale) <= MaxCheckFaults
         /\ checkFaults' = checkFaults + Cardinality(stale)
         /\ known' = {r \in diff.before : r.file \in stale}
                     \cup {r \in diff.after : r.file \notin stale \cup diff.unread}
    /\ cstage' = IF \A f \in check.files : BaseRows(f) = {} THEN "done" ELSE "detect"
    /\ UNCHANGED <<diff, check, agendaC>>

OutOfTime ==
    /\ cstage \in {"refresh", "detect"} \/ (cstage = "list" /\ agendaC # {})
    /\ check' = [check EXCEPT !.cuts = @ \cup {"time"}] /\ cstage' = "done"
    /\ UNCHANGED <<diff, known, agendaC, checkFaults>>

(* The candidates, "those with the most uses of their name first".         *)
Detect ==
    /\ cstage = "detect" /\ cstage' = "list"
    /\ LET found == Candidates
           some  == Min({SymbolsLimit, Cardinality(found)})
       IN \E kept \in kSubset(some, found) :
            /\ agendaC' = kept
            /\ check' = [check EXCEPT !.cuts = @ \cup IF kept # found THEN {"symbols"} ELSE {}]
    /\ UNCHANGED <<diff, known, checkFaults>>

(* The sites of the candidates, one after the other; one whose sites       *)
(* cannot be listed is named among the cuts.                               *)
ListSites(c) ==
    /\ cstage = "list" /\ c \in agendaC /\ agendaC' = agendaC \ {c}
    /\ \A d \in agendaC : c.row.at <= d.row.at
    /\ \/ check' = [check EXCEPT !.changes = @ \cup {c}] /\ UNCHANGED checkFaults
       \/ /\ checkFaults < MaxCheckFaults /\ checkFaults' = checkFaults + 1
          /\ check' = [check EXCEPT !.cuts = @ \cup {"sites"}]
    /\ UNCHANGED <<diff, cstage, known>>

EndCheck == cstage = "list" /\ agendaC = {} /\ cstage' = "done"
            /\ UNCHANGED <<diff, known, check, agendaC, checkFaults>>

CheckNext ==
    \/ Prepare \/ Refresh \/ OutOfTime \/ Detect \/ EndCheck
    \/ \E c \in agendaC : ListSites(c)

-----------------------------------------------------------------------------
(* Properties. *)

(* The check ran to its end and nothing it has to mention went wrong.      *)
RanThrough == cstage = "done" /\ check.cuts = {} /\ checkFaults = 0

(* A caller names a symbol by its file, or by a scope of several files.    *)
SameScope(r, q) == r.file = q.file \/ diff.shared
Answers(q, r) == IsShape(q) /\ q.name = r.name /\ q.owner = r.owner /\ SameScope(q, r)

Lost(r) == /\ IsShape(r) /\ r.file \notin diff.unread
           /\ \A q \in diff.after : ~Answers(q, r)
IsNamed(r) == \E c \in check.changes : c.row.name = r.name /\ c.row.owner = r.owner
ChangedKind(t) == \E q \in diff.after : ChangedKindTo(t, q)

(* "A base symbol with no pair" is a change and "its members are not       *)
(* listed apart": whatever was removed, renamed, moved, merged and         *)
(* reordered at once, a name that no symbol of its scope answers to any    *)
(* more is reported, itself or as a part of what was removed.  What a type *)
(* loses when it changes its kind is LostMembersAreReported's.             *)
LostNamesAreReported ==
    RanThrough =>
        \A r \in diff.before :
            Lost(r) => \/ IsNamed(r)
                       \/ \E c \in check.changes : /\ c.change # "changed"
                                                   /\ c.row.name = r.owner /\ c.row.owner = NoOwner
                       \/ \E t \in diff.before : IsParent(t, r) /\ ChangedKind(t)

(* A type that became another kind of type is no change, "because the uses *)
(* of the name still compile"; the uses of a member it lost on the way do  *)
(* not, and that member is a base symbol with no pair.  The code skips it: *)
(* its type is among the unpaired symbols, and no change names that type.  *)
LostMembersAreReported ==
    RanThrough =>
        \A r \in diff.before :
            (Lost(r) /\ \E t \in diff.before : IsParent(t, r) /\ ChangedKind(t)) => IsNamed(r)

(* "A new overload does not shift the others", "an added symbol is never a *)
(* change": when all that was there is still there and no type has gained  *)
(* a member, the check reports nothing, though it runs on names and order  *)
(* and not on identities.                                                  *)
AdditionsAreNoChange ==
    /\ cstage = "done" /\ checkFaults = 0 /\ diff.unread = {}
    /\ diff.before \subseteq diff.after
    /\ \A r \in diff.after \ diff.before : r.kind \notin {"field", "variant"}
    => check.changes = {}
=============================================================================
