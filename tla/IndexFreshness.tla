--------------------------- MODULE IndexFreshness ---------------------------
(***************************************************************************)
(* What the machinery around the index promises, with no buffer, flag or   *)
(* worker in sight: `index` is a copy of `disk` that is made file by file. *)
(*                                                                         *)
(* A row is written from a copy that was taken from the file while the     *)
(* present run was under way, never from anything older.  A file whose row *)
(* is not known to agree with it is `owed`; it stops being owed only in a  *)
(* state in which file and row do agree.  A file may be hidden from the    *)
(* program: it is owed for as long as it is hidden and when it comes back, *)
(* and who reads it meanwhile may find it missing.                         *)
(***************************************************************************)
EXTENDS FiniteSets

CONSTANTS Files, Contents, Absent

VARIABLES
    disk,     \* [Files -> Contents]
    index,    \* [Files -> Contents]
    hidden,   \* the files below a folder that may not be listed
    copies,   \* [Files -> SUBSET Contents]: what the present run has read
    owed      \* the files that somebody still has to see to

freshVars == <<disk, index, hidden, copies, owed>>

NoCopies == [f \in Files |-> {}]

(* Whoever is taken off the books agrees with the file.                    *)
Accounted == hidden \subseteq owed /\ \A f \in Files \ owed : index[f] = disk[f]

Init ==
    /\ disk \in [Files -> Contents] /\ index \in [Files -> Contents]
    /\ hidden \in SUBSET Files
    /\ copies = NoCopies /\ owed = Files

(* The user changes a file: from then on it is owed, if not every file.    *)
Change ==
    /\ \E f \in Files, c \in Contents :
         /\ disk' = [disk EXCEPT ![f] = c]
         /\ owed \cup {f} \subseteq owed'
    /\ owed' \subseteq Files
    /\ UNCHANGED <<index, hidden, copies>>

(* Files are hidden or come back: all of them are owed from then on.       *)
Permit ==
    /\ hidden' \in SUBSET Files
    /\ owed \cup hidden \cup hidden' \subseteq owed'
    /\ owed' \subseteq Files
    /\ UNCHANGED <<disk, index, copies>>

(* A run reads a file that is owed.                                        *)
Copy ==
    /\ \E f \in owed :
         \/ copies' = [copies EXCEPT ![f] = {disk[f]}]
         \/ f \in hidden /\ copies' = [copies EXCEPT ![f] = {Absent}]
    /\ UNCHANGED <<disk, index, hidden, owed>>

(* A run writes what it has read, all of it or a part.                     *)
Commit ==
    /\ \A f \in Files : index'[f] \in copies[f] \cup {index[f]}
    /\ index' \in [Files -> Contents]
    /\ copies' = NoCopies
    /\ Accounted'
    /\ UNCHANGED <<disk, hidden>>

(* A run ends with nothing written, or work is handed on, found to be done *)
(* or found to be needed.                                                  *)
Account ==
    /\ copies' \in {copies, NoCopies}
    /\ Accounted'
    /\ UNCHANGED <<disk, index, hidden>>

Next == Change \/ Permit \/ Copy \/ Commit \/ Account

Spec == Init /\ [][Next]_freshVars
=============================================================================
