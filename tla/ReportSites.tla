------------------------------ MODULE ReportSites ------------------------------
(***************************************************************************)
(* How a callers report labels the rows of a name against the clock        *)
(* (reference_report.rs: Accounting::account_spec and what it calls).      *)
(*                                                                         *)
(* Rows that use the name are judged for the target in chunks until a part *)
(* of the time is gone, decided by what is known of them alone, compared   *)
(* with the other definitions of the name, and the rest is decided by how  *)
(* many of those could be meant.  Each of these steps stops where the time *)
(* ends; a row that was not reached keeps the label its name gives, and    *)
(* the report has to tell.  What the rules of a language and the judge of  *)
(* the index find of a row are facts of the row.                           *)
(***************************************************************************)
EXTENDS Integers, Sequences, FiniteSetsExt

CONSTANTS
    NamedRows,   \* the questions: [rows, others: number of other definitions]
    JudgeChunk,  \* JUDGE_CHUNK: 2000
    OtherCap     \* OTHER_DEFINITION_CAP: 12

Labels == {"proven", "likely", "unresolved", "excluded"}

(* A row; rows are numbered in the order they are judged in.  `early`: what decide_cheap finds before it looks at a claim;    *)
(* `chain`: the claim of a receiver chain; `alone`: what the rules after   *)
(* that find.  `claim`: none, with a basis, with one that is "held" back   *)
(* since the name may be a local value, "bare" of one, or with one         *)
(* "unless" there are rivals; `based`: what the basis makes of it; `after`:*)
(* what the last cheap rules find.  `taken`: the other definitions that    *)
(* claim the row too; `rivals`: those that could be meant; `late`: what    *)
(* decide_late finds.  `misfit`: it has a number of arguments the target   *)
(* cannot take; `overload`: it binds another overload; `bound`: a line of  *)
(* its function binds the name.                                            *)
RowSet(others) ==
    [early : {"none", "proven", "excluded"}, alone : Labels \cup {"none"},
     chain : {"none", "reaches", "differs", "unknown"},
     claim : {"none", "based", "held", "bare", "unless"}, based : Labels,
     after : {"none", "proven", "excluded"}, taken : SUBSET others, rivals : SUBSET others,
     late : Labels \cup {"none"}, misfit : BOOLEAN, overload : BOOLEAN, bound : BOOLEAN]

ASSUME ReportAssumption ==
    /\ JudgeChunk \in Nat \ {0} /\ OtherCap \in Nat
    /\ \A q \in NamedRows : q.others \in Nat /\ q.rows \in Seq(RowSet(1..q.others))

VARIABLES
    named,      \* the question
    clock,      \* "on", "half" (no more judging), "out"
    rphase,     \* where account_spec is
    judged,     \* rows at the start of the order that were judged
    ahead,      \* rows that the present pass has still to look at
    undecided,  \* rows without a verdict (`undecided`, then `kept`)
    complete,   \* the definition under way was compared with all of them
    checked,    \* definitions that were
    unchecked,  \* rows that the time did not reach
    verdicts,   \* set of [row, label, told: its basis says "not checked"]
    noted       \* cannot_see tells of definitions that were not checked

reportVars == <<named, clock, rphase, judged, ahead, undecided, complete, checked,
                unchecked, verdicts, noted>>

Count == Len(named.rows)
Row(i) == named.rows[i]
Verdict(i, label) == [row |-> i, label |-> label, told |-> FALSE]

-----------------------------------------------------------------------------
(* decide_cheap: a chain of unknown type stays open, whatever else is      *)
(* known of the row.                                                       *)
ChainSays == [reaches |-> "proven", differs |-> "excluded", unknown |-> "none"]
Cheap(r) ==
    IF r.early # "none" THEN r.early
    ELSE IF r.chain # "none" THEN ChainSays[r.chain]
    ELSE IF r.alone # "none" THEN r.alone
    ELSE IF r.claim = "based" THEN r.based ELSE r.after

ByName(r) == IF r.rivals = {} THEN "likely" ELSE "unresolved"

(* decide_late. *)
Late(r) == IF r.late # "none" THEN r.late ELSE ByName(r)

(* The last pass over the rows that no definition took. *)
Resolved(r) ==
    IF r.claim \in {"based", "held"} \/ (r.claim = "unless" /\ r.rivals = {}) THEN "proven"
    ELSE IF r.claim = "bare" /\ r.chain = "none" THEN ByName(r) ELSE Late(r)
HasClaim(r) == r.claim # "none" \/ r.chain # "none"

(* The number of arguments, the overloads and the bindings of the name     *)
(* have the last word; their exclusion has a basis of its own.             *)
Adjusted(v) ==
    LET r == Row(v.row)
        excluded == \/ v.label \in {"likely", "unresolved"} /\ r.misfit
                    \/ v.label # "excluded" /\ r.overload
    IN IF excluded THEN Verdict(v.row, "excluded")
       ELSE IF v.label = "proven" /\ r.bound THEN [v EXCEPT !.label = "likely"] ELSE v

-----------------------------------------------------------------------------
NoReport ==
    /\ judged = 0 /\ ahead = {} /\ undecided = {} /\ complete = TRUE /\ checked = 0
    /\ unchecked = {} /\ verdicts = {} /\ noted = FALSE /\ clock = "on"
ReportOff == NoReport /\ named = [rows |-> <<>>, others |-> 0] /\ rphase = "off"
ReportInit == NoReport /\ named \in NamedRows /\ rphase = "judge"

(* Time passes between any two steps that look at the clock.               *)
Tick ==
    /\ rphase \notin {"off", "done"} /\ clock # "out"
    /\ clock' = IF clock = "on" THEN "half" ELSE "out"
    /\ UNCHANGED <<named, rphase, judged, ahead, undecided, complete, checked, unchecked,
                   verdicts, noted>>

(* claims: "judged in chunks until the time limit". *)
Judge ==
    /\ rphase = "judge"
    /\ IF judged < Count /\ clock = "on"
       THEN /\ judged' = Min({judged + JudgeChunk, Count})
            /\ UNCHANGED <<rphase, ahead, unchecked>>
       ELSE /\ rphase' = "cheap" /\ ahead' = 1..judged /\ unchecked' = (judged + 1)..Count
            /\ UNCHANGED judged
    /\ UNCHANGED <<named, clock, undecided, complete, checked, verdicts, noted>>

(* The loop over the judged rows. *)
DecideCheap ==
    /\ rphase = "cheap"
    /\ IF ahead # {} /\ clock # "out"
       THEN LET i     == Min(ahead)
                label == Cheap(Row(i))
            IN /\ ahead' = ahead \ {i}
               /\ IF label = "none" THEN undecided' = undecided \cup {i} /\ UNCHANGED verdicts
                  ELSE verdicts' = verdicts \cup {Verdict(i, label)} /\ UNCHANGED undecided
               /\ UNCHANGED <<rphase, unchecked>>
       ELSE /\ rphase' = "others" /\ unchecked' = unchecked \cup ahead /\ ahead' = {}
            /\ UNCHANGED <<undecided, verdicts>>
    /\ UNCHANGED <<named, clock, judged, complete, checked, noted>>

(* The next definition, or a note of those that were not checked.          *)
NextDefinition ==
    /\ rphase = "others" /\ ahead' = undecided
    /\ IF /\ undecided # {} /\ checked < OtherCap /\ checked < named.others
          /\ clock # "out" /\ complete
       THEN rphase' = "compare" /\ UNCHANGED noted
       ELSE rphase' = "rest" /\ noted' = (undecided # {} /\ checked < named.others)
    /\ UNCHANGED <<named, clock, judged, undecided, complete, checked, unchecked, verdicts>>

(* A chunk of the undecided rows against the definition: those it claims   *)
(* too are excluded.                                                       *)
Chunk(rows) == {i \in rows : Cardinality({k \in rows : k < i}) < JudgeChunk}
CompareChunk ==
    /\ rphase = "compare" /\ ahead # {} /\ ahead' = ahead \ Chunk(ahead)
    /\ LET claimed == IF clock = "out" THEN {}
                      ELSE {i \in Chunk(ahead) : checked + 1 \in Row(i).taken}
       IN /\ undecided' = undecided \ claimed
          /\ verdicts' = verdicts \cup {Verdict(i, "excluded") : i \in claimed}
    /\ complete' = (complete /\ clock # "out")
    /\ UNCHANGED <<named, clock, rphase, judged, checked, unchecked, noted>>

(* Mutant of EndDefinition: a comparison that was cut short counts.        *)
EndDefinitionCounts ==
    /\ rphase = "compare" /\ ahead = {} /\ rphase' = "others" /\ checked' = checked + 1
    /\ UNCHANGED <<named, clock, judged, ahead, undecided, complete, unchecked, verdicts, noted>>

EndDefinition ==
    /\ rphase = "compare" /\ ahead = {} /\ rphase' = "others"
    /\ checked' = IF complete THEN checked + 1 ELSE checked
    /\ UNCHANGED <<named, clock, judged, ahead, undecided, complete, unchecked, verdicts, noted>>

(* What is left: a claim needs no time. *)
DecideRest ==
    /\ rphase = "rest" /\ ahead # {}
    /\ LET i == Min(ahead)
       IN /\ ahead' = ahead \ {i}
          /\ IF clock = "out" /\ ~HasClaim(Row(i))
             THEN unchecked' = unchecked \cup {i} /\ UNCHANGED verdicts
             ELSE verdicts' = verdicts \cup {Verdict(i, Resolved(Row(i)))} /\ UNCHANGED unchecked
    /\ UNCHANGED <<named, clock, rphase, judged, undecided, complete, checked, noted>>

(* "Name only; not checked"; then the last word on every row.              *)
Finished ==
    {Adjusted(v) : v \in verdicts \cup {[row |-> i, label |-> ByName(Row(i)), told |-> TRUE] :
                                          i \in unchecked}}
FinishReport ==
    /\ rphase = "rest" /\ ahead = {} /\ rphase' = "done" /\ verdicts' = Finished
    /\ UNCHANGED <<named, clock, judged, ahead, undecided, complete, checked, unchecked, noted>>

ReportNext ==
    \/ Tick \/ Judge \/ DecideCheap \/ NextDefinition \/ CompareChunk \/ EndDefinition
    \/ DecideRest \/ FinishReport

ReportSpec == ReportInit /\ [][ReportNext]_reportVars

-----------------------------------------------------------------------------
(* Properties. *)

(* Reference: the label of a row when there is no hurry. *)
Unhurried(i) ==
    LET r == Row(i)
        met == 1..Min({OtherCap, named.others})
        label == IF Cheap(r) # "none" THEN Cheap(r)
                 ELSE IF r.taken \cap met # {} THEN "excluded" ELSE Resolved(r)
    IN Adjusted(Verdict(i, label)).label

(* The report never hides that its time was up: wherever the clock stopped *)
(* it, in the judging, between two rows, inside of a comparison or in the  *)
(* last pass, every row of the name has one label, and a row whose label   *)
(* would be another without a limit says itself that it was not checked,   *)
(* or the report says that definitions were not.  (Excepted: a row that is *)
(* excluded by its number of arguments loses its mark.)                    *)
TimeIsTold ==
    rphase = "done" =>
        /\ \A i \in 1..Count : Cardinality({v \in verdicts : v.row = i}) = 1
        /\ \A v \in verdicts :
             v.label # Unhurried(v.row) =>
                 v.told \/ noted \/ (v.label = "excluded" /\ Row(v.row).misfit)
=============================================================================
