------------------------------- MODULE BlastRadius -------------------------------
(***************************************************************************)
(* How `discover_blast_radius` (ops.rs) puts an answer together from the   *)
(* walk over the calls (CallerWalk) and the callers reports of its         *)
(* targets: the reports tie uses that the walk cannot follow, so their     *)
(* callers join the walk's rows at depth 1, and the walk goes on from      *)
(* those that are new or moved up, with one level less.                    *)
(***************************************************************************)
EXTENDS CallerWalk

CONSTANTS
    BlastGraphs,    \* the indexes
    Questions       \* what is asked

(* A site of a report: who holds it (NoSymbol: no symbol) and how it is    *)
(* tied to the target: a call, a read of a member, or by its name only.    *)
Ties == [by : {"call", "read", "name"}, caller : Symbols \cup {NoSymbol}]

(* `seeds`: the symbols of the file or folder, those that hold a changed   *)
(* line, or the one that was named.  `targets`: those with a report.       *)
QuestionSet ==
    [kind : {"symbol", "file", "diff"}, depth : 1..MaxBlastDepth, seeds : SUBSET Symbols,
     targets : SUBSET Symbols, ties : [Symbols -> SUBSET Ties], overloaded : SUBSET Symbols]

ASSUME QuestionAssumption ==
    /\ \A q \in Questions : q \in QuestionSet /\ q.targets \subseteq q.seeds
    /\ \A g \in BlastGraphs : IsIndex(g)

VARIABLES
    asked,      \* the question
    stage,      \* where discover_blast_radius is
    answer      \* BlastRadiusResult

blastVars == <<walkVars, asked, stage, answer>>

(* `joined`: callers that joined from reports; `tied`: targets whose       *)
(* report has a proven or likely site; `counted`: tests_past_depth is some. *)
NoAnswer == [rows |-> {}, tests |-> {}, ends |-> {}, past |-> {}, counted |-> FALSE,
             ceiling |-> FALSE, stopped |-> FALSE, joined |-> {}, tied |-> {},
             failed |-> {}, unvisited |-> {}, cut |-> FALSE]

-----------------------------------------------------------------------------
(* The callers reports. *)

Tied(targets) == {t \in targets : asked.ties[t] # {}}

(* report_callers: no test is a row; and "when the rows join callers that  *)
(* the walk found, a candidate member access adds no row, and for a target *)
(* with overloads a call adds no row either".                              *)
ReportCallers(t, joinsWalk, walkOwnsCalls) ==
    {tie.caller : tie \in {u \in asked.ties[t] :
        /\ joinsWalk => u.by # "name"
        /\ walkOwnsCalls => u.by # "call"
        /\ u.caller # NoSymbol => ~IsTestRole(u.caller) /\ EnclosingTests(u.caller) = {}}}

ReportTests(t) == {u.caller : u \in {v \in asked.ties[t] : v.caller # NoSymbol}}
                    \cap {s \in Symbols : IsTestRole(s)}
NameOnly(t, test) == \A u \in asked.ties[t] : u.caller = test => u.by = "name"

RowIds(rows) == {r.id : r \in rows}
HasRow(rows, id, depth) == \E r \in rows : r.id = id /\ r.depth <= depth

(* Mutant of Added: a caller that the walk found deeper is not walked on.  *)
AddedNew(rows, callers) == callers \ RowIds(rows)

(* "Both count as added, since the walk went on from a moved caller with   *)
(* less depth left."                                                       *)
Added(rows, callers) == {c \in callers : ~HasRow(rows, c, 1)}

(* join_report_callers. *)
Join(rows, callers) ==
    {r \in rows : r.id \notin callers \/ r.depth <= 1}
        \cup [id : {c \in callers : ~HasRow(rows, c, 1)}, depth : {1}]

-----------------------------------------------------------------------------
NoQuestion == [kind |-> "symbol", depth |-> 1, seeds |-> {}, targets |-> {},
               ties |-> [s \in Symbols |-> {}], overloaded |-> {}]
BlastOff == stage = "off" /\ asked = NoQuestion /\ answer = NoAnswer

(* A walk, as compute_blast_radius_... begins it. *)
BeginWalk(kind, seeds, reported, depth, probe) ==
    /\ request' = [kind |-> kind, seeds |-> seeds, reported |-> reported,
                   depth |-> depth, probe |-> probe]
    /\ walk' = Started(seeds) /\ wphase' = "walk" /\ report' = EmptyReport

BlastInit ==
    /\ asked \in Questions /\ graph \in BlastGraphs
    /\ stage = "asked" /\ answer = NoAnswer
    /\ wphase = "off" /\ walk = EmptyWalk /\ report = EmptyReport
    /\ request = [kind |-> "symbol", seeds |-> {}, reported |-> {}, depth |-> 1, probe |-> 0]

AskSymbol ==
    /\ stage = "asked" /\ asked.kind = "symbol" /\ stage' = "walk"
    /\ BeginWalk("symbol", asked.seeds, {}, asked.depth, MaxBlastDepth)
    /\ UNCHANGED <<graph, asked, answer>>

AskChanges ==
    /\ stage = "asked" /\ asked.kind = "diff" /\ stage' = "walk"
    /\ BeginWalk("file", asked.seeds, {}, asked.depth, MaxBlastDepth)
    /\ UNCHANGED <<graph, asked, answer>>

(* file_blast_radius_within: the reports run before the walk, for as many  *)
(* symbols as the time allows; a report may fail.  Their tests go into the *)
(* walk's list.                                                            *)
AskFile ==
    /\ stage = "asked" /\ asked.kind = "file" /\ stage' = "walk"
    /\ \E unvisited \in SUBSET asked.targets : \E failed \in SUBSET (asked.targets \ unvisited) :
         LET reported == asked.targets \ (unvisited \cup failed)
             tests == UNION {{x \in ReportTests(t) : ~NameOnly(t, x)} : t \in reported}
         IN /\ answer' = [answer EXCEPT !.unvisited = unvisited, !.failed = failed,
                                        !.tied = Tied(reported)]
            /\ BeginWalk("file", asked.seeds, tests, asked.depth, MaxBlastDepth)
    /\ UNCHANGED <<graph, asked>>

(* The walk runs as CallerWalk says. *)
Walking == stage \in {"walk", "deeper"} /\ WalkNext /\ UNCHANGED <<asked, stage, answer>>

(* What the walk found, as an answer. *)
Walked ==
    [answer EXCEPT !.rows = {[id |-> s, depth |-> DepthOf(s)] : s \in report.impacted},
                   !.tests = report.tests \cup report.files, !.ends = report.ends,
                   !.past = report.past, !.counted = report.stopped /\ request.probe > request.depth,
                   !.ceiling = report.ceiling, !.stopped = report.stopped]

(* Goes on from the added callers, or is done with the rows. *)
GoOn(base, callers) ==
    LET added == Added(base.rows, callers) \ {NoSymbol}
        joined == [base EXCEPT !.rows = Join(base.rows, callers), !.joined = callers]
    IN /\ answer' = joined
       /\ IF asked.depth > 1 /\ added # {}
          THEN /\ stage' = "deeper"
               /\ BeginWalk("symbol", added, {}, asked.depth - 1, MaxBlastDepth - 1)
          ELSE stage' = "finish" /\ UNCHANGED <<request, walk, wphase, report>>
       /\ UNCHANGED <<graph, asked>>

Stay(base) == answer' = base /\ stage' = "done" /\ UNCHANGED <<walkVars, asked>>

(* The callers of a file's reports join when they lie outside of it. *)
JoinFile ==
    /\ stage = "walk" /\ wphase = "done" /\ asked.kind = "file"
    /\ LET visited == asked.targets \ (answer.unvisited \cup answer.failed)
           base == [Walked EXCEPT !.ends = @ \ answer.tied]
           callers == UNION {ReportCallers(t, base.rows # {}, FALSE) : t \in visited}
           outside == {c \in callers : c # NoSymbol => \A s \in asked.seeds : FileOf[c] # FileOf[s]}
       IN IF base.ceiling THEN Stay(base) ELSE GoOn(base, outside)

(* with_report_tests: one report for each changed function; a caller that  *)
(* holds a changed line is a seed and no row.                              *)
JoinChanges ==
    /\ stage = "walk" /\ wphase = "done" /\ asked.kind = "diff"
    /\ IF asked.targets = {} \/ Walked.ceiling THEN Stay(Walked)
       ELSE \E failed \in SUBSET asked.targets :
         LET reported == asked.targets \ failed
             walked == Walked.rows # {}
             base == [Walked EXCEPT !.ends = @ \ Tied(reported), !.tied = Tied(reported),
                                    !.failed = failed,
                                    !.tests = @ \cup UNION {ReportTests(t) : t \in reported}]
             callers == UNION {ReportCallers(t, walked, walked /\ t \in asked.overloaded) :
                                 t \in reported}
         IN GoOn(base, callers \ asked.seeds)

(* with_calling_tests: the report runs when the walk found no test or no   *)
(* caller, or when somebody who is not listed reads a member of that name  *)
(* (of this target, or of a `namesake`).                                   *)
NeedsReport(base, namesake) ==
    \/ base.tests = {} \/ base.rows = {}
    \/ namesake
    \/ \E t \in asked.targets : \E u \in asked.ties[t] :
         u.by # "call" /\ u.caller \notin RowIds(base.rows) \cup base.tests \cup {t}

JoinSymbol ==
    /\ stage = "walk" /\ wphase = "done" /\ asked.kind = "symbol"
    /\ \E namesake, failed \in BOOLEAN :
         IF Walked.ceiling \/ failed \/ ~NeedsReport(Walked, namesake) THEN Stay(Walked)
         ELSE LET walked == Walked.rows # {}
                  base == [Walked EXCEPT !.ends = @ \ Tied(asked.targets),
                                         !.tied = Tied(asked.targets)]
                  callers == UNION {ReportCallers(t, walked, walked /\ t \in asked.overloaded) :
                                      t \in asked.targets}
              IN GoOn(base, IF walked THEN callers \ asked.targets ELSE callers)

(* walk_on_from_joined and follow_deeper: "a symbol that is listed already *)
(* keeps the smaller of its two depths".                                   *)
Merge ==
    /\ stage = "deeper" /\ wphase = "done"
    /\ LET deeper == {[id |-> s, depth |-> DepthOf(s) + 1] : s \in report.impacted}
           nearer == {r \in answer.rows \cup deeper :
                        \A q \in answer.rows \cup deeper : q.id = r.id => r.depth <= q.depth}
           tests == answer.tests \cup report.tests
       IN answer' = [answer EXCEPT
              !.rows = nearer, !.tests = tests, !.ends = @ \cup report.ends,
              !.stopped = @ \/ report.stopped, !.ceiling = @ \/ report.ceiling,
              !.past = IF report.stopped /\ request.probe > request.depth
                       THEN (@ \cup report.past) \ tests ELSE @,
              !.counted = @ \/ (report.stopped /\ request.probe > request.depth)]
    /\ stage' = "finish" /\ UNCHANGED <<walkVars, asked>>

(* Mutant of Listing: what was listed meanwhile stays counted.             *)
ListingKept(tests, past) == past
Listing(tests, past) == past \ tests

(* The tests of a symbol's report follow, or the target itself when it is  *)
(* a test; what is listed by now is no longer past the depth.  A file's    *)
(* answer is not looked at again.                                          *)
FinalTests ==
    IF asked.kind # "symbol" THEN answer.tests
    ELSE LET all == answer.tests \cup UNION {ReportTests(t) : t \in asked.targets}
         IN IF all # {} THEN all ELSE {t \in asked.targets : IsTestRole(t)}

(* The lists are cut to the limit, the nearest rows first. *)
CutTo(shown, all) ==
    /\ Cardinality(shown) = LeastOf({RowCeiling, Cardinality(all)})
    /\ \A r \in shown, q \in all \ shown : r.depth <= q.depth

Finish ==
    /\ stage = "finish" /\ stage' = "done"
    /\ \E rows \in SUBSET answer.rows, tests \in SUBSET FinalTests :
         /\ CutTo(rows, answer.rows)
         /\ Cardinality(tests) = LeastOf({RowCeiling, Cardinality(FinalTests)})
         /\ answer' = [answer EXCEPT
                !.rows = rows, !.tests = tests,
                !.cut = rows # answer.rows \/ tests # FinalTests,
                !.past = IF asked.kind # "file" /\ answer.counted
                         THEN Listing(FinalTests, @) ELSE @]
    /\ UNCHANGED <<walkVars, asked>>

BlastNext ==
    \/ AskSymbol \/ AskChanges \/ AskFile \/ Walking
    \/ JoinFile \/ JoinChanges \/ JoinSymbol \/ Merge \/ Finish

BlastSpec == BlastInit /\ [][BlastNext]_blastVars

-----------------------------------------------------------------------------
(* Properties. *)

(* Reference: what a path of exactly n steps reaches, when the first step  *)
(* may also be one that a report gave.                                     *)
JoinedFrom(steps, seeds, joined) ==
    LET next(from) == {s.caller : s \in {t \in steps : t.kept /\ t.origin \in from}}
        ends[n \in 0..MaxBlastDepth] ==
            IF n = 0 THEN seeds
            ELSE next(ends[n - 1]) \cup (IF n = 1 THEN joined ELSE {})
    IN ends
JoinedEnds == JoinedFrom(graph.steps, asked.seeds, answer.joined \ {NoSymbol})

IsComplete == stage = "done" /\ ~answer.ceiling /\ ~answer.cut

(* "A symbol that is listed already keeps the smaller of its two depths":  *)
(* though the rows come from two walks and the reports between them, each  *)
(* symbol the answer lists stands at the length of the shortest way to it, *)
(* through calls or through a caller that a report gave, and every symbol  *)
(* and test that such a way of the asked length reaches is listed.  (What  *)
(* was asked about is listed only when the second walk comes back to it,   *)
(* at the length of one such way.)                                         *)
JoinedRowsAreNearest ==
    IsComplete =>
        LET ends == JoinedEnds
            at(s) == {n \in 1..asked.depth : s \in ends[n]}
        IN /\ \A r \in answer.rows : r.id # NoSymbol =>
                /\ r.depth \in at(r.id)
                /\ r.id \notin asked.seeds => r.depth = LeastOf(at(r.id))
           /\ \A s \in Symbols \ asked.seeds : at(s) # {} =>
                \/ graph.role[s] = "low"
                \/ s \in RowIds(answer.rows)
                \/ TestsOf(s) # {} /\ \A t \in TestsOf(s) : t \in answer.tests \/ FileOf[t] \in answer.tests

(* "The tests that a walk at the largest depth adds to the list": of a     *)
(* symbol and of a diff, no test is both listed and counted as left out.   *)
(* (An answer for a file may count one twice: JoinFile leaves the tests    *)
(* past the depth as the walk found them.)                                 *)
PastIsUnlisted == stage = "done" /\ ~answer.cut /\ asked.kind # "file" =>
                    answer.past \cap answer.tests = {}
=============================================================================
