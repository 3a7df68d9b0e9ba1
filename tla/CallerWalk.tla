------------------------------- MODULE CallerWalk -------------------------------
(***************************************************************************)
(* The walk behind `discover_blast_radius` (queries.rs: CallerWalk,        *)
(* collect_walk, blast_radius_walk_with_options).                          *)
(*                                                                         *)
(* From the symbols a request names, the walk follows caller steps level   *)
(* by level, one level further than asked.  What it reached is collected   *)
(* into tests to run and code that is impacted.  If the walk could go on,  *)
(* it is extended to the largest depth, to count the tests that were left  *)
(* out; and the symbols nobody calls are listed as open ends.  A caller    *)
(* step is opaque here: the SQL that ties a call to a symbol is data.      *)
(***************************************************************************)
EXTENDS Integers, FiniteSetsExt

CONSTANTS
    Symbols,        \* the symbols of the index
    NoSymbol,       \* the parent of a symbol at module level
    FileOf,         \* [Symbols -> files]
    Graphs,         \* the indexes the walk is checked on
    WalkRequests,   \* the requests
    MaxBlastDepth,  \* MAX_BLAST_DEPTH: 5
    RowCeiling,     \* rows collect_walk reads: 200
    MaxScopes       \* MAX_ENCLOSING_SCOPES: 8

ASSUME WalkBoundsAssumption ==
    MaxBlastDepth \in Nat \ {0} /\ RowCeiling \in Nat \ {0} /\ MaxScopes \in Nat
ASSUME WalkDataAssumption ==
    /\ IsFiniteSet(Symbols) /\ NoSymbol \notin Symbols
    /\ \A s \in Symbols : FileOf[s] \notin Symbols

(* "low" is what the request does not list: documentation and, unless it   *)
(* asks for them, imports, variables, fields, modules and namespaces.      *)
(* "value" is a type, a constant or a function without a name.             *)
Roles == {"code", "value", "low", "test", "fixture", "setup"}

(* `constructor`: the step leaves a constructor towards who builds its     *)
(* class.  `kept`: the overload and include rules accept the step.         *)
StepSet == [origin : Symbols, caller : Symbols, constructor : BOOLEAN, kept : BOOLEAN]

(* `linked`: the index has a table of calls.  `serves`: who takes a        *)
(* fixture as a parameter, or the tests of the class of a setup member.    *)
(* `scopes`: classes, variables, properties, fields, constants, functions  *)
(* and methods; no test is looked for beyond any other kind.               *)
GraphSet == [linked : BOOLEAN, steps : SUBSET StepSet, role : [Symbols -> Roles],
             inside : [Symbols -> Symbols \cup {NoSymbol}], scopes : SUBSET Symbols,
             serves : SUBSET (Symbols \X Symbols)]

(* `reported`: tests that the callers reports tie to the files.            *)
RequestSet == [kind : {"symbol", "file"}, seeds : SUBSET Symbols, reported : SUBSET Symbols,
               depth : 1..MaxBlastDepth, probe : 0..MaxBlastDepth]

(* Without a table of calls there are no steps. *)
IsIndex(g) == g \in GraphSet /\ (g.linked \/ g.steps = {})

ASSUME WalkInputAssumption ==
    (\A g \in Graphs : IsIndex(g)) /\ \A r \in WalkRequests : r \in RequestSet

VARIABLES
    graph,      \* the index: does not change while a request is answered
    request,    \* what is asked
    walk,       \* CallerWalk
    wphase,     \* where blast_radius_walk_with_options is
    report      \* BlastRadiusResult

walkVars == <<graph, request, walk, wphase, report>>

EmptyReport == [tests |-> {}, files |-> {}, impacted |-> {}, reached |-> {}, ends |-> {},
                ceiling |-> FALSE, stopped |-> FALSE, past |-> {}, pastCut |-> FALSE]
EmptyWalk == [rows |-> {}, seen |-> {}, frontier |-> {}, depth |-> 0, expanded |-> {},
              called |-> {}]

-----------------------------------------------------------------------------
(* The walk. *)

(* Mutant of WalkBound: nobody looks past the depth.                       *)
WalkBoundAsAsked(depth) == depth

(* "one level past it tells a walk that a deeper call would extend from    *)
(* one that ran out".                                                      *)
WalkBound(depth) == IF depth < MaxBlastDepth THEN depth + 1 ELSE depth

(* CallerWalk::start.                                                      *)
Started(seeds) ==
    LET rows == [id : seeds, depth : {0}, via : {0}]
    IN [EmptyWalk EXCEPT !.rows = rows, !.frontier = rows,
                         !.seen = [id : seeds, via : {0}, reached : {FALSE}]]

(* level_callers: a caller inherits how its row was reached, unless the    *)
(* step is a constructor's.                                                *)
LevelCallers(rows) ==
    UNION {{[caller |-> s.caller, depth |-> r.depth + 1, origin |-> s.origin, kept |-> s.kept,
             via |-> IF s.constructor THEN 1 ELSE r.via] :
               s \in {t \in graph.steps : t.origin = r.id}} : r \in rows}

(* Mutant of Level: a symbol counts as seen however it was reached.        *)
LevelOncePerSymbol(w) ==
    LET steps == {s \in LevelCallers(w.frontier) : s.kept}
        new   == {s \in steps : \A x \in w.seen : x.id # s.caller}
        rows  == {[id |-> s.caller, depth |-> s.depth, via |-> s.via] : s \in new}
    IN [rows |-> w.rows \cup rows, frontier |-> rows, depth |-> w.depth + 1,
        seen |-> w.seen \cup {[id |-> s.caller, via |-> s.via, reached |-> TRUE] : s \in new},
        expanded |-> w.expanded \cup {r.id : r \in w.frontier},
        called |-> w.called \cup {s.origin : s \in {t \in steps : t.caller # t.origin}}]

(* One level of CallerWalk::extend: "each symbol once per `via` at its     *)
(* least depth", and a seed once more when the walk comes back to it.      *)
Level(w) ==
    LET steps == {s \in LevelCallers(w.frontier) : s.kept}
        new   == {s \in steps : [id |-> s.caller, via |-> s.via, reached |-> TRUE] \notin w.seen}
        rows  == {[id |-> s.caller, depth |-> s.depth, via |-> s.via] : s \in new}
    IN [rows |-> w.rows \cup rows, frontier |-> rows, depth |-> w.depth + 1,
        seen |-> w.seen \cup {[id |-> s.caller, via |-> s.via, reached |-> TRUE] : s \in new},
        expanded |-> w.expanded \cup {r.id : r \in w.frontier},
        called |-> w.called \cup {s.origin : s \in {t \in steps : t.caller # t.origin}}]

CanExtend(bound) == graph.linked /\ walk.depth < bound /\ walk.frontier # {}

-----------------------------------------------------------------------------
(* What the walk found. *)

IsTestRole(s)  == graph.role[s] \in {"test", "fixture", "setup"}
OpenEndKind(s) == graph.role[s] = "code"

(* fixture_users: a fixture that takes the fixture passes its users on.    *)
Takers(s) == {t \in Symbols : <<s, t>> \in graph.serves}
FixtureUsers(s) ==
    LET closed == {set \in SUBSET Symbols :
                      s \in set /\ \A f \in set : graph.role[f] = "fixture" => Takers(f) \subseteq set}
        all    == CHOOSE set \in closed : \A other \in closed : set \subseteq other
    IN {t \in all : graph.role[t] = "test"}

(* The tests that stand for a fixture, or for a setup member (the tests of *)
(* its class); a fixture nobody takes stands for itself.                   *)
ServedBy(s) ==
    IF graph.role[s] = "fixture" THEN FixtureUsers(s) \ {s}
    ELSE {t \in Takers(s) : graph.role[t] = "test"}

StandsFor(s) ==
    IF graph.role[s] = "test" THEN {s}
    ELSE IF ServedBy(s) = {} THEN {s} ELSE ServedBy(s)

(* enclosing_walk_test: the nearest test around s, through scopes that are *)
(* no fixture or setup, listed or not, and no further than MaxScopes.      *)
ScopesOf(s) ==
    LET up[n \in 0..MaxScopes] ==
            IF n = 0 THEN s
            ELSE IF up[n - 1] = NoSymbol THEN NoSymbol ELSE graph.inside[up[n - 1]]
    IN up

EnclosingTests(s) ==
    LET up == ScopesOf(s)
        passes(n) == up[n] \in graph.scopes /\ graph.role[up[n]] \in {"code", "value", "low"}
    IN {up[n] : n \in {m \in 1..MaxScopes : /\ up[m] # NoSymbol /\ graph.role[up[m]] = "test"
                                            /\ \A k \in 1..(m - 1) : passes(k)}}

RowsOf(s) == {r \in walk.rows : r.id = s /\ r.depth > 0}
LeastOf(S) == Min(S)
DepthOf(s) == LeastOf({r.depth : r \in RowsOf(s)})
ViaOf(s)   == LeastOf({r.via : r \in RowsOf(s)})

(* A seed that is reached again counts only as a test.                     *)
Found == {s \in Symbols : /\ RowsOf(s) # {} /\ graph.role[s] # "low"
                          /\ s \in request.seeds => IsTestRole(s)}
Within(depth) == {s \in Found : DepthOf(s) <= depth}

(* The rows that are read: those within the depth, direct calls before     *)
(* constructor steps, near before far, and no more than the ceiling.       *)
Before(s, t) == ViaOf(s) < ViaOf(t) \/ (ViaOf(s) = ViaOf(t) /\ DepthOf(s) < DepthOf(t))
IsCut(shown, all) ==
    /\ Cardinality(shown) = LeastOf({RowCeiling, Cardinality(all)})
    /\ \A s \in shown, t \in all \ shown : ~Before(t, s)

SeedTests == {s \in request.seeds : IsTestRole(s)}

(* The tests of the shown rows, with the rows they stand for.              *)
TestsOf(s) == IF IsTestRole(s) THEN StandsFor(s) ELSE EnclosingTests(s)

(* Mutant of ConstructorOnly: one constructor step is enough.              *)
SomeConstructor(shown) == {t \in Symbols : \E s \in shown : t \in TestsOf(s) /\ ViaOf(s) = 1}

(* "Rows reached only this way sort last": tests with no other way.        *)
ConstructorOnly(shown) ==
    {t \in Symbols : /\ \E s \in shown : t \in TestsOf(s)
                     /\ \A s \in shown : t \in TestsOf(s) => ViaOf(s) = 1
                     /\ t \notin request.reported
                     /\ \A s \in SeedTests : t \notin StandsFor(s)}

(* A whole-file request folds the constructor-only tests of one file into  *)
(* one row when there are several.                                         *)
FoldedTests(shown) ==
    {t \in ConstructorOnly(shown) :
        /\ request.kind = "file"
        /\ \E u \in ConstructorOnly(shown) \ {t} : FileOf[u] = FileOf[t]}

LikelyTests(shown) ==
    (UNION {StandsFor(s) : s \in SeedTests}) \cup (UNION {TestsOf(s) : s \in shown})
        \cup request.reported

Impacted(shown) == {s \in shown : ~IsTestRole(s) /\ EnclosingTests(s) = {}}

Reached(shown) == {s \in request.seeds : ~IsTestRole(s) /\ OpenEndKind(s)}
                  \cup {s \in Impacted(shown) : OpenEndKind(s)}
-----------------------------------------------------------------------------
(* The request. *)

(* No request: for runs of another specification.                          *)
NoGraph == [linked |-> FALSE, steps |-> {}, role |-> [s \in Symbols |-> "code"],
            inside |-> [s \in Symbols |-> NoSymbol], scopes |-> {}, serves |-> {}]
WalkOff == /\ wphase = "off" /\ report = EmptyReport /\ walk = EmptyWalk
           /\ graph = NoGraph
           /\ request = [kind |-> "symbol", seeds |-> {}, reported |-> {}, depth |-> 1, probe |-> 0]

WalkInit ==
    /\ graph \in Graphs /\ request \in WalkRequests
    /\ walk = Started(request.seeds)
    /\ wphase = "walk" /\ report = EmptyReport

WalkOn ==
    /\ \/ wphase = "walk" /\ CanExtend(WalkBound(request.depth))
       \/ wphase = "probe" /\ CanExtend(WalkBound(request.probe))
    /\ walk' = Level(walk)
    /\ UNCHANGED <<graph, request, wphase, report>>

(* The next row after those of the depth shows that the walk could go on;  *)
(* at the ceiling nobody looks.                                            *)
Stopped(depth) == Cardinality(Within(depth)) <= RowCeiling /\ Found # Within(depth)
AtCeiling(depth) == Cardinality(Within(depth)) > RowCeiling

(* collect_walk at the depth that was asked for.                           *)
Collect ==
    /\ wphase = "walk" /\ ~CanExtend(WalkBound(request.depth))
    /\ \E shown \in SUBSET Within(request.depth) :
         /\ IsCut(shown, Within(request.depth))
         /\ report' = [report EXCEPT
                !.tests    = LikelyTests(shown) \ FoldedTests(shown),
                !.files    = {FileOf[t] : t \in FoldedTests(shown)},
                !.impacted = Impacted(shown),
                !.reached  = Reached(shown),
                !.stopped  = Stopped(request.depth),
                !.ceiling  = AtCeiling(request.depth)]
    /\ wphase' = IF Stopped(request.depth) /\ request.probe > request.depth THEN "probe" ELSE "ends"
    /\ UNCHANGED <<graph, request, walk>>

(* The tests past the depth: rows of the deeper collection that are not    *)
(* listed.                                                                 *)
CountPast ==
    /\ wphase = "probe" /\ ~CanExtend(WalkBound(request.probe))
    /\ \E shown \in SUBSET Within(request.probe) :
         /\ IsCut(shown, Within(request.probe))
         /\ report' = [report EXCEPT
                !.past    = (LikelyTests(shown) \ (FoldedTests(shown) \cup report.tests))
                            \cup ({FileOf[t] : t \in FoldedTests(shown)} \ report.files),
                !.reached = Reached(shown),
                !.pastCut = AtCeiling(request.probe)]
    /\ wphase' = "ends"
    /\ UNCHANGED <<graph, request, walk>>

(* Mutant of CalledNow: what the walk has not expanded counts as uncalled. *)
CalledWhenExpanded == walk.called

(* One more level for what was reached and not expanded.                   *)
CalledNow ==
    walk.called \cup {s.origin : s \in {t \in graph.steps :
        t.kept /\ t.caller # t.origin /\ t.origin \in report.reached \ walk.expanded}}

OpenEnds ==
    /\ wphase = "ends"
    /\ report' = [report EXCEPT !.ends = IF graph.linked THEN report.reached \ CalledNow ELSE {}]
    /\ wphase' = "done"
    /\ UNCHANGED <<graph, request, walk>>

WalkNext == WalkOn \/ Collect \/ CountPast \/ OpenEnds

WalkSpec == WalkInit /\ [][WalkNext]_walkVars

-----------------------------------------------------------------------------
(* Properties. *)

(* Reference: what a path of exactly n kept steps reaches, and whether one *)
(* of them was a constructor's.                                            *)
Longer(steps, ends) ==
    UNION {{<<s.caller, IF s.constructor THEN 1 ELSE e[2]>> :
              s \in {t \in steps : t.kept /\ t.origin = e[1]}} : e \in ends}
EndsFrom(steps, seeds) ==
    LET ends[n \in 0..MaxBlastDepth] ==
            IF n = 0 THEN seeds \X {0} ELSE Longer(steps, ends[n - 1])
    IN ends
PathEnds == EndsFrom(graph.steps, request.seeds)

(* "each symbol once per `via` at its least depth, so a symbol that        *)
(* several paths reach is expanded once": though a symbol is expanded once *)
(* per via, and cycles and seeds lead back into the walk, it has exactly   *)
(* the rows, at the depths, that all paths together give.                  *)
RowsAreShortestPaths ==
    wphase # "off" /\ graph.linked =>
        LET ends == PathEnds
            at(s, v) == {n \in 1..walk.depth : <<s, v>> \in ends[n]}
        IN {r \in walk.rows : r.depth > 0}
             = UNION {{[id |-> s, depth |-> LeastOf(at(s, v)), via |-> v] :
                         s \in {t \in Symbols : at(t, v) # {}}} : v \in {0, 1}}

Listed(t) == t \in report.tests \/ FileOf[t] \in report.files
LeftOut(t) == t \in report.past \/ FileOf[t] \in report.past

(* Past the depth stands a caller of the kind that is not listed: when it  *)
(* is the only one, the walk takes itself for one that ran out.            *)
RanIntoLow == /\ ~report.stopped
              /\ \E s \in Symbols : /\ graph.role[s] = "low" /\ RowsOf(s) # {}
                                     /\ DepthOf(s) = request.depth + 1

(* A test that calls what was asked about, by whatever path of at most the *)
(* asked number of steps, is listed, alone or with its file; one that does *)
(* so by a longer path within the probe is counted as left out.  Only the  *)
(* ceiling, which the report mentions, may lose a test, and a walk that    *)
(* ran into an unlisted caller just past its depth.                        *)
TestsAreListed ==
    wphase = "done" /\ graph.linked =>
        LET ends == PathEnds
            calls(t, n) == \E v \in {0, 1} : <<t, v>> \in ends[n]
        IN \A t \in Symbols : graph.role[t] = "test" =>
             /\ (\E n \in 1..request.depth : calls(t, n)) => Listed(t) \/ report.ceiling
             /\ (\E n \in 1..request.probe : calls(t, n))
                   => Listed(t) \/ LeftOut(t) \/ report.ceiling \/ report.pastCut \/ RanIntoLow

(* "{count} tests reach it only through a constructor": no test that is    *)
(* folded away has a path without a constructor's step within the depth.   *)
FoldedOnlyConstruct ==
    wphase = "done" /\ ~report.ceiling =>
        \A t \in Symbols : graph.role[t] = "test" /\ t \notin report.tests =>
            \A n \in 1..request.depth : <<t, 0>> \notin PathEnds[n]

(* "The reached symbols that no caller step of the walk leaves, other than *)
(* through a call to themselves": whether a symbol was expanded, is the    *)
(* last level or was found by the probe, it is an open end exactly when    *)
(* nobody else calls it.                                                   *)
OpenEndsAreUncalled ==
    wphase = "done" /\ graph.linked =>
        report.ends = {s \in report.reached :
            \A t \in graph.steps : t.origin = s /\ t.kept => t.caller = s}
=============================================================================
