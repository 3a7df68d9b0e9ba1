-------------------------------- MODULE MCParts --------------------------------
(* The parts that share no state with another, for TLC: a behaviour is that *)
(* of one of them, which `part` names, while the other modules stand still. *)
EXTENDS Registrations, Launcher, BlastRadius, MCEditCheck, ReportSites, TLC

CONSTANTS d, e, c, i1, i2, i3

MCPaths == {d, e, c}
MCParent == (d :> None) @@ (e :> None) @@ (c :> d)
MCName == (d :> "d") @@ (e :> "e") @@ (c :> "c")
MCIds == {i1, i2, i3}
MCSymmetry == Permutations(MCIds)

CONSTANTS l1, l2, l3, s0, s1, s2, s3, s4

MCLaunches == {l1, l2, l3}
MCVersions == 1..3
MCVersion  == l1 :> 1 @@ l2 :> 2 @@ l3 :> 2

MCSymbols == {s0, s1, s2, s3, s4}
MCFileOf  == s0 :> "f" @@ s1 :> "g" @@ s2 :> "t" @@ s3 :> "t" @@ s4 :> "t"
MCPairs == {<<s0, s1>>, <<s0, s2>>, <<s0, s3>>, <<s1, s1>>, <<s1, s2>>, <<s1, s3>>, <<s2, s3>>, <<s2, s0>>}
MCLinks == [constructor : BOOLEAN, kept : BOOLEAN] \ {[constructor |-> TRUE, kept |-> FALSE]}
MCBlastPairs == {<<s0, s0>>, <<s0, s1>>, <<s1, s2>>, <<s2, s4>>, <<s1, s0>>, <<s2, s3>>, <<s3, s4>>}
MCPlainLink == [constructor |-> FALSE, kept |-> TRUE]
MCStep(o, to, l) == [origin |-> o, caller |-> to, constructor |-> l.constructor, kept |-> l.kept]
MCStepSets(most) ==
    UNION {{{MCStep(p[1], p[2], link[p]) : p \in pairs} : link \in [pairs -> MCLinks]} :
             pairs \in {ps \in SUBSET MCPairs : Cardinality(ps) <= most}}
MCInTest == s0 :> NoSymbol @@ s1 :> s3 @@ s2 :> NoSymbol @@ s3 :> NoSymbol @@ s4 :> NoSymbol
MCGraph(steps, r2) ==
    [linked |-> TRUE, steps |-> steps,
     role |-> s0 :> "code" @@ s1 :> "code" @@ s2 :> r2 @@ s3 :> "test" @@ s4 :> "test",
     inside |-> MCInTest, scopes |-> MCSymbols,
     serves |-> {<<s2, s3>>, <<s2, s4>>}]
MCNested(steps, kinds) ==
    [MCGraph(steps, "low") EXCEPT !.inside = [MCInTest EXCEPT ![s1] = s2, ![s2] = s3], !.scopes = kinds]
MCGraphs == {MCGraph(steps, "code") : steps \in MCStepSets(3)}
              \cup {MCGraph(steps, r2) : steps \in MCStepSets(2), r2 \in {"test", "fixture"}}
              \cup {MCNested({MCStep(p[1], p[2], MCPlainLink) : p \in pairs}, kinds) :
                      pairs \in {ps \in SUBSET MCBlastPairs : Cardinality(ps) <= 3},
                      kinds \in {MCSymbols, MCSymbols \ {s2}}}
MCRequests == {[kind |-> k, seeds |-> {s0}, reported |-> {}, depth |-> far, probe |-> 3] :
                 k \in {"symbol", "file"}, far \in {1, 2}}

MCBlastGraphs ==
    {[linked |-> TRUE, role |-> [s \in MCSymbols |-> IF s = s4 THEN "test" ELSE "code"],
      steps |-> {MCStep(p[1], p[2], MCPlainLink) : p \in pairs},
      inside |-> [s \in MCSymbols |-> NoSymbol], scopes |-> MCSymbols, serves |-> {}] :
        pairs \in {ps \in SUBSET MCBlastPairs : Cardinality(ps) <= 4}}
MCTies(most) == {ties \in SUBSET ([by : {"call", "read"}, caller : {s2, s4}]
                              \cup [by : {"read"}, caller : {s1}]
                              \cup [by : {"name"}, caller : {s2, NoSymbol}]) : Cardinality(ties) <= most}
MCQuestion(k, far, ties) ==
    [kind |-> k, depth |-> far, seeds |-> {s0}, targets |-> {s0},
     overloaded |-> IF k = "file" THEN {} ELSE {s0},
     ties |-> s0 :> ties @@ [s \in MCSymbols |-> {}]]
MCQuestions ==
    UNION {{MCQuestion(k, far, ties) : k \in {"symbol", "file", "diff"}, ties \in MCTies(far)} : far \in {1, 2}}

MCPlainRow == [early |-> "none", chain |-> "none", alone |-> "none", claim |-> "none", based |-> "proven",
               after |-> "none", taken |-> {}, rivals |-> {1}, late |-> "none",
               misfit |-> FALSE, overload |-> FALSE, bound |-> FALSE]
MCShortRows == {MCPlainRow, [MCPlainRow EXCEPT !.claim = "based"], [MCPlainRow EXCEPT !.taken = {2}]}
MCRows ==
    MCShortRows \cup
    {[MCPlainRow EXCEPT !.rivals = {}],
     [MCPlainRow EXCEPT !.taken = {1, 3}, !.late = "excluded"],
     [MCPlainRow EXCEPT !.claim = "based", !.misfit = TRUE],
     [MCPlainRow EXCEPT !.claim = "based", !.bound = TRUE],
     [MCPlainRow EXCEPT !.claim = "based", !.chain = "unknown", !.taken = {3}],
     [MCPlainRow EXCEPT !.claim = "held", !.taken = {2}],
     [MCPlainRow EXCEPT !.claim = "bare", !.overload = TRUE],
     [MCPlainRow EXCEPT !.claim = "unless"],
     [MCPlainRow EXCEPT !.claim = "unless", !.rivals = {}],
     [MCPlainRow EXCEPT !.chain = "unknown", !.late = "likely"],
     [MCPlainRow EXCEPT !.chain = "differs"], [MCPlainRow EXCEPT !.chain = "reaches"],
     [MCPlainRow EXCEPT !.early = "excluded"], [MCPlainRow EXCEPT !.alone = "unresolved"],
     [MCPlainRow EXCEPT !.after = "excluded"]}
MCNamedRows == [rows : TupleOf(MCRows, 2) \cup TupleOf(MCShortRows, 3), others : {3}]
               \cup [rows : TupleOf({MCPlainRow, [MCPlainRow EXCEPT !.claim = "bare", !.taken = {1}]}, 3), others : {1, 2}]

VARIABLE part

WatchOff == Init /\ present = {} /\ RegOff
WalksOff == WalkOff /\ BlastOff
TextOff == CheckOff /\ ReportOff
MCInit ==
    \/ part = "debouncer" /\ Init /\ RegOff /\ LauncherOff /\ WalksOff /\ TextOff
    \/ part = "folders" /\ RegInit /\ LauncherOff /\ WalksOff /\ TextOff
    \/ part = "launches" /\ WatchOff /\ LauncherInit /\ WalksOff /\ TextOff
    \/ part = "walk" /\ WatchOff /\ LauncherOff /\ WalkInit /\ BlastOff /\ TextOff
    \/ part = "question" /\ WatchOff /\ LauncherOff /\ BlastInit /\ TextOff
    \/ part = "edit" /\ WatchOff /\ LauncherOff /\ WalksOff /\ CheckInit /\ ReportOff
    \/ part = "report" /\ WatchOff /\ LauncherOff /\ WalksOff /\ CheckOff /\ ReportInit

regOwnVars == <<id, watch, believed, walking, feed, failed, outdated, troubles>>
questionVars == <<asked, stage, answer>>
textVars == <<checkVars, reportVars>>
MCNext ==
    /\ UNCHANGED part
    /\ \/ part = "debouncer" /\ Next /\ UNCHANGED <<regOwnVars, launchVars, blastVars, textVars>>
       \/ part = "folders" /\ RegNext /\ UNCHANGED <<launchVars, blastVars, textVars>>
       \/ part = "launches" /\ LauncherNext /\ UNCHANGED <<regVars, blastVars, textVars>>
       \/ part = "walk" /\ WalkNext /\ UNCHANGED <<regVars, launchVars, questionVars, textVars>>
       \/ part = "question" /\ BlastNext /\ UNCHANGED <<regVars, launchVars, textVars>>
       \/ part = "edit" /\ CheckNext /\ UNCHANGED <<regVars, launchVars, blastVars, reportVars>>
       \/ part = "report" /\ ReportNext /\ UNCHANGED <<regVars, launchVars, blastVars, checkVars>>
MCSpec == MCInit /\ [][MCNext]_<<part, regVars, launchVars, blastVars, textVars>>
=============================================================================
