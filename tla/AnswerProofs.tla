----------------------------- MODULE AnswerProofs -----------------------------
(***************************************************************************)
(* Proofs about the answers that are put together in several passes, for   *)
(* every index, request and bound: the walk over the calls (CallerWalk),   *)
(* what discover_blast_radius makes of it (BlastRadius), and the labels of *)
(* the rows of a name against the clock (ReportSites).                     *)
(***************************************************************************)
EXTENDS BlastRadius, ReportSites, FiniteSetTheorems, NaturalsInduction, TLAPS

USE WalkBoundsAssumption, WalkDataAssumption, WalkInputAssumption

-----------------------------------------------------------------------------
(* Least elements, and what reaches every natural. *)

(* A nonempty set of naturals has a least element.                         *)
LEMMA LeastNat ==
    ASSUME NEW S \in SUBSET Nat, S # {}
    PROVE  Min(S) \in S /\ \A y \in S : Min(S) <= y
<1>1. IsWellFoundedOn(OpToRel(<, Nat), Nat)
  BY NatLessThanWellFounded
<1>2. PICK x \in S : \A y \in S : <<y, x>> \notin OpToRel(<, Nat)
  BY <1>1, WFMin
<1>3. ASSUME NEW y \in S PROVE x <= y
  <2>1. y \in Nat /\ x \in Nat
    OBVIOUS
  <2>2. ~(y < x)
    BY <1>2, <2>1 DEF OpToRel
  <2>3. QED
    BY <2>1, <2>2
<1>4. QED
  BY <1>3 DEF Min

(* A set of naturals with zero and every successor holds all naturals.     *)
LEMMA SetInduction ==
    ASSUME NEW T, 0 \in T, \A n \in Nat : n \in T => n + 1 \in T
    PROVE  \A n \in Nat : n \in T
<1> DEFINE S == {n \in Nat : n \notin T}
<1>1. SUFFICES ASSUME S # {} PROVE FALSE
  OBVIOUS
<1>2. PICK m \in S : \A y \in S : m <= y
  <2> HIDE DEF S
  <2>1. S \in SUBSET Nat
    BY DEF S
  <2>2. QED
    BY <1>1, <2>1, LeastNat
<1>3. m \in Nat /\ m # 0 /\ m \notin T
  OBVIOUS
<1>4. m - 1 \in Nat /\ m - 1 < m /\ (m - 1) + 1 = m
  BY <1>3
<1>5. m - 1 \in T
  BY <1>2, <1>4
<1>6. QED
  BY <1>3, <1>4, <1>5

(* What is computed from step to step exists.                              *)
LEMMA Iteration ==
    ASSUME NEW S, NEW c \in S, NEW N \in Nat, NEW F \in [1..N -> [S -> S]]
    PROVE  \E f \in [0..N -> S] : f[0] = c /\ \A k \in 1..N : f[k] = F[k][f[k - 1]]
<1> DEFINE Is(f, n) == f[0] = c /\ \A k \in 1..n : f[k] = F[k][f[k - 1]]
           T == {n \in Nat : n <= N => \E f \in [0..n -> S] : Is(f, n)}
<1>1. 0 \in T
  <2>1. [k \in 0..0 |-> c] \in [0..0 -> S] /\ Is([k \in 0..0 |-> c], 0)
    OBVIOUS
  <2>2. QED
    BY <2>1
<1>2. ASSUME NEW n \in Nat, n \in T PROVE n + 1 \in T
  <2>1. SUFFICES ASSUME n + 1 <= N PROVE \E f \in [0..(n + 1) -> S] : Is(f, n + 1)
    <3> HIDE DEF Is
    <3>1. QED
      OBVIOUS
  <2>2. PICK f \in [0..n -> S] : Is(f, n)
    BY <1>2, <2>1
  <2> DEFINE g == [k \in 0..(n + 1) |-> IF k = n + 1 THEN F[n + 1][f[n]] ELSE f[k]]
  <2>3. f[n] \in S /\ n + 1 \in 1..N
    BY <2>1
  <2>4. g \in [0..(n + 1) -> S]
    BY <2>3
  <2>5. ASSUME NEW k \in 1..(n + 1) PROVE g[k] = F[k][g[k - 1]]
    <3>1. CASE k = n + 1
      BY <3>1
    <3>2. CASE k # n + 1
      <4>1. k \in 1..n /\ g[k] = f[k] /\ g[k - 1] = f[k - 1]
        BY <3>2
      <4>2. QED
        BY <2>2, <4>1
    <3>3. QED
      BY <3>1, <3>2
  <2>6. g[0] = c
    BY <2>2
  <2> HIDE DEF g
  <2>7. QED
    BY <2>4, <2>5, <2>6
<1>3. N \in T
  <2> HIDE DEF T
  <2>1. QED
    BY <1>1, <1>2, SetInduction
<1>4. QED
  BY <1>3

-----------------------------------------------------------------------------
(* Paths of exact length. *)

Place == Symbols \X {0, 1}

LEMMA LongerType ==
    ASSUME NEW steps \in SUBSET StepSet, NEW ends \in SUBSET Place
    PROVE  Longer(steps, ends) \in SUBSET Place
BY DEF Longer, StepSet, Place

(* The recursion of EndsFrom is well defined.                              *)
LEMMA EndsFromDef ==
    ASSUME NEW steps \in SUBSET StepSet, NEW seeds \in SUBSET Symbols
    PROVE  /\ EndsFrom(steps, seeds) \in [0..MaxBlastDepth -> SUBSET Place]
           /\ EndsFrom(steps, seeds)[0] = seeds \X {0}
           /\ \A n \in 1..MaxBlastDepth :
                EndsFrom(steps, seeds)[n] = Longer(steps, EndsFrom(steps, seeds)[n - 1])
<1> DEFINE Is(f) == f = [n \in 0..MaxBlastDepth |-> IF n = 0 THEN seeds \X {0}
                                                    ELSE Longer(steps, f[n - 1])]
           F == [k \in 1..MaxBlastDepth |-> [x \in SUBSET Place |-> Longer(steps, x)]]
           e == EndsFrom(steps, seeds)
<1>1. seeds \X {0} \in SUBSET Place
  BY DEF Place
<1>2. F \in [1..MaxBlastDepth -> [SUBSET Place -> SUBSET Place]]
  BY LongerType
<1>3. PICK f \in [0..MaxBlastDepth -> SUBSET Place] :
        f[0] = seeds \X {0} /\ \A k \in 1..MaxBlastDepth : f[k] = F[k][f[k - 1]]
  <2> DEFINE S == SUBSET Place
             c == seeds \X {0}
             N == MaxBlastDepth
  <2>1. N \in Nat
    OBVIOUS
  <2>2. c \in S
    BY <1>1
  <2>3. F \in [1..N -> [S -> S]]
    BY <1>2
  <2> HIDE DEF F, S, c, N
  <2>4. \E f \in [0..N -> S] : f[0] = c /\ \A k \in 1..N : f[k] = F[k][f[k - 1]]
    BY <2>1, <2>2, <2>3, Iteration, Z3T(30)
  <2>5. QED
    BY <2>4 DEF S, c, N
<1>4. ASSUME NEW k \in 1..MaxBlastDepth PROVE f[k] = Longer(steps, f[k - 1])
  <2>1. f[k - 1] \in SUBSET Place
    BY <1>3
  <2>2. F[k][f[k - 1]] = Longer(steps, f[k - 1])
    BY <2>1
  <2> HIDE DEF F
  <2>3. QED
    BY <1>3, <2>2
<1>5. Is(f)
  BY <1>3, <1>4
<1>6. Is(e)
  BY <1>5 DEF EndsFrom
<1>7. \A n \in 0..MaxBlastDepth :
        e[n] = IF n = 0 THEN seeds \X {0} ELSE Longer(steps, e[n - 1])
  <2> HIDE DEF e
  <2>1. QED
    BY <1>6 DEF e
<1> DEFINE U == {n \in Nat : n <= MaxBlastDepth => e[n] \in SUBSET Place}
<1>8. 0 \in U
  BY <1>1, <1>7
<1>9. ASSUME NEW n \in Nat, n \in U PROVE n + 1 \in U
  BY <1>7, <1>9, LongerType
<1>10. \A n \in Nat : n \in U
  <2> HIDE DEF U
  <2>1. QED
    BY <1>8, <1>9, SetInduction
<1>11. e \in [0..MaxBlastDepth -> SUBSET Place]
  BY <1>6, <1>10
<1>12. QED
  BY <1>7, <1>11

-----------------------------------------------------------------------------
(* The walk has exactly the rows that paths give. *)

RowAt(s, n, v) == [id |-> s, depth |-> n, via |-> v]

(* No path of 1 to n - 1 steps leads to this place.                        *)
IsNew(p, n) == \A m \in 1..(n - 1) : p \notin PathEnds[m]

FileNames == {FileOf[s] : s \in Symbols}
ReportSet ==
    [tests : SUBSET Symbols, files : SUBSET FileNames, impacted : SUBSET Symbols,
     reached : SUBSET Symbols, ends : SUBSET Symbols, ceiling : BOOLEAN, stopped : BOOLEAN,
     past : SUBSET (Symbols \cup FileNames), pastCut : BOOLEAN]

WalkTyped ==
    /\ IsIndex(graph) /\ request \in RequestSet
    /\ wphase \in {"walk", "probe", "ends", "done"}
    /\ walk.depth \in 0..MaxBlastDepth
    /\ walk.rows \subseteq [id : Symbols, depth : 0..MaxBlastDepth, via : {0, 1}]
    /\ report \in ReportSet

(* What each level holds, which rows are expanded next, and what is seen.  *)
RowsArePaths ==
    /\ \A r \in walk.rows : r.depth <= walk.depth
    /\ \A p \in Place : RowAt(p[1], 0, p[2]) \in walk.rows <=> p \in PathEnds[0]
    /\ \A p \in Place : \A n \in 1..walk.depth :
         RowAt(p[1], n, p[2]) \in walk.rows <=> p \in PathEnds[n] /\ IsNew(p, n)
FrontierIsLast == walk.frontier = {r \in walk.rows : r.depth = walk.depth}
SeenIsReached ==
    \A p \in Place : [id |-> p[1], via |-> p[2], reached |-> TRUE] \in walk.seen
                        <=> \E n \in 1..walk.depth : p \in PathEnds[n]

(* What is known to be called is what was expanded and has a caller.       *)
IsCalled(s) == \E t \in graph.steps : t.origin = s /\ t.kept /\ t.caller # s
CalledIsExpanded ==
    /\ walk.expanded \subseteq Symbols
    /\ walk.called = {s \in walk.expanded : IsCalled(s)}

LevelsInv == RowsArePaths /\ FrontierIsLast /\ SeenIsReached /\ CalledIsExpanded

LEMMA PathEndsDef ==
    ASSUME IsIndex(graph), request \in RequestSet
    PROVE  /\ PathEnds \in [0..MaxBlastDepth -> SUBSET Place]
           /\ PathEnds[0] = request.seeds \X {0}
           /\ \A n \in 1..MaxBlastDepth : PathEnds[n] = Longer(graph.steps, PathEnds[n - 1])
<1>1. graph.steps \in SUBSET StepSet /\ request.seeds \in SUBSET Symbols
  BY DEF IsIndex, GraphSet, RequestSet
<1>2. QED
  BY <1>1, EndsFromDef DEF PathEnds

(* One step more: to whom, and from where.                                 *)
LEMMA OneStep ==
    ASSUME IsIndex(graph), request \in RequestSet, NEW n \in 0..(MaxBlastDepth - 1),
           NEW p \in Place
    PROVE  p \in PathEnds[n + 1] <=>
             \E q \in PathEnds[n], t \in graph.steps :
               /\ t.kept /\ t.origin = q[1] /\ t.caller = p[1]
               /\ p[2] = IF t.constructor THEN 1 ELSE q[2]
<1>1. PathEnds[n + 1] = Longer(graph.steps, PathEnds[n])
  <2>1. n + 1 \in 1..MaxBlastDepth /\ (n + 1) - 1 = n
    OBVIOUS
  <2>2. QED
    BY <2>1, PathEndsDef
<1>2. p = <<p[1], p[2]>>
  BY DEF Place
<1>3. p \in Longer(graph.steps, PathEnds[n]) <=>
        \E q \in PathEnds[n] : \E t \in graph.steps :
          t.kept /\ t.origin = q[1] /\ p = <<t.caller, IF t.constructor THEN 1 ELSE q[2]>>
  BY DEF Longer
<1>4. QED
  BY <1>1, <1>2, <1>3

(* A walk that begins.                                                     *)
LEMMA StartedLevels ==
    ASSUME IsIndex(graph), request \in RequestSet, walk = Started(request.seeds)
    PROVE  /\ LevelsInv
           /\ walk.depth = 0
           /\ walk.rows \subseteq [id : Symbols, depth : 0..MaxBlastDepth, via : {0, 1}]
<1> DEFINE rows == [id : request.seeds, depth : {0}, via : {0}]
<1>1. /\ walk.rows = rows /\ walk.frontier = rows /\ walk.depth = 0
      /\ walk.expanded = {} /\ walk.called = {}
      /\ walk.seen = [id : request.seeds, via : {0}, reached : {FALSE}]
  BY DEF Started, EmptyWalk
<1>2. PathEnds[0] = request.seeds \X {0}
  BY PathEndsDef
<1>3. request.seeds \subseteq Symbols
  BY DEF RequestSet
<1>4. RowsArePaths
  <2>1. \A p \in Place : RowAt(p[1], 0, p[2]) \in rows <=> p \in request.seeds \X {0}
    BY DEF RowAt, Place
  <2>2. 1..walk.depth = {}
    BY <1>1
  <2>3. QED
    BY <1>1, <1>2, <2>1, <2>2 DEF RowsArePaths
<1>5. FrontierIsLast
  BY <1>1 DEF FrontierIsLast
<1>6. SeenIsReached
  BY <1>1 DEF SeenIsReached
<1>7. CalledIsExpanded
  BY <1>1 DEF CalledIsExpanded
<1>8. QED
  BY <1>1, <1>3, <1>4, <1>5, <1>6, <1>7 DEF LevelsInv

(* A row of the last level stands for a place that paths of its length     *)
(* reach, and has the form of a row.                                       *)
LEMMA FrontierPlaces ==
    ASSUME WalkTyped, LevelsInv, NEW r \in walk.frontier
    PROVE  /\ <<r.id, r.via>> \in Place
           /\ <<r.id, r.via>> \in PathEnds[walk.depth]
<1>1. r \in walk.rows /\ r.depth = walk.depth
  BY DEF LevelsInv, FrontierIsLast
<1>2. r \in [id : Symbols, depth : 0..MaxBlastDepth, via : {0, 1}]
  BY <1>1 DEF WalkTyped
<1> DEFINE q == <<r.id, r.via>>
<1>3. q \in Place /\ q[1] = r.id /\ q[2] = r.via
  BY <1>2 DEF Place
<1>4. RowAt(q[1], walk.depth, q[2]) = r
  BY <1>1, <1>2, <1>3 DEF RowAt
<1>5. walk.depth = 0 \/ walk.depth \in 1..walk.depth
  BY DEF WalkTyped
<1> HIDE DEF q
<1>6. q \in PathEnds[walk.depth]
  BY <1>1, <1>3, <1>4, <1>5 DEF LevelsInv, RowsArePaths
<1>7. QED
  BY <1>3, <1>6 DEF q

(* The places that one more level adds are those of the last level's steps *)
(* that no shorter path leads to.                                          *)
LEMMA NewPlaces ==
    ASSUME WalkTyped, LevelsInv, walk.depth < MaxBlastDepth, NEW p \in Place
    PROVE  p \in PathEnds[walk.depth + 1] /\ IsNew(p, walk.depth + 1)
             <=> /\ \A m \in 1..walk.depth : p \notin PathEnds[m]
                 /\ \E r \in walk.frontier, t \in graph.steps :
                      /\ t.kept /\ t.origin = r.id /\ t.caller = p[1]
                      /\ p[2] = IF t.constructor THEN 1 ELSE r.via
<1> DEFINE d == walk.depth
<1>1. /\ IsIndex(graph) /\ request \in RequestSet /\ MaxBlastDepth \in Nat
      /\ d \in 0..(MaxBlastDepth - 1) /\ d \in Nat /\ (d + 1) - 1 = d
  BY DEF WalkTyped
<1>2. IsNew(p, d + 1) <=> \A m \in 1..d : p \notin PathEnds[m]
  BY <1>1 DEF IsNew
<1>3. ASSUME NEW r \in walk.frontier, NEW t \in graph.steps,
             t.kept, t.origin = r.id, t.caller = p[1],
             p[2] = IF t.constructor THEN 1 ELSE r.via
      PROVE  p \in PathEnds[d + 1]
  <2>1. <<r.id, r.via>> \in PathEnds[d]
    BY FrontierPlaces
  <2>2. <<r.id, r.via>>[1] = r.id /\ <<r.id, r.via>>[2] = r.via
    OBVIOUS
  <2>3. QED
    BY <1>1, <1>3, <2>1, <2>2, OneStep
<1>4. ASSUME p \in PathEnds[d + 1], \A m \in 1..d : p \notin PathEnds[m]
      PROVE  \E r \in walk.frontier, t \in graph.steps :
               /\ t.kept /\ t.origin = r.id /\ t.caller = p[1]
               /\ p[2] = IF t.constructor THEN 1 ELSE r.via
  <2>1. PICK q \in PathEnds[d], t \in graph.steps :
          /\ t.kept /\ t.origin = q[1] /\ t.caller = p[1]
          /\ p[2] = IF t.constructor THEN 1 ELSE q[2]
    BY <1>1, <1>4, OneStep
  <2>2. q \in Place
    BY <1>1, PathEndsDef
  <2>3. ASSUME NEW m \in 1..(d - 1), q \in PathEnds[m] PROVE FALSE
    <3>1. m \in 0..(MaxBlastDepth - 1) /\ m + 1 \in 1..d
      BY <1>1
    <3>2. p \in PathEnds[m + 1]
      BY <1>1, <2>1, <2>3, <3>1, OneStep
    <3>3. QED
      BY <1>4, <3>1, <3>2
  <2>4. RowAt(q[1], d, q[2]) \in walk.rows
    <3>1. CASE d = 0
      BY <2>1, <2>2, <3>1 DEF LevelsInv, RowsArePaths
    <3>2. CASE d # 0
      <4>1. d \in 1..walk.depth
        BY <1>1, <3>2
      <4>2. IsNew(q, d)
        BY <2>3 DEF IsNew
      <4>3. QED
        BY <2>1, <2>2, <4>1, <4>2 DEF LevelsInv, RowsArePaths
    <3>3. QED
      BY <3>1, <3>2
  <2>5. RowAt(q[1], d, q[2]) \in walk.frontier
    BY <2>4 DEF LevelsInv, FrontierIsLast, RowAt
  <2>6. RowAt(q[1], d, q[2]).id = q[1] /\ RowAt(q[1], d, q[2]).via = q[2]
    BY DEF RowAt
  <2>7. QED
    BY <2>1, <2>5, <2>6
<1>5. QED
  BY <1>2, <1>3, <1>4

(* A caller step of the last level, as the walk computes it.               *)
LEMMA LevelSteps ==
    ASSUME NEW rows, NEW s
    PROVE  s \in LevelCallers(rows) <=>
             \E r \in rows, t \in graph.steps :
               /\ t.origin = r.id
               /\ s = [caller |-> t.caller, depth |-> r.depth + 1, origin |-> t.origin,
                       kept |-> t.kept, via |-> IF t.constructor THEN 1 ELSE r.via]
BY DEF LevelCallers

Kept == {s \in LevelCallers(walk.frontier) : s.kept}
New  == {s \in Kept : [id |-> s.caller, via |-> s.via, reached |-> TRUE] \notin walk.seen}
NewRows == {[id |-> s.caller, depth |-> s.depth, via |-> s.via] : s \in New}

LEMMA KeptSteps ==
    ASSUME WalkTyped, LevelsInv, NEW s \in Kept
    PROVE  /\ s.depth = walk.depth + 1 /\ <<s.caller, s.via>> \in Place
           /\ \E r \in walk.frontier, t \in graph.steps :
                /\ t.kept /\ t.origin = r.id /\ t.caller = s.caller /\ s.origin = r.id
                /\ s.via = IF t.constructor THEN 1 ELSE r.via
<1>1. PICK r \in walk.frontier, t \in graph.steps :
        /\ t.origin = r.id
        /\ s = [caller |-> t.caller, depth |-> r.depth + 1, origin |-> t.origin,
                kept |-> t.kept, via |-> IF t.constructor THEN 1 ELSE r.via]
  BY LevelSteps DEF Kept
<1>2. s.kept
  BY DEF Kept
<1>3. r.depth = walk.depth /\ r.via \in {0, 1}
  BY FrontierPlaces DEF LevelsInv, FrontierIsLast, Place
<1>4. t \in StepSet
  BY DEF WalkTyped, IsIndex, GraphSet
<1>5. t.caller \in Symbols
  BY <1>4 DEF StepSet
<1>6. QED
  BY <1>1, <1>2, <1>3, <1>5 DEF Place

LEMMA StepIsKept ==
    ASSUME WalkTyped, LevelsInv, NEW r \in walk.frontier, NEW t \in graph.steps,
           t.kept, t.origin = r.id
    PROVE  \E s \in Kept : /\ s.caller = t.caller /\ s.origin = r.id
                           /\ s.via = IF t.constructor THEN 1 ELSE r.via
<1> DEFINE s == [caller |-> t.caller, depth |-> r.depth + 1, origin |-> t.origin,
                 kept |-> t.kept, via |-> IF t.constructor THEN 1 ELSE r.via]
<1>1. s \in LevelCallers(walk.frontier)
  BY LevelSteps
<1>2. s \in Kept
  BY <1>1 DEF Kept
<1>3. QED
  BY <1>2

(* The rows that a level adds.                                             *)
LEMMA NewRowsAre ==
    ASSUME WalkTyped, LevelsInv, walk.depth < MaxBlastDepth
    PROVE  /\ NewRows \subseteq [id : Symbols, depth : {walk.depth + 1}, via : {0, 1}]
           /\ \A p \in Place : RowAt(p[1], walk.depth + 1, p[2]) \in NewRows <=>
                p \in PathEnds[walk.depth + 1] /\ IsNew(p, walk.depth + 1)
           /\ \A p \in Place :
                (\E s \in New : s.caller = p[1] /\ s.via = p[2]) <=>
                p \in PathEnds[walk.depth + 1] /\ IsNew(p, walk.depth + 1)
<1>1. \A s \in New : /\ s \in Kept /\ s.depth = walk.depth + 1
                     /\ s.caller \in Symbols /\ s.via \in {0, 1}
  BY KeptSteps DEF New, Place
<1>2. NewRows \subseteq [id : Symbols, depth : {walk.depth + 1}, via : {0, 1}]
  BY <1>1 DEF NewRows
<1>3. ASSUME NEW p \in Place
      PROVE  (\E s \in New : s.caller = p[1] /\ s.via = p[2]) <=>
                p \in PathEnds[walk.depth + 1] /\ IsNew(p, walk.depth + 1)
  <2>1. [id |-> p[1], via |-> p[2], reached |-> TRUE] \notin walk.seen
          <=> \A m \in 1..walk.depth : p \notin PathEnds[m]
    BY DEF LevelsInv, SeenIsReached
  <2>2. ASSUME NEW s \in New, s.caller = p[1], s.via = p[2]
        PROVE  /\ \A m \in 1..walk.depth : p \notin PathEnds[m]
               /\ \E r \in walk.frontier, t \in graph.steps :
                    /\ t.kept /\ t.origin = r.id /\ t.caller = p[1]
                    /\ p[2] = IF t.constructor THEN 1 ELSE r.via
    <3>1. s \in Kept
      BY <1>1
    <3>2. PICK r \in walk.frontier, t \in graph.steps :
            /\ t.kept /\ t.origin = r.id /\ t.caller = s.caller
            /\ s.via = IF t.constructor THEN 1 ELSE r.via
      BY <3>1, KeptSteps
    <3>3. [id |-> p[1], via |-> p[2], reached |-> TRUE] \notin walk.seen
      BY <2>2 DEF New
    <3>4. QED
      BY <2>1, <2>2, <3>2, <3>3
  <2>3. ASSUME \A m \in 1..walk.depth : p \notin PathEnds[m],
               NEW r \in walk.frontier, NEW t \in graph.steps,
               t.kept, t.origin = r.id, t.caller = p[1],
               p[2] = IF t.constructor THEN 1 ELSE r.via
        PROVE  \E s \in New : s.caller = p[1] /\ s.via = p[2]
    <3>1. PICK s \in Kept : s.caller = p[1] /\ s.via = p[2]
      BY <2>3, StepIsKept
    <3>2. s \in New
      BY <2>1, <2>3, <3>1 DEF New
    <3>3. QED
      BY <3>1, <3>2
  <2>4. QED
    BY <2>2, <2>3, NewPlaces
<1>4. ASSUME NEW p \in Place
      PROVE  RowAt(p[1], walk.depth + 1, p[2]) \in NewRows <=>
               \E s \in New : s.caller = p[1] /\ s.via = p[2]
  BY <1>1 DEF NewRows, RowAt
<1>5. QED
  BY <1>2, <1>3, <1>4

(* One more level.                                                         *)
LEMMA LevelKeeps ==
    ASSUME WalkTyped, LevelsInv, walk.depth < MaxBlastDepth,
           walk' = Level(walk), UNCHANGED <<graph, request>>
    PROVE  /\ LevelsInv' /\ walk'.depth = walk.depth + 1
           /\ walk'.rows \subseteq [id : Symbols, depth : 0..MaxBlastDepth, via : {0, 1}]
<1> DEFINE d == walk.depth
<1>1. /\ walk'.rows = walk.rows \cup NewRows /\ walk'.frontier = NewRows
      /\ walk'.depth = d + 1
      /\ walk'.seen = walk.seen \cup
             {[id |-> s.caller, via |-> s.via, reached |-> TRUE] : s \in New}
      /\ walk'.expanded = walk.expanded \cup {r.id : r \in walk.frontier}
      /\ walk'.called = walk.called \cup {s.origin : s \in {t \in Kept : t.caller # t.origin}}
  BY DEF Level, NewRows, New, Kept
<1>2. PathEnds' = PathEnds
  BY DEF PathEnds
<1>3. d \in 0..(MaxBlastDepth - 1) /\ d \in Nat /\ MaxBlastDepth \in Nat
  BY DEF WalkTyped
<1>4. \A r \in NewRows : r.depth = d + 1 /\ r.id \in Symbols /\ r.via \in {0, 1}
  BY NewRowsAre
<1>5. \A r \in walk.rows : r.depth \in 0..d
  BY <1>3 DEF LevelsInv, RowsArePaths, WalkTyped
<1>6. walk'.rows \subseteq [id : Symbols, depth : 0..MaxBlastDepth, via : {0, 1}]
  BY <1>1, <1>3, NewRowsAre DEF WalkTyped
<1>7. RowsArePaths'
  <2>1. \A r \in walk'.rows : r.depth <= d + 1
    BY <1>1, <1>3, <1>4, <1>5
  <2>2. ASSUME NEW p \in Place, NEW n \in 0..d
        PROVE  RowAt(p[1], n, p[2]) \in walk'.rows <=> RowAt(p[1], n, p[2]) \in walk.rows
    <3>1. RowAt(p[1], n, p[2]).depth = n
      BY DEF RowAt
    <3>2. n # d + 1
      BY <1>3
    <3>3. QED
      BY <1>1, <1>4, <3>1, <3>2
  <2>3. ASSUME NEW p \in Place
        PROVE  RowAt(p[1], d + 1, p[2]) \in walk'.rows <=>
                 p \in PathEnds[d + 1] /\ IsNew(p, d + 1)
    <3>1. RowAt(p[1], d + 1, p[2]).depth = d + 1
      BY DEF RowAt
    <3>2. RowAt(p[1], d + 1, p[2]) \notin walk.rows
      BY <1>3, <1>5, <3>1
    <3>3. QED
      BY <1>1, <3>2, NewRowsAre
  <2>4. \A p \in Place : RowAt(p[1], 0, p[2]) \in walk'.rows <=> p \in PathEnds[0]
    BY <1>3, <2>2 DEF LevelsInv, RowsArePaths
  <2>5. ASSUME NEW p \in Place, NEW n \in 1..(d + 1)
        PROVE  RowAt(p[1], n, p[2]) \in walk'.rows <=> p \in PathEnds[n] /\ IsNew(p, n)
    <3>1. n = d + 1 \/ (n \in 1..d /\ n \in 0..d)
      BY <1>3
    <3>2. QED
      BY <2>2, <2>3, <3>1 DEF LevelsInv, RowsArePaths
  <2>6. QED
    BY <1>1, <1>2, <2>1, <2>4, <2>5 DEF RowsArePaths, IsNew
<1>8. FrontierIsLast'
  <2>1. \A r \in walk.rows : r.depth # d + 1
    BY <1>3, <1>5
  <2>2. QED
    BY <1>1, <1>4, <2>1 DEF FrontierIsLast
<1>9. SeenIsReached'
  <2>1. ASSUME NEW p \in Place
        PROVE  [id |-> p[1], via |-> p[2], reached |-> TRUE] \in walk'.seen
                 <=> \E n \in 1..(d + 1) : p \in PathEnds[n]
    <3>1. [id |-> p[1], via |-> p[2], reached |-> TRUE] \in walk.seen
            <=> \E n \in 1..d : p \in PathEnds[n]
      BY DEF LevelsInv, SeenIsReached
    <3>2. (\E s \in New : s.caller = p[1] /\ s.via = p[2]) <=>
             p \in PathEnds[d + 1] /\ \A m \in 1..d : p \notin PathEnds[m]
      <4>1. (d + 1) - 1 = d
        BY <1>3
      <4>2. QED
        BY <4>1, NewRowsAre DEF IsNew
    <3>3. 1..(d + 1) = 1..d \cup {d + 1}
      BY <1>3
    <3>4. [id |-> p[1], via |-> p[2], reached |-> TRUE] \in
             {[id |-> s.caller, via |-> s.via, reached |-> TRUE] : s \in New}
            <=> \E s \in New : s.caller = p[1] /\ s.via = p[2]
      OBVIOUS
    <3>5. QED
      BY <1>1, <3>1, <3>2, <3>3, <3>4
  <2>2. QED
    BY <1>1, <1>2, <2>1 DEF SeenIsReached
<1>10. CalledIsExpanded'
  <2>1. {r.id : r \in walk.frontier} \subseteq Symbols
    BY FrontierPlaces DEF Place
  <2>2. {s.origin : s \in {t \in Kept : t.caller # t.origin}}
          = {x \in {r.id : r \in walk.frontier} : IsCalled(x)}
    <3>1. ASSUME NEW s \in Kept, s.caller # s.origin
          PROVE  s.origin \in {r.id : r \in walk.frontier} /\ IsCalled(s.origin)
      <4>1. PICK r \in walk.frontier, t \in graph.steps :
              t.kept /\ t.origin = r.id /\ t.caller = s.caller /\ s.origin = r.id
        BY KeptSteps
      <4>2. QED
        BY <3>1, <4>1 DEF IsCalled
    <3>2. ASSUME NEW r \in walk.frontier, IsCalled(r.id)
          PROVE  \E s \in Kept : s.caller # s.origin /\ s.origin = r.id
      <4>1. PICK t \in graph.steps : t.origin = r.id /\ t.kept /\ t.caller # r.id
        BY <3>2 DEF IsCalled
      <4>2. QED
        BY <4>1, StepIsKept
    <3>3. QED
      BY <3>1, <3>2
  <2>3. \A x : IsCalled(x)' = IsCalled(x)
    BY DEF IsCalled
  <2>4. QED
    BY <1>1, <2>1, <2>2, <2>3 DEF LevelsInv, CalledIsExpanded
<1>11. QED
  BY <1>1, <1>6, <1>7, <1>8, <1>9, <1>10 DEF LevelsInv

-----------------------------------------------------------------------------
(* What the rows of a walk say, and what they say when it cannot go on. *)

(* Every row stands for paths of its length.                               *)
LEMMA RowIsPath ==
    ASSUME WalkTyped, LevelsInv, NEW r \in walk.rows, r.depth > 0
    PROVE  /\ r.id \in Symbols /\ r.via \in {0, 1} /\ r.depth \in 1..walk.depth
           /\ <<r.id, r.via>> \in PathEnds[r.depth]
           /\ IsNew(<<r.id, r.via>>, r.depth)
<1>1. r \in [id : Symbols, depth : 0..MaxBlastDepth, via : {0, 1}]
  BY DEF WalkTyped
<1>2. r.depth \in 1..walk.depth
  BY <1>1 DEF WalkTyped, LevelsInv, RowsArePaths
<1> DEFINE p == <<r.id, r.via>>
<1>3. p \in Place /\ p[1] = r.id /\ p[2] = r.via
  BY <1>1 DEF Place
<1>4. RowAt(p[1], r.depth, p[2]) = r
  BY <1>1, <1>3 DEF RowAt
<1> HIDE DEF p
<1>5. p \in PathEnds[r.depth] /\ IsNew(p, r.depth)
  BY <1>2, <1>3, <1>4 DEF LevelsInv, RowsArePaths
<1>6. QED
  BY <1>1, <1>2, <1>5 DEF p

(* A place has a row at the least length of its paths.                     *)
LEMMA PathHasRow ==
    ASSUME WalkTyped, LevelsInv, NEW p \in Place, NEW n \in 1..walk.depth, p \in PathEnds[n]
    PROVE  \E m \in 1..n : /\ p \in PathEnds[m] /\ IsNew(p, m)
                           /\ RowAt(p[1], m, p[2]) \in walk.rows
<1> DEFINE S == {m \in 1..n : p \in PathEnds[m]}
<1>1. S \in SUBSET Nat /\ S # {} /\ n \in Nat
  BY DEF WalkTyped
<1> HIDE DEF S
<1>2. PICK m \in S : \A k \in S : m <= k
  BY <1>1, LeastNat
<1>3. m \in 1..n /\ p \in PathEnds[m]
  BY <1>2 DEF S
<1>4. IsNew(p, m)
  <2>1. ASSUME NEW k \in 1..(m - 1), p \in PathEnds[k] PROVE FALSE
    <3>1. k \in S /\ k < m
      BY <1>1, <1>3, <2>1 DEF S
    <3>2. QED
      BY <1>1, <1>2, <3>1
  <2>2. QED
    BY <2>1 DEF IsNew
<1>5. m \in 1..walk.depth
  BY <1>3 DEF WalkTyped
<1>6. RowAt(p[1], m, p[2]) \in walk.rows
  BY <1>3, <1>4, <1>5 DEF LevelsInv, RowsArePaths
<1>7. QED
  BY <1>3, <1>4, <1>6

(* The least depth and the nearest kind of a symbol's rows.                *)
LEMMA RowLeast ==
    ASSUME WalkTyped, LevelsInv, NEW s \in Symbols, RowsOf(s) # {}
    PROVE  /\ DepthOf(s) \in 1..walk.depth /\ ViaOf(s) \in {0, 1}
           /\ \E v \in {0, 1} : <<s, v>> \in PathEnds[DepthOf(s)]
           /\ \A r \in RowsOf(s) : DepthOf(s) <= r.depth /\ ViaOf(s) <= r.via
<1> DEFINE D == {r.depth : r \in RowsOf(s)}
           V == {r.via : r \in RowsOf(s)}
<1>1. \A r \in RowsOf(s) : /\ r.id = s /\ r.via \in {0, 1} /\ r.depth \in 1..walk.depth
                           /\ <<s, r.via>> \in PathEnds[r.depth]
  BY RowIsPath DEF RowsOf
<1>2. walk.depth \in Nat
  BY DEF WalkTyped
<1>3. D \in SUBSET Nat /\ V \in SUBSET Nat
  <2>1. ASSUME NEW r \in RowsOf(s) PROVE r.via \in Nat /\ r.depth \in Nat
    <3>1. r.via \in {0, 1} /\ r.depth \in 1..walk.depth
      BY <1>1
    <3>2. QED
      BY <1>2, <3>1
  <2>2. QED
    BY <2>1
<1>4. D # {} /\ V # {}
  OBVIOUS
<1>5. \A r \in RowsOf(s) : r.depth \in D /\ r.via \in V
  OBVIOUS
<1>6. /\ \A x \in D : \E r \in RowsOf(s) : x = r.depth
      /\ \A x \in V : \E r \in RowsOf(s) : x = r.via
  OBVIOUS
<1> HIDE DEF D, V
<1>7. /\ Min(D) \in D /\ \A y \in D : Min(D) <= y
      /\ Min(V) \in V /\ \A y \in V : Min(V) <= y
  BY <1>3, <1>4, LeastNat
<1>8. DepthOf(s) = Min(D) /\ ViaOf(s) = Min(V)
  BY DEF DepthOf, ViaOf, LeastOf, D, V
<1>9. QED
  <2>1. PICK r \in RowsOf(s) : r.depth = DepthOf(s)
    BY <1>6, <1>7, <1>8
  <2>2. PICK q \in RowsOf(s) : q.via = ViaOf(s)
    BY <1>6, <1>7, <1>8
  <2>3. DepthOf(s) \in 1..walk.depth /\ <<s, r.via>> \in PathEnds[DepthOf(s)] /\ r.via \in {0, 1}
    BY <1>1, <2>1
  <2>4. ViaOf(s) \in {0, 1}
    BY <1>1, <2>2
  <2>5. \A u \in RowsOf(s) : DepthOf(s) <= u.depth /\ ViaOf(s) <= u.via
    BY <1>5, <1>7, <1>8
  <2>6. QED
    BY <2>3, <2>4, <2>5

(* What a path reaches has rows, no further than the path is long.         *)
LEMMA ReachedHasRow ==
    ASSUME WalkTyped, LevelsInv, NEW s \in Symbols, NEW v \in {0, 1},
           NEW n \in 1..walk.depth, <<s, v>> \in PathEnds[n]
    PROVE  RowsOf(s) # {} /\ DepthOf(s) <= n /\ ViaOf(s) <= v
<1> DEFINE p == <<s, v>>
<1>1. p \in Place /\ p[1] = s /\ p[2] = v
  BY DEF Place
<1> HIDE DEF p
<1>2. p \in PathEnds[n]
  BY DEF p
<1>3. PICK m \in 1..n : RowAt(p[1], m, p[2]) \in walk.rows
  BY <1>1, <1>2, PathHasRow
<1> DEFINE r == RowAt(s, m, v)
<1>4. r \in RowsOf(s) /\ r.depth = m /\ r.via = v
  BY <1>1, <1>3 DEF RowsOf, RowAt
<1>5. DepthOf(s) <= m /\ ViaOf(s) <= v /\ DepthOf(s) \in 1..walk.depth
  BY <1>4, RowLeast
<1>6. QED
  BY <1>4, <1>5 DEF WalkTyped

(* A walk that cannot be extended to a depth has what all paths up to that *)
(* depth reach.                                                            *)
LEMMA Covered ==
    ASSUME WalkTyped, LevelsInv, NEW b \in 0..MaxBlastDepth, ~CanExtend(b),
           NEW n \in 1..b, NEW p \in PathEnds[n]
    PROVE  \E m \in 1..walk.depth : m <= n /\ p \in PathEnds[m]
<1>0. /\ IsIndex(graph) /\ request \in RequestSet /\ walk.depth \in 0..MaxBlastDepth
      /\ MaxBlastDepth \in Nat
  BY DEF WalkTyped
<1>1. CASE walk.depth >= b
  BY <1>0, <1>1
<1>2. CASE ~graph.linked
  <2>1. n - 1 \in 0..(MaxBlastDepth - 1) /\ (n - 1) + 1 = n /\ n \in 0..MaxBlastDepth
    BY <1>0
  <2>2. p \in Place
    BY <1>0, <2>1, PathEndsDef
  <2>3. graph.steps = {}
    BY <1>0, <1>2 DEF IsIndex
  <2>4. QED
    BY <1>0, <2>1, <2>2, <2>3, OneStep
<1>3. CASE walk.frontier = {}
  <2> DEFINE Has(k, q) == \E m \in 1..walk.depth : m <= k /\ q \in PathEnds[m]
             S == {k \in 1..b : \E q \in PathEnds[k] : ~Has(k, q)}
  <2>1. SUFFICES ASSUME S # {} PROVE FALSE
    OBVIOUS
  <2>2. PICK k \in S : \A j \in S : k <= j
    <3>1. S \in SUBSET Nat
      BY <1>0
    <3> HIDE DEF S
    <3>2. QED
      BY <2>1, <3>1, LeastNat
  <2>3. PICK q \in PathEnds[k] : ~Has(k, q)
    BY <2>2
  <2>4. k \in 1..b /\ k \in Nat /\ k > walk.depth
    BY <1>0, <2>3
  <2>5. k - 1 \in 0..(MaxBlastDepth - 1) /\ (k - 1) + 1 = k /\ k \in 0..MaxBlastDepth
    BY <1>0, <2>4
  <2>6. q \in Place
    BY <1>0, <2>5, PathEndsDef
  <2>7. PICK u \in PathEnds[k - 1], t \in graph.steps :
          /\ t.kept /\ t.origin = u[1] /\ t.caller = q[1]
          /\ q[2] = IF t.constructor THEN 1 ELSE u[2]
    BY <1>0, <2>3, <2>5, <2>6, OneStep
  <2>8. u \in Place
    BY <1>0, <2>5, <2>7, PathEndsDef
  <2>9. \E m \in 1..(walk.depth - 1) : m <= k - 1 /\ u \in PathEnds[m]
    <3>1. CASE k - 1 = 0
      <4>1. walk.depth = 0
        BY <1>0, <2>4, <3>1
      <4>2. RowAt(u[1], 0, u[2]) \in walk.rows
        BY <2>7, <2>8, <3>1 DEF LevelsInv, RowsArePaths
      <4>3. RowAt(u[1], 0, u[2]) \in walk.frontier
        BY <4>1, <4>2 DEF LevelsInv, FrontierIsLast, RowAt
      <4>4. QED
        BY <1>3, <4>3
    <3>2. CASE k - 1 # 0
      <4>1. k - 1 \in 1..b /\ k - 1 < k
        BY <1>0, <2>4, <3>2
      <4>2. k - 1 \notin S
        BY <1>0, <2>2, <2>4, <4>1
      <4>3. PICK m \in 1..walk.depth : m <= k - 1 /\ u \in PathEnds[m]
        BY <2>7, <4>1, <4>2
      <4>4. PICK l \in 1..m : u \in PathEnds[l] /\ RowAt(u[1], l, u[2]) \in walk.rows
        BY <2>8, <4>3, PathHasRow
      <4>5. l # walk.depth
        <5>1. ASSUME l = walk.depth PROVE RowAt(u[1], l, u[2]) \in walk.frontier
          BY <4>4, <5>1 DEF LevelsInv, FrontierIsLast, RowAt
        <5>2. QED
          BY <1>3, <5>1
      <4>6. l \in 1..(walk.depth - 1) /\ l <= k - 1
        BY <1>0, <2>4, <4>3, <4>4, <4>5
      <4>7. QED
        BY <4>4, <4>6
    <3>3. QED
      BY <3>1, <3>2
  <2>10. PICK m \in 1..(walk.depth - 1) : m <= k - 1 /\ u \in PathEnds[m]
    BY <2>9
  <2>11. m \in 0..(MaxBlastDepth - 1) /\ m + 1 \in 1..walk.depth /\ m + 1 <= k
    BY <1>0, <2>4, <2>10
  <2>12. q \in PathEnds[m + 1]
    BY <1>0, <2>6, <2>7, <2>10, <2>11, OneStep
  <2>13. QED
    BY <2>3, <2>11, <2>12
<1>4. QED
  BY <1>0, <1>1, <1>2, <1>3 DEF CanExtend

LEMMA ShortestPaths ==
    ASSUME WalkTyped, LevelsInv
    PROVE  RowsAreShortestPaths
<1> DEFINE at(s, v) == {n \in 1..walk.depth : <<s, v>> \in PathEnds[n]}
           rows == {r \in walk.rows : r.depth > 0}
           row(s, v) == [id |-> s, depth |-> LeastOf(at(s, v)), via |-> v]
           least == UNION {{row(s, v) : s \in {t \in Symbols : at(t, v) # {}}} : v \in {0, 1}}
<1>0. walk.depth \in Nat
  BY DEF WalkTyped
<1>1. ASSUME NEW s \in Symbols, NEW v \in {0, 1}, NEW n \in at(s, v), IsNew(<<s, v>>, n)
      PROVE  row(s, v) = RowAt(s, n, v)
  <2>1. at(s, v) \in SUBSET Nat /\ at(s, v) # {}
    BY <1>0
  <2>2. LeastOf(at(s, v)) \in at(s, v) /\ \A k \in at(s, v) : LeastOf(at(s, v)) <= k
    <3> HIDE DEF at
    <3>1. QED
      BY <2>1, LeastNat DEF LeastOf
  <2> DEFINE m == LeastOf(at(s, v))
  <2>3. m \in 1..walk.depth /\ n \in 1..walk.depth /\ m <= n /\ <<s, v>> \in PathEnds[m]
    BY <2>2
  <2>4. m \notin 1..(n - 1)
    BY <1>1, <2>3 DEF IsNew
  <2>5. m = n
    BY <1>0, <2>3, <2>4
  <2>6. QED
    BY <2>5 DEF RowAt
<1>2. ASSUME NEW r \in rows PROVE r \in least
  <2>1. /\ r.id \in Symbols /\ r.via \in {0, 1} /\ r.depth \in at(r.id, r.via)
        /\ IsNew(<<r.id, r.via>>, r.depth)
    BY RowIsPath
  <2>2. r = RowAt(r.id, r.depth, r.via)
    BY DEF RowAt, WalkTyped
  <2>3. r = row(r.id, r.via)
    BY <1>1, <2>1, <2>2
  <2> HIDE DEF at, row
  <2>4. QED
    BY <2>1, <2>3
<1>3. ASSUME NEW s \in Symbols, NEW v \in {0, 1}, at(s, v) # {} PROVE row(s, v) \in rows
  <2> DEFINE q == <<s, v>>
  <2>1. PICK n \in 1..walk.depth : q \in PathEnds[n]
    BY <1>3
  <2>2. q \in Place /\ q[1] = s /\ q[2] = v
    BY DEF Place
  <2>3. PICK m \in 1..n : q \in PathEnds[m] /\ IsNew(q, m) /\ RowAt(q[1], m, q[2]) \in walk.rows
    <3> HIDE DEF q
    <3>1. QED
      BY <2>1, <2>2, PathHasRow
  <2>4. m \in at(s, v) /\ m > 0
    BY <1>0, <2>1, <2>3
  <2>5. row(s, v) = RowAt(s, m, v)
    BY <1>1, <2>3, <2>4
  <2>6. RowAt(s, m, v).depth = m
    BY DEF RowAt
  <2> HIDE DEF row, at
  <2>7. QED
    BY <2>2, <2>3, <2>4, <2>5, <2>6
<1>4. rows = least
  <2> HIDE DEF rows, at, row
  <2>1. QED
    BY <1>2, <1>3
<1>5. QED
  BY <1>4 DEF RowsAreShortestPaths

-----------------------------------------------------------------------------
(* The tests that stand for a symbol are symbols. *)

LEMMA FixtureUsersType ==
    ASSUME NEW s \in Symbols
    PROVE  FixtureUsers(s) \subseteq Symbols
<1> DEFINE Closed(set) == /\ s \in set
                          /\ \A f \in set : graph.role[f] = "fixture" => Takers(f) \subseteq set
           closed == {set \in SUBSET Symbols : Closed(set)}
           IsAll(set) == \A other \in closed : set \subseteq other
           common == {x \in Symbols : \A set \in closed : x \in set}
<1>1. common \in closed
  <2>1. s \in common
    OBVIOUS
  <2>2. ASSUME NEW f \in common, graph.role[f] = "fixture", NEW x \in Takers(f) PROVE x \in common
    <3>1. x \in Symbols
      BY DEF Takers
    <3>2. ASSUME NEW set \in closed PROVE x \in set
      <4>1. f \in set /\ Closed(set)
        OBVIOUS
      <4>2. Takers(f) \subseteq set
        BY <2>2, <4>1
      <4>3. QED
        BY <2>2, <4>2
    <3> HIDE DEF closed
    <3>3. QED
      BY <3>1, <3>2
  <2>3. common \in SUBSET Symbols
    OBVIOUS
  <2> HIDE DEF common
  <2>4. QED
    BY <2>1, <2>2, <2>3
<1>2. IsAll(common)
  OBVIOUS
<1> DEFINE all == CHOOSE set \in closed : \A other \in closed : set \subseteq other
<1>3. all \in closed
  <2> HIDE DEF closed, common
  <2>1. QED
    BY <1>1, <1>2
<1>4. all \in SUBSET Symbols
  <2> HIDE DEF all
  <2>1. QED
    BY <1>3
<1>5. FixtureUsers(s) = {t \in all : graph.role[t] = "test"}
  BY DEF FixtureUsers
<1> HIDE DEF all, closed, common
<1>6. QED
  BY <1>4, <1>5

(* The scopes around a symbol are symbols, until there is none.            *)
LEMMA ScopesType ==
    ASSUME IsIndex(graph), NEW s \in Symbols
    PROVE  \A n \in 0..MaxScopes : ScopesOf(s)[n] \in Symbols \cup {NoSymbol}
<1> DEFINE S == Symbols \cup {NoSymbol}
           N == MaxScopes
           up == ScopesOf(s)
           Is(f) == f = [n \in 0..MaxScopes |->
                           IF n = 0 THEN s
                           ELSE IF f[n - 1] = NoSymbol THEN NoSymbol ELSE graph.inside[f[n - 1]]]
           F == [k \in 1..N |-> [x \in S |-> IF x = NoSymbol THEN NoSymbol ELSE graph.inside[x]]]
<1>1. graph.inside \in [Symbols -> S]
  BY DEF IsIndex, GraphSet
<1>2. F \in [1..N -> [S -> S]]
  BY <1>1
<1>3. PICK f \in [0..N -> S] : f[0] = s /\ \A k \in 1..N : f[k] = F[k][f[k - 1]]
  <2>1. N \in Nat /\ s \in S
    OBVIOUS
  <2> HIDE DEF F, S, N
  <2>2. QED
    BY <1>2, <2>1, Iteration, SMT
<1>4. ASSUME NEW k \in 1..N
      PROVE  f[k] = IF f[k - 1] = NoSymbol THEN NoSymbol ELSE graph.inside[f[k - 1]]
  <2>1. f[k - 1] \in S
    BY <1>3
  <2>2. F[k][f[k - 1]] = IF f[k - 1] = NoSymbol THEN NoSymbol ELSE graph.inside[f[k - 1]]
    BY <2>1
  <2> HIDE DEF F
  <2>3. QED
    BY <1>3, <2>2
<1>5. Is(f)
  BY <1>3, <1>4
<1>6. Is(up)
  <2>1. Is(CHOOSE g : Is(g))
    BY <1>5
  <2>2. QED
    BY <2>1 DEF ScopesOf
<1>7. \A n \in 0..MaxScopes :
        up[n] = IF n = 0 THEN s
                ELSE IF up[n - 1] = NoSymbol THEN NoSymbol ELSE graph.inside[up[n - 1]]
  <2> HIDE DEF up
  <2>1. QED
    BY <1>6 DEF up
<1> DEFINE U == {n \in Nat : n <= MaxScopes => up[n] \in S}
<1>8. 0 \in U
  BY <1>7
<1>9. ASSUME NEW n \in Nat, n \in U PROVE n + 1 \in U
  <2>1. SUFFICES ASSUME n + 1 <= MaxScopes PROVE up[n + 1] \in S
    OBVIOUS
  <2>2. up[n] \in S
    BY <1>9, <2>1
  <2>3. n + 1 \in 0..MaxScopes /\ (n + 1) - 1 = n /\ n + 1 # 0
    BY <2>1
  <2>4. up[n + 1] = IF up[n] = NoSymbol THEN NoSymbol ELSE graph.inside[up[n]]
    <3> HIDE DEF up
    <3>1. QED
      BY <1>7, <2>3
  <2> HIDE DEF up
  <2>5. QED
    BY <1>1, <2>2, <2>4
<1>10. \A n \in Nat : n \in U
  <2> HIDE DEF U
  <2>1. QED
    BY <1>8, <1>9, SetInduction
<1>11. QED
  BY <1>10

LEMMA TestsOfType ==
    ASSUME IsIndex(graph), NEW s \in Symbols
    PROVE  /\ StandsFor(s) \subseteq Symbols /\ EnclosingTests(s) \subseteq Symbols
           /\ TestsOf(s) \subseteq Symbols
<1>1. StandsFor(s) \subseteq Symbols
  <2>1. ServedBy(s) \subseteq Symbols
    BY FixtureUsersType DEF ServedBy, Takers
  <2>2. QED
    BY <2>1 DEF StandsFor
<1>2. EnclosingTests(s) \subseteq Symbols
  <2> DEFINE up == ScopesOf(s)
  <2>1. \A n \in 1..MaxScopes : up[n] \in Symbols \cup {NoSymbol}
    BY ScopesType
  <2>2. \A t \in EnclosingTests(s) : \E n \in 1..MaxScopes : t = up[n] /\ up[n] # NoSymbol
    BY DEF EnclosingTests
  <2> HIDE DEF up
  <2>3. QED
    BY <2>1, <2>2
<1>3. QED
  BY <1>1, <1>2 DEF TestsOf

-----------------------------------------------------------------------------
(* What is collected. *)

(* A path of n steps leads to s.                                           *)
Calls(s, n) == \E v \in {0, 1} : <<s, v>> \in PathEnds[n]
CallsWithin(s, depth) == \E n \in 1..depth : Calls(s, n)
IsFound(s) == graph.role[s] # "low" /\ (s \in request.seeds => IsTestRole(s))

LEMMA WithinAre ==
    ASSUME WalkTyped, LevelsInv, NEW b \in 0..MaxBlastDepth, ~CanExtend(b),
           NEW depth \in 0..b
    PROVE  \A s \in Symbols : s \in Within(depth) <=> CallsWithin(s, depth) /\ IsFound(s)
<1>0. walk.depth \in Nat /\ depth \in Nat /\ b \in Nat
  BY DEF WalkTyped
<1>1. ASSUME NEW s \in Symbols, s \in Within(depth) PROVE CallsWithin(s, depth) /\ IsFound(s)
  <2>1. RowsOf(s) # {} /\ DepthOf(s) <= depth /\ IsFound(s)
    BY <1>1 DEF Within, Found, IsFound
  <2>2. DepthOf(s) \in 1..walk.depth /\ \E v \in {0, 1} : <<s, v>> \in PathEnds[DepthOf(s)]
    BY <2>1, RowLeast
  <2>3. DepthOf(s) \in 1..depth
    BY <1>0, <2>1, <2>2
  <2>4. QED
    BY <2>1, <2>2, <2>3 DEF CallsWithin, Calls
<1>2. ASSUME NEW s \in Symbols, CallsWithin(s, depth), IsFound(s) PROVE s \in Within(depth)
  <2>1. PICK n \in 1..depth, v \in {0, 1} : <<s, v>> \in PathEnds[n]
    BY <1>2 DEF CallsWithin, Calls
  <2>2. n \in 1..b
    BY <1>0
  <2>3. PICK m \in 1..walk.depth : m <= n /\ <<s, v>> \in PathEnds[m]
    BY <2>1, <2>2, Covered
  <2>4. RowsOf(s) # {} /\ DepthOf(s) <= m
    BY <2>3, ReachedHasRow
  <2>5. DepthOf(s) \in 1..walk.depth
    BY <2>4, RowLeast
  <2>6. DepthOf(s) <= depth
    BY <1>0, <2>1, <2>3, <2>4, <2>5
  <2>7. QED
    BY <1>2, <2>4, <2>6 DEF Within, Found, IsFound
<1>3. QED
  BY <1>1, <1>2

(* Below the ceiling every row within the depth is read.                   *)
LEMMA ShownAll ==
    ASSUME NEW depth, NEW shown \in SUBSET Within(depth), IsCut(shown, Within(depth)),
           ~AtCeiling(depth)
    PROVE  shown = Within(depth) /\ Cardinality(Within(depth)) <= RowCeiling
<1>1. IsFiniteSet(Within(depth))
  <2>1. Within(depth) \in SUBSET Symbols
    BY DEF Within, Found
  <2>2. QED
    BY <2>1, FS_Subset
<1> DEFINE c == Cardinality(Within(depth))
<1>2. c \in Nat
  BY <1>1, FS_CardinalityType
<1>3. c <= RowCeiling
  BY <1>2 DEF AtCeiling
<1>4. Min({RowCeiling, c}) = c
  <2> HIDE DEF c
  <2>1. {RowCeiling, c} \in SUBSET Nat /\ {RowCeiling, c} # {}
    BY <1>2
  <2>2. Min({RowCeiling, c}) \in {RowCeiling, c} /\ \A y \in {RowCeiling, c} : Min({RowCeiling, c}) <= y
    BY <2>1, LeastNat
  <2>3. QED
    BY <1>2, <1>3, <2>2
<1>5. Cardinality(shown) = c
  BY <1>4 DEF IsCut, LeastOf
<1>6. QED
  BY <1>1, <1>3, <1>5, FS_Subset

-----------------------------------------------------------------------------
(* What the report says, from the phase on that fills it in. *)

(* The tests of all that was found within the depth are listed.            *)
TestsOfFound ==
    wphase # "walk" /\ ~report.ceiling =>
        \A s \in Symbols : CallsWithin(s, request.depth) /\ IsFound(s) =>
            \A t \in TestsOf(s) : Listed(t)
SeedTestsListed ==
    wphase # "walk" => \A s \in request.seeds : graph.role[s] = "test" => Listed(s)
DirectTestsListed ==
    wphase # "walk" /\ ~report.ceiling =>
        \A t \in Symbols : graph.role[t] = "test" /\ t \notin report.tests =>
            \A n \in 1..request.depth : <<t, 0>> \notin PathEnds[n]
ImpactedAreFound ==
    wphase # "walk" /\ ~report.ceiling =>
        report.impacted = {s \in Symbols : /\ CallsWithin(s, request.depth) /\ IsFound(s)
                                           /\ ~IsTestRole(s) /\ EnclosingTests(s) = {}}
PastAreCounted ==
    wphase \in {"ends", "done"} =>
        \A t \in Symbols : graph.role[t] = "test" /\ CallsWithin(t, request.probe) =>
            Listed(t) \/ LeftOut(t) \/ report.ceiling \/ report.pastCut \/ RanIntoLow
ProbeIsDue == wphase = "probe" => report.stopped /\ request.probe > request.depth
EndsAreUncalled ==
    wphase = "done" =>
        report.ends = IF graph.linked THEN {s \in report.reached : ~IsCalled(s)} ELSE {}

(* What is counted as past the depth is not listed, and is only there when *)
(* the walk was probed; the walk itself went as far as it was to go.       *)
PastIsElse ==
    /\ wphase \in {"walk", "probe"} => report.past = {}
    /\ report.past \cap (report.tests \cup report.files) = {}
    /\ report.past # {} => report.stopped /\ request.probe > request.depth
FilesAreFolded == request.kind # "file" => report.files = {}
WalkIsFar == wphase # "walk" => ~CanExtend(WalkBound(request.depth))

ListsInv == TestsOfFound /\ SeedTestsListed /\ DirectTestsListed /\ ImpactedAreFound
PhaseInv == PastIsElse /\ FilesAreFolded /\ WalkIsFar
ReportInv == ListsInv /\ PastAreCounted /\ ProbeIsDue /\ EndsAreUncalled /\ PhaseInv

WalkInv == WalkTyped /\ LevelsInv /\ ReportInv

(* A test stands for itself. *)
LEMMA TestForItself ==
    ASSUME NEW t, graph.role[t] = "test"
    PROVE  TestsOf(t) = {t} /\ StandsFor(t) = {t} /\ IsTestRole(t) /\ IsFound(t)
BY DEF TestsOf, StandsFor, IsTestRole, IsFound

(* The operators on the index and the request do not change with the walk. *)
LEMMA SameIndex ==
    ASSUME UNCHANGED <<graph, request>>
    PROVE  /\ PathEnds' = PathEnds
           /\ \A s : IsCalled(s)' = IsCalled(s)
           /\ \A s : IsTestRole(s)' = IsTestRole(s) /\ IsFound(s)' = IsFound(s)
           /\ \A s : EnclosingTests(s)' = EnclosingTests(s) /\ TestsOf(s)' = TestsOf(s)
           /\ \A s, n : CallsWithin(s, n)' = CallsWithin(s, n)
<1>1. PathEnds' = PathEnds
  BY DEF PathEnds
<1>2. \A s : IsCalled(s)' = IsCalled(s)
  BY DEF IsCalled
<1>3. \A s : IsTestRole(s)' = IsTestRole(s) /\ IsFound(s)' = IsFound(s)
  BY DEF IsTestRole, IsFound
<1>4. \A s : EnclosingTests(s)' = EnclosingTests(s)
  BY DEF EnclosingTests, ScopesOf
<1>5. \A s : StandsFor(s)' = StandsFor(s)
  BY DEF StandsFor, ServedBy, FixtureUsers, Takers
<1>6. \A s : TestsOf(s)' = TestsOf(s)
  BY <1>3, <1>4, <1>5 DEF TestsOf
<1>7. \A s, n : CallsWithin(s, n)' = CallsWithin(s, n)
  BY <1>1 DEF CallsWithin, Calls
<1>8. QED
  BY <1>1, <1>2, <1>3, <1>4, <1>6, <1>7

LEMMA WalkOnKeeps == ASSUME WalkInv, WalkOn PROVE WalkInv'
<1>1. WalkTyped /\ LevelsInv /\ request \in RequestSet /\ MaxBlastDepth \in Nat
  BY DEF WalkInv, WalkTyped
<1>2. walk.depth < MaxBlastDepth
  <2>1. request.depth \in 1..MaxBlastDepth /\ request.probe \in 0..MaxBlastDepth
    BY <1>1 DEF RequestSet
  <2>2. \A k \in 0..MaxBlastDepth : WalkBound(k) \in 0..MaxBlastDepth
    BY <1>1 DEF WalkBound
  <2>3. walk.depth < WalkBound(request.depth) \/ walk.depth < WalkBound(request.probe)
    BY DEF WalkOn, CanExtend
  <2>4. walk.depth \in Nat
    BY <1>1 DEF WalkTyped
  <2>5. QED
    BY <1>1, <2>1, <2>2, <2>3, <2>4
<1>3. walk' = Level(walk) /\ UNCHANGED <<graph, request, wphase, report>>
  BY DEF WalkOn
<1>4. /\ LevelsInv' /\ walk'.depth = walk.depth + 1
      /\ walk'.rows \subseteq [id : Symbols, depth : 0..MaxBlastDepth, via : {0, 1}]
  BY <1>1, <1>2, <1>3, LevelKeeps
<1>5. WalkTyped'
  BY <1>1, <1>2, <1>3, <1>4 DEF WalkTyped, IsIndex
<1>6. wphase \in {"walk", "probe"}
  BY DEF WalkOn
<1>7. ReportInv'
  <2>1. ListsInv'
    BY <1>3, SameIndex DEF WalkInv, ReportInv, ListsInv, TestsOfFound, SeedTestsListed,
       DirectTestsListed, ImpactedAreFound, Listed
  <2>2. (PastAreCounted /\ ProbeIsDue /\ EndsAreUncalled)'
    BY <1>3, <1>6 DEF WalkInv, ReportInv, PastAreCounted, ProbeIsDue, EndsAreUncalled
  <2>3. (PastIsElse /\ FilesAreFolded)'
    BY <1>3 DEF WalkInv, ReportInv, PhaseInv, PastIsElse, FilesAreFolded
  <2>4. WalkIsFar'
    <3> DEFINE b == WalkBound(request.depth)
    <3>1. CASE wphase = "walk"
      BY <1>3, <3>1 DEF WalkIsFar
    <3>2. CASE wphase = "probe"
      <4>1. ~CanExtend(b) /\ graph.linked /\ walk.frontier # {}
        BY <3>2 DEF WalkOn, CanExtend, WalkInv, ReportInv, PhaseInv, WalkIsFar
      <4>2. b \in Nat /\ walk.depth \in Nat
        BY <1>1 DEF WalkBound, RequestSet, WalkTyped
      <4>3. ~(walk.depth + 1 < b)
        BY <4>1, <4>2 DEF CanExtend
      <4>4. QED
        BY <1>3, <1>4, <4>3 DEF WalkIsFar, CanExtend
    <3>3. QED
      BY <1>6, <3>1, <3>2
  <2>5. QED
    BY <2>1, <2>2, <2>3, <2>4 DEF ReportInv, PhaseInv
<1>8. QED
  BY <1>4, <1>5, <1>7 DEF WalkInv

LEMMA OpenEndsKeep == ASSUME WalkInv, OpenEnds PROVE WalkInv'
<1>1. /\ wphase = "ends" /\ wphase' = "done" /\ UNCHANGED <<graph, request, walk>>
      /\ report' = [report EXCEPT !.ends = IF graph.linked THEN report.reached \ CalledNow ELSE {}]
  BY DEF OpenEnds
<1>2. report \in ReportSet
  BY DEF WalkInv, WalkTyped
<1>3. /\ report'.ends = (IF graph.linked THEN report.reached \ CalledNow ELSE {})
      /\ report'.tests = report.tests /\ report'.files = report.files
      /\ report'.impacted = report.impacted /\ report'.reached = report.reached
      /\ report'.ceiling = report.ceiling /\ report'.stopped = report.stopped
      /\ report'.past = report.past /\ report'.pastCut = report.pastCut
  BY <1>1, <1>2 DEF ReportSet
<1>4. WalkTyped'
  <2>1. report' \in ReportSet
    BY <1>1, <1>2, <1>3 DEF ReportSet
  <2>2. QED
    BY <1>1, <2>1 DEF WalkInv, WalkTyped, IsIndex
<1>5. LevelsInv'
  BY <1>1, SameIndex DEF WalkInv, LevelsInv, RowsArePaths, IsNew, FrontierIsLast, SeenIsReached,
     CalledIsExpanded
<1>6. ListsInv'
  BY <1>1, <1>3, SameIndex DEF WalkInv, ReportInv, ListsInv, TestsOfFound, SeedTestsListed,
     DirectTestsListed, ImpactedAreFound, Listed
<1>7. PastAreCounted'
  <2>1. RanIntoLow' = RanIntoLow
    BY <1>1, <1>3 DEF RanIntoLow, RowsOf, DepthOf
  <2>2. QED
    BY <1>1, <1>3, <2>1, SameIndex DEF WalkInv, ReportInv, PastAreCounted, Listed, LeftOut
<1>8. EndsAreUncalled'
  <2>1. walk.called = {s \in walk.expanded : IsCalled(s)}
    BY DEF WalkInv, LevelsInv, CalledIsExpanded
  <2>2. \A s \in report.reached : s \in CalledNow <=> IsCalled(s)
    BY <2>1 DEF CalledNow, IsCalled
  <2>3. QED
    BY <1>1, <1>3, <2>2, SameIndex DEF EndsAreUncalled
<1>9. PhaseInv'
  BY <1>1, <1>3 DEF WalkInv, ReportInv, PhaseInv, PastIsElse, FilesAreFolded, WalkIsFar, CanExtend
<1>10. QED
  BY <1>1, <1>4, <1>5, <1>6, <1>7, <1>8, <1>9 DEF WalkInv, ReportInv, ProbeIsDue

LEMMA LikelyAre ==
    ASSUME NEW shown, NEW t
    PROVE  t \in LikelyTests(shown) <=> \/ \E s \in SeedTests : t \in StandsFor(s)
                                        \/ \E s \in shown : t \in TestsOf(s)
                                        \/ t \in request.reported
<1> DEFINE seedTests == UNION {StandsFor(s) : s \in SeedTests}
           rowTests == UNION {TestsOf(s) : s \in shown}
<1>1. t \in seedTests <=> \E s \in SeedTests : t \in StandsFor(s)
  OBVIOUS
<1>2. t \in rowTests <=> \E s \in shown : t \in TestsOf(s)
  OBVIOUS
<1>3. LikelyTests(shown) = seedTests \cup rowTests \cup request.reported
  BY DEF LikelyTests
<1> HIDE DEF seedTests, rowTests
<1>4. QED
  BY <1>1, <1>2, <1>3

(* The lists that are made from the rows that are read.                    *)
LEMMA ListsType ==
    ASSUME IsIndex(graph), request \in RequestSet, NEW shown \in SUBSET Symbols
    PROVE  /\ LikelyTests(shown) \subseteq Symbols /\ FoldedTests(shown) \subseteq Symbols
           /\ Impacted(shown) \subseteq Symbols /\ Reached(shown) \subseteq Symbols
           /\ {FileOf[t] : t \in FoldedTests(shown)} \subseteq FileNames
<1>1. request.seeds \subseteq Symbols /\ request.reported \subseteq Symbols
  BY DEF RequestSet
<1>2. LikelyTests(shown) \subseteq Symbols
  <2>1. \A x \in SeedTests : StandsFor(x) \subseteq Symbols
    BY <1>1, TestsOfType DEF SeedTests
  <2>2. \A x \in shown : TestsOf(x) \subseteq Symbols
    BY TestsOfType
  <2>3. QED
    BY <1>1, <2>1, <2>2, LikelyAre
<1>3. FoldedTests(shown) \subseteq Symbols
  BY DEF FoldedTests, ConstructorOnly
<1>4. Impacted(shown) \subseteq Symbols /\ Reached(shown) \subseteq Symbols
  BY <1>1 DEF Impacted, Reached
<1>5. QED
  BY <1>2, <1>3, <1>4 DEF FileNames

(* What ends a walk that is not stopped: everything a longer path reaches  *)
(* is a seed, or is reached within the depth, unless the next row is of a  *)
(* kind that is not listed.                                                *)
LEMMA NothingFurther ==
    ASSUME WalkTyped, LevelsInv, ~CanExtend(WalkBound(request.depth)),
           Found = Within(request.depth),
           ~\E s \in Symbols : /\ graph.role[s] = "low" /\ RowsOf(s) # {}
                               /\ DepthOf(s) = request.depth + 1,
           NEW n \in 0..request.probe, NEW p \in PathEnds[n]
    PROVE  p[1] \in request.seeds \/ CallsWithin(p[1], request.depth)
<1> DEFINE d == request.depth
           Near(x) == x \in request.seeds \/ CallsWithin(x, d)
           S == {k \in 0..request.probe : \E q \in PathEnds[k] : ~Near(q[1])}
<1>0. /\ IsIndex(graph) /\ request \in RequestSet /\ walk.depth \in 0..MaxBlastDepth
      /\ MaxBlastDepth \in Nat /\ d \in 1..MaxBlastDepth /\ request.probe \in 0..MaxBlastDepth
  BY DEF WalkTyped, RequestSet
<1>1. SUFFICES ASSUME S # {} PROVE FALSE
  OBVIOUS
<1>2. PICK k \in S : \A j \in S : k <= j
  <2>1. S \in SUBSET Nat
    BY <1>0
  <2> HIDE DEF S
  <2>2. QED
    BY <1>1, <2>1, LeastNat
<1>3. PICK q \in PathEnds[k] : ~Near(q[1])
  BY <1>2
<1>4. k \in 0..request.probe /\ k \in Nat
  BY <1>0
<1>5. PathEnds[0] = request.seeds \X {0}
  BY <1>0, PathEndsDef
<1>6. k # 0
  BY <1>3, <1>5
<1>7. q \in Place /\ q[1] \in Symbols
  <2>1. k \in 0..MaxBlastDepth
    BY <1>0, <1>4
  <2>2. QED
    BY <1>0, <1>3, <2>1, PathEndsDef DEF Place
<1>8. k - 1 \in 0..(MaxBlastDepth - 1) /\ (k - 1) + 1 = k /\ k - 1 < k /\ k - 1 \in 0..request.probe
  BY <1>0, <1>4, <1>6
<1>9. PICK u \in PathEnds[k - 1], t \in graph.steps :
        t.kept /\ t.origin = u[1] /\ t.caller = q[1]
  BY <1>0, <1>3, <1>7, <1>8, OneStep
<1>10. Near(u[1])
  BY <1>0, <1>2, <1>4, <1>8, <1>9
<1>11. ASSUME NEW j \in 0..(MaxBlastDepth - 1), NEW v \in {0, 1}, <<u[1], v>> \in PathEnds[j]
       PROVE  Calls(q[1], j + 1)
  <2> DEFINE w == <<u[1], v>>
             x == <<q[1], IF t.constructor THEN 1 ELSE v>>
  <2>1. w[1] = u[1] /\ w[2] = v /\ w \in PathEnds[j]
    BY <1>11
  <2>2. x \in Place /\ x[1] = q[1] /\ x[2] = IF t.constructor THEN 1 ELSE w[2]
    BY <1>7 DEF Place
  <2> HIDE DEF w, x
  <2>3. x \in PathEnds[j + 1]
    BY <1>0, <1>9, <2>1, <2>2, OneStep
  <2>4. QED
    BY <1>7, <2>3 DEF Calls, x
<1>12. CASE u[1] \in request.seeds
  <2>1. <<u[1], 0>> \in PathEnds[0]
    BY <1>5, <1>12
  <2>2. 0 \in 0..(MaxBlastDepth - 1) /\ 0 + 1 = 1 /\ 1 \in 1..d
    BY <1>0
  <2>3. Calls(q[1], 0 + 1)
    BY <1>11, <2>1, <2>2
  <2>4. QED
    BY <1>3, <2>2, <2>3 DEF CallsWithin
<1>13. CASE CallsWithin(u[1], d)
  <2>1. PICK j \in 1..d, v \in {0, 1} : <<u[1], v>> \in PathEnds[j]
    BY <1>13 DEF CallsWithin, Calls
  <2>2. CASE j < d
    <3>1. j \in 0..(MaxBlastDepth - 1) /\ j + 1 \in 1..d
      BY <1>0, <2>2
    <3>2. Calls(q[1], j + 1)
      BY <1>11, <2>1, <3>1
    <3>3. QED
      BY <1>3, <3>1, <3>2 DEF CallsWithin
  <2>3. CASE j = d
    <3>1. d < k
      <4>1. Calls(q[1], k)
        <5>1. q = <<q[1], q[2]>> /\ q[2] \in {0, 1}
          BY <1>7 DEF Place
        <5>2. QED
          BY <1>3, <5>1 DEF Calls
      <4>2. k \notin 1..d
        BY <1>3, <4>1 DEF CallsWithin
      <4>3. QED
        BY <1>0, <1>4, <1>6, <4>2
    <3>2. d < MaxBlastDepth /\ WalkBound(d) = d + 1 /\ d + 1 \in 0..MaxBlastDepth
      BY <1>0, <1>4, <3>1 DEF WalkBound
    <3>3. Calls(q[1], d + 1)
      <4>1. d \in 0..(MaxBlastDepth - 1)
        BY <1>0, <3>2
      <4>2. QED
        BY <1>11, <2>1, <2>3, <4>1
    <3>4. PICK x \in {0, 1} : <<q[1], x>> \in PathEnds[d + 1]
      BY <3>3 DEF Calls
    <3>5. ~CanExtend(d + 1) /\ d + 1 \in 1..(d + 1)
      BY <1>0, <3>2
    <3>6. PICK m \in 1..walk.depth : m <= d + 1 /\ <<q[1], x>> \in PathEnds[m]
      BY <3>2, <3>4, <3>5, Covered
    <3>7. RowsOf(q[1]) # {} /\ DepthOf(q[1]) <= m
      BY <1>7, <3>6, ReachedHasRow
    <3>8. /\ DepthOf(q[1]) \in 1..walk.depth
          /\ \E y \in {0, 1} : <<q[1], y>> \in PathEnds[DepthOf(q[1])]
      BY <1>7, <3>7, RowLeast
    <3>9. DepthOf(q[1]) \notin 1..d
      BY <1>3, <3>8 DEF CallsWithin, Calls
    <3>10. DepthOf(q[1]) = d + 1
      BY <1>0, <3>6, <3>7, <3>8, <3>9
    <3>11. q[1] \notin Found
      BY <1>0, <3>10 DEF Within
    <3>12. graph.role[q[1]] = "low"
      BY <1>3, <1>7, <3>7, <3>11 DEF Found
    <3>13. QED
      BY <1>7, <3>7, <3>10, <3>12
  <2>4. QED
    BY <1>0, <2>2, <2>3
<1>14. QED
  BY <1>10, <1>12, <1>13

LEMMA CollectKeeps == ASSUME WalkInv, Collect PROVE WalkInv'
<1> DEFINE d == request.depth
<1>1. PICK shown \in SUBSET Within(d) :
        /\ IsCut(shown, Within(d))
        /\ report' = [report EXCEPT
               !.tests    = LikelyTests(shown) \ FoldedTests(shown),
               !.files    = {FileOf[t] : t \in FoldedTests(shown)},
               !.impacted = Impacted(shown),
               !.reached  = Reached(shown),
               !.stopped  = Stopped(d),
               !.ceiling  = AtCeiling(d)]
  BY DEF Collect
<1>2. /\ wphase = "walk" /\ ~CanExtend(WalkBound(d)) /\ UNCHANGED <<graph, request, walk>>
      /\ wphase' = IF Stopped(d) /\ request.probe > d THEN "probe" ELSE "ends"
  BY DEF Collect
<1>3. /\ WalkTyped /\ LevelsInv /\ report \in ReportSet /\ IsIndex(graph)
      /\ request \in RequestSet /\ MaxBlastDepth \in Nat
  BY DEF WalkInv, WalkTyped
<1>4. /\ d \in 1..MaxBlastDepth /\ request.probe \in 0..MaxBlastDepth
      /\ WalkBound(d) \in 0..MaxBlastDepth /\ d \in 0..WalkBound(d)
  BY <1>3 DEF RequestSet, WalkBound
<1>5. /\ report'.tests = LikelyTests(shown) \ FoldedTests(shown)
      /\ report'.files = {FileOf[t] : t \in FoldedTests(shown)}
      /\ report'.impacted = Impacted(shown) /\ report'.reached = Reached(shown)
      /\ report'.stopped = Stopped(d) /\ report'.ceiling = AtCeiling(d)
      /\ report'.ends = report.ends /\ report'.past = report.past
      /\ report'.pastCut = report.pastCut
  BY <1>1, <1>3 DEF ReportSet
<1>6. shown \in SUBSET Symbols
  BY <1>1 DEF Within, Found
<1>7. WalkTyped'
  <2>1. Stopped(d) \in BOOLEAN /\ AtCeiling(d) \in BOOLEAN
    BY DEF Stopped, AtCeiling
  <2>2. report' \in ReportSet
    BY <1>1, <1>3, <1>6, <2>1, ListsType DEF ReportSet
  <2>3. QED
    BY <1>2, <1>3, <2>2 DEF WalkTyped, IsIndex
<1>8. LevelsInv'
  BY <1>2, <1>3, SameIndex DEF LevelsInv, RowsArePaths, IsNew, FrontierIsLast, SeenIsReached,
     CalledIsExpanded
<1>9. \A t \in LikelyTests(shown) : Listed(t)'
  BY <1>5 DEF Listed
<1>10. ASSUME ~AtCeiling(d)
       PROVE  /\ shown = Within(d) /\ Cardinality(Within(d)) <= RowCeiling
              /\ \A s \in Symbols : s \in shown <=> CallsWithin(s, d) /\ IsFound(s)
  <2>1. shown = Within(d) /\ Cardinality(Within(d)) <= RowCeiling
    BY <1>1, <1>10, ShownAll
  <2>2. QED
    BY <1>2, <1>3, <1>4, <2>1, WithinAre
<1>11. TestsOfFound'
  <2>1. ASSUME ~AtCeiling(d), NEW s \in Symbols, CallsWithin(s, d) /\ IsFound(s),
               NEW t \in TestsOf(s)
        PROVE  Listed(t)'
    BY <1>9, <1>10, <2>1, LikelyAre
  <2>2. QED
    BY <1>2, <1>5, <2>1, SameIndex DEF TestsOfFound
<1>12. SeedTestsListed'
  <2>1. ASSUME NEW s \in request.seeds, graph.role[s] = "test" PROVE Listed(s)'
    BY <1>9, <2>1, TestForItself DEF LikelyTests, SeedTests
  <2>2. QED
    BY <1>2, <2>1 DEF SeedTestsListed
<1>13. DirectTestsListed'
  <2>1. ASSUME ~AtCeiling(d), NEW t \in Symbols, graph.role[t] = "test",
               t \notin report'.tests, NEW n \in 1..d, <<t, 0>> \in PathEnds[n]
        PROVE  FALSE
    <3>1. CallsWithin(t, d) /\ IsFound(t)
      BY <2>1, TestForItself DEF CallsWithin, Calls
    <3>2. t \in shown /\ t \in TestsOf(t)
      BY <1>10, <2>1, <3>1, TestForItself
    <3>3. t \in FoldedTests(shown)
      BY <1>5, <2>1, <3>2, LikelyAre
    <3>4. ViaOf(t) = 1
      BY <3>2, <3>3 DEF FoldedTests, ConstructorOnly
    <3>5. n \in 1..WalkBound(d)
      BY <1>4
    <3>6. PICK m \in 1..walk.depth : <<t, 0>> \in PathEnds[m]
      BY <1>2, <1>3, <1>4, <2>1, <3>5, Covered
    <3>7. RowsOf(t) # {} /\ ViaOf(t) <= 0
      BY <1>3, <3>6, ReachedHasRow
    <3>8. QED
      BY <3>4, <3>7
  <2>2. QED
    BY <1>2, <1>5, <2>1, SameIndex DEF DirectTestsListed
<1>14. ImpactedAreFound'
  <2>1. ASSUME ~AtCeiling(d)
        PROVE  Impacted(shown) = {s \in Symbols : /\ CallsWithin(s, d) /\ IsFound(s)
                                                  /\ ~IsTestRole(s) /\ EnclosingTests(s) = {}}
    BY <1>6, <1>10, <2>1 DEF Impacted
  <2>2. QED
    BY <1>2, <1>5, <2>1, SameIndex DEF ImpactedAreFound
<1>15. PastAreCounted'
  <2>1. ASSUME wphase' = "ends", ~AtCeiling(d), ~RanIntoLow',
               NEW t \in Symbols, graph.role[t] = "test", CallsWithin(t, request.probe)
        PROVE  Listed(t)'
    <3>1. ASSUME CallsWithin(t, d) PROVE Listed(t)'
      BY <1>2, <1>5, <1>11, <2>1, <3>1, SameIndex, TestForItself DEF TestsOfFound
    <3>2. CASE request.probe <= d
      <4>1. CallsWithin(t, d)
        BY <1>4, <2>1, <3>2 DEF CallsWithin
      <4>2. QED
        BY <3>1, <4>1
    <3>3. CASE request.probe > d
      <4>1. ~Stopped(d)
        BY <1>2, <2>1, <3>3
      <4>2. Found = Within(d)
        BY <1>10, <2>1, <4>1 DEF Stopped
      <4>3. ~\E s \in Symbols : /\ graph.role[s] = "low" /\ RowsOf(s) # {}
                                /\ DepthOf(s) = request.depth + 1
        BY <1>2, <1>5, <2>1, <4>1 DEF RanIntoLow, RowsOf, DepthOf
      <4>4. PICK n \in 1..request.probe, v \in {0, 1} : <<t, v>> \in PathEnds[n]
        BY <2>1 DEF CallsWithin, Calls
      <4>5. n \in 0..request.probe /\ <<t, v>>[1] = t
        BY <1>4
      <4>6. t \in request.seeds \/ CallsWithin(t, d)
        <5> DEFINE p == <<t, v>>
        <5>1. p \in PathEnds[n] /\ p[1] = t
          BY <4>4
        <5> HIDE DEF p
        <5>2. QED
          BY <1>2, <1>3, <4>2, <4>3, <4>5, <5>1, NothingFurther
      <4>7. CASE t \in request.seeds
        BY <1>2, <1>12, <2>1, <4>7 DEF SeedTestsListed
      <4>8. QED
        BY <3>1, <4>6, <4>7
    <3>4. QED
      BY <1>4, <3>2, <3>3
  <2>2. wphase' # "done"
    BY <1>2
  <2>3. QED
    BY <1>2, <1>5, <2>1, <2>2, SameIndex DEF PastAreCounted
<1>16. ProbeIsDue' /\ EndsAreUncalled'
  BY <1>2, <1>5 DEF ProbeIsDue, EndsAreUncalled
<1>17. PhaseInv'
  <2>1. report.past = {}
    BY <1>2 DEF WalkInv, ReportInv, PhaseInv, PastIsElse
  <2>2. request.kind # "file" => FoldedTests(shown) = {}
    BY DEF FoldedTests
  <2>3. QED
    BY <1>2, <1>5, <2>1, <2>2 DEF PhaseInv, PastIsElse, FilesAreFolded, WalkIsFar, CanExtend
<1>18. QED
  BY <1>7, <1>8, <1>11, <1>12, <1>13, <1>14, <1>15, <1>16, <1>17 DEF WalkInv, ReportInv, ListsInv

LEMMA CountPastKeeps == ASSUME WalkInv, CountPast PROVE WalkInv'
<1> DEFINE d == request.probe
<1>1. PICK shown \in SUBSET Within(d) :
        /\ IsCut(shown, Within(d))
        /\ report' = [report EXCEPT
               !.past    = (LikelyTests(shown) \ (FoldedTests(shown) \cup report.tests))
                           \cup ({FileOf[t] : t \in FoldedTests(shown)} \ report.files),
               !.reached = Reached(shown),
               !.pastCut = AtCeiling(d)]
  BY DEF CountPast
<1>2. /\ wphase = "probe" /\ ~CanExtend(WalkBound(d)) /\ UNCHANGED <<graph, request, walk>>
      /\ wphase' = "ends"
  BY DEF CountPast
<1>3. /\ WalkTyped /\ LevelsInv /\ report \in ReportSet /\ IsIndex(graph)
      /\ request \in RequestSet /\ MaxBlastDepth \in Nat
  BY DEF WalkInv, WalkTyped
<1>4. d \in 0..MaxBlastDepth /\ WalkBound(d) \in 0..MaxBlastDepth /\ d \in 0..WalkBound(d)
  BY <1>3 DEF RequestSet, WalkBound
<1>5. /\ report'.past = (LikelyTests(shown) \ (FoldedTests(shown) \cup report.tests))
                        \cup ({FileOf[t] : t \in FoldedTests(shown)} \ report.files)
      /\ report'.reached = Reached(shown) /\ report'.pastCut = AtCeiling(d)
      /\ report'.tests = report.tests /\ report'.files = report.files
      /\ report'.impacted = report.impacted /\ report'.ends = report.ends
      /\ report'.stopped = report.stopped /\ report'.ceiling = report.ceiling
  BY <1>1, <1>3 DEF ReportSet
<1>6. shown \in SUBSET Symbols
  BY <1>1 DEF Within, Found
<1>7. WalkTyped'
  <2>1. AtCeiling(d) \in BOOLEAN
    BY DEF AtCeiling
  <2>2. report' \in ReportSet
    BY <1>1, <1>3, <1>6, <2>1, ListsType DEF ReportSet
  <2>3. QED
    BY <1>2, <1>3, <2>2 DEF WalkTyped, IsIndex
<1>8. LevelsInv'
  BY <1>2, <1>3, SameIndex DEF LevelsInv, RowsArePaths, IsNew, FrontierIsLast, SeenIsReached,
     CalledIsExpanded
<1>9. ListsInv'
  BY <1>2, <1>5, SameIndex DEF WalkInv, ReportInv, ListsInv, TestsOfFound, SeedTestsListed,
     DirectTestsListed, ImpactedAreFound, Listed
<1>10. PastAreCounted'
  <2>1. ASSUME ~AtCeiling(d), NEW t \in Symbols, graph.role[t] = "test", CallsWithin(t, d)
        PROVE  Listed(t)' \/ LeftOut(t)'
    <3>1. shown = Within(d)
      BY <1>1, <2>1, ShownAll
    <3>2. t \in shown
      BY <1>2, <1>3, <1>4, <2>1, <3>1, TestForItself, WithinAre
    <3>3. t \in LikelyTests(shown)
      BY <2>1, <3>2, TestForItself, LikelyAre
    <3>4. QED
      BY <1>5, <3>3 DEF Listed, LeftOut
  <2>2. QED
    BY <1>2, <1>5, <2>1, SameIndex DEF PastAreCounted
<1>11. ProbeIsDue' /\ EndsAreUncalled'
  BY <1>2 DEF ProbeIsDue, EndsAreUncalled
<1>12. PhaseInv'
  <2>1. report.stopped /\ request.probe > request.depth
    BY <1>2 DEF WalkInv, ReportInv, ProbeIsDue
  <2>2. report.tests \subseteq Symbols /\ LikelyTests(shown) \subseteq Symbols
    BY <1>3, <1>6, ListsType DEF ReportSet
  <2>3. report.files \cap Symbols = {} /\ {FileOf[t] : t \in FoldedTests(shown)} \cap Symbols = {}
    <3>1. FileNames \cap Symbols = {}
      BY DEF FileNames
    <3>2. report.files \subseteq FileNames /\ {FileOf[t] : t \in FoldedTests(shown)} \subseteq FileNames
      BY <1>3, <1>6, ListsType DEF ReportSet
    <3>3. QED
      BY <3>1, <3>2
  <2>4. PastIsElse'
    BY <1>2, <1>5, <2>1, <2>2, <2>3 DEF PastIsElse
  <2>5. QED
    BY <1>2, <1>5, <2>4 DEF WalkInv, ReportInv, PhaseInv, FilesAreFolded, WalkIsFar, CanExtend
<1>13. QED
  BY <1>7, <1>8, <1>9, <1>10, <1>11, <1>12 DEF WalkInv, ReportInv

-----------------------------------------------------------------------------
(* The walk by itself. *)

LEMMA StartedInv ==
    ASSUME IsIndex(graph), request \in RequestSet, walk = Started(request.seeds),
           wphase = "walk", report = EmptyReport
    PROVE  WalkInv
<1>1. LevelsInv /\ walk.depth = 0
      /\ walk.rows \subseteq [id : Symbols, depth : 0..MaxBlastDepth, via : {0, 1}]
  BY StartedLevels
<1>2. report \in ReportSet
  BY DEF EmptyReport, ReportSet
<1>3. WalkTyped
  BY <1>1, <1>2 DEF WalkTyped
<1>4. ReportInv
  BY DEF ReportInv, ListsInv, TestsOfFound, SeedTestsListed, DirectTestsListed, ImpactedAreFound,
     PastAreCounted, ProbeIsDue, EndsAreUncalled, PhaseInv, PastIsElse, FilesAreFolded,
     WalkIsFar, EmptyReport
<1>5. QED
  BY <1>1, <1>3, <1>4 DEF WalkInv

LEMMA WalkStepKeeps == ASSUME WalkInv, [WalkNext]_walkVars PROVE WalkInv'
<1>1. CASE WalkOn
  BY <1>1, WalkOnKeeps
<1>2. CASE Collect
  BY <1>2, CollectKeeps
<1>3. CASE CountPast
  BY <1>3, CountPastKeeps
<1>4. CASE OpenEnds
  BY <1>4, OpenEndsKeep
<1>5. CASE UNCHANGED walkVars
  <2>1. UNCHANGED <<graph, request, walk, wphase, report>>
    BY <1>5 DEF walkVars
  <2>2. WalkTyped' /\ LevelsInv'
    BY <2>1, SameIndex DEF WalkInv, WalkTyped, IsIndex, LevelsInv, RowsArePaths, IsNew,
       FrontierIsLast, SeenIsReached, CalledIsExpanded
  <2>3. RanIntoLow' = RanIntoLow
    BY <2>1 DEF RanIntoLow, RowsOf, DepthOf
  <2>4. ReportInv'
    BY <2>1, <2>3, SameIndex DEF WalkInv, ReportInv, ListsInv, TestsOfFound, SeedTestsListed,
       DirectTestsListed, ImpactedAreFound, PastAreCounted, ProbeIsDue, EndsAreUncalled,
       Listed, LeftOut, PhaseInv, PastIsElse, FilesAreFolded, WalkIsFar, CanExtend
  <2>5. QED
    BY <2>2, <2>4 DEF WalkInv
<1>6. QED
  BY <1>1, <1>2, <1>3, <1>4, <1>5 DEF WalkNext

(* What the invariant says of a finished walk.                             *)
LEMMA WalkIsRight ==
    ASSUME WalkInv
    PROVE  /\ RowsAreShortestPaths /\ TestsAreListed
           /\ FoldedOnlyConstruct /\ OpenEndsAreUncalled
<1>1. RowsAreShortestPaths
  BY ShortestPaths DEF WalkInv
<1>2. TestsAreListed
  <2>1. ASSUME wphase = "done", NEW t \in Symbols, graph.role[t] = "test"
        PROVE  /\ (\E n \in 1..request.depth : Calls(t, n)) => Listed(t) \/ report.ceiling
               /\ (\E n \in 1..request.probe : Calls(t, n))
                    => Listed(t) \/ LeftOut(t) \/ report.ceiling \/ report.pastCut \/ RanIntoLow
    <3>1. CallsWithin(t, request.depth) => Listed(t) \/ report.ceiling
      BY <2>1, TestForItself DEF WalkInv, ReportInv, ListsInv, TestsOfFound
    <3>2. CallsWithin(t, request.probe)
            => Listed(t) \/ LeftOut(t) \/ report.ceiling \/ report.pastCut \/ RanIntoLow
      BY <2>1 DEF WalkInv, ReportInv, PastAreCounted
    <3>3. QED
      BY <3>1, <3>2 DEF CallsWithin
  <2>2. QED
    BY <2>1 DEF TestsAreListed, Calls
<1>3. FoldedOnlyConstruct
  BY DEF WalkInv, ReportInv, ListsInv, DirectTestsListed, FoldedOnlyConstruct
<1>4. OpenEndsAreUncalled
  BY DEF WalkInv, ReportInv, EndsAreUncalled, OpenEndsAreUncalled, IsCalled
<1>5. QED
  BY <1>1, <1>2, <1>3, <1>4

(* Whatever the index and the request: every level holds the symbols that  *)
(* paths of its length reach first, and what is collected, counted and     *)
(* listed follows from them (CallerWalk.extend, collect_walk and           *)
(* blast_radius_walk_with_options).                                        *)
THEOREM WalkInvariantHolds == WalkSpec => []WalkInv
<1>1. WalkInit => WalkInv
  BY StartedInv DEF WalkInit
<1>2. WalkInv /\ [WalkNext]_walkVars => WalkInv'
  BY WalkStepKeeps
<1>3. QED
  BY <1>1, <1>2, PTL DEF WalkSpec

(* Expanding each symbol once per via loses no row and no shorter depth:   *)
(* the rows are those that all paths together give (CallerWalk::extend).   *)
THEOREM WalkRowsAreShortestPaths == WalkSpec => []RowsAreShortestPaths
<1>1. WalkInv => RowsAreShortestPaths
  BY WalkIsRight
<1>2. QED
  BY <1>1, WalkInvariantHolds, PTL

(* No test within the depth is lost, and none within the probe is left     *)
(* uncounted, but for the ceiling and an unlisted caller just past the     *)
(* depth (collect_walk).                                                   *)
THEOREM WalkListsTests == WalkSpec => []TestsAreListed
<1>1. WalkInv => TestsAreListed
  BY WalkIsRight
<1>2. QED
  BY <1>1, WalkInvariantHolds, PTL

(* A test that is folded into its file has no path of plain calls          *)
(* (collect_walk).                                                         *)
THEOREM WalkFoldsConstructorTests == WalkSpec => []FoldedOnlyConstruct
<1>1. WalkInv => FoldedOnlyConstruct
  BY WalkIsRight
<1>2. QED
  BY <1>1, WalkInvariantHolds, PTL

(* Open ends are exactly the reached symbols that nobody else calls,       *)
(* whichever level of the walk they come from (open_ends).                 *)
THEOREM WalkOpenEndsAreUncalled == WalkSpec => []OpenEndsAreUncalled
<1>1. WalkInv => OpenEndsAreUncalled
  BY WalkIsRight
<1>2. QED
  BY <1>1, WalkInvariantHolds, PTL

-----------------------------------------------------------------------------
(* Two walks and the reports between them: the lengths of the ways. *)

(* A path of n kept steps leads from the seeds to s.                       *)
From(seeds, s, n) == \E v \in {0, 1} : <<s, v>> \in EndsFrom(graph.steps, seeds)[n]
Shortest(seeds, s, n) == /\ n \in 1..MaxBlastDepth /\ From(seeds, s, n)
                         /\ \A m \in 1..(n - 1) : ~From(seeds, s, m)

LEMMA FromSeeds ==
    ASSUME IsIndex(graph), NEW seeds \in SUBSET Symbols, NEW s
    PROVE  From(seeds, s, 0) <=> s \in seeds
<1>1. graph.steps \in SUBSET StepSet
  BY DEF IsIndex, GraphSet
<1>2. EndsFrom(graph.steps, seeds)[0] = seeds \X {0}
  BY <1>1, EndsFromDef
<1>3. QED
  BY <1>2 DEF From

LEMMA FromStep ==
    ASSUME IsIndex(graph), NEW seeds \in SUBSET Symbols, NEW n \in 0..(MaxBlastDepth - 1), NEW s
    PROVE  From(seeds, s, n + 1) <=>
             \E t \in graph.steps : t.kept /\ t.caller = s /\ From(seeds, t.origin, n)
<1> DEFINE ends == EndsFrom(graph.steps, seeds)
<1>1. graph.steps \in SUBSET StepSet
  BY DEF IsIndex, GraphSet
<1>2. n + 1 \in 1..MaxBlastDepth /\ (n + 1) - 1 = n /\ n \in 0..MaxBlastDepth
  OBVIOUS
<1>3. ends[n + 1] = Longer(graph.steps, ends[n]) /\ ends[n] \in SUBSET Place
  <2>1. /\ ends \in [0..MaxBlastDepth -> SUBSET Place]
        /\ \A k \in 1..MaxBlastDepth : ends[k] = Longer(graph.steps, ends[k - 1])
    BY <1>1, EndsFromDef
  <2> HIDE DEF ends
  <2>2. QED
    BY <1>2, <2>1
<1> HIDE DEF ends
<1>4. ASSUME NEW v \in {0, 1}, <<s, v>> \in ends[n + 1]
      PROVE  \E t \in graph.steps, w \in {0, 1} :
               t.kept /\ t.caller = s /\ <<t.origin, w>> \in ends[n]
  <2>1. PICK e \in ends[n], t \in graph.steps :
          /\ t.kept /\ t.origin = e[1]
          /\ <<s, v>> = <<t.caller, IF t.constructor THEN 1 ELSE e[2]>>
    BY <1>3, <1>4 DEF Longer
  <2>2. e = <<t.origin, e[2]>> /\ e[2] \in {0, 1}
    BY <1>3, <2>1 DEF Place
  <2>3. QED
    BY <2>1, <2>2
<1>5. ASSUME NEW t \in graph.steps, NEW w \in {0, 1}, t.kept, t.caller = s,
             <<t.origin, w>> \in ends[n]
      PROVE  \E v \in {0, 1} : <<s, v>> \in ends[n + 1]
  <2> DEFINE e == <<t.origin, w>>
  <2>1. e \in ends[n] /\ e[1] = t.origin /\ e[2] = w
    BY <1>5
  <2> HIDE DEF e
  <2>2. <<t.caller, IF t.constructor THEN 1 ELSE e[2]>> \in ends[n + 1]
    BY <1>3, <1>5, <2>1 DEF Longer
  <2>3. QED
    BY <1>5, <2>1, <2>2
<1>6. QED
  BY <1>4, <1>5 DEF From, ends

(* The reference of the joined answer is well defined.                     *)
LEMMA JoinedFromDef ==
    ASSUME NEW steps \in SUBSET StepSet, NEW seeds \in SUBSET Symbols,
           NEW joined \in SUBSET Symbols
    PROVE  /\ JoinedFrom(steps, seeds, joined)[0] = seeds
           /\ \A n \in 1..MaxBlastDepth : \A s :
                s \in JoinedFrom(steps, seeds, joined)[n] <=>
                  \/ n = 1 /\ s \in joined
                  \/ \E t \in steps : /\ t.kept /\ t.caller = s
                                      /\ t.origin \in JoinedFrom(steps, seeds, joined)[n - 1]
<1> DEFINE next(from) == {s.caller : s \in {t \in steps : t.kept /\ t.origin \in from}}
           more(n) == IF n = 1 THEN joined ELSE {}
           Is(f) == f = [n \in 0..MaxBlastDepth |->
                           IF n = 0 THEN seeds
                           ELSE next(f[n - 1]) \cup (IF n = 1 THEN joined ELSE {})]
           S == SUBSET Symbols
           N == MaxBlastDepth
           F == [k \in 1..N |-> [x \in S |-> next(x) \cup more(k)]]
           j == JoinedFrom(steps, seeds, joined)
<1>1. F \in [1..N -> [S -> S]]
  BY DEF StepSet
<1>2. PICK f \in [0..N -> S] : f[0] = seeds /\ \A k \in 1..N : f[k] = F[k][f[k - 1]]
  <2>1. N \in Nat /\ seeds \in S
    OBVIOUS
  <2> HIDE DEF F, S, N
  <2>2. QED
    BY <1>1, <2>1, Iteration, SMT
<1>3. ASSUME NEW k \in 1..N PROVE f[k] = next(f[k - 1]) \cup more(k)
  <2>1. f[k - 1] \in S
    BY <1>2
  <2> HIDE DEF next, more
  <2>2. F[k][f[k - 1]] = next(f[k - 1]) \cup more(k)
    BY <2>1
  <2> HIDE DEF F
  <2>3. QED
    BY <1>2, <2>2
<1>4. Is(f)
  <2> HIDE DEF next
  <2>1. QED
    BY <1>2, <1>3
<1>5. Is(j)
  <2>1. Is(CHOOSE g : Is(g))
    <3> HIDE DEF Is
    <3>1. QED
      BY <1>4
  <2>2. QED
    BY <2>1 DEF JoinedFrom
<1>6. \A n \in 0..N : j[n] = IF n = 0 THEN seeds ELSE next(j[n - 1]) \cup more(n)
  <2> HIDE DEF j
  <2>1. QED
    BY <1>5 DEF j
<1>7. j[0] = seeds /\ \A n \in 1..N : j[n] = next(j[n - 1]) \cup more(n)
  <2>1. N \in Nat /\ 0 \in 0..N
    OBVIOUS
  <2> HIDE DEF j, next, more, N
  <2>2. j[0] = seeds
    BY <1>6, <2>1
  <2>3. ASSUME NEW n \in 1..N PROVE j[n] = next(j[n - 1]) \cup more(n)
    <3>1. n \in 0..N /\ n # 0
      BY <2>1
    <3>2. QED
      BY <1>6, <3>1
  <2>4. QED
    BY <2>2, <2>3
<1>8. \A x, s : s \in next(x) <=> \E t \in steps : t.kept /\ t.caller = s /\ t.origin \in x
  OBVIOUS
<1>9. \A n, s : s \in more(n) <=> n = 1 /\ s \in joined
  OBVIOUS
<1>10. QED
  <2> HIDE DEF j, next, more
  <2>1. \A n \in 1..N : \A s :
          s \in j[n] <=> \/ n = 1 /\ s \in joined
                         \/ \E t \in steps : t.kept /\ t.caller = s /\ t.origin \in j[n - 1]
    BY <1>7, <1>8, <1>9
  <2>2. QED
    BY <1>7, <2>1 DEF j

(* The joined ways are those of the first walk and, one step later, those  *)
(* of a second walk from the callers that the first has not one step away. *)
LEMMA JoinedSplit ==
    ASSUME IsIndex(graph), NEW seeds \in SUBSET Symbols, NEW joined \in SUBSET Symbols,
           NEW added \in SUBSET joined, \A c \in joined \ added : From(seeds, c, 1)
    PROVE  \A n \in 1..MaxBlastDepth : \A s \in Symbols :
             s \in JoinedFrom(graph.steps, seeds, joined)[n]
               <=> From(seeds, s, n) \/ From(added, s, n - 1)
<1> DEFINE j == JoinedFrom(graph.steps, seeds, joined)
           Splits(n) == \A s \in Symbols : s \in j[n] <=> From(seeds, s, n) \/ From(added, s, n - 1)
           T == {n \in Nat : n + 1 <= MaxBlastDepth => Splits(n + 1)}
<1>1. graph.steps \in SUBSET StepSet /\ added \in SUBSET Symbols
  BY DEF IsIndex, GraphSet
<1>2. \A t \in graph.steps : t.origin \in Symbols /\ t.caller \in Symbols
  BY <1>1 DEF StepSet
<1>3. /\ j[0] = seeds
      /\ \A n \in 1..MaxBlastDepth : \A s :
           s \in j[n] <=>
             \/ n = 1 /\ s \in joined
             \/ \E t \in graph.steps : t.kept /\ t.caller = s /\ t.origin \in j[n - 1]
  BY <1>1, JoinedFromDef
<1> HIDE DEF j
<1>4. Splits(1)
  <2>1. 1 \in 1..MaxBlastDepth /\ 0 \in 0..(MaxBlastDepth - 1) /\ 0 + 1 = 1 /\ 1 - 1 = 0
    OBVIOUS
  <2>2. \A s : s \in j[1] <=> (\E t \in graph.steps : t.kept /\ t.caller = s /\ t.origin \in seeds)
                              \/ s \in joined
    BY <1>3, <2>1
  <2>3. \A s : From(seeds, s, 1) <=>
                 \E t \in graph.steps : t.kept /\ t.caller = s /\ t.origin \in seeds
    BY <2>1, FromStep, FromSeeds
  <2>4. \A s : From(added, s, 1 - 1) <=> s \in added
    BY <1>1, <2>1, FromSeeds
  <2>5. QED
    BY <2>2, <2>3, <2>4
<1>5. 0 \in T
  BY <1>4
<1>6. ASSUME NEW n \in Nat, n \in T PROVE n + 1 \in T
  <2>1. SUFFICES ASSUME (n + 1) + 1 <= MaxBlastDepth PROVE Splits((n + 1) + 1)
    OBVIOUS
  <2> DEFINE k == n + 1
  <2>2. /\ k \in Nat /\ k \in 1..MaxBlastDepth /\ k + 1 \in 1..MaxBlastDepth /\ k + 1 # 1
        /\ (k + 1) - 1 = k /\ (k - 1) + 1 = k /\ k - 1 \in 0..(MaxBlastDepth - 1)
        /\ k \in 0..(MaxBlastDepth - 1)
    BY <2>1
  <2>3. Splits(k)
    BY <1>6, <2>1
  <2> HIDE DEF k
  <2>4. \A s : s \in j[k + 1] <=> \E t \in graph.steps : t.kept /\ t.caller = s /\ t.origin \in j[k]
    BY <1>3, <2>2
  <2>5. \A s : From(seeds, s, k + 1) <=>
                 \E t \in graph.steps : t.kept /\ t.caller = s /\ From(seeds, t.origin, k)
    BY <2>2, FromStep
  <2>6. \A s : From(added, s, (k - 1) + 1) <=>
                 \E t \in graph.steps : t.kept /\ t.caller = s /\ From(added, t.origin, k - 1)
    BY <1>1, <2>2, FromStep
  <2>7. Splits(k + 1)
    BY <1>2, <2>2, <2>3, <2>4, <2>5, <2>6
  <2>8. QED
    BY <2>7 DEF k
<1>7. \A n \in Nat : n \in T
  <2> HIDE DEF T
  <2>1. QED
    BY <1>5, <1>6, SetInduction
<1>8. ASSUME NEW n \in 1..MaxBlastDepth PROVE Splits(n)
  <2>1. n - 1 \in Nat /\ (n - 1) + 1 = n /\ n <= MaxBlastDepth
    OBVIOUS
  <2>2. n - 1 \in T
    BY <1>7, <2>1
  <2> HIDE DEF Splits
  <2>3. QED
    BY <2>1, <2>2
<1>9. QED
  BY <1>8 DEF j

-----------------------------------------------------------------------------
(* The rows of one finished walk. *)

IsCode(s) == graph.role[s] # "low" /\ ~IsTestRole(s) /\ EnclosingTests(s) = {}
RowsOfReport == {[id |-> s, depth |-> DepthOf(s)] : s \in report.impacted}

LEMMA FinishedRows ==
    ASSUME WalkInv, wphase = "done", ~report.ceiling, NEW r \in RowsOfReport
    PROVE  /\ r.id \in Symbols \ request.seeds /\ IsCode(r.id)
           /\ Shortest(request.seeds, r.id, r.depth) /\ r.depth \in 1..request.depth
<1>0. /\ WalkTyped /\ LevelsInv /\ request \in RequestSet /\ walk.depth \in 0..MaxBlastDepth
      /\ MaxBlastDepth \in Nat
  BY DEF WalkInv, WalkTyped
<1>1. PICK s \in report.impacted : r = [id |-> s, depth |-> DepthOf(s)]
  BY DEF RowsOfReport
<1>2. /\ s \in Symbols /\ CallsWithin(s, request.depth) /\ IsFound(s) /\ ~IsTestRole(s)
      /\ EnclosingTests(s) = {}
  BY <1>1 DEF WalkInv, ReportInv, ListsInv, ImpactedAreFound
<1>3. s \notin request.seeds /\ IsCode(s)
  BY <1>2 DEF IsFound, IsCode
<1>4. PICK n \in 1..request.depth, v \in {0, 1} : <<s, v>> \in PathEnds[n]
  BY <1>2 DEF CallsWithin, Calls
<1> DEFINE b == WalkBound(request.depth)
<1>5. b \in 0..MaxBlastDepth /\ n \in 1..b /\ request.depth \in 1..MaxBlastDepth
  BY <1>0 DEF WalkBound, RequestSet
<1>6. ~CanExtend(b)
  BY DEF WalkInv, ReportInv, PhaseInv, WalkIsFar
<1>7. PICK m \in 1..walk.depth : m <= n /\ <<s, v>> \in PathEnds[m]
  BY <1>0, <1>4, <1>5, <1>6, Covered
<1>8. RowsOf(s) # {} /\ DepthOf(s) <= m
  BY <1>0, <1>2, <1>7, ReachedHasRow
<1>9. /\ DepthOf(s) \in 1..walk.depth
      /\ \E w \in {0, 1} : <<s, w>> \in PathEnds[DepthOf(s)]
  BY <1>0, <1>2, <1>8, RowLeast
<1>10. DepthOf(s) \in 1..request.depth /\ DepthOf(s) \in 1..MaxBlastDepth
  BY <1>0, <1>5, <1>7, <1>8, <1>9
<1>11. ASSUME NEW k \in 1..(DepthOf(s) - 1), NEW w \in {0, 1}, <<s, w>> \in PathEnds[k]
       PROVE  FALSE
  <2>1. k \in 1..walk.depth /\ k < DepthOf(s) /\ k \in Nat
    BY <1>0, <1>9
  <2>2. DepthOf(s) <= k
    BY <1>0, <1>2, <1>11, <2>1, ReachedHasRow
  <2>3. QED
    BY <1>9, <2>1, <2>2
<1>12. Shortest(request.seeds, s, DepthOf(s))
  BY <1>9, <1>10, <1>11 DEF Shortest, From, PathEnds
<1>13. QED
  BY <1>1, <1>2, <1>3, <1>10, <1>12

(* What a way of the asked length reaches is answered for: it is listed,   *)
(* or stands for tests that are.                                           *)
InTests(t, tests) == t \in tests \/ FileOf[t] \in tests
IsAnswered(s, rows, tests) ==
    \/ graph.role[s] = "low"
    \/ s \in RowIds(rows)
    \/ TestsOf(s) # {} /\ \A t \in TestsOf(s) : InTests(t, tests)

LEMMA FinishedAnswers ==
    ASSUME WalkInv, wphase = "done", ~report.ceiling, NEW s \in Symbols,
           NEW n \in 1..request.depth, From(request.seeds, s, n), s \notin request.seeds
    PROVE  IsAnswered(s, RowsOfReport, report.tests \cup report.files)
<1>1. CallsWithin(s, request.depth)
  BY DEF From, PathEnds, Calls, CallsWithin
<1>2. CASE graph.role[s] = "low"
  BY <1>2 DEF IsAnswered
<1>3. CASE graph.role[s] # "low"
  <2>1. IsFound(s)
    BY <1>3 DEF IsFound
  <2>2. \A t \in TestsOf(s) : InTests(t, report.tests \cup report.files)
    BY <1>1, <2>1 DEF WalkInv, ReportInv, ListsInv, TestsOfFound, Listed, InTests
  <2>3. CASE IsTestRole(s)
    <3>1. TestsOf(s) # {}
      BY <2>3 DEF TestsOf, StandsFor
    <3>2. QED
      BY <2>2, <3>1 DEF IsAnswered
  <2>4. CASE ~IsTestRole(s) /\ EnclosingTests(s) # {}
    BY <2>2, <2>4 DEF IsAnswered, TestsOf
  <2>5. CASE ~IsTestRole(s) /\ EnclosingTests(s) = {}
    <3>1. s \in report.impacted
      BY <1>1, <2>1, <2>5 DEF WalkInv, ReportInv, ListsInv, ImpactedAreFound
    <3>2. s \in RowIds(RowsOfReport)
      <4>1. [id |-> s, depth |-> DepthOf(s)] \in RowsOfReport
        BY <3>1 DEF RowsOfReport
      <4>2. [id |-> s, depth |-> DepthOf(s)].id = s
        OBVIOUS
      <4>3. QED
        BY <4>1, <4>2 DEF RowIds
    <3>3. QED
      BY <3>2 DEF IsAnswered
  <2>6. QED
    BY <2>3, <2>4, <2>5
<1>4. QED
  BY <1>2, <1>3

-----------------------------------------------------------------------------
(* The rows of two walks and the reports between them. *)

Nearest(rows, tests, ends) ==
    LET at(s) == {n \in 1..asked.depth : s \in ends[n]}
    IN /\ \A r \in rows : r.id # NoSymbol =>
            /\ r.depth \in at(r.id)
            /\ r.id \notin asked.seeds => r.depth = LeastOf(at(r.id))
       /\ \A s \in Symbols \ asked.seeds : at(s) # {} => IsAnswered(s, rows, tests)

(* An answer with the callers of the reports joined: `added` are those     *)
(* that a second walk goes on from.                                        *)
JoinedAs(rows, tests, joined, added) ==
    /\ joined \subseteq Symbols \cup {NoSymbol} /\ added \subseteq joined \ {NoSymbol}
    /\ \A c \in (joined \ {NoSymbol}) \ added : From(asked.seeds, c, 1)
    /\ \A r \in rows : r.id # NoSymbol =>
         \/ r.id \in added /\ r.depth = 1
         \/ /\ r.id \in Symbols \ (added \cup asked.seeds) /\ IsCode(r.id)
            /\ Shortest(asked.seeds, r.id, r.depth) /\ r.depth <= asked.depth
    /\ added \subseteq RowIds(rows)
    /\ \A s \in Symbols \ asked.seeds : \A n \in 1..asked.depth :
         From(asked.seeds, s, n) => IsAnswered(s, rows, tests)

(* What a second walk found, one level deeper.                             *)
DeeperAs(rows, tests, added) ==
    /\ \A r \in rows : /\ r.id \in Symbols \ added /\ IsCode(r.id)
                       /\ r.depth \in 2..asked.depth /\ Shortest(added, r.id, r.depth - 1)
    /\ \A s \in Symbols \ added : \A n \in 1..(asked.depth - 1) :
         From(added, s, n) => IsAnswered(s, rows, tests)

LEMMA ShortestIsLeast ==
    ASSUME NEW seeds, NEW s, NEW n, Shortest(seeds, s, n),
           NEW m \in 1..MaxBlastDepth, From(seeds, s, m)
    PROVE  n <= m
BY DEF Shortest

(* Merged by the nearest row, the two give the shortest joined ways.       *)
LEMMA Combine ==
    ASSUME asked \in QuestionSet, IsIndex(graph), NEW rows, NEW tests, NEW joined, NEW added,
           JoinedAs(rows, tests, joined, added),
           NEW deeper, NEW all, DeeperAs(deeper, all, added), tests \subseteq all,
           NEW nearer, nearer \subseteq rows \cup deeper,
           \A q \in rows \cup deeper : q.id \in Symbols => \E r \in nearer : r.id = q.id,
           \A r \in nearer, q \in rows \cup deeper :
               r.id = q.id /\ r.id \in Symbols => r.depth <= q.depth
    PROVE  Nearest(nearer, all, JoinedFrom(graph.steps, asked.seeds, joined \ {NoSymbol}))
<1> DEFINE j == JoinedFrom(graph.steps, asked.seeds, joined \ {NoSymbol})
           at(s) == {n \in 1..asked.depth : s \in j[n]}
<1>0. /\ asked.seeds \in SUBSET Symbols /\ asked.depth \in 1..MaxBlastDepth
      /\ MaxBlastDepth \in Nat /\ joined \ {NoSymbol} \in SUBSET Symbols
      /\ added \in SUBSET (joined \ {NoSymbol}) /\ added \in SUBSET Symbols
  BY DEF QuestionSet, JoinedAs
<1>1. \A n \in 1..MaxBlastDepth : \A s \in Symbols :
        s \in j[n] <=> From(asked.seeds, s, n) \/ From(added, s, n - 1)
  <2>1. \A c \in (joined \ {NoSymbol}) \ added : From(asked.seeds, c, 1)
    BY DEF JoinedAs
  <2> DEFINE known == joined \ {NoSymbol}
  <2>2. known \in SUBSET Symbols /\ added \in SUBSET known
    BY <1>0
  <2>3. \A c \in known \ added : From(asked.seeds, c, 1)
    BY <2>1
  <2> HIDE DEF known
  <2>4. \A n \in 1..MaxBlastDepth : \A s \in Symbols :
          s \in JoinedFrom(graph.steps, asked.seeds, known)[n]
            <=> From(asked.seeds, s, n) \/ From(added, s, n - 1)
    BY <1>0, <2>2, <2>3, JoinedSplit
  <2>5. QED
    BY <2>4 DEF known
<1> HIDE DEF j
<1>2. \A s \in Symbols : \A n : n \in at(s) <=>
        n \in 1..asked.depth /\ (From(asked.seeds, s, n) \/ From(added, s, n - 1))
  BY <1>0, <1>1
<1>3. \A s : From(added, s, 0) <=> s \in added
  BY <1>0, FromSeeds
<1> HIDE DEF at
<1>4. \A r \in rows : r.id # NoSymbol =>
        \/ r.id \in added /\ r.depth = 1
        \/ /\ r.id \in Symbols \ (added \cup asked.seeds) /\ IsCode(r.id)
           /\ Shortest(asked.seeds, r.id, r.depth) /\ r.depth <= asked.depth
  BY DEF JoinedAs
<1>5. \A r \in deeper : /\ r.id \in Symbols \ added /\ IsCode(r.id)
                        /\ r.depth \in 2..asked.depth /\ Shortest(added, r.id, r.depth - 1)
  BY DEF DeeperAs
<1>6. ASSUME NEW s \in Symbols, IsCode(s), NEW rs, NEW ts, IsAnswered(s, rs, ts)
      PROVE  \E q \in rs : q.id = s
  BY <1>6 DEF IsAnswered, IsCode, TestsOf, RowIds
<1>7. ASSUME NEW r \in nearer, r.id # NoSymbol
      PROVE  /\ r.id \in Symbols /\ r.depth \in at(r.id)
             /\ r.id \notin asked.seeds => \A n \in at(r.id) : r.depth <= n
  <2> DEFINE s == r.id
  <2>1. CASE r \in rows /\ s \in added /\ r.depth = 1
    <3>1. 1 \in 1..asked.depth /\ 1 - 1 = 0 /\ s \in Symbols
      BY <1>0, <2>1
    <3>2. QED
      BY <1>2, <1>3, <2>1, <3>1
  <2>2. CASE /\ r \in rows /\ s \in Symbols \ (added \cup asked.seeds) /\ IsCode(s)
             /\ Shortest(asked.seeds, s, r.depth) /\ r.depth <= asked.depth
    <3>1. r.depth \in 1..asked.depth /\ From(asked.seeds, s, r.depth)
      BY <1>0, <2>2 DEF Shortest
    <3>2. ASSUME NEW n \in 1..asked.depth, From(asked.seeds, s, n) PROVE r.depth <= n
      BY <1>0, <2>2, <3>2, ShortestIsLeast
    <3>3. ASSUME NEW n \in 1..asked.depth, From(added, s, n - 1) PROVE r.depth <= n
      <4>1. n # 1
        BY <1>3, <2>2, <3>3
      <4>2. n - 1 \in 1..(asked.depth - 1) /\ n - 1 \in 1..MaxBlastDepth
        BY <1>0, <4>1
      <4>3. IsAnswered(s, deeper, all)
        BY <2>2, <3>3, <4>2 DEF DeeperAs
      <4>4. PICK q \in deeper : q.id = s
        BY <1>6, <2>2, <4>3
      <4>5. q.depth \in 2..asked.depth /\ Shortest(added, s, q.depth - 1)
        BY <1>5, <4>4
      <4>6. q.depth - 1 <= n - 1
        BY <3>3, <4>2, <4>5, ShortestIsLeast
      <4>7. r.depth <= q.depth
        BY <2>2, <4>4
      <4>8. QED
        BY <1>0, <3>1, <4>5, <4>6, <4>7
    <3>4. QED
      BY <1>2, <2>2, <3>1, <3>2, <3>3
  <2>3. CASE r \in deeper
    <3>1. /\ s \in Symbols \ added /\ IsCode(s) /\ r.depth \in 2..asked.depth
          /\ Shortest(added, s, r.depth - 1)
      BY <1>5, <2>3
    <3>2. From(added, s, r.depth - 1)
      BY <3>1 DEF Shortest
    <3>3. ASSUME s \notin asked.seeds, NEW n \in 1..asked.depth, From(asked.seeds, s, n)
          PROVE  r.depth <= n
      <4>1. IsAnswered(s, rows, tests)
        BY <3>1, <3>3 DEF JoinedAs
      <4>2. PICK q \in rows : q.id = s
        BY <1>6, <3>1, <4>1
      <4>3. Shortest(asked.seeds, s, q.depth)
        BY <1>4, <3>1, <4>2
      <4>4. q.depth <= n /\ q.depth \in Nat
        BY <1>0, <3>3, <4>3, ShortestIsLeast DEF Shortest
      <4>5. r.depth <= q.depth
        BY <3>1, <4>2
      <4>6. QED
        BY <1>0, <3>1, <4>4, <4>5
    <3>4. ASSUME NEW n \in 1..asked.depth, From(added, s, n - 1) PROVE r.depth <= n
      <4>1. n # 1
        BY <1>3, <3>1, <3>4
      <4>2. n - 1 \in 1..MaxBlastDepth
        BY <1>0, <4>1
      <4>3. r.depth - 1 <= n - 1
        BY <3>1, <3>4, <4>2, ShortestIsLeast
      <4>4. QED
        BY <1>0, <3>1, <4>3
    <3>5. QED
      BY <1>0, <1>2, <3>1, <3>2, <3>3, <3>4
  <2>4. QED
    BY <1>4, <1>7, <2>1, <2>2, <2>3
<1>8. ASSUME NEW r \in nearer, r.id # NoSymbol, r.id \notin asked.seeds
      PROVE  r.depth = LeastOf(at(r.id))
  <2>1. r.depth \in at(r.id) /\ \A n \in at(r.id) : r.depth <= n
    BY <1>7, <1>8
  <2>2. at(r.id) \in SUBSET Nat
    BY <1>0, <1>2, <1>7, <1>8
  <2>3. Min(at(r.id)) \in at(r.id) /\ \A y \in at(r.id) : Min(at(r.id)) <= y
    BY <2>1, <2>2, LeastNat
  <2>4. Min(at(r.id)) <= r.depth /\ r.depth <= Min(at(r.id)) /\ r.depth \in Nat /\ Min(at(r.id)) \in Nat
    BY <2>1, <2>2, <2>3
  <2>5. QED
    BY <2>4 DEF LeastOf
<1>9. ASSUME NEW s \in Symbols \ asked.seeds, NEW n \in at(s) PROVE IsAnswered(s, nearer, all)
  <2>1. n \in 1..asked.depth /\ (From(asked.seeds, s, n) \/ From(added, s, n - 1))
    BY <1>2
  <2>2. \A q \in rows \cup deeper : q.id = s => s \in RowIds(nearer)
    BY DEF RowIds
  <2>3. CASE From(asked.seeds, s, n)
    <3>1. IsAnswered(s, rows, tests)
      BY <2>1, <2>3 DEF JoinedAs
    <3>2. QED
      BY <2>2, <3>1 DEF IsAnswered, RowIds, InTests
  <2>4. CASE s \in added
    <3>1. s \in RowIds(rows)
      BY <2>4 DEF JoinedAs
    <3>2. QED
      BY <2>2, <3>1 DEF IsAnswered, RowIds
  <2>5. CASE s \notin added /\ From(added, s, n - 1)
    <3>1. n # 1
      BY <1>3, <2>5
    <3>2. n - 1 \in 1..(asked.depth - 1)
      BY <1>0, <2>1, <3>1
    <3>3. IsAnswered(s, deeper, all)
      BY <2>5, <3>2 DEF DeeperAs
    <3>4. QED
      BY <2>2, <3>3 DEF IsAnswered, RowIds
  <2>6. QED
    BY <2>1, <2>3, <2>4, <2>5
<1>10. QED
  BY <1>7, <1>8, <1>9 DEF Nearest, at, j

LEMMA NothingFromNobody ==
    ASSUME IsIndex(graph), NEW n \in 0..MaxBlastDepth, NEW s
    PROVE  ~From({}, s, n)
<1> DEFINE T == {k \in Nat : k <= MaxBlastDepth => \A x : ~From({}, x, k)}
<1>1. 0 \in T
  BY FromSeeds
<1>2. ASSUME NEW k \in Nat, k \in T PROVE k + 1 \in T
  <2>1. SUFFICES ASSUME k + 1 <= MaxBlastDepth PROVE \A x : ~From({}, x, k + 1)
    OBVIOUS
  <2>2. k \in 0..(MaxBlastDepth - 1) /\ {} \in SUBSET Symbols
    BY <2>1
  <2>3. \A x : ~From({}, x, k)
    BY <1>2, <2>1
  <2>4. QED
    BY <2>2, <2>3, FromStep
<1>3. \A k \in Nat : k \in T
  <2> HIDE DEF T
  <2>1. QED
    BY <1>1, <1>2, SetInduction
<1>4. QED
  BY <1>3

(* Without a second walk the joined rows stand as they are.                *)
LEMMA NoDeeper ==
    ASSUME asked \in QuestionSet, IsIndex(graph), NEW rows, NEW tests, NEW joined, NEW added,
           JoinedAs(rows, tests, joined, added), asked.depth = 1 \/ added = {}
    PROVE  Nearest(rows, tests, JoinedFrom(graph.steps, asked.seeds, joined \ {NoSymbol}))
<1>0. asked.depth \in 1..MaxBlastDepth /\ MaxBlastDepth \in Nat
  BY DEF QuestionSet
<1>1. DeeperAs({}, tests, added)
  <2>1. ASSUME NEW s, NEW n \in 1..(asked.depth - 1) PROVE ~From(added, s, n)
    <3>1. added = {} /\ n \in 0..MaxBlastDepth
      BY <1>0
    <3>2. QED
      BY <3>1, NothingFromNobody
  <2>2. QED
    BY <2>1 DEF DeeperAs
<1>2. ASSUME NEW r \in rows, NEW q \in rows, r.id = q.id, r.id \in Symbols
      PROVE  r.depth <= q.depth
  <2>1. r.id # NoSymbol
    BY <1>2
  <2>2. CASE r.id \in added
    BY <1>2, <2>1, <2>2 DEF JoinedAs
  <2>3. CASE r.id \notin added
    <3>1. Shortest(asked.seeds, r.id, r.depth) /\ Shortest(asked.seeds, r.id, q.depth)
      BY <1>2, <2>1, <2>3 DEF JoinedAs
    <3>2. QED
      BY <3>1, ShortestIsLeast DEF Shortest
  <2>4. QED
    BY <2>2, <2>3
<1>3. rows \cup {} = rows
  OBVIOUS
<1>4. QED
  BY <1>1, <1>2, <1>3, Combine

(* The callers of the reports join the rows of the first walk.             *)
LEMMA FirstJoin ==
    ASSUME asked \in QuestionSet, WalkInv, wphase = "done", ~report.ceiling,
           request.seeds = asked.seeds, request.depth = asked.depth,
           NEW callers \in SUBSET (Symbols \cup {NoSymbol}),
           NEW tests, report.tests \cup report.files \subseteq tests
    PROVE  JoinedAs(Join(RowsOfReport, callers), tests, callers,
                    Added(RowsOfReport, callers) \ {NoSymbol})
<1> DEFINE W == RowsOfReport
           rows == Join(W, callers)
           added == Added(W, callers) \ {NoSymbol}
<1>0. /\ asked.depth \in 1..MaxBlastDepth /\ MaxBlastDepth \in Nat /\ IsIndex(graph)
  BY DEF QuestionSet, WalkInv, WalkTyped
<1>1. \A r \in W : /\ r.id \in Symbols \ asked.seeds /\ IsCode(r.id)
                   /\ Shortest(asked.seeds, r.id, r.depth) /\ r.depth \in 1..asked.depth
  BY FinishedRows
<1>2. \A s \in Symbols \ asked.seeds : \A n \in 1..asked.depth :
        From(asked.seeds, s, n) => IsAnswered(s, W, report.tests \cup report.files)
  BY FinishedAnswers
<1> HIDE DEF W
<1>3. \A c : c \in added <=> c \in callers /\ c # NoSymbol /\ ~HasRow(W, c, 1)
  BY DEF Added
<1>4. \A r : r \in rows <=> \/ r \in W /\ (r.id \notin callers \/ r.depth <= 1)
                            \/ \E c \in callers : ~HasRow(W, c, 1) /\ r = [id |-> c, depth |-> 1]
  BY DEF Join
<1> HIDE DEF rows, added
<1>5. ASSUME NEW c \in (callers \ {NoSymbol}) \ added PROVE From(asked.seeds, c, 1)
  <2>1. PICK r \in W : r.id = c /\ r.depth <= 1
    BY <1>3 DEF HasRow
  <2>2. r.depth = 1
    BY <1>0, <1>1, <2>1
  <2>3. QED
    BY <1>1, <2>1, <2>2 DEF Shortest
<1>6. ASSUME NEW r \in rows, r.id # NoSymbol
      PROVE  \/ r.id \in added /\ r.depth = 1
             \/ /\ r.id \in Symbols \ (added \cup asked.seeds) /\ IsCode(r.id)
                /\ Shortest(asked.seeds, r.id, r.depth) /\ r.depth <= asked.depth
  <2>1. CASE r \in W /\ (r.id \notin callers \/ r.depth <= 1)
    <3>1. r.id \notin added
      BY <1>3, <2>1 DEF HasRow
    <3>2. r.depth <= asked.depth
      BY <1>0, <1>1, <2>1
    <3>3. QED
      BY <1>1, <2>1, <3>1, <3>2
  <2>2. CASE \E c \in callers : ~HasRow(W, c, 1) /\ r = [id |-> c, depth |-> 1]
    BY <1>3, <1>6, <2>2
  <2>3. QED
    BY <1>4, <2>1, <2>2
<1>7. ASSUME NEW c \in callers, ~HasRow(W, c, 1) PROVE c \in RowIds(rows)
  <2>1. [id |-> c, depth |-> 1] \in rows /\ [id |-> c, depth |-> 1].id = c
    BY <1>4, <1>7
  <2>2. QED
    BY <2>1 DEF RowIds
<1>8. added \subseteq RowIds(rows)
  BY <1>3, <1>7
<1>9. \A s \in RowIds(W) : s \in RowIds(rows)
  <2>1. ASSUME NEW r \in W PROVE r.id \in RowIds(rows)
    <3>1. CASE r.id \in callers /\ ~HasRow(W, r.id, 1)
      BY <1>7, <3>1
    <3>2. CASE r.id \notin callers
      <4>1. r \in rows
        BY <1>4, <3>2
      <4>2. QED
        BY <4>1 DEF RowIds
    <3>3. CASE HasRow(W, r.id, 1)
      <4>1. PICK q \in W : q.id = r.id /\ q.depth <= 1
        BY <3>3 DEF HasRow
      <4>2. q \in rows
        BY <1>4, <4>1
      <4>3. QED
        BY <4>1, <4>2 DEF RowIds
    <3>4. QED
      BY <3>1, <3>2, <3>3
  <2>2. QED
    BY <2>1 DEF RowIds
<1>10. ASSUME NEW s \in Symbols \ asked.seeds, NEW n \in 1..asked.depth, From(asked.seeds, s, n)
       PROVE  IsAnswered(s, rows, tests)
  <2>1. IsAnswered(s, W, report.tests \cup report.files)
    BY <1>2, <1>10
  <2>2. QED
    BY <1>9, <2>1 DEF IsAnswered, InTests
<1>11. JoinedAs(rows, tests, callers, added)
  <2>1. callers \subseteq Symbols \cup {NoSymbol} /\ added \subseteq callers \ {NoSymbol}
    BY <1>3
  <2>2. QED
    BY <1>5, <1>6, <1>8, <1>10, <2>1 DEF JoinedAs
<1>12. QED
  BY <1>11 DEF rows, added, W

(* No caller joins. *)
LEMMA NothingJoins ==
    ASSUME asked \in QuestionSet, WalkInv, wphase = "done", ~report.ceiling,
           request.seeds = asked.seeds, request.depth = asked.depth
    PROVE  Nearest(RowsOfReport, report.tests \cup report.files,
                   JoinedFrom(graph.steps, asked.seeds, {} \ {NoSymbol}))
<1> DEFINE W == RowsOfReport
<1>1. Join(W, {}) = W /\ Added(W, {}) \ {NoSymbol} = {}
  BY DEF Join, Added
<1>2. JoinedAs(Join(W, {}), report.tests \cup report.files, {}, Added(W, {}) \ {NoSymbol})
  BY FirstJoin
<1>3. JoinedAs(W, report.tests \cup report.files, {}, {})
  BY <1>1, <1>2
<1>4. IsIndex(graph)
  BY DEF WalkInv, WalkTyped
<1>5. QED
  BY <1>3, <1>4, NoDeeper

-----------------------------------------------------------------------------
(* The question. *)

IsAnswer(a) ==
    /\ a = [rows |-> a.rows, tests |-> a.tests, ends |-> a.ends, past |-> a.past,
            counted |-> a.counted, ceiling |-> a.ceiling, stopped |-> a.stopped,
            joined |-> a.joined, tied |-> a.tied, failed |-> a.failed,
            unvisited |-> a.unvisited, cut |-> a.cut]
    /\ a.counted \in BOOLEAN /\ a.ceiling \in BOOLEAN /\ a.cut \in BOOLEAN

BlastTyped ==
    /\ asked \in QuestionSet /\ asked.targets \subseteq asked.seeds /\ IsIndex(graph)
    /\ stage \in {"asked", "walk", "deeper", "finish", "done"} /\ IsAnswer(answer)
    /\ IF stage = "asked" THEN answer = NoAnswer ELSE WalkInv
FirstWalk ==
    stage = "walk" => /\ request.seeds = asked.seeds /\ request.depth = asked.depth
                      /\ answer.joined = {} /\ ~answer.cut
PastIsCounted ==
    stage \in {"deeper", "finish"} => ~answer.cut /\ (answer.past # {} => answer.counted)
DeeperWalk ==
    stage = "deeper" => /\ request.kind = "symbol" /\ request.depth = asked.depth - 1
                        /\ JoinedAs(answer.rows, answer.tests, answer.joined, request.seeds)
AnswerIsNearest ==
    stage \in {"finish", "done"} /\ ~answer.ceiling /\ ~answer.cut =>
        Nearest(answer.rows, answer.tests, JoinedEnds)

BlastInv == /\ BlastTyped /\ FirstWalk /\ PastIsCounted /\ DeeperWalk /\ AnswerIsNearest
            /\ PastIsUnlisted

LEMMA SameAsked ==
    ASSUME UNCHANGED <<graph, asked>>
    PROVE  /\ \A rows, tests, joined, added :
                JoinedAs(rows, tests, joined, added)' = JoinedAs(rows, tests, joined, added)
           /\ \A rows, tests, ends : Nearest(rows, tests, ends)' = Nearest(rows, tests, ends)
<1>1. \A seeds, s, n : From(seeds, s, n)' = From(seeds, s, n)
  BY DEF From
<1>2. \A seeds, s, n : Shortest(seeds, s, n)' = Shortest(seeds, s, n)
  BY <1>1 DEF Shortest
<1>3. \A s : IsTestRole(s)' = IsTestRole(s) /\ EnclosingTests(s)' = EnclosingTests(s)
  BY DEF IsTestRole, EnclosingTests, ScopesOf
<1>4. \A s : StandsFor(s)' = StandsFor(s)
  BY DEF StandsFor, ServedBy, FixtureUsers, Takers
<1>5. \A s : TestsOf(s)' = TestsOf(s) /\ IsCode(s)' = IsCode(s)
  BY <1>3, <1>4 DEF TestsOf, IsCode
<1>6. \A s, rows, tests : IsAnswered(s, rows, tests)' = IsAnswered(s, rows, tests)
  BY <1>5 DEF IsAnswered
<1>7. \A rows, tests, joined, added :
        JoinedAs(rows, tests, joined, added)' = JoinedAs(rows, tests, joined, added)
  BY <1>1, <1>2, <1>5, <1>6 DEF JoinedAs
<1>8. \A rows, tests, ends : Nearest(rows, tests, ends)' = Nearest(rows, tests, ends)
  BY <1>6 DEF Nearest
<1>9. QED
  BY <1>7, <1>8

(* A walk begins. *)
LEMMA BeginWalkInv ==
    ASSUME IsIndex(graph), UNCHANGED graph, NEW kind \in {"symbol", "file"},
           NEW seeds \in SUBSET Symbols, NEW reported \in SUBSET Symbols,
           NEW depth \in 1..MaxBlastDepth, NEW probe \in 0..MaxBlastDepth,
           BeginWalk(kind, seeds, reported, depth, probe)
    PROVE  WalkInv' /\ request'.kind = kind /\ request'.seeds = seeds /\ request'.depth = depth
<1>1. /\ request' = [kind |-> kind, seeds |-> seeds, reported |-> reported,
                     depth |-> depth, probe |-> probe]
      /\ walk' = Started(seeds) /\ wphase' = "walk" /\ report' = EmptyReport
  BY DEF BeginWalk
<1>2. request'.kind = kind /\ request'.seeds = seeds /\ request'.depth = depth
  BY <1>1
<1>3. request' \in RequestSet
  BY <1>1 DEF RequestSet
<1>4. IsIndex(graph)'
  BY DEF IsIndex
<1>5. (walk = Started(request.seeds))'
  BY <1>1, <1>2 DEF Started
<1>6. (IsIndex(graph) /\ request \in RequestSet /\ walk = Started(request.seeds)
       /\ wphase = "walk" /\ report = EmptyReport)'
  BY <1>1, <1>3, <1>4, <1>5 DEF EmptyReport
<1>7. WalkInv'
  BY <1>6, StartedInv, PTL
<1>8. QED
  BY <1>2, <1>7

LEMMA AskKeeps ==
    ASSUME BlastInv, AskSymbol \/ AskChanges \/ AskFile
    PROVE  BlastInv'
<1>1. /\ stage = "asked" /\ stage' = "walk" /\ UNCHANGED <<graph, asked>> /\ answer = NoAnswer
      /\ asked \in QuestionSet /\ IsIndex(graph)
  BY DEF AskSymbol, AskChanges, AskFile, BlastInv, BlastTyped
<1>2. asked.seeds \in SUBSET Symbols /\ asked.depth \in 1..MaxBlastDepth
      /\ MaxBlastDepth \in 0..MaxBlastDepth
  BY <1>1 DEF QuestionSet
<1>3. IsAnswer(answer) /\ answer.joined = {} /\ answer.cut = FALSE
  BY <1>1 DEF NoAnswer, IsAnswer
<1>4. /\ WalkInv' /\ request'.seeds = asked.seeds /\ request'.depth = asked.depth
      /\ IsAnswer(answer)' /\ answer'.joined = {} /\ answer'.cut = FALSE
  <2>1. CASE AskSymbol
    BY <1>1, <1>2, <1>3, <2>1, BeginWalkInv DEF AskSymbol, IsAnswer
  <2>2. CASE AskChanges
    BY <1>1, <1>2, <1>3, <2>2, BeginWalkInv DEF AskChanges, IsAnswer
  <2>3. CASE AskFile
    <3>1. PICK unvisited \in SUBSET asked.targets :
            \E failed \in SUBSET (asked.targets \ unvisited) :
              LET reported == asked.targets \ (unvisited \cup failed)
                  tests == UNION {{x \in ReportTests(t) : ~NameOnly(t, x)} : t \in reported}
              IN /\ answer' = [answer EXCEPT !.unvisited = unvisited, !.failed = failed,
                                             !.tied = Tied(reported)]
                 /\ BeginWalk("file", asked.seeds, tests, asked.depth, MaxBlastDepth)
      BY <2>3 DEF AskFile
    <3>2. PICK failed \in SUBSET (asked.targets \ unvisited) :
              LET reported == asked.targets \ (unvisited \cup failed)
                  tests == UNION {{x \in ReportTests(t) : ~NameOnly(t, x)} : t \in reported}
              IN /\ answer' = [answer EXCEPT !.unvisited = unvisited, !.failed = failed,
                                             !.tied = Tied(reported)]
                 /\ BeginWalk("file", asked.seeds, tests, asked.depth, MaxBlastDepth)
      BY <3>1
    <3> DEFINE reported == asked.targets \ (unvisited \cup failed)
               tests == UNION {{x \in ReportTests(t) : ~NameOnly(t, x)} : t \in reported}
    <3>3. tests \in SUBSET Symbols
      BY DEF ReportTests
    <3>4. BeginWalk("file", asked.seeds, tests, asked.depth, MaxBlastDepth)
      BY <3>2
    <3>5. answer' = [answer EXCEPT !.unvisited = unvisited, !.failed = failed,
                                   !.tied = Tied(reported)]
      BY <3>2
    <3> HIDE DEF reported, tests
    <3>6. IsAnswer(answer)' /\ answer'.joined = {} /\ answer'.cut = FALSE
      BY <1>1, <3>5 DEF IsAnswer, NoAnswer
    <3>7. QED
      BY <1>1, <1>2, <3>3, <3>4, <3>6, BeginWalkInv
  <2>4. QED
    BY <2>1, <2>2, <2>3
<1>5. BlastTyped'
  BY <1>1, <1>4 DEF BlastInv, BlastTyped, IsIndex
<1>6. QED
  BY <1>1, <1>4, <1>5 DEF BlastInv, FirstWalk, PastIsCounted, DeeperWalk, AnswerIsNearest,
     PastIsUnlisted

LEMMA WalkingKeeps == ASSUME BlastInv, Walking PROVE BlastInv'
<1>1. /\ stage \in {"walk", "deeper"} /\ WalkNext /\ UNCHANGED <<asked, stage, answer>>
  BY DEF Walking
<1>2. UNCHANGED <<graph, request>>
  BY <1>1 DEF WalkNext, WalkOn, Collect, CountPast, OpenEnds
<1>3. WalkInv
  BY <1>1 DEF BlastInv, BlastTyped
<1>4. WalkInv'
  BY <1>1, <1>3, WalkStepKeeps
<1>5. BlastTyped'
  BY <1>1, <1>2, <1>4 DEF BlastInv, BlastTyped, IsIndex, IsAnswer
<1>6. DeeperWalk'
  BY <1>1, <1>2, SameAsked DEF BlastInv, DeeperWalk
<1>7. QED
  BY <1>1, <1>2, <1>5, <1>6 DEF BlastInv, FirstWalk, PastIsCounted, AnswerIsNearest,
     PastIsUnlisted

(* What the walk found, as an answer. *)
LEMMA WalkedIs ==
    ASSUME BlastInv, stage = "walk"
    PROVE  /\ IsAnswer(Walked) /\ Walked.rows = RowsOfReport
           /\ Walked.tests = report.tests \cup report.files /\ Walked.past = report.past
           /\ Walked.counted = (report.stopped /\ request.probe > request.depth)
           /\ Walked.ceiling = report.ceiling /\ Walked.joined = {} /\ Walked.cut = FALSE
<1>1. IsAnswer(answer) /\ answer.joined = {} /\ answer.cut = FALSE /\ report \in ReportSet
  BY DEF BlastInv, BlastTyped, FirstWalk, WalkInv, WalkTyped, IsAnswer
<1>2. report.ceiling \in BOOLEAN
  BY <1>1 DEF ReportSet
<1> DEFINE counted == report.stopped /\ request.probe > request.depth
           ends == report.ends
           stopped == report.stopped
           tests == report.tests \cup report.files
           past == report.past
           ceiling == report.ceiling
<1>3. counted \in BOOLEAN
  OBVIOUS
<1>4. Walked = [answer EXCEPT !.rows = RowsOfReport, !.tests = tests, !.ends = ends,
                              !.past = past, !.counted = counted, !.ceiling = ceiling,
                              !.stopped = stopped]
  BY DEF Walked, RowsOfReport
<1>5. ceiling \in BOOLEAN
  BY <1>2
<1> HIDE DEF counted, ends, stopped, tests, past, ceiling
<1>6. Walked = [rows |-> RowsOfReport, tests |-> tests, ends |-> ends, past |-> past,
                counted |-> counted, ceiling |-> ceiling, stopped |-> stopped,
                joined |-> answer.joined, tied |-> answer.tied, failed |-> answer.failed,
                unvisited |-> answer.unvisited, cut |-> answer.cut]
  BY <1>1, <1>4 DEF IsAnswer
<1>7. /\ Walked.rows = RowsOfReport /\ Walked.tests = tests /\ Walked.ends = ends
      /\ Walked.past = past /\ Walked.counted = counted /\ Walked.ceiling = ceiling
      /\ Walked.stopped = stopped /\ Walked.joined = answer.joined
      /\ Walked.tied = answer.tied /\ Walked.failed = answer.failed
      /\ Walked.unvisited = answer.unvisited /\ Walked.cut = answer.cut
  BY <1>6
<1>8. IsAnswer(Walked)
  BY <1>1, <1>3, <1>5, <1>6, <1>7 DEF IsAnswer
<1>9. QED
  BY <1>1, <1>7, <1>8 DEF counted, tests, past, ceiling

(* The answer of the walk stays as it is. *)
LEMMA StayKeeps ==
    ASSUME BlastInv, stage = "walk", wphase = "done", NEW base, IsAnswer(base),
           base.rows = RowsOfReport, base.tests = report.tests \cup report.files,
           base.past = report.past, base.ceiling = report.ceiling, base.joined = {},
           Stay(base)
    PROVE  BlastInv'
<1>1. answer' = base /\ stage' = "done" /\ UNCHANGED <<graph, request, walk, wphase, report, asked>>
  BY DEF Stay, walkVars
<1>2. /\ asked \in QuestionSet /\ WalkInv
      /\ request.seeds = asked.seeds /\ request.depth = asked.depth
  BY DEF BlastInv, BlastTyped, FirstWalk
<1>3. WalkInv'
  <2>1. UNCHANGED walkVars
    BY <1>1 DEF walkVars
  <2>2. QED
    BY <1>2, <2>1, WalkStepKeeps
<1>4. BlastTyped'
  BY <1>1, <1>3 DEF BlastInv, BlastTyped, IsIndex, IsAnswer
<1>5. AnswerIsNearest'
  <2>1. ASSUME ~report.ceiling
        PROVE  Nearest(base.rows, base.tests,
                       JoinedFrom(graph.steps, asked.seeds, base.joined \ {NoSymbol}))
    BY <1>2, <2>1, NothingJoins
  <2>2. QED
    BY <1>1, <2>1, SameAsked DEF AnswerIsNearest, JoinedEnds
<1>6. PastIsUnlisted'
  <2>1. base.past \cap base.tests = {}
    BY <1>2 DEF WalkInv, ReportInv, PhaseInv, PastIsElse
  <2>2. QED
    BY <1>1, <2>1 DEF PastIsUnlisted
<1>7. QED
  BY <1>1, <1>4, <1>5, <1>6 DEF BlastInv, FirstWalk, PastIsCounted, DeeperWalk

(* The walk goes on from the callers that joined, or it is done.           *)
LEMMA GoOnKeeps ==
    ASSUME BlastInv, stage = "walk", wphase = "done", NEW base, IsAnswer(base),
           base.rows = RowsOfReport, report.tests \cup report.files \subseteq base.tests,
           base.past = report.past,
           base.counted = (report.stopped /\ request.probe > request.depth),
           ~report.ceiling, base.cut = FALSE,
           NEW callers \in SUBSET (Symbols \cup {NoSymbol}), GoOn(base, callers)
    PROVE  BlastInv'
<1> DEFINE added == Added(base.rows, callers) \ {NoSymbol}
           rows == Join(base.rows, callers)
<1>1. /\ answer' = [base EXCEPT !.rows = rows, !.joined = callers] /\ UNCHANGED <<graph, asked>>
      /\ \/ /\ asked.depth > 1 /\ added # {} /\ stage' = "deeper"
            /\ BeginWalk("symbol", added, {}, asked.depth - 1, MaxBlastDepth - 1)
         \/ /\ ~(asked.depth > 1 /\ added # {}) /\ stage' = "finish"
            /\ UNCHANGED <<request, walk, wphase, report>>
  BY DEF GoOn
<1>2. /\ asked \in QuestionSet /\ WalkInv /\ IsIndex(graph)
      /\ request.seeds = asked.seeds /\ request.depth = asked.depth
  BY DEF BlastInv, BlastTyped, FirstWalk
<1>3. JoinedAs(rows, base.tests, callers, added)
  BY <1>2, FirstJoin
<1>4. asked.depth \in 1..MaxBlastDepth /\ MaxBlastDepth \in Nat /\ added \in SUBSET Symbols
  BY <1>2, <1>3 DEF QuestionSet, JoinedAs
<1>5. base.past # {} => base.counted
  BY <1>2 DEF WalkInv, ReportInv, PhaseInv, PastIsElse
<1> HIDE DEF added, rows
<1>6. /\ IsAnswer(answer)' /\ answer'.rows = rows /\ answer'.joined = callers
      /\ answer'.tests = base.tests /\ answer'.past = base.past /\ answer'.counted = base.counted
      /\ answer'.ceiling = base.ceiling /\ answer'.cut = FALSE
  BY <1>1 DEF IsAnswer
<1>7. CASE asked.depth > 1 /\ added # {} /\ stage' = "deeper"
  <2>1. BeginWalk("symbol", added, {}, asked.depth - 1, MaxBlastDepth - 1)
    BY <1>1, <1>7
  <2>2. asked.depth - 1 \in 1..MaxBlastDepth /\ MaxBlastDepth - 1 \in 0..MaxBlastDepth
    BY <1>4, <1>7
  <2>3. /\ WalkInv' /\ request'.kind = "symbol" /\ request'.seeds = added
        /\ request'.depth = asked.depth - 1
    BY <1>1, <1>2, <1>4, <2>1, <2>2, BeginWalkInv
  <2>4. BlastTyped'
    BY <1>1, <1>6, <1>7, <2>3 DEF BlastInv, BlastTyped, IsIndex
  <2>5. DeeperWalk'
    BY <1>1, <1>3, <1>6, <2>3, SameAsked DEF DeeperWalk
  <2>6. QED
    BY <1>5, <1>6, <1>7, <2>4, <2>5 DEF BlastInv, FirstWalk, PastIsCounted, AnswerIsNearest,
       PastIsUnlisted
<1>8. CASE /\ ~(asked.depth > 1 /\ added # {}) /\ stage' = "finish"
           /\ UNCHANGED <<request, walk, wphase, report>>
  <2>1. UNCHANGED walkVars
    BY <1>1, <1>8 DEF walkVars
  <2>2. WalkInv'
    BY <1>2, <2>1, WalkStepKeeps
  <2>3. BlastTyped'
    BY <1>1, <1>6, <1>8, <2>2 DEF BlastInv, BlastTyped, IsIndex
  <2>4. asked.depth = 1 \/ added = {}
    BY <1>4, <1>8
  <2>5. Nearest(rows, base.tests, JoinedFrom(graph.steps, asked.seeds, callers \ {NoSymbol}))
    BY <1>2, <1>3, <2>4, NoDeeper
  <2>6. AnswerIsNearest'
    BY <1>1, <1>6, <2>5, SameAsked DEF AnswerIsNearest, JoinedEnds
  <2>7. QED
    BY <1>5, <1>6, <1>8, <2>3, <2>6 DEF BlastInv, FirstWalk, PastIsCounted, DeeperWalk,
       PastIsUnlisted
<1>9. QED
  BY <1>1, <1>7, <1>8

LEMMA ReportCallersType ==
    ASSUME asked \in QuestionSet, NEW t \in Symbols, NEW joins, NEW owns
    PROVE  ReportCallers(t, joins, owns) \in SUBSET (Symbols \cup {NoSymbol})
<1>1. asked.ties[t] \in SUBSET Ties
  BY DEF QuestionSet
<1>2. \A u \in Ties : u.caller \in Symbols \cup {NoSymbol}
  BY DEF Ties
<1>3. QED
  BY <1>1, <1>2 DEF ReportCallers

(* The callers of the reports join, or the answer of the walk stays.       *)
LEMMA JoinFileKeeps == ASSUME BlastInv, JoinFile PROVE BlastInv'
<1> DEFINE visited == asked.targets \ (answer.unvisited \cup answer.failed)
           ends == Walked.ends \ answer.tied
           base == [Walked EXCEPT !.ends = ends]
           callers == UNION {ReportCallers(t, base.rows # {}, FALSE) : t \in visited}
           outside == {c \in callers : c # NoSymbol => \A s \in asked.seeds : FileOf[c] # FileOf[s]}
<1>1. /\ stage = "walk" /\ wphase = "done"
      /\ IF base.ceiling THEN Stay(base) ELSE GoOn(base, outside)
  BY DEF JoinFile
<1>2. asked \in QuestionSet /\ asked.targets \in SUBSET Symbols
  BY DEF BlastInv, BlastTyped, QuestionSet
<1>3. callers \in SUBSET (Symbols \cup {NoSymbol})
  <2> DEFINE walked == base.rows # {}
  <2>1. callers = UNION {ReportCallers(t, walked, FALSE) : t \in visited}
    OBVIOUS
  <2> HIDE DEF base, walked, callers
  <2>2. visited \in SUBSET Symbols
    BY <1>2
  <2> HIDE DEF visited
  <2>3. \A t \in visited : ReportCallers(t, walked, FALSE) \in SUBSET (Symbols \cup {NoSymbol})
    BY <1>2, <2>2, ReportCallersType
  <2>4. QED
    BY <2>1, <2>3
<1>4. outside \in SUBSET (Symbols \cup {NoSymbol})
  BY <1>3
<1>5. /\ IsAnswer(base) /\ base.rows = RowsOfReport
      /\ base.tests = report.tests \cup report.files /\ base.past = report.past
      /\ base.counted = (report.stopped /\ request.probe > request.depth)
      /\ base.ceiling = report.ceiling /\ base.joined = {} /\ base.cut = FALSE
  <2> HIDE DEF ends
  <2>1. /\ IsAnswer(Walked) /\ Walked.rows = RowsOfReport
        /\ Walked.tests = report.tests \cup report.files /\ Walked.past = report.past
        /\ Walked.counted = (report.stopped /\ request.probe > request.depth)
        /\ Walked.ceiling = report.ceiling /\ Walked.joined = {} /\ Walked.cut = FALSE
    BY <1>1, WalkedIs
  <2> DEFINE a == Walked
  <2>2. base = [a EXCEPT !.ends = ends] /\ IsAnswer(a)
    BY <2>1
  <2> HIDE DEF base, a
  <2>3. base = [rows |-> a.rows, tests |-> a.tests, ends |-> ends, past |-> a.past,
               counted |-> a.counted, ceiling |-> a.ceiling, stopped |-> a.stopped,
               joined |-> a.joined, tied |-> a.tied, failed |-> a.failed,
               unvisited |-> a.unvisited, cut |-> a.cut]
    BY <2>2 DEF IsAnswer
  <2>4. /\ base.rows = a.rows /\ base.tests = a.tests /\ base.ends = ends /\ base.past = a.past
        /\ base.counted = a.counted /\ base.ceiling = a.ceiling /\ base.stopped = a.stopped
        /\ base.joined = a.joined /\ base.tied = a.tied /\ base.failed = a.failed
        /\ base.unvisited = a.unvisited /\ base.cut = a.cut
    BY <2>3
  <2>5. IsAnswer(base)
    BY <2>2, <2>3, <2>4 DEF IsAnswer
  <2>6. QED
    BY <2>1, <2>4, <2>5 DEF a
<1> HIDE DEF base, outside
<1>6. CASE base.ceiling
  BY <1>1, <1>5, <1>6, StayKeeps
<1>7. CASE ~base.ceiling
  BY <1>1, <1>4, <1>5, <1>7, GoOnKeeps
<1>8. QED
  BY <1>6, <1>7

LEMMA WalkedStays == ASSUME BlastInv, stage = "walk", wphase = "done", Stay(Walked) PROVE BlastInv'
<1> DEFINE base == Walked
<1>1. /\ IsAnswer(base) /\ base.rows = RowsOfReport
      /\ base.tests = report.tests \cup report.files /\ base.past = report.past
      /\ base.ceiling = report.ceiling /\ base.joined = {}
  BY WalkedIs
<1>2. Stay(base)
  OBVIOUS
<1> HIDE DEF base
<1>3. QED
  BY <1>1, <1>2, StayKeeps

LEMMA JoinChangesKeeps == ASSUME BlastInv, JoinChanges PROVE BlastInv'
<1>1. stage = "walk" /\ wphase = "done"
  BY DEF JoinChanges
<1>2. CASE asked.targets = {} \/ Walked.ceiling
  BY <1>1, <1>2, WalkedStays DEF JoinChanges
<1>3. CASE ~(asked.targets = {} \/ Walked.ceiling)
  <2>1. PICK failed \in SUBSET asked.targets :
          LET reported == asked.targets \ failed
              walked == Walked.rows # {}
              base == [Walked EXCEPT !.ends = @ \ Tied(reported), !.tied = Tied(reported),
                                     !.failed = failed,
                                     !.tests = @ \cup UNION {ReportTests(t) : t \in reported}]
              callers == UNION {ReportCallers(t, walked, walked /\ t \in asked.overloaded) :
                                  t \in reported}
          IN GoOn(base, callers \ asked.seeds)
    BY <1>3 DEF JoinChanges
  <2> DEFINE reported == asked.targets \ failed
             walked == Walked.rows # {}
             ends == Walked.ends \ Tied(reported)
             tied == Tied(reported)
             tests == Walked.tests \cup UNION {ReportTests(t) : t \in reported}
             base == [Walked EXCEPT !.ends = ends, !.tied = tied, !.failed = failed,
                                    !.tests = tests]
             callers == UNION {ReportCallers(t, walked, walked /\ t \in asked.overloaded) :
                                 t \in reported}
             joining == callers \ asked.seeds
  <2>2. GoOn(base, joining)
    BY <2>1
  <2>3. asked \in QuestionSet /\ reported \in SUBSET Symbols
    BY DEF BlastInv, BlastTyped, QuestionSet
  <2>4. callers \in SUBSET (Symbols \cup {NoSymbol})
    BY <2>3, ReportCallersType
  <2>5. joining \in SUBSET (Symbols \cup {NoSymbol})
    BY <2>4
  <2>6. Walked.tests \subseteq tests
    OBVIOUS
  <2>7. /\ IsAnswer(Walked) /\ Walked.rows = RowsOfReport
        /\ Walked.tests = report.tests \cup report.files /\ Walked.past = report.past
        /\ Walked.counted = (report.stopped /\ request.probe > request.depth)
        /\ Walked.ceiling = report.ceiling /\ Walked.joined = {} /\ Walked.cut = FALSE
    BY <1>1, WalkedIs
  <2> HIDE DEF tests, tied, ends, joining
  <2>8. base = [Walked EXCEPT !.ends = ends, !.tied = tied, !.failed = failed, !.tests = tests]
    OBVIOUS
  <2> HIDE DEF base
  <2>9. base = [rows |-> Walked.rows, tests |-> tests, ends |-> ends, past |-> Walked.past,
               counted |-> Walked.counted, ceiling |-> Walked.ceiling, stopped |-> Walked.stopped,
               joined |-> Walked.joined, tied |-> tied, failed |-> failed,
               unvisited |-> Walked.unvisited, cut |-> Walked.cut]
    BY <2>7, <2>8 DEF IsAnswer
  <2>10. /\ base.rows = Walked.rows /\ base.tests = tests /\ base.ends = ends /\ base.past = Walked.past
        /\ base.counted = Walked.counted /\ base.ceiling = Walked.ceiling /\ base.stopped = Walked.stopped
        /\ base.joined = Walked.joined /\ base.tied = tied /\ base.failed = failed
        /\ base.unvisited = Walked.unvisited /\ base.cut = Walked.cut
    BY <2>9
  <2>11. IsAnswer(base)
    BY <2>7, <2>8, <2>9, <2>10 DEF IsAnswer
  <2>12. /\ base.rows = RowsOfReport /\ report.tests \cup report.files \subseteq base.tests
        /\ base.past = report.past /\ base.cut = FALSE /\ ~report.ceiling
        /\ base.counted = (report.stopped /\ request.probe > request.depth)
    BY <1>3, <2>6, <2>7, <2>10
  <2>13. QED
    BY <1>1, <2>2, <2>5, <2>11, <2>12, GoOnKeeps
<1>4. QED
  BY <1>2, <1>3

LEMMA JoinSymbolKeeps == ASSUME BlastInv, JoinSymbol PROVE BlastInv'
<1>1. stage = "walk" /\ wphase = "done"
  BY DEF JoinSymbol
<1> DEFINE walked == Walked.rows # {}
           ends == Walked.ends \ Tied(asked.targets)
           tied == Tied(asked.targets)
           base == [Walked EXCEPT !.ends = ends, !.tied = tied]
           callers == UNION {ReportCallers(t, walked, walked /\ t \in asked.overloaded) :
                               t \in asked.targets}
           joining == IF walked THEN callers \ asked.targets ELSE callers
<1>2. Stay(Walked) \/ (~Walked.ceiling /\ GoOn(base, joining))
  BY DEF JoinSymbol
<1>3. CASE Stay(Walked)
  BY <1>1, <1>3, WalkedStays
<1>4. CASE ~Walked.ceiling /\ GoOn(base, joining)
  <2>1. asked \in QuestionSet /\ asked.targets \in SUBSET Symbols
    BY DEF BlastInv, BlastTyped, QuestionSet
  <2>2. callers \in SUBSET (Symbols \cup {NoSymbol})
    BY <2>1, ReportCallersType
  <2>3. joining \in SUBSET (Symbols \cup {NoSymbol})
    BY <2>2
  <2>4. /\ IsAnswer(Walked) /\ Walked.rows = RowsOfReport
        /\ Walked.tests = report.tests \cup report.files /\ Walked.past = report.past
        /\ Walked.counted = (report.stopped /\ request.probe > request.depth)
        /\ Walked.ceiling = report.ceiling /\ Walked.joined = {} /\ Walked.cut = FALSE
    BY <1>1, WalkedIs
  <2> HIDE DEF tied, ends, joining
  <2>5. base = [Walked EXCEPT !.ends = ends, !.tied = tied]
    OBVIOUS
  <2> HIDE DEF base
  <2>6. base = [rows |-> Walked.rows, tests |-> Walked.tests, ends |-> ends, past |-> Walked.past,
               counted |-> Walked.counted, ceiling |-> Walked.ceiling, stopped |-> Walked.stopped,
               joined |-> Walked.joined, tied |-> tied, failed |-> Walked.failed,
               unvisited |-> Walked.unvisited, cut |-> Walked.cut]
    BY <2>4, <2>5 DEF IsAnswer
  <2>7. /\ base.rows = Walked.rows /\ base.tests = Walked.tests /\ base.ends = ends /\ base.past = Walked.past
        /\ base.counted = Walked.counted /\ base.ceiling = Walked.ceiling /\ base.stopped = Walked.stopped
        /\ base.joined = Walked.joined /\ base.tied = tied /\ base.failed = Walked.failed
        /\ base.unvisited = Walked.unvisited /\ base.cut = Walked.cut
    BY <2>6
  <2>8. IsAnswer(base)
    BY <2>4, <2>5, <2>6, <2>7 DEF IsAnswer
  <2>9. /\ base.rows = RowsOfReport /\ report.tests \cup report.files \subseteq base.tests
        /\ base.past = report.past /\ base.cut = FALSE /\ ~report.ceiling
        /\ base.counted = (report.stopped /\ request.probe > request.depth)
    BY <1>4, <2>4, <2>7
  <2>10. GoOn(base, joining)
    BY <1>4
  <2>11. QED
    BY <1>1, <2>3, <2>8, <2>9, <2>10, GoOnKeeps
<1>5. QED
  BY <1>2, <1>3, <1>4

-----------------------------------------------------------------------------
(* The second walk's rows are merged. *)

(* Of the rows of one symbol, one is nearest.                              *)
LEMMA OneIsNearest ==
    ASSUME NEW all, NEW q \in all, \A r \in all : r.id = q.id => r.depth \in Nat
    PROVE  \E r \in all : /\ r.id = q.id
                          /\ \A p \in all : p.id = r.id => r.depth <= p.depth
<1> DEFINE depths == {r.depth : r \in {x \in all : x.id = q.id}}
<1>1. depths \in SUBSET Nat
  OBVIOUS
<1>2. q.depth \in depths
  OBVIOUS
<1>3. \A r \in all : r.id = q.id => r.depth \in depths
  OBVIOUS
<1>4. ASSUME NEW d \in depths PROVE \E r \in all : r.id = q.id /\ r.depth = d
  OBVIOUS
<1> HIDE DEF depths
<1>5. Min(depths) \in depths /\ \A d \in depths : Min(depths) <= d
  BY <1>1, <1>2, LeastNat
<1>6. PICK r \in all : r.id = q.id /\ r.depth = Min(depths)
  BY <1>4, <1>5
<1>7. QED
  BY <1>3, <1>5, <1>6

LEMMA MergedRows ==
    ASSUME asked \in QuestionSet, WalkInv, wphase = "done", ~report.ceiling,
           request.kind = "symbol", request.depth = asked.depth - 1,
           NEW rows, NEW tests, NEW joined, JoinedAs(rows, tests, joined, request.seeds),
           NEW all, all = rows \cup {[id |-> s, depth |-> DepthOf(s) + 1] : s \in report.impacted}
    PROVE  Nearest({r \in all : \A q \in all : q.id = r.id => r.depth <= q.depth},
                   tests \cup report.tests,
                   JoinedFrom(graph.steps, asked.seeds, joined \ {NoSymbol}))
<1> DEFINE deeper == {[id |-> s, depth |-> DepthOf(s) + 1] : s \in report.impacted}
           nearer == {r \in all : \A q \in all : q.id = r.id => r.depth <= q.depth}
           added == request.seeds
           listed == tests \cup report.tests
<1>0. /\ asked.depth \in 1..MaxBlastDepth /\ MaxBlastDepth \in Nat /\ IsIndex(graph)
      /\ report.files = {}
  BY DEF QuestionSet, WalkInv, WalkTyped, ReportInv, PhaseInv, FilesAreFolded
<1>1. ASSUME NEW r \in deeper
      PROVE  /\ r.id \in Symbols \ added /\ IsCode(r.id)
             /\ r.depth \in 2..asked.depth /\ Shortest(added, r.id, r.depth - 1)
  <2>1. PICK s \in report.impacted : r = [id |-> s, depth |-> DepthOf(s) + 1]
    OBVIOUS
  <2> DEFINE d == DepthOf(s)
             x == [id |-> s, depth |-> d]
  <2>2. x \in RowsOfReport
    BY DEF RowsOfReport
  <2>3. x.id = s /\ x.depth = d
    OBVIOUS
  <2>4. r.id = s /\ r.depth = d + 1
    BY <2>1
  <2> HIDE DEF d, x
  <2>5. /\ s \in Symbols \ added /\ IsCode(s) /\ Shortest(added, s, d) /\ d \in 1..request.depth
    BY <2>2, <2>3, FinishedRows
  <2>6. (d + 1) - 1 = d /\ d + 1 \in 2..asked.depth
    BY <1>0, <2>5
  <2>7. QED
    BY <2>4, <2>5, <2>6
<1>2. \A s : s \in RowIds(RowsOfReport) => s \in RowIds(deeper)
  <2>1. ASSUME NEW s \in report.impacted PROVE s \in RowIds(deeper)
    <3>1. [id |-> s, depth |-> DepthOf(s) + 1] \in deeper
      OBVIOUS
    <3>2. [id |-> s, depth |-> DepthOf(s) + 1].id = s
      OBVIOUS
    <3>3. QED
      BY <3>1, <3>2 DEF RowIds
  <2>2. QED
    BY <2>1 DEF RowIds, RowsOfReport
<1>3. ASSUME NEW s \in Symbols \ added, NEW n \in 1..(asked.depth - 1), From(added, s, n)
      PROVE  IsAnswered(s, deeper, listed)
  <2>1. IsAnswered(s, RowsOfReport, report.tests \cup report.files)
    BY <1>3, FinishedAnswers
  <2>2. QED
    BY <1>0, <1>2, <2>1 DEF IsAnswered, InTests
<1>4. all = rows \cup deeper
  OBVIOUS
<1> HIDE DEF deeper, added
<1>5. DeeperAs(deeper, listed, added)
  BY <1>1, <1>3 DEF DeeperAs
<1>6. JoinedAs(rows, tests, joined, added)
  BY DEF added
<1>7. ASSUME NEW r \in all, r.id \in Symbols PROVE r.depth \in Nat
  <2>1. CASE r \in deeper
    BY <1>1, <2>1
  <2>2. CASE r \in rows
    BY <1>6, <1>7, <2>2 DEF JoinedAs, Shortest
  <2>3. QED
    BY <1>4, <2>1, <2>2
<1>8. ASSUME NEW q \in all, q.id \in Symbols PROVE \E r \in nearer : r.id = q.id
  <2>1. \A r \in all : r.id = q.id => r.depth \in Nat
    BY <1>7, <1>8
  <2>2. PICK r \in all : /\ r.id = q.id
                         /\ \A p \in all : p.id = r.id => r.depth <= p.depth
    BY <2>1, OneIsNearest
  <2>3. r \in nearer
    BY <2>2
  <2>4. QED
    BY <2>2, <2>3
<1>9. \A r \in nearer : r \in all /\ \A q \in all : r.id = q.id /\ r.id \in Symbols => r.depth <= q.depth
  OBVIOUS
<1> HIDE DEF nearer, listed
<1>10. tests \subseteq listed
  BY DEF listed
<1>11. nearer \subseteq rows \cup deeper
  BY <1>4, <1>9
<1>12. Nearest(nearer, listed, JoinedFrom(graph.steps, asked.seeds, joined \ {NoSymbol}))
  BY <1>0, <1>4, <1>5, <1>6, <1>8, <1>9, <1>10, <1>11, Combine
<1>13. QED
  BY <1>12 DEF nearer, listed

LEMMA MergeKeeps == ASSUME BlastInv, Merge PROVE BlastInv'
<1> DEFINE all == answer.rows \cup {[id |-> s, depth |-> DepthOf(s) + 1] : s \in report.impacted}
           nearer == {r \in all : \A q \in all : q.id = r.id => r.depth <= q.depth}
           tests == answer.tests \cup report.tests
           probed == report.stopped /\ request.probe > request.depth
           past == IF probed THEN (answer.past \cup report.past) \ tests ELSE answer.past
           counted == answer.counted \/ probed
           ceiling == answer.ceiling \/ report.ceiling
           ends == answer.ends \cup report.ends
           stopped == answer.stopped \/ report.stopped
<1>1. /\ stage = "deeper" /\ wphase = "done" /\ stage' = "finish"
      /\ UNCHANGED walkVars /\ UNCHANGED asked
      /\ answer' = [answer EXCEPT !.rows = nearer, !.tests = tests, !.ends = ends,
                                  !.stopped = stopped, !.ceiling = ceiling, !.past = past,
                                  !.counted = counted]
  BY DEF Merge
<1>2. /\ asked \in QuestionSet /\ WalkInv /\ IsAnswer(answer)
      /\ asked.targets \subseteq asked.seeds
      /\ request.kind = "symbol" /\ request.depth = asked.depth - 1
      /\ JoinedAs(answer.rows, answer.tests, answer.joined, request.seeds)
      /\ ~answer.cut /\ (answer.past # {} => answer.counted)
  BY <1>1 DEF BlastInv, BlastTyped, DeeperWalk, PastIsCounted
<1>3. ~report.ceiling =>
        Nearest(nearer, tests, JoinedFrom(graph.steps, asked.seeds, answer.joined \ {NoSymbol}))
  <2>1. SUFFICES ASSUME ~report.ceiling
                 PROVE  Nearest(nearer, tests,
                                JoinedFrom(graph.steps, asked.seeds, answer.joined \ {NoSymbol}))
    OBVIOUS
  <2> DEFINE rows == answer.rows
             joined == answer.joined
             known == answer.tests
  <2>2. JoinedAs(rows, known, joined, request.seeds)
    BY <1>2
  <2>3. all = rows \cup {[id |-> s, depth |-> DepthOf(s) + 1] : s \in report.impacted}
    OBVIOUS
  <2> HIDE DEF rows, joined, known, all
  <2>4. Nearest({r \in all : \A q \in all : q.id = r.id => r.depth <= q.depth},
                known \cup report.tests,
                JoinedFrom(graph.steps, asked.seeds, joined \ {NoSymbol}))
    BY <1>1, <1>2, <2>1, <2>2, <2>3, MergedRows
  <2>5. QED
    BY <2>4 DEF known, joined
<1>4. counted \in BOOLEAN /\ ceiling \in BOOLEAN /\ (past # {} => counted)
      /\ (~ceiling => ~report.ceiling)
  BY <1>2
<1> HIDE DEF all, nearer, tests, probed, past, counted, ceiling, ends, stopped
<1>5. answer' = [rows |-> nearer, tests |-> tests, ends |-> ends, past |-> past,
                 counted |-> counted, ceiling |-> ceiling, stopped |-> stopped,
                 joined |-> answer.joined, tied |-> answer.tied, failed |-> answer.failed,
                 unvisited |-> answer.unvisited, cut |-> answer.cut]
  BY <1>1, <1>2 DEF IsAnswer
<1>6. /\ answer'.rows = nearer /\ answer'.tests = tests /\ answer'.ends = ends
      /\ answer'.past = past /\ answer'.counted = counted /\ answer'.ceiling = ceiling
      /\ answer'.stopped = stopped /\ answer'.joined = answer.joined
      /\ answer'.tied = answer.tied /\ answer'.failed = answer.failed
      /\ answer'.unvisited = answer.unvisited /\ answer'.cut = answer.cut
  BY <1>5
<1>7. IsAnswer(answer)'
  BY <1>2, <1>4, <1>5, <1>6 DEF IsAnswer
<1>8. WalkInv' /\ UNCHANGED <<graph, asked>>
  BY <1>1, <1>2, WalkStepKeeps DEF walkVars
<1>9. BlastTyped'
  BY <1>1, <1>2, <1>7, <1>8 DEF BlastTyped, WalkInv, WalkTyped
<1>10. AnswerIsNearest'
  BY <1>3, <1>4, <1>6, <1>8, SameAsked DEF AnswerIsNearest, JoinedEnds
<1>11. PastIsCounted'
  BY <1>2, <1>4, <1>6 DEF PastIsCounted
<1>12. QED
  BY <1>1, <1>9, <1>10, <1>11 DEF BlastInv, FirstWalk, DeeperWalk, PastIsUnlisted

-----------------------------------------------------------------------------
(* The answer is cut to its limits. *)

LEMMA MoreTests ==
    ASSUME NEW rows, NEW tests, NEW all, NEW ends, tests \subseteq all,
           Nearest(rows, tests, ends)
    PROVE  Nearest(rows, all, ends)
<1>1. ASSUME NEW s, IsAnswered(s, rows, tests) PROVE IsAnswered(s, rows, all)
  BY <1>1 DEF IsAnswered, InTests
<1>2. QED
  BY <1>1 DEF Nearest

LEMMA FinishKeeps == ASSUME BlastInv, Finish PROVE BlastInv'
<1>1. PICK rows \in SUBSET answer.rows, tests \in SUBSET FinalTests :
        answer' = [answer EXCEPT
                !.rows = rows, !.tests = tests,
                !.cut = rows # answer.rows \/ tests # FinalTests,
                !.past = IF asked.kind # "file" /\ answer.counted
                         THEN Listing(FinalTests, @) ELSE @]
  BY DEF Finish
<1> DEFINE cut == rows # answer.rows \/ tests # FinalTests
           past == IF asked.kind # "file" /\ answer.counted
                   THEN Listing(FinalTests, answer.past) ELSE answer.past
<1>2. stage = "finish" /\ stage' = "done" /\ UNCHANGED walkVars /\ UNCHANGED asked
  BY DEF Finish
<1>3. /\ asked \in QuestionSet /\ WalkInv /\ IsAnswer(answer)
      /\ asked.targets \subseteq asked.seeds
      /\ ~answer.cut /\ (answer.past # {} => answer.counted)
  BY <1>2 DEF BlastInv, BlastTyped, PastIsCounted
<1>4. answer' = [answer EXCEPT !.rows = rows, !.tests = tests, !.cut = cut, !.past = past]
  BY <1>1
<1>5. cut \in BOOLEAN /\ (~cut => rows = answer.rows /\ tests = FinalTests)
  OBVIOUS
<1>6. asked.kind # "file" => past \cap FinalTests = {}
  BY <1>3 DEF Listing
<1> HIDE DEF cut, past
<1>7. answer' = [rows |-> rows, tests |-> tests, ends |-> answer.ends, past |-> past,
                 counted |-> answer.counted, ceiling |-> answer.ceiling,
                 stopped |-> answer.stopped, joined |-> answer.joined, tied |-> answer.tied,
                 failed |-> answer.failed, unvisited |-> answer.unvisited, cut |-> cut]
  BY <1>3, <1>4 DEF IsAnswer
<1>8. /\ answer'.rows = rows /\ answer'.tests = tests /\ answer'.ends = answer.ends
      /\ answer'.past = past /\ answer'.counted = answer.counted
      /\ answer'.ceiling = answer.ceiling /\ answer'.stopped = answer.stopped
      /\ answer'.joined = answer.joined /\ answer'.tied = answer.tied
      /\ answer'.failed = answer.failed /\ answer'.unvisited = answer.unvisited
      /\ answer'.cut = cut
  BY <1>7
<1>9. IsAnswer(answer)'
  BY <1>3, <1>5, <1>7, <1>8 DEF IsAnswer
<1>10. WalkInv' /\ UNCHANGED <<graph, asked>>
  BY <1>2, <1>3, WalkStepKeeps DEF walkVars
<1>11. BlastTyped'
  BY <1>2, <1>3, <1>9, <1>10 DEF BlastTyped, WalkInv, WalkTyped
<1>12. answer.tests \subseteq FinalTests
  BY DEF FinalTests
<1>13. AnswerIsNearest'
  <2>1. ASSUME ~answer.ceiling, ~cut
        PROVE  Nearest(rows, tests,
                       JoinedFrom(graph.steps, asked.seeds, answer.joined \ {NoSymbol}))
    <3>1. Nearest(answer.rows, answer.tests,
                  JoinedFrom(graph.steps, asked.seeds, answer.joined \ {NoSymbol}))
      BY <1>2, <1>3, <2>1 DEF BlastInv, AnswerIsNearest, JoinedEnds
    <3>2. QED
      BY <1>5, <1>12, <2>1, <3>1, MoreTests
  <2>2. QED
    BY <1>8, <1>10, <2>1, SameAsked DEF AnswerIsNearest, JoinedEnds
<1>14. PastIsUnlisted'
  BY <1>2, <1>5, <1>6, <1>8 DEF PastIsUnlisted
<1>15. QED
  BY <1>2, <1>11, <1>13, <1>14 DEF BlastInv, FirstWalk, PastIsCounted, DeeperWalk

-----------------------------------------------------------------------------
(* Every step, and what the invariant says of an answer. *)

LEMMA BlastStepKeeps == ASSUME BlastInv, [BlastNext]_blastVars PROVE BlastInv'
<1>1. CASE AskSymbol \/ AskChanges \/ AskFile
  BY <1>1, AskKeeps
<1>2. CASE Walking
  BY <1>2, WalkingKeeps
<1>3. CASE JoinFile
  BY <1>3, JoinFileKeeps
<1>4. CASE JoinChanges
  BY <1>4, JoinChangesKeeps
<1>5. CASE JoinSymbol
  BY <1>5, JoinSymbolKeeps
<1>6. CASE Merge
  BY <1>6, MergeKeeps
<1>7. CASE Finish
  BY <1>7, FinishKeeps
<1>8. CASE UNCHANGED blastVars
  <2>1. UNCHANGED walkVars /\ UNCHANGED <<graph, request, asked, stage, answer>>
    BY <1>8 DEF blastVars, walkVars
  <2>2. stage # "asked" => WalkInv'
    BY <2>1, WalkStepKeeps DEF BlastInv, BlastTyped
  <2>3. BlastTyped'
    BY <2>1, <2>2 DEF BlastInv, BlastTyped, IsIndex, IsAnswer
  <2>4. DeeperWalk' /\ AnswerIsNearest'
    BY <2>1, SameAsked DEF BlastInv, DeeperWalk, AnswerIsNearest, JoinedEnds
  <2>5. QED
    BY <2>1, <2>3, <2>4 DEF BlastInv, FirstWalk, PastIsCounted, PastIsUnlisted
<1>9. QED
  BY <1>1, <1>2, <1>3, <1>4, <1>5, <1>6, <1>7, <1>8 DEF BlastNext

LEMMA JoinedIsRight == ASSUME BlastInv PROVE JoinedRowsAreNearest
<1>1. SUFFICES ASSUME IsComplete
               PROVE  LET ends == JoinedEnds
                          at(s) == {n \in 1..asked.depth : s \in ends[n]}
                      IN /\ \A r \in answer.rows : r.id # NoSymbol =>
                              /\ r.depth \in at(r.id)
                              /\ r.id \notin asked.seeds => r.depth = LeastOf(at(r.id))
                         /\ \A s \in Symbols \ asked.seeds : at(s) # {} =>
                              \/ graph.role[s] = "low"
                              \/ s \in RowIds(answer.rows)
                              \/ TestsOf(s) # {} /\ \A t \in TestsOf(s) :
                                   t \in answer.tests \/ FileOf[t] \in answer.tests
  BY DEF JoinedRowsAreNearest
<1>2. Nearest(answer.rows, answer.tests, JoinedEnds)
  BY <1>1 DEF IsComplete, BlastInv, AnswerIsNearest
<1>3. QED
  BY <1>2 DEF Nearest, IsAnswered, InTests

(* Every state an answer passes through satisfies the invariant: what the  *)
(* walks, the joins of the reports' callers and the merge leave of rows,   *)
(* tests and counts (discover_blast_radius and what it calls).             *)
THEOREM BlastInvariantHolds == BlastSpec => []BlastInv
<1>1. BlastInit => BlastInv
  <2>1. SUFFICES ASSUME BlastInit PROVE BlastInv
    OBVIOUS
  <2>2. asked \in QuestionSet /\ asked.targets \subseteq asked.seeds /\ IsIndex(graph)
    BY <2>1, QuestionAssumption DEF BlastInit
  <2>3. IsAnswer(answer)
    BY <2>1 DEF BlastInit, IsAnswer, NoAnswer
  <2>4. QED
    BY <2>1, <2>2, <2>3 DEF BlastInit, BlastInv, BlastTyped, FirstWalk, PastIsCounted,
       DeeperWalk, AnswerIsNearest, PastIsUnlisted
<1>2. BlastInv /\ [BlastNext]_blastVars => BlastInv'
  BY BlastStepKeeps
<1>3. QED
  BY <1>1, <1>2, PTL DEF BlastSpec

(* Every row of a whole answer stands at the length of the shortest way to *)
(* it, through calls or a caller that a report gave, and every symbol and  *)
(* test that a way of the asked length reaches is listed: the two walks    *)
(* and the reports between them (join_report_callers, follow_deeper)       *)
(* neither lose nor misplace a caller, on any index, at any depth.         *)
THEOREM JoinedAnswerIsNearest == BlastSpec => []JoinedRowsAreNearest
<1>1. BlastInv => JoinedRowsAreNearest
  BY JoinedIsRight
<1>2. QED
  BY <1>1, BlastInvariantHolds, PTL

(* In a whole answer about a symbol or a diff, no test is both listed and  *)
(* counted as left out past the depth, though the lists are filled by two  *)
(* walks, two probes and the reports (tests_past_depth).                   *)
THEOREM JoinedAnswerCountsPastOnce == BlastSpec => []PastIsUnlisted
<1>1. BlastInv => PastIsUnlisted
  BY DEF BlastInv
<1>2. QED
  BY <1>1, BlastInvariantHolds, PTL

-----------------------------------------------------------------------------
(* The rows of a report. *)

VerdictSet == [row : 1..Count, label : Labels, told : BOOLEAN]

SitesTyped ==
    /\ named \in NamedRows
    /\ rphase \in {"judge", "cheap", "others", "compare", "rest", "done"}
    /\ judged \in 0..Count /\ checked \in 0..named.others /\ checked <= OtherCap
    /\ complete \in BOOLEAN
    /\ ahead \subseteq 1..Count /\ undecided \subseteq 1..Count /\ unchecked \subseteq 1..Count
    /\ rphase # "done" => verdicts \subseteq VerdictSet

(* What every pass leaves: the rows without a verdict.                     *)
OpenRows == CASE rphase = "judge" -> 1..Count
          [] rphase = "cheap" -> undecided \cup ahead \cup unchecked
          [] rphase = "rest"  -> ahead \cup unchecked
          [] OTHER            -> undecided \cup unchecked

(* A row is without a verdict or has one, never two.                       *)
HasVerdict(i) == \E v \in verdicts : v.row = i
RowsAreKept ==
    rphase # "done" =>
        /\ \A i \in 1..Count : HasVerdict(i) <=> i \notin OpenRows
        /\ \A v, w \in verdicts : v.row = w.row => v = w

(* The rows a pass looks at are those it may decide.                       *)
PassesAreApart ==
    /\ rphase = "judge" => undecided = {} /\ unchecked = {}
    /\ rphase = "cheap" => ahead \cap (undecided \cup unchecked) = {}
    /\ rphase \in {"judge", "cheap"} => checked = 0
    /\ rphase # "rest" /\ rphase # "done" => ~noted
    /\ rphase = "others" => ahead = {}
    /\ rphase # "done" => rphase = "rest" \/ undecided \cap unchecked = {}
    /\ rphase \in {"compare", "rest"} => ahead \subseteq undecided
    /\ rphase = "rest" => ahead \cap unchecked = {}
    /\ rphase = "compare" => checked < named.others /\ checked < OtherCap

(* A row that is undecided is so by the cheap rules, and no definition it  *)
(* was compared with takes it.                                             *)
Spared ==
    \A i \in undecided :
        /\ Cheap(Row(i)) = "none" /\ Row(i).taken \cap 1..checked = {}
        /\ rphase = "compare" /\ complete /\ i \notin ahead => checked + 1 \notin Row(i).taken

(* What is left at the end was compared with every definition, or the      *)
(* report says that it was not.                                            *)
RestIsNoted == rphase = "rest" /\ ahead # {} => noted \/ checked = named.others

(* A verdict is what it would be without a limit, or definitions are noted.*)
LabelOf(i) ==
    IF Cheap(Row(i)) # "none" THEN Cheap(Row(i))
    ELSE IF Row(i).taken \cap 1..Min({OtherCap, named.others}) # {} THEN "excluded"
    ELSE Resolved(Row(i))
VerdictsAreRight ==
    rphase # "done" => \A v \in verdicts : ~v.told /\ (v.label = LabelOf(v.row) \/ noted)

SitesInv ==
    /\ SitesTyped /\ RowsAreKept /\ PassesAreApart /\ Spared /\ RestIsNoted /\ VerdictsAreRight
    /\ TimeIsTold

-----------------------------------------------------------------------------
(* The labels. *)

LEMMA NamedAsked ==
    ASSUME named \in NamedRows
    PROVE  /\ Count \in Nat /\ named.others \in Nat
           /\ \A i \in 1..Count : Row(i) \in RowSet(1..named.others)
BY ReportAssumption DEF Count, Row

LEMMA LabelsOfRows ==
    ASSUME NEW n, NEW r \in RowSet(1..n)
    PROVE  /\ Cheap(r) \in Labels \cup {"none"}
           /\ Resolved(r) \in Labels /\ ByName(r) \in {"likely", "unresolved"}
BY DEF RowSet, Cheap, ChainSays, Resolved, Late, ByName, Labels

LEMMA LeastOfTwo ==
    ASSUME NEW a \in Nat, NEW b \in Nat
    PROVE  Min({a, b}) \in Nat /\ Min({a, b}) <= a /\ Min({a, b}) <= b /\ Min({a, b}) \in {a, b}
<1>1. {a, b} \in SUBSET Nat /\ {a, b} # {}
  OBVIOUS
<1>2. Min({a, b}) \in {a, b} /\ \A y \in {a, b} : Min({a, b}) <= y
  BY <1>1, LeastNat
<1>3. QED
  BY <1>2

LEMMA CappedOthers ==
    ASSUME named \in NamedRows
    PROVE  /\ OtherCap \in Nat /\ Min({OtherCap, named.others}) \in Nat
           /\ Min({OtherCap, named.others}) <= OtherCap
           /\ Min({OtherCap, named.others}) <= named.others
           /\ Min({OtherCap, named.others}) \in {OtherCap, named.others}
BY NamedAsked, ReportAssumption, LeastOfTwo

(* The least row of a pass is one of its rows.                             *)
LEMMA LeastRow ==
    ASSUME named \in NamedRows, NEW S, S \subseteq 1..Count, S # {}
    PROVE  Min(S) \in S
<1>1. S \in SUBSET Nat
  BY NamedAsked
<1>2. QED
  BY <1>1, LeastNat

-----------------------------------------------------------------------------
(* The steps. *)

LEMMA SameRows ==
    ASSUME UNCHANGED named
    PROVE  /\ Count' = Count /\ \A i : Row(i)' = Row(i)
           /\ \A i : LabelOf(i)' = LabelOf(i)
           /\ \A i : Unhurried(i)' = Unhurried(i)
           /\ VerdictSet' = VerdictSet
<1>1. Count' = Count /\ \A i : Row(i)' = Row(i)
  BY DEF Count, Row
<1>2. \A i : LabelOf(i)' = LabelOf(i)
  BY <1>1 DEF LabelOf
<1>3. \A v : Adjusted(v)' = Adjusted(v)
  BY <1>1 DEF Adjusted
<1>4. \A i : Unhurried(i)' = Unhurried(i)
  BY <1>1, <1>3 DEF Unhurried
<1>5. VerdictSet' = VerdictSet
  BY <1>1 DEF VerdictSet
<1>6. QED
  BY <1>1, <1>2, <1>4, <1>5

(* Verdicts are given to rows that had none. *)
LEMMA VerdictsGiven ==
    ASSUME SitesInv, rphase # "done", rphase' # "done", UNCHANGED named,
           NEW rows \in SUBSET OpenRows, NEW label \in [rows -> Labels],
           verdicts' = verdicts \cup {Verdict(i, label[i]) : i \in rows},
           OpenRows' = OpenRows \ rows, noted' = noted,
           \A i \in rows : label[i] = LabelOf(i) \/ noted
    PROVE  RowsAreKept' /\ VerdictsAreRight' /\ verdicts' \subseteq VerdictSet'
<1>1. /\ verdicts \subseteq VerdictSet /\ OpenRows \subseteq 1..Count
      /\ \A i \in 1..Count : HasVerdict(i) <=> i \notin OpenRows
      /\ \A v, w \in verdicts : v.row = w.row => v = w
      /\ \A v \in verdicts : ~v.told /\ (v.label = LabelOf(v.row) \/ noted)
  BY DEF SitesInv, SitesTyped, RowsAreKept, VerdictsAreRight, OpenRows
<1> DEFINE new == {Verdict(i, label[i]) : i \in rows}
<1>2. \A v \in new : \E i \in rows : v = Verdict(i, label[i])
  OBVIOUS
<1>3. \A i \in rows : /\ Verdict(i, label[i]) \in new /\ Verdict(i, label[i]).row = i
                      /\ Verdict(i, label[i]).label = label[i]
                      /\ Verdict(i, label[i]).told = FALSE
                      /\ Verdict(i, label[i]) \in VerdictSet
  BY <1>1 DEF Verdict, VerdictSet
<1>4. verdicts' = verdicts \cup new
  OBVIOUS
<1> HIDE DEF new
<1>5. /\ Count' = Count /\ VerdictSet' = VerdictSet /\ \A i : LabelOf(i)' = LabelOf(i)
  BY SameRows
<1>6. \A v \in new : /\ v.row \in rows /\ v \in VerdictSet /\ v = Verdict(v.row, label[v.row])
                     /\ v.told = FALSE /\ (v.label = LabelOf(v.row) \/ noted)
  BY <1>2, <1>3
<1>7. \A v \in verdicts : v.row \notin rows
  BY <1>1 DEF HasVerdict, VerdictSet
<1>8. ASSUME NEW i \in 1..Count PROVE HasVerdict(i)' <=> i \notin OpenRows'
  <2>1. HasVerdict(i)' <=> HasVerdict(i) \/ i \in rows
    BY <1>3, <1>4, <1>6 DEF HasVerdict
  <2>2. QED
    BY <1>1, <2>1
<1>9. ASSUME NEW v \in verdicts', NEW w \in verdicts', v.row = w.row PROVE v = w
  BY <1>1, <1>4, <1>6, <1>7, <1>9
<1>10. RowsAreKept'
  BY <1>5, <1>8, <1>9 DEF RowsAreKept
<1>11. VerdictsAreRight'
  BY <1>1, <1>4, <1>5, <1>6 DEF VerdictsAreRight
<1>12. verdicts' \subseteq VerdictSet'
  BY <1>1, <1>4, <1>5, <1>6
<1>13. QED
  BY <1>10, <1>11, <1>12

(* No verdict is given and no row changes hands.                           *)
LEMMA VerdictsKept ==
    ASSUME SitesInv, rphase # "done", rphase' # "done", UNCHANGED <<named, verdicts>>,
           OpenRows' = OpenRows, noted => noted'
    PROVE  RowsAreKept' /\ VerdictsAreRight' /\ verdicts' \subseteq VerdictSet'
<1>1. /\ Count' = Count /\ VerdictSet' = VerdictSet /\ \A i : LabelOf(i)' = LabelOf(i)
  BY SameRows
<1>2. RowsAreKept' /\ verdicts' \subseteq VerdictSet'
  BY <1>1 DEF SitesInv, SitesTyped, RowsAreKept, HasVerdict
<1>3. VerdictsAreRight'
  BY <1>1 DEF SitesInv, VerdictsAreRight
<1>4. QED
  BY <1>2, <1>3

LEMMA TickKeeps == ASSUME SitesInv, Tick PROVE SitesInv'
<1>1. /\ rphase # "done"
      /\ UNCHANGED <<named, rphase, judged, ahead, undecided, complete, checked, unchecked,
                     verdicts, noted>>
  BY DEF Tick
<1>2. Count' = Count /\ \A i : Row(i)' = Row(i)
  BY <1>1, SameRows
<1>3. OpenRows' = OpenRows
  BY <1>1, <1>2 DEF OpenRows
<1>4. RowsAreKept' /\ VerdictsAreRight' /\ verdicts' \subseteq VerdictSet'
  BY <1>1, <1>3, VerdictsKept
<1>5. SitesTyped' /\ PassesAreApart' /\ Spared' /\ RestIsNoted'
  BY <1>1, <1>2, <1>4 DEF SitesInv, SitesTyped, PassesAreApart, Spared, RestIsNoted
<1>6. QED
  BY <1>1, <1>4, <1>5 DEF SitesInv, TimeIsTold

LEMMA JudgeKeeps == ASSUME SitesInv, Judge PROVE SitesInv'
<1>1. /\ rphase = "judge"
      /\ UNCHANGED <<named, undecided, complete, checked, verdicts, noted>>
      /\ \/ /\ judged' = Min({judged + JudgeChunk, Count})
            /\ UNCHANGED <<rphase, ahead, unchecked>>
         \/ /\ rphase' = "cheap" /\ ahead' = 1..judged /\ unchecked' = (judged + 1)..Count
            /\ judged' = judged
  BY DEF Judge
<1>2. Count' = Count /\ \A i : Row(i)' = Row(i)
  BY <1>1, SameRows
<1>3. /\ named \in NamedRows /\ judged \in 0..Count /\ Count \in Nat /\ JudgeChunk \in Nat
      /\ undecided = {} /\ unchecked = {}
  BY <1>1, NamedAsked, ReportAssumption DEF SitesInv, SitesTyped, PassesAreApart
<1>4. judged' \in 0..Count /\ ahead' \subseteq 1..Count /\ unchecked' \subseteq 1..Count
  <2>1. Min({judged + JudgeChunk, Count}) \in 0..Count
    <3>1. judged + JudgeChunk \in Nat
      BY <1>3
    <3>2. QED
      BY <1>3, <3>1, LeastOfTwo
  <2>2. 1..judged \subseteq 1..Count /\ (judged + 1)..Count \subseteq 1..Count
    BY <1>3
  <2>3. ahead \subseteq 1..Count /\ unchecked \subseteq 1..Count
    BY DEF SitesInv, SitesTyped
  <2>4. QED
    BY <1>1, <1>3, <2>1, <2>2, <2>3
<1>5. OpenRows' = OpenRows
  <2>1. CASE rphase' = rphase
    BY <1>1, <1>2, <2>1 DEF OpenRows
  <2>2. CASE rphase' = "cheap" /\ ahead' = 1..judged /\ unchecked' = (judged + 1)..Count
    <3>1. 1..judged \cup (judged + 1)..Count = 1..Count
      BY <1>3
    <3>2. QED
      BY <1>1, <1>3, <2>2, <3>1 DEF OpenRows
  <2>3. QED
    BY <1>1, <2>1, <2>2
<1>6. RowsAreKept' /\ VerdictsAreRight' /\ verdicts' \subseteq VerdictSet'
  BY <1>1, <1>5, VerdictsKept
<1>7. SitesTyped'
  BY <1>1, <1>2, <1>4, <1>6 DEF SitesInv, SitesTyped
<1>8. PassesAreApart'
  BY <1>1, <1>3 DEF SitesInv, PassesAreApart
<1>9. Spared' /\ RestIsNoted' /\ TimeIsTold'
  BY <1>1, <1>3 DEF Spared, RestIsNoted, TimeIsTold
<1>10. QED
  BY <1>6, <1>7, <1>8, <1>9 DEF SitesInv

LEMMA DecideCheapKeeps == ASSUME SitesInv, DecideCheap PROVE SitesInv'
<1>1. /\ rphase = "cheap" /\ UNCHANGED <<named, judged, complete, checked, noted>>
  BY DEF DecideCheap
<1>2. Count' = Count /\ \A i : Row(i)' = Row(i)
  BY <1>1, SameRows
<1>3. /\ named \in NamedRows /\ ahead \subseteq 1..Count /\ undecided \subseteq 1..Count
      /\ unchecked \subseteq 1..Count /\ OpenRows = undecided \cup ahead \cup unchecked
      /\ ahead \cap (undecided \cup unchecked) = {} /\ undecided \cap unchecked = {}
      /\ checked = 0 /\ ~noted
  BY <1>1 DEF SitesInv, SitesTyped, PassesAreApart, OpenRows
<1>4. CASE ahead # {} /\ clock # "out"
  <2> DEFINE i == Min(ahead)
             label == Cheap(Row(i))
  <2>1. /\ ahead' = ahead \ {i} /\ UNCHANGED <<rphase, unchecked>>
        /\ IF label = "none" THEN undecided' = undecided \cup {i} /\ UNCHANGED verdicts
           ELSE verdicts' = verdicts \cup {Verdict(i, label)} /\ UNCHANGED undecided
    BY <1>4 DEF DecideCheap
  <2>2. i \in ahead
    BY <1>3, <1>4, LeastRow
  <2>3. label \in Labels \cup {"none"}
    BY <1>3, <2>2, NamedAsked, LabelsOfRows
  <2>4. label # "none" => label = LabelOf(i)
    BY DEF LabelOf
  <2>5. label = Cheap(Row(i))
    OBVIOUS
  <2> HIDE DEF i, label
  <2>6. CASE label = "none"
    <3>1. OpenRows' = OpenRows
      BY <1>1, <1>3, <2>1, <2>2, <2>6 DEF OpenRows
    <3>2. RowsAreKept' /\ VerdictsAreRight' /\ verdicts' \subseteq VerdictSet'
      BY <1>1, <2>1, <2>6, <3>1, VerdictsKept
    <3>3. Spared'
      <4>1. 1..checked = {}
        BY <1>3
      <4>2. undecided' = undecided \cup {i} /\ rphase' = "cheap" /\ checked' = checked
        BY <1>1, <2>1, <2>6
      <4>3. \A x \in undecided' : Cheap(Row(x)) = "none"
        BY <2>5, <2>6, <4>2 DEF SitesInv, Spared
      <4>4. QED
        BY <1>2, <4>1, <4>2, <4>3 DEF Spared
    <3>4. SitesTyped' /\ PassesAreApart' /\ RestIsNoted' /\ TimeIsTold'
      <4>1. SitesTyped'
        <5>1. i \in 1..Count /\ undecided' = undecided \cup {i} /\ ahead' \subseteq ahead
          BY <1>3, <2>1, <2>2, <2>6
        <5>2. ahead' \subseteq 1..Count /\ undecided' \subseteq 1..Count
          BY <1>3, <5>1
        <5>3. QED
          BY <1>1, <1>2, <2>1, <3>2, <5>2 DEF SitesInv, SitesTyped
      <4>2. PassesAreApart'
        BY <1>1, <1>3, <2>1, <2>2, <2>6 DEF SitesInv, PassesAreApart
      <4>3. QED
        BY <1>1, <2>1, <4>1, <4>2 DEF RestIsNoted, TimeIsTold
    <3>5. QED
      BY <3>2, <3>3, <3>4 DEF SitesInv
  <2>7. CASE label # "none"
    <3>1. OpenRows' = OpenRows \ {i}
      BY <1>1, <1>3, <2>1, <2>2, <2>7 DEF OpenRows
    <3>2. RowsAreKept' /\ VerdictsAreRight' /\ verdicts' \subseteq VerdictSet'
      <4> DEFINE given == [x \in {i} |-> label]
      <4>1. {Verdict(x, given[x]) : x \in {i}} = {Verdict(i, label)}
        OBVIOUS
      <4>2. given \in [{i} -> Labels] /\ {i} \in SUBSET OpenRows /\ given[i] = label
        BY <1>3, <2>2, <2>3, <2>7
      <4>3. verdicts' = verdicts \cup {Verdict(x, given[x]) : x \in {i}}
        BY <2>1, <2>7, <4>1
      <4> HIDE DEF given
      <4>4. QED
        BY <1>1, <2>1, <2>4, <2>7, <3>1, <4>2, <4>3, VerdictsGiven
    <3>3. Spared'
      BY <1>1, <1>2, <1>3, <2>1, <2>7 DEF SitesInv, Spared
    <3>4. SitesTyped' /\ PassesAreApart' /\ RestIsNoted' /\ TimeIsTold'
      <4>1. SitesTyped'
        BY <1>1, <1>2, <1>3, <2>1, <2>2, <2>7, <3>2 DEF SitesInv, SitesTyped
      <4>2. PassesAreApart'
        BY <1>1, <1>3, <2>1, <2>2, <2>7 DEF SitesInv, PassesAreApart
      <4>3. QED
        BY <1>1, <2>1, <4>1, <4>2 DEF RestIsNoted, TimeIsTold
    <3>5. QED
      BY <3>2, <3>3, <3>4 DEF SitesInv
  <2>8. QED
    BY <2>6, <2>7
<1>5. CASE ~(ahead # {} /\ clock # "out")
  <2>1. /\ rphase' = "others" /\ unchecked' = unchecked \cup ahead /\ ahead' = {}
        /\ UNCHANGED <<undecided, verdicts>>
    BY <1>5 DEF DecideCheap
  <2>2. OpenRows' = OpenRows
    BY <1>1, <1>3, <2>1 DEF OpenRows
  <2>3. RowsAreKept' /\ VerdictsAreRight' /\ verdicts' \subseteq VerdictSet'
    BY <1>1, <2>1, <2>2, VerdictsKept
  <2>4. SitesTyped' /\ PassesAreApart' /\ Spared' /\ RestIsNoted' /\ TimeIsTold'
    BY <1>1, <1>2, <1>3, <2>1, <2>3
       DEF SitesInv, SitesTyped, PassesAreApart, Spared, RestIsNoted, TimeIsTold
  <2>5. QED
    BY <2>3, <2>4 DEF SitesInv
<1>6. QED
  BY <1>4, <1>5

LEMMA NextDefinitionKeeps == ASSUME SitesInv, NextDefinition PROVE SitesInv'
<1>1. /\ rphase = "others" /\ ahead' = undecided
      /\ UNCHANGED <<named, clock, judged, undecided, complete, checked, unchecked, verdicts>>
      /\ \/ /\ checked < OtherCap /\ checked < named.others
            /\ rphase' = "compare" /\ UNCHANGED noted
         \/ rphase' = "rest" /\ noted' = (undecided # {} /\ checked < named.others)
  BY DEF NextDefinition
<1>2. Count' = Count /\ \A i : Row(i)' = Row(i)
  BY <1>1, SameRows
<1>3. /\ OpenRows = undecided \cup unchecked /\ undecided \cap unchecked = {} /\ ~noted
      /\ named \in NamedRows /\ named.others \in Nat /\ checked \in 0..named.others
  BY <1>1, NamedAsked DEF SitesInv, SitesTyped, PassesAreApart, OpenRows
<1>4. OpenRows' = OpenRows
  BY <1>1, <1>3 DEF OpenRows
<1>5. RowsAreKept' /\ VerdictsAreRight' /\ verdicts' \subseteq VerdictSet'
  BY <1>1, <1>3, <1>4, VerdictsKept
<1>6. SitesTyped'
  BY <1>1, <1>2, <1>5 DEF SitesInv, SitesTyped
<1>7. PassesAreApart' /\ TimeIsTold'
  BY <1>1, <1>3 DEF SitesInv, PassesAreApart, TimeIsTold
<1>8. Spared'
  BY <1>1, <1>2 DEF SitesInv, Spared
<1>9. RestIsNoted'
  <2>1. SUFFICES ASSUME rphase' = "rest", ahead' # {} PROVE noted' \/ checked' = named'.others
    BY DEF RestIsNoted
  <2>2. noted' = (undecided # {} /\ checked < named.others) /\ undecided # {}
    BY <1>1, <2>1
  <2>3. CASE checked < named.others
    BY <2>2, <2>3
  <2>4. CASE ~(checked < named.others)
    BY <1>1, <1>3, <2>4
  <2>5. QED
    BY <2>3, <2>4
<1>10. QED
  BY <1>5, <1>6, <1>7, <1>8, <1>9 DEF SitesInv

LEMMA CompareChunkKeeps == ASSUME SitesInv, CompareChunk PROVE SitesInv'
<1> DEFINE claimed == IF clock = "out" THEN {}
                      ELSE {i \in Chunk(ahead) : checked + 1 \in Row(i).taken}
<1>1. /\ rphase = "compare" /\ ahead' = ahead \ Chunk(ahead)
      /\ undecided' = undecided \ claimed
      /\ verdicts' = verdicts \cup {Verdict(i, "excluded") : i \in claimed}
      /\ complete' = (complete /\ clock # "out")
      /\ UNCHANGED <<named, clock, rphase, judged, checked, unchecked, noted>>
  BY DEF CompareChunk
<1>2. Count' = Count /\ \A i : Row(i)' = Row(i)
  BY <1>1, SameRows
<1>3. /\ named \in NamedRows /\ ahead \subseteq undecided /\ undecided \subseteq 1..Count
      /\ undecided \cap unchecked = {} /\ OpenRows = undecided \cup unchecked /\ ~noted
      /\ checked < named.others /\ checked < OtherCap /\ checked \in 0..named.others
  BY <1>1 DEF SitesInv, SitesTyped, PassesAreApart, OpenRows
<1>4. /\ claimed \subseteq ahead /\ claimed \subseteq Chunk(ahead)
      /\ \A i \in claimed : checked + 1 \in Row(i).taken
      /\ \A i \in Chunk(ahead) : i \in claimed \/ clock = "out" \/ checked + 1 \notin Row(i).taken
  BY DEF Chunk
<1> HIDE DEF claimed
<1>5. OpenRows' = OpenRows \ claimed
  BY <1>1, <1>3, <1>4 DEF OpenRows
<1>6. ASSUME NEW i \in claimed PROVE LabelOf(i) = "excluded"
  <2>1. Cheap(Row(i)) = "none"
    BY <1>3, <1>4 DEF SitesInv, Spared
  <2>2. checked + 1 \in 1..Min({OtherCap, named.others})
    BY <1>3, CappedOthers, NamedAsked
  <2>3. QED
    BY <1>4, <2>1, <2>2 DEF LabelOf
<1>7. RowsAreKept' /\ VerdictsAreRight' /\ verdicts' \subseteq VerdictSet'
  <2> DEFINE given == [i \in claimed |-> "excluded"]
  <2>1. given \in [claimed -> Labels] /\ claimed \in SUBSET OpenRows
    BY <1>3, <1>4 DEF Labels
  <2>2. \A i \in claimed : given[i] = "excluded"
    OBVIOUS
  <2>3. {Verdict(i, given[i]) : i \in claimed} = {Verdict(i, "excluded") : i \in claimed}
    OBVIOUS
  <2>4. verdicts' = verdicts \cup {Verdict(i, given[i]) : i \in claimed}
    BY <1>1, <2>3
  <2> HIDE DEF given
  <2>5. QED
    BY <1>1, <1>5, <1>6, <2>1, <2>2, <2>4, VerdictsGiven
<1>8. SitesTyped'
  BY <1>1, <1>2, <1>3, <1>7 DEF SitesInv, SitesTyped
<1>9. PassesAreApart' /\ TimeIsTold' /\ RestIsNoted'
  <2>1. ahead' \subseteq undecided'
    BY <1>1, <1>3, <1>4
  <2>2. PassesAreApart'
    BY <1>1, <1>3, <2>1 DEF PassesAreApart
  <2>3. QED
    BY <1>1, <2>2 DEF TimeIsTold, RestIsNoted
<1>10. Spared'
  BY <1>1, <1>2, <1>3, <1>4 DEF SitesInv, Spared
<1>11. QED
  BY <1>7, <1>8, <1>9, <1>10 DEF SitesInv

LEMMA EndDefinitionKeeps == ASSUME SitesInv, EndDefinition PROVE SitesInv'
<1>1. /\ rphase = "compare" /\ ahead = {} /\ rphase' = "others"
      /\ checked' = IF complete THEN checked + 1 ELSE checked
      /\ UNCHANGED <<named, clock, judged, ahead, undecided, complete, unchecked, verdicts, noted>>
  BY DEF EndDefinition
<1>2. Count' = Count /\ \A i : Row(i)' = Row(i)
  BY <1>1, SameRows
<1>3. /\ named \in NamedRows /\ OpenRows = undecided \cup unchecked /\ OtherCap \in Nat
      /\ checked < named.others /\ checked < OtherCap /\ checked \in 0..named.others
      /\ named.others \in Nat
  BY <1>1, NamedAsked, CappedOthers DEF SitesInv, SitesTyped, PassesAreApart, OpenRows
<1>4. OpenRows' = OpenRows
  BY <1>1, <1>3 DEF OpenRows
<1>5. RowsAreKept' /\ VerdictsAreRight' /\ verdicts' \subseteq VerdictSet'
  BY <1>1, <1>4, VerdictsKept
<1>6. SitesTyped'
  BY <1>1, <1>2, <1>3, <1>5 DEF SitesInv, SitesTyped
<1>7. PassesAreApart' /\ TimeIsTold' /\ RestIsNoted'
  BY <1>1, <1>3 DEF SitesInv, PassesAreApart, TimeIsTold, RestIsNoted
<1>8. Spared'
  <2>1. ASSUME NEW i \in undecided, complete PROVE Row(i).taken \cap 1..(checked + 1) = {}
    <3>1. Row(i).taken \cap 1..checked = {} /\ checked + 1 \notin Row(i).taken
      BY <1>1, <2>1 DEF SitesInv, Spared
    <3>2. 1..(checked + 1) = 1..checked \cup {checked + 1}
      BY <1>3
    <3>3. QED
      BY <3>1, <3>2
  <2>2. \A i \in undecided : Cheap(Row(i)) = "none" /\ Row(i).taken \cap 1..checked' = {}
    BY <1>1, <2>1 DEF SitesInv, Spared
  <2>3. QED
    BY <1>1, <1>2, <2>2 DEF Spared
<1>9. QED
  BY <1>5, <1>6, <1>7, <1>8 DEF SitesInv

LEMMA DecideRestKeeps == ASSUME SitesInv, DecideRest PROVE SitesInv'
<1> DEFINE i == Min(ahead)
<1>1. /\ rphase = "rest" /\ ahead # {} /\ ahead' = ahead \ {i}
      /\ \/ unchecked' = unchecked \cup {i} /\ UNCHANGED verdicts
         \/ verdicts' = verdicts \cup {Verdict(i, Resolved(Row(i)))} /\ UNCHANGED unchecked
      /\ UNCHANGED <<named, clock, rphase, judged, undecided, complete, checked, noted>>
  BY DEF DecideRest
<1>2. Count' = Count /\ \A k : Row(k)' = Row(k)
  BY <1>1, SameRows
<1>3. /\ named \in NamedRows /\ ahead \subseteq undecided /\ undecided \subseteq 1..Count
      /\ ahead \cap unchecked = {} /\ OpenRows = ahead \cup unchecked /\ unchecked \subseteq 1..Count
      /\ checked \in 0..named.others /\ checked <= OtherCap
      /\ noted \/ checked = named.others
  BY <1>1 DEF SitesInv, SitesTyped, PassesAreApart, OpenRows, RestIsNoted
<1>4. i \in ahead
  BY <1>1, <1>3, LeastRow
<1> HIDE DEF i
<1>5. Resolved(Row(i)) \in Labels
  BY <1>3, <1>4, NamedAsked, LabelsOfRows
<1>6. noted \/ Resolved(Row(i)) = LabelOf(i)
  <2>1. Cheap(Row(i)) = "none" /\ Row(i).taken \cap 1..checked = {}
    BY <1>3, <1>4 DEF SitesInv, Spared
  <2>2. checked = named.others => 1..Min({OtherCap, named.others}) \subseteq 1..checked
    BY <1>3, NamedAsked, CappedOthers
  <2>3. QED
    BY <1>3, <2>1, <2>2 DEF LabelOf
<1>7. RowsAreKept' /\ VerdictsAreRight' /\ verdicts' \subseteq VerdictSet'
  <2>1. CASE unchecked' = unchecked \cup {i} /\ UNCHANGED verdicts
    <3>1. OpenRows' = OpenRows
      BY <1>1, <1>3, <1>4, <2>1 DEF OpenRows
    <3>2. QED
      BY <1>1, <2>1, <3>1, VerdictsKept
  <2>2. CASE verdicts' = verdicts \cup {Verdict(i, Resolved(Row(i)))} /\ UNCHANGED unchecked
    <3> DEFINE label == Resolved(Row(i))
               given == [x \in {i} |-> label]
    <3>1. OpenRows' = OpenRows \ {i}
      BY <1>1, <1>3, <1>4, <2>2 DEF OpenRows
    <3>2. given \in [{i} -> Labels] /\ {i} \in SUBSET OpenRows /\ given[i] = label
      BY <1>3, <1>4, <1>5
    <3>3. verdicts' = verdicts \cup {Verdict(x, given[x]) : x \in {i}}
      BY <2>2
    <3>4. label = LabelOf(i) \/ noted
      BY <1>6
    <3> HIDE DEF given, label
    <3>5. QED
      BY <1>1, <3>1, <3>2, <3>3, <3>4, VerdictsGiven
  <2>3. QED
    BY <1>1, <2>1, <2>2
<1>8. SitesTyped'
  BY <1>1, <1>2, <1>3, <1>4, <1>7 DEF SitesInv, SitesTyped
<1>9. PassesAreApart' /\ TimeIsTold' /\ RestIsNoted'
  BY <1>1, <1>3, <1>4 DEF SitesInv, PassesAreApart, TimeIsTold, RestIsNoted
<1>10. Spared'
  BY <1>1, <1>2 DEF SitesInv, Spared
<1>11. QED
  BY <1>7, <1>8, <1>9, <1>10 DEF SitesInv

-----------------------------------------------------------------------------
(* The last word. *)

LEMMA LastWord ==
    ASSUME named \in NamedRows, NEW i \in 1..Count
    PROVE  /\ \A v \in VerdictSet : v.row = i => Adjusted(v).row = i
           /\ LabelOf(i) \in Labels
           /\ Unhurried(i) = Adjusted(Verdict(i, LabelOf(i))).label
<1>1. Row(i) \in RowSet(1..named.others)
  BY NamedAsked
<1>2. LabelOf(i) \in Labels
  BY <1>1, LabelsOfRows DEF LabelOf, Labels
<1>3. Unhurried(i) = Adjusted(Verdict(i, LabelOf(i))).label
  BY DEF Unhurried, LabelOf
<1>4. \A v \in VerdictSet : v.row = i => Adjusted(v).row = i
  BY DEF Adjusted, Verdict, VerdictSet
<1>5. QED
  BY <1>2, <1>3, <1>4

LEMMA FinishReportKeeps == ASSUME SitesInv, FinishReport PROVE SitesInv'
<1> DEFINE last == {[row |-> i, label |-> ByName(Row(i)), told |-> TRUE] : i \in unchecked}
           all  == verdicts \cup last
<1>1. /\ rphase = "rest" /\ ahead = {} /\ rphase' = "done" /\ verdicts' = {Adjusted(v) : v \in all}
      /\ UNCHANGED <<named, clock, judged, ahead, undecided, complete, checked, unchecked, noted>>
  BY DEF FinishReport, Finished
<1>2. /\ Count' = Count /\ (\A i : Row(i)' = Row(i)) /\ \A i : Unhurried(i)' = Unhurried(i)
  BY <1>1, SameRows
<1>3. /\ named \in NamedRows /\ unchecked \subseteq 1..Count /\ verdicts \subseteq VerdictSet
      /\ \A i \in 1..Count : HasVerdict(i) <=> i \notin unchecked
      /\ \A v, w \in verdicts : v.row = w.row => v = w
      /\ \A v \in verdicts : ~v.told /\ (v.label = LabelOf(v.row) \/ noted)
  BY <1>1 DEF SitesInv, SitesTyped, RowsAreKept, OpenRows, VerdictsAreRight
<1>4. ASSUME NEW v \in last
      PROVE  /\ v \in VerdictSet /\ v.told = TRUE /\ v.label \in {"likely", "unresolved"}
             /\ v.row \in unchecked
             /\ v = [row |-> v.row, label |-> ByName(Row(v.row)), told |-> TRUE]
  <2>1. PICK i \in unchecked : v = [row |-> i, label |-> ByName(Row(i)), told |-> TRUE]
    OBVIOUS
  <2>2. ByName(Row(i)) \in {"likely", "unresolved"}
    BY DEF ByName
  <2>3. QED
    BY <1>3, <2>1, <2>2 DEF VerdictSet, Labels
<1>5. ASSUME NEW i \in unchecked PROVE \E v \in last : v.row = i
  <2>1. [row |-> i, label |-> ByName(Row(i)), told |-> TRUE] \in last
    OBVIOUS
  <2>2. QED
    BY <2>1
<1>6. all \subseteq VerdictSet
  BY <1>3, <1>4
<1> HIDE DEF last
<1>7. ASSUME NEW v \in all, NEW w \in all, v.row = w.row PROVE v = w
  <2>1. ASSUME NEW x \in verdicts PROVE x.row \notin unchecked
    BY <1>3, <2>1 DEF HasVerdict, VerdictSet
  <2>2. QED
    BY <1>3, <1>4, <1>7, <2>1
<1>8. ASSUME NEW i \in 1..Count PROVE \E v \in all : v.row = i
  BY <1>3, <1>5 DEF HasVerdict
<1> HIDE DEF all
<1>9. ASSUME NEW i \in 1..Count PROVE Cardinality({v \in verdicts' : v.row = i}) = 1
  <2>1. PICK v \in all : v.row = i
    BY <1>8
  <2>2. Adjusted(v) \in verdicts' /\ Adjusted(v).row = i
    BY <1>1, <1>3, <1>6, <2>1, LastWord
  <2>3. ASSUME NEW w \in verdicts', w.row = i PROVE w = Adjusted(v)
    <3>1. PICK x \in all : w = Adjusted(x)
      BY <1>1
    <3>2. x.row \in 1..Count
      BY <1>6 DEF VerdictSet
    <3>3. x.row = i
      BY <1>3, <1>6, <2>3, <3>1, <3>2, LastWord
    <3>4. QED
      BY <1>7, <2>1, <3>1, <3>3
  <2>4. {w \in verdicts' : w.row = i} = {Adjusted(v)}
    BY <2>2, <2>3
  <2>5. QED
    BY <2>4, FS_Singleton
<1>10. ASSUME NEW w \in verdicts', w.label # Unhurried(w.row)
       PROVE  w.told \/ noted \/ (w.label = "excluded" /\ Row(w.row).misfit)
  <2>1. PICK v \in all : w = Adjusted(v)
    BY <1>1
  <2>2. v \in VerdictSet /\ v.row \in 1..Count /\ w.row = v.row
    <3>1. v \in VerdictSet /\ v.row \in 1..Count
      BY <1>6 DEF VerdictSet
    <3>2. QED
      BY <1>3, <2>1, <3>1, LastWord
  <2>3. Row(v.row) \in RowSet(1..named.others) /\ LabelOf(v.row) \in Labels
        /\ Unhurried(v.row) = Adjusted(Verdict(v.row, LabelOf(v.row))).label
    BY <1>3, <2>2, NamedAsked, LastWord
  <2>4. CASE v \in verdicts
    <3>1. noted \/ v = Verdict(v.row, LabelOf(v.row))
      BY <1>3, <2>2, <2>4 DEF VerdictSet, Verdict
    <3>2. QED
      BY <1>10, <2>1, <2>2, <2>3, <3>1
  <2>5. CASE v \in last
    <3>1. v.told = TRUE /\ v.label \in {"likely", "unresolved"}
      BY <1>4, <2>5
    <3>2. CASE Row(v.row).misfit \/ Row(v.row).overload
      <4>1. w = Verdict(v.row, "excluded")
        BY <2>1, <2>3, <3>1, <3>2 DEF Adjusted
      <4>2. w.label = "excluded"
        BY <4>1 DEF Verdict
      <4>3. Row(v.row).overload => Unhurried(v.row) = "excluded"
        <5>1. Verdict(v.row, LabelOf(v.row)).row = v.row
              /\ Verdict(v.row, LabelOf(v.row)).label = LabelOf(v.row)
          BY DEF Verdict
        <5>2. Verdict(v.row, "excluded").label = "excluded"
          BY DEF Verdict
        <5>3. QED
          BY <2>3, <5>1, <5>2 DEF Adjusted
      <4>4. QED
        BY <1>10, <2>2, <3>2, <4>2, <4>3
    <3>3. CASE ~Row(v.row).misfit /\ ~Row(v.row).overload
      <4>1. w = v
        BY <2>1, <2>3, <3>1, <3>3 DEF Adjusted
      <4>2. QED
        BY <3>1, <4>1
    <3>4. QED
      BY <3>2, <3>3
  <2>6. QED
    BY <2>4, <2>5 DEF all
<1>11. TimeIsTold'
  BY <1>1, <1>2, <1>9, <1>10 DEF TimeIsTold
<1>12. /\ SitesTyped' /\ RowsAreKept' /\ PassesAreApart' /\ Spared' /\ RestIsNoted'
       /\ VerdictsAreRight'
  BY <1>1, <1>2 DEF SitesInv, SitesTyped, RowsAreKept, PassesAreApart, Spared, RestIsNoted,
     VerdictsAreRight
<1>13. QED
  BY <1>11, <1>12 DEF SitesInv

-----------------------------------------------------------------------------
(* The report. *)

(* Through all passes of account_spec every row has one verdict or waits   *)
(* for one, and every verdict given is the one that no clock would change, *)
(* unless the report tells of definitions that were not checked.           *)
THEOREM ReportInvariantHolds == ReportSpec => []SitesInv
<1>1. ReportInit => SitesInv
  <2>1. SUFFICES ASSUME ReportInit PROVE SitesInv
    OBVIOUS
  <2>2. /\ named \in NamedRows /\ Count \in Nat /\ named.others \in Nat /\ OtherCap \in Nat
    BY <2>1, NamedAsked, CappedOthers DEF ReportInit
  <2>3. QED
    BY <2>1, <2>2 DEF ReportInit, NoReport, SitesInv, SitesTyped, RowsAreKept, HasVerdict, OpenRows,
       PassesAreApart, Spared, RestIsNoted, VerdictsAreRight, TimeIsTold
<1>2. SitesInv /\ [ReportNext]_reportVars => SitesInv'
  <2>1. SUFFICES ASSUME SitesInv, [ReportNext]_reportVars PROVE SitesInv'
    OBVIOUS
  <2>2. CASE Tick
    BY <2>1, <2>2, TickKeeps
  <2>3. CASE Judge
    BY <2>1, <2>3, JudgeKeeps
  <2>4. CASE DecideCheap
    BY <2>1, <2>4, DecideCheapKeeps
  <2>5. CASE NextDefinition
    BY <2>1, <2>5, NextDefinitionKeeps
  <2>6. CASE CompareChunk
    BY <2>1, <2>6, CompareChunkKeeps
  <2>7. CASE EndDefinition
    BY <2>1, <2>7, EndDefinitionKeeps
  <2>8. CASE DecideRest
    BY <2>1, <2>8, DecideRestKeeps
  <2>9. CASE FinishReport
    BY <2>1, <2>9, FinishReportKeeps
  <2>10. CASE UNCHANGED reportVars
    <3>1. UNCHANGED <<named, clock, rphase, judged, ahead, undecided, complete, checked,
                      unchecked, verdicts, noted>>
      BY <2>10 DEF reportVars
    <3>2. /\ Count' = Count /\ (\A i : Row(i)' = Row(i)) /\ \A i : Unhurried(i)' = Unhurried(i)
          /\ VerdictSet' = VerdictSet /\ \A i : LabelOf(i)' = LabelOf(i)
      BY <3>1, SameRows
    <3>3. SitesTyped' /\ PassesAreApart' /\ Spared' /\ RestIsNoted'
      BY <2>1, <3>1, <3>2 DEF SitesInv, SitesTyped, PassesAreApart, Spared, RestIsNoted
    <3>4. OpenRows' = OpenRows
      BY <3>1, <3>2 DEF OpenRows
    <3>5. RowsAreKept' /\ VerdictsAreRight'
      BY <2>1, <3>1, <3>2, <3>4 DEF SitesInv, RowsAreKept, HasVerdict, VerdictsAreRight
    <3>6. TimeIsTold'
      BY <2>1, <3>1, <3>2 DEF SitesInv, TimeIsTold
    <3>7. QED
      BY <3>3, <3>5, <3>6 DEF SitesInv
  <2>11. QED
    BY <2>1, <2>2, <2>3, <2>4, <2>5, <2>6, <2>7, <2>8, <2>9, <2>10 DEF ReportNext
<1>3. QED
  BY <1>1, <1>2, PTL DEF ReportSpec

(* Wherever the time of a report ends, every row of the name has one label *)
(* in it, and one that more time would have labelled otherwise says so, or *)
(* the report does (account_spec, for any rows, definitions and limits).   *)
THEOREM ReportsTellOfTheirTime == ReportSpec => []TimeIsTold
<1>1. SitesInv => TimeIsTold
  BY DEF SitesInv
<1>2. QED
  BY <1>1, ReportInvariantHolds, PTL
===============================================================================
