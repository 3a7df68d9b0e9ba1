---------------------------- MODULE EditCheckProofs ----------------------------
(***************************************************************************)
(* Proofs about EditCheck, for every edit, every two indexes of finitely   *)
(* many rows and every limit: what a check reports stands for the edit, a  *)
(* name that was lost is in the report of a check that ran to its end, and *)
(* an edit that only adds symbols is no change.                            *)
(***************************************************************************)
EXTENDS EditCheck, FiniteSetTheorems, NaturalsInduction, TLAPS

-----------------------------------------------------------------------------
(* Least elements, and what reaches every natural. *)

(* A nonempty set of naturals has a least element.                         *)
LEMMA LeastNat ==
    ASSUME NEW S \in SUBSET Nat, S # {}
    PROVE  Min(S) \in S /\ \A y \in S : Min(S) <= y
<1>1. IsWellFoundedOn(OpToRel(<, Nat), Nat)
  BY NatLessThanWellFounded
<1>2. PICK x \in S : \A y \in S : <<y, x>> \notin OpToRel(<, Nat)
  BY <1>1, WFMin
<1>3. ASSUME NEW y \in S PROVE x <= y
  <2>1. y \in Nat /\ x \in Nat
    OBVIOUS
  <2>2. ~(y < x)
    BY <1>2, <2>1 DEF OpToRel
  <2>3. QED
    BY <2>1, <2>2
<1>4. QED
  BY <1>3 DEF Min

(* A set of naturals with zero and every successor holds all naturals.     *)
LEMMA SetInduction ==
    ASSUME NEW T, 0 \in T, \A n \in Nat : n \in T => n + 1 \in T
    PROVE  \A n \in Nat : n \in T
<1> DEFINE S == {n \in Nat : n \notin T}
<1>1. SUFFICES ASSUME S # {} PROVE FALSE
  OBVIOUS
<1>2. PICK m \in S : \A y \in S : m <= y
  <2> HIDE DEF S
  <2>1. S \in SUBSET Nat
    BY DEF S
  <2>2. QED
    BY <1>1, <2>1, LeastNat
<1>3. m \in Nat /\ m # 0 /\ m \notin T
  OBVIOUS
<1>4. m - 1 \in Nat /\ m - 1 < m /\ (m - 1) + 1 = m
  BY <1>3
<1>5. m - 1 \in T
  BY <1>2, <1>4
<1>6. QED
  BY <1>3, <1>4, <1>5

(* What is computed from step to step exists.                              *)
LEMMA Iteration ==
    ASSUME NEW S, NEW c \in S, NEW N \in Nat, NEW F \in [1..N -> [S -> S]]
    PROVE  \E f \in [0..N -> S] : f[0] = c /\ \A k \in 1..N : f[k] = F[k][f[k - 1]]
<1> DEFINE Is(f, n) == f[0] = c /\ \A k \in 1..n : f[k] = F[k][f[k - 1]]
           T == {n \in Nat : n <= N => \E f \in [0..n -> S] : Is(f, n)}
<1>1. 0 \in T
  <2>1. [k \in 0..0 |-> c] \in [0..0 -> S] /\ Is([k \in 0..0 |-> c], 0)
    OBVIOUS
  <2>2. QED
    BY <2>1
<1>2. ASSUME NEW n \in Nat, n \in T PROVE n + 1 \in T
  <2>1. SUFFICES ASSUME n + 1 <= N PROVE \E f \in [0..(n + 1) -> S] : Is(f, n + 1)
    <3> HIDE DEF Is
    <3>1. QED
      OBVIOUS
  <2>2. PICK f \in [0..n -> S] : Is(f, n)
    BY <1>2, <2>1
  <2> DEFINE g == [k \in 0..(n + 1) |-> IF k = n + 1 THEN F[n + 1][f[n]] ELSE f[k]]
  <2>3. f[n] \in S /\ n + 1 \in 1..N
    BY <2>1
  <2>4. g \in [0..(n + 1) -> S]
    BY <2>3
  <2>5. ASSUME NEW k \in 1..(n + 1) PROVE g[k] = F[k][g[k - 1]]
    <3>1. CASE k = n + 1
      BY <3>1
    <3>2. CASE k # n + 1
      <4>1. k \in 1..n /\ g[k] = f[k] /\ g[k - 1] = f[k - 1]
        BY <3>2
      <4>2. QED
        BY <2>2, <4>1
    <3>3. QED
      BY <3>1, <3>2
  <2>6. g[0] = c
    BY <2>2
  <2> HIDE DEF g
  <2>7. QED
    BY <2>4, <2>5, <2>6
<1>3. N \in T
  <2> HIDE DEF T
  <2>1. QED
    BY <1>1, <1>2, SetInduction
<1>4. QED
  BY <1>3

-----------------------------------------------------------------------------
(* Ranks: rows of a finite set have the positions below its size, once each. *)

LEMMA SomeRows == ASSUME NEW S, IsRows(S), NEW T \in SUBSET S PROVE IsRows(T)
BY FS_Subset DEF IsRows

LEMMA Ranks ==
    ASSUME NEW S, IsRows(S)
    PROVE  /\ Cardinality(S) \in Nat
           /\ \A r \in S : Rank(r, S) \in 0..(Cardinality(S) - 1)
           /\ \A r, q \in S : Rank(r, S) = Rank(q, S) => r = q
           /\ \A n \in 0..(Cardinality(S) - 1) : \E r \in S : Rank(r, S) = n
<1> DEFINE N == Cardinality(S)
           before(r) == {q \in S : q.at < r.at}
<1>1. IsFiniteSet(S) /\ N \in Nat
  BY FS_CardinalityType DEF IsRows
<1> HIDE DEF N
<1>2. \A r \in S : Rank(r, S) = Cardinality(before(r))
  BY DEF Rank
<1>3. \A r \in S : Rank(r, S) \in 0..(N - 1)
  <2>1. SUFFICES ASSUME NEW r \in S PROVE Cardinality(before(r)) \in 0..(N - 1)
    BY <1>2
  <2>2. before(r) \in SUBSET S /\ r \notin before(r)
    BY DEF IsRows
  <2>3. IsFiniteSet(before(r)) /\ Cardinality(before(r)) <= N /\ Cardinality(before(r)) # N
    BY <1>1, <2>2, FS_Subset DEF N
  <2>4. Cardinality(before(r)) \in Nat
    BY <2>3, FS_CardinalityType
  <2>5. QED
    BY <1>1, <2>3, <2>4
<1>4. ASSUME NEW r \in S, NEW q \in S, r.at < q.at PROVE Rank(r, S) < Rank(q, S)
  <2>1. before(r) \in SUBSET before(q) /\ r \in before(q) /\ r \notin before(r)
    BY <1>4 DEF IsRows
  <2>2. before(q) \in SUBSET S
    OBVIOUS
  <2>3. IsFiniteSet(before(q))
    BY <1>1, <2>2, FS_Subset
  <2>4. Cardinality(before(r)) <= Cardinality(before(q)) /\ Cardinality(before(r)) # Cardinality(before(q))
    BY <2>1, <2>3, FS_Subset
  <2>5. Rank(r, S) = Cardinality(before(r)) /\ Rank(q, S) = Cardinality(before(q))
    BY <1>2
  <2>6. Rank(r, S) \in Int /\ Rank(q, S) \in Int
    BY <1>1, <1>3
  <2>7. QED
    BY <2>4, <2>5, <2>6
<1>5. ASSUME NEW r \in S, NEW q \in S, Rank(r, S) = Rank(q, S) PROVE r = q
  <2>1. r.at \in Nat /\ q.at \in Nat
    BY DEF IsRows
  <2>2. ~(r.at < q.at) /\ ~(q.at < r.at)
    <3>1. Rank(r, S) \in Int /\ Rank(q, S) \in Int
      BY <1>1, <1>3
    <3>2. QED
      BY <1>4, <1>5, <3>1
  <2>3. r.at = q.at
    BY <2>1, <2>2
  <2>4. QED
    BY <2>3 DEF IsRows
<1>6. ASSUME NEW n \in 0..(N - 1) PROVE \E r \in S : Rank(r, S) = n
  <2> DEFINE f == [r \in S |-> Rank(r, S)]
  <2>1. f \in Injection(S, 0..(N - 1))
    BY <1>3, <1>5 DEF Injection, IsInjective
  <2>2. IsFiniteSet(0..(N - 1)) /\ Cardinality(0..(N - 1)) = N
    BY <1>1, FS_Interval
  <2>3. f \in Surjection(S, 0..(N - 1))
    BY <2>1, <2>2, FS_Injection DEF N
  <2>4. QED
    BY <2>3 DEF Surjection
<1>7. QED
  BY <1>1, <1>5, <1>6, <1>3 DEF N

-----------------------------------------------------------------------------
(* pair_rows. *)

LEMMA InOrder ==
    ASSUME NEW old, NEW new
    PROVE  /\ \A p \in PairedInOrder(old, new) : /\ p = <<p[1], p[2]>> /\ p[1] \in old /\ p[2] \in new
                                                 /\ Rank(p[1], old) = Rank(p[2], new)
           /\ \A r \in old, q \in new :
                  Rank(r, old) = Rank(q, new) => <<r, q>> \in PairedInOrder(old, new)
BY DEF PairedInOrder

(* Rows that are paired with themselves change nothing.                    *)
LEMMA SamePaired ==
    ASSUME NEW S, IsRows(S)
    PROVE  /\ \A p \in PairedInOrder(S, S) : p[1] = p[2]
           /\ \A r \in S : <<r, r>> \in PairedInOrder(S, S)
BY InOrder, Ranks

(* Where there are no fewer new rows, each old one has a pair.             *)
LEMMA FewerPaired ==
    ASSUME NEW old, NEW new, IsRows(old), IsRows(new), Cardinality(old) <= Cardinality(new),
           NEW r \in old
    PROVE  \E q \in new : <<r, q>> \in PairedInOrder(old, new)
<1>1. Rank(r, old) \in 0..(Cardinality(old) - 1) /\ Cardinality(old) \in Nat /\ Cardinality(new) \in Nat
  BY Ranks
<1>2. Rank(r, old) \in 0..(Cardinality(new) - 1)
  BY <1>1
<1>3. PICK q \in new : Rank(q, new) = Rank(r, old)
  BY <1>2, Ranks
<1>4. QED
  BY <1>3, InOrder

OfKey(rows, k) == {r \in rows : IsShape(r) /\ Key(r) = k}
OfSig(rows, s) == {r \in rows : r.sig = s}
SameSig(old, new) == UNION {PairedInOrder(OfSig(old, s), OfSig(new, s)) : s \in {r.sig : r \in old}}
Unlike(old, new) == PairedInOrder(old \ {p[1] : p \in SameSig(old, new)},
                                  new \ {p[2] : p \in SameSig(old, new)})

LEMMA PairsOfKeyAre ==
    ASSUME NEW old, NEW new
    PROVE  PairsOfKey(old, new) = IF Cardinality(old) = Cardinality(new) THEN PairedInOrder(old, new)
                                  ELSE SameSig(old, new) \cup Unlike(old, new)
BY DEF PairsOfKey, SameSig, Unlike, OfSig

LEMMA PairsAre ==
    ASSUME NEW old, NEW new
    PROVE  Pairs(old, new) = UNION {PairsOfKey(OfKey(old, k), OfKey(new, k)) : k \in {Key(r) : r \in old}}
BY DEF Pairs, OfKey

LEMMA SameSigPairs ==
    ASSUME NEW old, NEW new, NEW p \in SameSig(old, new)
    PROVE  p = <<p[1], p[2]>> /\ p[1] \in old /\ p[2] \in new /\ p[1].sig = p[2].sig
<1>1. PICK s : p \in PairedInOrder(OfSig(old, s), OfSig(new, s))
  BY DEF SameSig
<1>2. QED
  BY <1>1, InOrder DEF OfSig

LEMMA KeyPairs ==
    ASSUME NEW old, NEW new, NEW p \in PairsOfKey(old, new)
    PROVE  p = <<p[1], p[2]>> /\ p[1] \in old /\ p[2] \in new
<1>1. CASE p \in PairedInOrder(old, new)
  BY <1>1, InOrder
<1>2. CASE p \in SameSig(old, new)
  BY <1>2, SameSigPairs
<1>3. CASE p \in Unlike(old, new)
  BY <1>3, InOrder DEF Unlike
<1>4. QED
  BY <1>1, <1>2, <1>3, PairsOfKeyAre

(* A pair has one key, on both sides of it.                                *)
LEMMA PairHasKey ==
    ASSUME NEW old, NEW new, NEW p \in Pairs(old, new)
    PROVE  /\ p = <<p[1], p[2]>> /\ p[1] \in old /\ p[2] \in new
           /\ IsShape(p[1]) /\ IsShape(p[2]) /\ Key(p[1]) = Key(p[2])
<1>1. PICK k : p \in PairsOfKey(OfKey(old, k), OfKey(new, k))
  BY PairsAre
<1>2. p = <<p[1], p[2]>> /\ p[1] \in OfKey(old, k) /\ p[2] \in OfKey(new, k)
  BY <1>1, KeyPairs
<1>3. QED
  BY <1>2 DEF OfKey

LEMMA KeyIs ==
    ASSUME NEW r, NEW q
    PROVE  Key(r) = Key(q) <=> r.owner = q.owner /\ r.kind = q.kind /\ r.name = q.name
BY DEF Key

-----------------------------------------------------------------------------
(* moves. *)

LEMMA EarliestExists ==
    ASSUME NEW rows, rows # {}, \A r \in rows : r.at \in Nat
    PROVE  \E r \in rows : \A q \in rows : r.at <= q.at
<1> DEFINE S == {r.at : r \in rows}
<1>1. S \in SUBSET Nat /\ S # {}
  OBVIOUS
<1>2. Min(S) \in S /\ \A n \in S : Min(S) <= n
  <2> HIDE DEF S
  <2>1. QED
    BY <1>1, LeastNat
<1>3. PICK r \in rows : r.at = Min(S)
  BY <1>2
<1>4. \A q \in rows : r.at <= q.at
  BY <1>2, <1>3
<1>5. QED
  BY <1>4

LEMMA EarliestIs ==
    ASSUME NEW rows, rows # {}, \A r \in rows : r.at \in Nat
    PROVE  Earliest(rows) \in rows
BY EarliestExists DEF Earliest

MoveSet == {p \in Movable \X Arrived : p[1].file # p[2].file /\ Key(p[1]) = Key(p[2])}

(* The rows of the check, whatever was refreshed.                          *)
SidesAreRows == IsRows(diff.before) /\ \A r \in known : r.at \in Nat

LEMMA RemovedAre ==
    ASSUME NEW old, NEW new
    PROVE  Removed(old, new) \subseteq old /\ AddedRows(old, new) \subseteq new
BY DEF Removed, AddedRows

LEMMA MovableAre ==
    ASSUME SidesAreRows
    PROVE  /\ IsRows(Movable) /\ Movable \subseteq diff.before
           /\ Arrived \subseteq known /\ \A q \in Arrived : q.at \in Nat
<1>1. Movable \subseteq diff.before
  <2>1. \A f : Removed(BaseRows(f), KnownRows(f)) \subseteq BaseRows(f)
    BY RemovedAre
  <2>2. \A f : BaseRows(f) \subseteq diff.before
    BY DEF BaseRows, RowsIn
  <2>3. QED
    BY <2>1, <2>2 DEF Movable
<1>2. Arrived \subseteq known
  <2>1. \A f : AddedRows(BaseRows(f), KnownRows(f)) \subseteq KnownRows(f)
    BY RemovedAre
  <2>2. \A f : KnownRows(f) \subseteq known
    BY DEF KnownRows, RowsIn
  <2>3. QED
    BY <2>1, <2>2 DEF Arrived
<1>3. IsRows(Movable)
  BY <1>1, SomeRows DEF SidesAreRows
<1>4. QED
  BY <1>1, <1>2, <1>3 DEF SidesAreRows

LEMMA OneMove ==
    ASSUME SidesAreRows, NEW found \in SUBSET MoveSet, NEW r \in Movable
    PROVE  WithMove(found, r) \in SUBSET MoveSet
<1> DEFINE free == {q \in Arrived : /\ q.file # r.file /\ Key(q) = Key(r)
                                     /\ \A p \in found : p[2] # q}
<1>1. WithMove(found, r) = IF free = {} THEN found ELSE found \cup {<<r, Earliest(free)>>}
  BY DEF WithMove
<1>2. \A q \in free : q \in Arrived /\ q.at \in Nat /\ q.file # r.file /\ Key(q) = Key(r)
  BY MovableAre
<1> HIDE DEF free
<1>3. CASE free = {}
  BY <1>1, <1>3
<1>4. CASE free # {}
  <2>1. Earliest(free) \in free
    BY <1>2, <1>4, EarliestIs
  <2>2. <<r, Earliest(free)>> \in MoveSet
    BY <1>2, <2>1 DEF MoveSet
  <2>3. QED
    BY <1>1, <1>4, <2>2
<1>5. QED
  BY <1>3, <1>4

(* What moves has a place of its key in another file.                      *)
LEMMA MovesAre ==
    ASSUME SidesAreRows
    PROVE  Moves \subseteq MoveSet /\ (Movable = {} => Moves = {})
<1> DEFINE N == Cardinality(Movable)
           S == SUBSET MoveSet
           row(n) == CHOOSE r \in Movable : Rank(r, Movable) = n - 1
           F == [n \in 1..N |-> [found \in S |-> WithMove(found, row(n))]]
           Is(f) == f = [n \in 0..N |-> IF n = 0 THEN {} ELSE WithMove(f[n - 1], row(n))]
           moved == Placed(Movable)
<1>1. N \in Nat
  BY MovableAre, Ranks
<1>2. ASSUME NEW n \in 1..N PROVE row(n) \in Movable
  <2>1. n - 1 \in 0..(N - 1)
    BY <1>1
  <2>2. QED
    BY <2>1, MovableAre, Ranks
<1>3. F \in [1..N -> [S -> S]]
  BY <1>2, OneMove
<1>4. {} \in S
  OBVIOUS
<1>5. PICK f \in [0..N -> S] : f[0] = {} /\ \A n \in 1..N : f[n] = F[n][f[n - 1]]
  <2> DEFINE c == {}
  <2>1. c \in S
    OBVIOUS
  <2> HIDE DEF F, S, c, N
  <2>2. \E f \in [0..N -> S] : f[0] = c /\ \A n \in 1..N : f[n] = F[n][f[n - 1]]
    BY <1>1, <1>3, <2>1, Iteration
  <2>3. QED
    BY <2>2 DEF c
<1>6. ASSUME NEW n \in 1..N PROVE f[n] = WithMove(f[n - 1], row(n))
  <2>1. f[n - 1] \in S
    BY <1>1, <1>5
  <2>2. F[n][f[n - 1]] = WithMove(f[n - 1], row(n))
    BY <2>1
  <2> HIDE DEF F
  <2>3. QED
    BY <1>5, <2>2
<1>7. Is(f)
  <2>1. ASSUME NEW n \in 0..N PROVE f[n] = IF n = 0 THEN {} ELSE WithMove(f[n - 1], row(n))
    <3> HIDE DEF row, N, F, S
    <3>1. n = 0 \/ n \in 1..N
      BY <1>1
    <3>2. QED
      BY <1>5, <1>6, <3>1
  <2>2. f = [n \in 0..N |-> f[n]]
    OBVIOUS
  <2> HIDE DEF row, N, F, S
  <2>3. QED
    BY <2>1, <2>2
<1>8. Is(moved)
  BY <1>7 DEF Placed
<1>9. \A n \in 0..N : moved[n] = IF n = 0 THEN {} ELSE WithMove(moved[n - 1], row(n))
  <2> HIDE DEF moved, row, N
  <2>1. QED
    BY <1>8
<1> DEFINE T == {n \in Nat : n <= N => moved[n] \in S}
<1>10. 0 \in T
  BY <1>1, <1>9
<1>11. ASSUME NEW n \in Nat, n \in T PROVE n + 1 \in T
  <2>1. SUFFICES ASSUME n + 1 <= N PROVE moved[n + 1] \in S
    OBVIOUS
  <2>2. n + 1 \in 1..N /\ moved[n] \in S
    BY <1>1, <1>11, <2>1
  <2>3. moved[n + 1] = WithMove(moved[n], row(n + 1))
    <3>1. n + 1 \in 0..N /\ n + 1 # 0 /\ (n + 1) - 1 = n
      BY <1>1, <2>2
    <3> HIDE DEF moved, row, N
    <3>2. QED
      BY <1>9, <3>1
  <2>4. QED
    BY <1>2, <2>2, <2>3, OneMove
<1>12. N \in T
  <2> HIDE DEF T
  <2>1. QED
    BY <1>1, <1>10, <1>11, SetInduction
<1>13. Moves = moved[N]
  BY DEF Moves
<1>14. Movable = {} => N = 0
  BY FS_EmptySet
<1>15. QED
  BY <1>1, <1>9, <1>12, <1>13, <1>14

-----------------------------------------------------------------------------
(* detect, of a lost name. *)

Fresh == {r \in diff.after : r.file \notin diff.unread}
IsComplete == diff \in Diffs /\ known = Fresh /\ check.files = ChangedFiles
RemovedOf(f) == Removed(BaseRows(f), KnownRows(f))
AllMoved == {p[1] : p \in Moves}

LEMMA CandidatesAre ==
    /\ \A f \in ComparedFiles : Compared(BaseRows(f), KnownRows(f), AllMoved) \subseteq Candidates
    /\ \A p \in Moves : Compared(Subtree(p[1], BaseRows(p[1].file)),
                                 Subtree(p[2], KnownRows(p[2].file)), {}) \subseteq Candidates
BY DEF Candidates, AllMoved

LEMMA RemovedIsCompared ==
    ASSUME NEW old, NEW new, NEW moved, NEW r \in Removed(old, new), r \notin moved,
           ~Unreported(r, Removed(old, new), new)
    PROVE  \E c \in Compared(old, new, moved) : c.row = r /\ c.change # "changed"
<1> DEFINE c == [row |-> r, change |-> IF IsRenamed(r, old, new) THEN "renamed" ELSE "removed"]
<1>1. c \in Compared(old, new, moved)
  BY DEF Compared
<1>2. c.row = r /\ c.change # "changed"
  OBVIOUS
<1>3. QED
  BY <1>1, <1>2

(* No row that the check knows has the name of a lost one in its scope.    *)
LEMMA NoAnswer ==
    ASSUME known = Fresh, NEW r \in diff.before, Lost(r), NEW q \in known, IsShape(q),
           q.name = r.name, q.owner = r.owner
    PROVE  q.file # r.file /\ ~diff.shared
BY DEF Fresh, Lost, Answers, SameScope

LEMMA SameLost ==
    ASSUME NEW r \in diff.before, Lost(r), NEW q \in diff.before, IsShape(q),
           q.name = r.name, q.owner = r.owner, q.file = r.file
    PROVE  Lost(q)
BY DEF Lost, Answers, SameScope

LEMMA SidesOf == ASSUME IsComplete PROVE SidesAreRows
BY DiffsAssumption DEF IsComplete, SidesAreRows, Fresh, IsRows

LEMMA LostIsRemoved ==
    ASSUME IsComplete, NEW r \in diff.before, Lost(r)
    PROVE  r.file \in ComparedFiles /\ r \in RemovedOf(r.file) /\ r \notin AllMoved
<1>1. known = Fresh /\ IsShape(r) /\ r.file \notin diff.unread /\ \A q \in diff.after : ~Answers(q, r)
  BY DEF IsComplete, Lost
<1>2. r \notin diff.after
  BY <1>1 DEF Answers, SameScope
<1>3. r.file \in ChangedFiles
  BY <1>2 DEF ChangedFiles
<1>4. r.file \in ComparedFiles
  BY <1>1, <1>3 DEF ComparedFiles, IsComplete
<1>5. r \in BaseRows(r.file)
  BY DEF BaseRows, RowsIn
<1>6. ASSUME NEW p \in Pairs(BaseRows(r.file), KnownRows(r.file)), p[1] = r PROVE FALSE
  <2>1. p[2] \in KnownRows(r.file) /\ IsShape(p[2]) /\ Key(p[1]) = Key(p[2])
    BY PairHasKey
  <2>2. p[2] \in known /\ p[2].file = r.file /\ p[2].name = r.name /\ p[2].owner = r.owner
    BY <1>6, <2>1, KeyIs DEF KnownRows, RowsIn
  <2>3. QED
    BY <1>1, <2>1, <2>2, NoAnswer
<1>7. r \in RemovedOf(r.file)
  BY <1>1, <1>5, <1>6 DEF RemovedOf, Removed
<1>8. ASSUME NEW p \in Moves, p[1] = r PROVE FALSE
  <2>1. p[1] \in Movable /\ p[2] \in Arrived /\ Key(p[1]) = Key(p[2])
    BY SidesOf, MovesAre DEF MoveSet
  <2>2. diff.shared /\ p[2] \in known /\ p[2].name = r.name /\ p[2].owner = r.owner
    BY <1>8, <2>1, SidesOf, MovableAre, KeyIs DEF Movable
  <2>3. IsShape(p[2])
    BY <2>1 DEF Arrived, AddedRows
  <2>4. QED
    BY <1>1, <2>2, <2>3, NoAnswer
<1>9. QED
  BY <1>4, <1>7, <1>8 DEF AllMoved

NamedBy(c, r) == c.row.name = r.name /\ c.row.owner = r.owner

(* One of the removed symbols that share a lost name stands for all.       *)
LEMMA LostIsNamed ==
    ASSUME IsComplete, NEW r \in diff.before, Lost(r), ~InsideRemoved(r, RemovedOf(r.file))
    PROVE  \E c \in Candidates : NamedBy(c, r)
<1> DEFINE f == r.file
           R == RemovedOf(f)
           values == {q \in R : q.kind \in {"constant", "variable"} /\ q.name = r.name /\ q.owner = r.owner}
<1>1. PICK x \in R : /\ x.name = r.name /\ x.owner = r.owner
                      /\ (x.kind = "type" => values = {})
  <2>1. r \in R
    BY LostIsRemoved
  <2>2. CASE values = {}
    BY <2>1, <2>2
  <2>3. CASE values # {}
    BY <2>3
  <2>4. QED
    BY <2>2, <2>3
<1> DEFINE same == {q \in R : Key(q) = Key(x)}
           q == Earliest(same)
<1>2. R \subseteq BaseRows(f) /\ BaseRows(f) \subseteq diff.before /\ \A y \in R : y.file = f /\ IsShape(y)
  BY DEF RemovedOf, Removed, BaseRows, RowsIn
<1>3. \A y \in same : y.at \in Nat /\ y \in R
  BY <1>2, SidesOf DEF SidesAreRows, IsRows
<1>4. q \in same
  <2>1. same # {}
    BY <1>1
  <2> HIDE DEF same
  <2>2. QED
    BY <1>3, <2>1, EarliestIs
<1>5. \A y \in same : q.at <= y.at
  <2>1. \E y \in same : \A z \in same : y.at <= z.at
    BY <1>3, <1>4, EarliestExists
  <2> HIDE DEF same
  <2>2. QED
    BY <2>1 DEF Earliest
<1>6. /\ q \in R /\ q.name = r.name /\ q.owner = r.owner /\ q.file = f /\ IsShape(q)
      /\ q.kind = x.kind /\ q \in diff.before
  <2>1. q \in R /\ Key(q) = Key(x)
    BY <1>4
  <2> HIDE DEF q
  <2>2. QED
    BY <1>1, <1>2, <2>1, KeyIs
<1> HIDE DEF q
<1>7. Lost(q)
  BY <1>6, SameLost
<1>8. ~Unreported(q, R, KnownRows(f))
  <2>1. ~InsideRemoved(q, R)
    BY <1>6 DEF InsideRemoved, IsParent
  <2>2. q.kind = "type" => values = {}
    BY <1>1, <1>6
  <2>3. ~\E y \in R : y.at < q.at /\ Key(y) = Key(q)
    <3>1. SUFFICES ASSUME NEW y \in R, y.at < q.at, Key(y) = Key(q) PROVE FALSE
      OBVIOUS
    <3>2. y \in same /\ q \in same
      BY <1>4, <3>1
    <3>3. q.at <= y.at /\ q.at \in Nat /\ y.at \in Nat
      BY <1>3, <1>5, <3>2
    <3>4. QED
      BY <3>1, <3>3
  <2>4. ASSUME NEW other \in KnownRows(f), ChangedKindTo(q, other) PROVE FALSE
    <3>1. other \in known /\ other.file = f /\ IsShape(other) /\ other.name = q.name /\ other.owner = q.owner
      BY <2>4 DEF KnownRows, RowsIn, ChangedKindTo
    <3>2. QED
      BY <1>6, <1>7, <3>1, NoAnswer DEF IsComplete
  <2>5. QED
    BY <1>6, <2>1, <2>2, <2>3, <2>4 DEF Unreported
<1>9. f \in ComparedFiles /\ q \notin AllMoved
  BY <1>6, <1>7, LostIsRemoved
<1>10. \E c \in Compared(BaseRows(f), KnownRows(f), AllMoved) : c.row = q
  BY <1>6, <1>8, <1>9, RemovedIsCompared DEF RemovedOf
<1>11. QED
  BY <1>6, <1>9, <1>10, CandidatesAre DEF NamedBy

(* The rows of a type that moved.                                          *)
LEMMA SubtreeIs ==
    ASSUME NEW t, NEW rows, t \in rows, \A r \in rows : r.name # NoOwner, t.owner = NoOwner, IsShape(t)
    PROVE  /\ t \in Subtree(t, rows) /\ Subtree(t, rows) \subseteq rows
           /\ OfKey(Subtree(t, rows), Key(t)) = {t}
           /\ \A q \in Subtree(t, rows) : q.owner = NoOwner => q = t
BY KeyIs DEF Subtree, OfKey, IsParent

(* A lost name inside of a removed type goes with the type, or with it to  *)
(* its new file, where it is missed.                                       *)
LEMMA LostInside ==
    ASSUME IsComplete, NEW r \in diff.before, Lost(r),
           NEW t \in RemovedOf(r.file), IsParent(t, r)
    PROVE  \/ \E c \in Candidates : NamedBy(c, r)
           \/ \E c \in Candidates : c.change # "changed" /\ c.row.name = r.owner /\ c.row.owner = NoOwner
           \/ t \in diff.before /\ ChangedKind(t)
<1> DEFINE f == r.file
           R == RemovedOf(f)
<1>1. /\ t \in diff.before /\ t.file = f /\ t \in BaseRows(f) /\ IsShape(t)
      /\ t.kind \in Types /\ t.name = r.owner /\ t.owner = NoOwner
  BY DEF RemovedOf, Removed, BaseRows, RowsIn, IsParent
<1>2. known = Fresh /\ SidesAreRows /\ f \in ComparedFiles
      /\ (\A q \in diff.before : q.name # NoOwner) /\ \A q \in known : q.name # NoOwner
  BY SidesOf, LostIsRemoved, DiffsAssumption DEF IsComplete, Fresh, IsRows
<1>3. CASE t \notin AllMoved
  <2>1. CASE Unreported(t, R, KnownRows(f))
    <3>1. ~InsideRemoved(t, R)
      <4>1. \A y \in R : y.name # NoOwner
        BY <1>2 DEF RemovedOf, Removed, BaseRows, RowsIn
      <4>2. QED
        BY <1>1, <4>1 DEF InsideRemoved, IsParent
    <3>2. t.kind # "type" /\ t.kind \notin Bindings
      BY <1>1 DEF Types, Bindings
    <3>3. PICK other \in KnownRows(f) : ChangedKindTo(t, other)
      BY <2>1, <3>1, <3>2 DEF Unreported
    <3>4. other \in diff.after
      BY <1>2 DEF KnownRows, RowsIn, Fresh
    <3>5. QED
      BY <1>1, <3>3, <3>4 DEF ChangedKind
  <2>2. CASE ~Unreported(t, R, KnownRows(f))
    <3>1. \E c \in Compared(BaseRows(f), KnownRows(f), AllMoved) : c.row = t /\ c.change # "changed"
      BY <1>3, <2>2, RemovedIsCompared DEF RemovedOf
    <3>2. QED
      BY <1>1, <1>2, <3>1, CandidatesAre
  <2>3. QED
    BY <2>1, <2>2
<1>4. CASE t \in AllMoved
  <2>1. PICK p \in Moves : p[1] = t
    BY <1>4 DEF AllMoved
  <2> DEFINE u == p[2]
             old == Subtree(t, BaseRows(f))
             new == Subtree(u, KnownRows(u.file))
  <2>2. t \in Movable /\ u \in Arrived /\ Key(t) = Key(u)
    BY <1>2, <2>1, MovesAre DEF MoveSet
  <2>3. diff.shared /\ u \in known /\ u \in KnownRows(u.file) /\ IsShape(u) /\ u.owner = NoOwner
    BY <1>1, <1>2, <2>2, MovableAre, KeyIs DEF Movable, Arrived, AddedRows, KnownRows, RowsIn
  <2>4. /\ old \subseteq BaseRows(f) /\ OfKey(old, Key(t)) = {t}
        /\ \A q \in old : q.owner = NoOwner => q = t
    BY <1>1, <1>2, SubtreeIs DEF BaseRows, RowsIn
  <2>5. new \subseteq KnownRows(u.file) /\ OfKey(new, Key(u)) = {u}
    BY <1>2, <2>3, SubtreeIs DEF KnownRows, RowsIn
  <2>6. new \subseteq known
    BY <2>5 DEF KnownRows, RowsIn
  <2>7. r \in old /\ t \in old
    BY DEF Subtree, BaseRows, RowsIn
  <2> HIDE DEF old, new
  <2>8. <<t, u>> \in Pairs(old, new)
    <3>1. Cardinality({t}) = 1 /\ Cardinality({u}) = 1
      BY FS_Singleton
    <3>2. Rank(t, {t}) = Rank(u, {u})
      <4>1. t.at \in Nat /\ u.at \in Nat
        BY <1>1, <1>2, <2>3 DEF SidesAreRows, IsRows
      <4>2. {q \in {t} : q.at < t.at} = {} /\ {q \in {u} : q.at < u.at} = {}
        BY <4>1
      <4>3. QED
        BY <4>2 DEF Rank
    <3>3. <<t, u>> \in PairsOfKey({t}, {u})
      BY <3>1, <3>2, InOrder, PairsOfKeyAre
    <3>4. <<t, u>> \in PairsOfKey(OfKey(old, Key(t)), OfKey(new, Key(t)))
      BY <2>2, <2>4, <2>5, <3>3
    <3>5. QED
      BY <2>7, <3>4, PairsAre
  <2>9. t \notin Removed(old, new)
    BY <2>8 DEF Removed
  <2>10. r \in Removed(old, new)
    <3>1. ASSUME NEW o \in Pairs(old, new), o[1] = r PROVE FALSE
      <4>1. o[2] \in new /\ IsShape(o[2]) /\ Key(o[1]) = Key(o[2])
        BY PairHasKey
      <4>2. o[2] \in known /\ o[2].name = r.name /\ o[2].owner = r.owner
        BY <2>6, <3>1, <4>1, KeyIs
      <4>3. QED
        BY <1>2, <2>3, <4>1, <4>2, NoAnswer
    <3>2. QED
      BY <2>7, <3>1 DEF Removed, Lost
  <2>11. ~Unreported(r, Removed(old, new), new)
    <3>1. ~InsideRemoved(r, Removed(old, new))
      BY <2>4, <2>9 DEF InsideRemoved, IsParent, Removed
    <3>2. r.owner # NoOwner /\ r.kind \notin Bindings /\ r.kind # "type"
      BY <1>1, <1>2 DEF Lost, IsShape, Bindings, Callables, Types
    <3>3. ASSUME NEW other \in new, ChangedKindTo(r, other) PROVE FALSE
      <4>1. other \in known /\ IsShape(other) /\ other.name = r.name /\ other.owner = r.owner
        BY <2>6, <3>3 DEF ChangedKindTo
      <4>2. QED
        BY <1>2, <2>3, <4>1, NoAnswer
    <3>4. QED
      BY <3>1, <3>2, <3>3 DEF Unreported
  <2>12. \E c \in Compared(old, new, {}) : c.row = r
    BY <2>10, <2>11, RemovedIsCompared
  <2>13. Compared(old, new, {}) \subseteq Candidates
    BY <1>1, <2>1, CandidatesAre DEF old, new
  <2>14. QED
    BY <2>12, <2>13 DEF NamedBy
<1>5. QED
  BY <1>3, <1>4

LEMMA LostIsCandidate ==
    ASSUME IsComplete, NEW r \in diff.before, Lost(r)
    PROVE  \/ \E c \in Candidates : NamedBy(c, r)
           \/ \E c \in Candidates : c.change # "changed" /\ c.row.name = r.owner /\ c.row.owner = NoOwner
           \/ \E t \in diff.before : IsParent(t, r) /\ ChangedKind(t)
<1>1. CASE InsideRemoved(r, RemovedOf(r.file))
  BY <1>1, LostInside DEF InsideRemoved
<1>2. CASE ~InsideRemoved(r, RemovedOf(r.file))
  BY <1>2, LostIsNamed
<1>3. QED
  BY <1>1, <1>2

-----------------------------------------------------------------------------
(* detect, when nothing was taken away. *)

LEMMA AddedToKey ==
    ASSUME NEW old, NEW new, IsRows(new), old \subseteq new
    PROVE  /\ \A p \in PairsOfKey(old, new) : p[1].sig = p[2].sig
           /\ \A r \in old : \E q \in new : <<r, q>> \in PairsOfKey(old, new)
<1>1. IsRows(old) /\ IsFiniteSet(new)
  BY SomeRows DEF IsRows
<1>2. CASE Cardinality(old) = Cardinality(new)
  <2>1. old = new
    BY <1>1, <1>2, FS_Subset
  <2>2. PairsOfKey(old, new) = PairedInOrder(old, old)
    BY <1>2, <2>1, PairsOfKeyAre
  <2>3. QED
    BY <1>1, <2>1, <2>2, SamePaired
<1>3. CASE Cardinality(old) # Cardinality(new)
  <2>1. ASSUME NEW r \in old PROVE \E q \in new : <<r, q>> \in SameSig(old, new)
    <3> DEFINE a == OfSig(old, r.sig)
               b == OfSig(new, r.sig)
    <3>1. r \in a /\ a \subseteq b /\ b \subseteq new
      BY DEF OfSig
    <3> HIDE DEF a, b
    <3>2. IsRows(b) /\ IsRows(a)
      BY <3>1, SomeRows
    <3>3. Cardinality(a) <= Cardinality(b)
      BY <3>1, <3>2, FS_Subset DEF IsRows
    <3>4. PICK q \in b : <<r, q>> \in PairedInOrder(a, b)
      BY <3>1, <3>2, <3>3, FewerPaired
    <3>5. QED
      BY <3>1, <3>4 DEF SameSig, a, b
  <2>2. old \ {p[1] : p \in SameSig(old, new)} = {}
    <3>1. \A r \in old : \E p \in SameSig(old, new) : p[1] = r
      <4>1. SUFFICES ASSUME NEW r \in old PROVE \E p \in SameSig(old, new) : p[1] = r
        OBVIOUS
      <4>2. PICK q : <<r, q>> \in SameSig(old, new)
        BY <2>1
      <4>3. <<r, q>>[1] = r
        OBVIOUS
      <4>4. QED
        BY <4>2, <4>3
    <3>2. QED
      BY <3>1
  <2>3. Unlike(old, new) = {}
    BY <2>2, InOrder DEF Unlike
  <2>4. PairsOfKey(old, new) = SameSig(old, new)
    BY <1>3, <2>3, PairsOfKeyAre
  <2>5. QED
    BY <2>1, <2>4, SameSigPairs
<1>4. QED
  BY <1>2, <1>3

(* An added overload does not shift the others.                            *)
LEMMA AddedShiftNothing ==
    ASSUME NEW old, NEW new, IsRows(new), old \subseteq new
    PROVE  Removed(old, new) = {} /\ \A p \in Pairs(old, new) : p[1].sig = p[2].sig
<1>1. ASSUME NEW k PROVE IsRows(OfKey(new, k)) /\ OfKey(old, k) \subseteq OfKey(new, k)
  BY SomeRows DEF OfKey
<1>2. ASSUME NEW p \in Pairs(old, new) PROVE p[1].sig = p[2].sig
  <2>1. PICK k : p \in PairsOfKey(OfKey(old, k), OfKey(new, k))
    BY PairsAre
  <2>2. QED
    BY <1>1, <2>1, AddedToKey
<1>3. ASSUME NEW r \in old, IsShape(r) PROVE \E p \in Pairs(old, new) : p[1] = r
  <2>1. r \in OfKey(old, Key(r))
    BY <1>3 DEF OfKey
  <2>2. PICK q : <<r, q>> \in PairsOfKey(OfKey(old, Key(r)), OfKey(new, Key(r)))
    BY <1>1, <2>1, AddedToKey
  <2>3. <<r, q>> \in Pairs(old, new)
    BY <2>2, PairsAre
  <2>4. <<r, q>>[1] = r
    OBVIOUS
  <2>5. QED
    BY <2>3, <2>4
<1>4. Removed(old, new) = {}
  BY <1>3 DEF Removed
<1>5. QED
  BY <1>2, <1>4

OnlyAdded ==
    /\ diff.unread = {} /\ diff.before \subseteq diff.after
    /\ \A r \in diff.after \ diff.before : r.kind \notin {"field", "variant"}

LEMMA AdditionsAreNoCandidates ==
    ASSUME diff \in Diffs, known = Fresh, OnlyAdded
    PROVE  Candidates = {}
<1>1. known = diff.after /\ IsRows(diff.before) /\ IsRows(diff.after) /\ diff.before \subseteq diff.after
  BY DiffsAssumption DEF Fresh, OnlyAdded
<1>2. ASSUME NEW f
      PROVE  /\ IsRows(KnownRows(f)) /\ BaseRows(f) \subseteq KnownRows(f)
             /\ Removed(BaseRows(f), KnownRows(f)) = {}
             /\ \A p \in Pairs(BaseRows(f), KnownRows(f)) : p[1].sig = p[2].sig
  <2>1. KnownRows(f) \subseteq known /\ BaseRows(f) \subseteq KnownRows(f)
    BY <1>1 DEF KnownRows, BaseRows, RowsIn
  <2>2. IsRows(KnownRows(f))
    BY <1>1, <2>1, SomeRows
  <2>3. QED
    BY <2>1, <2>2, AddedShiftNothing
<1>3. ASSUME NEW f, NEW p \in Pairs(BaseRows(f), KnownRows(f))
      PROVE  ~ChangedPair(p[1], p[2], BaseRows(f), KnownRows(f))
  <2> DEFINE fields(t, rows) == {q \in rows : q.kind \in {"field", "variant"} /\ IsParent(t, q)}
  <2>1. /\ p[1] \in BaseRows(f) /\ p[2] \in KnownRows(f) /\ p[1].sig = p[2].sig
        /\ p[1].owner = p[2].owner /\ p[1].kind = p[2].kind /\ p[1].name = p[2].name
    BY <1>2, PairHasKey, KeyIs
  <2>2. p[1].file = p[2].file
    BY <2>1 DEF BaseRows, KnownRows, RowsIn
  <2>3. \A q : IsParent(p[1], q) <=> IsParent(p[2], q)
    BY <2>1, <2>2 DEF IsParent
  <2>4. \A q \in KnownRows(f) : q.kind \in {"field", "variant"} => q \in BaseRows(f)
    BY <1>1 DEF OnlyAdded, BaseRows, KnownRows, RowsIn
  <2>5. fields(p[1], BaseRows(f)) = fields(p[2], KnownRows(f))
    BY <1>2, <2>3, <2>4
  <2>6. MemberNames(p[1], BaseRows(f)) = MemberNames(p[2], KnownRows(f))
    BY <2>5 DEF MemberNames
  <2>7. QED
    BY <2>1, <2>6 DEF ChangedPair
<1>4. Movable = {}
  BY <1>2 DEF Movable
<1>5. Moves = {}
  <2>1. SidesAreRows
    BY <1>1 DEF SidesAreRows, IsRows
  <2>2. QED
    BY <1>4, <2>1, MovesAre
<1>6. ASSUME NEW f, NEW moved PROVE Compared(BaseRows(f), KnownRows(f), moved) = {}
  BY <1>2, <1>3 DEF Compared
<1>7. QED
  BY <1>5, <1>6 DEF Candidates

-----------------------------------------------------------------------------
(* The check. *)

CheckTyped ==
    /\ diff \in Diffs /\ checkFaults \in Nat
    /\ cstage \in {"prepare", "refresh", "detect", "list", "done"}
    /\ check = [files |-> check.files, changes |-> check.changes, cuts |-> check.cuts]
    /\ check.files \subseteq ChangedFiles
    /\ cstage \in {"prepare", "refresh", "detect"} => agendaC = {} /\ check.changes = {}

(* A file is left out with a word only.                                    *)
FilesAreCompared == cstage # "prepare" /\ check.cuts = {} => check.files = ChangedFiles

(* What was compared is the edit, unless a refresh failed.                 *)
EditIsKnown ==
    cstage \in {"detect", "list"} \/ check.changes # {} => checkFaults > 0 \/ known = Fresh

NoBase == \A f \in check.files : BaseRows(f) = {}

(* What is found is listed, or the check says that it is not.              *)
ChangesAreFound ==
    /\ check.changes \subseteq Candidates
    /\ cstage = "list" => agendaC \subseteq Candidates
    /\ cstage = "list" /\ check.cuts = {} => agendaC \cup check.changes = Candidates
    /\ cstage = "done" /\ check.cuts = {} =>
         NoBase \/ (check.changes = Candidates /\ (checkFaults > 0 \/ known = Fresh))

CheckInv == CheckTyped /\ FilesAreCompared /\ EditIsKnown /\ ChangesAreFound

LEMMA SameEdit ==
    ASSUME UNCHANGED diff
    PROVE  ChangedFiles' = ChangedFiles /\ Fresh' = Fresh /\ \A f : BaseRows(f)' = BaseRows(f)
BY DEF ChangedFiles, Fresh, BaseRows

LEMMA SameCandidates ==
    ASSUME UNCHANGED <<diff, known>>, check'.files = check.files
    PROVE  Candidates' = Candidates
<1>1. (\A f : BaseRows(f)' = BaseRows(f)) /\ \A f : KnownRows(f)' = KnownRows(f)
  BY DEF BaseRows, KnownRows
<1>2. ComparedFiles' = ComparedFiles
  BY DEF ComparedFiles
<1>3. Arrived' = Arrived
  BY <1>1, <1>2 DEF Arrived
<1>4. Movable' = Movable
  BY <1>1, <1>2 DEF Movable
<1>5. Moves' = Moves
  BY <1>3, <1>4 DEF Moves, Placed, WithMove
<1>6. QED
  BY <1>1, <1>2, <1>5 DEF Candidates

LEMMA FilesAreFinite == ASSUME diff \in Diffs PROVE IsFiniteSet(ChangedFiles)
<1> DEFINE rows == (diff.before \ diff.after) \cup (diff.after \ diff.before)
           files == {r.file : r \in rows}
           file == [r \in rows |-> r.file]
<1>1. IsFiniteSet(diff.before) /\ IsFiniteSet(diff.after) /\ IsFiniteSet(diff.unread)
  BY DiffsAssumption DEF IsRows
<1>2. IsFiniteSet(rows)
  BY <1>1, FS_Difference, FS_Union
<1>3. file \in Surjection(rows, files)
  BY DEF Surjection
<1>4. IsFiniteSet(files)
  BY <1>2, <1>3, FS_Surjection
<1>5. QED
  BY <1>1, <1>4, FS_Union DEF ChangedFiles

LEMMA PrepareKeeps == ASSUME CheckInv, Prepare PROVE CheckInv'
<1>1. PICK files \in SUBSET ChangedFiles :
        /\ check' = [check EXCEPT !.files = files,
                                  !.cuts = IF files = ChangedFiles THEN {} ELSE {"files"}]
        /\ cstage' = IF files = {} THEN "done" ELSE "refresh"
  BY DEF Prepare
<1>2. cstage = "prepare" /\ UNCHANGED <<diff, known, agendaC, checkFaults>>
  BY DEF Prepare
<1>3. /\ check = [files |-> check.files, changes |-> check.changes, cuts |-> check.cuts]
      /\ agendaC = {} /\ check.changes = {}
  BY <1>2 DEF CheckInv, CheckTyped
<1>4. /\ check'.files = files /\ check'.changes = {}
      /\ check'.cuts = IF files = ChangedFiles THEN {} ELSE {"files"}
      /\ check' = [files |-> check'.files, changes |-> check'.changes, cuts |-> check'.cuts]
  BY <1>1, <1>3
<1>5. CheckTyped'
  BY <1>1, <1>2, <1>3, <1>4, SameEdit DEF CheckInv, CheckTyped
<1>6. FilesAreCompared' /\ EditIsKnown'
  BY <1>1, <1>2, <1>4, SameEdit DEF FilesAreCompared, EditIsKnown
<1>7. ChangesAreFound'
  BY <1>1, <1>4 DEF ChangesAreFound, NoBase
<1>8. QED
  BY <1>5, <1>6, <1>7 DEF CheckInv

LEMMA RefreshKeeps == ASSUME CheckInv, Refresh PROVE CheckInv'
<1>1. PICK stale \in SUBSET (check.files \ diff.unread) :
        /\ checkFaults' = checkFaults + Cardinality(stale)
        /\ known' = {r \in diff.before : r.file \in stale}
                     \cup {r \in diff.after : r.file \notin stale \cup diff.unread}
  BY DEF Refresh
<1>2. /\ cstage = "refresh" /\ cstage' = IF NoBase THEN "done" ELSE "detect"
      /\ UNCHANGED <<diff, check, agendaC>>
  BY DEF Refresh, NoBase
<1>3. diff \in Diffs /\ checkFaults \in Nat /\ agendaC = {} /\ check.changes = {}
  BY <1>2 DEF CheckInv, CheckTyped
<1>4. IsFiniteSet(stale) /\ Cardinality(stale) \in Nat
  <2>1. stale \in SUBSET ChangedFiles
    BY DEF CheckInv, CheckTyped
  <2>2. QED
    BY <1>3, <2>1, FilesAreFinite, FS_Subset, FS_CardinalityType
<1>5. checkFaults' \in Nat /\ (checkFaults' > 0 \/ known' = Fresh')
  <2>1. CASE stale = {}
    <3>1. known' = Fresh
      BY <1>1, <2>1 DEF Fresh
    <3>2. Cardinality(stale) = 0
      BY <2>1, FS_EmptySet
    <3>3. QED
      BY <1>1, <1>2, <1>3, <3>1, <3>2, SameEdit
  <2>2. CASE stale # {}
    <3>1. Cardinality(stale) # 0
      BY <1>4, <2>2, FS_EmptySet
    <3>2. QED
      BY <1>1, <1>3, <1>4, <3>1
  <2>3. QED
    BY <2>1, <2>2
<1>6. CheckTyped'
  BY <1>2, <1>3, <1>5, SameEdit DEF CheckInv, CheckTyped
<1>7. FilesAreCompared' /\ EditIsKnown'
  BY <1>2, <1>5, SameEdit DEF CheckInv, FilesAreCompared, EditIsKnown
<1>8. ChangesAreFound'
  <2>1. NoBase' <=> NoBase
    BY <1>2, SameEdit DEF NoBase
  <2>2. check'.changes = {} /\ cstage' # "list" /\ (cstage' = "done" => NoBase')
    BY <1>2, <1>3, <2>1
  <2>3. QED
    BY <2>2 DEF ChangesAreFound
<1>9. QED
  BY <1>6, <1>7, <1>8 DEF CheckInv

LEMMA OutOfTimeKeeps == ASSUME CheckInv, OutOfTime PROVE CheckInv'
<1>1. /\ check' = [check EXCEPT !.cuts = @ \cup {"time"}] /\ cstage' = "done"
      /\ cstage \in {"refresh", "detect", "list"}
      /\ UNCHANGED <<diff, known, agendaC, checkFaults>>
  BY DEF OutOfTime
<1>2. check = [files |-> check.files, changes |-> check.changes, cuts |-> check.cuts]
  BY DEF CheckInv, CheckTyped
<1>3. /\ check'.files = check.files /\ check'.changes = check.changes /\ check'.cuts # {}
      /\ check' = [files |-> check'.files, changes |-> check'.changes, cuts |-> check'.cuts]
  BY <1>1, <1>2
<1>4. Candidates' = Candidates
  BY <1>1, <1>3, SameCandidates
<1>5. CheckTyped'
  BY <1>1, <1>3, SameEdit DEF CheckInv, CheckTyped
<1>6. FilesAreCompared' /\ EditIsKnown' /\ ChangesAreFound'
  BY <1>1, <1>3, <1>4, SameEdit DEF CheckInv, FilesAreCompared, EditIsKnown, ChangesAreFound
<1>7. QED
  BY <1>5, <1>6 DEF CheckInv

LEMMA DetectKeeps == ASSUME CheckInv, Detect PROVE CheckInv'
<1>1. PICK kept \in SUBSET Candidates :
        /\ agendaC' = kept
        /\ check' = [check EXCEPT !.cuts = @ \cup IF kept # Candidates THEN {"symbols"} ELSE {}]
  BY DEF Detect, kSubset
<1>2. cstage = "detect" /\ cstage' = "list" /\ UNCHANGED <<diff, known, checkFaults>>
  BY DEF Detect
<1>3. /\ check = [files |-> check.files, changes |-> check.changes, cuts |-> check.cuts]
      /\ check.changes = {} /\ (checkFaults > 0 \/ known = Fresh)
  BY <1>2 DEF CheckInv, CheckTyped, EditIsKnown
<1>4. /\ check'.files = check.files /\ check'.changes = {}
      /\ check'.cuts = {} => check.cuts = {} /\ kept = Candidates
      /\ check' = [files |-> check'.files, changes |-> check'.changes, cuts |-> check'.cuts]
  BY <1>1, <1>3
<1>5. Candidates' = Candidates
  BY <1>2, <1>4, SameCandidates
<1>6. CheckTyped'
  BY <1>1, <1>2, <1>4, SameEdit DEF CheckInv, CheckTyped
<1>7. FilesAreCompared' /\ EditIsKnown'
  BY <1>2, <1>3, <1>4, SameEdit DEF CheckInv, FilesAreCompared, EditIsKnown
<1>8. ChangesAreFound'
  BY <1>1, <1>2, <1>4, <1>5 DEF ChangesAreFound
<1>9. QED
  BY <1>6, <1>7, <1>8 DEF CheckInv

LEMMA ListSitesKeeps == ASSUME CheckInv, NEW c \in agendaC, ListSites(c) PROVE CheckInv'
<1>1. /\ cstage = "list" /\ agendaC' = agendaC \ {c} /\ UNCHANGED <<diff, cstage, known>>
      /\ \/ check' = [check EXCEPT !.changes = @ \cup {c}] /\ UNCHANGED checkFaults
         \/ checkFaults' = checkFaults + 1 /\ check' = [check EXCEPT !.cuts = @ \cup {"sites"}]
  BY DEF ListSites
<1>2. /\ check = [files |-> check.files, changes |-> check.changes, cuts |-> check.cuts]
      /\ checkFaults \in Nat /\ (checkFaults > 0 \/ known = Fresh)
      /\ agendaC \subseteq Candidates /\ check.changes \subseteq Candidates
      /\ check.cuts = {} => agendaC \cup check.changes = Candidates
  BY <1>1 DEF CheckInv, CheckTyped, EditIsKnown, ChangesAreFound
<1>3. /\ check'.files = check.files
      /\ check' = [files |-> check'.files, changes |-> check'.changes, cuts |-> check'.cuts]
      /\ check'.changes \subseteq Candidates
      /\ check'.cuts = {} => check.cuts = {} /\ check'.changes = check.changes \cup {c}
  BY <1>1, <1>2
<1>4. checkFaults' \in Nat /\ (checkFaults' > 0 \/ known = Fresh)
  BY <1>1, <1>2
<1>5. Candidates' = Candidates
  BY <1>1, <1>3, SameCandidates
<1>6. CheckTyped'
  BY <1>1, <1>3, <1>4, SameEdit DEF CheckInv, CheckTyped
<1>7. FilesAreCompared' /\ EditIsKnown'
  BY <1>1, <1>3, <1>4, SameEdit DEF CheckInv, FilesAreCompared, EditIsKnown
<1>8. ChangesAreFound'
  BY <1>1, <1>2, <1>3, <1>5 DEF ChangesAreFound
<1>9. QED
  BY <1>6, <1>7, <1>8 DEF CheckInv

LEMMA EndCheckKeeps == ASSUME CheckInv, EndCheck PROVE CheckInv'
<1>1. /\ cstage = "list" /\ agendaC = {} /\ cstage' = "done"
      /\ UNCHANGED <<diff, known, check, agendaC, checkFaults>>
  BY DEF EndCheck
<1>2. Candidates' = Candidates
  BY <1>1, SameCandidates
<1>3. CheckTyped' /\ FilesAreCompared' /\ EditIsKnown'
  BY <1>1, SameEdit DEF CheckInv, CheckTyped, FilesAreCompared, EditIsKnown
<1>4. ChangesAreFound'
  BY <1>1, <1>2, SameEdit DEF CheckInv, EditIsKnown, ChangesAreFound
<1>5. QED
  BY <1>3, <1>4 DEF CheckInv

CheckSpec == CheckInit /\ [][CheckNext]_checkVars

(* What an edit check has found stands for the edit: as long as no refresh *)
(* failed its changes are candidates of the edit itself, and unless the    *)
(* check says what it left out they are all of them (PendingCheck::run).   *)
THEOREM CheckInvariantHolds == CheckSpec => []CheckInv
<1>1. CheckInit => CheckInv
  <2>1. SUFFICES ASSUME CheckInit PROVE CheckInv
    OBVIOUS
  <2>2. check.files = {} /\ check.changes = {} /\ check.cuts = {} /\ agendaC = {} /\ checkFaults = 0
        /\ cstage = "prepare" /\ diff \in Diffs
    BY <2>1 DEF CheckInit
  <2>3. CheckTyped
    BY <2>1, <2>2 DEF CheckInit, CheckTyped
  <2>4. QED
    BY <2>2, <2>3 DEF CheckInv, FilesAreCompared, EditIsKnown, ChangesAreFound
<1>2. CheckInv /\ [CheckNext]_checkVars => CheckInv'
  <2>1. SUFFICES ASSUME CheckInv, [CheckNext]_checkVars PROVE CheckInv'
    OBVIOUS
  <2>2. CASE Prepare
    BY <2>1, <2>2, PrepareKeeps
  <2>3. CASE Refresh
    BY <2>1, <2>3, RefreshKeeps
  <2>4. CASE OutOfTime
    BY <2>1, <2>4, OutOfTimeKeeps
  <2>5. CASE Detect
    BY <2>1, <2>5, DetectKeeps
  <2>6. CASE EndCheck
    BY <2>1, <2>6, EndCheckKeeps
  <2>7. CASE \E c \in agendaC : ListSites(c)
    BY <2>1, <2>7, ListSitesKeeps
  <2>8. CASE UNCHANGED checkVars
    <3>1. UNCHANGED <<diff, cstage, known, check, agendaC, checkFaults>>
      BY <2>8 DEF checkVars
    <3>2. Candidates' = Candidates
      BY <3>1, SameCandidates
    <3>3. NoBase' <=> NoBase
      BY <3>1, SameEdit DEF NoBase
    <3>4. QED
      BY <2>1, <3>1, <3>2, <3>3, SameEdit
         DEF CheckInv, CheckTyped, FilesAreCompared, EditIsKnown, ChangesAreFound
  <2>9. QED
    BY <2>1, <2>2, <2>3, <2>4, <2>5, <2>6, <2>7, <2>8 DEF CheckNext
<1>3. QED
  BY <1>1, <1>2, PTL DEF CheckSpec

(* However an edit removes, renames, moves and reorders, a name that no    *)
(* symbol of its scope answers to any more is in the report of a check     *)
(* that ran to its end (detect), for every edit, index and limit.          *)
THEOREM LostNamesReported == CheckSpec => []LostNamesAreReported
<1>1. CheckInv => LostNamesAreReported
  <2>1. SUFFICES ASSUME CheckInv, RanThrough, NEW r \in diff.before, Lost(r)
                 PROVE  \/ IsNamed(r)
                        \/ \E c \in check.changes : c.change # "changed" /\ c.row.name = r.owner
                                                     /\ c.row.owner = NoOwner
                        \/ \E t \in diff.before : IsParent(t, r) /\ ChangedKind(t)
    BY DEF LostNamesAreReported
  <2>2. cstage = "done" /\ check.cuts = {} /\ checkFaults = 0
    BY <2>1 DEF RanThrough
  <2>3. check.files = ChangedFiles /\ diff \in Diffs
    BY <2>1, <2>2 DEF CheckInv, CheckTyped, FilesAreCompared
  <2>4. r \notin diff.after
    BY <2>1 DEF Lost, Answers, SameScope
  <2>5. r.file \in ChangedFiles /\ r \in BaseRows(r.file)
    BY <2>1, <2>4 DEF ChangedFiles, BaseRows, RowsIn
  <2>6. ~NoBase
    BY <2>3, <2>5 DEF NoBase
  <2>7. check.changes = Candidates /\ known = Fresh
    BY <2>1, <2>2, <2>6 DEF CheckInv, ChangesAreFound
  <2>8. IsComplete
    BY <2>3, <2>7 DEF IsComplete
  <2>9. QED
    BY <2>1, <2>7, <2>8, LostIsCandidate DEF NamedBy, IsNamed
<1>2. QED
  BY <1>1, CheckInvariantHolds, PTL

(* An edit that only adds symbols changes nothing, though overloads are    *)
(* told apart by their signatures and order only (pair_rows).              *)
THEOREM AdditionsChangeNothing == CheckSpec => []AdditionsAreNoChange
<1>1. CheckInv => AdditionsAreNoChange
  <2>1. SUFFICES ASSUME CheckInv, checkFaults = 0, OnlyAdded PROVE check.changes = {}
    BY DEF AdditionsAreNoChange, OnlyAdded
  <2>2. SUFFICES ASSUME check.changes # {} PROVE FALSE
    OBVIOUS
  <2>3. known = Fresh /\ diff \in Diffs /\ check.changes \subseteq Candidates
    BY <2>1, <2>2 DEF CheckInv, CheckTyped, EditIsKnown, ChangesAreFound
  <2>4. QED
    BY <2>1, <2>2, <2>3, AdditionsAreNoCandidates
<1>2. QED
  BY <1>1, CheckInvariantHolds, PTL
================================================================================
