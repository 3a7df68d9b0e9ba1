--------------------------- MODULE DebouncerProofs ---------------------------
(***************************************************************************)
(* Proofs about Debouncer, for every set of paths and any number of        *)
(* changes of the file system: what the queues of merged events still      *)
(* tell; and about Registrations, for every tree of folders, any number of *)
(* changes, losses and failures: what the worker's records still tell.     *)
(***************************************************************************)
EXTENDS Registrations, FiniteSetTheorems, SequenceTheorems, TLAPS

USE PathsAssumption, EventsAssumption, IdsAssumption

-----------------------------------------------------------------------------
(* The first and the last of an index set. *)

(* A nonempty set of naturals has a least element.                         *)
LEMMA LeastNat ==
    ASSUME NEW S \in SUBSET Nat, S # {}
    PROVE  Min(S) \in S /\ \A y \in S : Min(S) <= y
<1>1. IsWellFoundedOn(OpToRel(<, Nat), Nat)
  BY NatLessThanWellFounded
<1>2. PICK x \in S : \A y \in S : <<y, x>> \notin OpToRel(<, Nat)
  BY <1>1, WFMin
<1>3. ASSUME NEW y \in S PROVE x <= y
  <2>1. y \in Nat /\ x \in Nat
    OBVIOUS
  <2>2. ~(y < x)
    BY <1>2, <2>1 DEF OpToRel
  <2>3. QED
    BY <2>1, <2>2
<1>4. QED
  BY <1>3 DEF Min

(* A nonempty set of naturals with a bound has a greatest element.         *)
LEMMA GreatestNat ==
    ASSUME NEW n \in Nat, NEW S \in SUBSET (0..n), S # {}
    PROVE  \E m \in S : \A y \in S : y <= m
<1> DEFINE T == {n - y : y \in S}
<1>1. T \in SUBSET Nat /\ T # {}
  <2>1. \A y \in S : n - y \in Nat
    OBVIOUS
  <2>2. QED
    BY <2>1
<1>2. PICK t \in T : \A u \in T : t <= u
  <2> HIDE DEF T
  <2>1. QED
    BY <1>1, LeastNat
<1>3. PICK m \in S : t = n - m
  OBVIOUS
<1>4. ASSUME NEW y \in S PROVE y <= m
  BY <1>2, <1>3
<1>5. QED
  BY <1>4

(* Where the first rename event of a queue is.                             *)
LEMMA RenameAtIsFirst ==
    ASSUME NEW q \in Seq(Event)
    PROVE  /\ RenameAt(q) \in 0..Len(q)
           /\ RenameAt(q) = 0 => \A i \in 1..Len(q) : ~IsBoth(q[i])
           /\ RenameAt(q) # 0 => IsBoth(q[RenameAt(q)])
<1> DEFINE I == {i \in 1..Len(q) : IsBoth(q[i])}
<1>1. RenameAt(q) = IF I # {} THEN Min(I) ELSE 0
  BY DEF RenameAt, SelectInSeq
<1>2. I \in SUBSET Nat
  OBVIOUS
<1>3. I # {} => Min(I) \in I
  <2> HIDE DEF I
  <2>1. QED
    BY <1>2, LeastNat
<1>4. Len(q) \in Nat
  OBVIOUS
<1>5. QED
  BY <1>1, <1>3, <1>4

(* The events that are due are a prefix of their queue.                    *)
LEMMA DueIsPrefix ==
    ASSUME NEW q \in Seq(Event)
    PROVE  DueLength(q) \in 0..Len(q)
<1> DEFINE I == {i \in 1..Len(q) : IsFresh(q[i])}
<1>1. FreshAt(q) = IF I # {} THEN Min(I) ELSE 0
  BY DEF FreshAt, SelectInSeq
<1>2. I \in SUBSET Nat
  OBVIOUS
<1>3. I # {} => Min(I) \in I
  <2> HIDE DEF I
  <2>1. QED
    BY <1>2, LeastNat
<1>4. Len(q) \in Nat
  OBVIOUS
<1>5. QED
  BY <1>1, <1>3, <1>4 DEF DueLength

-----------------------------------------------------------------------------
(* One queue. *)

Removals == {"remove", "removeAny", "from"}

(* Nothing but removals comes before a rename.                             *)
Leads(q) ==
    \A i \in 1..Len(q) :
        IsBoth(q[i]) => \A j \in 1..(i - 1) : q[j].kind \in Removals

(* The worker takes the path of the queue from some event of it.           *)
NamesItself(q) == \E i \in 1..Len(q) : q[i].kind # "access"

(* A plain event is an event.                                              *)
LEMMA EvType == \A kind \in Kinds : Ev(kind) \in Event /\ Ev(kind).kind = kind
  BY DEF Ev, Event

(* push_event keeps the order, and its event or one in its place names the *)
(* path.                                                                   *)
LEMMA PushedKeeps ==
    ASSUME NEW q \in Seq(Event), NEW kind \in Kinds \ {"both"}
    PROVE  /\ Pushed(q, kind) \in Seq(Event)
           /\ Leads(q) => Leads(Pushed(q, kind))
           /\ NamesItself(q) \/ kind # "access" => NamesItself(Pushed(q, kind))
<1>1. Ev(kind) \in Event /\ Ev(kind).kind = kind
  BY EvType
<1>2. CASE Pushed(q, kind) = q /\ WasCreated(q)
  <2>1. Len(q) \in Nat \ {0} /\ Head(q) = q[1] /\ Head(q).kind # "access"
    BY <1>2 DEF WasCreated, FrontIs
  <2>2. NamesItself(q)
    BY <2>1 DEF NamesItself
  <2>3. QED
    BY <1>2, <2>2
<1>3. CASE Pushed(q, kind) = Append(q, Ev(kind))
  <2> DEFINE a == Append(q, Ev(kind))
  <2>1. /\ a \in Seq(Event) /\ Len(a) = Len(q) + 1 /\ a[Len(q) + 1] = Ev(kind)
        /\ \A i \in 1..Len(q) : a[i] = q[i]
        /\ Len(q) \in Nat
    BY <1>1
  <2> HIDE DEF a
  <2>2. Leads(q) => Leads(a)
    <3>1. SUFFICES ASSUME Leads(q), NEW i \in 1..Len(a), IsBoth(a[i]), NEW j \in 1..(i - 1)
                   PROVE  a[j].kind \in Removals
      BY DEF Leads
    <3>2. i # Len(q) + 1
      BY <1>1, <2>1, <3>1 DEF IsBoth
    <3>3. i \in 1..Len(q) /\ j \in 1..Len(q) /\ a[i] = q[i] /\ a[j] = q[j]
      BY <2>1, <3>1, <3>2
    <3>4. QED
      BY <3>1, <3>3 DEF Leads
  <2>3. NamesItself(q) \/ kind # "access" => NamesItself(a)
    <3>1. CASE NamesItself(q)
      <4>1. PICK i \in 1..Len(q) : q[i].kind # "access"
        BY <3>1 DEF NamesItself
      <4>2. i \in 1..Len(a) /\ a[i] = q[i]
        BY <2>1
      <4>3. QED
        BY <4>1, <4>2 DEF NamesItself
    <3>2. CASE kind # "access"
      <4>1. Len(q) + 1 \in 1..Len(a)
        BY <2>1
      <4>2. QED
        BY <1>1, <2>1, <3>2, <4>1 DEF NamesItself
    <3>3. QED
      BY <3>1, <3>2
  <2>4. Pushed(q, kind) = a
    BY <1>3 DEF a
  <2>5. QED
    BY <2>1, <2>2, <2>3, <2>4
<1>4. QED
  BY <1>2, <1>3 DEF Pushed

(* A prefix of a queue, or what is left behind one, keeps the order.       *)
LEMMA PartKeeps ==
    ASSUME NEW q \in Seq(Event), NEW m \in 1..(Len(q) + 1), NEW n \in 0..Len(q)
    PROVE  /\ SubSeq(q, m, n) \in Seq(Event)
           /\ Leads(q) => Leads(SubSeq(q, m, n))
<1> DEFINE s == SubSeq(q, m, n)
<1>1. Len(q) \in Nat
  OBVIOUS
<1>2. /\ s \in Seq(Event) /\ Len(s) = IF m <= n THEN n - m + 1 ELSE 0
      /\ \A i \in 1..Len(s) : s[i] = q[m + i - 1]
  BY <1>1
<1> HIDE DEF s
<1>3. Leads(q) => Leads(s)
  <2>1. SUFFICES ASSUME Leads(q), NEW i \in 1..Len(s), IsBoth(s[i]), NEW j \in 1..(i - 1)
                 PROVE  s[j].kind \in Removals
    BY DEF Leads
  <2>2. /\ m + i - 1 \in 1..Len(q) /\ m + j - 1 \in 1..((m + i - 1) - 1)
        /\ s[i] = q[m + i - 1] /\ s[j] = q[m + j - 1]
    BY <1>1, <1>2, <2>1
  <2>3. QED
    BY <2>1, <2>2 DEF Leads
<1>4. QED
  BY <1>2, <1>3 DEF s

(* The queue without its rename event.                                     *)
Others(q) == IF RenameAt(q) = 0 THEN q ELSE RemoveAt(q, RenameAt(q))

(* A queue in order has one rename event: without it there is none.        *)
LEMMA OthersHasNoRename ==
    ASSUME NEW q \in Seq(Event), Leads(q)
    PROVE  /\ Others(q) \in Seq(Event)
           /\ \A i \in 1..Len(Others(q)) : ~IsBoth(Others(q)[i])
<1> DEFINE k == RenameAt(q)
           u == SubSeq(q, 1, k - 1)
           v == SubSeq(q, k + 1, Len(q))
<1>1. /\ k \in 0..Len(q) /\ Len(q) \in Nat
      /\ k = 0 => \A i \in 1..Len(q) : ~IsBoth(q[i])
      /\ k # 0 => IsBoth(q[k])
  BY RenameAtIsFirst
<1>2. CASE k = 0
  BY <1>1, <1>2 DEF Others
<1>3. CASE k # 0
  <2> HIDE DEF k
  <2>1. k \in 1..Len(q)
    BY <1>1, <1>3
  <2>2. ASSUME NEW i \in 1..Len(q), i # k PROVE ~IsBoth(q[i])
    <3>1. CASE i < k
      <4>1. i \in 1..(k - 1)
        BY <2>1, <3>1
      <4>2. q[i].kind \in Removals
        BY <1>1, <1>3, <2>1, <4>1 DEF Leads
      <4>3. QED
        BY <4>2 DEF IsBoth, Removals
    <3>2. CASE i > k
      <4>1. k \in 1..(i - 1)
        BY <2>1, <3>2
      <4>2. q[k].kind = "both" /\ (IsBoth(q[i]) => q[k].kind \in Removals)
        BY <1>1, <1>3, <4>1 DEF Leads, IsBoth
      <4>3. QED
        BY <4>2 DEF Removals
    <3>3. QED
      BY <2>1, <2>2, <3>1, <3>2
  <2>3. /\ u \in Seq(Event) /\ Len(u) = k - 1 /\ \A i \in 1..Len(u) : u[i] = q[i]
        /\ v \in Seq(Event) /\ Len(v) = Len(q) - k /\ \A i \in 1..Len(v) : v[i] = q[k + i]
    BY <1>1, <2>1
  <2> HIDE DEF u, v
  <2>4. \A i \in 1..Len(u) : ~IsBoth(u[i])
    BY <1>1, <2>1, <2>2, <2>3
  <2>5. ASSUME NEW i \in 1..Len(v) PROVE ~IsBoth(v[i])
    <3>1. v[i] = q[k + i] /\ k + i \in 1..Len(q) /\ k + i # k
      BY <1>1, <2>1, <2>3
    <3>2. QED
      BY <2>2, <3>1
  <2>6. /\ u \o v \in Seq(Event) /\ Len(u \o v) = Len(u) + Len(v)
        /\ \A i \in 1..(Len(u) + Len(v)) :
              (u \o v)[i] = IF i <= Len(u) THEN u[i] ELSE v[i - Len(u)]
    BY <2>3, ConcatProperties
  <2>7. ASSUME NEW i \in 1..Len(u \o v) PROVE ~IsBoth((u \o v)[i])
    BY <1>1, <2>1, <2>3, <2>4, <2>5, <2>6
  <2>8. Others(q) = u \o v
    BY <1>3 DEF Others, RemoveAt, k, u, v
  <2>9. QED
    BY <2>6, <2>7, <2>8
<1>4. QED
  BY <1>2, <1>3

(* A removal may come before a queue in order, and any event before one    *)
(* that holds no rename.                                                   *)
LEMMA PrefixedKeeps ==
    ASSUME NEW q \in Seq(Event), NEW e \in Event, e.kind # "access",
           \/ e.kind \in Removals /\ Leads(q)
           \/ \A i \in 1..Len(q) : ~IsBoth(q[i])
    PROVE  /\ <<e>> \o q \in Seq(Event)
           /\ Leads(<<e>> \o q)
           /\ NamesItself(<<e>> \o q)
<1> DEFINE s == <<e>> \o q
<1>1. <<e>> \in Seq(Event) /\ Len(<<e>>) = 1 /\ <<e>>[1] = e /\ Len(q) \in Nat
  OBVIOUS
<1>2. /\ s \in Seq(Event) /\ Len(s) = 1 + Len(q)
      /\ \A i \in 1..(1 + Len(q)) : s[i] = IF i <= 1 THEN <<e>>[i] ELSE q[i - 1]
  BY <1>1, ConcatProperties
<1> HIDE DEF s
<1>3. s[1] = e /\ 1 \in 1..Len(s)
  BY <1>1, <1>2
<1>4. \A i \in 1..Len(s) : i # 1 => s[i] = q[i - 1] /\ i - 1 \in 1..Len(q)
  BY <1>1, <1>2
<1>5. Leads(s)
  <2>1. SUFFICES ASSUME NEW i \in 1..Len(s), IsBoth(s[i]), NEW j \in 1..(i - 1)
                 PROVE  s[j].kind \in Removals
    BY DEF Leads
  <2>2. i # 1 /\ j \in 1..Len(s)
    BY <1>2
  <2>3. IsBoth(q[i - 1]) /\ i - 1 \in 1..Len(q)
    BY <1>4, <2>1, <2>2
  <2>4. e.kind \in Removals /\ Leads(q)
    BY <2>3
  <2>5. CASE j = 1
    BY <1>3, <2>4, <2>5
  <2>6. CASE j # 1
    <3>1. s[j] = q[j - 1] /\ j - 1 \in 1..((i - 1) - 1)
      BY <1>4, <2>2, <2>6
    <3>2. QED
      BY <2>3, <2>4, <3>1 DEF Leads
  <2>7. QED
    BY <2>5, <2>6
<1>6. NamesItself(s)
  BY <1>3 DEF NamesItself
<1>7. QED
  BY <1>2, <1>5, <1>6 DEF s

(* push_rename_event: the source's queue keeps a removal at most, the      *)
(* target's queue is in order and names the target.                        *)
LEMMA RenamedKeeps ==
    ASSUME NEW qs \in [Paths -> Seq(Event)], \A p \in Paths : Leads(qs[p]),
           NEW a \in Paths, NEW b \in Paths, a # b, NEW due \in BOOLEAN
    PROVE  /\ Renamed(qs, a, b, due) \in [Paths -> Seq(Event)]
           /\ \A p \in Paths : Leads(Renamed(qs, a, b, due)[p])
           /\ NamesItself(Renamed(qs, a, b, due)[b])
           /\ \A p \in Paths \ {a, b} : Renamed(qs, a, b, due)[p] = qs[p]
<1> DEFINE source  == IF qs[a] = <<>> THEN <<>> ELSE Front(qs[a])
           place   == RenameAt(source)
           origin  == IF place = 0 THEN [source |-> a, due |-> due]
                      ELSE [source |-> source[place].source, due |-> source[place].due]
           others  == IF place = 0 THEN source ELSE RemoveAt(source, place)
           split   == WasRemoved(others)
           rest    == IF split THEN Tail(others) ELSE others
           both    == [kind |-> "both", source |-> origin.source, due |-> origin.due]
           moved   == IF WasCreated(rest) THEN rest ELSE <<both>> \o rest
           removal == [kind |-> "removeAny", source |-> None, due |-> origin.due]
           target  == IF qs[b] = <<>> \/ WasCreated(qs[b]) THEN moved ELSE <<removal>> \o moved
           left    == IF split THEN <<Head(others)>> ELSE <<>>
<1>1. source \in Seq(Event) /\ Leads(source)
  <2>1. CASE qs[a] = <<>>
    BY <2>1 DEF Leads
  <2>2. CASE qs[a] # <<>>
    <3>1. qs[a] \in Seq(Event) /\ Len(qs[a]) \in Nat \ {0}
      BY <2>2
    <3>2. 1 \in 1..(Len(qs[a]) + 1) /\ Len(qs[a]) - 1 \in 0..Len(qs[a])
      BY <3>1
    <3>3. SubSeq(qs[a], 1, Len(qs[a]) - 1) \in Seq(Event)
          /\ Leads(SubSeq(qs[a], 1, Len(qs[a]) - 1))
      BY <3>1, <3>2, PartKeeps
    <3>4. QED
      BY <2>2, <3>3 DEF Front
  <2>3. QED
    BY <2>1, <2>2
<1> HIDE DEF source
<1>2. others \in Seq(Event) /\ \A i \in 1..Len(others) : ~IsBoth(others[i])
  BY <1>1, OthersHasNoRename DEF Others
<1>3. origin.source \in Paths \cup {None} /\ origin.due \in BOOLEAN
  <2>1. CASE place = 0
    BY <2>1
  <2>2. CASE place # 0
    <3>1. source[place] \in Event
      BY <1>1, <2>2, RenameAtIsFirst
    <3>2. QED
      BY <2>2, <3>1 DEF Event
  <2>3. QED
    BY <2>1, <2>2
<1> HIDE DEF others, origin
<1>4. /\ left \in Seq(Event) /\ Leads(left)
      /\ rest \in Seq(Event) /\ \A i \in 1..Len(rest) : ~IsBoth(rest[i])
  <2>1. CASE ~split
    BY <1>2, <2>1 DEF Leads
  <2>2. CASE split
    <3>1. others # <<>>
      BY <2>2 DEF WasRemoved, FrontIs
    <3>2. /\ Head(others) \in Event /\ Tail(others) \in Seq(Event)
          /\ Len(Tail(others)) = Len(others) - 1 /\ Len(others) \in Nat \ {0}
          /\ \A i \in 1..Len(Tail(others)) : Tail(others)[i] = others[i + 1]
      BY <1>2, <3>1, HeadTailProperties
    <3>3. left = <<Head(others)>> /\ rest = Tail(others)
      BY <2>2
    <3>4. <<Head(others)>> \in Seq(Event) /\ Leads(<<Head(others)>>)
      BY <3>2 DEF Leads
    <3>5. \A i \in 1..Len(Tail(others)) : ~IsBoth(Tail(others)[i])
      BY <1>2, <3>2
    <3>6. QED
      BY <3>2, <3>3, <3>4, <3>5
  <2>3. QED
    BY <2>1, <2>2
<1> HIDE DEF rest, left
<1>5. both \in Event /\ both.kind = "both" /\ removal \in Event /\ removal.kind = "removeAny"
  BY <1>3 DEF Event, Kinds
<1> HIDE DEF both, removal
<1>6. moved \in Seq(Event) /\ Leads(moved) /\ NamesItself(moved)
  <2>1. CASE WasCreated(rest)
    <3>1. Leads(rest)
      BY <1>4 DEF Leads
    <3>2. Len(rest) \in Nat \ {0} /\ rest[1].kind # "access"
      BY <1>4, <2>1 DEF WasCreated, FrontIs
    <3>3. NamesItself(rest)
      <4>1. 1 \in 1..Len(rest)
        BY <3>2
      <4>2. QED
        BY <3>2, <4>1 DEF NamesItself
    <3>4. QED
      BY <1>4, <2>1, <3>1, <3>3
  <2>2. CASE ~WasCreated(rest)
    BY <1>4, <1>5, <2>2, PrefixedKeeps
  <2>3. QED
    BY <2>1, <2>2
<1> HIDE DEF moved
<1>7. target \in Seq(Event) /\ Leads(target) /\ NamesItself(target)
  <2>1. removal.kind \in Removals /\ removal.kind # "access"
    BY <1>5 DEF Removals
  <2>2. <<removal>> \o moved \in Seq(Event) /\ Leads(<<removal>> \o moved)
        /\ NamesItself(<<removal>> \o moved)
    BY <1>5, <1>6, <2>1, PrefixedKeeps
  <2>3. QED
    BY <1>6, <2>2
<1> HIDE DEF target
<1>8. Renamed(qs, a, b, due) = [qs EXCEPT ![a] = left, ![b] = target]
  BY DEF Renamed, source, others, origin, rest, left, both, removal, moved, target
<1>9. QED
  BY <1>4, <1>7, <1>8

(* The same of a rename whose halves are read together.                    *)
LEMMA ConnectedKeeps ==
    ASSUME NEW qs \in [Paths -> Seq(Event)], \A p \in Paths : Leads(qs[p]),
           NEW a \in Paths, NEW b \in Paths, a # b
    PROVE  /\ Renamed(qs, a, b, FALSE) \in [Paths -> Seq(Event)]
           /\ \A p \in Paths : Leads(Renamed(qs, a, b, FALSE)[p])
           /\ NamesItself(Renamed(qs, a, b, FALSE)[b])
           /\ \A p \in Paths \ {a, b} : Renamed(qs, a, b, FALSE)[p] = qs[p]
<1> DEFINE Keeps(due) == /\ Renamed(qs, a, b, due) \in [Paths -> Seq(Event)]
                         /\ \A p \in Paths : Leads(Renamed(qs, a, b, due)[p])
                         /\ NamesItself(Renamed(qs, a, b, due)[b])
                         /\ \A p \in Paths \ {a, b} : Renamed(qs, a, b, due)[p] = qs[p]
<1>1. ASSUME NEW due \in BOOLEAN PROVE Keeps(due)
  BY RenamedKeeps
<1> HIDE DEF Keeps
<1>2. Keeps(FALSE)
  BY <1>1
<1>3. QED
  BY <1>2 DEF Keeps

(* The timeout passes: the events stay what they are.                      *)
LEMMA AgedKeeps ==
    ASSUME NEW q \in Seq(Event)
    PROVE  /\ Aged(q) \in Seq(Event)
           /\ Leads(q) => Leads(Aged(q))
           /\ NamesItself(q) => NamesItself(Aged(q))
<1>1. /\ DOMAIN q = 1..Len(q) /\ Len(q) \in Nat
      /\ Aged(q) = [i \in 1..Len(q) |-> [q[i] EXCEPT !.due = TRUE]]
  BY DEF Aged
<1>2. \A i \in 1..Len(q) : Aged(q)[i] \in Event /\ Aged(q)[i].kind = q[i].kind
  <2>1. \A i \in 1..Len(q) : q[i] \in Event
    OBVIOUS
  <2>2. QED
    BY <1>1, <2>1 DEF Event
<1>3. Aged(q) \in Seq(Event) /\ Len(Aged(q)) = Len(q)
  BY <1>1, <1>2
<1>4. QED
  BY <1>2, <1>3 DEF Leads, NamesItself, IsBoth

(* debounced_events: when the path of a queue is among what it tells, it   *)
(* is delivered now or is among what is left; for an event that comes      *)
(* again, the last of its kind stands.                                     *)
LEMMA FlushTells ==
    ASSUME NEW q \in Seq(Event), NamesItself(q)
    PROVE  \/ NamesItself(SubSeq(q, DueLength(q) + 1, Len(q)))
           \/ \E i \in Emitted(q) : q[i].kind # "access"
<1> DEFINE n == DueLength(q)
           s == SubSeq(q, n + 1, Len(q))
<1>1. n \in 0..Len(q) /\ Len(q) \in Nat /\ DOMAIN q = 1..Len(q)
  BY DueIsPrefix
<1>2. Emitted(q) = {i \in 1..n : \A j \in (i + 1)..(n + 1) : j \in 1..Len(q) => q[j].kind # q[i].kind}
  BY <1>1 DEF Emitted
<1> HIDE DEF n
<1>3. Len(s) = Len(q) - n /\ \A i \in 1..Len(s) : s[i] = q[n + i]
  <2> DEFINE N == Len(q)
  <2>1. n + 1 \in Int /\ N \in Int /\ \A i \in (n + 1)..N : q[i] \in Event
    BY <1>1
  <2>2. n \in Nat /\ N \in Nat /\ n <= N
    BY <1>1
  <2>3. /\ Len(s) = IF n + 1 <= N THEN N - (n + 1) + 1 ELSE 0
        /\ \A i \in 1..(N - (n + 1) + 1) : s[i] = q[(n + 1) + i - 1]
    BY <2>1, SubSeqProperties
  <2> HIDE DEF s, N
  <2>4. Len(s) = N - n
    BY <2>2, <2>3
  <2>5. ASSUME NEW i \in 1..(N - n) PROVE s[i] = q[n + i]
    <3>1. i \in 1..(N - (n + 1) + 1) /\ (n + 1) + i - 1 = n + i
      BY <2>2
    <3>2. QED
      BY <2>3, <3>1
  <2>6. QED
    BY <2>4, <2>5 DEF N
<1> HIDE DEF s
<1>4. PICK i \in 1..Len(q) : q[i].kind # "access"
  BY DEF NamesItself
<1>5. ASSUME NEW j \in 1..Len(q), j > n, q[j].kind # "access"
      PROVE  NamesItself(s)
  <2>1. j - n \in 1..Len(s) /\ s[j - n] = q[j]
    <3>1. j \in Nat /\ n \in Nat /\ Len(q) \in Nat /\ j <= Len(q) /\ n <= Len(q)
      BY <1>1
    <3>2. j - n \in 1..(Len(q) - n) /\ n + (j - n) = j
      BY <1>5, <3>1
    <3>3. QED
      BY <1>3, <3>2
  <2>2. QED
    BY <1>5, <2>1 DEF NamesItself
<1>6. CASE i > n
  BY <1>4, <1>5, <1>6 DEF s, n
<1>7. CASE i <= n
  <2> DEFINE J == {j \in 1..(n + 1) : j \in 1..Len(q) /\ q[j].kind = q[i].kind}
  <2>1. J \in SUBSET (0..(n + 1)) /\ J # {} /\ n + 1 \in Nat
    BY <1>1, <1>4, <1>7
  <2>2. PICK m \in J : \A y \in J : y <= m
    <3> HIDE DEF J
    <3>1. QED
      BY <2>1, GreatestNat
  <2>3. m \in 1..Len(q) /\ q[m].kind # "access" /\ m \in 1..(n + 1)
    BY <1>4
  <2>4. CASE m > n
    BY <1>5, <2>3, <2>4 DEF s, n
  <2>5. CASE m <= n
    <3>1. ASSUME NEW j \in (m + 1)..(n + 1), j \in 1..Len(q) PROVE q[j].kind # q[m].kind
      <4>1. j \notin J
        BY <1>1, <2>2, <2>3, <3>1
      <4>2. QED
        BY <1>1, <2>2, <2>3, <3>1, <4>1
    <3>2. m \in Emitted(q)
      BY <1>2, <2>3, <2>5, <3>1
    <3>3. QED
      BY <2>3, <3>2
  <2>6. QED
    BY <1>1, <2>3, <2>4, <2>5
<1>8. QED
  BY <1>1, <1>4, <1>6, <1>7

-----------------------------------------------------------------------------
(* The inductive invariant. *)

QueuesTyped ==
    /\ present \subseteq Paths /\ indexed \subseteq Paths /\ unreported \subseteq Paths
    /\ queues \in [Paths -> Seq(Event)]
    /\ renameEvent \in Half \cup {NoRename}
    /\ moving \in Paths \cup {None}
    /\ rescan \in {{}, {TRUE}, {FALSE}}
    /\ events \in 0..MaxEvents

QueuesLead == \A p \in Paths : Leads(queues[p])

(* While the second half of a rename is not read, its source is not there. *)
HalvesAgree ==
    renameEvent.linked =>
        moving # None /\ renameEvent.path \in Paths \ present /\ renameEvent.path # moving

(* What is known of a file that exists is known by its own path: the other *)
(* names an event carries may be lost when its queue moves on.             *)
OwnReported ==
    \A p \in unreported \cap present : rescan # {} \/ p = moving \/ NamesItself(queues[p])

DebouncerInv == QueuesTyped /\ QueuesLead /\ HalvesAgree /\ OwnReported

(* The initial states: nothing is queued.                                  *)
LEMMA DebouncerInvInit == Init => DebouncerInv
<1> SUFFICES ASSUME Init PROVE DebouncerInv
  OBVIOUS
<1>1. QueuesTyped /\ QueuesLead
  BY DEF Init, QueuesTyped, QueuesLead, Leads
<1>2. HalvesAgree /\ OwnReported
  BY DEF Init, HalvesAgree, OwnReported, NoRename
<1>3. QED
  BY <1>1, <1>2 DEF DebouncerInv

(* One change more is still within the bound.                              *)
LEMMA CountKeeps ==
    ASSUME QueuesTyped, events < MaxEvents, events' = events + 1
    PROVE  events' \in 0..MaxEvents
<1>1. events \in 0..MaxEvents
  BY DEF QueuesTyped
<1>2. QED
  BY <1>1

(* What becomes of the half of a rename that waits.                        *)
LEMMA HalfType ==
    ASSUME QueuesTyped
    PROVE  /\ renameEvent.due \in BOOLEAN
           /\ [renameEvent EXCEPT !.linked = FALSE] \in Half \cup {NoRename}
           /\ [renameEvent EXCEPT !.linked = FALSE].linked = FALSE
           /\ [renameEvent EXCEPT !.due = renameEvent # NoRename] \in Half \cup {NoRename}
           /\ [renameEvent EXCEPT !.due = renameEvent # NoRename].linked = renameEvent.linked
           /\ [renameEvent EXCEPT !.due = renameEvent # NoRename].path = renameEvent.path
<1>1. CASE renameEvent \in Half
  <2>1. (renameEvent # NoRename) \in BOOLEAN
    OBVIOUS
  <2>2. QED
    BY <1>1, <2>1 DEF Half
<1>2. CASE renameEvent = NoRename
  <2>0. /\ NoRename \in [path : {None}, due : BOOLEAN, linked : BOOLEAN]
        /\ NoRename.due = FALSE /\ NoRename.linked = FALSE
    BY DEF NoRename
  <2>1. [NoRename EXCEPT !.linked = FALSE] = NoRename
    BY <2>0
  <2>2. [NoRename EXCEPT !.due = FALSE] = NoRename
    BY <2>0
  <2>4. (renameEvent # NoRename) = FALSE
    BY <1>2
  <2>5. [renameEvent EXCEPT !.due = renameEvent # NoRename] = NoRename
    BY <1>2, <2>2, <2>4
  <2>6. QED
    BY <1>2, <2>0, <2>1, <2>5
<1>3. QED
  BY <1>1, <1>2 DEF QueuesTyped

(* An event is pushed into one queue and the others stay.                  *)
LEMMA PushKeeps ==
    ASSUME DebouncerInv, NEW p \in Paths, NEW kind \in Kinds \ {"both"},
           queues' = [queues EXCEPT ![p] = Pushed(@, kind)]
    PROVE  /\ queues' \in [Paths -> Seq(Event)]
           /\ QueuesLead'
           /\ \A q \in Paths : NamesItself(queues[q]) => NamesItself(queues'[q])
           /\ kind # "access" => NamesItself(queues'[p])
<1>1. /\ queues \in [Paths -> Seq(Event)] /\ Leads(queues[p])
      /\ \A q \in Paths : Leads(queues[q])
  BY DEF DebouncerInv, QueuesTyped, QueuesLead
<1>2. /\ Pushed(queues[p], kind) \in Seq(Event)
      /\ Leads(Pushed(queues[p], kind))
      /\ NamesItself(queues[p]) \/ kind # "access" => NamesItself(Pushed(queues[p], kind))
  BY <1>1, PushedKeeps
<1>3. queues' \in [Paths -> Seq(Event)] /\ queues'[p] = Pushed(queues[p], kind)
      /\ \A q \in Paths : q # p => queues'[q] = queues[q]
  BY <1>1, <1>2
<1>4. \A q \in Paths : Leads(queues'[q])
  BY <1>1, <1>2, <1>3
<1>5. QED
  BY <1>2, <1>3, <1>4 DEF QueuesLead

(* A file that exists is written, read, or moved in from outside.          *)
LEMMA WriteStep ==
    ASSUME DebouncerInv, NEW p \in Paths, Write(p) \/ Access(p) \/ MoveIn(p)
    PROVE  DebouncerInv'
<1> USE DEF DebouncerInv
<1>1. PICK kind \in {"create", "data", "access", "to"} :
          /\ queues' = [queues EXCEPT ![p] = Pushed(@, kind)]
          /\ indexed' = indexed /\ unreported' = unreported \cup (IF kind = "access" THEN {} ELSE {p})
          /\ Access(p) <=> kind = "access"
  BY DEF Write, Access, MoveIn, Change
<1>2. kind \in Kinds \ {"both"}
  BY DEF Kinds
<1>3. /\ queues' \in [Paths -> Seq(Event)]
      /\ QueuesLead'
      /\ \A q \in Paths : NamesItself(queues[q]) => NamesItself(queues'[q])
      /\ kind # "access" => NamesItself(queues'[p])
  BY <1>1, <1>2, PushKeeps
<1>4. /\ present' \in {present, present \cup {p}} /\ (p \in present \/ Free(p))
      /\ renameEvent' \in {renameEvent, NoRename} /\ UNCHANGED <<moving, rescan>>
      /\ events < MaxEvents /\ events' = events + 1
      /\ kind = "access" => present' = present
  BY <1>1 DEF Write, Access, MoveIn, Change
<1>5. QueuesTyped'
  BY <1>1, <1>3, <1>4, CountKeeps DEF QueuesTyped
<1>6. HalvesAgree'
  BY <1>4 DEF HalvesAgree, Free, NoRename
<1>7. OwnReported'
  BY <1>1, <1>3, <1>4 DEF OwnReported, QueuesTyped
<1>8. QED
  BY <1>3, <1>5, <1>6, <1>7

(* A file is removed.                                                      *)
LEMMA DeleteStep ==
    ASSUME DebouncerInv, NEW p \in Paths, Delete(p)
    PROVE  DebouncerInv'
<1> USE DEF DebouncerInv
<1>1. /\ p \in present /\ present' = present \ {p} /\ indexed' = indexed
      /\ unreported' = unreported \cup {p}
      /\ queues' = [queues EXCEPT ![p] = <<Ev("remove")>>]
      /\ UNCHANGED <<renameEvent, moving, rescan>>
      /\ events < MaxEvents /\ events' = events + 1
  BY DEF Delete, Change
<1>2. Ev("remove") \in Event
  BY EvType DEF Kinds
<1>3. <<Ev("remove")>> \in Seq(Event) /\ Leads(<<Ev("remove")>>)
  BY <1>2 DEF Leads
<1>4. queues' \in [Paths -> Seq(Event)] /\ \A q \in Paths : q # p => queues'[q] = queues[q]
  BY <1>1, <1>3 DEF QueuesTyped
<1>5. QueuesTyped'
  BY <1>1, <1>4, CountKeeps DEF QueuesTyped
<1>6. QueuesLead'
  BY <1>1, <1>3, <1>4 DEF QueuesLead, QueuesTyped
<1>7. HalvesAgree' /\ OwnReported'
  BY <1>1, <1>4 DEF HalvesAgree, OwnReported, QueuesTyped
<1>8. QED
  BY <1>5, <1>6, <1>7

(* The first half of a rename.                                             *)
LEMMA RenameFromStep ==
    ASSUME DebouncerInv, NEW a \in Paths, NEW b \in Paths \cup {None}, RenameFrom(a, b)
    PROVE  DebouncerInv'
<1> USE DEF DebouncerInv
<1>1. /\ a \in present /\ a # b /\ Free(a) /\ (moving # None => b = None)
      /\ indexed' = indexed /\ unreported' = unreported \cup ({a, b} \ {None})
      /\ present' = (present \ {a}) \cup ({b} \ {None})
      /\ queues' = [queues EXCEPT ![a] = Pushed(@, "from")]
      /\ renameEvent' = [path |-> a, due |-> FALSE, linked |-> b # None]
      /\ moving' = (IF b = None THEN moving ELSE b)
      /\ rescan' = rescan
      /\ events < MaxEvents /\ events' = events + 1
  BY DEF RenameFrom, Change
<1>2. /\ queues' \in [Paths -> Seq(Event)]
      /\ QueuesLead'
      /\ \A q \in Paths : NamesItself(queues[q]) => NamesItself(queues'[q])
  BY <1>1, PushKeeps DEF Kinds
<1>3. renameEvent' \in Half
  BY <1>1 DEF Half
<1>4. QueuesTyped'
  BY <1>1, <1>2, <1>3, CountKeeps DEF QueuesTyped
<1>5. HalvesAgree'
  BY <1>1 DEF HalvesAgree
<1>6. OwnReported'
  BY <1>1, <1>2 DEF OwnReported, QueuesTyped
<1>7. QED
  BY <1>2, <1>4, <1>5, <1>6

(* The second half: the queue of the source moves to the target.           *)
LEMMA RenameToStep ==
    ASSUME DebouncerInv, RenameTo
    PROVE  DebouncerInv'
<1> USE DEF DebouncerInv
<1>1. /\ moving \in Paths /\ renameEvent' = NoRename /\ moving' = None
      /\ UNCHANGED <<present, indexed, unreported, rescan, events>>
  BY DEF RenameTo, QueuesTyped
<1>2. /\ queues' \in [Paths -> Seq(Event)] /\ QueuesLead'
      /\ \A q \in present : NamesItself(queues[q]) => NamesItself(queues'[q])
      /\ NamesItself(queues'[moving])
  <2>1. CASE ~renameEvent.linked
    <3>1. queues' = [queues EXCEPT ![moving] = Pushed(@, "to")]
      BY <2>1 DEF RenameTo
    <3>2. "to" \in Kinds \ {"both"} /\ present \subseteq Paths
      BY DEF Kinds, QueuesTyped
    <3>3. QED
      BY <1>1, <3>1, <3>2, PushKeeps
  <2>2. CASE renameEvent.linked
    <3>1. queues' = Renamed(queues, renameEvent.path, moving, renameEvent.due)
      BY <2>2 DEF RenameTo
    <3>2. renameEvent.path \in Paths \ present /\ renameEvent.path # moving
      BY <2>2 DEF HalvesAgree
    <3>3. renameEvent.due \in BOOLEAN
      BY HalfType
    <3>4. queues \in [Paths -> Seq(Event)] /\ (\A p \in Paths : Leads(queues[p]))
      BY DEF QueuesTyped, QueuesLead
    <3>5. /\ queues' \in [Paths -> Seq(Event)] /\ (\A p \in Paths : Leads(queues'[p]))
          /\ NamesItself(queues'[moving])
          /\ \A p \in Paths \ {renameEvent.path, moving} : queues'[p] = queues[p]
      BY <1>1, <3>1, <3>2, <3>3, <3>4, RenamedKeeps
    <3>6. QED
      BY <3>2, <3>5 DEF QueuesLead, QueuesTyped
  <2>3. QED
    BY <2>1, <2>2
<1>3. QueuesTyped' /\ HalvesAgree'
  BY <1>1, <1>2 DEF QueuesTyped, HalvesAgree, NoRename
<1>4. OwnReported'
  BY <1>1, <1>2 DEF OwnReported
<1>5. QED
  BY <1>2, <1>3, <1>4

(* Changes that were not reported: a rescan is noted.                      *)
LEMMA OverflowStep ==
    ASSUME DebouncerInv, NEW p \in Paths, Overflow(p)
    PROVE  DebouncerInv'
<1> USE DEF DebouncerInv
<1>1. /\ present' \in {present \cup {p}, present \ {p}} /\ indexed' = indexed
      /\ unreported' = unreported \cup {p}
      /\ moving' = None /\ renameEvent' = [renameEvent EXCEPT !.linked = FALSE]
      /\ rescan' = {FALSE} /\ queues' = queues
      /\ events < MaxEvents /\ events' = events + 1
  BY DEF Overflow, Change
<1>2. renameEvent' \in Half \cup {NoRename} /\ renameEvent'.linked = FALSE
  BY <1>1, HalfType
<1>3. QueuesTyped' /\ QueuesLead'
  BY <1>1, <1>2 DEF QueuesTyped, QueuesLead
<1>4. HalvesAgree' /\ OwnReported'
  BY <1>1, <1>2 DEF HalvesAgree, OwnReported
<1>5. QED
  BY <1>3, <1>4

(* The timeout passes.                                                     *)
LEMMA AgeStep ==
    ASSUME DebouncerInv, Age
    PROVE  DebouncerInv'
<1> USE DEF DebouncerInv
<1>1. /\ queues' = [p \in Paths |-> Aged(queues[p])]
      /\ renameEvent' = [renameEvent EXCEPT !.due = renameEvent # NoRename]
      /\ rescan' = {TRUE : d \in rescan}
      /\ UNCHANGED <<present, indexed, unreported, moving, events>>
  BY DEF Age
<1>2. \A p \in Paths : /\ queues'[p] \in Seq(Event)
                       /\ Leads(queues[p]) => Leads(queues'[p])
                       /\ NamesItself(queues[p]) => NamesItself(queues'[p])
  BY <1>1, AgedKeeps DEF QueuesTyped
<1>3. renameEvent' \in Half \cup {NoRename} /\ renameEvent'.linked = renameEvent.linked
      /\ renameEvent'.path = renameEvent.path
  BY <1>1, HalfType
<1>4. rescan' \in {{}, {TRUE}, {FALSE}} /\ (rescan # {} => rescan' # {})
  BY <1>1 DEF QueuesTyped
<1>5. QueuesTyped' /\ QueuesLead'
  BY <1>1, <1>2, <1>3, <1>4 DEF QueuesTyped, QueuesLead
<1>6. HalvesAgree'
  BY <1>1, <1>3 DEF HalvesAgree
<1>7. OwnReported'
  BY <1>1, <1>2, <1>4 DEF OwnReported, QueuesTyped
<1>8. QED
  BY <1>5, <1>6, <1>7

(* What is due is delivered.                                               *)
LEMMA FlushStep ==
    ASSUME DebouncerInv, Flush
    PROVE  DebouncerInv'
<1> USE DEF DebouncerInv
<1>1. /\ queues' = [p \in Paths |-> SubSeq(queues[p], DueLength(queues[p]) + 1, Len(queues[p]))]
      /\ unreported' = (IF rescan = {TRUE} THEN {} ELSE unreported \ Delivered)
      /\ indexed' \subseteq indexed \cup present
      /\ rescan' = rescan \ {TRUE}
      /\ UNCHANGED <<present, renameEvent, moving, events>>
  BY DEF Flush, Refreshed
<1>2. \A p \in Paths : queues'[p] \in Seq(Event) /\ Leads(queues'[p])
  <2>1. SUFFICES ASSUME NEW p \in Paths
                 PROVE  queues'[p] \in Seq(Event) /\ Leads(queues'[p])
    OBVIOUS
  <2>2. queues[p] \in Seq(Event) /\ Leads(queues[p]) /\ Len(queues[p]) \in Nat
    BY DEF QueuesTyped, QueuesLead
  <2>3. DueLength(queues[p]) \in 0..Len(queues[p])
    BY <2>2, DueIsPrefix
  <2>4. DueLength(queues[p]) + 1 \in 1..(Len(queues[p]) + 1) /\ Len(queues[p]) \in 0..Len(queues[p])
    BY <2>2, <2>3
  <2>5. QED
    BY <1>1, <2>2, <2>4, PartKeeps
<1>3. QueuesTyped' /\ QueuesLead'
  BY <1>1, <1>2 DEF QueuesTyped, QueuesLead
<1>4. HalvesAgree'
  BY <1>1 DEF HalvesAgree
<1>5. OwnReported'
  <2>1. SUFFICES ASSUME NEW p \in unreported' \cap present'
                 PROVE  rescan' # {} \/ p = moving' \/ NamesItself(queues'[p])
    BY DEF OwnReported
  <2>2. rescan # {TRUE} /\ p \in unreported \cap present /\ p \notin Delivered /\ p \in Paths
    BY <1>1, <2>1 DEF QueuesTyped
  <2>3. CASE rescan # {}
    BY <1>1, <2>2, <2>3 DEF QueuesTyped
  <2>4. CASE p = moving
    BY <1>1, <2>4
  <2>5. CASE NamesItself(queues[p])
    <3>1. ASSUME NEW i \in Emitted(queues[p]), queues[p][i].kind # "access" PROVE FALSE
      <4>1. p \in Names(p, queues[p][i])
        BY <3>1 DEF Names
      <4>2. p \in DeliveredFrom(p)
        BY <4>1 DEF DeliveredFrom
      <4>3. QED
        BY <2>2, <4>2 DEF Delivered
    <3>2. NamesItself(queues'[p])
      BY <1>1, <2>2, <2>5, <3>1, FlushTells DEF QueuesTyped
    <3>3. QED
      BY <3>2
  <2>6. QED
    BY <2>2, <2>3, <2>4, <2>5 DEF OwnReported
<1>6. QED
  BY <1>2, <1>3, <1>4, <1>5

(* Every step keeps the inductive invariant.                               *)
LEMMA DebouncerInvNext == DebouncerInv /\ [Next]_vars => DebouncerInv'
<1>1. ASSUME DebouncerInv, FileSystem PROVE DebouncerInv'
  BY <1>1, WriteStep, DeleteStep, OverflowStep, RenameFromStep DEF FileSystem
<1>2. ASSUME DebouncerInv, RenameTo \/ Thread PROVE DebouncerInv'
  BY <1>2, RenameToStep, AgeStep, FlushStep DEF Thread
<1>3. ASSUME DebouncerInv, UNCHANGED vars PROVE DebouncerInv'
  BY <1>3 DEF DebouncerInv, vars, QueuesTyped, QueuesLead, HalvesAgree, OwnReported
<1>4. QED
  BY <1>1, <1>2, <1>3 DEF Next

-----------------------------------------------------------------------------
(* The theorems. *)

(* The inductive invariant holds in every reachable state.                 *)
THEOREM DebouncerInvariantHolds == Spec => []DebouncerInv
  BY DebouncerInvInit, DebouncerInvNext, PTL DEF Spec

(* Every variable of the debouncer has its type, and at most one rescan    *)
(* waits, however often the native queue overflows.                        *)
THEOREM DebouncerTypeCorrect == Spec => []DebouncerTypeOK
<1>1. ASSUME DebouncerInv PROVE DebouncerTypeOK
  <2>1. QueuesTyped
    BY <1>1 DEF DebouncerInv
  <2>2. \A p \in Paths : \A i \in DOMAIN queues[p] : queues[p][i] \in Event
    BY <2>1 DEF QueuesTyped
  <2>3. Cardinality(rescan) <= 1
    <3>1. Cardinality({}) = 0 /\ Cardinality({TRUE}) = 1 /\ Cardinality({FALSE}) = 1
      BY FS_EmptySet, FS_Singleton
    <3>2. rescan = {} \/ rescan = {TRUE} \/ rescan = {FALSE}
      BY <2>1 DEF QueuesTyped
    <3>3. CASE rescan = {}
      BY <3>1, <3>3
    <3>4. CASE rescan = {TRUE}
      BY <3>1, <3>4
    <3>5. CASE rescan = {FALSE}
      BY <3>1, <3>5
    <3>6. QED
      BY <3>2, <3>3, <3>4, <3>5
  <2>4. QED
    BY <2>1, <2>2, <2>3 DEF QueuesTyped, DebouncerTypeOK
<1>2. QED
  BY <1>1, DebouncerInvariantHolds, PTL

(* In every queue nothing but removals comes before a rename.              *)
THEOREM RenamesComeFirst == Spec => []RenameLeads
<1>1. ASSUME DebouncerInv PROVE RenameLeads
  <2>1. \A p \in Paths : queues[p] \in Seq(Event) /\ Leads(queues[p])
    BY <1>1 DEF DebouncerInv, QueuesTyped, QueuesLead
  <2>2. QED
    BY <2>1 DEF RenameLeads, Leads, Removals
<1>2. QED
  BY <1>1, DebouncerInvariantHolds, PTL

(* The worker will hear of every file that exists and changed, however     *)
(* renames, removals and repeated events merged the queues.                *)
THEOREM PresentFilesAreReported == Spec => []PresentIsReported
<1>1. ASSUME DebouncerInv PROVE PresentIsReported
  <2>1. SUFFICES ASSUME NEW p \in unreported \cap present, NamesItself(queues[p])
                 PROVE  p \in QueuedNames(p)
    BY <1>1 DEF DebouncerInv, QueuesTyped, OwnReported, PresentIsReported, Reported
  <2>2. queues[p] \in Seq(Event)
    BY <1>1 DEF DebouncerInv, QueuesTyped
  <2>3. PICK i \in DOMAIN queues[p] : queues[p][i].kind # "access"
    BY <2>1, <2>2 DEF NamesItself
  <2>4. p \in Names(p, queues[p][i])
    BY <2>3 DEF Names
  <2>5. QED
    BY <2>4 DEF QueuedNames
<1>2. QED
  BY <1>1, DebouncerInvariantHolds, PTL

-----------------------------------------------------------------------------
(* The folders above a folder. *)

(* The set between a folder and the root is the least with the folder and  *)
(* the parents of its members.                                             *)
LEMMA AboveIs ==
    ASSUME NEW p \in Paths
    PROVE  /\ p \in Above(p) /\ Above(p) \subseteq Paths
           /\ \A q \in Above(p) : Parent[q] # None => Parent[q] \in Above(p)
           /\ \E q \in Above(p) : Parent[q] = None
           /\ \A S \in SUBSET Paths :
                p \in S /\ (\A r \in S : Parent[r] \in S \cup {None}) => Above(p) \subseteq S
<1>1. Above(p) = {q \in Paths : \A S \in SUBSET Paths :
                    (p \in S /\ \A r \in S : Parent[r] \in S \cup {None}) => q \in S}
  BY DEF Above, Lineage
<1>2. \A q \in Paths : Parent[q] \in Paths \cup {None}
  BY ParentAssumption
<1>3. \A q \in Above(p) : Parent[q] # None => Parent[q] \in Above(p)
  BY <1>1, <1>2
<1>4. p \in Above(p) /\ Above(p) \subseteq Paths
  BY <1>1
<1>5. \A S \in SUBSET Paths :
         p \in S /\ (\A r \in S : Parent[r] \in S \cup {None}) => Above(p) \subseteq S
  BY <1>1
<1>6. QED
  BY <1>3, <1>4, <1>5, ParentAssumption

(* What is above a folder above is above.                                  *)
LEMMA AboveTrans ==
    ASSUME NEW p \in Paths, NEW q \in Above(p)
    PROVE  q \in Paths /\ Above(q) \subseteq Above(p)
<1>1. q \in Paths
  BY AboveIs
<1>2. \A r \in Above(p) : Parent[r] \in Above(p) \cup {None}
  BY AboveIs
<1>3. Above(p) \in SUBSET Paths
  BY AboveIs
<1>4. QED
  BY <1>1, <1>2, <1>3, AboveIs

(* Above a folder are itself and what is above its parent.                 *)
LEMMA AboveSplits ==
    ASSUME NEW p \in Paths, NEW q \in Above(p), q # p
    PROVE  Parent[p] \in Paths /\ q \in Above(Parent[p])
<1>1. CASE Parent[p] = None
  <2>1. {p} \in SUBSET Paths /\ \A r \in {p} : Parent[r] \in {p} \cup {None}
    BY <1>1
  <2>2. Above(p) \subseteq {p}
    BY <2>1, AboveIs
  <2>3. QED
    BY <2>2
<1>2. CASE Parent[p] # None
  <2> DEFINE S == {p} \cup Above(Parent[p])
  <2>1. Parent[p] \in Paths
    BY <1>2, ParentAssumption
  <2>2. S \in SUBSET Paths /\ p \in S /\ \A r \in S : Parent[r] \in S \cup {None}
    BY <2>1, AboveIs
  <2> HIDE DEF S
  <2>3. Above(p) \subseteq S
    BY <2>2, AboveIs
  <2>4. QED
    BY <2>1, <2>3 DEF S
<1>3. QED
  BY <1>1, <1>2

(* The way from a folder to one above it comes by a child of that.         *)
LEMMA AboveHasChild ==
    ASSUME NEW p \in Paths, NEW a \in Above(p), a # p
    PROVE  \E b \in Above(p) : Parent[b] = a
<1> DEFINE S == Above(p) \ {a}
<1>1. SUFFICES ASSUME \A b \in Above(p) : Parent[b] # a PROVE FALSE
  OBVIOUS
<1>2. S \in SUBSET Paths /\ p \in S /\ \A r \in S : Parent[r] \in S \cup {None}
  BY <1>1, AboveIs
<1> HIDE DEF S
<1>3. Above(p) \subseteq S
  BY <1>2, AboveIs
<1>4. QED
  BY <1>3 DEF S

(* No folder is above its parent.                                          *)
LEMMA NotAboveParent ==
    ASSUME NEW q \in Paths, Parent[q] # None
    PROVE  Parent[q] \in Paths /\ q \notin Above(Parent[q])
<1> DEFINE a == Parent[q]
           S == {r \in Above(a) : q \in Above(r)}
<1>1. a \in Paths
  BY ParentAssumption
<1>2. SUFFICES ASSUME q \in Above(a) PROVE FALSE
  BY <1>1
<1>3. S \in SUBSET Paths /\ a \in S
  BY <1>1, <1>2, AboveIs
<1>4. ASSUME NEW r \in S PROVE Parent[r] \in S \cup {None}
  <2>1. r \in Paths /\ r \in Above(a) /\ q \in Above(r)
    BY <1>1, AboveIs
  <2>2. CASE r = q
    BY <1>3, <2>2
  <2>3. CASE r # q
    <3>1. Parent[r] \in Paths /\ q \in Above(Parent[r])
      BY <2>1, <2>3, AboveSplits
    <3>2. Parent[r] \in Above(a)
      BY <1>1, <2>1, <3>1, AboveIs
    <3>3. Parent[r] \in S
      BY <3>1, <3>2
    <3>4. QED
      BY <3>3
  <2>4. QED
    BY <2>2, <2>3
<1> HIDE DEF S
<1>5. Above(a) \subseteq S
  BY <1>1, <1>3, <1>4, AboveIs
<1>6. PICK b \in Above(a) : Parent[b] = None
  BY <1>1, AboveIs
<1>7. b \in Paths /\ q \in Above(b)
  BY <1>1, <1>5, <1>6, AboveIs DEF S
<1>8. ASSUME q # b PROVE FALSE
  <2>1. Parent[b] \in Paths
    BY <1>7, <1>8, AboveSplits
  <2>2. QED
    BY <1>6, <2>1, PathsAssumption
<1>9. QED
  BY <1>6, <1>8

(* Two folders are not above each other.                                   *)
LEMMA AboveOneWay ==
    ASSUME NEW p \in Paths, NEW q \in Above(p), p \in Above(q)
    PROVE  p = q
<1>1. SUFFICES ASSUME p # q PROVE FALSE
  OBVIOUS
<1>2. Parent[p] \in Paths /\ q \in Above(Parent[p])
  BY <1>1, AboveSplits
<1>3. p \in Above(Parent[p])
  BY <1>2, AboveTrans
<1>4. Parent[p] # None
  BY <1>2, PathsAssumption
<1>5. QED
  BY <1>3, <1>4, NotAboveParent

(* Below is the converse.                                                  *)
LEMMA BelowIs ==
    \A p \in Paths : \A q : q \in Below(p) <=> q \in Paths /\ p \in Above(q)
BY DEF Below

-----------------------------------------------------------------------------
(* The inductive invariant of Registrations. *)

FoldersTyped ==
    /\ id \in [Paths -> Ids \cup {NoId}] /\ watch \in [Paths -> Ids \cup {NoId}]
    /\ registered \in [Paths -> Ids \cup {NoId}]
    /\ queues \in [Paths -> Seq(Event)] /\ inbox \in SUBSET (Paths \X Event)
    /\ current \in SUBSET Paths /\ agenda \in SUBSET Paths
    /\ denied \in SUBSET Paths /\ outdated \in SUBSET Paths
    /\ step \in {"idle", "list", "walk", "watch"}
    /\ at \in [path : Paths, id : Ids] \cup {Nowhere}
    /\ step = "watch" => at.path \in Paths

(* Folders are in folders.                                                 *)
FoldersAreTree ==
    /\ present = {p \in Paths : id[p] # NoId}
    /\ \A p \in present : Parent[p] # None => Parent[p] \in present

(* A removal that the worker has not heard of.                             *)
Marked(p) == Above(p) \cap RemovedNames(Pending) # {}

(* What is on record is watched, unless the native watch is gone and that  *)
(* is still to be heard of, or all is to be watched again and this folder  *)
(* was not yet; or nobody knows.                                           *)
RecordHolds(p) ==
    registered[p] = NoId \/ registered[p] = watch[p] \/ p \in outdated
    \/ (watch[p] = NoId /\ (lost \/ Marked(p) \/ (again /\ p \notin current)))
RecordsHold == \A p \in Paths : RecordHolds(p)

(* An event is on the way that names p or a folder above where it is.      *)
Speaks(q) == NamesItself(queues[q]) \/ \E x \in inbox : x[1] = q /\ x[2].kind # "access"
Heard(p)  == \E q \in Above(p) : Speaks(q)

Told(p) == lost \/ Above(p) \cap denied # {} \/ Heard(p) \/ WalkAhead(p)

(* The worker takes q for watched, and it is not.                          *)
IsWrong(q)      == registered[q] = id[q] /\ watch[q] # id[q]
Misled(p)       == \E q \in Above(p) : IsWrong(q) /\ (again => q \in current)
MisledInPass(p) == \E q \in Above(p) : IsWrong(q) /\ q \in current

FolderReached(p) == Watched(p) \/ Told(p) \/ (step = "idle" /\ failed) \/ Misled(p)
FoldersReached   == \A p \in present : FolderReached(p)

(* What a pass has walked past is of its generation.                       *)
FolderCovered(p) == p \in current \/ Told(p) \/ MisledInPass(p)
PassCovers       == step # "idle" => \A p \in present : FolderCovered(p)

FoldersInv ==
    /\ FoldersTyped /\ QueuesLead
    /\ FoldersAreTree
    /\ RecordsHold
    /\ FoldersReached
    /\ PassCovers

-----------------------------------------------------------------------------
(* What holds of a folder holds below it. *)

LEMMA AbovePresent ==
    ASSUME FoldersAreTree, NEW p \in present
    PROVE  p \in Paths /\ \A q \in Above(p) : q \in present /\ id[q] # NoId
<1>1. p \in Paths /\ present \in SUBSET Paths
  BY DEF FoldersAreTree
<1>2. \A r \in present : Parent[r] \in present \cup {None}
  BY DEF FoldersAreTree
<1>3. Above(p) \subseteq present
  BY <1>1, <1>2, AboveIs
<1>4. QED
  BY <1>1, <1>3 DEF FoldersAreTree

LEMMA WalkComesBelow ==
    ASSUME NEW p \in Paths, NEW q \in Above(p), WalkAhead(q)
    PROVE  WalkAhead(p)
<1>1. q \in Paths /\ Above(q) \subseteq Above(p)
  BY AboveTrans
<1>2. ASSUME NEW r \in Above(q) \ {q} PROVE r \in Above(p) \ {p}
  <2>1. p # r
    BY <1>2, AboveOneWay
  <2>2. QED
    BY <1>1, <1>2, <2>1
<1>3. QED
  BY <1>1, <1>2 DEF WalkAhead

LEMMA ToldBelow ==
    ASSUME NEW p \in Paths, NEW q \in Above(p)
    PROVE  /\ Heard(q) => Heard(p)
           /\ Told(q) => Told(p)
           /\ Misled(q) => Misled(p)
           /\ MisledInPass(q) => MisledInPass(p)
           /\ Marked(q) => Marked(p)
<1>1. Above(q) \subseteq Above(p)
  BY AboveTrans
<1>2. Heard(q) => Heard(p)
  BY <1>1 DEF Heard
<1>3. WalkAhead(q) => WalkAhead(p)
  BY WalkComesBelow
<1>4. QED
  BY <1>1, <1>2, <1>3 DEF Told, Misled, MisledInPass, Marked

LEMMA ToldBelowNext ==
    ASSUME NEW p \in Paths, NEW q \in Above(p)
    PROVE  /\ Told(q)' => Told(p)'
           /\ Misled(q)' => Misled(p)'
           /\ MisledInPass(q)' => MisledInPass(p)'
<1>1. q \in Paths /\ Above(q) \subseteq Above(p)
  BY AboveTrans
<1>2. ASSUME NEW r \in Above(q) \ {q} PROVE r \in Above(p) \ {p}
  <2>1. p # r
    BY <1>2, AboveOneWay
  <2>2. QED
    BY <1>1, <1>2, <2>1
<1>3. Heard(q)' => Heard(p)'
  BY <1>1 DEF Heard, Above, Lineage
<1>4. WalkAhead(q)' => WalkAhead(p)'
  BY <1>1, <1>2 DEF WalkAhead, Above, Lineage
<1>5. QED
  BY <1>1, <1>3, <1>4 DEF Told, Misled, MisledInPass, Above, Lineage

(* A folder that is not watched has been heard of or is yet to be walked   *)
(* to, or a folder above it is taken for one that is watched.              *)
LEMMA UnwatchedCovered ==
    ASSUME FoldersInv, step # "idle", NEW p \in present, ~(p \in current /\ Watched(p))
    PROVE  Told(p) \/ MisledInPass(p)
<1>1. p \in Paths /\ \A q \in Above(p) : q \in Paths /\ q \in present
  BY AbovePresent, AboveIs DEF FoldersInv
<1>2. FolderCovered(p) /\ FolderReached(p) /\ \A q \in Above(p) : FolderCovered(q)
  BY <1>1 DEF FoldersInv, FoldersReached, PassCovers
<1>3. SUFFICES ASSUME p \in current, ~Watched(p), ~Told(p) PROVE MisledInPass(p)
  BY <1>2 DEF FolderCovered
<1>4. PICK q \in Above(p) : IsWrong(q)
  BY <1>2, <1>3 DEF FolderReached, Misled
<1>5. CASE q \in current
  BY <1>4, <1>5 DEF MisledInPass
<1>6. CASE q \notin current
  BY <1>1, <1>2, <1>3, <1>6, ToldBelow DEF FolderCovered
<1>7. QED
  BY <1>5, <1>6

-----------------------------------------------------------------------------
(* What is heard of and what is forgotten. *)

LEMMA RemovedNamesGrow ==
    \A A, B : /\ RemovedNames(A \cup B) = RemovedNames(A) \cup RemovedNames(B)
              /\ A \subseteq B => RemovedNames(A) \subseteq RemovedNames(B)
BY DEF RemovedNames

(* A removal that names a folder, or one above it, is told by the queues   *)
(* of the debouncer or waits for the worker.                               *)
LEMMA MarkedIs ==
    ASSUME NEW p \in Paths
    PROVE  /\ Marked(p) <=> \/ Above(p) \cap RemovedNames(InQueues(queues)) # {}
                            \/ Above(p) \cap RemovedNames(inbox) # {}
           /\ Marked(p)' <=> \/ Above(p) \cap RemovedNames(InQueues(queues')) # {}
                             \/ Above(p) \cap RemovedNames(inbox') # {}
<1>1. /\ RemovedNames(Pending) = RemovedNames(InQueues(queues)) \cup RemovedNames(inbox)
      /\ RemovedNames(InQueues(queues') \cup inbox')
           = RemovedNames(InQueues(queues')) \cup RemovedNames(inbox')
  BY RemovedNamesGrow DEF Pending
<1>2. Marked(p)' <=> Above(p) \cap RemovedNames(InQueues(queues') \cup inbox') # {}
  BY DEF Marked, Pending, Above, Lineage
<1>3. QED
  BY <1>1, <1>2 DEF Marked

(* A removal is either told of afterwards or what it is of is outdated.    *)
LEMMA ForgetsTells ==
    ASSUME NEW told \in SUBSET Paths, Forgets(told, queues'), inbox' = inbox
    PROVE  /\ outdated \subseteq outdated'
           /\ \A p \in Paths : Marked(p) \/ Above(p) \cap told # {} => Marked(p)' \/ p \in outdated'
<1> DEFINE Lost == {r \in RemovedNames(InQueues(queues)) \cup told :
                      Above(r) \cap RemovedNames(InQueues(queues')) = {}}
<1>1. outdated' = outdated \cup UNION {Below(q) : q \in Lost}
  BY DEF Forgets
<1>2. ASSUME NEW p \in Paths, NEW a \in Above(p), a \in RemovedNames(InQueues(queues)) \cup told,
             ~Marked(p)'
      PROVE  p \in outdated'
  <2>1. a \in Paths /\ Above(a) \subseteq Above(p)
    BY AboveTrans
  <2>2. Above(p) \cap RemovedNames(InQueues(queues')) = {}
    BY <1>2, MarkedIs
  <2>3. a \in Lost
    BY <1>2, <2>1, <2>2
  <2>4. p \in Below(a)
    BY <2>1, BelowIs
  <2>5. QED
    BY <1>1, <2>3, <2>4
<1>3. ASSUME NEW p \in Paths, Marked(p) \/ Above(p) \cap told # {}, ~Marked(p)'
      PROVE  p \in outdated'
  <2>1. Above(p) \cap RemovedNames(inbox) = {}
    BY <1>3, MarkedIs
  <2>2. PICK a \in Above(p) : a \in RemovedNames(InQueues(queues)) \cup told
    BY <1>3, <2>1, MarkedIs
  <2>3. QED
    BY <1>2, <1>3, <2>2
<1>4. QED
  BY <1>1, <1>3

(* An event that is pushed forgets none.                                   *)
LEMMA PushForgetsNone ==
    ASSUME FoldersInv, NEW p \in Paths, NEW kind \in Kinds \ {"both", "access"},
           queues' = [queues EXCEPT ![p] = Pushed(@, kind)], inbox' = inbox
    PROVE  /\ queues' \in [Paths -> Seq(Event)] /\ QueuesLead'
           /\ \A q \in Paths : Speaks(q) => Speaks(q)'
           /\ Speaks(p)'
           /\ \A q \in Paths : Marked(q) => Marked(q)'
<1>1. /\ queues \in [Paths -> Seq(Event)] /\ \A q \in Paths : Leads(queues[q])
  BY DEF FoldersInv, FoldersTyped, QueuesLead
<1>2. /\ Pushed(queues[p], kind) \in Seq(Event)
      /\ Leads(Pushed(queues[p], kind))
      /\ NamesItself(Pushed(queues[p], kind))
  BY <1>1, PushedKeeps
<1>3. /\ queues' \in [Paths -> Seq(Event)]
      /\ queues'[p] = Pushed(queues[p], kind)
      /\ \A q \in Paths : q # p => queues'[q] = queues[q]
  BY <1>1, <1>2
<1>4. QueuesLead'
  BY <1>1, <1>2, <1>3 DEF QueuesLead
<1>5. Speaks(p)' /\ \A q \in Paths : Speaks(q) => Speaks(q)'
  BY <1>2, <1>3 DEF Speaks
<1>6. \A i \in DOMAIN queues[p] : i \in DOMAIN queues'[p] /\ queues'[p][i] = queues[p][i]
  <2>1. queues[p] \in Seq(Event) /\ Ev(kind) \in Event
    BY <1>1, EvType
  <2>2. \A i \in DOMAIN queues[p] : /\ i \in DOMAIN Append(queues[p], Ev(kind))
                                    /\ Append(queues[p], Ev(kind))[i] = queues[p][i]
    BY <2>1
  <2>3. queues'[p] = queues[p] \/ queues'[p] = Append(queues[p], Ev(kind))
    BY <1>3 DEF Pushed
  <2>4. QED
    BY <2>2, <2>3
<1>7. InQueues(queues) \subseteq InQueues(queues')
  <2>1. ASSUME NEW q \in Paths, NEW i \in DOMAIN queues[q]
        PROVE  i \in DOMAIN queues'[q] /\ queues'[q][i] = queues[q][i]
    BY <1>3, <1>6
  <2>2. QED
    BY <2>1 DEF InQueues
<1>8. \A q \in Paths : Marked(q) => Marked(q)'
  BY <1>7, RemovedNamesGrow, MarkedIs
<1>9. QED
  BY <1>3, <1>4, <1>5, <1>8

-----------------------------------------------------------------------------
(* What a change of folders leaves true. *)

(* Nothing changed on the way to p, and what was heard is.                 *)
Settled(p) ==
    /\ p \in present
    /\ \A q \in Above(p) : id'[q] = id[q] /\ watch'[q] = watch[q]
    /\ Heard(p) => Heard(p)'

WorkerIdles == UNCHANGED <<registered, current, again, step, agenda, at, denied, lost, failed>>

LEMMA SettledKeeps ==
    ASSUME WorkerIdles, NEW p \in Paths, Settled(p)
    PROVE  /\ Watched(p)' <=> Watched(p)
           /\ Told(p) => Told(p)'
           /\ Misled(p) => Misled(p)'
           /\ MisledInPass(p) => MisledInPass(p)'
           /\ FolderReached(p) => FolderReached(p)'
           /\ FolderCovered(p) => FolderCovered(p)'
<1>1. p \in Above(p) /\ p # None
  BY AboveIs
<1>2. Watched(p)' <=> Watched(p)
  BY <1>1 DEF Watched, Settled
<1>3. WalkAhead(p) => WalkAhead(p)'
  BY DEF WalkAhead, WorkerIdles, Above, Lineage
<1>4. Told(p) => Told(p)'
  BY <1>3 DEF Told, WorkerIdles, Settled, Above, Lineage
<1>5. \A q \in Above(p) : IsWrong(q) => IsWrong(q)'
  BY DEF IsWrong, Settled, WorkerIdles
<1>6. Misled(p) => Misled(p)'
  BY <1>5 DEF Misled, WorkerIdles, Above, Lineage
<1>7. MisledInPass(p) => MisledInPass(p)'
  BY <1>5 DEF MisledInPass, WorkerIdles, Above, Lineage
<1>8. FolderReached(p) => FolderReached(p)'
  BY <1>2, <1>4, <1>6 DEF FolderReached, WorkerIdles
<1>9. FolderCovered(p) => FolderCovered(p)'
  BY <1>4, <1>7 DEF FolderCovered, WorkerIdles
<1>10. QED
  BY <1>2, <1>4, <1>6, <1>7, <1>8, <1>9

(* A folder that arrives is heard of, or comes to a folder that is not     *)
(* watched, and then what is known of that one is known of it.             *)
ArrivesUnwatched(p) == \E a \in Above(p) : ~Watched(a) /\ Settled(a)

LEMMA ArrivalsKeep ==
    ASSUME FoldersInv, WorkerIdles, present' \subseteq Paths,
           \A p \in present' : Settled(p) \/ Heard(p)' \/ ArrivesUnwatched(p)
    PROVE  FoldersReached' /\ PassCovers'
<1>1. SUFFICES ASSUME NEW p \in present'
               PROVE  FolderReached(p)' /\ (step' # "idle" => FolderCovered(p)')
  BY DEF FoldersReached, PassCovers
<1>2. p \in Paths
  BY <1>1
<1>3. step' = step
  BY DEF WorkerIdles
<1>4. CASE Settled(p)
  <2>1. p \in present /\ FolderReached(p) /\ (step # "idle" => FolderCovered(p))
    BY <1>4 DEF Settled, FoldersInv, FoldersReached, PassCovers
  <2>2. QED
    BY <1>2, <1>3, <1>4, <2>1, SettledKeeps
<1>5. CASE Heard(p)'
  BY <1>5 DEF Told, FolderReached, FolderCovered
<1>6. CASE ArrivesUnwatched(p)
  <2>1. PICK a \in Above(p) : ~Watched(a) /\ Settled(a)
    BY <1>6 DEF ArrivesUnwatched
  <2>2. a \in Paths /\ a \in present
    BY <1>2, <2>1, AboveTrans DEF Settled
  <2>3. FolderReached(a)
    BY <2>2 DEF FoldersInv, FoldersReached
  <2>4. Told(a) \/ (step = "idle" /\ failed) \/ Misled(a)
    BY <2>1, <2>3 DEF FolderReached
  <2>5. Told(a)' \/ (step' = "idle" /\ failed') \/ Misled(a)'
    BY <2>1, <2>2, <2>4, SettledKeeps DEF WorkerIdles
  <2>6. Told(a)' => Told(p)'
    BY <1>2, <2>1, ToldBelowNext
  <2>7. (Misled(a)' => Misled(p)') /\ (MisledInPass(a)' => MisledInPass(p)')
    BY <1>2, <2>1, ToldBelowNext
  <2>8. FolderReached(p)'
    BY <2>5, <2>6, <2>7 DEF FolderReached
  <2>9. ASSUME step' # "idle" PROVE Told(a)' \/ MisledInPass(a)'
    BY <1>3, <2>1, <2>2, <2>9, UnwatchedCovered, SettledKeeps
  <2>10. QED
    BY <2>6, <2>7, <2>8, <2>9 DEF FolderCovered
<1>7. QED
  BY <1>1, <1>4, <1>5, <1>6

(* Native watches are dropped with what is told of or outdated.            *)
LEMMA DropsKeepRecords ==
    ASSUME FoldersInv, UNCHANGED <<registered, current, again, lost>>,
           outdated \subseteq outdated',
           \A p \in Paths : Marked(p) => Marked(p)' \/ p \in outdated',
           \A p \in Paths : \/ watch'[p] = watch[p]
                            \/ watch'[p] = NoId /\ (Marked(p)' \/ p \in outdated')
    PROVE  RecordsHold'
<1>1. SUFFICES ASSUME NEW p \in Paths PROVE RecordHolds(p)'
  BY DEF RecordsHold
<1>2. RecordHolds(p)
  BY DEF FoldersInv, RecordsHold
<1>3. QED
  BY <1>2 DEF RecordHolds

-----------------------------------------------------------------------------
(* The changes of folders. *)

(* What every change of folders leaves alone.                              *)
LEMMA HappensIs ==
    ASSUME NEW dirs, NEW qs, Happens(dirs, qs)
    PROVE  /\ id' = dirs /\ present' = {p \in Paths : dirs[p] # NoId} /\ queues' = qs
           /\ WorkerIdles /\ inbox' = inbox
BY DEF Happens, WorkerIdles, believed, walking, feed

(* The worker's own part of the invariant.                                 *)
LEMMA TypedKeeps ==
    ASSUME FoldersInv, WorkerIdles, inbox' = inbox,
           id' \in [Paths -> Ids \cup {NoId}], watch' \in [Paths -> Ids \cup {NoId}],
           queues' \in [Paths -> Seq(Event)], outdated' \in SUBSET Paths
    PROVE  FoldersTyped'
BY DEF FoldersInv, FoldersTyped, WorkerIdles

LEMMA NewFolderStep ==
    ASSUME FoldersInv, NEW p \in Paths, NEW new \in Ids, MakeFolder(p, new)
    PROVE  FoldersInv'
<1> DEFINE seen == Watched(Parent[p])
<1>1. /\ p # None /\ id[p] = NoId /\ IsDir(Parent[p])
      /\ id' = [id EXCEPT ![p] = new] /\ present' = {r \in Paths : id'[r] # NoId}
      /\ queues' = IF seen THEN [queues EXCEPT ![p] = Pushed(@, "create")] ELSE queues
      /\ WorkerIdles /\ inbox' = inbox /\ watch' = watch /\ outdated' = outdated
  BY HappensIs DEF MakeFolder, IsDir
<1>2. /\ id \in [Paths -> Ids \cup {NoId}] /\ watch \in [Paths -> Ids \cup {NoId}]
      /\ queues \in [Paths -> Seq(Event)] /\ outdated \in SUBSET Paths
      /\ QueuesLead /\ FoldersAreTree /\ present = {r \in Paths : id[r] # NoId}
  BY DEF FoldersInv, FoldersTyped, FoldersAreTree
<1>3. "create" \in Kinds \ {"both", "access"}
  BY DEF Kinds
<1>4. /\ queues' \in [Paths -> Seq(Event)] /\ QueuesLead'
      /\ \A q \in Paths : Speaks(q) => Speaks(q)'
      /\ seen => Speaks(p)'
      /\ \A q \in Paths : Marked(q) => Marked(q)'
  <2>1. CASE seen
    BY <1>1, <1>3, <2>1, PushForgetsNone
  <2>2. CASE ~seen
    <3>1. queues' = queues /\ inbox' = inbox
      BY <1>1, <2>2
    <3>2. QED
      BY <1>2, <2>2, <3>1, MarkedIs DEF QueuesLead, Speaks
  <2>3. QED
    BY <2>1, <2>2
<1>5. FoldersTyped'
  <2>1. id' \in [Paths -> Ids \cup {NoId}]
    BY <1>1, <1>2
  <2>2. QED
    BY <1>1, <1>2, <1>4, <2>1, TypedKeeps
<1>6. \A r \in Paths : r # p => id'[r] = id[r]
  BY <1>1, <1>2
<1>7. id'[p] = new /\ new # NoId
  BY <1>1, <1>2
<1>8. present' = present \cup {p} /\ p \notin present
  BY <1>1, <1>2, <1>6, <1>7
<1>9. Parent[p] # None => Parent[p] \in present
  BY <1>1, <1>2, ParentAssumption DEF IsDir
<1>10. FoldersAreTree'
  <2>1. \A r \in present' : Parent[r] # None => Parent[r] \in present'
    BY <1>2, <1>8, <1>9 DEF FoldersAreTree
  <2>2. QED
    BY <1>1, <2>1 DEF FoldersAreTree
<1>11. ASSUME NEW r \in present PROVE Settled(r)
  <2>1. r \in Paths /\ \A q \in Above(r) : q \in Paths /\ q \in present
    BY <1>2, AbovePresent, AboveIs
  <2>2. Heard(r) => Heard(r)'
    BY <1>4, <2>1 DEF Heard, Above, Lineage
  <2>3. QED
    BY <1>1, <1>6, <1>8, <2>1, <2>2 DEF Settled
<1>12. Heard(p)' \/ ArrivesUnwatched(p)
  <2>1. CASE seen
    BY <1>4, <2>1, AboveIs DEF Heard, Above, Lineage
  <2>2. CASE ~seen
    <3>1. Parent[p] # None
      BY <2>2 DEF Watched
    <3>2. Parent[p] \in Above(p)
      BY <3>1, AboveIs
    <3>3. QED
      BY <1>9, <1>11, <2>2, <3>1, <3>2 DEF ArrivesUnwatched
  <2>3. QED
    BY <2>1, <2>2
<1>13. FoldersReached' /\ PassCovers'
  BY <1>1, <1>8, <1>11, <1>12, ArrivalsKeep
<1>14. RecordsHold'
  BY <1>1, <1>4, DropsKeepRecords DEF WorkerIdles
<1>15. QED
  BY <1>4, <1>5, <1>10, <1>13, <1>14 DEF FoldersInv

LEMMA RemoveFolderStep ==
    ASSUME FoldersInv, NEW p \in Paths, RemoveFolder(p)
    PROVE  FoldersInv'
<1> DEFINE own  == {q \in Paths : watch[q] = id[p]}
           told == own \cup IF Watched(Parent[p]) THEN {p} ELSE {}
           qs   == [q \in Paths |-> IF q \in told THEN <<Ev("remove")>>
                                    ELSE IF Above(q) \cap told # {} THEN <<>> ELSE queues[q]]
<1>1. /\ p \in present /\ \A q \in Children(p) : ~IsDir(q)
      /\ Happens([id EXCEPT ![p] = NoId], qs)
      /\ Forgets(told, qs)
      /\ watch' = [q \in Paths |-> IF q \in own THEN NoId ELSE watch[q]]
  BY DEF RemoveFolder
<1>2. /\ id' = [id EXCEPT ![p] = NoId] /\ present' = {r \in Paths : id'[r] # NoId}
      /\ queues' = qs /\ WorkerIdles /\ inbox' = inbox
  BY <1>1, HappensIs
<1>3. /\ id \in [Paths -> Ids \cup {NoId}] /\ watch \in [Paths -> Ids \cup {NoId}]
      /\ queues \in [Paths -> Seq(Event)] /\ outdated \in SUBSET Paths
      /\ QueuesLead /\ FoldersAreTree /\ present = {r \in Paths : id[r] # NoId}
  BY DEF FoldersInv, FoldersTyped, FoldersAreTree
<1>4. own \subseteq told /\ told \in SUBSET Paths
  OBVIOUS
<1>5. \A q \in Paths : /\ q \in told => queues'[q] = <<Ev("remove")>>
                       /\ q \notin told /\ Above(q) \cap told # {} => queues'[q] = <<>>
                       /\ Above(q) \cap told = {} => queues'[q] = queues[q]
  BY <1>2, AboveIs
<1>6. Ev("remove") \in Event /\ Ev("remove").kind = "remove"
  BY EvType DEF Kinds
<1>7. queues' \in [Paths -> Seq(Event)]
  BY <1>2, <1>3, <1>6
<1>8. watch' \in [Paths -> Ids \cup {NoId}] /\ id' \in [Paths -> Ids \cup {NoId}]
      /\ \A q \in Paths : watch'[q] = IF q \in own THEN NoId ELSE watch[q]
  BY <1>1, <1>2, <1>3
<1>9. Forgets(told, queues')
  BY <1>1, <1>2
<1> HIDE DEF own, told, qs
<1>10. QueuesLead'
  <2>1. ASSUME NEW q \in Paths PROVE Leads(queues'[q])
    <3>1. Leads(<<Ev("remove")>>) /\ Leads(<<>>) /\ Leads(queues[q])
      BY <1>3, <1>6 DEF Leads, QueuesLead
    <3>2. QED
      BY <1>5, <3>1
  <2>2. QED
    BY <2>1 DEF QueuesLead
<1>11. outdated' \in SUBSET Paths
  BY <1>3, <1>9 DEF Forgets, Below
<1>12. FoldersTyped'
  BY <1>2, <1>7, <1>8, <1>11, TypedKeeps
<1>13. \A r \in Paths : r # p => id'[r] = id[r]
  BY <1>2, <1>3
<1>14. present' = present \ {p}
  BY <1>2, <1>3, <1>13
<1>15. ASSUME NEW r \in present' PROVE p \notin Above(r) /\ r \in present /\ Above(r) \subseteq Paths
  <2>1. r \in present /\ r # p
    BY <1>14
  <2>2. r \in Paths /\ Above(r) \subseteq Paths /\ \A q \in Above(r) : q \in present /\ id[q] # NoId
    BY <1>3, <2>1, AbovePresent, AboveIs
  <2>3. ASSUME p \in Above(r) PROVE FALSE
    <3>1. PICK b \in Above(r) : Parent[b] = p
      BY <2>1, <2>2, <2>3, AboveHasChild
    <3>2. b \in Children(p) /\ IsDir(b)
      BY <2>2, <3>1 DEF Children, IsDir
    <3>3. QED
      BY <1>1, <3>2
  <2>4. QED
    BY <2>1, <2>2, <2>3
<1>16. FoldersAreTree'
  <2>1. ASSUME NEW r \in present', Parent[r] # None PROVE Parent[r] \in present'
    <3>1. Parent[r] \in present
      BY <1>3, <1>15, <2>1 DEF FoldersAreTree
    <3>2. Parent[r] # p
      <4>1. r \in Paths
        BY <1>3, <1>15
      <4>2. Parent[r] \in Above(r)
        BY <2>1, <4>1, AboveIs
      <4>3. QED
        BY <1>15, <4>2
    <3>3. QED
      BY <1>14, <3>1, <3>2
  <2>2. QED
    BY <1>2, <2>1 DEF FoldersAreTree
<1>17. ASSUME NEW r \in present' PROVE Settled(r) \/ Heard(r)'
  <2>1. r \in Paths /\ r \in present /\ Above(r) \subseteq Paths
    BY <1>3, <1>15
  <2>2. CASE Above(r) \cap told # {}
    <3>1. PICK q \in Above(r) : q \in told
      BY <2>2
    <3>2. queues'[q] = <<Ev("remove")>>
      BY <1>5, <2>1, <3>1
    <3>3. Speaks(q)'
      BY <1>6, <3>2 DEF Speaks, NamesItself
    <3>4. QED
      BY <3>3 DEF Heard, Above, Lineage
  <2>3. CASE Above(r) \cap told = {}
    <3>1. ASSUME NEW q \in Above(r)
          PROVE  id'[q] = id[q] /\ watch'[q] = watch[q] /\ queues'[q] = queues[q]
      <4>1. q \in Paths /\ Above(q) \subseteq Above(r) /\ q # p
        BY <1>15, <2>1, AboveTrans
      <4>2. Above(q) \cap told = {} /\ q \notin told
        BY <2>3, <4>1
      <4>3. QED
        BY <1>4, <1>5, <1>8, <1>13, <4>1, <4>2
    <3>2. Heard(r) => Heard(r)'
      BY <1>2, <3>1 DEF Heard, Speaks, Above, Lineage
    <3>3. QED
      BY <2>1, <3>1, <3>2 DEF Settled
  <2>4. QED
    BY <2>2, <2>3
<1>18. FoldersReached' /\ PassCovers'
  BY <1>2, <1>17, ArrivalsKeep
<1>19. RecordsHold'
  <2>1. /\ outdated \subseteq outdated'
        /\ \A q \in Paths : Marked(q) \/ Above(q) \cap told # {} => Marked(q)' \/ q \in outdated'
    BY <1>2, <1>4, <1>9, ForgetsTells
  <2>2. \A q \in Paths : q \in own => Above(q) \cap told # {}
    BY <1>4, AboveIs
  <2>3. QED
    BY <1>2, <1>8, <2>1, <2>2, DropsKeepRecords DEF WorkerIdles
<1>20. QED
  BY <1>10, <1>12, <1>16, <1>18, <1>19 DEF FoldersInv

(* Where a move that p is seen to leave, q is seen to get, or both, leaves *)
(* the queues.                                                             *)
MoveQueues(p, q) ==
    LET seenFrom == Watched(Parent[p])
        seenTo   == Watched(Parent[q])
    IN IF seenFrom /\ seenTo
       THEN Renamed([queues EXCEPT ![p] = Pushed(@, "from")], p, q, FALSE)
       ELSE IF seenFrom THEN [queues EXCEPT ![p] = Pushed(@, "from")]
       ELSE IF seenTo   THEN [queues EXCEPT ![q] = Pushed(@, "to")] ELSE queues

LEMMA MoveQueuesTell ==
    ASSUME FoldersInv, NEW p \in Paths, NEW q \in Paths, p # q,
           queues' = MoveQueues(p, q), inbox' = inbox
    PROVE  /\ queues' \in [Paths -> Seq(Event)] /\ QueuesLead'
           /\ \A r \in Paths \ {p, q} : queues'[r] = queues[r]
           /\ Watched(Parent[q]) => Speaks(q)'
           /\ ~Watched(Parent[p]) => \A r \in Paths : Marked(r) => Marked(r)'
<1> DEFINE seenFrom == Watched(Parent[p])
           seenTo   == Watched(Parent[q])
<1>1. queues \in [Paths -> Seq(Event)] /\ \A r \in Paths : Leads(queues[r])
  BY DEF FoldersInv, FoldersTyped, QueuesLead
<1>2. "from" \in Kinds \ {"both", "access"} /\ "to" \in Kinds \ {"both", "access"}
  BY DEF Kinds
<1>3. PICK half \in [Paths -> Seq(Event)] : half = [queues EXCEPT ![p] = Pushed(@, "from")]
  <2>1. Pushed(queues[p], "from") \in Seq(Event)
    BY <1>1, <1>2, PushedKeeps
  <2>2. [queues EXCEPT ![p] = Pushed(@, "from")] \in [Paths -> Seq(Event)]
    BY <1>1, <2>1
  <2>3. QED
    BY <2>2
<1>4. (\A r \in Paths : Leads(half[r])) /\ \A r \in Paths \ {p} : half[r] = queues[r]
  <2>1. Leads(Pushed(queues[p], "from"))
    BY <1>1, <1>2, PushedKeeps
  <2>2. half[p] = Pushed(queues[p], "from") /\ \A r \in Paths \ {p} : half[r] = queues[r]
    BY <1>1, <1>3
  <2>3. QED
    BY <1>1, <2>1, <2>2
<1>5. CASE seenFrom /\ seenTo
  <2>1. queues' = Renamed(half, p, q, FALSE)
    BY <1>3, <1>5 DEF MoveQueues
  <2>2. /\ Renamed(half, p, q, FALSE) \in [Paths -> Seq(Event)]
        /\ \A r \in Paths : Leads(Renamed(half, p, q, FALSE)[r])
        /\ NamesItself(Renamed(half, p, q, FALSE)[q])
        /\ \A r \in Paths \ {p, q} : Renamed(half, p, q, FALSE)[r] = half[r]
    BY <1>4, ConnectedKeeps
  <2>3. Speaks(q)' /\ QueuesLead'
    BY <2>1, <2>2 DEF Speaks, QueuesLead
  <2>4. QED
    BY <1>4, <1>5, <2>1, <2>2, <2>3
<1>6. CASE seenFrom /\ ~seenTo
  <2>1. queues' = half
    BY <1>3, <1>6 DEF MoveQueues
  <2>2. QED
    BY <1>4, <1>6, <2>1 DEF QueuesLead
<1>7. CASE ~seenFrom /\ seenTo
  <2>1. queues' = [queues EXCEPT ![q] = Pushed(@, "to")]
    BY <1>7 DEF MoveQueues
  <2>2. \A r \in Paths \ {p, q} : queues'[r] = queues[r]
    BY <1>1, <2>1
  <2>3. QED
    BY <1>2, <1>7, <2>1, <2>2, PushForgetsNone
<1>8. CASE ~seenFrom /\ ~seenTo
  <2>1. queues' = queues
    BY <1>8 DEF MoveQueues
  <2>2. \A r \in Paths : Marked(r) => Marked(r)'
    BY <2>1, MarkedIs
  <2>3. QED
    BY <1>1, <1>8, <2>1, <2>2 DEF QueuesLead
<1>9. QED
  BY <1>5, <1>6, <1>7, <1>8

LEMMA MoveFolderStep ==
    ASSUME FoldersInv, NEW p \in Paths, NEW q \in Paths, MoveFolder(p, q)
    PROVE  FoldersInv'
<1>1. /\ p \in present /\ q \notin Below(p) /\ ~IsDir(q) /\ IsDir(Parent[q])
  BY DEF MoveFolder
<1>2. PICK to \in [Here(p) -> Below(q)] :
         /\ to[p] = q /\ SameNames(to, p)
         /\ Happens([r \in Paths |-> IF r \in Below(p) THEN NoId
                                     ELSE IF \E s \in Here(p) : to[s] = r
                                          THEN id[CHOOSE s \in Here(p) : to[s] = r] ELSE id[r]],
                    MoveQueues(p, q))
         /\ IF Watched(Parent[p]) THEN Forgets({p}, MoveQueues(p, q)) ELSE UNCHANGED outdated
         /\ watch' = [r \in Paths |-> IF Watched(Parent[p]) /\ r \in Below(p)
                                      THEN NoId ELSE watch[r]]
  BY DEF MoveFolder, MoveQueues
<1>3. /\ id' = [r \in Paths |-> IF r \in Below(p) THEN NoId
                                ELSE IF \E s \in Here(p) : to[s] = r
                                     THEN id[CHOOSE s \in Here(p) : to[s] = r] ELSE id[r]]
      /\ present' = {r \in Paths : id'[r] # NoId}
      /\ queues' = MoveQueues(p, q) /\ WorkerIdles /\ inbox' = inbox
  BY <1>2, HappensIs
<1>4. /\ id \in [Paths -> Ids \cup {NoId}] /\ watch \in [Paths -> Ids \cup {NoId}]
      /\ outdated \in SUBSET Paths
      /\ FoldersAreTree /\ present = {r \in Paths : id[r] # NoId}
  BY DEF FoldersInv, FoldersTyped, FoldersAreTree
<1>5. p # q /\ p \in Below(p) /\ q # None /\ id[q] = NoId /\ q \notin present
  BY <1>1, <1>4, BelowIs, AboveIs DEF IsDir
<1>6. /\ queues' \in [Paths -> Seq(Event)] /\ QueuesLead'
      /\ \A r \in Paths \ {p, q} : queues'[r] = queues[r]
      /\ Watched(Parent[q]) => Speaks(q)'
      /\ ~Watched(Parent[p]) => \A r \in Paths : Marked(r) => Marked(r)'
  BY <1>3, <1>5, MoveQueuesTell
<1>7. \A r \in Paths : /\ r \in Below(p) => id'[r] = NoId
                       /\ r \notin Below(p) /\ (\E s \in Here(p) : to[s] = r)
                            => id'[r] = id[CHOOSE s \in Here(p) : to[s] = r]
                       /\ r \notin Below(p) /\ ~(\E s \in Here(p) : to[s] = r) => id'[r] = id[r]
  BY <1>3
<1>8. \A s \in Here(p) : s \in Paths /\ s \in Below(p) /\ id[s] # NoId /\ id[s] \in Ids
  BY <1>4, BelowIs DEF Here, IsDir
<1>9. ASSUME NEW r \in Paths, r \notin Below(p), NEW s \in Here(p), to[s] = r
      PROVE  id'[r] \in Ids /\ id'[r] # NoId
  <2>1. (CHOOSE x \in Here(p) : to[x] = r) \in Here(p)
    BY <1>9
  <2>2. QED
    BY <1>7, <1>8, <1>9, <2>1
<1>10. id' \in [Paths -> Ids \cup {NoId}]
  <2>1. \A r \in Paths : id'[r] \in Ids \cup {NoId}
    BY <1>4, <1>7, <1>9
  <2>2. QED
    BY <1>3, <2>1
<1>11. watch' \in [Paths -> Ids \cup {NoId}]
       /\ \A r \in Paths : watch'[r] = IF Watched(Parent[p]) /\ r \in Below(p) THEN NoId ELSE watch[r]
  BY <1>2, <1>4
<1>12. outdated' \in SUBSET Paths
  BY <1>2, <1>4 DEF Forgets, Below
<1>13. FoldersTyped'
  BY <1>3, <1>6, <1>10, <1>11, <1>12, TypedKeeps
(* What is not at the new name stays as it was.                            *)
<1>14. ASSUME NEW r \in Paths, r \notin Below(p), q \notin Above(r)
       PROVE  /\ \A z \in Above(r) : /\ z \in Paths \ {p, q} /\ id'[z] = id[z]
                                     /\ watch'[z] = watch[z] /\ queues'[z] = queues[z]
              /\ r \in present => Settled(r) /\ r \in present'
  <2>1. ASSUME NEW z \in Above(r)
        PROVE  /\ z \in Paths \ {p, q} /\ id'[z] = id[z]
               /\ watch'[z] = watch[z] /\ queues'[z] = queues[z]
    <3>1. z \in Paths /\ Above(z) \subseteq Above(r) /\ z \in Above(z)
      BY <1>14, AboveTrans, AboveIs
    <3>2. z \notin Below(p) /\ q \notin Above(z)
      BY <1>14, <3>1, BelowIs
    <3>3. \A s \in Here(p) : to[s] # z
      BY <3>2, BelowIs
    <3>4. QED
      BY <1>5, <1>6, <1>7, <1>11, <3>1, <3>2, <3>3
  <2>2. Heard(r) => Heard(r)'
    BY <1>3, <2>1 DEF Heard, Speaks, Above, Lineage
  <2>3. r \in Above(r)
    BY AboveIs
  <2>4. QED
    BY <1>3, <1>4, <2>1, <2>2, <2>3 DEF Settled
<1>15. ASSUME Parent[q] # None
       PROVE  /\ Parent[q] \in Above(q) /\ Parent[q] \in Paths /\ Parent[q] \notin Below(p)
              /\ q \notin Above(Parent[q]) /\ Parent[q] \in present
  <2>1. Parent[q] \in Above(q) /\ Parent[q] \in Paths /\ q \notin Above(Parent[q])
    BY <1>15, AboveIs, NotAboveParent
  <2>2. Parent[q] \notin Below(p)
    BY <1>1, <2>1, AboveTrans, BelowIs
  <2>3. QED
    BY <1>1, <1>4, <1>15, <2>1, <2>2 DEF IsDir
<1>16. ASSUME NEW r \in present'
       PROVE  /\ r \in Paths /\ r \notin Below(p)
              /\ q \notin Above(r) => r \in present
              /\ q \in Above(r) => \E s \in Here(p) : to[s] = r
  <2>1. r \in Paths /\ id'[r] # NoId /\ r \notin Below(p)
    BY <1>3, <1>7
  <2>2. ASSUME q \notin Above(r) PROVE r \in present
    <3>1. r \in Above(r) /\ id'[r] = id[r]
      BY <1>14, <2>1, <2>2, AboveIs
    <3>2. QED
      BY <1>4, <2>1, <3>1
  <2>3. ASSUME q \in Above(r), ~\E s \in Here(p) : to[s] = r PROVE FALSE
    <3>1. id'[r] = id[r]
      BY <1>7, <2>1, <2>3
    <3>2. r \in present
      BY <1>4, <2>1, <3>1
    <3>3. QED
      BY <1>4, <1>5, <2>3, <3>2, AbovePresent
  <2>4. QED
    BY <2>1, <2>2, <2>3
<1>17. FoldersAreTree'
  <2>1. ASSUME NEW r \in present', Parent[r] # None PROVE Parent[r] \in present'
    <3>1. r \in Paths /\ r \notin Below(p)
      BY <1>16
    <3>2. Parent[r] \in Above(r) /\ Parent[r] \in Paths
      BY <2>1, <3>1, AboveIs
    <3>3. Parent[r] \notin Below(p)
      BY <3>1, <3>2, AboveTrans, BelowIs
    <3>4. CASE q \notin Above(r)
      <4>1. Parent[r] \in present /\ q \notin Above(Parent[r])
        BY <1>4, <1>16, <2>1, <3>1, <3>2, <3>4, AboveTrans DEF FoldersAreTree
      <4>2. QED
        BY <1>14, <3>2, <3>3, <4>1
    <3>5. CASE q \in Above(r)
      <4>1. PICK s \in Here(p) : to[s] = r
        BY <1>16, <3>5
      <4>2. CASE s = p
        BY <1>2, <1>14, <1>15, <2>1, <4>1, <4>2
      <4>3. CASE s # p
        <5>1. s \in Paths /\ p \in Above(s) /\ s \in present
          BY <1>4, <1>8, BelowIs
        <5>2. Parent[s] \in Paths /\ p \in Above(Parent[s]) /\ Parent[s] # None
          BY <4>3, <5>1, AboveSplits, PathsAssumption
        <5>3. Parent[s] \in Here(p)
          BY <1>4, <5>1, <5>2, BelowIs DEF FoldersAreTree, Here, IsDir
        <5>4. to[Parent[s]] = Parent[r]
          BY <1>2, <4>1, <4>3 DEF SameNames
        <5>5. QED
          BY <1>3, <1>9, <3>2, <3>3, <5>3, <5>4
      <4>4. QED
        BY <4>2, <4>3
    <3>6. QED
      BY <3>4, <3>5
  <2>2. QED
    BY <1>3, <2>1 DEF FoldersAreTree
<1>18. ASSUME NEW r \in present' PROVE Settled(r) \/ Heard(r)' \/ ArrivesUnwatched(r)
  <2>1. r \in Paths /\ r \notin Below(p)
    BY <1>16
  <2>2. CASE q \notin Above(r)
    BY <1>14, <1>16, <2>1, <2>2
  <2>3. CASE q \in Above(r) /\ Watched(Parent[q])
    BY <1>6, <2>3 DEF Heard, Above, Lineage
  <2>4. CASE q \in Above(r) /\ ~Watched(Parent[q])
    <3>1. Parent[q] # None
      BY <2>4 DEF Watched
    <3>2. Parent[q] \in Above(r) /\ Settled(Parent[q])
      BY <1>14, <1>15, <2>1, <2>4, <3>1, AboveTrans
    <3>3. QED
      BY <2>4, <3>2 DEF ArrivesUnwatched
  <2>5. QED
    BY <2>2, <2>3, <2>4
<1>19. FoldersReached' /\ PassCovers'
  BY <1>3, <1>18, ArrivalsKeep
<1>20. RecordsHold'
  <2>1. CASE Watched(Parent[p])
    <3>1. {p} \in SUBSET Paths /\ Forgets({p}, queues')
      BY <1>2, <1>3, <2>1
    <3>2. /\ outdated \subseteq outdated'
          /\ \A r \in Paths : Marked(r) \/ Above(r) \cap {p} # {} => Marked(r)' \/ r \in outdated'
      BY <1>3, <3>1, ForgetsTells
    <3>3. \A r \in Below(p) : Above(r) \cap {p} # {}
      BY BelowIs
    <3>4. QED
      BY <1>3, <1>11, <3>2, <3>3, DropsKeepRecords DEF WorkerIdles
  <2>2. CASE ~Watched(Parent[p])
    <3>1. outdated' = outdated
      BY <1>2, <2>2
    <3>2. QED
      BY <1>3, <1>6, <1>11, <2>2, <3>1, DropsKeepRecords DEF WorkerIdles
  <2>3. QED
    BY <2>1, <2>2
<1>21. QED
  BY <1>6, <1>13, <1>17, <1>19, <1>20 DEF FoldersInv

-----------------------------------------------------------------------------
(* Delivery, and what gets lost. *)

LEMMA DeliverStep ==
    ASSUME FoldersInv, NEW ps \in SUBSET Paths, Deliver(ps)
    PROVE  FoldersInv'
<1>1. /\ inbox' = inbox \cup {x \in InQueues(queues) : x[1] \in ps}
      /\ queues' = [q \in Paths |-> IF q \in ps THEN <<>> ELSE queues[q]]
      /\ WorkerIdles /\ UNCHANGED <<present, id, watch, outdated>>
  BY DEF Deliver, WorkerIdles, kernel, believed, walking
<1>2. /\ queues \in [Paths -> Seq(Event)] /\ inbox \in SUBSET (Paths \X Event)
      /\ QueuesLead /\ FoldersAreTree /\ present \subseteq Paths
  BY DEF FoldersInv, FoldersTyped, FoldersAreTree
<1>3. InQueues(queues) \in SUBSET (Paths \X Event)
  BY <1>2 DEF InQueues
<1>4. queues' \in [Paths -> Seq(Event)] /\ inbox' \in SUBSET (Paths \X Event)
  BY <1>1, <1>2, <1>3
<1>5. FoldersTyped'
  BY <1>1, <1>4 DEF FoldersInv, FoldersTyped, WorkerIdles
<1>6. QueuesLead'
  BY <1>1, <1>2 DEF QueuesLead, Leads
<1>7. FoldersAreTree'
  BY <1>1, <1>2 DEF FoldersAreTree
<1>8. ASSUME NEW q \in Paths, Speaks(q) PROVE Speaks(q)'
  <2>1. CASE \E x \in inbox : x[1] = q /\ x[2].kind # "access"
    BY <1>1, <2>1 DEF Speaks
  <2>2. CASE NamesItself(queues[q]) /\ q \notin ps
    BY <1>1, <2>2 DEF Speaks
  <2>3. CASE NamesItself(queues[q]) /\ q \in ps
    <3>1. PICK i \in 1..Len(queues[q]) : queues[q][i].kind # "access"
      BY <2>3 DEF NamesItself
    <3>2. i \in DOMAIN queues[q]
      BY <1>2, <3>1
    <3>3. <<q, queues[q][i]>> \in inbox'
      BY <1>1, <2>3, <3>2 DEF InQueues
    <3>4. QED
      BY <3>1, <3>3 DEF Speaks
  <2>4. QED
    BY <1>8, <2>1, <2>2, <2>3 DEF Speaks
<1>9. ASSUME NEW p \in present PROVE Settled(p)
  BY <1>1, <1>2, <1>8, <1>9, AboveIs DEF Settled, Heard, Above, Lineage
<1>10. FoldersReached' /\ PassCovers'
  BY <1>1, <1>2, <1>9, ArrivalsKeep
<1>11. InQueues(queues) \subseteq InQueues(queues') \cup inbox'
  <2>1. ASSUME NEW q \in Paths, NEW i \in DOMAIN queues[q]
        PROVE  <<q, queues[q][i]>> \in InQueues(queues') \cup inbox'
    <3>1. <<q, queues[q][i]>> \in InQueues(queues)
      BY DEF InQueues
    <3>2. CASE q \in ps
      BY <1>1, <3>1, <3>2
    <3>3. CASE q \notin ps
      <4>1. queues'[q] = queues[q]
        BY <1>1, <3>3
      <4>2. QED
        BY <4>1 DEF InQueues
    <3>4. QED
      BY <3>2, <3>3
  <2>2. QED
    BY <2>1 DEF InQueues
<1>12. \A p \in Paths : Marked(p) => Marked(p)'
  <2>1. RemovedNames(InQueues(queues)) \subseteq RemovedNames(InQueues(queues') \cup inbox')
    BY <1>11, RemovedNamesGrow
  <2>2. RemovedNames(InQueues(queues') \cup inbox')
          = RemovedNames(InQueues(queues')) \cup RemovedNames(inbox')
    BY RemovedNamesGrow
  <2>3. inbox \subseteq inbox'
    BY <1>1
  <2>4. RemovedNames(inbox) \subseteq RemovedNames(inbox')
    BY <2>3, RemovedNamesGrow
  <2>5. QED
    BY <2>1, <2>2, <2>4, MarkedIs
<1>13. RecordsHold'
  BY <1>1, <1>12, DropsKeepRecords DEF WorkerIdles
<1>14. QED
  BY <1>5, <1>6, <1>7, <1>10, <1>13 DEF FoldersInv

LEMMA LoseEventsStep ==
    ASSUME FoldersInv, NEW ps \in SUBSET Paths, LoseEvents(ps)
    PROVE  FoldersInv'
<1>1. /\ lost' = TRUE /\ inbox' \in {inbox, {}}
      /\ queues' = [q \in Paths |-> IF q \in ps THEN <<>> ELSE queues[q]]
      /\ UNCHANGED <<present, id, watch, outdated>>
      /\ UNCHANGED <<registered, current, again, step, agenda, at, denied>>
  BY DEF LoseEvents, kernel, believed, walking
<1>2. /\ queues \in [Paths -> Seq(Event)] /\ QueuesLead
  BY DEF FoldersInv, FoldersTyped
<1>3. queues' \in [Paths -> Seq(Event)]
  BY <1>1, <1>2
<1>4. FoldersTyped'
  BY <1>1, <1>3 DEF FoldersInv, FoldersTyped
<1>5. QueuesLead'
  BY <1>1, <1>2 DEF QueuesLead, Leads
<1>6. FoldersAreTree'
  BY <1>1 DEF FoldersInv, FoldersAreTree
<1>7. RecordsHold'
  BY <1>1 DEF FoldersInv, RecordsHold, RecordHolds
<1>8. FoldersReached' /\ PassCovers'
  BY <1>1 DEF FoldersReached, PassCovers, FolderReached, FolderCovered, Told
<1>9. QED
  BY <1>4, <1>5, <1>6, <1>7, <1>8 DEF FoldersInv

-----------------------------------------------------------------------------
(* The worker between two passes. *)

(* A pass that begins comes to every folder.                               *)
LEMMA BegunCovers ==
    ASSUME step' = "list", at' = Nowhere
    PROVE  FoldersReached' /\ PassCovers'
<1>1. \A p : WalkAhead(p)'
  BY DEF WalkAhead, Nowhere
<1>2. QED
  BY <1>1 DEF FoldersReached, PassCovers, FolderReached, FolderCovered, Told

(* What the worker does leaves the disk and the queues alone.              *)
DiskIdles == UNCHANGED <<present, id, queues>>

LEMMA DiskKeeps ==
    ASSUME FoldersInv, DiskIdles
    PROVE  QueuesLead' /\ FoldersAreTree'
BY DEF FoldersInv, DiskIdles, QueuesLead, FoldersAreTree

(* An event that the worker may leave names no folder that exists.         *)
LEMMA RequiredOfPresent ==
    ASSUME FoldersInv, NEW p \in present, NEW x \in Pending, ~Requires(x[1], x[2])
    PROVE  /\ x[1] \in Above(p) => x[2].kind = "access"
           /\ Above(p) \cap RemovedBy(x[1], x[2]) = {}
<1>1. p \in Paths /\ \A q \in Above(p) : q \in Paths /\ IsDir(q)
  BY AbovePresent, AboveIs DEF FoldersInv, IsDir
<1>2. \A q \in Names(x[1], x[2]) : q \notin Above(p)
  BY <1>1 DEF Requires
<1>3. x[1] \in Above(p) => x[2].kind = "access"
  BY <1>2 DEF Names
<1>4. \A q \in RemovedBy(x[1], x[2]) : q \in Names(x[1], x[2]) \/ q = None
  BY DEF RemovedBy, Names, IsBoth
<1>5. QED
  BY <1>1, <1>2, <1>3, <1>4

LEMMA ProcessEventsStep ==
    ASSUME FoldersInv, ProcessEvents
    PROVE  FoldersInv'
<1> DEFINE gone == Forgotten(RemovedNames(inbox))
           wants == \E x \in inbox : Requires(x[1], x[2])
<1>1. /\ step = "idle" /\ ~lost /\ inbox' = {}
      /\ registered' = [p \in Paths |-> IF p \in gone THEN NoId ELSE registered[p]]
      /\ watch' = [p \in Paths |-> IF p \in gone THEN NoId ELSE watch[p]]
      /\ wants => BeginPass
      /\ ~wants => UNCHANGED <<step, at, current, agenda, denied>>
      /\ DiskIdles /\ UNCHANGED <<again, lost, failed, outdated>>
  BY DEF ProcessEvents, DiskIdles, vars
<1>2. \A p \in Paths : p \in gone <=> registered[p] # NoId /\ Above(p) \cap RemovedNames(inbox) # {}
  BY DEF Forgotten
<1> HIDE DEF gone
<1>3. /\ watch \in [Paths -> Ids \cup {NoId}] /\ registered \in [Paths -> Ids \cup {NoId}]
      /\ FoldersAreTree /\ present \subseteq Paths
  BY DEF FoldersInv, FoldersTyped, FoldersAreTree
<1>4. /\ watch' \in [Paths -> Ids \cup {NoId}] /\ registered' \in [Paths -> Ids \cup {NoId}]
      /\ \A p \in Paths : /\ watch'[p] = IF p \in gone THEN NoId ELSE watch[p]
                          /\ registered'[p] = IF p \in gone THEN NoId ELSE registered[p]
  BY <1>1, <1>3
<1>5. FoldersTyped'
  <2>1. CASE wants
    BY <1>1, <1>4, <2>1 DEF FoldersInv, FoldersTyped, BeginPass, DiskIdles, Nowhere
  <2>2. CASE ~wants
    BY <1>1, <1>4, <2>2 DEF FoldersInv, FoldersTyped, DiskIdles
  <2>3. QED
    BY <2>1, <2>2
<1>6. RecordsHold'
  <2>1. ASSUME NEW p \in Paths, registered'[p] # NoId PROVE RecordHolds(p)'
    <3>1. /\ p \notin gone /\ watch'[p] = watch[p] /\ registered'[p] = registered[p]
      BY <1>4, <2>1
    <3>2. Marked(p) => Marked(p)'
      BY <1>1, <1>2, <2>1, <3>1, MarkedIs DEF DiskIdles
    <3>3. p \notin current => p \notin current'
      BY <1>1 DEF BeginPass
    <3>4. RecordHolds(p)
      BY DEF FoldersInv, RecordsHold
    <3>5. QED
      BY <1>1, <3>1, <3>2, <3>3, <3>4 DEF RecordHolds
  <2>2. QED
    BY <2>1 DEF RecordsHold, RecordHolds
<1>7. FoldersReached' /\ PassCovers'
  <2>1. CASE wants
    BY <1>1, <2>1, BegunCovers DEF BeginPass
  <2>2. CASE ~wants
    <3>1. step' = "idle"
      BY <1>1, <2>2
    <3>2. ASSUME NEW p \in present PROVE FolderReached(p)'
      <4>1. p \in Paths /\ p \in Above(p) /\ p # None
        BY <1>3, AboveIs
      <4>2. \A x \in inbox : /\ x[1] \in Above(p) => x[2].kind = "access"
                             /\ Above(p) \cap RemovedBy(x[1], x[2]) = {}
        BY <2>2, RequiredOfPresent DEF Pending
      <4>3. Above(p) \cap RemovedNames(inbox) = {}
        BY <4>2 DEF RemovedNames
      <4>4. ASSUME NEW q \in Above(p)
            PROVE  watch'[q] = watch[q] /\ registered'[q] = registered[q]
        <5>1. q \in Paths /\ Above(q) \subseteq Above(p)
          BY <4>1, AboveTrans
        <5>2. q \notin gone
          BY <1>2, <4>3, <5>1
        <5>3. QED
          BY <1>4, <5>1, <5>2
      <4>5. Heard(p) => Heard(p)'
        BY <1>1, <4>2 DEF Heard, Speaks, DiskIdles, Above, Lineage
      <4>6. Watched(p) => Watched(p)'
        BY <1>1, <4>1, <4>4 DEF Watched, DiskIdles
      <4>7. WalkAhead(p) => WalkAhead(p)'
        BY <1>1, <2>2 DEF WalkAhead, Above, Lineage
      <4>8. Told(p) => Told(p)'
        BY <1>1, <2>2, <4>5, <4>7 DEF Told, Above, Lineage
      <4>9. Misled(p) => Misled(p)'
        BY <1>1, <2>2, <4>4 DEF Misled, IsWrong, DiskIdles, Above, Lineage
      <4>10. FolderReached(p)
        BY DEF FoldersInv, FoldersReached
      <4>11. QED
        BY <1>1, <3>1, <4>6, <4>8, <4>9, <4>10 DEF FolderReached
    <3>3. QED
      BY <1>1, <3>1, <3>2 DEF FoldersReached, PassCovers, DiskIdles
  <2>3. QED
    BY <2>1, <2>2
<1>8. QED
  BY <1>1, <1>5, <1>6, <1>7, DiskKeeps DEF FoldersInv

(* Nothing is pushed or delivered while the worker acts.                   *)
LEMMA FeedKeeps ==
    ASSUME DiskIdles, inbox' = inbox
    PROVE  /\ \A q : Speaks(q) => Speaks(q)'
           /\ \A p : (Heard(p) => Heard(p)') /\ (Marked(p) => Marked(p)')
<1>1. \A q : Speaks(q) => Speaks(q)'
  BY DEF DiskIdles, Speaks
<1>2. \A p : Heard(p) => Heard(p)'
  BY <1>1 DEF Heard, Above, Lineage
<1>3. \A p : Marked(p) => Marked(p)'
  BY DEF DiskIdles, Marked, Pending, Above, Lineage
<1>4. QED
  BY <1>1, <1>2, <1>3

(* The records stay while no pass takes a folder of one into its           *)
(* generation.                                                             *)
LEMMA RecordsStay ==
    ASSUME FoldersInv, DiskIdles, UNCHANGED <<inbox, watch, registered, outdated>>,
           current' \subseteq current,
           UNCHANGED <<again, lost>> \/ (again' = TRUE /\ current' = {})
    PROVE  RecordsHold'
<1>1. SUFFICES ASSUME NEW p \in Paths PROVE RecordHolds(p)'
  BY DEF RecordsHold
<1>2. RecordHolds(p) /\ (Marked(p) => Marked(p)')
  BY FeedKeeps DEF FoldersInv, RecordsHold
<1>3. QED
  BY <1>2 DEF RecordHolds

LEMMA BeginStep ==
    ASSUME FoldersInv, Reconcile \/ Retry
    PROVE  FoldersInv'
<1>1. /\ step' = "list" /\ at' = Nowhere /\ current' = {} /\ agenda' = {} /\ denied' = {}
      /\ DiskIdles /\ UNCHANGED <<inbox, watch, registered, outdated>>
      /\ UNCHANGED <<again, lost>> \/ again' = TRUE
  BY DEF Reconcile, Retry, BeginPass, DiskIdles, vars, kernel, feed
<1>2. FoldersTyped'
  BY <1>1 DEF FoldersInv, FoldersTyped, DiskIdles
<1>3. RecordsHold'
  BY <1>1, RecordsStay
<1>4. FoldersReached' /\ PassCovers'
  BY <1>1, BegunCovers
<1>5. QED
  BY <1>1, <1>2, <1>3, <1>4, DiskKeeps DEF FoldersInv

-----------------------------------------------------------------------------
(* The steps of a pass. *)

(* A pass that ends in a failure is tried again.                           *)
LEMMA FailStep ==
    ASSUME FoldersInv, Fail, DiskIdles,
           UNCHANGED <<inbox, watch, registered, again, lost, denied, outdated>>
    PROVE  FoldersInv'
<1>1. FoldersTyped'
  BY DEF Fail, FoldersInv, FoldersTyped, DiskIdles
<1>2. RecordsHold'
  BY RecordsStay DEF Fail
<1>3. FoldersReached' /\ PassCovers'
  BY DEF Fail, FoldersReached, PassCovers, FolderReached
<1>4. QED
  BY <1>1, <1>2, <1>3, DiskKeeps DEF FoldersInv

LEMMA VanishedStep ==
    ASSUME FoldersInv, NEW known \in BOOLEAN, Vanished(known), DiskIdles,
           UNCHANGED <<inbox, watch, registered, again, lost, denied, outdated>>
    PROVE  FoldersInv'
<1>1. CASE Fail
  BY <1>1, FailStep
<1>2. CASE ~Fail
  <2>1. step' = "list" /\ at' = Nowhere /\ current' = {} /\ agenda' = {}
    BY <1>2 DEF Vanished
  <2>2. FoldersTyped'
    BY <2>1 DEF FoldersInv, FoldersTyped, DiskIdles
  <2>3. RecordsHold'
    BY <2>1, RecordsStay
  <2>4. QED
    BY <2>1, <2>2, <2>3, BegunCovers, DiskKeeps DEF FoldersInv
<1>3. QED
  BY <1>1, <1>2

LEMMA ListStep ==
    ASSUME FoldersInv, List
    PROVE  FoldersInv'
<1>1. /\ step = "list" /\ step' = "walk" /\ at' = Nowhere
      /\ agenda' = agenda \cup {q \in Children(at.path) : IsDir(q)}
      /\ DiskIdles
      /\ UNCHANGED <<inbox, watch, registered, current, again, lost, denied, failed, outdated>>
  BY DEF List, DiskIdles, vars, kernel, believed, feed
<1>2. FoldersTyped'
  BY <1>1 DEF FoldersInv, FoldersTyped, DiskIdles, Children
<1>3. RecordsHold'
  BY <1>1, RecordsStay
<1>4. ASSUME NEW p \in present PROVE FolderReached(p)' /\ FolderCovered(p)'
  <2>1. p \in Paths /\ p \in Above(p) /\ p # None /\ \A q \in Above(p) : q \in Paths /\ IsDir(q)
    BY AbovePresent, AboveIs DEF FoldersInv, IsDir
  <2>2. ASSUME WalkAhead(p) PROVE WalkAhead(p)'
    <3>1. CASE Above(p) \cap agenda # {}
      BY <1>1, <3>1 DEF WalkAhead, Above, Lineage
    <3>2. CASE at.path \in (Above(p) \ {p}) \cup {None}
      <4>1. PICK b \in Above(p) : Parent[b] = at.path
        BY <2>1, <3>2, AboveHasChild, AboveIs
      <4>2. b \in agenda'
        BY <1>1, <2>1, <4>1 DEF Children
      <4>3. QED
        BY <1>1, <4>2 DEF WalkAhead, Above, Lineage
    <3>3. QED
      BY <1>1, <2>2, <3>1, <3>2 DEF WalkAhead
  <2>3. Told(p) => Told(p)'
    BY <1>1, <2>2, FeedKeeps DEF Told, Above, Lineage
  <2>4. (Misled(p) => Misled(p)') /\ (MisledInPass(p) => MisledInPass(p)')
    BY <1>1 DEF Misled, MisledInPass, IsWrong, DiskIdles, Above, Lineage
  <2>5. Watched(p) => Watched(p)'
    BY <1>1, <2>1 DEF Watched, DiskIdles
  <2>6. FolderReached(p) /\ FolderCovered(p)
    BY <1>1 DEF FoldersInv, FoldersReached, PassCovers
  <2>7. QED
    BY <1>1, <2>3, <2>4, <2>5, <2>6 DEF FolderReached, FolderCovered
<1>5. FoldersReached' /\ PassCovers'
  BY <1>1, <1>4 DEF FoldersReached, PassCovers, DiskIdles
<1>6. QED
  BY <1>1, <1>2, <1>3, <1>5, DiskKeeps DEF FoldersInv

LEMMA LookStep ==
    ASSUME FoldersInv, NEW f \in Paths, Look(f)
    PROVE  FoldersInv'
<1>1. /\ step = "walk" /\ f \in agenda /\ f # None
      /\ DiskIdles /\ UNCHANGED <<inbox, again, lost, denied, outdated>>
  BY DEF Look, DiskIdles, vars, feed
<1>2. CASE ~IsDir(f)
  <2>1. Vanished(registered[f] # NoId) /\ UNCHANGED <<watch, registered>>
    BY <1>2 DEF Look
  <2>2. (registered[f] # NoId) \in BOOLEAN
    OBVIOUS
  <2>3. QED
    BY <1>1, <2>1, <2>2, VanishedStep
<1>3. CASE IsDir(f)
  <2> DEFINE remade == registered[f] # NoId /\ registered[f] # id[f]
             known  == registered[f] = id[f] /\ ~again
  <2>1. /\ agenda' = agenda \ {f} /\ at' = [path |-> f, id |-> id[f]]
        /\ step' = (IF known THEN "list" ELSE "watch")
        /\ current' = (IF known THEN current \cup {f} ELSE current)
        /\ registered' = (IF remade THEN [registered EXCEPT ![f] = NoId] ELSE registered)
        /\ watch' = (IF remade THEN [watch EXCEPT ![f] = NoId] ELSE watch)
        /\ UNCHANGED failed
    BY <1>3 DEF Look
  <2>2. /\ watch \in [Paths -> Ids \cup {NoId}] /\ registered \in [Paths -> Ids \cup {NoId}]
        /\ id \in [Paths -> Ids \cup {NoId}] /\ id[f] # NoId
    BY <1>1, <1>3 DEF FoldersInv, FoldersTyped, IsDir
  <2>3. /\ watch' \in [Paths -> Ids \cup {NoId}] /\ registered' \in [Paths -> Ids \cup {NoId}]
        /\ \A p \in Paths : p # f => watch'[p] = watch[p] /\ registered'[p] = registered[p]
        /\ remade => registered'[f] = NoId
        /\ ~remade => watch' = watch /\ registered' = registered
    BY <2>1, <2>2
  <2>4. FoldersTyped'
    <3>1. at' \in [path : Paths, id : Ids] /\ at'.path = f
      BY <2>1, <2>2
    <3>2. agenda' \in SUBSET Paths /\ current' \in SUBSET Paths
      BY <2>1 DEF FoldersInv, FoldersTyped
    <3>3. QED
      BY <1>1, <2>1, <2>3, <3>1, <3>2 DEF FoldersInv, FoldersTyped, DiskIdles
  <2>5. RecordsHold'
    <3>1. ASSUME NEW p \in Paths, registered'[p] # NoId PROVE RecordHolds(p)'
      <4>1. registered'[p] = registered[p] /\ watch'[p] = watch[p]
        BY <2>3, <3>1
      <4>2. again /\ p \notin current => p \notin current'
        BY <2>1
      <4>3. RecordHolds(p) /\ (Marked(p) => Marked(p)')
        BY <1>1, FeedKeeps DEF FoldersInv, RecordsHold
      <4>4. QED
        BY <1>1, <4>1, <4>2, <4>3 DEF RecordHolds
    <3>2. QED
      BY <3>1 DEF RecordsHold, RecordHolds
  <2>6. current \subseteq current'
    BY <2>1
  <2>7. ASSUME NEW p \in present PROVE FolderReached(p)' /\ FolderCovered(p)'
    <3>1. p \in Paths /\ p \in Above(p) /\ p # None /\ Above(p) \subseteq Paths
      BY AbovePresent, AboveIs DEF FoldersInv
    <3>2. FolderReached(p) /\ FolderCovered(p)
      BY <1>1 DEF FoldersInv, FoldersReached, PassCovers
    <3>3. \A q \in Above(p) : IsWrong(q) => IsWrong(q)'
      BY <1>1, <2>3, <3>1 DEF IsWrong, DiskIdles
    <3>4. (Misled(p) => Misled(p)') /\ (MisledInPass(p) => MisledInPass(p)')
      BY <1>1, <2>6, <3>3 DEF Misled, MisledInPass, Above, Lineage
    <3>5. CASE f \in Above(p) /\ ~(known /\ p = f)
      <4>1. WalkAhead(p)'
        BY <2>1, <3>5 DEF WalkAhead, Above, Lineage
      <4>2. QED
        BY <4>1 DEF FolderReached, FolderCovered, Told
    <3>6. CASE known /\ p = f
      <4>1. p \in current' /\ watch' = watch /\ registered' = registered
        BY <2>1, <2>2, <2>3, <3>6
      <4>2. Watched(p)' \/ IsWrong(p)'
        BY <1>1, <2>2, <3>1, <3>6, <4>1 DEF Watched, IsWrong, DiskIdles
      <4>3. IsWrong(p)' => Misled(p)'
        BY <3>1, <4>1 DEF Misled, Above, Lineage
      <4>4. QED
        BY <4>1, <4>2, <4>3 DEF FolderReached, FolderCovered
    <3>7. CASE f \notin Above(p)
      <4>1. WalkAhead(p) => WalkAhead(p)'
        BY <1>1, <2>1, <3>7 DEF WalkAhead, Above, Lineage
      <4>2. Told(p) => Told(p)'
        BY <1>1, <4>1, FeedKeeps DEF Told, Above, Lineage
      <4>3. Watched(p) => Watched(p)'
        BY <1>1, <2>3, <3>1, <3>7 DEF Watched, DiskIdles
      <4>4. QED
        BY <1>1, <2>6, <3>2, <3>4, <4>2, <4>3 DEF FolderReached, FolderCovered
    <3>8. QED
      BY <3>5, <3>6, <3>7
  <2>8. FoldersReached' /\ PassCovers'
    BY <1>1, <2>7 DEF FoldersReached, PassCovers, DiskIdles
  <2>9. QED
    BY <1>1, <2>4, <2>5, <2>8, DiskKeeps DEF FoldersInv
<1>4. QED
  BY <1>2, <1>3

LEMMA WatchFolderStep ==
    ASSUME FoldersInv, WatchFolder
    PROVE  FoldersInv'
<1>0. PICK f \in Paths : f = at.path
  BY DEF WatchFolder, FoldersInv, FoldersTyped
<1>1. /\ step = "watch" /\ IsDir(f) /\ step' = "list" /\ at' = at /\ agenda' = agenda
      /\ watch' = [watch EXCEPT ![f] = id[f]]
      /\ registered' = [registered EXCEPT ![f] = at.id]
      /\ current' = current \cup {f} /\ denied' = denied \ {f}
      /\ outdated' = (IF at.id = id[f] THEN outdated \ {f} ELSE outdated \cup {f})
      /\ DiskIdles /\ UNCHANGED <<inbox, again, lost, failed>>
  BY <1>0 DEF WatchFolder, DiskIdles, vars, feed
<1>2. /\ f # None /\ at \in [path : Paths, id : Ids] /\ at.id \in Ids
      /\ watch \in [Paths -> Ids \cup {NoId}] /\ registered \in [Paths -> Ids \cup {NoId}]
      /\ id \in [Paths -> Ids \cup {NoId}]
  BY <1>1, <1>0 DEF FoldersInv, FoldersTyped, Nowhere
<1>3. id[f] # NoId
  BY <1>1, <1>2 DEF IsDir
<1>4. /\ watch' \in [Paths -> Ids \cup {NoId}] /\ registered' \in [Paths -> Ids \cup {NoId}]
      /\ watch'[f] = id[f] /\ registered'[f] = at.id
      /\ \A p \in Paths : p # f => watch'[p] = watch[p] /\ registered'[p] = registered[p]
  BY <1>1, <1>2
<1>5. FoldersTyped'
  BY <1>1, <1>2, <1>4 DEF FoldersInv, FoldersTyped, DiskIdles
<1>6. RecordsHold'
  <2>1. RecordHolds(f)'
    BY <1>1, <1>4 DEF RecordHolds
  <2>2. ASSUME NEW p \in Paths, p # f PROVE RecordHolds(p)'
    <3>1. registered'[p] = registered[p] /\ watch'[p] = watch[p]
      BY <1>4, <2>2
    <3>2. (p \in outdated => p \in outdated') /\ (p \notin current => p \notin current')
      BY <1>1, <2>2
    <3>3. RecordHolds(p) /\ (Marked(p) => Marked(p)')
      BY <1>1, FeedKeeps DEF FoldersInv, RecordsHold
    <3>4. QED
      BY <1>1, <3>1, <3>2, <3>3 DEF RecordHolds
  <2>3. QED
    BY <2>1, <2>2 DEF RecordsHold
<1>7. ASSUME NEW p \in present PROVE FolderReached(p)' /\ FolderCovered(p)'
  <2>1. p \in Paths /\ p \in Above(p) /\ p # None /\ Above(p) \subseteq Paths
    BY AbovePresent, AboveIs DEF FoldersInv
  <2>2. CASE p = f
    <3>1. Watched(p)' /\ p \in current'
      BY <1>1, <1>3, <1>4, <2>1, <2>2 DEF Watched, DiskIdles
    <3>2. QED
      BY <3>1 DEF FolderReached, FolderCovered
  <2>3. CASE p # f /\ f \in Above(p)
    <3>1. WalkAhead(p)'
      BY <1>1, <1>0, <2>3 DEF WalkAhead, Above, Lineage
    <3>2. QED
      BY <3>1 DEF FolderReached, FolderCovered, Told
  <2>4. CASE f \notin Above(p)
    <3>1. FolderReached(p) /\ FolderCovered(p)
      BY <1>1 DEF FoldersInv, FoldersReached, PassCovers
    <3>2. \A q \in Above(p) : IsWrong(q) => IsWrong(q)'
      BY <1>1, <1>4, <2>1, <2>4 DEF IsWrong, DiskIdles
    <3>3. (Misled(p) => Misled(p)') /\ (MisledInPass(p) => MisledInPass(p)')
      BY <1>1, <3>2 DEF Misled, MisledInPass, Above, Lineage
    <3>4. WalkAhead(p) => WalkAhead(p)'
      BY <1>1, <1>0, <2>4 DEF WalkAhead, Above, Lineage
    <3>5. Told(p) => Told(p)'
      BY <1>1, <2>4, <3>4, FeedKeeps DEF Told, Above, Lineage
    <3>6. Watched(p) => Watched(p)'
      BY <1>1, <1>4, <2>1, <2>4 DEF Watched, DiskIdles
    <3>7. QED
      BY <1>1, <3>1, <3>3, <3>5, <3>6 DEF FolderReached, FolderCovered
  <2>5. QED
    BY <2>2, <2>3, <2>4
<1>8. FoldersReached' /\ PassCovers'
  BY <1>1, <1>7 DEF FoldersReached, PassCovers, DiskIdles
<1>9. QED
  BY <1>1, <1>5, <1>6, <1>8, DiskKeeps DEF FoldersInv

LEMMA WatchMissedStep ==
    ASSUME FoldersInv, WatchVanished \/ WatchDenied \/ WatchFails
    PROVE  FoldersInv'
<1>1. DiskIdles /\ UNCHANGED <<inbox, watch, registered, again, lost, outdated>>
  BY DEF WatchVanished, WatchDenied, WatchFails, DiskIdles, vars, kernel, believed, feed
<1>2. CASE WatchVanished
  <2>1. Vanished(TRUE) /\ denied' = denied
    BY <1>2 DEF WatchVanished
  <2>2. QED
    BY <1>1, <2>1, VanishedStep
<1>3. CASE WatchFails
  <2>1. Fail /\ denied' = denied
    BY <1>3 DEF WatchFails
  <2>2. QED
    BY <1>1, <2>1, FailStep
<1>4. CASE WatchDenied
  <2>1. /\ step = "watch" /\ step' = "walk" /\ at' = Nowhere /\ denied' = denied \cup {at.path}
        /\ UNCHANGED <<current, agenda, failed>>
    BY <1>4 DEF WatchDenied, believed
  <2>2. FoldersTyped'
    BY <1>1, <2>1 DEF FoldersInv, FoldersTyped, DiskIdles
  <2>3. RecordsHold'
    BY <1>1, <2>1, RecordsStay
  <2>4. ASSUME NEW p \in present PROVE FolderReached(p)' /\ FolderCovered(p)'
    <3>1. p \in Paths /\ p # None
      BY AbovePresent DEF FoldersInv
    <3>2. FolderReached(p) /\ FolderCovered(p)
      BY <2>1 DEF FoldersInv, FoldersReached, PassCovers
    <3>3. WalkAhead(p) => Told(p)'
      BY <2>1 DEF WalkAhead, Told, Above, Lineage
    <3>4. Told(p) => Told(p)'
      BY <1>1, <2>1, <3>3, FeedKeeps DEF Told, Above, Lineage
    <3>5. (Misled(p) => Misled(p)') /\ (MisledInPass(p) => MisledInPass(p)')
      BY <1>1, <2>1 DEF Misled, MisledInPass, IsWrong, DiskIdles, Above, Lineage
    <3>6. Watched(p) => Watched(p)'
      BY <1>1, <3>1 DEF Watched, DiskIdles
    <3>7. QED
      BY <2>1, <3>2, <3>4, <3>5, <3>6 DEF FolderReached, FolderCovered
  <2>5. FoldersReached' /\ PassCovers'
    BY <1>1, <2>4 DEF FoldersReached, PassCovers, DiskIdles
  <2>6. QED
    BY <1>1, <2>2, <2>3, <2>5, DiskKeeps DEF FoldersInv
<1>5. QED
  BY <1>2, <1>3, <1>4

LEMMA SweepStep ==
    ASSUME FoldersInv, NEW kept \in SUBSET Paths, Sweep(kept)
    PROVE  FoldersInv'
<1> DEFINE stale == {p \in Paths : registered[p] # NoId} \ current
<1>1. /\ step = "walk" /\ agenda = {} /\ again' = FALSE /\ step' = "idle"
      /\ kept \subseteq {p \in stale : IsDir(p) /\ watch[p] # NoId}
      /\ registered' = [p \in Paths |-> IF p \in stale \ kept THEN NoId ELSE registered[p]]
      /\ watch' = [p \in Paths |-> IF p \in stale \ kept THEN NoId ELSE watch[p]]
      /\ DiskIdles /\ UNCHANGED <<inbox, current, agenda, at, denied, lost, outdated>>
      /\ failed' \in BOOLEAN
  BY DEF Sweep, DiskIdles, vars, feed
<1>2. \A p \in Paths : p \in stale <=> registered[p] # NoId /\ p \notin current
  OBVIOUS
<1>3. \A p \in kept : p \in stale /\ watch[p] # NoId
  BY <1>1
<1> HIDE DEF stale
<1>4. watch \in [Paths -> Ids \cup {NoId}] /\ registered \in [Paths -> Ids \cup {NoId}]
  BY DEF FoldersInv, FoldersTyped
<1>5. /\ watch' \in [Paths -> Ids \cup {NoId}] /\ registered' \in [Paths -> Ids \cup {NoId}]
      /\ \A p \in Paths : /\ watch'[p] = IF p \in stale \ kept THEN NoId ELSE watch[p]
                          /\ registered'[p] = IF p \in stale \ kept THEN NoId ELSE registered[p]
  BY <1>1, <1>4
<1>6. FoldersTyped'
  BY <1>1, <1>5 DEF FoldersInv, FoldersTyped, DiskIdles
<1>7. RecordsHold'
  <2>1. ASSUME NEW p \in Paths, registered'[p] # NoId PROVE RecordHolds(p)'
    <3>1. registered'[p] = registered[p] /\ watch'[p] = watch[p] /\ p \notin stale \ kept
      BY <1>5, <2>1
    <3>2. p \notin current => watch[p] # NoId
      BY <1>2, <1>3, <2>1, <3>1
    <3>3. RecordHolds(p) /\ (Marked(p) => Marked(p)')
      BY <1>1, FeedKeeps DEF FoldersInv, RecordsHold
    <3>4. QED
      BY <1>1, <2>1, <3>1, <3>2, <3>3 DEF RecordHolds
  <2>2. QED
    BY <2>1 DEF RecordsHold, RecordHolds
<1>8. ASSUME NEW p \in present PROVE FolderReached(p)'
  <2>1. p \in Paths /\ p # None /\ Above(p) \subseteq Paths
    BY AbovePresent, AboveIs DEF FoldersInv
  <2>2. \A q \in Above(p) \cap current : watch'[q] = watch[q] /\ registered'[q] = registered[q]
    BY <1>2, <1>5, <2>1
  <2>3. CASE p \in current /\ Watched(p)
    <3>1. p \in Above(p)
      BY <2>1, AboveIs
    <3>2. Watched(p)'
      BY <1>1, <2>1, <2>2, <2>3, <3>1 DEF Watched, DiskIdles
    <3>3. QED
      BY <3>2 DEF FolderReached
  <2>4. CASE Told(p)
    <3>1. ~WalkAhead(p)
      BY <1>1 DEF WalkAhead
    <3>2. Told(p)'
      BY <1>1, <2>4, <3>1, FeedKeeps DEF Told, Above, Lineage
    <3>3. QED
      BY <3>2 DEF FolderReached
  <2>5. CASE MisledInPass(p)
    <3>1. PICK q \in Above(p) : IsWrong(q) /\ q \in current
      BY <2>5 DEF MisledInPass
    <3>2. IsWrong(q)'
      BY <1>1, <2>2, <3>1 DEF IsWrong, DiskIdles
    <3>3. Misled(p)'
      BY <1>1, <3>1, <3>2 DEF Misled, Above, Lineage
    <3>4. QED
      BY <3>3 DEF FolderReached
  <2>6. QED
    BY <1>1, <2>3, <2>4, <2>5, UnwatchedCovered
<1>9. FoldersReached' /\ PassCovers'
  BY <1>1, <1>8 DEF FoldersReached, PassCovers, DiskIdles
<1>10. QED
  BY <1>1, <1>6, <1>7, <1>9, DiskKeeps DEF FoldersInv

-----------------------------------------------------------------------------
(* The initial states: every folder is watched. *)
LEMMA FoldersInvInit == RegInit => FoldersInv
<1> SUFFICES ASSUME RegInit PROVE FoldersInv
  OBVIOUS
<1>1. /\ id \in [Paths -> Ids \cup {NoId}] /\ watch = id /\ registered = id
      /\ present = {p \in Paths : id[p] # NoId} /\ current = present
      /\ \A p \in Paths : id[p] # NoId /\ Parent[p] # None => id[Parent[p]] # NoId
      /\ queues = [p \in Paths |-> <<>>] /\ inbox = {}
      /\ step = "idle" /\ agenda = {} /\ at = Nowhere /\ denied = {} /\ outdated = {}
  BY DEF RegInit
<1>2. FoldersTyped
  BY <1>1 DEF FoldersTyped
<1>3. QueuesLead
  BY <1>1 DEF QueuesLead, Leads
<1>4. FoldersAreTree
  BY <1>1, ParentAssumption DEF FoldersAreTree
<1>5. RecordsHold
  BY <1>1 DEF RecordsHold, RecordHolds
<1>6. FoldersReached /\ PassCovers
  BY <1>1 DEF FoldersReached, PassCovers, FolderReached, Watched
<1>7. QED
  BY <1>2, <1>3, <1>4, <1>5, <1>6 DEF FoldersInv

LEMMA FoldersInvNext == FoldersInv /\ [RegNext]_regVars => FoldersInv'
<1>1. ASSUME FoldersInv, Folders PROVE FoldersInv'
  BY <1>1, NewFolderStep, RemoveFolderStep, MoveFolderStep DEF Folders
<1>2. ASSUME FoldersInv, NEW ps \in SUBSET Paths, Deliver(ps) \/ LoseEvents(ps)
      PROVE  FoldersInv'
  BY <1>2, DeliverStep, LoseEventsStep
<1>3. ASSUME FoldersInv, ProcessEvents \/ Reconcile \/ Retry PROVE FoldersInv'
  BY <1>3, ProcessEventsStep, BeginStep
<1>4. ASSUME FoldersInv, Pass PROVE FoldersInv'
  BY <1>4, ListStep, WatchFolderStep, WatchMissedStep, LookStep, SweepStep DEF Pass
<1>5. ASSUME FoldersInv, UNCHANGED regVars PROVE FoldersInv'
  <2>1. /\ DiskIdles /\ WorkerIdles /\ UNCHANGED <<inbox, watch, outdated>>
    BY <1>5 DEF regVars, vars, kernel, believed, walking, feed, DiskIdles, WorkerIdles
  <2>2. FoldersTyped'
    BY <1>5, <2>1 DEF FoldersInv, FoldersTyped, DiskIdles, WorkerIdles
  <2>3. RecordsHold'
    BY <1>5, <2>1, RecordsStay DEF WorkerIdles
  <2>4. \A p \in present : Settled(p)
    BY <2>1, FeedKeeps DEF Settled, DiskIdles
  <2>5. FoldersReached' /\ PassCovers'
    BY <1>5, <2>1, <2>4, ArrivalsKeep DEF DiskIdles, FoldersInv, FoldersAreTree
  <2>6. QED
    BY <1>5, <2>1, <2>2, <2>3, <2>5, DiskKeeps DEF FoldersInv
<1>6. QED
  BY <1>1, <1>2, <1>3, <1>4, <1>5 DEF RegNext

(* The inductive invariant holds in every reachable state: what the worker *)
(* has on record is watched or is known, forgotten or announced to be not, *)
(* and no pass walks past a folder without taking it into its generation.  *)
THEOREM FoldersInvariantHolds == RegSpec => []FoldersInv
  BY FoldersInvInit, FoldersInvNext, PTL DEF RegSpec

(* A folder without a native watch is on record, however folders come, go  *)
(* and take each other's names and file IDs while a pass walks over them.  *)
THEOREM FoldersStayOnRecord == RegSpec => []FoldersAreWatched
<1>1. ASSUME FoldersInv PROVE FoldersAreWatched
  <2>1. SUFFICES ASSUME NEW p \in present, ~Watched(p), ~OnRecord(p)
                 PROVE  \E q \in Above(p) \cap outdated : registered[q] = id[q]
    BY DEF FoldersAreWatched
  <2>2. /\ p \in Paths /\ p \in Above(p) /\ p # None
        /\ \A q \in Above(p) : q \in Paths /\ q \in present /\ id[q] # NoId
    BY <1>1, AbovePresent, AboveIs DEF FoldersInv
  <2>3. ~lost /\ Above(p) \cap denied = {}
    BY <2>1 DEF OnRecord
  <2>4. Heard(p) => PassAhead(p)
    <3>1. ASSUME NEW q \in Above(p), Speaks(q)
          PROVE  \E x \in Pending : x[1] = q /\ x[2].kind # "access"
      <4>1. CASE NamesItself(queues[q])
        <5>1. PICK i \in 1..Len(queues[q]) : queues[q][i].kind # "access"
          BY <4>1 DEF NamesItself
        <5>2. queues \in [Paths -> Seq(Event)] /\ q \in Paths
          BY <1>1, <2>2 DEF FoldersInv, FoldersTyped
        <5>3. i \in DOMAIN queues[q]
          BY <5>1, <5>2
        <5>4. <<q, queues[q][i]>> \in Pending
          BY <5>2, <5>3 DEF Pending, InQueues
        <5>5. QED
          BY <5>1, <5>4
      <4>2. QED
        BY <3>1, <4>1 DEF Speaks, Pending
    <3>2. QED
      BY <1>1, <3>1, RequiredOfPresent DEF Heard, PassAhead
  <2>5. Marked(p) => PassAhead(p)
    <3>1. ASSUME Marked(p) PROVE \E x \in Pending : Above(p) \cap RemovedBy(x[1], x[2]) # {}
      BY <3>1 DEF Marked, RemovedNames
    <3>2. QED
      BY <1>1, <3>1, RequiredOfPresent DEF PassAhead
  <2>6. ~Marked(p)
    BY <2>1, <2>5 DEF OnRecord, Marked
  <2>7. Told(p) \/ (step = "idle" /\ failed) => PassAhead(p) \/ failed
    BY <2>3, <2>4 DEF Told, PassAhead
  <2>8. CASE Misled(p)
    <3>1. PICK q \in Above(p) : IsWrong(q) /\ (again => q \in current)
      BY <2>8 DEF Misled
    <3>2. q \in Paths /\ ~Marked(q) /\ RecordHolds(q)
      BY <1>1, <2>2, <2>6, <3>1, ToldBelow DEF FoldersInv, RecordsHold
    <3>3. q \in outdated
      BY <2>2, <2>3, <3>1, <3>2 DEF RecordHolds, IsWrong
    <3>4. QED
      BY <3>1, <3>3 DEF IsWrong
  <2>9. CASE ~Misled(p)
    <3>1. Doubted(p)
      BY <2>1, <2>2, <2>9 DEF Doubted, Misled, IsWrong, Watched
    <3>2. FolderReached(p)
      BY <1>1 DEF FoldersInv, FoldersReached
    <3>3. PassAhead(p) \/ failed
      BY <2>1, <2>7, <2>9, <3>2 DEF FolderReached
    <3>4. QED
      BY <2>1, <3>1, <3>3 DEF OnRecord
  <2>10. QED
    BY <2>8, <2>9
<1>2. QED
  BY <1>1, FoldersInvariantHolds, PTL

=============================================================================
