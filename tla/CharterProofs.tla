---------------------------- MODULE CharterProofs ----------------------------
(***************************************************************************)
(* Machine-checked proofs about Charter, for any slugs, groups and orders: *)
(* the dependency search of domain/charter.go lets no cycle through, lists    *)
(* the best order there is, and reports a real cycle when it refuses.        *)
(***************************************************************************)
EXTENDS Charter, SequenceTheorems, FiniteSetTheorems, WellFoundedInduction, TLAPS

-----------------------------------------------------------------------------
(* Type correctness. *)

LEMMA InitTyped == Init => TypeOK
<1> SUFFICES ASSUME Init PROVE TypeOK
  OBVIOUS
<1>1. entries = << >> /\ DOMAIN << >> = {}
  BY DEF Init
<1> QED
  BY <1>1 DEF Init, TypeOK

LEMMA EnsuredTyped ==
  ASSUME TypeOK, NEW g \in Groups, NEW order \in GroupOrders
  PROVE  EnsuredGroups(g, order) \in PartialFunctions(Groups, GroupOrders)
<1>1. PICK D \in SUBSET Groups : groups \in [D -> GroupOrders]
  BY DEF TypeOK, PartialFunctions
<1>2. D \cup {g} \in SUBSET Groups
  BY <1>1
<1>3. EnsuredGroups(g, order) \in [D \cup {g} -> GroupOrders]
  BY <1>1 DEF EnsuredGroups
<1> QED
  BY <1>2, <1>3 DEF PartialFunctions

LEMMA WithTyped ==
  ASSUME TypeOK, NEW slug \in Slugs, NEW entry \in Entry
  PROVE  /\ DOMAIN WithEntry(slug, entry) = DOMAIN entries \cup {slug}
         /\ DOMAIN WithEntry(slug, entry) \subseteq Slugs
         /\ \A s \in DOMAIN WithEntry(slug, entry) : WithEntry(slug, entry)[s] \in Entry
BY DEF TypeOK, WithEntry

LEMMA ApplyTyped ==
  ASSUME NEW gs \in PartialFunctions(Groups, GroupOrders), NEW es, NEW files \in SUBSET Slugs,
         DOMAIN es \subseteq Slugs, \A s \in DOMAIN es : es[s] \in Entry,
         Apply(gs, es, files)
  PROVE  TypeOK'
BY DEF Apply, TypeOK

LEMMA StepTyped ==
  ASSUME TypeOK, [Next]_vars
  PROVE  TypeOK'
<1>1. ASSUME NEW s \in Slugs, NEW e \in Entry, NEW o \in GroupOrders,
             CreateSpec(s, e, o) \/ AddSpec(s, e, o)
      PROVE  TypeOK'
  <2>1. PICK files \in SUBSET Slugs : Apply(EnsuredGroups(e.group, o), WithEntry(s, e), files)
    BY <1>1 DEF CreateSpec, AddSpec, TypeOK
  <2>2. e.group \in Groups
    BY DEF Entry
  <2> QED
    BY <2>1, <2>2, EnsuredTyped, WithTyped, ApplyTyped
<1>2. ASSUME NEW s \in Slugs, RemoveSpec(s)
      PROVE  TypeOK'
  <2>1. /\ DOMAIN Without(s) \subseteq Slugs
        /\ \A t \in DOMAIN Without(s) : Without(s)[t] \in Entry
    BY DEF TypeOK, Without
  <2>2. groups \in PartialFunctions(Groups, GroupOrders) /\ trackings \in SUBSET Slugs
    BY DEF TypeOK
  <2> QED
    BY <1>2, <2>1, <2>2, ApplyTyped DEF RemoveSpec
<1>3. ASSUME NEW s \in Slugs, LoseTracking(s)
      PROVE  TypeOK'
  BY <1>3 DEF LoseTracking, TypeOK
<1>4. CASE UNCHANGED vars
  BY <1>4 DEF vars, TypeOK
<1> QED
  BY <1>1, <1>2, <1>3, <1>4 DEF Next

(* TypeOK: every stored entry is well formed, and every group keeps an order    *)
(* some command gave it.                                                        *)
THEOREM TypeCorrect == Spec => []TypeOK
BY InitTyped, StepTyped, PTL DEF Spec

-----------------------------------------------------------------------------
(* Any finite set of entries can be ranked: least numbers exist, hence a first *)
(* entry of the rank.                                                          *)

LEMMA LeastExists ==
  ASSUME NEW S \in SUBSET Nat, S # {}
  PROVE  \E x \in S : \A y \in S : x <= y
<1>1. \E x \in S : \A y \in S : ~ (<<y, x>> \in OpToRel(<, Nat))
  BY NatLessThanWellFounded, WFMin
<1>2. PICK x \in S : \A y \in S : ~ (y < x)
  BY <1>1 DEF OpToRel
<1> QED
  BY <1>2

(* Every set of D has a first member for R, and D is finite: D can be sorted.  *)
LEMMA SortExists ==
  ASSUME NEW D, IsFiniteSet(D), NEW R,
         \A S \in (SUBSET D) \ {{}} : \E m \in S : \A s \in S \ {m} : <<m, s>> \in R
  PROVE  \E q \in [1 .. Cardinality(D) -> D] :
           \A i, j \in 1 .. Cardinality(D) : i < j => <<q[i], q[j]>> \in R
<1> DEFINE Sorted(S, q) ==
             /\ q \in [1 .. Cardinality(S) -> S]
             /\ \A i, j \in 1 .. Cardinality(S) : i < j => <<q[i], q[j]>> \in R
<1>0. \A S \in SUBSET D : IsFiniteSet(S) /\ Cardinality(S) \in Nat
  BY FS_Subset, FS_CardinalityType
<1> DEFINE Unsorted == {S \in SUBSET D : ~ \E q : Sorted(S, q)}
           Sizes == {Cardinality(S) : S \in Unsorted}
<1>1. SUFFICES ASSUME Unsorted # {} PROVE FALSE
  OBVIOUS
<1>2. PICK n \in Sizes : \A k \in Sizes : n <= k
  <2>1. Sizes \in SUBSET Nat /\ Sizes # {}
    BY <1>0, <1>1
  <2> QED
    BY <2>1, LeastExists
<1>3. PICK S \in Unsorted : Cardinality(S) = n
  BY <1>2
<1>4. S \in SUBSET D /\ IsFiniteSet(S) /\ n \in Nat
  BY <1>0, <1>3
<1>5. S # {}
  <2> SUFFICES ASSUME S = {} PROVE FALSE
    OBVIOUS
  <2>1. n = 0 /\ 1 .. n = {}
    BY <1>3, <1>4, FS_EmptySet
  <2>2. [i \in 1 .. n |-> 0] \in [1 .. n -> S]
    BY <2>1
  <2>3. Sorted(S, [i \in 1 .. n |-> 0])
    BY <1>3, <2>1, <2>2
  <2> QED
    BY <1>3, <2>3
<1>6. PICK m \in S : \A s \in S \ {m} : <<m, s>> \in R
  BY <1>4, <1>5
<1>7. IsFiniteSet(S \ {m}) /\ Cardinality(S \ {m}) = n - 1
  BY <1>3, <1>4, <1>6, FS_RemoveElement
<1>8. PICK q : Sorted(S \ {m}, q)
  <2>1. Cardinality(S \ {m}) \notin Sizes
    BY <1>2, <1>4, <1>7
  <2>2. S \ {m} \notin Unsorted
    BY <2>1
  <2> QED
    BY <1>4, <2>2
<1>9. /\ q \in [1 .. n - 1 -> S \ {m}]
      /\ \A i, j \in 1 .. n - 1 : i < j => <<q[i], q[j]>> \in R
  BY <1>7, <1>8
<1> DEFINE r == [i \in 1 .. n |-> IF i = 1 THEN m ELSE q[i - 1]]
<1>10. \A i \in 1 .. n : i # 1 => i - 1 \in 1 .. n - 1
  BY <1>4
<1>11. r \in [1 .. n -> S]
  BY <1>9, <1>10
<1>12. ASSUME NEW i \in 1 .. n, NEW j \in 1 .. n, i < j
       PROVE  <<r[i], r[j]>> \in R
  <2>1. j # 1 /\ r[j] = q[j - 1] /\ j - 1 \in 1 .. n - 1 /\ q[j - 1] \in S \ {m}
    BY <1>4, <1>9, <1>10, <1>12
  <2>2. CASE i = 1
    BY <1>6, <2>1, <2>2
  <2>3. CASE i # 1
    <3>1. r[i] = q[i - 1] /\ i - 1 \in 1 .. n - 1 /\ i - 1 < j - 1
      BY <1>4, <1>10, <1>12, <2>3
    <3> QED
      BY <1>9, <2>1, <3>1
  <2> QED
    BY <2>2, <2>3
<1>13. Sorted(S, r)
  BY <1>3, <1>11, <1>12
<1> QED
  BY <1>3, <1>13

LEMMA Crowded ==
  ASSUME NEW S, NEW T, IsFiniteSet(S), IsFiniteSet(T), Cardinality(T) < Cardinality(S)
  PROVE  \A f \in [S -> T] : \E i, j \in S : i # j /\ f[i] = f[j]
<1> SUFFICES ASSUME NEW f \in [S -> T]
             PROVE  \E i, j \in S : i # j /\ f[i] = f[j]
  OBVIOUS
<1> QED
  BY FS_PigeonHole, Zenon

(* A sorted enumeration of D has every member once. *)
LEMMA SortedOnce ==
  ASSUME NEW D, IsFiniteSet(D), NEW R, \A x \in D : <<x, x>> \notin R,
         NEW q \in [1 .. Cardinality(D) -> D],
         \A i, j \in 1 .. Cardinality(D) : i < j => <<q[i], q[j]>> \in R
  PROVE  q \in Seq(D) /\ Len(q) = Cardinality(D) /\ ToSet(q) = D /\ IsInjective(q)
<1>1. PICK n : n = Cardinality(D) /\ n \in Nat
  BY FS_CardinalityType
<1>2. q \in [1 .. n -> D] /\ \A i, j \in 1 .. n : i < j => <<q[i], q[j]>> \in R
  BY <1>1
<1>3. \A i, j \in 1 .. n : q[i] = q[j] => i = j
  <2> SUFFICES ASSUME NEW i \in 1 .. n, NEW j \in 1 .. n, i < j
               PROVE  q[i] # q[j]
    BY <1>1
  <2>1. <<q[i], q[j]>> \in R /\ q[i] \in D
    BY <1>2
  <2> QED
    BY <2>1
<1>4. \A x \in D : \E i \in 1 .. n : q[i] = x
  <2> SUFFICES ASSUME NEW x \in D, \A i \in 1 .. n : q[i] # x
               PROVE  FALSE
    OBVIOUS
  <2>1. q \in [1 .. n -> D \ {x}]
    BY <1>2
  <2>2. IsFiniteSet(D \ {x}) /\ Cardinality(D \ {x}) = n - 1
    BY <1>1, FS_RemoveElement
  <2>3. IsFiniteSet(1 .. n) /\ Cardinality(1 .. n) = n
    BY <1>1, FS_Interval
  <2>4. Cardinality(D \ {x}) < Cardinality(1 .. n)
    BY <1>1, <2>2, <2>3
  <2>5. PICK I, rest : I = 1 .. n /\ rest = D \ {x}
    OBVIOUS
  <2>6. IsFiniteSet(I) /\ IsFiniteSet(rest) /\ Cardinality(rest) < Cardinality(I) /\ q \in [I -> rest]
    BY <2>1, <2>2, <2>3, <2>4, <2>5
  <2>7. \E i, j \in I : i # j /\ q[i] = q[j]
    <3>1. \A h \in [I -> rest] : \E i, j \in I : i # j /\ h[i] = h[j]
      BY <2>6, Crowded
    <3> QED
      BY <2>6, <3>1
  <2> QED
    BY <1>3, <2>5, <2>7
<1>5. ToSet(q) = D
  <2>1. DOMAIN q = 1 .. n /\ \A i \in 1 .. n : q[i] \in D
    BY <1>2
  <2> QED
    BY <1>4, <2>1 DEF ToSet
<1>6. q \in Seq(D)
  BY <1>1, <1>2, SeqDef
<1>7. Len(q) = n
  BY <1>1, <1>2, <1>6, LenProperties
<1>8. IsInjective(q)
  BY <1>2, <1>3 DEF IsInjective
<1> QED
  BY <1>1, <1>5, <1>6, <1>7, <1>8

(* A charter about to be judged: its groups have orders, its entries groups.   *)
Judged(gs, es) ==
  /\ DOMAIN es \in SUBSET Slugs
  /\ \A s \in DOMAIN es : es[s].order \in Nat /\ gs[es[s].group] \in Nat

LEMMA FirstExists ==
  ASSUME NEW gs, NEW es, Judged(gs, es), NEW S \in SUBSET DOMAIN es, S # {}
  PROVE  \E m \in S : \A s \in S \ {m} : RanksBefore(gs, es, m, s)
<1> DEFINE group(x) == gs[es[x].group]
           order(x) == es[x].order
<1>1. \A x \in S : group(x) \in Nat /\ order(x) \in Nat /\ x \in Nat
  BY SlugsAssumption DEF Judged
<1>2. \A s, t : RanksBefore(gs, es, s, t) <=>
        \/ group(s) < group(t)
        \/ group(s) = group(t) /\ order(s) < order(t)
        \/ group(s) = group(t) /\ order(s) = order(t) /\ s < t
  BY DEF RanksBefore
<1> HIDE DEF group, order
<1>3. PICK g \in {group(x) : x \in S} : \A y \in S : g <= group(y)
  <2>1. {group(x) : x \in S} \in SUBSET Nat /\ {group(x) : x \in S} # {}
    BY <1>1
  <2>2. \E g \in {group(x) : x \in S} : \A y \in {group(x) : x \in S} : g <= y
    BY <2>1, LeastExists
  <2> QED
    BY <2>2
<1> DEFINE A == {x \in S : group(x) = g}
<1>4. PICK o \in {order(x) : x \in A} : \A y \in A : o <= order(y)
  <2>1. {order(x) : x \in A} \in SUBSET Nat /\ {order(x) : x \in A} # {}
    BY <1>1, <1>3
  <2>2. \E o \in {order(x) : x \in A} : \A y \in {order(x) : x \in A} : o <= y
    BY <2>1, LeastExists
  <2> QED
    BY <2>2
<1> DEFINE B == {x \in A : order(x) = o}
<1>5. PICK m \in B : \A y \in B : m <= y
  <2>1. B \in SUBSET Nat /\ B # {}
    BY <1>1, <1>4
  <2> QED
    BY <2>1, LeastExists
<1>6. ASSUME NEW s \in S \ {m}
      PROVE  RanksBefore(gs, es, m, s)
  <2>1. m \in S /\ group(m) = g /\ order(m) = o /\ g <= group(s)
    BY <1>3, <1>5
  <2>2. CASE group(s) # g
    BY <1>1, <1>2, <2>1, <2>2
  <2>3. CASE group(s) = g /\ order(s) # o
    BY <1>1, <1>2, <1>4, <2>1, <2>3
  <2>4. CASE group(s) = g /\ order(s) = o
    <3>1. m <= s /\ m # s
      BY <1>5, <2>4
    <3> QED
      BY <1>1, <1>2, <2>1, <2>4, <3>1
  <2> QED
    BY <2>2, <2>3, <2>4
<1> QED
  BY <1>5, <1>6

IsRanking(gs, es, S, q) ==
  /\ q \in [1 .. Cardinality(S) -> S]
  /\ \A i, j \in 1 .. Cardinality(S) : i < j => RanksBefore(gs, es, q[i], q[j])

LEMMA RankIrreflexive ==
  ASSUME NEW gs, NEW es, Judged(gs, es), NEW s \in DOMAIN es
  PROVE  ~RanksBefore(gs, es, s, s)
<1>1. s \in Nat /\ es[s].order \in Nat /\ gs[es[s].group] \in Nat
  BY SlugsAssumption DEF Judged
<1> QED
  BY <1>1 DEF RanksBefore

Ranks(gs, es) ==
  {pair \in (DOMAIN es) \X (DOMAIN es) : RanksBefore(gs, es, pair[1], pair[2])}

LEMMA RanksPairs ==
  ASSUME NEW gs, NEW es, NEW s \in DOMAIN es, NEW t \in DOMAIN es
  PROVE  <<s, t>> \in Ranks(gs, es) <=> RanksBefore(gs, es, s, t)
BY DEF Ranks

LEMMA RankedIsRanking ==
  ASSUME NEW gs, NEW es, Judged(gs, es), NEW S \in SUBSET DOMAIN es
  PROVE  /\ IsFiniteSet(S)
         /\ IsRanking(gs, es, S, Ranked(gs, es, S))
<1>1. IsFiniteSet(S)
  BY SlugsAssumption, FS_Subset DEF Judged
<1>2. ASSUME NEW T \in (SUBSET S) \ {{}}
      PROVE  \E m \in T : \A s \in T \ {m} : <<m, s>> \in Ranks(gs, es)
  <2>1. PICK m \in T : \A s \in T \ {m} : RanksBefore(gs, es, m, s)
    BY FirstExists
  <2> QED
    BY <2>1, RanksPairs
<1>3. PICK q \in [1 .. Cardinality(S) -> S] :
        \A i, j \in 1 .. Cardinality(S) : i < j => <<q[i], q[j]>> \in Ranks(gs, es)
  BY <1>1, <1>2, SortExists
<1>4. \A i, j \in 1 .. Cardinality(S) : i < j => RanksBefore(gs, es, q[i], q[j])
  BY <1>3, RanksPairs
<1> QED
  BY <1>1, <1>3, <1>4 DEF Ranked, IsRanking

(* A ranking has every entry once. *)
LEMMA RankedOnce ==
  ASSUME NEW gs, NEW es, Judged(gs, es), NEW S \in SUBSET DOMAIN es
  PROVE  /\ Ranked(gs, es, S) \in Seq(DOMAIN es)
         /\ ToSet(Ranked(gs, es, S)) = S
         /\ IsInjective(Ranked(gs, es, S))
<1>1. PICK q : q = Ranked(gs, es, S)
  OBVIOUS
<1>2. /\ IsFiniteSet(S) /\ q \in [1 .. Cardinality(S) -> S]
      /\ \A i, j \in 1 .. Cardinality(S) : i < j => RanksBefore(gs, es, q[i], q[j])
  BY <1>1, RankedIsRanking DEF IsRanking
<1>3. \A i, j \in 1 .. Cardinality(S) : i < j => <<q[i], q[j]>> \in Ranks(gs, es)
  BY <1>2, RanksPairs
<1>4. \A x \in S : <<x, x>> \notin Ranks(gs, es)
  BY RankIrreflexive, RanksPairs
<1>5. q \in Seq(S) /\ ToSet(q) = S /\ IsInjective(q)
  BY <1>2, <1>3, <1>4, SortedOnce
<1>6. q \in Seq(DOMAIN es)
  BY <1>5, LenProperties, SeqDef
<1> QED
  BY <1>1, <1>5, <1>6

LEMMA HeadAndTail ==
  ASSUME NEW T, NEW q \in Seq(T), q # << >>
  PROVE  /\ Head(q) \in ToSet(q)
         /\ ToSet(q) = {Head(q)} \cup ToSet(Tail(q))
         /\ IsInjective(q) => Head(q) \notin ToSet(Tail(q))
<1>1. /\ Len(Tail(q)) = Len(q) - 1
      /\ \A i \in 1 .. Len(Tail(q)) : Tail(q)[i] = q[i + 1]
      /\ Tail(q) \in Seq(T)
  BY HeadTailProperties
<1>2. /\ Len(q) \in Nat /\ DOMAIN q = 1 .. Len(q) /\ Len(q) # 0
      /\ DOMAIN Tail(q) = 1 .. Len(Tail(q))
  BY <1>1, LenProperties, EmptySeq
<1>3. Head(q) = q[1] /\ 1 \in DOMAIN q
  BY <1>2
<1>4. \A i \in DOMAIN Tail(q) : i + 1 \in DOMAIN q /\ Tail(q)[i] = q[i + 1] /\ i + 1 # 1
  BY <1>1, <1>2
<1>5. \A i \in DOMAIN q : i # 1 => i - 1 \in DOMAIN Tail(q) /\ Tail(q)[i - 1] = q[i]
  BY <1>1, <1>2
<1>6. ToSet(q) = {Head(q)} \cup ToSet(Tail(q))
  <2>1. ASSUME NEW i \in DOMAIN q, i # 1
        PROVE  q[i] \in ToSet(Tail(q))
    BY <1>5, <2>1 DEF ToSet
  <2>2. ASSUME NEW i \in DOMAIN Tail(q)
        PROVE  Tail(q)[i] \in ToSet(q)
    BY <1>4 DEF ToSet
  <2>3. Head(q) \in ToSet(q)
    BY <1>3 DEF ToSet
  <2>4. \A x \in ToSet(q) : \E i \in DOMAIN q : x = q[i]
    BY DEF ToSet
  <2>5. \A x \in ToSet(Tail(q)) : \E i \in DOMAIN Tail(q) : x = Tail(q)[i]
    BY DEF ToSet
  <2>6. \A x \in ToSet(q) : x \in {Head(q)} \cup ToSet(Tail(q))
    BY <1>3, <2>1, <2>4
  <2>7. \A x \in {Head(q)} \cup ToSet(Tail(q)) : x \in ToSet(q)
    BY <2>2, <2>3, <2>5
  <2> QED
    BY <2>6, <2>7
<1>7. IsInjective(q) => Head(q) \notin ToSet(Tail(q))
  BY <1>3, <1>4 DEF IsInjective, ToSet
<1> QED
  BY <1>6, <1>7

LEMMA RankedHead ==
  ASSUME NEW gs, NEW es, Judged(gs, es), NEW S \in SUBSET DOMAIN es, S # {}
  PROVE  Head(Ranked(gs, es, S)) \in S
<1>1. PICK q \in Seq(DOMAIN es) : q = Ranked(gs, es, S) /\ ToSet(q) = S
  BY RankedOnce
<1>2. q # << >>
  BY <1>1 DEF ToSet
<1> QED
  BY <1>1, <1>2, HeadAndTail

LEMMA Appended ==
  ASSUME NEW T, NEW q \in Seq(T), NEW x \in T
  PROVE  /\ Append(q, x) \in Seq(T)
         /\ ToSet(Append(q, x)) = ToSet(q) \cup {x}
         /\ Len(Append(q, x)) = Len(q) + 1 /\ Append(q, x)[Len(q) + 1] = x
         /\ \A i \in DOMAIN q : Append(q, x)[i] = q[i]
         /\ DOMAIN q = 1 .. Len(q) /\ DOMAIN Append(q, x) = 1 .. Len(q) + 1 /\ Len(q) \in Nat
<1>1. /\ Append(q, x) \in Seq(T)
      /\ Len(Append(q, x)) = Len(q) + 1 /\ Append(q, x)[Len(q) + 1] = x
      /\ \A i \in 1 .. Len(q) : Append(q, x)[i] = q[i]
  BY AppendProperties
<1>2. DOMAIN q = 1 .. Len(q) /\ DOMAIN Append(q, x) = 1 .. Len(q) + 1 /\ Len(q) \in Nat
  BY <1>1, LenProperties
<1>3. 1 .. Len(q) + 1 = DOMAIN q \cup {Len(q) + 1}
  BY <1>2
<1>4. ToSet(Append(q, x)) = ToSet(q) \cup {x}
  BY <1>1, <1>2, <1>3 DEF ToSet
<1> QED
  BY <1>1, <1>2, <1>4

-----------------------------------------------------------------------------
(* Kahn's algorithm is greedy.  At every round the queue holds, ranked, exactly *)
(* the entries that are not ordered yet and wait for nothing; every ordered      *)
(* entry was the first of the entries ready when its turn came; and the degree   *)
(* of an entry counts the dependencies it still waits for.                       *)

Ahead(order, i) == {order[j] : j \in 1 .. i - 1}

Ready(es, done) == {s \in DOMAIN es \ done : KnownDeps(es, s) \subseteq done}

Greedy(gs, es, order) ==
  \A i \in DOMAIN order :
    /\ order[i] \in Ready(es, Ahead(order, i))
    /\ \A s \in Ready(es, Ahead(order, i)) \ {order[i]} : RanksBefore(gs, es, order[i], s)

KahnInv(gs, es, k) ==
  /\ k.ordered \in Seq(DOMAIN es)
  /\ Greedy(gs, es, k.ordered)
  /\ k.degree = [s \in DOMAIN es |-> Cardinality(KnownDeps(es, s) \ ToSet(k.ordered))]
  /\ k.queue = Ranked(gs, es, Ready(es, ToSet(k.ordered)))

LEMMA EntriesFinite ==
  ASSUME NEW gs, NEW es, Judged(gs, es), NEW S \in SUBSET DOMAIN es
  PROVE  IsFiniteSet(S) /\ Cardinality(S) \in Nat
BY SlugsAssumption, FS_Subset, FS_CardinalityType DEF Judged

LEMMA StartInv ==
  ASSUME NEW gs, NEW es, Judged(gs, es)
  PROVE  KahnInv(gs, es, KahnStart(gs, es)) /\ Len(KahnStart(gs, es).ordered) = 0
<1>1. PICK k : k = KahnStart(gs, es)
  OBVIOUS
<1>2. /\ k.queue = Ranked(gs, es, {s \in DOMAIN es : KnownDeps(es, s) = {}})
      /\ k.degree = [s \in DOMAIN es |-> Cardinality(KnownDeps(es, s))]
      /\ k.ordered = << >>
  BY <1>1 DEF KahnStart
<1>3. ToSet(<< >>) = {} /\ << >> \in Seq(DOMAIN es) /\ DOMAIN << >> = {} /\ Len(<< >>) = 0
  BY EmptySeq DEF ToSet
<1>4. /\ Ready(es, {}) = {s \in DOMAIN es : KnownDeps(es, s) = {}}
      /\ \A s : KnownDeps(es, s) \ {} = KnownDeps(es, s)
  BY DEF Ready
<1>5. Greedy(gs, es, k.ordered)
  BY <1>2, <1>3 DEF Greedy
<1>6. KahnInv(gs, es, k)
  BY <1>2, <1>3, <1>4, <1>5 DEF KahnInv
<1> QED
  BY <1>1, <1>2, <1>3, <1>6

(* The first of a ranking ranks before all the others.                           *)
LEMMA HeadRanksFirst ==
  ASSUME NEW gs, NEW es, Judged(gs, es), NEW S \in SUBSET DOMAIN es,
         Ranked(gs, es, S) # << >>
  PROVE  \A s \in S \ {Head(Ranked(gs, es, S))} : RanksBefore(gs, es, Head(Ranked(gs, es, S)), s)
<1>1. PICK q : q = Ranked(gs, es, S)
  OBVIOUS
<1>2. q \in Seq(DOMAIN es) /\ ToSet(q) = S /\ q # << >>
  BY <1>1, RankedOnce
<1>3. PICK n : n = Cardinality(S) /\ n \in Nat
  BY EntriesFinite
<1>4. q \in [1 .. n -> S] /\ \A i, j \in 1 .. n : i < j => RanksBefore(gs, es, q[i], q[j])
  BY <1>1, <1>3, RankedIsRanking DEF IsRanking
<1>5. Len(q) = n /\ n # 0
  BY <1>2, <1>3, <1>4, EmptySeq, LenProperties
<1>6. Head(q) = q[1] /\ 1 \in 1 .. n
  BY <1>2, <1>3, <1>5
<1>7. ASSUME NEW s \in S \ {Head(q)}
      PROVE  RanksBefore(gs, es, Head(q), s)
  <2>1. PICK i \in 1 .. n : s = q[i]
    BY <1>2, <1>4 DEF ToSet
  <2>2. 1 < i
    BY <1>3, <1>6, <2>1
  <2> QED
    BY <1>4, <1>6, <2>1, <2>2
<1> QED
  BY <1>1, <1>7

LEMMA GreedyOrders ==
  ASSUME NEW gs, NEW es, NEW order \in Seq(DOMAIN es), Greedy(gs, es, order)
  PROVE  /\ \A s \in ToSet(order) : KnownDeps(es, s) \subseteq ToSet(order)
         /\ IsInjective(order)
         /\ DOMAIN order = 1 .. Len(order) /\ Len(order) \in Nat
         /\ ToSet(order) \subseteq DOMAIN es
<1>1. DOMAIN order = 1 .. Len(order) /\ Len(order) \in Nat
  BY LenProperties
<1>2. \A i \in DOMAIN order : Ahead(order, i) \subseteq ToSet(order)
  BY <1>1 DEF Ahead, ToSet
<1>3. \A s \in ToSet(order) : KnownDeps(es, s) \subseteq ToSet(order)
  <2> SUFFICES ASSUME NEW i \in DOMAIN order
               PROVE  KnownDeps(es, order[i]) \subseteq ToSet(order)
    BY DEF ToSet
  <2> QED
    BY <1>2 DEF Greedy, Ready
<1>4. \A i, j \in DOMAIN order : i < j => order[i] # order[j]
  <2> SUFFICES ASSUME NEW i \in DOMAIN order, NEW j \in DOMAIN order, i < j
               PROVE  order[i] # order[j]
    OBVIOUS
  <2>1. order[i] \in Ahead(order, j)
    BY <1>1 DEF Ahead
  <2> QED
    BY <2>1 DEF Greedy, Ready
<1>5. IsInjective(order)
  BY <1>1, <1>4 DEF IsInjective
<1>6. ToSet(order) \subseteq DOMAIN es
  BY <1>1 DEF ToSet
<1> QED
  BY <1>1, <1>3, <1>5, <1>6

LEMMA StepInv ==
  ASSUME NEW gs, NEW es, Judged(gs, es), NEW k, KahnInv(gs, es, k), k.queue # << >>
  PROVE  /\ KahnInv(gs, es, KahnStep(gs, es, k))
         /\ Len(KahnStep(gs, es, k).ordered) = Len(k.ordered) + 1
<1>1. PICK ordered, done, R, c, l :
        /\ ordered = k.ordered
        /\ done = ToSet(ordered)
        /\ R = Ready(es, done)
        /\ c = Head(k.queue)
        /\ l = KahnStep(gs, es, k)
  OBVIOUS
<1> DEFINE dependents == {s \in DOMAIN es : c \in es[s].deps}
           degree == [s \in DOMAIN es |-> IF s \in dependents THEN k.degree[s] - 1 ELSE k.degree[s]]
           ready == {s \in dependents : degree[s] = 0}
           Waiting(s) == KnownDeps(es, s) \ done
<1>2. /\ l.queue = Ranked(gs, es, ToSet(Tail(k.queue)) \cup ready)
      /\ l.degree = degree
      /\ l.ordered = Append(ordered, c)
  BY <1>1 DEF KahnStep
<1>3. /\ ordered \in Seq(DOMAIN es)
      /\ Greedy(gs, es, ordered)
      /\ k.degree = [s \in DOMAIN es |-> Cardinality(Waiting(s))]
      /\ k.queue = Ranked(gs, es, R)
      /\ R \in SUBSET DOMAIN es
  BY <1>1 DEF KahnInv, Ready
<1>4. k.queue \in Seq(DOMAIN es) /\ ToSet(k.queue) = R /\ IsInjective(k.queue)
  BY <1>3, RankedOnce
<1>5. c \in R /\ ToSet(Tail(k.queue)) = R \ {c}
  BY <1>1, <1>4, HeadAndTail
<1>6. \A s \in R \ {c} : RanksBefore(gs, es, c, s)
  BY <1>1, <1>3, HeadRanksFirst
<1>7. /\ c \in DOMAIN es \ done
      /\ KnownDeps(es, c) \subseteq done
      /\ \A s \in done : KnownDeps(es, s) \subseteq done
      /\ done \subseteq DOMAIN es
  BY <1>1, <1>3, <1>5, GreedyOrders DEF Ready
<1>8. /\ l.ordered \in Seq(DOMAIN es)
      /\ ToSet(l.ordered) = done \cup {c}
      /\ Len(l.ordered) = Len(ordered) + 1 /\ l.ordered[Len(ordered) + 1] = c
      /\ \A i \in DOMAIN ordered : l.ordered[i] = ordered[i]
      /\ DOMAIN ordered = 1 .. Len(ordered)
      /\ DOMAIN l.ordered = 1 .. Len(ordered) + 1
      /\ Len(ordered) \in Nat
  BY <1>1, <1>2, <1>3, <1>7, Appended, SMTT(30)
<1>9. \A s \in DOMAIN es :
        /\ s \in dependents <=> c \in Waiting(s)
        /\ KnownDeps(es, s) \ (done \cup {c}) = Waiting(s) \ {c}
  BY <1>7 DEF KnownDeps
<1>10. ASSUME NEW s \in DOMAIN es
       PROVE  degree[s] = Cardinality(KnownDeps(es, s) \ (done \cup {c}))
  <2>1. IsFiniteSet(Waiting(s)) /\ Cardinality(Waiting(s)) \in Nat
    BY EntriesFinite DEF KnownDeps
  <2>2. Cardinality(Waiting(s) \ {c})
          = IF c \in Waiting(s) THEN Cardinality(Waiting(s)) - 1 ELSE Cardinality(Waiting(s))
    BY <2>1, FS_RemoveElement
  <2>3. degree[s] = IF s \in dependents THEN Cardinality(Waiting(s)) - 1 ELSE Cardinality(Waiting(s))
    BY <1>3
  <2> QED
    BY <1>9, <2>2, <2>3
<1>11. ready = {s \in dependents : KnownDeps(es, s) \subseteq done \cup {c}}
  <2>1. ASSUME NEW s \in DOMAIN es
        PROVE  degree[s] = 0 <=> KnownDeps(es, s) \subseteq done \cup {c}
    <3>1. PICK W : W = KnownDeps(es, s) \ (done \cup {c})
      OBVIOUS
    <3>2. IsFiniteSet(W)
      BY <3>1, EntriesFinite DEF KnownDeps
    <3>3. Cardinality(W) = 0 <=> W = {}
      BY <3>2, FS_EmptySet
    <3> QED
      BY <1>10, <3>1, <3>3
  <2> QED
    BY <2>1
<1>12. \A s : s \in Ready(es, done \cup {c}) <=> s \in (R \ {c}) \cup ready
  <2> SUFFICES ASSUME NEW s \in DOMAIN es
               PROVE  s \in Ready(es, done \cup {c}) <=> s \in (R \ {c}) \cup ready
    BY <1>3, <1>11 DEF Ready
  <2>1. s \in Ready(es, done \cup {c}) <=> s \notin done \cup {c} /\ KnownDeps(es, s) \subseteq done \cup {c}
    BY DEF Ready
  <2>2. s \in R <=> s \notin done /\ KnownDeps(es, s) \subseteq done
    BY <1>1 DEF Ready
  <2>3. s \in ready <=> c \in KnownDeps(es, s) /\ KnownDeps(es, s) \subseteq done \cup {c}
    BY <1>7, <1>11 DEF KnownDeps
  <2>4. c \in KnownDeps(es, s) => s \notin done /\ s # c
    BY <1>7
  <2> HIDE DEF ready
  <2> QED
    BY <2>1, <2>2, <2>3, <2>4
<1>13. Greedy(gs, es, l.ordered)
  <2> SUFFICES ASSUME NEW i \in DOMAIN l.ordered
               PROVE  /\ l.ordered[i] \in Ready(es, Ahead(l.ordered, i))
                      /\ \A s \in Ready(es, Ahead(l.ordered, i)) \ {l.ordered[i]} :
                           RanksBefore(gs, es, l.ordered[i], s)
    BY DEF Greedy
  <2>1. Ahead(l.ordered, i) = {ordered[j] : j \in 1 .. i - 1}
    <3>1. \A j \in 1 .. i - 1 : j \in DOMAIN ordered
      BY <1>8
    <3> QED
      BY <1>8, <3>1 DEF Ahead
  <2>2. CASE i \in DOMAIN ordered
    BY <1>3, <1>8, <2>1, <2>2 DEF Greedy, Ahead
  <2>3. CASE i \notin DOMAIN ordered
    <3>1. i = Len(ordered) + 1 /\ 1 .. i - 1 = DOMAIN ordered
      BY <1>8, <2>3
    <3>2. Ahead(l.ordered, i) = done
      BY <1>1, <2>1, <3>1 DEF ToSet
    <3> QED
      BY <1>1, <1>5, <1>6, <1>8, <3>1, <3>2
  <2> QED
    BY <2>2, <2>3
<1>14. l.queue = Ranked(gs, es, Ready(es, ToSet(l.ordered)))
  <2>1. Ready(es, done \cup {c}) = (R \ {c}) \cup ready
    BY <1>12
  <2> QED
    BY <1>2, <1>5, <1>8, <2>1
<1>15. l.degree = [s \in DOMAIN es |-> Cardinality(KnownDeps(es, s) \ ToSet(l.ordered))]
  BY <1>2, <1>8, <1>10
<1>16. KahnInv(gs, es, l)
  BY <1>8, <1>13, <1>14, <1>15 DEF KahnInv
<1> QED
  BY <1>1, <1>8, <1>16

(* The rounds of the algorithm, as the recursive function that Kahn evaluates.   *)
Rounds(gs, es, n, f) ==
  f = [i \in 0 .. n |-> IF i = 0 THEN KahnStart(gs, es) ELSE KahnNext(gs, es, f[i - 1])]

LEMMA RoundsExist ==
  ASSUME NEW gs, NEW es, NEW N \in Nat
  PROVE  \E f : Rounds(gs, es, N, f)
<1> DEFINE Missing == {n \in Nat : ~ \E f : Rounds(gs, es, n, f)}
<1>1. SUFFICES ASSUME Missing # {} PROVE FALSE
  OBVIOUS
<1>2. PICK n \in Missing : \A k \in Missing : n <= k
  <2>1. Missing \in SUBSET Nat
    OBVIOUS
  <2> QED
    BY <1>1, <2>1, LeastExists
<1>3. n # 0
  <2> SUFFICES ASSUME n = 0 PROVE FALSE
    OBVIOUS
  <2>1. Rounds(gs, es, 0, [i \in 0 .. 0 |-> KahnStart(gs, es)])
    BY DEF Rounds
  <2> QED
    BY <2>1
<1>4. n - 1 \in Nat /\ n - 1 \notin Missing
  BY <1>2, <1>3
<1>5. PICK f : Rounds(gs, es, n - 1, f)
  BY <1>4
<1>6. PICK g : g = [i \in 0 .. n |-> IF i = n THEN KahnNext(gs, es, f[n - 1]) ELSE f[i]]
  OBVIOUS
<1>7. ASSUME NEW i \in 0 .. n
      PROVE  g[i] = IF i = 0 THEN KahnStart(gs, es) ELSE KahnNext(gs, es, g[i - 1])
  <2>1. CASE i = n
    BY <1>3, <1>4, <1>6, <2>1
  <2>2. CASE i # n
    <3>1. i \in 0 .. n - 1 /\ (i # 0 => i - 1 \in 0 .. n /\ i - 1 # n)
      BY <2>2
    <3>2. g[i] = f[i] /\ (i # 0 => g[i - 1] = f[i - 1])
      BY <1>6, <2>2, <3>1
    <3>3. f[i] = IF i = 0 THEN KahnStart(gs, es) ELSE KahnNext(gs, es, f[i - 1])
      BY <1>5, <3>1 DEF Rounds
    <3> QED
      BY <3>2, <3>3
  <2> QED
    BY <2>1, <2>2
<1>8. Rounds(gs, es, n, g)
  <2>1. g = [i \in 0 .. n |-> g[i]]
    BY <1>6
  <2>2. [i \in 0 .. n |-> g[i]]
          = [i \in 0 .. n |-> IF i = 0 THEN KahnStart(gs, es) ELSE KahnNext(gs, es, g[i - 1])]
    BY <1>7
  <2> QED
    BY <2>1, <2>2 DEF Rounds
<1> QED
  BY <1>2, <1>8

(* After n rounds either nothing is ready any more or n entries are ordered.     *)
RoundInv(gs, es, k, n) ==
  /\ KahnInv(gs, es, k)
  /\ Ready(es, ToSet(k.ordered)) = {} \/ Len(k.ordered) = n

LEMMA NextInv ==
  ASSUME NEW gs, NEW es, Judged(gs, es), NEW k, NEW n \in Nat, RoundInv(gs, es, k, n)
  PROVE  RoundInv(gs, es, KahnNext(gs, es, k), n + 1)
<1>1. Ready(es, ToSet(k.ordered)) \in SUBSET DOMAIN es
  BY DEF Ready
<1>2. k.queue \in Seq(DOMAIN es) /\ ToSet(k.queue) = Ready(es, ToSet(k.ordered))
  BY <1>1, RankedOnce DEF RoundInv, KahnInv
<1>3. ToSet(<< >>) = {}
  BY DEF ToSet
<1>4. CASE k.queue = << >>
  BY <1>2, <1>3, <1>4 DEF KahnNext, RoundInv
<1>5. CASE k.queue # << >>
  <2>1. Ready(es, ToSet(k.ordered)) # {}
    BY <1>2, <1>5, HeadAndTail
  <2>2. KahnNext(gs, es, k) = KahnStep(gs, es, k)
    BY <1>5 DEF KahnNext
  <2> QED
    BY <1>5, <2>1, <2>2, StepInv DEF RoundInv
<1> QED
  BY <1>4, <1>5

(* What the algorithm ends with: nothing is ready any more.                      *)
LEMMA KahnEnds ==
  ASSUME NEW gs, NEW es, Judged(gs, es)
  PROVE  /\ KahnInv(gs, es, Kahn(gs, es))
         /\ Ready(es, ToSet(Kahn(gs, es).ordered)) = {}
<1>1. PICK N : N = Cardinality(DOMAIN es) /\ N \in Nat
  BY EntriesFinite
<1>2. PICK f : Rounds(gs, es, N, f) /\ Kahn(gs, es) = f[N]
  <2>1. \E f : Rounds(gs, es, N, f)
    BY <1>1, RoundsExist
  <2> DEFINE F == CHOOSE f : Rounds(gs, es, N, f)
  <2>2. Rounds(gs, es, N, F)
    BY <2>1
  <2>3. Kahn(gs, es) = F[N]
    BY <1>1 DEF Kahn, Rounds
  <2> QED
    BY <2>2, <2>3
<1>3. \A i \in 0 .. N : f[i] = IF i = 0 THEN KahnStart(gs, es) ELSE KahnNext(gs, es, f[i - 1])
  BY <1>2 DEF Rounds
<1>4. RoundInv(gs, es, f[N], N)
  <2> DEFINE Broken == {n \in 0 .. N : ~RoundInv(gs, es, f[n], n)}
  <2>1. SUFFICES ASSUME Broken # {} PROVE FALSE
    BY <1>1
  <2>2. PICK n \in Broken : \A m \in Broken : n <= m
    <3>1. Broken \in SUBSET Nat
      BY <1>1
    <3> QED
      BY <2>1, <3>1, LeastExists
  <2>3. n # 0
    <3>1. f[0] = KahnStart(gs, es)
      BY <1>1, <1>3
    <3>2. RoundInv(gs, es, f[0], 0)
      BY <3>1, StartInv DEF RoundInv
    <3> QED
      BY <2>2, <3>2
  <2>4. n - 1 \in 0 .. N /\ n - 1 \in Nat /\ n - 1 \notin Broken /\ n - 1 + 1 = n /\ n \in 0 .. N
    BY <1>1, <2>2, <2>3
  <2>5. RoundInv(gs, es, KahnNext(gs, es, f[n - 1]), n)
    BY <2>4, NextInv
  <2>6. f[n] = KahnNext(gs, es, f[n - 1])
    BY <1>3, <2>3, <2>4
  <2> QED
    BY <2>2, <2>5, <2>6
<1>5. PICK order : order = Kahn(gs, es).ordered
  OBVIOUS
<1>6. /\ order \in Seq(DOMAIN es) /\ Greedy(gs, es, order)
      /\ Ready(es, ToSet(order)) = {} \/ Len(order) = N
  BY <1>2, <1>4, <1>5 DEF RoundInv, KahnInv
<1>7. ASSUME Len(order) = N
      PROVE  Ready(es, ToSet(order)) = {}
  <2>1. order \in [1 .. N -> DOMAIN es] /\ IsInjective(order)
    BY <1>6, <1>7, GreedyOrders
  <2>2. IsFiniteSet(1 .. N) /\ Cardinality(1 .. N) = N
    BY <1>1, FS_Interval
  <2>3. PICK I, D : I = 1 .. N /\ D = DOMAIN es
    OBVIOUS
  <2>4. order \in Injection(I, D) /\ IsFiniteSet(D) /\ Cardinality(I) = Cardinality(D)
    BY <1>1, <2>1, <2>2, <2>3, EntriesFinite DEF Injection
  <2>5. order \in Surjection(I, D)
    BY <2>4, FS_Injection
  <2>6. \A s \in DOMAIN es : s \in ToSet(order)
    BY <2>1, <2>3, <2>5 DEF Surjection, ToSet
  <2> QED
    BY <2>6 DEF Ready
<1> QED
  BY <1>2, <1>4, <1>5, <1>6, <1>7 DEF RoundInv

-----------------------------------------------------------------------------
(* The algorithm refuses exactly the charters whose dependencies have a cycle.  *)

Acyclic(es) == \A S \in (SUBSET DOMAIN es) \ {{}} : \E s \in S : es[s].deps \cap S = {}

LEMMA BlockedWait ==
  ASSUME NEW gs, NEW es, Judged(gs, es)
  PROVE  LET done == ToSet(Kahn(gs, es).ordered)
         IN Blocked(gs, es) = {s \in DOMAIN es : KnownDeps(es, s) \ done # {}}
<1> DEFINE done == ToSet(Kahn(gs, es).ordered)
<1>1. Kahn(gs, es).degree = [s \in DOMAIN es |-> Cardinality(KnownDeps(es, s) \ done)]
  BY KahnEnds DEF KahnInv
<1>2. ASSUME NEW s \in DOMAIN es
      PROVE  Cardinality(KnownDeps(es, s) \ done) > 0 <=> KnownDeps(es, s) \ done # {}
  <2>1. PICK W : W = KnownDeps(es, s) \ done
    OBVIOUS
  <2>2. IsFiniteSet(W) /\ Cardinality(W) \in Nat
    BY <2>1, EntriesFinite DEF KnownDeps
  <2>3. Cardinality(W) = 0 <=> W = {}
    BY <2>2, FS_EmptySet
  <2> QED
    BY <2>1, <2>2, <2>3
<1> QED
  BY <1>1, <1>2 DEF Blocked

(* Nothing is blocked: every entry was ordered, after its dependencies.          *)
LEMMA UnblockedOrder ==
  ASSUME NEW gs, NEW es, Judged(gs, es), Blocked(gs, es) = {}
  PROVE  /\ Kahn(gs, es).ordered \in Seq(DOMAIN es)
         /\ Greedy(gs, es, Kahn(gs, es).ordered)
         /\ ToSet(Kahn(gs, es).ordered) = DOMAIN es
<1>1. PICK order : order = Kahn(gs, es).ordered
  OBVIOUS
<1>2. order \in Seq(DOMAIN es) /\ Greedy(gs, es, order) /\ Ready(es, ToSet(order)) = {}
  BY <1>1, KahnEnds DEF KahnInv
<1>3. \A s \in DOMAIN es : KnownDeps(es, s) \subseteq ToSet(order)
  BY <1>1, BlockedWait
<1>4. ToSet(order) = DOMAIN es
  BY <1>2, <1>3, GreedyOrders DEF Ready
<1> QED
  BY <1>1, <1>2, <1>4

LEMMA UnblockedIsAcyclic ==
  ASSUME NEW gs, NEW es, Judged(gs, es), Blocked(gs, es) = {}
  PROVE  Acyclic(es)
<1>1. PICK order \in Seq(DOMAIN es) : Greedy(gs, es, order) /\ ToSet(order) = DOMAIN es
  BY UnblockedOrder
<1>2. DOMAIN order = 1 .. Len(order) /\ Len(order) \in Nat
  BY <1>1, GreedyOrders
<1> SUFFICES ASSUME NEW S \in (SUBSET DOMAIN es) \ {{}}
             PROVE  \E s \in S : es[s].deps \cap S = {}
  BY DEF Acyclic
<1> DEFINE Places == {i \in DOMAIN order : order[i] \in S}
<1>3. PICK i \in Places : \A j \in Places : i <= j
  <2>1. Places \in SUBSET Nat
    BY <1>2
  <2>2. Places # {}
    BY <1>1 DEF ToSet
  <2> QED
    BY <2>1, <2>2, LeastExists
<1>4. KnownDeps(es, order[i]) \subseteq Ahead(order, i)
  BY <1>1 DEF Greedy, Ready
<1>5. Ahead(order, i) \cap S = {}
  <2> SUFFICES ASSUME NEW j \in 1 .. i - 1, order[j] \in S
               PROVE  FALSE
    BY DEF Ahead
  <2>1. j \in Places /\ j < i
    BY <1>2
  <2> QED
    BY <1>2, <1>3, <2>1
<1>6. es[order[i]].deps \cap S = {}
  BY <1>4, <1>5 DEF KnownDeps
<1> QED
  BY <1>6

LEMMA AcyclicIsUnblocked ==
  ASSUME NEW gs, NEW es, Judged(gs, es), Acyclic(es)
  PROVE  Blocked(gs, es) = {}
<1>1. PICK done : done = ToSet(Kahn(gs, es).ordered)
  OBVIOUS
<1>2. /\ Ready(es, done) = {}
      /\ \A s \in done : KnownDeps(es, s) \subseteq done
  BY <1>1, KahnEnds, GreedyOrders DEF KahnInv
<1>3. DOMAIN es \ done = {}
  <2> SUFFICES ASSUME DOMAIN es \ done # {} PROVE FALSE
    OBVIOUS
  <2>1. PICK s \in DOMAIN es \ done : es[s].deps \cap (DOMAIN es \ done) = {}
    BY DEF Acyclic
  <2>2. KnownDeps(es, s) \subseteq done
    BY <2>1 DEF KnownDeps
  <2> QED
    BY <1>2, <2>2 DEF Ready
<1>4. \A s \in DOMAIN es : KnownDeps(es, s) \ done = {}
  BY <1>2, <1>3
<1> QED
  BY <1>1, <1>4, BlockedWait

(* The search of Charter.OrderedSpecs is exact: it blocks the charters whose      *)
(* dependencies have a cycle, and no others.                                      *)
THEOREM SearchIsExact ==
  ASSUME NEW gs, NEW es, Judged(gs, es)
  PROVE  Blocked(gs, es) = {} <=> Acyclic(es)
BY UnblockedIsAcyclic, AcyclicIsUnblocked

-----------------------------------------------------------------------------
(* The stored charter is one the commands accept.                                *)

StoredInv == TypeOK /\ Accepted(groups, entries)

LEMMA StoredJudged ==
  ASSUME StoredInv
  PROVE  Judged(groups, entries)
<1>1. PICK D \in SUBSET Groups : groups \in [D -> GroupOrders]
  BY DEF StoredInv, TypeOK, PartialFunctions
<1> QED
  BY <1>1, OrdersAssumption DEF StoredInv, TypeOK, Accepted, Entry, Judged

LEMMA StoredIsJudged == StoredInv => Judged(groups, entries)
BY StoredJudged

LEMMA InitStored == Init => StoredInv
<1> SUFFICES ASSUME Init PROVE StoredInv
  OBVIOUS
<1>1. DOMAIN entries = {}
  BY DEF Init
<1>2. Accepted(groups, entries)
  BY <1>1 DEF Accepted, Blocked
<1> QED
  BY <1>2, InitTyped DEF StoredInv

LEMMA StepStored ==
  ASSUME StoredInv, [Next]_vars
  PROVE  StoredInv'
<1>1. TypeOK'
  BY StepTyped DEF StoredInv
<1>2. \/ \E gs, es, files : Apply(gs, es, files)
      \/ UNCHANGED <<groups, entries>>
  BY DEF Next, CreateSpec, AddSpec, RemoveSpec, LoseTracking, vars
<1>3. Accepted(groups', entries')
  <2>1. ASSUME NEW gs, NEW es, NEW files, Apply(gs, es, files)
        PROVE  Accepted(groups', entries')
    <3>1. Accepted(gs, es) /\ groups' = gs /\ entries' = es
      BY <2>1 DEF Apply
    <3> QED
      BY <3>1
  <2>2. CASE UNCHANGED <<groups, entries>>
    <3>1. Accepted(groups, entries) /\ groups' = groups /\ entries' = entries
      BY <2>2 DEF StoredInv
    <3> QED
      BY <3>1
  <2> QED
    BY <1>2, <2>1, <2>2
<1> QED
  BY <1>1, <1>3 DEF StoredInv

LEMMA AlwaysStored == Spec => []StoredInv
BY InitStored, StepStored, PTL DEF Spec

(* DependenciesAcyclic: whatever was added, replaced, recreated and removed,     *)
(* every set of stored entries has a member that depends on none of them, so the *)
(* search of Charter.OrderedSpecs misses no cycle.                               *)
THEOREM DependenciesStayAcyclic == Spec => []DependenciesAcyclic
<1>1. StoredInv => DependenciesAcyclic
  <2> SUFFICES ASSUME StoredInv PROVE DependenciesAcyclic
    OBVIOUS
  <2>1. Blocked(groups, entries) = {}
    BY DEF StoredInv, Accepted
  <2> QED
    BY <2>1, StoredJudged, UnblockedIsAcyclic DEF Acyclic, DependenciesAcyclic
<1> QED
  BY <1>1, AlwaysStored, PTL

-----------------------------------------------------------------------------
(* The order a stored charter is listed in.                                      *)

(* A sequence that has every entry once has as many places as there are entries. *)
LEMMA OnceEach ==
  ASSUME NEW D, IsFiniteSet(D), NEW order \in Seq(D), IsInjective(order), ToSet(order) = D
  PROVE  order \in SetToSeqs(D)
<1>1. PICK I, n : I = 1 .. n /\ n = Len(order) /\ n \in Nat
  BY LenProperties
<1>2. /\ I = DOMAIN order /\ order \in [I -> D]
      /\ IsFiniteSet(I) /\ Cardinality(I) = n
  <2>1. I = DOMAIN order /\ order \in [I -> D]
    BY <1>1, LenProperties
  <2>2. n \in Nat
    BY <1>1
  <2>3. IsFiniteSet(1 .. n) /\ Cardinality(1 .. n) = n
    BY <2>2, FS_Interval
  <2> QED
    BY <1>1, <2>1, <2>3
<1>3. order \in Injection(I, D) /\ order \in Surjection(I, D)
  BY <1>2 DEF Injection, Surjection, ToSet
<1>4. Cardinality(I) = Cardinality(D)
  BY <1>3, FS_Injection
<1>5. order \in [1 .. Cardinality(D) -> D]
  BY <1>1, <1>2, <1>4
<1>6. \A i, j \in 1 .. Cardinality(D) : i # j => order[i] # order[j]
  BY <1>1, <1>2, <1>4 DEF IsInjective
<1> QED
  BY <1>5, <1>6 DEF SetToSeqs

LEMMA EachOnce ==
  ASSUME NEW D, IsFiniteSet(D), NEW order \in SetToSeqs(D)
  PROVE  /\ Cardinality(D) \in Nat
         /\ order \in [1 .. Cardinality(D) -> D]
         /\ \A i, j \in 1 .. Cardinality(D) : order[i] = order[j] => i = j
         /\ \A s \in D : \E i \in 1 .. Cardinality(D) : order[i] = s
<1>1. PICK N : N = Cardinality(D) /\ N \in Nat
  BY FS_CardinalityType
<1>2. PICK I : I = 1 .. N /\ IsFiniteSet(I) /\ Cardinality(I) = N
  BY <1>1, FS_Interval
<1>3. order \in [I -> D] /\ \A i, j \in I : order[i] = order[j] => i = j
  BY <1>1, <1>2 DEF SetToSeqs
<1>4. order \in Injection(I, D)
  BY <1>3 DEF Injection, IsInjective
<1>5. order \in Surjection(I, D)
  BY <1>1, <1>2, <1>4, FS_Injection
<1> QED
  BY <1>1, <1>2, <1>3, <1>5 DEF Surjection

LEMMA ListedHonours ==
  ASSUME NEW es, NEW gs, NEW order \in Seq(DOMAIN es), Greedy(gs, es, order)
  PROVE  HonoursDependencies(es, order)
<1>1. DOMAIN order = 1 .. Len(order) /\ Len(order) \in Nat /\ IsInjective(order)
  BY GreedyOrders
<1> SUFFICES ASSUME NEW i \in DOMAIN order, NEW j \in DOMAIN order, order[i] \in es[order[j]].deps
             PROVE  i < j
  BY DEF HonoursDependencies
<1>2. order[i] \in KnownDeps(es, order[j])
  BY <1>1 DEF KnownDeps
<1>3. PICK m \in 1 .. j - 1 : order[i] = order[m]
  BY <1>2 DEF Greedy, Ready, Ahead
<1>4. m \in DOMAIN order
  BY <1>1, <1>3
<1>5. i = m
  BY <1>1, <1>3, <1>4 DEF IsInjective
<1> QED
  BY <1>1, <1>3, <1>5

(* Where another order that honours the dependencies first departs from a greedy *)
(* one, what it takes was ready, so it ranks after the greedy choice.             *)
LEMMA GreedyIsLeast ==
  ASSUME NEW gs, NEW es, Judged(gs, es),
         NEW order \in Seq(DOMAIN es), Greedy(gs, es, order),
         NEW o \in SetToSeqs(DOMAIN es), HonoursDependencies(es, o),
         NEW i \in DOMAIN o, i \in DOMAIN order,
         o[i] # order[i], \A j \in 1 .. i - 1 : o[j] = order[j]
  PROVE  RanksBefore(gs, es, order[i], o[i])
<1>0. IsFiniteSet(DOMAIN es) /\ Cardinality(DOMAIN es) \in Nat
  BY EntriesFinite
<1>1. PICK N : N = Cardinality(DOMAIN es) /\ N \in Nat
  BY <1>0
<1>2. /\ o \in [1 .. N -> DOMAIN es]
      /\ \A x, y \in 1 .. N : o[x] = o[y] => x = y
      /\ \A s \in DOMAIN es : \E x \in 1 .. N : o[x] = s
  <2>1. PICK D : D = DOMAIN es
    OBVIOUS
  <2>2. IsFiniteSet(D) /\ o \in SetToSeqs(D) /\ Cardinality(D) = N
    BY <1>0, <1>1, <2>1
  <2>3. /\ o \in [1 .. N -> D]
        /\ \A x, y \in 1 .. N : o[x] = o[y] => x = y
        /\ \A s \in D : \E x \in 1 .. N : o[x] = s
    BY <2>2, EachOnce
  <2> QED
    BY <2>1, <2>3
<1>3. Ahead(order, i) = {o[j] : j \in 1 .. i - 1}
  BY DEF Ahead
<1>4. \A j \in 1 .. i - 1 : j \in 1 .. N /\ j # i
  BY <1>1, <1>2
<1>5. o[i] \in DOMAIN es \ Ahead(order, i)
  BY <1>2, <1>3, <1>4
<1>6. KnownDeps(es, o[i]) \subseteq Ahead(order, i)
  <2> SUFFICES ASSUME NEW d \in es[o[i]].deps, d \in DOMAIN es
               PROVE  d \in Ahead(order, i)
    BY DEF KnownDeps
  <2>1. PICK x \in 1 .. N : o[x] = d
    BY <1>2
  <2>2. x < i
    BY <1>2, <2>1 DEF HonoursDependencies
  <2>3. x \in 1 .. i - 1
    BY <1>1, <1>2, <2>1, <2>2
  <2> QED
    BY <1>3, <2>1, <2>3
<1>7. o[i] \in Ready(es, Ahead(order, i)) \ {order[i]}
  BY <1>5, <1>6 DEF Ready
<1> QED
  BY <1>7 DEF Greedy

(* OrderedIsLeast: of all the orders that put every entry after its dependencies, *)
(* the one Charter.OrderedSpecs lists is the one whose first difference from any   *)
(* other ranks first.                                                             *)
THEOREM ListedInBestOrder == Spec => []OrderedIsLeast
<1>1. StoredInv => OrderedIsLeast
  <2> SUFFICES ASSUME StoredInv PROVE OrderedIsLeast
    OBVIOUS
  <2>1. Judged(groups, entries) /\ Blocked(groups, entries) = {}
    BY StoredJudged DEF StoredInv, Accepted
  <2>2. PICK listed : listed = OrderedSpecs(groups, entries)
    OBVIOUS
  <2>3. listed = Kahn(groups, entries).ordered
    BY <2>1, <2>2 DEF OrderedSpecs
  <2>4. /\ listed \in Seq(DOMAIN entries) /\ Greedy(groups, entries, listed)
        /\ ToSet(listed) = DOMAIN entries
    BY <2>1, <2>3, UnblockedOrder
  <2>5. IsFiniteSet(DOMAIN entries)
    BY <2>1, EntriesFinite
  <2>6. listed \in SetToSeqs(DOMAIN entries)
    BY <2>4, <2>5, GreedyOrders, OnceEach
  <2>7. HonoursDependencies(entries, listed)
    BY <2>4, ListedHonours
  <2>8. ASSUME NEW o \in SetToSeqs(DOMAIN entries), HonoursDependencies(entries, o), o # listed
        PROVE  LET i == CHOOSE k \in DOMAIN o : o[k] # listed[k] /\ \A j \in 1 .. k - 1 : o[j] = listed[j]
               IN RanksBefore(groups, entries, listed[i], o[i])
    <3>1. PICK N \in Nat : o \in [1 .. N -> DOMAIN entries] /\ listed \in [1 .. N -> DOMAIN entries]
      BY <2>5, <2>6, EachOnce
    <3> DEFINE Differ == {k \in 1 .. N : o[k] # listed[k]}
    <3>2. PICK k \in Differ : \A j \in Differ : k <= j
      <4>1. Differ \in SUBSET Nat /\ Differ # {}
        BY <2>8, <3>1
      <4> QED
        BY <4>1, LeastExists
    <3>3. \A j \in 1 .. k - 1 : o[j] = listed[j]
      BY <3>1, <3>2
    <3>4. PICK i : i = CHOOSE m \in DOMAIN o : o[m] # listed[m] /\ \A j \in 1 .. m - 1 : o[j] = listed[j]
      OBVIOUS
    <3>5. i \in DOMAIN o /\ o[i] # listed[i] /\ \A j \in 1 .. i - 1 : o[j] = listed[j]
      BY <3>1, <3>2, <3>3, <3>4
    <3>6. RanksBefore(groups, entries, listed[i], o[i])
      BY <2>1, <2>4, <2>8, <3>1, <3>5, GreedyIsLeast
    <3> QED
      BY <3>4, <3>6
  <2> QED
    BY <2>2, <2>6, <2>7, <2>8 DEF OrderedIsLeast
<1> QED
  BY <1>1, AlwaysStored, PTL

-----------------------------------------------------------------------------
(* The cycle a refused command names.                                            *)

LEMMA BlockedDepExists ==
  ASSUME NEW gs, NEW es, Judged(gs, es), NEW s \in Blocked(gs, es)
  PROVE  /\ FirstBlockedDep(gs, es, s) \in Blocked(gs, es)
         /\ FirstBlockedDep(gs, es, s) \in es[s].deps
<1>1. PICK done : done = ToSet(Kahn(gs, es).ordered)
  OBVIOUS
<1>2. Ready(es, done) = {} /\ Blocked(gs, es) = {t \in DOMAIN es : KnownDeps(es, t) \ done # {}}
  BY <1>1, KahnEnds, BlockedWait
<1>3. PICK S : S = KnownDeps(es, s) \cap Blocked(gs, es)
  OBVIOUS
<1>4. S # {} /\ S \in SUBSET DOMAIN es
  <2>1. PICK t : t \in KnownDeps(es, s) \ done
    BY <1>2
  <2>2. t \in Blocked(gs, es)
    BY <1>2, <2>1 DEF Ready, KnownDeps
  <2> QED
    BY <1>3, <2>1, <2>2 DEF KnownDeps
<1>5. Head(Ranked(gs, es, S)) \in S
  BY <1>4, RankedHead
<1> QED
  BY <1>3, <1>5 DEF FirstBlockedDep, KnownDeps

WalkInv(gs, es, p, n) ==
  /\ p \in Seq(Blocked(gs, es)) /\ p # << >> /\ IsInjective(p)
  /\ \A i \in 1 .. Len(p) - 1 : p[i + 1] \in es[p[i]].deps
  /\ Len(p) = n + 1 \/ FirstBlockedDep(gs, es, Last(p)) \in ToSet(p)

LEMMA WalkNextInv ==
  ASSUME NEW gs, NEW es, Judged(gs, es), NEW p, NEW n \in Nat, WalkInv(gs, es, p, n)
  PROVE  WalkInv(gs, es, WalkNext(gs, es, p), n + 1)
<1>1. PICK next : next = FirstBlockedDep(gs, es, Last(p))
  OBVIOUS
<1>2. /\ p \in Seq(Blocked(gs, es)) /\ p # << >> /\ IsInjective(p)
      /\ DOMAIN p = 1 .. Len(p) /\ Len(p) \in Nat /\ Len(p) # 0
  BY LenProperties, EmptySeq DEF WalkInv
<1>3. Last(p) = p[Len(p)] /\ Last(p) \in Blocked(gs, es)
  BY <1>2 DEF Last
<1>4. next \in Blocked(gs, es) /\ next \in es[Last(p)].deps
  BY <1>1, <1>3, BlockedDepExists
<1>5. Contains(p, next) <=> next \in ToSet(p)
  BY <1>2 DEF Contains, ToSet
<1>6. CASE next \in ToSet(p)
  BY <1>1, <1>5, <1>6 DEF WalkNext, WalkInv
<1>7. CASE next \notin ToSet(p)
  <2>1. PICK q : q = Append(p, next) /\ q = WalkNext(gs, es, p)
    BY <1>1, <1>5, <1>7 DEF WalkNext
  <2>2. /\ q \in Seq(Blocked(gs, es))
        /\ Len(q) = Len(p) + 1 /\ q[Len(p) + 1] = next
        /\ \A i \in DOMAIN p : q[i] = p[i]
        /\ DOMAIN q = 1 .. Len(p) + 1
    <3>1. PICK B : B = Blocked(gs, es)
      OBVIOUS
    <3>2. p \in Seq(B) /\ next \in B
      BY <1>2, <1>4, <3>1
    <3>3. /\ Append(p, next) \in Seq(B)
          /\ Len(Append(p, next)) = Len(p) + 1 /\ Append(p, next)[Len(p) + 1] = next
          /\ \A i \in DOMAIN p : Append(p, next)[i] = p[i]
          /\ DOMAIN Append(p, next) = 1 .. Len(p) + 1
      BY <3>2, Appended
    <3> QED
      BY <2>1, <3>1, <3>3, Zenon
  <2>3. q # << >>
    BY <1>2, <2>2, EmptySeq
  <2>4. \A i \in DOMAIN p : q[i] # next
    BY <1>7, <2>2 DEF ToSet
  <2>5. IsInjective(q)
    BY <1>2, <2>2, <2>4 DEF IsInjective
  <2>6. ASSUME NEW i \in 1 .. Len(q) - 1
        PROVE  q[i + 1] \in es[q[i]].deps
    <3>1. i \in DOMAIN p /\ q[i] = p[i]
      BY <1>2, <2>2
    <3>2. CASE i = Len(p)
      BY <1>3, <1>4, <2>2, <3>1, <3>2
    <3>3. CASE i # Len(p)
      <4>1. i \in 1 .. Len(p) - 1 /\ i + 1 \in DOMAIN p
        BY <1>2, <3>1, <3>3
      <4> QED
        BY <2>2, <3>1, <4>1 DEF WalkInv
    <3> QED
      BY <3>2, <3>3
  <2>7. Len(p) = n + 1
    BY <1>1, <1>7 DEF WalkInv
  <2> QED
    BY <2>1, <2>2, <2>3, <2>5, <2>6, <2>7 DEF WalkInv
<1> QED
  BY <1>6, <1>7

(* The walk as the recursive function that Walk evaluates.                       *)
Paths(gs, es, n, f) ==
  f = [i \in 0 .. n |-> IF i = 0 THEN <<Head(Ranked(gs, es, Blocked(gs, es)))>>
                                 ELSE WalkNext(gs, es, f[i - 1])]

LEMMA PathsExist ==
  ASSUME NEW gs, NEW es, NEW N \in Nat
  PROVE  \E f : Paths(gs, es, N, f)
<1> DEFINE Missing == {n \in Nat : ~ \E f : Paths(gs, es, n, f)}
<1>1. SUFFICES ASSUME Missing # {} PROVE FALSE
  OBVIOUS
<1>2. PICK n \in Missing : \A k \in Missing : n <= k
  <2>1. Missing \in SUBSET Nat
    OBVIOUS
  <2> QED
    BY <1>1, <2>1, LeastExists
<1>3. n # 0
  <2> SUFFICES ASSUME n = 0 PROVE FALSE
    OBVIOUS
  <2>1. Paths(gs, es, 0, [i \in 0 .. 0 |-> <<Head(Ranked(gs, es, Blocked(gs, es)))>>])
    BY DEF Paths
  <2> QED
    BY <2>1
<1>4. n - 1 \in Nat /\ n - 1 \notin Missing
  BY <1>2, <1>3
<1>5. PICK f : Paths(gs, es, n - 1, f)
  BY <1>4
<1>6. PICK g : g = [i \in 0 .. n |-> IF i = n THEN WalkNext(gs, es, f[n - 1]) ELSE f[i]]
  OBVIOUS
<1>7. ASSUME NEW i \in 0 .. n
      PROVE  g[i] = IF i = 0 THEN <<Head(Ranked(gs, es, Blocked(gs, es)))>> ELSE WalkNext(gs, es, g[i - 1])
  <2>1. CASE i = n
    BY <1>3, <1>4, <1>6, <2>1
  <2>2. CASE i # n
    <3>1. i \in 0 .. n - 1 /\ (i # 0 => i - 1 \in 0 .. n /\ i - 1 # n)
      BY <2>2
    <3>2. g[i] = f[i] /\ (i # 0 => g[i - 1] = f[i - 1])
      BY <1>6, <2>2, <3>1
    <3>3. f[i] = IF i = 0 THEN <<Head(Ranked(gs, es, Blocked(gs, es)))>> ELSE WalkNext(gs, es, f[i - 1])
      BY <1>5, <3>1 DEF Paths
    <3> QED
      BY <3>2, <3>3
  <2> QED
    BY <2>1, <2>2
<1>8. Paths(gs, es, n, g)
  <2>1. g = [i \in 0 .. n |-> g[i]]
    BY <1>6
  <2>2. [i \in 0 .. n |-> g[i]]
          = [i \in 0 .. n |-> IF i = 0 THEN <<Head(Ranked(gs, es, Blocked(gs, es)))>> ELSE WalkNext(gs, es, g[i - 1])]
    BY <1>7
  <2> QED
    BY <2>1, <2>2 DEF Paths
<1> QED
  BY <1>2, <1>8

LEMMA WalkEnds ==
  ASSUME NEW gs, NEW es, Judged(gs, es), Blocked(gs, es) # {}
  PROVE  /\ Walk(gs, es) \in Seq(Blocked(gs, es)) /\ IsInjective(Walk(gs, es))
         /\ \A i \in 1 .. Len(Walk(gs, es)) - 1 : Walk(gs, es)[i + 1] \in es[Walk(gs, es)[i]].deps
         /\ FirstBlockedDep(gs, es, Last(Walk(gs, es))) \in ToSet(Walk(gs, es))
         /\ Walk(gs, es) # << >>
<1>1. PICK N : N = Cardinality(DOMAIN es) /\ N \in Nat
  BY EntriesFinite
<1>2. PICK f : Paths(gs, es, N, f) /\ Walk(gs, es) = f[N]
  <2>1. \E f : Paths(gs, es, N, f)
    BY <1>1, PathsExist
  <2> DEFINE F == CHOOSE f : Paths(gs, es, N, f)
  <2>2. Paths(gs, es, N, F)
    BY <2>1
  <2>3. Walk(gs, es) = F[N]
    BY <1>1 DEF Walk, Paths
  <2> QED
    BY <2>2, <2>3
<1>3. \A i \in 0 .. N : f[i] = IF i = 0 THEN <<Head(Ranked(gs, es, Blocked(gs, es)))>>
                                        ELSE WalkNext(gs, es, f[i - 1])
  BY <1>2 DEF Paths
<1>4. WalkInv(gs, es, f[0], 0)
  <2>1. PICK b : b = Head(Ranked(gs, es, Blocked(gs, es)))
    OBVIOUS
  <2>2. b \in Blocked(gs, es)
    <3>1. Blocked(gs, es) \in SUBSET DOMAIN es
      BY DEF Blocked
    <3> QED
      BY <2>1, <3>1, RankedHead
  <2>3. f[0] = <<b>>
    BY <1>1, <1>3, <2>1
  <2>4. <<b>> \in Seq(Blocked(gs, es)) /\ <<b>> # << >> /\ Len(<<b>>) = 1 /\ DOMAIN <<b>> = {1}
    BY <2>2
  <2>5. IsInjective(<<b>>)
    BY <2>4 DEF IsInjective
  <2> QED
    BY <2>3, <2>4, <2>5 DEF WalkInv
<1>5. WalkInv(gs, es, f[N], N)
  <2> DEFINE Broken == {n \in 0 .. N : ~WalkInv(gs, es, f[n], n)}
  <2>1. SUFFICES ASSUME Broken # {} PROVE FALSE
    BY <1>1
  <2>2. PICK n \in Broken : \A m \in Broken : n <= m
    <3>1. Broken \in SUBSET Nat
      BY <1>1
    <3> QED
      BY <2>1, <3>1, LeastExists
  <2>3. n # 0
    BY <1>4, <2>2
  <2>4. n - 1 \in 0 .. N /\ n - 1 \in Nat /\ n - 1 \notin Broken /\ n - 1 + 1 = n /\ n \in 0 .. N
    BY <1>1, <2>2, <2>3
  <2>5. WalkInv(gs, es, WalkNext(gs, es, f[n - 1]), n)
    BY <2>4, WalkNextInv
  <2>6. f[n] = WalkNext(gs, es, f[n - 1])
    BY <1>3, <2>3, <2>4
  <2> QED
    BY <2>2, <2>5, <2>6
<1>6. PICK w : w = Walk(gs, es)
  OBVIOUS
<1>7. Len(w) # N + 1
  <2> SUFFICES ASSUME Len(w) = N + 1 PROVE FALSE
    OBVIOUS
  <2>1. Blocked(gs, es) \subseteq DOMAIN es
    BY DEF Blocked
  <2>2. w \in [1 .. N + 1 -> DOMAIN es] /\ IsInjective(w)
    BY <1>2, <1>5, <1>6, <2>1, LenProperties DEF WalkInv
  <2>3. IsFiniteSet(1 .. N + 1) /\ Cardinality(1 .. N + 1) = N + 1
    BY <1>1, FS_Interval
  <2>4. PICK I, D : I = 1 .. N + 1 /\ D = DOMAIN es
    OBVIOUS
  <2>5. w \in Injection(I, D) /\ IsFiniteSet(D)
    BY <2>2, <2>4, EntriesFinite DEF Injection
  <2>6. Cardinality(I) <= Cardinality(D)
    BY <2>5, FS_Injection
  <2> QED
    BY <1>1, <2>3, <2>4, <2>6
<1> QED
  BY <1>2, <1>5, <1>6, <1>7 DEF WalkInv

(* The place after i on a cycle of L places.                                     *)
LEMMA NextPlace ==
  ASSUME NEW L \in Nat, NEW i \in 1 .. L
  PROVE  (i % L) + 1 = IF i = L THEN 1 ELSE i + 1
<1>1. CASE i = L
  BY <1>1
<1>2. CASE i # L
  <2>1. i % L = i
    BY <1>2
  <2> QED
    BY <1>2, <2>1
<1> QED
  BY <1>1, <1>2

LEMMA CycleIsReal ==
  ASSUME NEW gs, NEW es, Judged(gs, es), Blocked(gs, es) # {}
  PROVE  LET cycle == CycleSlugs(gs, es)
         IN /\ ToSet(cycle) # {} /\ ToSet(cycle) \subseteq DOMAIN es
            /\ IsInjective(cycle)
            /\ \A i \in DOMAIN cycle :
                 /\ (i % Len(cycle)) + 1 \in DOMAIN cycle
                 /\ cycle[(i % Len(cycle)) + 1] \in es[cycle[i]].deps
<1>1. PICK w, back, c, B :
        /\ w = Walk(gs, es)
        /\ back = FirstBlockedDep(gs, es, Last(w))
        /\ c = CycleSlugs(gs, es)
        /\ B = Blocked(gs, es)
  OBVIOUS
<1>2. /\ w \in Seq(B) /\ IsInjective(w) /\ back \in ToSet(w)
      /\ \A i \in 1 .. Len(w) - 1 : w[i + 1] \in es[w[i]].deps
      /\ DOMAIN w = 1 .. Len(w) /\ Len(w) \in Nat /\ Len(w) # 0 /\ Last(w) = w[Len(w)]
  BY <1>1, WalkEnds, LenProperties, EmptySeq DEF Last
<1>3. PICK m : m = SelectInSeq(w, LAMBDA s : s = back)
  OBVIOUS
<1>4. m \in 1 .. Len(w) /\ w[m] = back
  <2> DEFINE I == {i \in 1 .. Len(w) : w[i] = back}
  <2>1. I # {} /\ I \in SUBSET Nat
    BY <1>2 DEF ToSet
  <2>2. m = CHOOSE x \in I : \A y \in I : x =< y
    BY <1>3, <2>1 DEF SelectInSeq, Min
  <2>3. \E x \in I : \A y \in I : x <= y
    BY <2>1, LeastExists
  <2>4. m \in I
    BY <2>2, <2>3
  <2> QED
    BY <2>4
<1>5. c = SubSeq(w, m, Len(w))
  BY <1>1, <1>3 DEF CycleSlugs
<1>6. PICK L : L = Len(w) - m + 1 /\ L \in Nat /\ L # 0
  BY <1>2, <1>4
<1>7. c \in Seq(B) /\ Len(c) = L /\ \A i \in 1 .. L : c[i] = w[m + i - 1]
  BY <1>2, <1>4, <1>5, <1>6, SubSeqProperties
<1>8. DOMAIN c = 1 .. L
  BY <1>7, LenProperties
<1>9. \A i \in 1 .. L : m + i - 1 \in 1 .. Len(w) /\ c[i] = w[m + i - 1]
  BY <1>2, <1>4, <1>6, <1>7
<1>10. IsInjective(c)
  <2> SUFFICES ASSUME NEW i \in 1 .. L, NEW j \in 1 .. L, c[i] = c[j]
               PROVE  i = j
    BY <1>8 DEF IsInjective
  <2>1. m + i - 1 = m + j - 1
    BY <1>2, <1>9 DEF IsInjective
  <2> QED
    BY <1>4, <2>1
<1>11. ASSUME NEW i \in 1 .. L
       PROVE  (i % L) + 1 \in 1 .. L /\ c[(i % L) + 1] \in es[c[i]].deps
  <2>1. CASE i = L
    <3>1. (i % L) + 1 = 1 /\ 1 \in 1 .. L
      BY <1>6, <2>1, NextPlace
    <3>2. c[1] = back
      BY <1>4, <1>7, <3>1
    <3>3. c[i] = Last(w)
      BY <1>2, <1>4, <1>6, <1>9, <2>1
    <3>4. Last(w) \in B
      BY <1>2
    <3>5. back \in es[Last(w)].deps
      BY <1>1, <3>4, BlockedDepExists
    <3> QED
      BY <3>1, <3>2, <3>3, <3>5
  <2>2. CASE i # L
    <3>0. (i % L) + 1 = i + 1
      BY <1>6, <2>2, NextPlace, Zenon
    <3>1. (i % L) + 1 = i + 1 /\ i + 1 \in 1 .. L
      <4>1. i + 1 \in 1 .. L
        BY <1>6, <2>2
      <4> QED
        BY <3>0, <4>1, Zenon
    <3>2. c[i + 1] = w[m + i] /\ c[i] = w[m + i - 1]
      BY <1>4, <1>9, <3>1
    <3>3. m + i - 1 \in 1 .. Len(w) - 1 /\ m + i - 1 + 1 = m + i
      BY <1>4, <1>6, <3>1
    <3>4. w[m + i] \in es[w[m + i - 1]].deps
      BY <1>2, <3>3
    <3> QED
      BY <3>1, <3>2, <3>4
  <2> QED
    BY <2>1, <2>2
<1>12. ToSet(c) # {} /\ ToSet(c) \subseteq DOMAIN es
  <2>1. B \subseteq DOMAIN es
    BY <1>1 DEF Blocked
  <2>2. \A i \in DOMAIN c : c[i] \in B
    BY <1>7, <1>8
  <2> QED
    BY <1>6, <1>8, <2>1, <2>2 DEF ToSet
<1> QED
  BY <1>1, <1>7, <1>8, <1>10, <1>11, <1>12

(* RefusedCycleIsReal: the slugs a refused command names form a cycle, named once *)
(* each, and the entry that was asked for is among them: without it the cycle      *)
(* would lie in the stored charter, which has none.                               *)
THEOREM RefusalNamesACycle == Spec => []RefusedCycleIsReal
<1>1. ASSUME StoredInv, DependenciesAcyclic
      PROVE  RefusedCycleIsReal
  <2>1. TypeOK /\ Judged(groups, entries)
    BY <1>1, StoredJudged DEF StoredInv
  <2>2. ASSUME NEW slug \in Slugs, NEW entry \in Entry, NEW es, es = WithEntry(slug, entry),
               entry.group \in DOMAIN groups, Blocked(groups, es) # {},
               NEW cycle, cycle = CycleSlugs(groups, es)
        PROVE  /\ slug \in ToSet(cycle)
               /\ IsInjective(cycle)
               /\ \A i \in DOMAIN cycle : cycle[(i % Len(cycle)) + 1] \in es[cycle[i]].deps
    <3>1. DOMAIN es = DOMAIN entries \cup {slug} /\ es[slug] = entry
      BY <2>2 DEF WithEntry
    <3>2. \A s \in DOMAIN entries : s # slug => es[s] = entries[s]
      BY <2>2 DEF WithEntry
    <3>3. Judged(groups, es)
      <4>1. entry.order \in Nat /\ groups[entry.group] \in Nat
        <5>1. PICK D \in SUBSET Groups : groups \in [D -> GroupOrders]
          BY <2>1 DEF TypeOK, PartialFunctions
        <5> QED
          BY <2>2, <5>1, OrdersAssumption DEF Entry
      <4>2. \A s \in DOMAIN es : s = slug \/ (s \in DOMAIN entries /\ s # slug)
        BY <3>1
      <4> QED
        BY <2>1, <3>1, <3>2, <4>1, <4>2 DEF Judged
    <3>4. /\ ToSet(cycle) # {} /\ ToSet(cycle) \subseteq DOMAIN es
          /\ IsInjective(cycle)
          /\ \A i \in DOMAIN cycle :
               /\ (i % Len(cycle)) + 1 \in DOMAIN cycle
               /\ cycle[(i % Len(cycle)) + 1] \in es[cycle[i]].deps
      BY <2>2, <3>3, CycleIsReal
    <3>5. slug \in ToSet(cycle)
      <4> SUFFICES ASSUME slug \notin ToSet(cycle) PROVE FALSE
        OBVIOUS
      <4>1. PICK S : S = ToSet(cycle)
        OBVIOUS
      <4>2. S \in (SUBSET DOMAIN entries) \ {{}}
        BY <3>1, <3>4, <4>1
      <4>3. PICK s \in S : entries[s].deps \cap S = {}
        BY <1>1, <4>2 DEF DependenciesAcyclic
      <4>4. PICK i \in DOMAIN cycle : cycle[i] = s
        BY <4>1, <4>3 DEF ToSet
      <4>5. cycle[(i % Len(cycle)) + 1] \in S
        BY <3>4, <4>1, <4>4 DEF ToSet
      <4>6. es[s] = entries[s]
        BY <3>2, <4>1, <4>2, <4>3
      <4> QED
        BY <3>4, <4>3, <4>4, <4>5, <4>6
    <3> QED
      BY <3>4, <3>5
  <2> QED
    BY <2>2 DEF RefusedCycleIsReal
<1>2. StoredInv /\ DependenciesAcyclic => RefusedCycleIsReal
  BY <1>1
<1> QED
  BY <1>2, AlwaysStored, DependenciesStayAcyclic, PTL

-----------------------------------------------------------------------------
(* A charter and the same charter with one more entry, on which no other entry    *)
(* depends.                                                                       *)
OneMore(gs, es, more_gs, more_es, n) ==
  /\ n \notin DOMAIN es
  /\ DOMAIN more_es = DOMAIN es \cup {n}
  /\ \A s \in DOMAIN es :
       /\ more_es[s] = es[s]
       /\ more_gs[more_es[s].group] = gs[es[s].group]
       /\ n \notin es[s].deps

LEMMA RankAntisymmetric ==
  ASSUME NEW gs, NEW es, Judged(gs, es), NEW s \in DOMAIN es, NEW t \in DOMAIN es,
         RanksBefore(gs, es, s, t), RanksBefore(gs, es, t, s)
  PROVE  FALSE
<1>1. /\ s \in Nat /\ es[s].order \in Nat /\ gs[es[s].group] \in Nat
      /\ t \in Nat /\ es[t].order \in Nat /\ gs[es[t].group] \in Nat
  BY SlugsAssumption DEF Judged
<1> QED
  BY <1>1 DEF RanksBefore

(* The two orders agree but for the place p of the entry that is one more: by      *)
(* induction, both take the first of the same ready entries.                       *)
LEMMA OneMoreOrder ==
  ASSUME NEW gs, NEW es, Judged(gs, es), NEW more_gs, NEW more_es, Judged(more_gs, more_es),
         NEW n, OneMore(gs, es, more_gs, more_es, n),
         NEW order \in Seq(DOMAIN es), Greedy(gs, es, order), ToSet(order) = DOMAIN es,
         NEW more \in Seq(DOMAIN more_es), Greedy(more_gs, more_es, more), ToSet(more) = DOMAIN more_es,
         NEW p \in DOMAIN more, more[p] = n
  PROVE  /\ Len(more) = Len(order) + 1
         /\ \A i \in DOMAIN order : order[i] = more[IF i < p THEN i ELSE i + 1]
<1>1. PICK N \in Nat : /\ DOMAIN order = 1 .. N /\ DOMAIN more = 1 .. N + 1
                       /\ Len(order) = N /\ Len(more) = N + 1
  <2>1. IsFiniteSet(DOMAIN es) /\ IsFiniteSet(DOMAIN more_es)
    BY EntriesFinite
  <2>2. order \in SetToSeqs(DOMAIN es) /\ more \in SetToSeqs(DOMAIN more_es)
    BY <2>1, GreedyOrders, OnceEach
  <2>3. /\ Cardinality(DOMAIN es) \in Nat /\ DOMAIN order = 1 .. Cardinality(DOMAIN es)
        /\ DOMAIN more = 1 .. Cardinality(DOMAIN more_es)
    BY <2>1, <2>2, EachOnce
  <2>4. Cardinality(DOMAIN more_es) = Cardinality(DOMAIN es) + 1
    BY <2>1, FS_AddElement DEF OneMore
  <2>5. /\ DOMAIN order = 1 .. Len(order) /\ Len(order) \in Nat
        /\ DOMAIN more = 1 .. Len(more) /\ Len(more) \in Nat
    BY GreedyOrders
  <2>6. Len(order) = Cardinality(DOMAIN es) /\ Len(more) = Cardinality(DOMAIN es) + 1
    BY <2>3, <2>4, <2>5
  <2> QED
    BY <2>3, <2>4, <2>6
<1> DEFINE at(i) == IF i < p THEN i ELSE i + 1
           Differ == {i \in 1 .. N : order[i] # more[at(i)]}
<1>2. \A i \in 1 .. N : at(i) \in 1 .. N + 1 /\ at(i) # p
  BY <1>1
<1>3. IsInjective(more)
  BY GreedyOrders
<1>4. SUFFICES ASSUME Differ # {} PROVE FALSE
  BY <1>1
<1>5. PICK i \in Differ : \A j \in Differ : i <= j
  <2>1. Differ \in SUBSET Nat
    OBVIOUS
  <2> QED
    BY <1>4, <2>1, LeastExists
<1>6. i \in 1 .. N /\ order[i] # more[at(i)] /\ \A j \in 1 .. i - 1 : order[j] = more[at(j)]
  <2>1. \A j \in 1 .. i - 1 : j \in 1 .. N /\ j \notin Differ
    BY <1>5
  <2> QED
    BY <1>5, <2>1
<1>7. PICK done : done = Ahead(order, i)
  OBVIOUS
<1>8. Ahead(more, at(i)) = IF i < p THEN done ELSE done \cup {n}
  <2>1. CASE i < p
    <3>1. at(i) = i /\ \A j \in 1 .. i - 1 : at(j) = j
      BY <1>6, <2>1
    <3> QED
      BY <1>6, <1>7, <2>1, <3>1 DEF Ahead
  <2>2. CASE ~(i < p)
    <3>1. \A j \in 1 .. i - 1 : at(j) \in 1 .. i /\ order[j] = more[at(j)]
      BY <1>6, <2>2
    <3>2. p \in 1 .. i
      BY <1>1, <1>6, <2>2
    <3>3. \A j \in 1 .. i : j = p \/ \E m \in 1 .. i - 1 : at(m) = j
      <4> SUFFICES ASSUME NEW j \in 1 .. i, j # p
                   PROVE  \E m \in 1 .. i - 1 : at(m) = j
        OBVIOUS
      <4>1. CASE j < p
        BY <1>1, <2>2, <3>2, <4>1
      <4>2. CASE p < j
        <5>1. j - 1 \in 1 .. i - 1 /\ at(j - 1) = j
          BY <1>1, <1>6, <4>2
        <5> QED
          BY <5>1
      <4> QED
        BY <1>1, <4>1, <4>2
    <3>4. Ahead(more, at(i)) = {more[j] : j \in 1 .. i}
      <4>1. at(i) - 1 = i
        BY <1>6, <2>2
      <4> QED
        BY <4>1 DEF Ahead
    <3> HIDE DEF at
    <3>5. done = {order[j] : j \in 1 .. i - 1}
      BY <1>7 DEF Ahead
    <3>6. ASSUME NEW j \in 1 .. i
          PROVE  more[j] \in done \cup {n}
      <4>1. CASE j = p
        BY <4>1
      <4>2. CASE j # p
        <5>1. PICK m \in 1 .. i - 1 : at(m) = j
          BY <3>3, <4>2
        <5>2. more[j] = order[m]
          BY <3>1, <5>1
        <5> QED
          BY <3>5, <5>2
      <4> QED
        BY <4>1, <4>2
    <3>7. \A x \in done \cup {n} : x \in {more[j] : j \in 1 .. i}
      BY <3>1, <3>2, <3>5
    <3> QED
      BY <2>2, <3>4, <3>6, <3>7
  <2> QED
    BY <2>1, <2>2
<1>9. \A s : s \in Ready(es, done) <=> s \in Ready(more_es, Ahead(more, at(i))) /\ s # n
  <2> SUFFICES ASSUME NEW s
               PROVE  s \in Ready(es, done) <=> s \in Ready(more_es, Ahead(more, at(i))) /\ s # n
    OBVIOUS
  <2>1. CASE s \in DOMAIN es
    <3>1. KnownDeps(more_es, s) = KnownDeps(es, s) /\ s # n /\ n \notin KnownDeps(es, s)
      BY <2>1 DEF OneMore, KnownDeps
    <3> HIDE DEF at
    <3> QED
      BY <1>8, <2>1, <3>1 DEF Ready, OneMore
  <2>2. CASE s \notin DOMAIN es
    BY <2>2 DEF Ready, OneMore
  <2> QED
    BY <2>1, <2>2
<1>10. PICK x, y : x = order[i] /\ y = more[at(i)]
  OBVIOUS
<1>11. x \in Ready(es, done) /\ \A s \in Ready(es, done) \ {x} : RanksBefore(gs, es, x, s)
  BY <1>1, <1>6, <1>7, <1>10 DEF Greedy
<1>12. /\ y \in Ready(more_es, Ahead(more, at(i)))
       /\ \A s \in Ready(more_es, Ahead(more, at(i))) \ {y} : RanksBefore(more_gs, more_es, y, s)
  BY <1>1, <1>2, <1>6, <1>10 DEF Greedy
<1>13. y # n
  BY <1>1, <1>2, <1>3, <1>6, <1>10 DEF IsInjective
<1>14. x # y
  BY <1>6, <1>10
<1> HIDE DEF at
<1>15. RanksBefore(gs, es, x, y) /\ RanksBefore(more_gs, more_es, y, x)
  BY <1>9, <1>11, <1>12, <1>13, <1>14
<1>16. x \in DOMAIN es /\ y \in DOMAIN es
  BY <1>9, <1>11, <1>12, <1>13 DEF Ready
<1>17. RanksBefore(gs, es, y, x)
  BY <1>15, <1>16 DEF RanksBefore, OneMore
<1> QED
  BY <1>15, <1>16, <1>17, RankAntisymmetric

LEMMA OneMoreKeepsOrder ==
  ASSUME NEW gs, NEW es, Judged(gs, es), Blocked(gs, es) = {},
         NEW more_gs, NEW more_es, Judged(more_gs, more_es), Blocked(more_gs, more_es) = {},
         NEW n, OneMore(gs, es, more_gs, more_es, n)
  PROVE  \A s, t \in DOMAIN es :
           ListedBefore(OrderedSpecs(gs, es), s, t) <=> ListedBefore(OrderedSpecs(more_gs, more_es), s, t)
<1>1. PICK order : order = OrderedSpecs(gs, es)
  OBVIOUS
<1>2. PICK more : more = OrderedSpecs(more_gs, more_es)
  OBVIOUS
<1>3. order \in Seq(DOMAIN es) /\ Greedy(gs, es, order) /\ ToSet(order) = DOMAIN es
  BY <1>1, UnblockedOrder DEF OrderedSpecs
<1>4. more \in Seq(DOMAIN more_es) /\ Greedy(more_gs, more_es, more) /\ ToSet(more) = DOMAIN more_es
  BY <1>2, UnblockedOrder DEF OrderedSpecs
<1>5. PICK p \in DOMAIN more : more[p] = n
  BY <1>4 DEF OneMore, ToSet
<1>6. /\ Len(more) = Len(order) + 1
      /\ \A i \in DOMAIN order : order[i] = more[IF i < p THEN i ELSE i + 1]
  BY <1>3, <1>4, <1>5, OneMoreOrder
<1>7. PICK N \in Nat : DOMAIN order = 1 .. N /\ DOMAIN more = 1 .. N + 1
  BY <1>3, <1>4, <1>6, GreedyOrders
<1>8. IsInjective(more)
  BY <1>4, GreedyOrders
<1> SUFFICES ASSUME NEW s \in DOMAIN es, NEW t \in DOMAIN es
             PROVE  ListedBefore(order, s, t) <=> ListedBefore(more, s, t)
  BY <1>1, <1>2
<1>9. s # n /\ t # n
  BY DEF OneMore
<1>10. ASSUME ListedBefore(order, s, t)
       PROVE  ListedBefore(more, s, t)
  <2>1. PICK i, j \in 1 .. N : i < j /\ order[i] = s /\ order[j] = t
    BY <1>7, <1>10 DEF ListedBefore
  <2>2. PICK k, l : k = (IF i < p THEN i ELSE i + 1) /\ l = (IF j < p THEN j ELSE j + 1)
    OBVIOUS
  <2>3. k \in 1 .. N + 1 /\ l \in 1 .. N + 1 /\ k < l
    BY <1>7, <2>1, <2>2
  <2>4. more[k] = s /\ more[l] = t
    BY <1>6, <1>7, <2>1, <2>2
  <2> QED
    BY <1>7, <2>3, <2>4 DEF ListedBefore
<1>11. ASSUME ListedBefore(more, s, t)
       PROVE  ListedBefore(order, s, t)
  <2>1. PICK k, l \in 1 .. N + 1 : k < l /\ more[k] = s /\ more[l] = t
    BY <1>7, <1>11 DEF ListedBefore
  <2>2. k # p /\ l # p
    BY <1>5, <1>9, <2>1
  <2>3. PICK i, j : i = (IF k < p THEN k ELSE k - 1) /\ j = (IF l < p THEN l ELSE l - 1)
    OBVIOUS
  <2>4. /\ i \in 1 .. N /\ j \in 1 .. N /\ i < j
        /\ (IF i < p THEN i ELSE i + 1) = k /\ (IF j < p THEN j ELSE j + 1) = l
    BY <1>7, <2>1, <2>2, <2>3
  <2>5. order[i] = s /\ order[j] = t
    BY <1>6, <1>7, <2>1, <2>4
  <2> QED
    BY <1>7, <2>4, <2>5 DEF ListedBefore
<1> QED
  BY <1>10, <1>11

(* OthersKeepTheirOrder: registering a new entry or removing one leaves the others *)
(* in the order they had.                                                         *)
THEOREM OthersAreNotReshuffled == Spec => OthersKeepTheirOrder
<1> DEFINE Kept == \A s, t \in DOMAIN entries \cap DOMAIN entries' :
                     ListedBefore(OrderedSpecs(groups, entries), s, t)
                       <=> ListedBefore(OrderedSpecs(groups', entries'), s, t)
<1>1. ASSUME StoredInv, StoredInv', [Next]_vars, DOMAIN entries # DOMAIN entries'
      PROVE  Kept
  <2>1. /\ Judged(groups, entries) /\ Blocked(groups, entries) = {}
        /\ \A s \in DOMAIN entries : /\ entries[s].group \in DOMAIN groups
                                     /\ entries[s].deps \subseteq DOMAIN entries
    BY <1>1, StoredJudged DEF StoredInv, Accepted
  <2>2. Judged(groups', entries')
    <3>1. (StoredInv => Judged(groups, entries))'
      BY StoredIsJudged, PTL
    <3> QED
      BY <1>1, <3>1
  <2>3. ASSUME NEW s \in Slugs, NEW e \in Entry, NEW o \in GroupOrders, NEW files,
               Apply(EnsuredGroups(e.group, o), WithEntry(s, e), files)
        PROVE  Kept
    <3>1. /\ groups' = EnsuredGroups(e.group, o) /\ entries' = WithEntry(s, e)
          /\ Blocked(groups', entries') = {}
      BY <2>3 DEF Apply, Accepted
    <3>2. s \notin DOMAIN entries /\ DOMAIN entries' = DOMAIN entries \cup {s}
      BY <1>1, <3>1 DEF WithEntry
    <3>3. \A t \in DOMAIN entries : entries'[t] = entries[t]
      BY <3>1, <3>2 DEF WithEntry
    <3>4. \A k \in DOMAIN groups : groups'[k] = groups[k]
      BY <3>1 DEF EnsuredGroups
    <3>5. OneMore(groups, entries, groups', entries', s)
      BY <2>1, <3>2, <3>3, <3>4 DEF OneMore
    <3>6. \A x, y \in DOMAIN entries :
            ListedBefore(OrderedSpecs(groups, entries), x, y)
              <=> ListedBefore(OrderedSpecs(groups', entries'), x, y)
      BY <2>1, <2>2, <3>1, <3>5, OneMoreKeepsOrder
    <3> QED
      BY <3>6
  <2>4. ASSUME NEW s \in Slugs, RemoveSpec(s)
        PROVE  Kept
    <3>1. /\ groups' = groups /\ entries' = Without(s)
          /\ Blocked(groups', entries') = {}
          /\ s \in DOMAIN entries
          /\ \A t \in DOMAIN entries \ {s} : s \notin entries[t].deps
      BY <2>4 DEF RemoveSpec, Apply, Accepted
    <3>2. DOMAIN entries' = DOMAIN entries \ {s}
      BY <3>1 DEF Without
    <3>3. \A t \in DOMAIN entries' : entries'[t] = entries[t]
      BY <3>1, <3>2 DEF Without
    <3>4. OneMore(groups', entries', groups, entries, s)
      BY <3>1, <3>2, <3>3 DEF OneMore
    <3>5. \A x, y \in DOMAIN entries' :
            ListedBefore(OrderedSpecs(groups', entries'), x, y)
              <=> ListedBefore(OrderedSpecs(groups, entries), x, y)
      BY <2>1, <2>2, <3>1, <3>4, OneMoreKeepsOrder
    <3> QED
      BY <3>5
  <2>5. CASE UNCHANGED entries
    BY <1>1, <2>5
  <2> HIDE DEF Kept
  <2>6. CASE \E s \in Slugs, e \in Entry, o \in GroupOrders : CreateSpec(s, e, o) \/ AddSpec(s, e, o)
    BY <2>3, <2>6 DEF CreateSpec, AddSpec
  <2> QED
    BY <1>1, <2>4, <2>5, <2>6 DEF Next, LoseTracking, vars
<1>2. StoredInv /\ StoredInv' /\ [Next]_vars => [DOMAIN entries # DOMAIN entries' => Kept]_vars
  BY <1>1
<1>3. OthersKeepTheirOrder <=> [][DOMAIN entries # DOMAIN entries' => Kept]_vars
  BY DEF OthersKeepTheirOrder
<1> HIDE DEF Kept
<1> QED
  BY <1>2, <1>3, AlwaysStored, PTL DEF Spec
=============================================================================
