---------------------------- MODULE SkipListProofs ----------------------------
(***************************************************************************)
(* The skip list, for any keys, data, number of levels and of insertions,  *)
(* and any levels drawn: its types, its levels, and that it implements     *)
(* TimeSeries.                                                             *)
(***************************************************************************)
EXTENDS SkipList, WellFoundedInduction, FiniteSetTheorems, TLAPS

(* Finite sets *)

\* A set of naturals has a least element.
LEMMA Least ==
  ASSUME NEW S, S \subseteq Nat, S # {} PROVE \E x \in S : \A y \in S : x <= y
<1>1. PICK x \in S : \A y \in S : ~(<<y, x>> \in OpToRel(<, Nat))
  BY NatLessThanWellFounded, WFMin
<1>2. x \in Nat /\ \A y \in S : y \in Nat /\ ~(y < x)
  BY <1>1 DEF OpToRel
<1>3. \A y \in S : x <= y
  BY <1>2
<1> QED BY <1>3

\* How many numbers there are up to m.
LEMMA UpTo ==
  ASSUME NEW m \in Nat PROVE IsFiniteSet(0..m) /\ Cardinality(0..m) = m + 1
<1>1. m \in Int /\ 0 \in Int /\ ~(0 > m)
  OBVIOUS
<1>2. IsFiniteSet(0..m) /\ Cardinality(0..m) = IF 0 > m THEN 0 ELSE m - 0 + 1
  BY <1>1, FS_Interval
<1> QED BY <1>1, <1>2

\* The element of a finite set at which a function has its greatest value.
LEMMA Greatest ==
  ASSUME NEW B, IsFiniteSet(B), B # {}, NEW k, \A b \in B : k[b] \in Int
  PROVE  \E b \in B : \A c \in B : k[c] <= k[b]
<1> DEFINE Above(b) == {c \in B : k[c] > k[b]}
           sizes == {Cardinality(Above(b)) : b \in B}
<1>1. \A b \in B : IsFiniteSet(Above(b)) /\ Cardinality(Above(b)) \in Nat
  <2> SUFFICES ASSUME NEW b \in B PROVE IsFiniteSet(Above(b)) /\ Cardinality(Above(b)) \in Nat
    OBVIOUS
  <2>1. Above(b) \in SUBSET B
    OBVIOUS
  <2> HIDE DEF Above
  <2> QED BY <2>1, FS_Subset, FS_CardinalityType
<1>2. sizes # {} /\ sizes \subseteq Nat
  <2> HIDE DEF Above
  <2> QED BY <1>1
<1>3. PICK s \in sizes : \A t \in sizes : s <= t
  <2> HIDE DEF sizes
  <2> QED BY <1>2, Least
<1>4. PICK b \in B : s = Cardinality(Above(b))
  BY <1>3
<1>5. ASSUME NEW c \in B, ~(k[c] <= k[b]) PROVE FALSE
  <2>1. Above(c) \in SUBSET Above(b) /\ c \in Above(b) /\ c \notin Above(c)
    BY <1>5
  <2>2. Cardinality(Above(c)) \in sizes
    OBVIOUS
  <2>3. Cardinality(Above(b)) <= Cardinality(Above(c))
    BY <1>3, <1>4, <2>2
  <2> HIDE DEF Above, sizes
  <2>4. Cardinality(Above(c)) <= Cardinality(Above(b))
    /\ (Cardinality(Above(c)) = Cardinality(Above(b)) => Above(c) = Above(b))
    BY <1>1, <2>1, FS_Subset
  <2> QED BY <1>1, <2>1, <2>3, <2>4
<1> QED BY <1>5

\* The n-th element of a set of naturals.
LEMMA Nth ==
  ASSUME NEW S, S \subseteq Nat, IsFiniteSet(S)
  PROVE  \A n \in Nat : n < Cardinality(S) => \E a \in S : Cardinality({b \in S : b < a}) = n
<1> DEFINE Has(n) == \E a \in S : Cardinality({b \in S : b < a}) = n
           bad == {n \in Nat : n < Cardinality(S) /\ ~Has(n)}
<1> SUFFICES ASSUME bad # {} PROVE FALSE
  OBVIOUS
<1>0. Cardinality(S) \in Nat
  BY FS_CardinalityType
<1>1. PICK n \in bad : \A m \in bad : n <= m
  <2>1. bad \subseteq Nat
    OBVIOUS
  <2> HIDE DEF bad
  <2> QED BY <2>1, Least
<1>2. n \in Nat /\ n < Cardinality(S) /\ ~Has(n)
  BY <1>1
<1>3. CASE n = 0
  <2>1. S # {}
    BY <1>0, <1>2, <1>3, FS_EmptySet
  <2>2. PICK a \in S : \A b \in S : a <= b
    BY <2>1, Least
  <2>3. {b \in S : b < a} = {}
    <3>1. \A b \in S : a \in Int /\ b \in Int /\ a <= b
      BY <2>2
    <3>2. \A b \in S : ~(b < a)
      BY <3>1
    <3> QED BY <3>2
  <2> QED BY <1>2, <1>3, <2>3, FS_EmptySet
<1>4. CASE n # 0
  <2>1. PICK m \in Nat : n = m + 1
    <3>1. n - 1 \in Nat /\ n = (n - 1) + 1
      BY <1>2, <1>4
    <3> QED BY <3>1
  <2>2. Has(m)
    <3>1. m \notin bad /\ m < Cardinality(S)
      BY <1>0, <1>1, <1>2, <2>1
    <3> QED BY <3>1
  <2>3. PICK a \in S : Cardinality({b \in S : b < a}) = m
    BY <2>2
  <2> DEFINE low == {b \in S : b < a}
  <2>4. IsFiniteSet(low) /\ a \notin low /\ low \cup {a} \subseteq S
    <3>1. low \in SUBSET S
      OBVIOUS
    <3>2. IsFiniteSet(low)
      <4> HIDE DEF low
      <4> QED BY <3>1, FS_Subset
    <3> QED BY <3>2
  <2>5. IsFiniteSet(low \cup {a}) /\ Cardinality(low \cup {a}) = n
    <3> HIDE DEF low
    <3>1. Cardinality(low) = m
      BY <2>3 DEF low
    <3> QED BY <2>1, <2>4, <3>1, FS_AddElement
  <2>6. PICK c \in S : c \notin low \cup {a} /\ \A b \in S \ (low \cup {a}) : c <= b
    <3>1. S \ (low \cup {a}) # {}
      <4> HIDE DEF low
      <4>1. CASE S \subseteq low \cup {a}
        <5>1. S = low \cup {a}
          BY <2>4, <4>1
        <5>2. Cardinality(S) = n
          BY <2>5, <5>1
        <5> QED BY <1>0, <1>2, <5>2
      <4> QED BY <4>1
    <3>2. S \ (low \cup {a}) \subseteq Nat
      OBVIOUS
    <3> HIDE DEF low
    <3> QED BY <3>1, <3>2, Least
  <2>7. {b \in S : b < c} = low \cup {a}
    <3>1. a < c
      BY <2>6
    <3>2. ASSUME NEW b \in S PROVE b < c <=> b \in low \cup {a}
      <4>1. b \notin low \cup {a} => c <= b
        BY <2>6
      <4>2. b \in low \cup {a} => b <= a
        OBVIOUS
      <4> QED BY <3>1, <4>1, <4>2
    <3> QED BY <2>4, <3>2
  <2> QED BY <1>2, <2>5, <2>7
<1> QED BY <1>3, <1>4

-----------------------------------------------------------------------------
(* The levels *)

\* The heap is the nodes of its levels; each level begins at its header.
Parts(lev) ==
  /\ lev \in [Levels -> SUBSET DOMAIN node] /\ DOMAIN node = UNION {lev[i] : i \in Levels}
  /\ \A i, j \in Levels : i # j => lev[i] \cap lev[j] = {}

Headed(lev) ==
  \A i \in Levels : /\ i \in lev[i] /\ node[i].key = HeaderKey
                    /\ \A n \in lev[i] : n # i => node[n].key > HeaderKey

\* right is the node of the next key on the level, if there is one.
Linked(lev) ==
  \A i \in Levels : \A n \in lev[i] :
    /\ node[n].right # NULL => node[n].right \in lev[i] /\ node[n].key < node[node[n].right].key
    /\ \A m \in lev[i] : node[n].key < node[m].key =>
         node[n].right # NULL /\ node[node[n].right].key <= node[m].key

\* A level has a key once, a node stands on one of its key, and empty levels are above max_level.
OneEach(lev) ==
  \A i \in Levels : \A m, n \in lev[i] : node[m].key = node[n].key => m = n

Stacked(lev) ==
  \A i \in Levels : \A n \in lev[i] :
    IF i = 0 THEN node[n].down = NULL
    ELSE node[n].down \in lev[i - 1] /\ node[node[n].down].key = node[n].key

Topped(lev) == \A i \in Levels : i > max_level => lev[i] = {i}

Laid(lev) == Parts(lev) /\ Headed(lev) /\ Linked(lev) /\ OneEach(lev) /\ Stacked(lev) /\ Topped(lev)

\* The heap as a function to whole records, which TypeOK leaves open.
HeapType ==
  node \in [DOMAIN node -> [key : Keys \cup {HeaderKey}, right : DOMAIN node \cup {NULL},
                            down : DOMAIN node \cup {NULL}, list : Seq(Data)]]

\* What the constants are.
LEMMA Numbers ==
  /\ MaxLevel \in Nat /\ MaxLevel > 0 /\ MaxInserts \in Nat /\ NULL \notin Nat
  /\ Levels \subseteq Nat /\ 0 \in Levels /\ Address \subseteq Nat /\ NULL \notin Address
  /\ IsFiniteSet(Address) /\ Cardinality(Address) = MaxLevel * (MaxInserts + 1)
  /\ Levels \subseteq Address /\ Cardinality(Levels) = MaxLevel
  /\ HeaderKey \in Int /\ Keys \cup {HeaderKey} \subseteq Int
<1>1. /\ MaxLevel \in Nat /\ MaxLevel > 0 /\ MaxInserts \in Nat /\ NULL \notin Nat /\ Keys \subseteq Int
  BY SkipAssumption
<1>2. PICK size_of \in Nat : size_of = MaxLevel * (MaxInserts + 1) /\ MaxLevel <= size_of
  <2>1. PICK p \in Nat : p = MaxLevel * MaxInserts
    BY <1>1
  <2>2. MaxLevel * (MaxInserts + 1) = p + MaxLevel
    BY <1>1, <2>1
  <2> QED BY <1>1, <2>1, <2>2
<1>3. Address = 0..size_of-1 /\ size_of - 1 \in Int /\ size_of > 0
  BY <1>1, <1>2 DEF Address
<1>4. IsFiniteSet(Address) /\ Cardinality(Address) = size_of
  <2>1. PICK m \in Nat : m = size_of - 1 /\ m + 1 = size_of
    BY <1>3
  <2>2. IsFiniteSet(0..m) /\ Cardinality(0..m) = m + 1
    BY UpTo
  <2> QED BY <1>3, <2>1, <2>2
<1>5. Cardinality(Levels) = MaxLevel
  <2>1. PICK m \in Nat : m = MaxLevel - 1 /\ m + 1 = MaxLevel
    BY <1>1
  <2> QED BY <2>1, UpTo DEF Levels
<1>6. Levels \subseteq Nat /\ 0 \in Levels /\ Levels \subseteq Address /\ Address \subseteq Nat
  BY <1>1, <1>2, <1>3 DEF Levels
<1>7. IsFiniteSet(Address) /\ Cardinality(Address) = MaxLevel * (MaxInserts + 1)
  BY <1>2, <1>4
<1>8. NULL \notin Address /\ HeaderKey \in Int /\ Keys \cup {HeaderKey} \subseteq Int
  <2>1. NULL \notin Address
    BY <1>1, <1>6
  <2>2. HeaderKey \in Int
    BY DEF HeaderKey
  <2> QED BY <1>1, <2>1, <2>2
<1> QED BY <1>1, <1>5, <1>6, <1>7, <1>8

\* What TypeOK says of the heap.
LEMMA NodeTypes ==
  ASSUME TypeOK
  PROVE  /\ IsFiniteSet(DOMAIN node) /\ DOMAIN node \subseteq Nat /\ NULL \notin DOMAIN node
         /\ \A a \in DOMAIN node : node[a].key \in Int
<1>1. DOMAIN node \in SUBSET Address /\ \A a \in DOMAIN node : node[a].key \in Keys \cup {HeaderKey}
  BY DEF TypeOK
<1>2. IsFiniteSet(DOMAIN node)
  BY <1>1, Numbers, FS_Subset
<1> QED BY <1>1, <1>2, Numbers

\* Going to the right comes to an end.
LEMMA Descend ==
  ASSUME TypeOK, NEW lev, Laid(lev), NEW B, B \subseteq DOMAIN node,
         \A n \in B : node[n].right # NULL /\ node[n].right \in B
  PROVE  B = {}
<1>1. \A n \in B : node[n].right \in B /\ node[n].key < node[node[n].right].key
  <2>1. ASSUME NEW n \in B PROVE node[n].key < node[node[n].right].key
    <3>1. PICK i \in Levels : n \in lev[i]
      BY DEF Laid, Parts
    <3> QED BY <3>1 DEF Laid, Linked
  <2> QED BY <2>1
<1> SUFFICES ASSUME B # {} PROVE FALSE
  OBVIOUS
<1>2. IsFiniteSet(B) /\ \A b \in B : node[b].key \in Int
  BY NodeTypes, FS_Subset
<1>3. PICK k : k = [b \in B |-> node[b].key]
  OBVIOUS
<1>4. \A b \in B : k[b] \in Int /\ k[b] = node[b].key
  BY <1>2, <1>3
<1>5. PICK b \in B : \A c \in B : k[c] <= k[b]
  BY <1>2, <1>4, Greatest
<1>6. node[b].right \in B /\ k[b] < k[node[b].right]
  BY <1>1, <1>4
<1>7. k[node[b].right] <= k[b]
  BY <1>5, <1>6
<1> QED BY <1>4, <1>6, <1>7

\* Facts about one level.
LEMMA LevelIs ==
  ASSUME TypeOK, NEW lev, Laid(lev), NEW i \in Levels
  PROVE  /\ lev[i] \subseteq DOMAIN node
         /\ \A n \in lev[i] : /\ n \in Nat /\ n # NULL /\ node[n].key \in Int
                              /\ \A j \in Levels : n \in lev[j] => j = i
                              /\ node[n].right = NULL =>
                                   \A m \in lev[i] : node[m].key <= node[n].key
                              /\ node[n].right # NULL =>
                                   /\ node[n].right \in lev[i] /\ node[n].key < node[node[n].right].key
                                   /\ \A m \in lev[i] : node[m].key <= node[n].key
                                                        \/ node[node[n].right].key <= node[m].key
<1>1. lev[i] \subseteq DOMAIN node
  BY DEF Laid, Parts
<1>2. \A n \in lev[i] : n \in Nat /\ n # NULL /\ node[n].key \in Int
  BY <1>1, NodeTypes
<1>3. \A n \in lev[i] : \A j \in Levels : n \in lev[j] => j = i
  BY DEF Laid, Parts
<1>4. ASSUME NEW n \in lev[i], node[n].right = NULL PROVE \A m \in lev[i] : node[m].key <= node[n].key
  BY <1>2, <1>4 DEF Laid, Linked
<1>5. ASSUME NEW n \in lev[i], node[n].right # NULL
      PROVE  /\ node[n].right \in lev[i] /\ node[n].key < node[node[n].right].key
             /\ \A m \in lev[i] : node[m].key <= node[n].key \/ node[node[n].right].key <= node[m].key
  BY <1>2, <1>5 DEF Laid, Linked
<1> QED BY <1>1, <1>2, <1>3, <1>4, <1>5

\* The recursion of On has a solution, and On is one of them.
LEMMA OnRec ==
  ASSUME NEW f, f = [n \in DOMAIN node \cup {NULL} |-> IF n = NULL THEN {} ELSE {n} \cup f[node[n].right]]
  PROVE  \E g : /\ g = [n \in DOMAIN node \cup {NULL} |-> IF n = NULL THEN {} ELSE {n} \cup g[node[n].right]]
                /\ \A i : On(i) = g[i]
<1> DEFINE Eq(g) == g = [n \in DOMAIN node \cup {NULL} |-> IF n = NULL THEN {} ELSE {n} \cup g[node[n].right]]
<1>1. Eq(CHOOSE g : Eq(g))
  <2>1. Eq(f)
    OBVIOUS
  <2> HIDE DEF Eq
  <2> QED BY <2>1
<1>2. \A i : On(i) = (CHOOSE g : Eq(g))[i]
  BY DEF On
<1> QED BY <1>1, <1>2

\* Following right from the header one comes to the nodes of its level.
LEMMA OnIs ==
  ASSUME TypeOK, NEW lev, Laid(lev)
  PROVE  \A i \in Levels : On(i) = lev[i]
<1> DEFINE D == DOMAIN node
           H(n) == {m \in D : n # NULL /\ \E i \in Levels : /\ n \in lev[i] /\ m \in lev[i]
                                                         /\ node[n].key <= node[m].key}
<1>0. NULL \notin D /\ D \subseteq Nat
  BY NodeTypes
<1>1. ASSUME NEW i \in Levels, NEW n \in lev[i]
      PROVE  H(n) = {m \in lev[i] : node[n].key <= node[m].key}
  BY <1>1, LevelIs
<1>2. H(NULL) = {}
  OBVIOUS
<1>3. ASSUME NEW n \in D PROVE H(n) = {n} \cup H(node[n].right) /\ node[n].right \in D \cup {NULL}
  <2>1. PICK i \in Levels : n \in lev[i]
    BY DEF Laid, Parts
  <2> DEFINE r == node[n].right
  <2>2. H(n) = {m \in lev[i] : node[n].key <= node[m].key}
    BY <1>1, <2>1
  <2>3. \A m \in lev[i] : node[m].key \in Int /\ (node[m].key = node[n].key => m = n)
    BY <2>1, LevelIs DEF Laid, OneEach
  <2>4. CASE r = NULL
    <3>1. \A m \in lev[i] : node[m].key <= node[n].key
      BY <2>1, <2>4, LevelIs
    <3>2. \A m \in lev[i] : node[n].key <= node[m].key <=> m = n
      BY <2>1, <2>3, <3>1
    <3>3. H(n) = {n}
      BY <2>1, <2>2, <3>2
    <3> HIDE DEF H
    <3> QED BY <1>2, <2>4, <3>3
  <2>5. CASE r # NULL
    <3>1. /\ r \in lev[i] /\ node[n].key < node[r].key
          /\ \A m \in lev[i] : node[m].key <= node[n].key \/ node[r].key <= node[m].key
      BY <2>1, <2>5, LevelIs
    <3>2. H(r) = {m \in lev[i] : node[r].key <= node[m].key}
      BY <1>1, <3>1
    <3>3. ASSUME NEW m \in lev[i]
          PROVE  node[n].key <= node[m].key <=> m = n \/ node[r].key <= node[m].key
      BY <2>1, <2>3, <3>1
    <3>4. r \in D
      BY <3>1, LevelIs
    <3> HIDE DEF H, r
    <3>5. H(n) = {n} \cup H(r)
      BY <2>1, <2>2, <3>2, <3>3
    <3> QED BY <3>4, <3>5 DEF r
  <2> QED BY <2>4, <2>5
<1> DEFINE h == [n \in D \cup {NULL} |-> H(n)]
<1>4. h = [n \in D \cup {NULL} |-> IF n = NULL THEN {} ELSE {n} \cup h[node[n].right]]
  <2> HIDE DEF H
  <2> QED BY <1>2, <1>3
<1>5. PICK g : /\ g = [n \in D \cup {NULL} |-> IF n = NULL THEN {} ELSE {n} \cup g[node[n].right]]
               /\ \A i : On(i) = g[i]
  <2> HIDE DEF h
  <2> QED BY <1>4, OnRec
<1> DEFINE B == {n \in D : g[n] # H(n)}
<1>6. B = {}
  <2>1. ASSUME NEW n \in B PROVE node[n].right # NULL /\ node[n].right \in B
    <3>1. n \in D /\ n # NULL /\ g[n] # H(n)
      BY <1>0
    <3> HIDE DEF H
    <3>2. g[n] = {n} \cup g[node[n].right] /\ H(n) = {n} \cup H(node[n].right)
      BY <1>3, <1>5, <3>1
    <3>3. g[NULL] = {}
      BY <1>5
    <3> QED BY <1>2, <1>3, <3>1, <3>2, <3>3
  <2>2. B \subseteq DOMAIN node
    OBVIOUS
  <2> HIDE DEF B
  <2> QED BY <2>1, <2>2, Descend
<1>7. ASSUME NEW i \in Levels PROVE On(i) = lev[i]
  <2>1. i \in lev[i] /\ i \in D /\ \A m \in lev[i] : node[i].key <= node[m].key
    BY LevelIs, Numbers DEF Laid, Headed
  <2>2. H(i) = lev[i]
    <3>1. H(i) = {m \in lev[i] : node[i].key <= node[m].key}
      BY <1>1, <2>1
    <3> HIDE DEF H
    <3> QED BY <2>1, <3>1
  <2> HIDE DEF H
  <2> QED BY <1>5, <1>6, <2>1, <2>2
<1> QED BY <1>7

-----------------------------------------------------------------------------
(* Insertion *)

\* The recursion of Prev has a solution, and Prev is one of them.
LEMMA PrevRec ==
  ASSUME NEW i, NEW x,
         NEW f, f = [n \in DOMAIN node |-> IF node[n].right # NULL /\ x > node[node[n].right].key
                                           THEN f[node[n].right] ELSE n]
  PROVE  \E g : /\ g = [n \in DOMAIN node |-> IF node[n].right # NULL /\ x > node[node[n].right].key
                                              THEN g[node[n].right] ELSE n]
                /\ Prev(i, x) = g[i]
<1> DEFINE Eq(g) == g = [n \in DOMAIN node |-> IF node[n].right # NULL /\ x > node[node[n].right].key
                                               THEN g[node[n].right] ELSE n]
<1>1. Eq(CHOOSE g : Eq(g))
  <2>1. Eq(f)
    OBVIOUS
  <2> HIDE DEF Eq
  <2> QED BY <2>1
<1>2. Prev(i, x) = (CHOOSE g : Eq(g))[i]
  BY DEF Prev
<1> QED BY <1>1, <1>2

\* The walk along a level ends at the last node before x.
LEMMA PrevIs ==
  ASSUME TypeOK, NEW lev, Laid(lev), NEW i \in Levels, NEW x \in Int, x > HeaderKey
  PROVE  /\ Prev(i, x) \in lev[i] /\ node[Prev(i, x)].key < x
         /\ LET r == node[Prev(i, x)].right IN r # NULL => r \in lev[i] /\ x <= node[r].key
<1> DEFINE D == DOMAIN node
           Goes(n) == node[n].right # NULL /\ x > node[node[n].right].key
           Stop(n, m) == /\ \E k \in Levels : n \in lev[k] /\ m \in lev[k]
                         /\ node[n].key <= node[m].key /\ (m = n \/ node[m].key < x)
                         /\ ~Goes(m)
<1>1. \A n \in D : node[n].key \in Int /\ \E k \in Levels : n \in lev[k]
  BY NodeTypes DEF Laid, Parts
<1>2. ASSUME NEW n \in D, ~Goes(n) PROVE Stop(n, n)
  BY <1>1, <1>2
<1>3. ASSUME NEW n \in D, Goes(n) PROVE node[n].right \in D /\ \A m : Stop(node[n].right, m) => Stop(n, m)
  <2>1. PICK k \in Levels : n \in lev[k]
    BY <1>1
  <2> DEFINE r == node[n].right
  <2>2. r \in lev[k] /\ r \in D /\ node[n].key < node[r].key /\ node[r].key < x
    /\ \A j \in Levels : r \in lev[j] => j = k
    <3>1. r # NULL /\ x > node[r].key
      BY <1>3
    <3>2. r \in lev[k] /\ node[n].key < node[r].key
      BY <2>1, <3>1, LevelIs
    <3>3. r \in D /\ \A j \in Levels : r \in lev[j] => j = k
      BY <3>2, LevelIs
    <3> QED BY <1>1, <3>1, <3>2, <3>3
  <2>3. ASSUME NEW m, Stop(r, m) PROVE Stop(n, m)
    <3>1. m \in lev[k] /\ node[r].key <= node[m].key /\ (m = r \/ node[m].key < x) /\ ~Goes(m)
      BY <2>2, <2>3
    <3>2. node[m].key \in Int
      BY <3>1, LevelIs
    <3>3. node[n].key <= node[m].key /\ node[m].key < x
      BY <1>1, <2>2, <3>1, <3>2
    <3> QED BY <2>1, <3>1, <3>3
  <2> QED BY <2>2, <2>3
<1>4. ASSUME NEW n \in D PROVE \E m : Stop(n, m)
  <2> DEFINE B == {k \in D : ~\E m : Stop(k, m)}
  <2>1. B \subseteq DOMAIN node
    OBVIOUS
  <2>2. ASSUME NEW k \in B PROVE node[k].right # NULL /\ node[k].right \in B
    <3>1. k \in D /\ ~\E m : Stop(k, m)
      OBVIOUS
    <3>2. Goes(k)
      BY <1>2, <3>1
    <3> HIDE DEF Stop
    <3> QED BY <1>3, <3>1, <3>2
  <2>3. B = {}
    <3> HIDE DEF B
    <3> QED BY <2>1, <2>2, Descend
  <2> HIDE DEF Stop
  <2> QED BY <2>3
<1>5. ASSUME NEW n \in D, NEW m, NEW l, Stop(n, m), Stop(n, l) PROVE m = l
  <2>1. PICK k \in Levels : n \in lev[k] /\ m \in lev[k] /\ l \in lev[k]
    BY <1>5, LevelIs
  <2>2. ASSUME NEW a \in lev[k], NEW b \in lev[k], Stop(n, a), Stop(n, b) PROVE ~(node[a].key < node[b].key)
    <3> SUFFICES ASSUME node[a].key < node[b].key PROVE FALSE
      OBVIOUS
    <3>1. node[a].right # NULL /\ node[node[a].right].key <= node[b].key /\ node[a].right \in lev[k]
      BY <2>2 DEF Laid, Linked
    <3>2. node[a].key \in Int /\ node[b].key \in Int /\ node[n].key \in Int /\ node[node[a].right].key \in Int
      BY <2>1, <3>1, LevelIs
    <3>3. node[n].key <= node[a].key /\ (b = n \/ node[b].key < x) /\ ~Goes(a)
      BY <2>2
    <3>4. node[b].key < x
      BY <3>2, <3>3
    <3>5. ~(x > node[node[a].right].key)
      BY <3>1, <3>3
    <3> QED BY <3>1, <3>2, <3>4, <3>5
  <2>3. node[m].key = node[l].key
    <3>1. node[m].key \in Int /\ node[l].key \in Int
      BY <2>1, LevelIs
    <3> HIDE DEF Stop
    <3>2. ~(node[m].key < node[l].key) /\ ~(node[l].key < node[m].key)
      BY <1>5, <2>1, <2>2
    <3> QED BY <3>1, <3>2
  <2> QED BY <2>1, <2>3 DEF Laid, OneEach
<1> DEFINE H(n) == CHOOSE m : Stop(n, m)
           h == [n \in D |-> H(n)]
<1>6. ASSUME NEW n \in D PROVE H(n) = IF Goes(n) THEN H(node[n].right) ELSE n
  <2> HIDE DEF Stop
  <2>1. Stop(n, H(n))
    BY <1>4
  <2>2. CASE Goes(n)
    <3>1. node[n].right \in D
      BY <1>3, <2>2
    <3>2. Stop(node[n].right, H(node[n].right))
      BY <1>4, <3>1
    <3>3. Stop(n, H(node[n].right))
      BY <1>3, <2>2, <3>2
    <3> HIDE DEF H
    <3> QED BY <1>5, <2>1, <2>2, <3>3
  <2>3. CASE ~Goes(n)
    <3> HIDE DEF H
    <3> QED BY <1>2, <1>5, <2>1, <2>3
  <2> QED BY <2>2, <2>3
<1>7. h = [n \in D |-> IF node[n].right # NULL /\ x > node[node[n].right].key THEN h[node[n].right] ELSE n]
  <2>1. \A n \in D : Goes(n) => node[n].right \in D
    BY <1>3
  <2> HIDE DEF H
  <2> QED BY <1>6, <2>1
<1>8. PICK g : /\ g = [n \in D |-> IF node[n].right # NULL /\ x > node[node[n].right].key
                                   THEN g[node[n].right] ELSE n]
               /\ Prev(i, x) = g[i]
  <2> HIDE DEF h
  <2> QED BY <1>7, PrevRec
<1> DEFINE B == {n \in D : ~Stop(n, g[n])}
<1>9. B = {}
  <2>1. B \subseteq DOMAIN node
    OBVIOUS
  <2>2. ASSUME NEW k \in B PROVE node[k].right # NULL /\ node[k].right \in B
    <3>1. k \in D /\ ~Stop(k, g[k])
      OBVIOUS
    <3>2. g[k] = IF Goes(k) THEN g[node[k].right] ELSE k
      BY <1>8, <3>1
    <3> HIDE DEF Stop
    <3>3. Goes(k) /\ g[k] = g[node[k].right]
      BY <1>2, <3>1, <3>2
    <3> QED BY <1>3, <3>1, <3>3
  <2> HIDE DEF B
  <2> QED BY <2>1, <2>2, Descend
<1>10. i \in lev[i] /\ i \in D /\ node[i].key = HeaderKey
  BY LevelIs DEF Laid, Headed
<1>11. Stop(i, g[i])
  <2> HIDE DEF Stop
  <2> QED BY <1>9, <1>10
<1>12. PICK p : p = Prev(i, x)
  OBVIOUS
<1>13. p \in lev[i] /\ node[p].key < x /\ ~Goes(p)
  BY <1>8, <1>10, <1>11, <1>12, LevelIs
<1>14. node[p].right # NULL => node[p].right \in lev[i] /\ node[node[p].right].key \in Int
  BY <1>13, LevelIs
<1>15. node[p].right # NULL => x <= node[node[p].right].key
  BY <1>13, <1>14
<1> QED BY <1>12, <1>13, <1>14, <1>15

\* The recursion of Past has a solution, and Past is one of them.
LEMMA PastRec ==
  ASSUME NEW x,
         NEW f, f = [m \in DOMAIN node \cup {NULL} |->
                       IF m = NULL THEN NULL ELSE IF node[m].key = x THEN f[node[m].right] ELSE m]
  PROVE  \E g : /\ g = [m \in DOMAIN node \cup {NULL} |->
                          IF m = NULL THEN NULL ELSE IF node[m].key = x THEN g[node[m].right] ELSE m]
                /\ \A n : Past(n, x) = g[n]
<1> DEFINE Eq(g) == g = [m \in DOMAIN node \cup {NULL} |->
                          IF m = NULL THEN NULL ELSE IF node[m].key = x THEN g[node[m].right] ELSE m]
<1>1. Eq(CHOOSE g : Eq(g))
  <2>1. Eq(f)
    OBVIOUS
  <2> HIDE DEF Eq
  <2> QED BY <2>1
<1>2. \A n : Past(n, x) = (CHOOSE g : Eq(g))[n]
  BY DEF Past
<1> QED BY <1>1, <1>2

\* A level has one node of a key, so one node at most is passed over.
LEMMA PastIs ==
  ASSUME TypeOK, NEW lev, Laid(lev), NEW x
  PROVE  /\ Past(NULL, x) = NULL
         /\ \A m \in DOMAIN node : Past(m, x) = IF node[m].key = x THEN node[m].right ELSE m
<1> DEFINE D == DOMAIN node
           H(m) == IF m = NULL THEN NULL ELSE IF node[m].key = x THEN node[m].right ELSE m
           h == [m \in D \cup {NULL} |-> H(m)]
<1>0. NULL \notin D
  BY NodeTypes
<1>1. ASSUME NEW m \in D
      PROVE  node[m].right \in D \cup {NULL} /\ (node[m].right # NULL => node[m].key # node[node[m].right].key)
  <2>1. PICK i \in Levels : m \in lev[i]
    BY DEF Laid, Parts
  <2>2. node[m].right # NULL => node[m].right \in lev[i] /\ node[m].key < node[node[m].right].key
    BY <2>1, LevelIs
  <2>3. node[m].right # NULL => node[m].right \in D /\ node[node[m].right].key \in Int /\ node[m].key \in Int
    BY <2>1, <2>2, LevelIs
  <2> QED BY <2>2, <2>3
<1>2. \A m \in D : node[m].key = x => H(node[m].right) = node[m].right
  BY <1>1
<1>3. h = [m \in D \cup {NULL} |-> IF m = NULL THEN NULL ELSE IF node[m].key = x THEN h[node[m].right] ELSE m]
  BY <1>0, <1>1, <1>2
<1>4. PICK g : /\ g = [m \in D \cup {NULL} |->
                  IF m = NULL THEN NULL ELSE IF node[m].key = x THEN g[node[m].right] ELSE m]
               /\ \A n : Past(n, x) = g[n]
  <2> HIDE DEF h
  <2> QED BY <1>3, PastRec
<1>5. g[NULL] = NULL
  BY <1>4
<1>6. ASSUME NEW m \in D PROVE g[m] = IF node[m].key = x THEN node[m].right ELSE m
  <2>1. g[m] = IF node[m].key = x THEN g[node[m].right] ELSE m
    BY <1>0, <1>4
  <2>2. node[m].key = x => g[node[m].right] = node[m].right
    <3>1. CASE node[m].right = NULL
      BY <1>5, <3>1
    <3>2. CASE node[m].right # NULL
      <4>1. node[m].right \in D
        BY <1>1, <3>2
      <4>2. g[node[m].right] = IF node[node[m].right].key = x THEN g[node[node[m].right].right] ELSE node[m].right
        BY <1>0, <1>4, <4>1
      <4> QED BY <1>1, <3>2, <4>2
    <3> QED BY <3>1, <3>2
  <2> QED BY <2>1, <2>2
<1> QED BY <1>4, <1>5, <1>6

\* The heap has addresses for the insertions to come.
Room == Cardinality(DOMAIN node) <= MaxLevel * (size + 1)

\* Each level has an address of its own.
LEMMA NewIs ==
  ASSUME TypeOK, Room, size < MaxInserts
  PROVE  \A i \in Levels : /\ New(i) \in Address \ DOMAIN node
                           /\ \A j \in Levels : New(i) = New(j) => i = j
<1> DEFINE free == Address \ DOMAIN node
<1>1. IsFiniteSet(free) /\ Cardinality(free) >= MaxLevel
  <2>1. DOMAIN node \subseteq Address /\ IsFiniteSet(DOMAIN node) /\ Address \cap DOMAIN node = DOMAIN node
    BY NodeTypes DEF TypeOK
  <2>2. IsFiniteSet(free) /\ Cardinality(free) = Cardinality(Address) - Cardinality(DOMAIN node)
    BY <2>1, Numbers, FS_Difference
  <2>3. Cardinality(Address) - Cardinality(DOMAIN node) >= MaxLevel
    <3>1. size \in Nat /\ MaxInserts \in Nat /\ MaxLevel \in Nat /\ size + 1 <= MaxInserts
      BY Numbers DEF TypeOK
    <3>2. Cardinality(DOMAIN node) \in Nat
      BY <2>1, FS_CardinalityType
    <3>3. PICK k \in Nat : MaxInserts = size + 1 + k
      <4>1. MaxInserts - (size + 1) \in Nat /\ MaxInserts = size + 1 + (MaxInserts - (size + 1))
        BY <3>1
      <4> QED BY <4>1
    <3>4. MaxLevel * (MaxInserts + 1) = MaxLevel * (size + 1) + MaxLevel + MaxLevel * k
      BY <3>1, <3>3
    <3>5. MaxLevel * k \in Nat /\ MaxLevel * (size + 1) \in Nat
      BY <3>1, <3>3
    <3> QED BY <3>1, <3>2, <3>4, <3>5, Numbers DEF Room
  <2> QED BY <2>2, <2>3
<1>2. free \subseteq Nat
  BY Numbers
<1>3. ASSUME NEW i \in Levels PROVE New(i) \in free /\ Cardinality({b \in free : b < New(i)}) = i
  <2>1. i \in Nat /\ i < MaxLevel /\ MaxLevel \in Nat
    BY Numbers DEF Levels
  <2>2. i < Cardinality(free)
    <3>1. Cardinality(free) \in Nat
      BY <1>1, FS_CardinalityType
    <3> HIDE DEF free
    <3> QED BY <1>1, <2>1, <3>1
  <2>3. \E a \in free : Cardinality({b \in free : b < a}) = i
    <3> HIDE DEF free
    <3> QED BY <1>1, <1>2, <2>1, <2>2, Nth
  <2> QED BY <2>3 DEF New
<1> HIDE DEF free
<1>4. \A i, j \in Levels : New(i) = New(j) => i = j
  <2> SUFFICES ASSUME NEW i \in Levels, NEW j \in Levels, New(i) = New(j) PROVE i = j
    OBVIOUS
  <2>1. PICK a : a = New(i) /\ a = New(j)
    OBVIOUS
  <2>2. Cardinality({b \in free : b < a}) = i /\ Cardinality({b \in free : b < a}) = j
    BY <1>3, <2>1
  <2> QED BY <2>2
<1> QED BY <1>3, <1>4 DEF free

\* AlreadyThere says whether a level has a node of the key; if not, the next one has a greater key.
LEMMA AlreadyIs ==
  ASSUME TypeOK, NEW lev, Laid(lev), NEW i \in Levels, NEW x \in Int, x > HeaderKey
  PROVE  /\ AlreadyThere(i, x) <=> \E n \in lev[i] : node[n].key = x
         /\ AlreadyThere(i, x) => node[Prev(i, x)].right \in lev[i] /\ node[node[Prev(i, x)].right].key = x
         /\ ~AlreadyThere(i, x) =>
              LET r == node[Prev(i, x)].right IN r # NULL => r \in lev[i] /\ x < node[r].key
<1>1. PICK p : p = Prev(i, x)
  OBVIOUS
<1>2. /\ p \in lev[i] /\ node[p].key < x
      /\ node[p].right # NULL => node[p].right \in lev[i] /\ x <= node[node[p].right].key
  BY <1>1, PrevIs
<1>3. node[p].right # NULL => node[node[p].right].key \in Int
  BY <1>2, LevelIs
<1>4. AlreadyThere(i, x) <=> node[p].right # NULL /\ node[node[p].right].key = x
  BY <1>1 DEF AlreadyThere
<1>5. ASSUME NEW n \in lev[i], node[n].key = x PROVE node[p].right # NULL /\ node[node[p].right].key = x
  <2>1. node[p].right # NULL /\ node[node[p].right].key <= x
    BY <1>2, <1>5 DEF Laid, Linked
  <2> QED BY <1>2, <1>3, <2>1
<1> QED BY <1>1, <1>2, <1>3, <1>4, <1>5

\* What an insertion does to the heap: place[i] is the node of the key on level i, one of the level
\* already or a new one behind prev[i].
Inserted(lev, x, d, level, place, prev) ==
  LET drawn == 0..level
      fresh == {i \in drawn : ~\E n \in lev[i] : node[n].key = x}
      Below(i) == IF i = 0 THEN NULL ELSE place[i - 1]
  IN /\ \A i \in drawn : /\ i \in fresh => place[i] \in Address \ DOMAIN node
                         /\ i \notin fresh => place[i] \in lev[i] /\ node[place[i]].key = x
     /\ \A i, j \in drawn : place[i] = place[j] => i = j
     /\ \A i \in fresh : /\ prev[i] \in lev[i] /\ node[prev[i]].key < x
                         /\ node[prev[i]].right # NULL =>
                              node[prev[i]].right \in lev[i] /\ x < node[node[prev[i]].right].key
     /\ DOMAIN node' = DOMAIN node \cup {place[i] : i \in drawn}
     /\ \A i \in fresh :
          /\ node'[place[i]] = [key |-> x, right |-> node[prev[i]].right, down |-> Below(i), list |-> <<d>>]
          /\ node'[prev[i]] = [node[prev[i]] EXCEPT !.right = place[i]]
     /\ \A i \in drawn \ fresh :
          node'[place[i]] = [node[place[i]] EXCEPT !.list = Append(@, d), !.down = Below(i)]
     /\ \A a \in DOMAIN node : a \notin {place[i] : i \in drawn} \cup {prev[i] : i \in fresh} =>
        node'[a] = node[a]
     /\ node' = [a \in DOMAIN node' |-> node'[a]]

\* Insert does this.
LEMMA InsertIs ==
  ASSUME TypeOK, HeapType, Room, NEW lev, Laid(lev), NEW x \in Keys, x > HeaderKey, NEW d, NEW level \in Levels,
         Insert(x, d, level)
  PROVE  /\ \E place, prev : Inserted(lev, x, d, level, place, prev)
         /\ max_level' = IF level > max_level THEN level ELSE max_level
         /\ size' = size + 1 /\ size < MaxInserts
<1> DEFINE drawn == 0..level
           place == [i \in drawn |-> IF AlreadyThere(i, x) THEN node[Prev(i, x)].right ELSE New(i)]
           fresh == {i \in drawn : ~AlreadyThere(i, x)}
           Below(i) == IF i = 0 THEN NULL ELSE place[i - 1]
           After(a) == IF \E i \in fresh : a = Prev(i, x)
                       THEN place[CHOOSE i \in fresh : a = Prev(i, x)] ELSE node[a].right
           Put(a) == CASE \E i \in fresh : a = place[i] ->
                            LET i == CHOOSE j \in fresh : a = place[j]
                            IN [key |-> x, right |-> node[Prev(i, x)].right, down |-> Below(i),
                                list |-> <<d>>]
                       [] \E i \in drawn \ fresh : a = place[i] ->
                            LET i == CHOOSE j \in drawn : a = place[j]
                            IN [node[a] EXCEPT !.list = Append(@, d), !.down = Below(i)]
                       [] OTHER -> [node[a] EXCEPT !.right = After(a)]
           prev == [i \in drawn |-> Prev(i, x)]
<1>0. /\ x \in Int /\ HeaderKey \in Int /\ ~(x <= HeaderKey)
      /\ \A i \in drawn : i \in Levels
  BY Numbers DEF Levels
<1>1. /\ node' = [a \in DOMAIN node \cup {place[i] : i \in drawn} |-> Put(a)]
      /\ max_level' = IF level > max_level THEN level ELSE max_level
      /\ size' = size + 1 /\ size < MaxInserts
  BY <1>0 DEF Insert
<1>2. ASSUME NEW i \in drawn
      PROVE  /\ AlreadyThere(i, x) <=> \E n \in lev[i] : node[n].key = x
             /\ AlreadyThere(i, x) => place[i] \in lev[i] /\ node[place[i]].key = x /\ place[i] \in DOMAIN node
             /\ ~AlreadyThere(i, x) =>
                  /\ place[i] = New(i) /\ place[i] \in Address \ DOMAIN node
                  /\ LET r == node[Prev(i, x)].right IN r # NULL => r \in lev[i] /\ x < node[r].key
             /\ Prev(i, x) \in lev[i] /\ node[Prev(i, x)].key < x
  <2>1. i \in Levels
    BY <1>0
  <2>2. /\ AlreadyThere(i, x) <=> \E n \in lev[i] : node[n].key = x
        /\ AlreadyThere(i, x) => node[Prev(i, x)].right \in lev[i] /\ node[node[Prev(i, x)].right].key = x
        /\ ~AlreadyThere(i, x) => LET r == node[Prev(i, x)].right IN r # NULL => r \in lev[i] /\ x < node[r].key
    BY <1>0, <2>1, AlreadyIs
  <2>3. Prev(i, x) \in lev[i] /\ node[Prev(i, x)].key < x
    BY <1>0, <2>1, PrevIs
  <2>4. New(i) \in Address \ DOMAIN node
    BY <1>1, <2>1, NewIs
  <2>5. lev[i] \subseteq DOMAIN node
    BY <2>1, LevelIs
  <2> QED BY <2>2, <2>3, <2>4, <2>5
<1>3. fresh = {i \in drawn : ~\E n \in lev[i] : node[n].key = x}
  <2> HIDE DEF place
  <2> QED BY <1>2
<1>4. ASSUME NEW i \in drawn, NEW j \in drawn, place[i] = place[j] PROVE i = j
  <2>1. i \in Levels /\ j \in Levels
    BY <1>0
  <2>2. CASE i \in fresh /\ j \in fresh
    <3>1. New(i) = New(j)
      BY <1>2, <1>4, <2>2
    <3> QED BY <1>1, <2>1, <3>1, NewIs
  <2>3. CASE i \notin fresh /\ j \notin fresh
    <3>1. place[i] \in lev[i] /\ place[i] \in lev[j]
      BY <1>2, <1>4, <2>3
    <3> QED BY <2>1, <3>1, LevelIs
  <2>4. CASE i \in fresh /\ j \notin fresh
    BY <1>2, <1>4, <2>4
  <2>5. CASE i \notin fresh /\ j \in fresh
    BY <1>2, <1>4, <2>5
  <2> QED BY <2>2, <2>3, <2>4, <2>5
<1>5. \A i \in drawn : i \in fresh <=> ~AlreadyThere(i, x)
  OBVIOUS
<1>6. \A i \in fresh : i \in drawn /\ prev[i] = Prev(i, x)
  OBVIOUS
<1>7. ASSUME NEW i \in fresh, NEW j \in fresh, prev[i] = prev[j] PROVE i = j
  <2>1. prev[i] \in lev[i] /\ prev[j] \in lev[j] /\ i \in Levels /\ j \in Levels
    BY <1>0, <1>2, <1>6
  <2> QED BY <1>7, <2>1, LevelIs
<1>8. ASSUME NEW i \in fresh, NEW j \in drawn PROVE prev[i] # place[j]
  <2>1. /\ prev[i] \in lev[i] /\ node[prev[i]].key < x /\ i \in Levels
    BY <1>0, <1>2, <1>6
  <2>2. prev[i] \in DOMAIN node /\ node[prev[i]].key \in Int
    BY <2>1, LevelIs
  <2>3. j \in fresh => place[j] \notin DOMAIN node
    BY <1>2, <1>5
  <2>4. j \notin fresh => node[place[j]].key = x
    BY <1>2, <1>5
  <2> QED BY <1>0, <2>1, <2>2, <2>3, <2>4
<1>9. DOMAIN node' = DOMAIN node \cup {place[i] : i \in drawn} /\ \A a \in DOMAIN node' : node'[a] = Put(a)
  <2> HIDE DEF place, drawn, Put
  <2> QED BY <1>1
<1>10. \A i \in drawn : place[i] \in DOMAIN node'
  <2> HIDE DEF place, drawn, Put
  <2> QED BY <1>9
<1>11. \A i \in fresh : prev[i] \in DOMAIN node /\ prev[i] \in DOMAIN node'
  <2> HIDE DEF place, drawn, Put, prev, fresh
  <2> QED BY <1>0, <1>2, <1>6, <1>9, LevelIs
<1>12. ASSUME NEW i \in fresh
       PROVE  node'[place[i]] = [key |-> x, right |-> node[prev[i]].right, down |-> Below(i), list |-> <<d>>]
  <2>1. i \in drawn
    BY <1>6
  <2>2. (CHOOSE j \in fresh : place[i] = place[j]) = i
    <3> HIDE DEF place, drawn, fresh
    <3> QED BY <1>4, <1>6, <2>1
  <2>3. \E j \in fresh : place[i] = place[j]
    OBVIOUS
  <2>4. Put(place[i]) = [key |-> x, right |-> node[Prev(i, x)].right, down |-> Below(i), list |-> <<d>>]
    <3> DEFINE c == CHOOSE j \in fresh : place[i] = place[j]
    <3> HIDE DEF place, drawn, fresh, After, Below
    <3>0. ~\E j \in drawn \ fresh : place[i] = place[j]
      BY <1>4, <1>6, <2>1
    <3>1. Put(place[i]) = [key |-> x, right |-> node[Prev(c, x)].right, down |-> Below(c), list |-> <<d>>]
      BY <2>3, <3>0
    <3>2. c = i
      BY <2>2
    <3> HIDE DEF c, Put
    <3> QED BY <3>1, <3>2
  <2> HIDE DEF place, drawn, fresh, Put, Below, prev
  <2> QED BY <1>6, <1>9, <1>10, <2>1, <2>4
<1>13. ASSUME NEW i \in drawn \ fresh
       PROVE  node'[place[i]] = [node[place[i]] EXCEPT !.list = Append(@, d), !.down = Below(i)]
  <2>1. i \in drawn /\ i \notin fresh
    OBVIOUS
  <2>2. (CHOOSE j \in drawn : place[i] = place[j]) = i
    <3> HIDE DEF place, drawn, fresh
    <3> QED BY <1>4, <2>1
  <2>3. ~\E j \in fresh : place[i] = place[j]
    <3> HIDE DEF place, drawn, fresh
    <3> QED BY <1>4, <1>6, <2>1
  <2>4. \E j \in drawn \ fresh : place[i] = place[j]
    OBVIOUS
  <2>5. Put(place[i]) = [node[place[i]] EXCEPT !.list = Append(@, d), !.down = Below(i)]
    <3> HIDE DEF place, drawn, fresh, After, Below
    <3> QED BY <2>2, <2>3, <2>4
  <2> HIDE DEF place, drawn, fresh, Put, Below, prev
  <2> QED BY <1>9, <1>10, <2>1, <2>5
<1>14. ASSUME NEW a \in DOMAIN node, \A i \in drawn : a # place[i]
       PROVE  node'[a] = [node[a] EXCEPT !.right = After(a)]
  <2>1. ~(\E i \in fresh : a = place[i]) /\ ~(\E i \in drawn \ fresh : a = place[i])
    <3> HIDE DEF place, drawn, fresh
    <3> QED BY <1>6, <1>14
  <2>2. Put(a) = [node[a] EXCEPT !.right = After(a)]
    <3> HIDE DEF place, drawn, fresh, After, Below
    <3> QED BY <2>1
  <2>3. a \in DOMAIN node'
    <3> HIDE DEF place, drawn, fresh, Put
    <3> QED BY <1>9
  <2> HIDE DEF place, drawn, fresh, After, Put
  <2> QED BY <1>9, <2>2, <2>3
<1>15. ASSUME NEW i \in fresh PROVE node'[prev[i]] = [node[prev[i]] EXCEPT !.right = place[i]]
  <2>1. (CHOOSE j \in fresh : prev[i] = Prev(j, x)) = i /\ \E j \in fresh : prev[i] = Prev(j, x)
    <3> HIDE DEF place, drawn, fresh, prev
    <3> QED BY <1>6, <1>7
  <2>2. After(prev[i]) = place[i]
    <3> HIDE DEF place, drawn, fresh, prev
    <3> QED BY <2>1
  <2> HIDE DEF place, drawn, fresh, After, prev
  <2> QED BY <1>8, <1>11, <1>14, <2>2
<1>16. ASSUME NEW a \in DOMAIN node, \A i \in drawn : a # place[i], \A i \in fresh : a # prev[i]
       PROVE  node'[a] = node[a]
  <2>1. After(a) = node[a].right
    <3> HIDE DEF place, drawn, fresh, prev
    <3> QED BY <1>6, <1>16
  <2>2. [node[a] EXCEPT !.right = node[a].right] = node[a]
    BY DEF HeapType
  <2> HIDE DEF place, drawn, fresh, After, prev
  <2> QED BY <1>14, <1>16, <2>1, <2>2
<1>17. Inserted(lev, x, d, level, place, prev)
  <2>1. node' = [a \in DOMAIN node' |-> node'[a]]
    <3> HIDE DEF place, drawn, Put
    <3> QED BY <1>1
  <2>2. \A i \in drawn : /\ i \in fresh => place[i] \in Address \ DOMAIN node
                         /\ i \notin fresh => place[i] \in lev[i] /\ node[place[i]].key = x
    <3> HIDE DEF place, drawn, fresh
    <3> QED BY <1>2, <1>5
  <2>3. \A i \in fresh : /\ prev[i] \in lev[i] /\ node[prev[i]].key < x
                         /\ node[prev[i]].right # NULL =>
                              node[prev[i]].right \in lev[i] /\ x < node[node[prev[i]].right].key
    <3> HIDE DEF place, drawn, fresh, prev
    <3> QED BY <1>2, <1>5, <1>6
  <2>4. PICK pl : pl = place
    OBVIOUS
  <2>5. PICK pr : pr = prev
    OBVIOUS
  <2> DEFINE S == {i \in drawn : ~\E n \in lev[i] : node[n].key = x}
             L(i) == IF i = 0 THEN NULL ELSE pl[i - 1]
  <2>6. S = fresh
    <3> HIDE DEF place, fresh
    <3> QED BY <1>3
  <2>7. \A i : Below(i) = L(i)
    <3> HIDE DEF place
    <3> QED BY <2>4
  <2> HIDE DEF place, fresh, prev, Below, S, L, drawn
  <2>8. /\ \A i \in drawn : /\ i \in S => pl[i] \in Address \ DOMAIN node
                            /\ i \notin S => pl[i] \in lev[i] /\ node[pl[i]].key = x
        /\ \A i, j \in drawn : pl[i] = pl[j] => i = j
    BY <1>4, <2>2, <2>4, <2>6
  <2>9. \A i \in S : /\ pr[i] \in lev[i] /\ node[pr[i]].key < x
                     /\ node[pr[i]].right # NULL => node[pr[i]].right \in lev[i]
                        /\ x < node[node[pr[i]].right].key
    BY <2>3, <2>5, <2>6
  <2>10. DOMAIN node' = DOMAIN node \cup {pl[i] : i \in drawn}
    <3>1. DOMAIN node' = DOMAIN node \cup {place[i] : i \in drawn}
      BY <1>9
    <3>2. {place[i] : i \in drawn} = {pl[i] : i \in drawn}
      BY <2>4
    <3> QED BY <3>1, <3>2
  <2>11. \A i \in S :
          /\ node'[pl[i]] = [key |-> x, right |-> node[pr[i]].right, down |-> L(i), list |-> <<d>>]
          /\ node'[pr[i]] = [node[pr[i]] EXCEPT !.right = pl[i]]
    BY <1>12, <1>15, <2>4, <2>5, <2>6, <2>7
  <2>12. \A i \in drawn \ S : node'[pl[i]] = [node[pl[i]] EXCEPT !.list = Append(@, d), !.down = L(i)]
    BY <1>13, <2>4, <2>6, <2>7
  <2>13. \A a \in DOMAIN node : a \notin {pl[i] : i \in drawn} \cup {pr[i] : i \in S} => node'[a] = node[a]
    <3>1. ASSUME NEW a \in DOMAIN node,
      a \notin {pl[i] : i \in drawn} \cup {pr[i] : i \in S} PROVE node'[a] = node[a]
      <4>1. \A i \in drawn : a # place[i]
        BY <2>4, <3>1
      <4>2. \A i \in fresh : a # prev[i]
        BY <2>5, <2>6, <3>1
      <4> QED BY <1>16, <4>1, <4>2
    <3> QED BY <3>1
  <2>14. Inserted(lev, x, d, level, pl, pr)
    BY <2>1, <2>8, <2>9, <2>10, <2>11, <2>12, <2>13, Zenon DEF Inserted, S, L, drawn
  <2> QED BY <2>4, <2>5, <2>14
<1> HIDE DEF place, prev
<1> QED BY <1>1, <1>17

\* The fields of the nodes after an insertion, S the levels that have a new node.
Fields(S, x, d, level, place, prev) ==
  /\ DOMAIN node \subseteq DOMAIN node' /\ DOMAIN node' \subseteq Address
  /\ \A i \in 0..level : i \in Levels /\ place[i] \in DOMAIN node' /\ node'[place[i]].key = x
  /\ \A a \in DOMAIN node : node'[a].key = node[a].key
  /\ \A i \in S : prev[i] \in DOMAIN node /\ node'[prev[i]].right = place[i]
  /\ \A a \in DOMAIN node : (\A i \in S : a # prev[i]) => node'[a].right = node[a].right
  /\ \A a \in DOMAIN node : (\A i \in 0..level : a # place[i]) => node'[a].down = node[a].down
     /\ node'[a].list = node[a].list
  /\ \A i \in 0..level : node'[place[i]].down = IF i = 0 THEN NULL ELSE place[i - 1]
  /\ \A i \in S : node'[place[i]].right = node[prev[i]].right /\ node'[place[i]].list = <<d>>
  /\ \A i \in (0..level) \ S : node'[place[i]].list = Append(node[place[i]].list, d)
  /\ HeapType'

LEMMA InsertFields ==
  ASSUME TypeOK, HeapType, NEW lev, Laid(lev), NEW x \in Keys, NEW d \in Data, NEW level \in Levels,
         NEW place, NEW prev, Inserted(lev, x, d, level, place, prev),
         NEW S, S = {i \in 0..level : ~\E n \in lev[i] : node[n].key = x}
  PROVE  Fields(S, x, d, level, place, prev)
<1> DEFINE L(i) == IF i = 0 THEN NULL ELSE place[i - 1]
           D == DOMAIN node
<1>0. level \in Nat /\ MaxLevel \in Nat /\ level < MaxLevel /\ S \subseteq 0..level
  /\ \A i \in 0..level : i \in Levels
  BY Numbers DEF Levels
<1>1. /\ \A i \in 0..level : /\ i \in S => place[i] \in Address \ D
                             /\ i \notin S => place[i] \in lev[i] /\ node[place[i]].key = x
      /\ \A i, j \in 0..level : place[i] = place[j] => i = j
      /\ \A i \in S : prev[i] \in lev[i] /\ node[prev[i]].key < x
  BY Zenon DEF Inserted
<1>2. DOMAIN node' = D \cup {place[i] : i \in 0..level}
  BY Zenon DEF Inserted
<1>3. \A i \in S :
        /\ node'[place[i]] = [key |-> x, right |-> node[prev[i]].right, down |-> L(i), list |-> <<d>>]
        /\ node'[prev[i]] = [node[prev[i]] EXCEPT !.right = place[i]]
  BY Zenon DEF Inserted
<1>4. \A i \in (0..level) \ S : node'[place[i]] = [node[place[i]] EXCEPT !.list = Append(@, d), !.down = L(i)]
  BY Zenon DEF Inserted
<1>5. \A a \in D : a \notin {place[i] : i \in 0..level} \cup {prev[i] : i \in S} => node'[a] = node[a]
  BY Zenon DEF Inserted
<1>6. node' = [a \in DOMAIN node' |-> node'[a]]
  BY Zenon DEF Inserted
<1>7. /\ \A i \in 0..level : i \notin S => place[i] \in D
      /\ \A i \in S : prev[i] \in D /\ node[prev[i]].right \in D \cup {NULL}
      /\ D \subseteq Address
  <2>1. \A i \in Levels : lev[i] \subseteq D
    BY LevelIs
  <2> QED BY <1>0, <1>1, <2>1 DEF TypeOK
<1>8. D \subseteq DOMAIN node' /\ DOMAIN node' \subseteq Address
  /\ \A i \in 0..level : place[i] \in DOMAIN node'
  BY <1>1, <1>2, <1>7
<1>9. \A i \in S, j \in 0..level : prev[i] # place[j]
  <2> SUFFICES ASSUME NEW i \in S, NEW j \in 0..level, prev[i] = place[j] PROVE FALSE
    OBVIOUS
  <2>1. prev[i] \in D /\ node[prev[i]].key < x /\ node[prev[i]].key \in Int /\ x \in Int
    BY <1>1, <1>7, NodeTypes, Numbers
  <2>2. CASE j \in S
    BY <1>1, <2>1, <2>2
  <2>3. CASE j \notin S
    <3>1. node[place[j]].key = x
      BY <1>1, <2>3
    <3> QED BY <2>1, <3>1
  <2> QED BY <2>2, <2>3
<1>10. \A a \in D : node[a] \in [key : Keys \cup {HeaderKey}, right : D \cup {NULL}, down : D \cup {NULL},
  list : Seq(Data)]
  BY DEF HeapType
<1>11. \A i \in 0..level : L(i) \in DOMAIN node' \cup {NULL}
  <2> SUFFICES ASSUME NEW i \in 0..level, i # 0 PROVE place[i - 1] \in DOMAIN node'
    BY DEF L
  <2>1. i - 1 \in 0..level
    BY <1>0
  <2> QED BY <1>8, <2>1
<1> DEFINE N == [key : Keys \cup {HeaderKey}, right : DOMAIN node' \cup {NULL},
  down : DOMAIN node' \cup {NULL}, list : Seq(Data)]
<1> HIDE DEF L
<1>12. ASSUME NEW i \in S
       PROVE  /\ node'[place[i]].key = x /\ node'[place[i]].right = node[prev[i]].right
              /\ node'[place[i]].down = L(i) /\ node'[place[i]].list = <<d>>
              /\ node'[place[i]] \in N
  <2>1. PICK r, b, s : r = node[prev[i]].right /\ b = L(i) /\ s = <<d>>
    OBVIOUS
  <2>2. s \in Seq(Data) /\ b \in DOMAIN node' \cup {NULL} /\ r \in DOMAIN node' \cup {NULL}
    BY <1>0, <1>7, <1>8, <1>11, <2>1
  <2>3. node'[place[i]] = [key |-> x, right |-> r, down |-> b, list |-> s]
    BY <1>3, <2>1
  <2>4. /\ node'[place[i]].key = x /\ node'[place[i]].right = r
        /\ node'[place[i]].down = b /\ node'[place[i]].list = s /\ node'[place[i]] \in N
    BY <2>2, <2>3
  <2> QED BY <2>1, <2>4
<1>13. ASSUME NEW i \in (0..level) \ S
       PROVE  /\ node'[place[i]].key = x /\ node'[place[i]].right = node[place[i]].right
              /\ node'[place[i]].down = L(i) /\ node'[place[i]].list = Append(node[place[i]].list, d)
              /\ node'[place[i]] \in N
  <2>1. PICK n : n = node[place[i]]
    OBVIOUS
  <2>2. n \in [key : Keys \cup {HeaderKey}, right : D \cup {NULL}, down : D \cup {NULL}, list : Seq(Data)]
    /\ n.key = x
    BY <1>1, <1>7, <1>10, <2>1
  <2>3. Append(n.list, d) \in Seq(Data) /\ L(i) \in DOMAIN node' \cup {NULL}
    /\ n.right \in DOMAIN node' \cup {NULL}
    BY <1>8, <1>11, <2>2
  <2>4. PICK s : s = Append(n.list, d)
    OBVIOUS
  <2>5. node'[place[i]] = [n EXCEPT !.list = s, !.down = L(i)]
    BY <1>4, <2>1, <2>4
  <2>6. /\ node'[place[i]].key = x /\ node'[place[i]].right = n.right
        /\ node'[place[i]].down = L(i) /\ node'[place[i]].list = s
        /\ node'[place[i]] \in N
    BY <2>2, <2>3, <2>4, <2>5
  <2> QED BY <2>1, <2>4, <2>6
<1>14. ASSUME NEW i \in S
       PROVE  /\ node'[prev[i]].key = node[prev[i]].key /\ node'[prev[i]].right = place[i]
              /\ node'[prev[i]].down = node[prev[i]].down /\ node'[prev[i]].list = node[prev[i]].list
              /\ node'[prev[i]] \in N
  <2>1. PICK n : n = node[prev[i]]
    OBVIOUS
  <2>2. n \in [key : Keys \cup {HeaderKey}, right : D \cup {NULL}, down : D \cup {NULL}, list : Seq(Data)]
    BY <1>7, <1>10, <2>1
  <2>3. place[i] \in DOMAIN node' /\ n.down \in DOMAIN node' \cup {NULL}
    BY <1>0, <1>8, <2>2
  <2>4. node'[prev[i]] = [n EXCEPT !.right = place[i]]
    BY <1>3, <2>1
  <2> QED BY <2>1, <2>2, <2>3, <2>4
<1>15. ASSUME NEW a \in D, \A i \in 0..level : a # place[i], \A i \in S : a # prev[i]
       PROVE  node'[a] = node[a] /\ node'[a] \in N
  <2>1. node'[a] = node[a]
    BY <1>5, <1>15
  <2>2. node[a] \in N
    BY <1>8, <1>10
  <2> QED BY <2>1, <2>2
<1>16. \A i \in 0..level : node'[place[i]].key = x /\ node'[place[i]].down = L(i) /\ node'[place[i]] \in N
  <2> HIDE DEF N
  <2> QED BY <1>12, <1>13
<1>17. ASSUME NEW a \in D
       PROVE  /\ node'[a].key = node[a].key /\ node'[a] \in N
              /\ (\A i \in S : a # prev[i]) => node'[a].right = node[a].right
              /\ (\A i \in 0..level : a # place[i]) => node'[a].down = node[a].down
                 /\ node'[a].list = node[a].list
  <2> HIDE DEF N
  <2>1. CASE \E i \in S : a = prev[i]
    BY <1>14, <2>1
  <2>2. CASE \E i \in 0..level : a = place[i]
    <3>1. PICK i \in 0..level : a = place[i]
      BY <2>2
    <3>2. i \notin S
      BY <1>1, <3>1
    <3>3. node'[a].right = node[a].right /\ node'[a].key = x /\ node[a].key = x /\ node'[a] \in N
      BY <1>1, <1>13, <3>1, <3>2
    <3> QED BY <3>1, <3>3
  <2>3. CASE (\A i \in 0..level : a # place[i]) /\ (\A i \in S : a # prev[i])
    BY <1>15, <2>3
  <2> QED BY <2>1, <2>2, <2>3
<1>18. HeapType'
  <2>1. \A a \in DOMAIN node' : node'[a] \in N
    <3> HIDE DEF N
    <3> QED BY <1>2, <1>16, <1>17
  <2>2. node' \in [DOMAIN node' -> N]
    <3> HIDE DEF N
    <3> QED BY <1>6, <2>1
  <2> QED BY <2>2 DEF HeapType
<1> HIDE DEF N
<1>19. \A i \in 0..level : node'[place[i]].down = IF i = 0 THEN NULL ELSE place[i - 1]
  BY <1>16 DEF L
<1> QED BY <1>0, <1>7, <1>8, <1>12, <1>13, <1>14, <1>16, <1>17, <1>18, <1>19 DEF Fields

\* The levels after an insertion: each drawn level that had no node of the key has one more.
LEMMA InsertLaid ==
  ASSUME TypeOK, HeapType, NEW lev, Laid(lev), NEW x \in Keys, x > HeaderKey, NEW d \in Data,
    NEW level \in Levels,
         NEW place, NEW prev, Inserted(lev, x, d, level, place, prev),
         max_level' = IF level > max_level THEN level ELSE max_level
  PROVE  \E next : /\ Laid(next)'
                   /\ next[0] = lev[0] \cup {place[0]}
<1>1. PICK S : S = {i \in 0..level : ~\E n \in lev[i] : node[n].key = x}
  OBVIOUS
<1>2. PICK next : next = [i \in Levels |-> IF i \in S THEN lev[i] \cup {place[i]} ELSE lev[i]]
  OBVIOUS
<1> DEFINE D == DOMAIN node
<1>3. /\ D \subseteq DOMAIN node'
      /\ \A i \in 0..level : i \in Levels /\ place[i] \in DOMAIN node' /\ node'[place[i]].key = x
      /\ \A a \in D : node'[a].key = node[a].key
      /\ \A i \in S : prev[i] \in D /\ node'[prev[i]].right = place[i]
      /\ \A a \in D : (\A i \in S : a # prev[i]) => node'[a].right = node[a].right
      /\ \A a \in D : (\A i \in 0..level : a # place[i]) => node'[a].down = node[a].down
      /\ \A i \in 0..level : node'[place[i]].down = IF i = 0 THEN NULL ELSE place[i - 1]
      /\ \A i \in S : node'[place[i]].right = node[prev[i]].right
  <2>1. Fields(S, x, d, level, place, prev)
    BY <1>1, InsertFields
  <2> QED BY <2>1 DEF Fields
<1>4. /\ \A i \in 0..level : /\ i \in S => place[i] \notin D
                             /\ i \notin S => place[i] \in lev[i] /\ node[place[i]].key = x
      /\ \A i, j \in 0..level : place[i] = place[j] => i = j
      /\ \A i \in S : prev[i] \in lev[i] /\ node[prev[i]].key < x
      /\ \A i \in S : node[prev[i]].right # NULL =>
                        node[prev[i]].right \in lev[i] /\ x < node[node[prev[i]].right].key
  BY <1>1, Zenon DEF Inserted
<1>5. DOMAIN node' = D \cup {place[i] : i \in 0..level}
  BY Zenon DEF Inserted
<1>6. S \subseteq 0..level /\ \A i \in S : i \in 0..level /\ i \in Levels
  BY <1>1, <1>3
<1>7. /\ x \in Int /\ HeaderKey \in Int /\ level \in Nat /\ level < MaxLevel /\ MaxLevel \in Nat /\ 0 \in Levels
      /\ Levels = 0..MaxLevel-1 /\ 0 \in 0..level
  BY Numbers DEF Levels
<1>8. \A i \in Levels : /\ lev[i] \subseteq D /\ lev[i] \subseteq next[i] /\ \A n \in lev[i] : n # NULL
                           /\ node[n].key \in Int
                        /\ \A n \in next[i] : n \in lev[i] \/ (i \in S /\ n = place[i] /\ n \notin D)
  <2>1. \A i \in Levels : lev[i] \subseteq D /\ \A n \in lev[i] : n # NULL /\ node[n].key \in Int
    BY LevelIs
  <2>2. \A i \in Levels : next[i] = IF i \in S THEN lev[i] \cup {place[i]} ELSE lev[i]
    BY <1>2
  <2>3. \A i \in S : place[i] \notin D
    BY <1>4, <1>6
  <2> QED BY <2>1, <2>2, <2>3
<1>9. \A i \in 0..level : place[i] \in next[i]
  BY <1>2, <1>3, <1>4
<1>10. \A i, j \in Levels : \A n : n \in lev[i] /\ n \in lev[j] => i = j
  BY LevelIs
<1>11. \A i, j \in Levels : \A n : n \in next[i] /\ n \in next[j] => i = j
  <2> SUFFICES ASSUME NEW i \in Levels, NEW j \in Levels, NEW n, n \in next[i], n \in next[j] PROVE i = j
    OBVIOUS
  <2>1. CASE n \in lev[i] /\ n \in lev[j]
    BY <1>10, <2>1
  <2>2. CASE ~(n \in lev[i] /\ n \in lev[j])
    <3>1. i \in S /\ n = place[i] /\ j \in S /\ n = place[j]
      BY <1>8, <2>2
    <3> QED BY <1>4, <1>6, <3>1
  <2> QED BY <2>1, <2>2
<1>12. Parts(next)'
  <2>1. \A i \in Levels : next[i] \subseteq DOMAIN node'
    <3> SUFFICES ASSUME NEW i \in Levels, NEW n \in next[i] PROVE n \in DOMAIN node'
      OBVIOUS
    <3>1. CASE n \in lev[i]
      <4>1. n \in D
        BY <1>8, <3>1
      <4> QED BY <1>3, <4>1
    <3>2. CASE i \in S /\ n = place[i]
      BY <1>3, <1>6, <3>2
    <3> QED BY <1>8, <3>1, <3>2
  <2>2. next \in [Levels -> SUBSET DOMAIN node']
    BY <1>2, <2>1
  <2>3. DOMAIN node' = UNION {next[i] : i \in Levels}
    <3>1. ASSUME NEW n \in DOMAIN node' PROVE \E i \in Levels : n \in next[i]
      <4>1. CASE n \in D
        <5>1. PICK i \in Levels : n \in lev[i]
          BY <4>1 DEF Laid, Parts
        <5> QED BY <1>8, <5>1
      <4>2. CASE \E i \in 0..level : n = place[i]
        BY <1>3, <1>9, <4>2
      <4> QED BY <1>5, <4>1, <4>2
    <3> QED BY <2>1, <3>1
  <2>4. \A i, j \in Levels : i # j => next[i] \cap next[j] = {}
    BY <1>11
  <2> QED BY <2>2, <2>3, <2>4 DEF Parts, Levels
<1>13. \A i \in Levels : \A n \in lev[i] : n \in D /\ node'[n].key = node[n].key /\ node'[n].key \in Int
  BY <1>3, <1>8
<1>14. \A i \in S : node'[place[i]].key = x
  BY <1>3, <1>6
<1>15. Headed(next)'
  <2> SUFFICES ASSUME NEW i \in Levels
               PROVE  i \in next[i] /\ node'[i].key = HeaderKey
                 /\ \A n \in next[i] : n # i => node'[n].key > HeaderKey
    BY DEF Headed, Levels, HeaderKey
  <2>1. i \in lev[i] /\ node[i].key = HeaderKey /\ \A n \in lev[i] : n # i => node[n].key > HeaderKey
    BY DEF Laid, Headed
  <2>2. i \in next[i] /\ node'[i].key = HeaderKey
    BY <1>8, <1>13, <2>1
  <2>3. ASSUME NEW n \in next[i], n # i PROVE node'[n].key > HeaderKey
    <3>1. CASE n \in lev[i]
      BY <1>13, <2>1, <2>3, <3>1
    <3>2. CASE i \in S /\ n = place[i]
      BY <1>14, <3>2
    <3> QED BY <1>8, <3>1, <3>2
  <2> QED BY <2>2, <2>3
<1>16. \A i \in S : \A n \in lev[i] : node[n].key # x
  BY <1>1
<1>17. OneEach(next)'
  <2> SUFFICES ASSUME NEW i \in Levels, NEW m \in next[i], NEW n \in next[i],
    node'[m].key = node'[n].key PROVE m = n
    BY DEF OneEach, Levels
  <2>1. CASE m \in lev[i] /\ n \in lev[i]
    <3>1. node[m].key = node[n].key
      BY <1>13, <2>1
    <3> QED BY <2>1, <3>1 DEF Laid, OneEach
  <2>2. CASE ~(m \in lev[i] /\ n \in lev[i])
    BY <1>8, <1>13, <1>14, <1>16, <2>2
  <2> QED BY <2>1, <2>2
<1>18. Linked(next)'
  <2> SUFFICES ASSUME NEW i \in Levels, NEW n \in next[i]
               PROVE  /\ node'[n].right # NULL => node'[n].right \in next[i]
                         /\ node'[n].key < node'[node'[n].right].key
                      /\ \A m \in next[i] : node'[n].key < node'[m].key =>
                           node'[n].right # NULL /\ node'[node'[n].right].key <= node'[m].key
    BY DEF Linked, Levels
  <2>0. ASSUME NEW k \in lev[i]
        PROVE  /\ node[k].right # NULL => /\ node[k].right \in lev[i] /\ node[k].key < node[node[k].right].key
                                          /\ node'[node[k].right].key = node[node[k].right].key
               /\ \A m \in lev[i] : node[k].key < node[m].key => node[k].right # NULL
                  /\ node[node[k].right].key <= node[m].key
    <3>1. /\ node[k].right # NULL => node[k].right \in lev[i] /\ node[k].key < node[node[k].right].key
          /\ \A m \in lev[i] : node[k].key < node[m].key => node[k].right # NULL
             /\ node[node[k].right].key <= node[m].key
      BY DEF Laid, Linked
    <3> QED BY <1>13, <3>1
  <2>1. CASE i \notin S
    <3>1. n \in lev[i] /\ \A m \in next[i] : m \in lev[i]
      BY <1>8, <2>1
    <3>2. \A j \in S : n # prev[j]
      BY <1>4, <1>6, <1>10, <2>1, <3>1
    <3>3. node'[n].right = node[n].right /\ node'[n].key = node[n].key
      BY <1>3, <1>13, <3>1, <3>2
    <3>4. node'[n].right # NULL => node'[n].right \in next[i] /\ node'[n].key < node'[node'[n].right].key
      BY <1>8, <2>0, <3>1, <3>3
    <3>5. ASSUME NEW m \in next[i], node'[n].key < node'[m].key
          PROVE  node'[n].right # NULL /\ node'[node'[n].right].key <= node'[m].key
      <4>1. m \in lev[i] /\ node'[m].key = node[m].key
        BY <1>13, <3>1
      <4> QED BY <2>0, <3>1, <3>3, <3>5, <4>1
    <3> QED BY <3>4, <3>5
  <2>2. CASE i \in S
    <3> DEFINE p == prev[i]  q == place[i]  r == node[p].right
    <3>1. /\ p \in lev[i] /\ p \in D /\ node[p].key < x /\ node'[p].right = q /\ node'[p].key = node[p].key
      /\ node[p].key \in Int
          /\ q \in next[i] /\ q \notin D /\ q # NULL /\ node'[q].key = x /\ node'[q].right = r
      <4>1. q \in Nat
        <5>1. q \in Address
          BY <1>1, <2>2, Zenon DEF Inserted
        <5> QED BY <5>1, Numbers
      <4>2. q # NULL
        BY <4>1, Numbers
      <4> QED BY <1>3, <1>4, <1>6, <1>9, <1>13, <2>2, <4>2
    <3>2. r # NULL => r \in lev[i] /\ r \in next[i] /\ x < node[r].key /\ node'[r].key = node[r].key
      /\ node[r].key \in Int
      BY <1>4, <1>8, <1>13, <2>2
    <3>3. \A m \in lev[i] : node[p].key < node[m].key => r # NULL /\ node[r].key <= node[m].key
      BY <2>0, <3>1
    <3>4. \A m \in next[i] : m = q \/ (m \in lev[i] /\ node'[m].key = node[m].key /\ node[m].key \in Int)
      BY <1>8, <1>13
    <3> HIDE DEF p, q, r
    <3>5. CASE n = q
      <4>1. ASSUME NEW m \in next[i], x < node'[m].key PROVE r # NULL /\ node'[r].key <= node'[m].key
        <5>1. m \in lev[i] /\ node'[m].key = node[m].key /\ node[m].key \in Int
          BY <1>7, <3>1, <3>4, <4>1
        <5>2. node[p].key < node[m].key
          BY <1>7, <3>1, <4>1, <5>1
        <5> QED BY <3>2, <3>3, <5>1, <5>2
      <4> QED BY <3>1, <3>2, <3>5, <4>1
    <3>6. CASE n = p
      <4>1. ASSUME NEW m \in next[i], node[p].key < node'[m].key PROVE x <= node'[m].key
        <5>1. CASE m = q
          BY <1>7, <3>1, <5>1
        <5>2. CASE m \in lev[i] /\ node'[m].key = node[m].key /\ node[m].key \in Int
          <6>1. r # NULL /\ node[r].key <= node[m].key
            BY <3>3, <4>1, <5>2
          <6> QED BY <1>7, <3>2, <5>2, <6>1
        <5> QED BY <3>4, <5>1, <5>2
      <4> QED BY <3>1, <3>6, <4>1
    <3>7. CASE n # p /\ n # q
      <4>1. n \in lev[i] /\ node'[n].key = node[n].key /\ node[n].key \in Int
        BY <3>4, <3>7
      <4>2. \A j \in S : n # prev[j]
        BY <1>4, <1>6, <1>10, <3>7, <4>1 DEF p
      <4>3. node'[n].right = node[n].right
        BY <1>3, <1>13, <4>1, <4>2
      <4>4. node[n].right # NULL => /\ node[n].right \in next[i] /\ node[n].key < node[node[n].right].key
                                    /\ node'[node[n].right].key = node[node[n].right].key
                                       /\ node[node[n].right].key \in Int
        BY <1>8, <2>0, <4>1
      <4>5. ASSUME NEW m \in next[i], node[n].key < node'[m].key
            PROVE  node[n].right # NULL /\ node[node[n].right].key <= node'[m].key
        <5>1. CASE m = q
          <6>1. node[n].key < x
            BY <3>1, <4>5, <5>1
          <6>2. ~(node[p].key < node[n].key)
            <7> SUFFICES ASSUME node[p].key < node[n].key PROVE FALSE
              OBVIOUS
            <7>1. r # NULL /\ node[r].key <= node[n].key
              BY <3>3, <4>1
            <7> QED BY <1>7, <3>2, <4>1, <6>1, <7>1
          <6>3. node[n].key # node[p].key
            BY <3>1, <3>7, <4>1 DEF Laid, OneEach
          <6>4. node[n].key < node[p].key
            BY <3>1, <4>1, <6>2, <6>3
          <6>5. node[n].right # NULL /\ node[node[n].right].key <= node[p].key
            BY <2>0, <3>1, <4>1, <6>4
          <6> QED BY <1>7, <3>1, <4>4, <5>1, <6>5
        <5>2. CASE m \in lev[i] /\ node'[m].key = node[m].key
          BY <2>0, <4>1, <4>5, <5>2
        <5> QED BY <3>4, <5>1, <5>2
      <4> QED BY <4>1, <4>3, <4>4, <4>5
    <3> QED BY <3>5, <3>6, <3>7
  <2> QED BY <2>1, <2>2
<1>19. Stacked(next)'
  <2> SUFFICES ASSUME NEW i \in Levels, NEW n \in next[i]
               PROVE  IF i = 0 THEN node'[n].down = NULL
                      ELSE node'[n].down \in next[i - 1] /\ node'[node'[n].down].key = node'[n].key
    BY DEF Stacked, Levels
  <2>1. CASE i \in 0..level /\ n = place[i]
    <3>1. node'[n].down = IF i = 0 THEN NULL ELSE place[i - 1]
      BY <1>3, <2>1
    <3>2. i # 0 => i - 1 \in 0..level
      BY <1>7, <2>1
    <3>3. i # 0 => place[i - 1] \in next[i - 1] /\ node'[place[i - 1]].key = x
      BY <1>3, <1>9, <3>2
    <3> QED BY <1>3, <2>1, <3>1, <3>3
  <2>2. CASE ~(i \in 0..level /\ n = place[i])
    <3>1. n \in lev[i] /\ n \in D
      BY <1>6, <1>8, <2>2
    <3>2. \A j \in 0..level : n # place[j]
      <4> SUFFICES ASSUME NEW j \in 0..level, n = place[j] PROVE FALSE
        OBVIOUS
      <4>1. n \in next[j] /\ j \in Levels
        BY <1>3, <1>9
      <4> QED BY <1>11, <2>2, <4>1
    <3>3. node'[n].down = node[n].down
      BY <1>3, <3>1, <3>2
    <3>4. IF i = 0 THEN node[n].down = NULL ELSE node[n].down \in lev[i - 1]
      /\ node[node[n].down].key = node[n].key
      BY <3>1 DEF Laid, Stacked
    <3>5. i # 0 => i - 1 \in Levels
      BY <1>7
    <3> QED BY <1>8, <1>13, <3>1, <3>3, <3>4, <3>5
  <2> QED BY <2>1, <2>2
<1>20. Topped(next)'
  <2> SUFFICES ASSUME NEW i \in Levels, i > max_level' PROVE next[i] = {i}
    BY DEF Topped, Levels
  <2>1. max_level \in Nat /\ i \in Nat
    BY Numbers DEF TypeOK
  <2>2. i > max_level /\ i > level
    BY <1>7, <2>1
  <2>3. i \notin S /\ lev[i] = {i}
    BY <1>6, <1>7, <2>1, <2>2 DEF Laid, Topped
  <2> QED BY <1>2, <2>3
<1>21. next[0] = lev[0] \cup {place[0]}
  <2>1. 0 \in S \/ place[0] \in lev[0]
    BY <1>4, <1>7
  <2> QED BY <1>2, <1>7, <2>1
<1> QED BY <1>12, <1>15, <1>17, <1>18, <1>19, <1>20, <1>21 DEF Laid

-----------------------------------------------------------------------------
(* Removal *)

\* The nodes after a removal: those of another key, linked past the one that goes.
LEMMA RemoveIs ==
  ASSUME TypeOK, HeapType, NEW lev, Laid(lev), NEW x \in Keys, Remove(x)
  PROVE  /\ DOMAIN node' = {a \in DOMAIN node : node[a].key # x}
         /\ \A a \in DOMAIN node' : node'[a] = [node[a] EXCEPT !.right = Past(@, x)]
         /\ node' = [a \in DOMAIN node' |-> node'[a]]
         /\ x # HeaderKey /\ max_level' = max_level /\ size' = size
<1> DEFINE D == DOMAIN node
           visited == UNION {On(i) : i \in Removed}
           kept == {a \in D : a \in visited => node[a].key # x}
<1>1. /\ x # HeaderKey /\ max_level' = max_level /\ size' = size
      /\ node' = [a \in kept |-> IF a \in visited THEN [node[a] EXCEPT !.right = Past(@, x)] ELSE node[a]]
  BY DEF Remove
<1>2. \A i \in Removed : i \in Levels /\ On(i) = lev[i]
  <2>1. max_level \in Levels
    BY DEF TypeOK
  <2>2. \A i \in Removed : i \in Levels
    BY <2>1, Numbers DEF Removed, Levels
  <2> QED BY <2>2, OnIs
<1>3. ASSUME NEW a \in D, a \notin visited
      PROVE  node[a].key # x /\ [node[a] EXCEPT !.right = Past(@, x)] = node[a]
  <2>1. PICK i \in Levels : a \in lev[i]
    BY DEF Laid, Parts
  <2>2. i \notin Removed
    BY <1>2, <1>3, <2>1
  <2>3. i > max_level
    BY <2>2, Numbers DEF Removed, Levels, TypeOK
  <2>4. lev[i] = {i} /\ a = i
    BY <2>1, <2>3 DEF Laid, Topped
  <2>5. node[a].key = HeaderKey
    BY <2>4 DEF Laid, Headed
  <2>6. node[a].right = NULL
    <3>1. node[a].right # NULL => node[a].right \in lev[i] /\ node[a].key < node[node[a].right].key
      BY <2>1, LevelIs
    <3>2. node[a].key \in Int
      BY NodeTypes
    <3> QED BY <2>4, <3>1, <3>2
  <2>7. Past(node[a].right, x) = node[a].right
    BY <2>6, PastIs
  <2>8. node[a] \in [key : Keys \cup {HeaderKey}, right : D \cup {NULL}, down : D \cup {NULL}, list : Seq(Data)]
    BY DEF HeapType
  <2> QED BY <1>1, <2>5, <2>7, <2>8
<1>4. kept = {a \in D : node[a].key # x}
  <2> HIDE DEF visited
  <2> QED BY <1>3
<1>5. DOMAIN node' = kept /\ node' = [a \in DOMAIN node' |-> node'[a]]
  <2> HIDE DEF kept, visited
  <2> QED BY <1>1
<1>6. ASSUME NEW a \in kept PROVE node'[a] = [node[a] EXCEPT !.right = Past(@, x)]
  <2>1. a \in D
    OBVIOUS
  <2> HIDE DEF kept, visited
  <2>2. node'[a] = IF a \in visited THEN [node[a] EXCEPT !.right = Past(@, x)] ELSE node[a]
    BY <1>1
  <2> QED BY <1>3, <2>1, <2>2
<1> QED
  <2> HIDE DEF kept, visited
  <2> QED BY <1>1, <1>4, <1>5, <1>6

\* The levels after a removal: each has lost its node of the key.
LEMMA RemoveLaid ==
  ASSUME TypeOK, HeapType, NEW lev, Laid(lev), NEW x \in Keys, Remove(x)
  PROVE  /\ \E next : Laid(next)' /\ next[0] = {n \in lev[0] : node[n].key # x}
         /\ \A n \in lev[0] : node[n].key # x =>
              n \in DOMAIN node' /\ node'[n].key = node[n].key /\ node'[n].list = node[n].list
         /\ HeapType'
<1> DEFINE D == DOMAIN node
           R(n) == Past(node[n].right, x)
<1>1. PICK next : next = [i \in Levels |-> {n \in lev[i] : node[n].key # x}]
  OBVIOUS
<1>2. /\ DOMAIN node' = {a \in D : node[a].key # x}
      /\ \A a \in DOMAIN node' : node'[a] = [node[a] EXCEPT !.right = R(a)]
      /\ node' = [a \in DOMAIN node' |-> node'[a]]
      /\ x # HeaderKey /\ max_level' = max_level
  BY RemoveIs
<1> HIDE DEF R
<1>3. ASSUME NEW a \in DOMAIN node'
      PROVE  /\ a \in D /\ node[a].key # x
             /\ node'[a].key = node[a].key /\ node'[a].right = R(a) /\ node'[a].down = node[a].down
                /\ node'[a].list = node[a].list
             /\ node'[a].key \in Keys \cup {HeaderKey} /\ node'[a].list \in Seq(Data)
             /\ node'[a] = [key |-> node'[a].key, right |-> node'[a].right, down |-> node'[a].down,
                list |-> node'[a].list]
  <2>1. a \in D /\ node[a].key # x
    BY <1>2
  <2>2. PICK n : n = node[a]
    OBVIOUS
  <2>3. n \in [key : Keys \cup {HeaderKey}, right : D \cup {NULL}, down : D \cup {NULL}, list : Seq(Data)]
    BY <2>1, <2>2 DEF HeapType
  <2>4. node'[a] = [n EXCEPT !.right = R(a)]
    BY <1>2, <2>2
  <2> QED BY <2>1, <2>2, <2>3, <2>4
<1>4. \A i \in Levels : \A n : n \in next[i] <=> n \in lev[i] /\ node[n].key # x
  BY <1>1
<1>5. \A i \in Levels : \A n \in next[i] : /\ n \in DOMAIN node' /\ n \in lev[i] /\ node[n].key # x
                                           /\ node'[n].key = node[n].key /\ node'[n].right = R(n)
                                           /\ node'[n].down = node[n].down /\ node'[n].key \in Int
  <2> SUFFICES ASSUME NEW i \in Levels, NEW n \in next[i]
               PROVE  n \in DOMAIN node' /\ n \in lev[i] /\ node[n].key # x /\ node[n].key \in Int
    BY <1>3
  <2>1. n \in lev[i] /\ node[n].key # x
    BY <1>4
  <2>2. n \in D /\ node[n].key \in Int
    BY <2>1, LevelIs
  <2> QED BY <1>2, <2>1, <2>2
<1>6. x \in Int /\ HeaderKey \in Int
  BY Numbers
<1>7. ASSUME NEW i \in Levels, NEW n \in next[i]
      PROVE  /\ R(n) # NULL => R(n) \in next[i] /\ node[n].key < node[R(n)].key
             /\ \A m \in next[i] : node[n].key < node[m].key => R(n) # NULL /\ node[R(n)].key <= node[m].key
  <2> DEFINE r == node[n].right  s == node[r].right
  <2>1. n \in lev[i] /\ node[n].key # x /\ node[n].key \in Int
    BY <1>5
  <2>2. /\ r # NULL => r \in lev[i] /\ node[n].key < node[r].key /\ node[r].key \in Int /\ r \in D
        /\ \A m \in lev[i] : node[n].key < node[m].key => r # NULL /\ node[r].key <= node[m].key
    <3>1. /\ r # NULL => r \in lev[i] /\ node[n].key < node[r].key
          /\ \A m \in lev[i] : node[n].key < node[m].key => r # NULL /\ node[r].key <= node[m].key
      BY <2>1 DEF Laid, Linked
    <3> QED BY <3>1, LevelIs
  <2>3. R(n) = IF r # NULL /\ node[r].key = x THEN s ELSE r
    <3>1. CASE r = NULL
      BY <3>1, PastIs DEF R
    <3>2. CASE r # NULL
      BY <2>2, <3>2, PastIs DEF R
    <3> QED BY <3>1, <3>2
  <2>4. CASE ~(r # NULL /\ node[r].key = x)
    <3>1. R(n) = r
      BY <2>3, <2>4
    <3> HIDE DEF r, s
    <3> QED BY <1>4, <2>1, <2>2, <2>4, <3>1
  <2>5. CASE r # NULL /\ node[r].key = x
    <3>1. R(n) = s
      BY <2>3, <2>5
    <3>2. /\ s # NULL => s \in lev[i] /\ x < node[s].key
          /\ \A m \in lev[i] : x < node[m].key => s # NULL /\ node[s].key <= node[m].key
      BY <2>2, <2>5 DEF Laid, Linked
    <3>3. s # NULL => node[s].key \in Int
      BY <3>2, LevelIs
    <3> HIDE DEF s, r
    <3>4. R(n) # NULL => R(n) \in next[i] /\ node[n].key < node[R(n)].key
      BY <1>4, <1>6, <2>1, <2>2, <2>5, <3>1, <3>2, <3>3
    <3>5. ASSUME NEW m \in next[i], node[n].key < node[m].key PROVE R(n) # NULL /\ node[R(n)].key <= node[m].key
      <4>1. m \in lev[i] /\ node[m].key # x /\ node[m].key \in Int
        BY <1>5
      <4>2. x <= node[m].key
        BY <2>2, <2>5, <3>5, <4>1
      <4>3. x < node[m].key
        BY <1>6, <4>1, <4>2
      <4> QED BY <3>1, <3>2, <4>1, <4>3
    <3> QED BY <3>4, <3>5
  <2> QED BY <2>4, <2>5
<1>8. Parts(next)'
  <2>1. next \in [Levels -> SUBSET DOMAIN node']
    BY <1>1, <1>5
  <2>2. DOMAIN node' = UNION {next[i] : i \in Levels}
    <3>1. ASSUME NEW n \in DOMAIN node' PROVE \E i \in Levels : n \in next[i]
      <4>1. n \in D /\ node[n].key # x
        BY <1>3
      <4>2. PICK i \in Levels : n \in lev[i]
        BY <4>1 DEF Laid, Parts
      <4> QED BY <1>4, <4>1, <4>2
    <3> QED BY <1>5, <3>1
  <2>3. \A i, j \in Levels : i # j => next[i] \cap next[j] = {}
    BY <1>4 DEF Laid, Parts
  <2> QED BY <2>1, <2>2, <2>3 DEF Parts, Levels
<1>9. Headed(next)'
  <2> SUFFICES ASSUME NEW i \in Levels
               PROVE  i \in next[i] /\ node'[i].key = HeaderKey
                 /\ \A n \in next[i] : n # i => node'[n].key > HeaderKey
    BY DEF Headed, Levels, HeaderKey
  <2>1. i \in lev[i] /\ node[i].key = HeaderKey /\ \A n \in lev[i] : n # i => node[n].key > HeaderKey
    BY DEF Laid, Headed
  <2>2. i \in next[i]
    BY <1>2, <1>4, <2>1
  <2> QED BY <1>5, <2>1, <2>2
<1>10. OneEach(next)'
  <2> SUFFICES ASSUME NEW i \in Levels, NEW m \in next[i], NEW n \in next[i],
    node'[m].key = node'[n].key PROVE m = n
    BY DEF OneEach, Levels
  <2>1. m \in lev[i] /\ n \in lev[i] /\ node[m].key = node[n].key
    BY <1>5
  <2> QED BY <2>1 DEF Laid, OneEach
<1>11. Linked(next)'
  <2> SUFFICES ASSUME NEW i \in Levels, NEW n \in next[i]
               PROVE  /\ node'[n].right # NULL => node'[n].right \in next[i]
                         /\ node'[n].key < node'[node'[n].right].key
                      /\ \A m \in next[i] : node'[n].key < node'[m].key =>
                           node'[n].right # NULL /\ node'[node'[n].right].key <= node'[m].key
    BY DEF Linked, Levels
  <2> QED BY <1>5, <1>7
<1>12. Stacked(next)'
  <2> SUFFICES ASSUME NEW i \in Levels, NEW n \in next[i]
               PROVE  IF i = 0 THEN node'[n].down = NULL
                      ELSE node'[n].down \in next[i - 1] /\ node'[node'[n].down].key = node'[n].key
    BY DEF Stacked, Levels
  <2>1. n \in lev[i] /\ node[n].key # x /\ node'[n].down = node[n].down /\ node'[n].key = node[n].key
    BY <1>5
  <2>2. IF i = 0 THEN node[n].down = NULL ELSE node[n].down \in lev[i - 1]
    /\ node[node[n].down].key = node[n].key
    BY <2>1 DEF Laid, Stacked
  <2>3. i # 0 => i - 1 \in Levels
    BY Numbers DEF Levels
  <2>4. i # 0 => node[n].down \in next[i - 1]
    BY <1>4, <2>1, <2>2, <2>3
  <2> QED BY <1>5, <2>1, <2>2, <2>3, <2>4
<1>13. Topped(next)'
  <2> SUFFICES ASSUME NEW i \in Levels, i > max_level' PROVE next[i] = {i}
    BY DEF Topped, Levels
  <2>1. lev[i] = {i} /\ node[i].key = HeaderKey
    BY <1>2 DEF Laid, Topped, Headed
  <2> QED BY <1>2, <1>4, <2>1
<1>14. Laid(next)'
  BY <1>8, <1>9, <1>10, <1>11, <1>12, <1>13 DEF Laid
<1>15. next[0] = {n \in lev[0] : node[n].key # x}
  BY <1>1, Numbers
<1>16. ASSUME NEW a \in DOMAIN node'
       PROVE  node'[a] \in [key : Keys \cup {HeaderKey}, right : DOMAIN node' \cup {NULL},
                            down : DOMAIN node' \cup {NULL}, list : Seq(Data)]
  <2>1. PICK i \in Levels : a \in next[i]
    BY <1>8 DEF Parts, Levels
  <2>2. node'[a].right \in DOMAIN node' \cup {NULL}
    BY <1>5, <1>7, <2>1
  <2>3. node'[a].down \in DOMAIN node' \cup {NULL}
    <3>1. IF i = 0 THEN node'[a].down = NULL ELSE node'[a].down \in next[i - 1]
      BY <1>12, <2>1 DEF Stacked, Levels
    <3>2. i # 0 => i - 1 \in Levels
      BY Numbers DEF Levels
    <3> QED BY <1>5, <3>1, <3>2
  <2>4. PICK k, r, b, l : k = node'[a].key /\ r = node'[a].right /\ b = node'[a].down /\ l = node'[a].list
    OBVIOUS
  <2>5. node'[a] = [key |-> k, right |-> r, down |-> b, list |-> l] /\ k \in Keys \cup {HeaderKey}
    /\ l \in Seq(Data)
    BY <1>3, <2>4
  <2> QED BY <2>2, <2>3, <2>4, <2>5
<1>17. HeapType'
  <2> DEFINE N == [key : Keys \cup {HeaderKey}, right : DOMAIN node' \cup {NULL},
                   down : DOMAIN node' \cup {NULL}, list : Seq(Data)]
  <2>1. \A a \in DOMAIN node' : node'[a] \in N
    BY <1>16
  <2>2. node' \in [DOMAIN node' -> N]
    <3> HIDE DEF N
    <3> QED BY <1>2, <2>1
  <2> QED BY <2>2 DEF HeapType
<1>18. ASSUME NEW n \in lev[0], node[n].key # x
       PROVE  n \in DOMAIN node' /\ node'[n].key = node[n].key /\ node'[n].list = node[n].list
  <2>1. n \in next[0] /\ 0 \in Levels
    BY <1>4, <1>18, Numbers
  <2> QED BY <1>3, <1>5, <2>1
<1> QED BY <1>14, <1>15, <1>17, <1>18

-----------------------------------------------------------------------------
(* The invariant *)

LaidInv == TypeOK /\ HeapType /\ Room /\ \E lev : Laid(lev)

\* At first every level is its header.
LEMMA LaidInit == Init => LaidInv
<1> SUFFICES ASSUME Init PROVE LaidInv
  OBVIOUS
<1>1. node = [i \in Levels |-> [key |-> HeaderKey, right |-> NULL,
                               down |-> IF i = 0 THEN NULL ELSE i - 1, list |-> <<>>]]
      /\ max_level = 0 /\ size = 0
  BY DEF Init
<1>2. DOMAIN node = Levels
  BY <1>1
<1>3. ASSUME NEW i \in Levels
      PROVE  /\ node[i].key = HeaderKey /\ node[i].right = NULL
             /\ node[i].down = IF i = 0 THEN NULL ELSE i - 1
             /\ i # 0 => i - 1 \in Levels
             /\ node[i].list \in Seq(Data)
             /\ node[i] \in [key : Keys \cup {HeaderKey}, right : Levels \cup {NULL}, down : Levels \cup {NULL},
                             list : Seq(Data)]
  <2>1. i # 0 => i - 1 \in Levels
    BY Numbers DEF Levels
  <2>2. PICK b : b = IF i = 0 THEN NULL ELSE i - 1
    OBVIOUS
  <2>3. b \in Levels \cup {NULL} /\ <<>> \in Seq(Data)
    BY <2>1, <2>2
  <2>4. node[i] = [key |-> HeaderKey, right |-> NULL, down |-> b, list |-> <<>>]
    BY <1>1, <2>2
  <2> QED BY <2>1, <2>2, <2>3, <2>4
<1>4. HeapType
  <2> DEFINE N == [key : Keys \cup {HeaderKey}, right : Levels \cup {NULL}, down : Levels \cup {NULL},
    list : Seq(Data)]
  <2>1. \A i \in Levels : node[i] \in N
    BY <1>3
  <2>2. node \in [Levels -> N]
    <3> HIDE DEF N
    <3> QED BY <1>1, <2>1
  <2> QED BY <1>2, <2>2 DEF HeapType
<1>5. TypeOK
  <2>1. max_level \in Levels /\ size \in 0..MaxInserts /\ DOMAIN node \in SUBSET Address
    BY <1>1, <1>2, Numbers
  <2>2. \A a \in DOMAIN node : /\ node[a].key \in Keys \cup {HeaderKey} /\ node[a].list \in Seq(Data)
                               /\ {node[a].right, node[a].down} \subseteq DOMAIN node \cup {NULL}
    BY <1>2, <1>3
  <2> QED BY <1>2, <2>1, <2>2 DEF TypeOK
<1>6. Room
  BY <1>1, <1>2, Numbers DEF Room
<1>7. PICK lev : lev = [i \in Levels |-> {i}]
  OBVIOUS
<1>8. Laid(lev)
  <2>1. \A i \in Levels : lev[i] = {i}
    BY <1>7
  <2>2. Parts(lev)
    BY <1>2, <1>7 DEF Parts
  <2>3. Headed(lev) /\ Linked(lev) /\ OneEach(lev) /\ Topped(lev)
    BY <1>3, <2>1, Numbers DEF Headed, Linked, OneEach, Topped
  <2>4. Stacked(lev)
    <3> SUFFICES ASSUME NEW i \in Levels, NEW n \in lev[i]
                 PROVE  IF i = 0 THEN node[n].down = NULL
                        ELSE node[n].down \in lev[i - 1] /\ node[node[n].down].key = node[n].key
      BY DEF Stacked
    <3> QED BY <1>3, <2>1
  <2> QED BY <2>2, <2>3, <2>4 DEF Laid
<1> QED BY <1>4, <1>5, <1>6, <1>8 DEF LaidInv

\* A heap of whole records that has its headers is typed.
LEMMA HeapTyped ==
  ASSUME HeapType', DOMAIN node' \subseteq Address, Levels \subseteq DOMAIN node', max_level' \in Levels,
         size' \in 0..MaxInserts
  PROVE  TypeOK'
<1>1. ASSUME NEW a \in DOMAIN node'
      PROVE  /\ node'[a].key \in Keys \cup {HeaderKey} /\ node'[a].list \in Seq(Data)
             /\ {node'[a].right, node'[a].down} \subseteq DOMAIN node' \cup {NULL}
  <2>1. node'[a] \in [key : Keys \cup {HeaderKey}, right : DOMAIN node' \cup {NULL},
                      down : DOMAIN node' \cup {NULL}, list : Seq(Data)]
    BY DEF HeapType, HeaderKey
  <2> QED BY <2>1
<1> QED BY <1>1 DEF TypeOK, Levels, Address, HeaderKey

\* An insertion adds a node per level at most.
LEMMA InsertRoom ==
  ASSUME TypeOK, Room, NEW level \in Levels, NEW place,
         DOMAIN node' = DOMAIN node \cup {place[i] : i \in 0..level}, size' = size + 1
  PROVE  Room'
<1> DEFINE P == {place[i] : i \in 0..level}
<1>1. IsFiniteSet(P) /\ Cardinality(P) <= MaxLevel /\ Cardinality(P) \in Nat
  <2>1. level \in Nat /\ level + 1 <= MaxLevel /\ MaxLevel \in Nat
    BY Numbers DEF Levels
  <2>2. IsFiniteSet(0..level) /\ Cardinality(0..level) = level + 1
    BY <2>1, UpTo
  <2>3. PICK f : f = [i \in 0..level |-> place[i]]
    OBVIOUS
  <2>4. f \in Surjection(0..level, P)
    BY <2>3 DEF Surjection
  <2> HIDE DEF P
  <2>5. IsFiniteSet(P) /\ Cardinality(P) <= Cardinality(0..level)
    BY <2>2, <2>4, FS_Surjection
  <2> QED BY <2>1, <2>2, <2>5, FS_CardinalityType
<1>2. IsFiniteSet(DOMAIN node) /\ Cardinality(DOMAIN node) \in Nat
  BY NodeTypes, FS_CardinalityType
<1>3. Cardinality(DOMAIN node') <= Cardinality(DOMAIN node) + Cardinality(P)
  <2>1. DOMAIN node' = DOMAIN node \cup P
    OBVIOUS
  <2> HIDE DEF P
  <2>2. IsFiniteSet(DOMAIN node \cap P) /\ Cardinality(DOMAIN node \cap P) \in Nat
    BY <1>2, FS_Intersection, FS_CardinalityType
  <2>3. Cardinality(DOMAIN node \cup P) = Cardinality(DOMAIN node) + Cardinality(P) - Cardinality(DOMAIN node \cap P)
    BY <1>1, <1>2, FS_Union
  <2> QED BY <1>1, <1>2, <2>1, <2>2, <2>3
<1>4. Cardinality(DOMAIN node') \in Nat
  <2>1. DOMAIN node' = DOMAIN node \cup P
    OBVIOUS
  <2> HIDE DEF P
  <2> QED BY <1>1, <1>2, <2>1, FS_Union, FS_CardinalityType
<1>5. MaxLevel * (size' + 1) = MaxLevel * (size + 1) + MaxLevel /\ MaxLevel * (size + 1) \in Nat
  /\ MaxLevel \in Nat
  <2>1. size \in Nat /\ MaxLevel \in Nat
    BY Numbers DEF TypeOK
  <2>2. MaxLevel * ((size + 1) + 1) = MaxLevel * (size + 1) + MaxLevel /\ MaxLevel * (size + 1) \in Nat
    BY <2>1
  <2> QED BY <2>1, <2>2
<1>6. Cardinality(DOMAIN node) <= MaxLevel * (size + 1)
  BY DEF Room
<1> HIDE DEF P
<1>7. Cardinality(DOMAIN node') <= MaxLevel * (size' + 1)
  BY <1>1, <1>2, <1>3, <1>4, <1>5, <1>6
<1> QED BY <1>7 DEF Room

\* An insertion of a key above the header's.
LEMMA InsertNext ==
  ASSUME LaidInv, NEW x \in Keys, x > HeaderKey, NEW d \in Data, NEW level \in Levels, Insert(x, d, level)
  PROVE  LaidInv'
<1>1. TypeOK /\ HeapType /\ Room
  BY DEF LaidInv
<1>2. PICK lev : Laid(lev)
  BY DEF LaidInv
<1>3. /\ \E place, prev : Inserted(lev, x, d, level, place, prev)
      /\ max_level' = IF level > max_level THEN level ELSE max_level
      /\ size' = size + 1 /\ size < MaxInserts
  BY <1>1, <1>2, InsertIs
<1>4. PICK place, prev : Inserted(lev, x, d, level, place, prev)
  BY <1>3
<1>5. \E next : Laid(next)'
  BY <1>1, <1>2, <1>3, <1>4, InsertLaid
<1>6. PICK S : S = {i \in 0..level : ~\E n \in lev[i] : node[n].key = x}
  OBVIOUS
<1>7. Fields(S, x, d, level, place, prev)
  BY <1>1, <1>2, <1>4, <1>6, InsertFields
<1>8. HeapType' /\ DOMAIN node \subseteq DOMAIN node' /\ DOMAIN node' \subseteq Address
  BY <1>7 DEF Fields
<1>9. Room'
  <2>1. DOMAIN node' = DOMAIN node \cup {place[i] : i \in 0..level}
    BY <1>4, Zenon DEF Inserted
  <2> QED BY <1>1, <1>3, <2>1, InsertRoom
<1>10. TypeOK'
  <2>1. max_level' \in Levels /\ size' \in 0..MaxInserts /\ Levels \subseteq DOMAIN node
    BY <1>1, <1>3, Numbers DEF TypeOK
  <2>2. Levels \subseteq DOMAIN node'
    BY <1>8, <2>1
  <2> QED BY <1>8, <2>1, <2>2, HeapTyped
<1> QED BY <1>5, <1>8, <1>9, <1>10 DEF LaidInv

\* An insertion of another key: only max_level may rise.
LEMMA InsertNothing ==
  ASSUME LaidInv, NEW x \in Keys, ~(x > HeaderKey), NEW d, NEW level \in Levels, Insert(x, d, level)
  PROVE  LaidInv' /\ node' = node /\ \A lev : Laid(lev) => Laid(lev)'
<1>1. /\ node' = node /\ max_level' = IF level > max_level THEN level ELSE max_level
      /\ size' = size + 1 /\ size < MaxInserts
  <2>1. x <= HeaderKey
    BY Numbers
  <2> QED BY <2>1 DEF Insert
<1>2. TypeOK /\ HeapType /\ Room
  BY DEF LaidInv
<1>3. max_level \in Nat /\ level \in Nat /\ max_level' \in Levels /\ size \in Nat /\ size' \in 0..MaxInserts
  /\ MaxLevel \in Nat
  BY <1>1, <1>2, Numbers DEF TypeOK
<1>4. ASSUME NEW lev, Laid(lev) PROVE Laid(lev)'
  <2>1. Topped(lev)'
    BY <1>1, <1>3, <1>4, Numbers DEF Laid, Topped, Levels
  <2>2. Parts(lev)' /\ Headed(lev)' /\ Linked(lev)' /\ OneEach(lev)' /\ Stacked(lev)'
    BY <1>1, <1>4 DEF Laid, Parts, Headed, Linked, OneEach, Stacked, Levels, HeaderKey
  <2> QED BY <2>1, <2>2 DEF Laid
<1>5. HeapType'
  BY <1>1, <1>2 DEF HeapType, HeaderKey
<1>6. TypeOK'
  BY <1>1, <1>2, <1>3, <1>5, HeapTyped DEF TypeOK
<1>7. Room'
  <2>1. Cardinality(DOMAIN node) \in Nat
    BY <1>2, NodeTypes, FS_CardinalityType
  <2>2. MaxLevel * ((size + 1) + 1) = MaxLevel * (size + 1) + MaxLevel /\ MaxLevel * (size + 1) \in Nat
    BY <1>3
  <2> QED BY <1>1, <1>2, <1>3, <2>1, <2>2 DEF Room
<1> QED BY <1>1, <1>4, <1>5, <1>6, <1>7 DEF LaidInv

LEMMA RemoveNext ==
  ASSUME LaidInv, NEW x \in Keys, Remove(x)
  PROVE  LaidInv'
<1>1. TypeOK /\ HeapType /\ Room
  BY DEF LaidInv
<1>2. PICK lev : Laid(lev)
  BY DEF LaidInv
<1>3. HeapType' /\ \E next : Laid(next)'
  BY <1>1, <1>2, RemoveLaid
<1>4. /\ DOMAIN node' = {a \in DOMAIN node : node[a].key # x}
      /\ x # HeaderKey /\ max_level' = max_level /\ size' = size
  BY <1>1, <1>2, RemoveIs
<1>5. TypeOK'
  <2>1. \A i \in Levels : node[i].key = HeaderKey
    BY <1>2 DEF Laid, Headed
  <2>2. DOMAIN node \subseteq Address /\ Levels \subseteq DOMAIN node /\ max_level \in Levels
    /\ size \in 0..MaxInserts
    BY <1>1 DEF TypeOK
  <2>3. Levels \subseteq DOMAIN node' /\ DOMAIN node' \subseteq Address
    BY <1>4, <2>1, <2>2
  <2> QED BY <1>3, <1>4, <2>2, <2>3, HeapTyped
<1>6. Room'
  <2>1. IsFiniteSet(DOMAIN node) /\ DOMAIN node' \in SUBSET DOMAIN node
    BY <1>1, <1>4, NodeTypes
  <2>2. /\ Cardinality(DOMAIN node') <= Cardinality(DOMAIN node)
        /\ Cardinality(DOMAIN node) \in Nat /\ Cardinality(DOMAIN node') \in Nat
    BY <2>1, FS_Subset, FS_CardinalityType
  <2>3. MaxLevel * (size + 1) \in Nat
    BY <1>1, Numbers DEF TypeOK
  <2> QED BY <1>1, <1>4, <2>2, <2>3 DEF Room
<1> QED BY <1>3, <1>5, <1>6 DEF LaidInv

LEMMA LaidNext == LaidInv /\ [Next]_vars => LaidInv'
<1> SUFFICES ASSUME LaidInv, [Next]_vars PROVE LaidInv'
  OBVIOUS
<1>1. CASE UNCHANGED vars
  <2>1. PICK lev : Laid(lev)
    BY DEF LaidInv
  <2>2. node' = node /\ max_level' = max_level /\ size' = size
    BY <1>1 DEF vars
  <2>3. Laid(lev)'
    BY <2>1, <2>2 DEF Laid, Parts, Headed, Linked, OneEach, Stacked, Topped, Levels, HeaderKey
  <2>4. TypeOK' /\ HeapType' /\ Room'
    BY <2>2 DEF LaidInv, TypeOK, HeapType, Room, Levels, HeaderKey, Address
  <2> QED BY <2>3, <2>4 DEF LaidInv
<1>2. CASE \E x \in Keys : Remove(x)
  BY <1>2, RemoveNext
<1>3. ASSUME NEW x \in Keys, NEW d \in Data, NEW level \in Levels, Insert(x, d, level) PROVE LaidInv'
  BY <1>3, InsertNext, InsertNothing
<1> QED BY <1>1, <1>2, <1>3 DEF Next

\* Every pointer of the heap is NULL or points to a live node, after any insertions and removals.
THEOREM SkipTyped == Spec => []TypeOK
<1>1. LaidInv => TypeOK
  BY DEF LaidInv
<1> QED BY <1>1, LaidInit, LaidNext, PTL DEF Spec

\* The levels are sorted and nested for any number of levels and insertions and any keys.
THEOREM SkipNests == Spec => []LevelsNest
<1>1. LaidInv => LevelsNest
  <2> SUFFICES ASSUME LaidInv PROVE LevelsNest
    OBVIOUS
  <2>1. TypeOK
    BY DEF LaidInv
  <2>2. PICK lev : Laid(lev)
    BY DEF LaidInv
  <2>3. \A i \in Levels : On(i) = lev[i]
    BY <2>1, <2>2, OnIs
  <2>4. DOMAIN node = UNION {On(i) : i \in Levels}
    BY <2>2, <2>3 DEF Laid, Parts
  <2>5. ASSUME NEW i \in Levels
        PROVE  /\ \A n \in On(i) : node[n].right # NULL => node[n].key < node[node[n].right].key
               /\ \A n \in On(i) : IF i = 0 THEN node[n].down = NULL
                                   ELSE node[n].down \in On(i - 1) /\ node[node[n].down].key = node[n].key
               /\ i > max_level => On(i) = {i}
    <3>1. i # 0 => i - 1 \in Levels
      BY Numbers DEF Levels
    <3>2. /\ \A n \in lev[i] : node[n].right # NULL => node[n].key < node[node[n].right].key
          /\ \A n \in lev[i] : IF i = 0 THEN node[n].down = NULL
                               ELSE node[n].down \in lev[i - 1] /\ node[node[n].down].key = node[n].key
          /\ i > max_level => lev[i] = {i}
      BY <2>2 DEF Laid, Linked, Stacked, Topped
    <3> QED BY <2>3, <3>1, <3>2
  <2> QED BY <2>4, <2>5 DEF LevelsNest
<1> QED BY <1>1, LaidInit, LaidNext, PTL DEF Spec

-----------------------------------------------------------------------------
(* What find returns *)

\* The recursion of Find has a solution, and Find is one of them.
LEMMA FindRec ==
  ASSUME NEW x,
         NEW f, f = [h \in DOMAIN node \cup {NULL} |->
                       IF h = NULL THEN NULL
                       ELSE IF node[h].key = x /\ node[h].down = NULL THEN h
                       ELSE IF x >= node[h].key /\ (node[h].right = NULL \/ node[node[h].right].key > x)
                            THEN f[node[h].down]
                       ELSE IF x < node[h].key THEN NULL
                       ELSE f[node[h].right]]
  PROVE  \E g : /\ g = [h \in DOMAIN node \cup {NULL} |->
                          IF h = NULL THEN NULL
                          ELSE IF node[h].key = x /\ node[h].down = NULL THEN h
                          ELSE IF x >= node[h].key /\ (node[h].right = NULL \/ node[node[h].right].key > x)
                               THEN g[node[h].down]
                          ELSE IF x < node[h].key THEN NULL
                          ELSE g[node[h].right]]
                /\ Find(x) = g[max_level]
<1> DEFINE Eq(g) == g = [h \in DOMAIN node \cup {NULL} |->
                          IF h = NULL THEN NULL
                          ELSE IF node[h].key = x /\ node[h].down = NULL THEN h
                          ELSE IF x >= node[h].key /\ (node[h].right = NULL \/ node[node[h].right].key > x)
                               THEN g[node[h].down]
                          ELSE IF x < node[h].key THEN NULL
                          ELSE g[node[h].right]]
<1>1. Eq(CHOOSE g : Eq(g))
  <2>1. Eq(f)
    OBVIOUS
  <2> HIDE DEF Eq
  <2> QED BY <2>1
<1>2. Find(x) = (CHOOSE g : Eq(g))[max_level]
  BY DEF Find
<1> QED BY <1>1, <1>2

\* From the header of the highest level find comes to the node of the key on the lowest, if there is one.
LEMMA FindIs ==
  ASSUME TypeOK, NEW lev, Laid(lev), NEW x \in Int, x > HeaderKey,
         NEW t, \/ t \in lev[0] /\ node[t].key = x
                \/ t = NULL /\ \A n \in lev[0] : node[n].key # x
  PROVE  Find(x) = t
<1> DEFINE D == DOMAIN node
           Down(h) == x >= node[h].key /\ (node[h].right = NULL \/ node[node[h].right].key > x)
           H(h) == IF h = NULL THEN NULL ELSE IF x < node[h].key THEN NULL ELSE t
           Step(h, a, b) == IF h = NULL THEN NULL
                            ELSE IF node[h].key = x /\ node[h].down = NULL THEN h
                            ELSE IF Down(h) THEN a ELSE IF x < node[h].key THEN NULL ELSE b
           h0 == [h \in D \cup {NULL} |-> H(h)]
<1>0. NULL \notin D /\ D \subseteq Nat /\ \A h \in D : node[h].key \in Int
  BY NodeTypes
<1>1. ASSUME NEW i \in Levels, NEW h \in lev[i], node[h].key <= x
      PROVE  /\ h # NULL /\ h \in D /\ ~(x < node[h].key) /\ x >= node[h].key
             /\ node[h].key = x /\ node[h].down = NULL => i = 0 /\ h = t
             /\ Down(h) /\ i = 0 => node[h].down = NULL /\ (node[h].key = x \/ t = NULL)
             /\ i # 0 => /\ i - 1 \in Levels /\ node[h].down \in lev[i - 1] /\ node[h].down \in D
                         /\ node[node[h].down].key <= x
             /\ ~Down(h) => /\ node[h].right # NULL /\ node[h].right \in lev[i] /\ node[h].right \in D
                            /\ node[node[h].right].key <= x
  <2>1. h \in D /\ h # NULL /\ node[h].key \in Int
    BY LevelIs
  <2>2. x >= node[h].key /\ ~(x < node[h].key)
    BY <1>1, <2>1
  <2>3. IF i = 0 THEN node[h].down = NULL ELSE node[h].down \in lev[i - 1]
    /\ node[node[h].down].key = node[h].key
    BY DEF Laid, Stacked
  <2>4. i # 0 => i - 1 \in Levels
    BY Numbers DEF Levels
  <2>5. i # 0 => node[h].down \in D /\ node[h].down # NULL
    BY <1>0, <2>3, <2>4, LevelIs
  <2>6. ASSUME node[h].key = x, node[h].down = NULL PROVE i = 0 /\ h = t
    <3>1. i = 0
      BY <2>5, <2>6
    <3>2. t \in lev[0] /\ node[t].key = x
      BY <2>6, <3>1
    <3> QED BY <2>6, <3>1, <3>2 DEF Laid, OneEach
  <2>7. ASSUME Down(h), i = 0, node[h].key # x PROVE t = NULL
    <3> SUFFICES ASSUME t \in lev[0], node[t].key = x PROVE FALSE
      OBVIOUS
    <3>1. node[h].key < node[t].key
      BY <2>1, <2>2, <2>7
    <3>2. node[h].right # NULL /\ node[node[h].right].key <= node[t].key /\ node[h].right \in lev[i]
      BY <2>7, <3>1 DEF Laid, Linked
    <3>3. node[node[h].right].key \in Int
      BY <3>2, LevelIs
    <3> QED BY <2>7, <3>2, <3>3
  <2>8. ASSUME ~Down(h)
        PROVE  node[h].right # NULL /\ node[h].right \in lev[i] /\ node[h].right \in D
          /\ node[node[h].right].key <= x
    <3>1. node[h].right # NULL /\ ~(node[node[h].right].key > x)
      BY <2>2, <2>8
    <3>2. node[h].right \in lev[i] /\ node[h].right \in D
      BY <3>1, LevelIs
    <3> QED BY <1>0, <3>1, <3>2
  <2> HIDE DEF Down
  <2> QED BY <2>1, <2>2, <2>3, <2>4, <2>5, <2>6, <2>7, <2>8
<1>2. ASSUME NEW h \in D, x < node[h].key PROVE node[h].key # x /\ ~Down(h) /\ h # NULL
  BY <1>0, <1>2
<1>3. ASSUME NEW h \in D, ~(x < node[h].key) PROVE \E i \in Levels : h \in lev[i] /\ node[h].key <= x
  BY <1>0, <1>3 DEF Laid, Parts
<1>4. \A h \in D : node[h].down \in D \cup {NULL} /\ node[h].right \in D \cup {NULL}
  BY DEF TypeOK
<1>5. ASSUME NEW h \in D PROVE H(h) = Step(h, H(node[h].down), H(node[h].right))
  <2>1. CASE x < node[h].key
    <3> HIDE DEF Down
    <3> QED BY <1>2, <2>1
  <2>2. CASE ~(x < node[h].key)
    <3>1. PICK i \in Levels : h \in lev[i] /\ node[h].key <= x
      BY <1>3, <2>2
    <3>2. H(h) = t
      BY <1>0, <2>2
    <3>3. CASE node[h].key = x /\ node[h].down = NULL
      BY <1>1, <3>1, <3>2, <3>3
    <3>4. CASE Down(h) /\ ~(node[h].key = x /\ node[h].down = NULL) /\ i = 0
      <4>1. t = NULL /\ node[h].down = NULL
        BY <1>1, <3>1, <3>4
      <4> QED BY <1>0, <3>2, <3>4, <4>1
    <3>5. CASE Down(h) /\ ~(node[h].key = x /\ node[h].down = NULL) /\ i # 0
      <4>1. node[h].down \in D /\ node[node[h].down].key <= x
        BY <1>1, <3>1, <3>5
      <4>2. H(node[h].down) = t
        BY <1>0, <4>1
      <4>3. Step(h, H(node[h].down), H(node[h].right)) = H(node[h].down)
        <5> HIDE DEF H, Down
        <5> QED BY <1>0, <3>5
      <4> QED BY <3>2, <4>2, <4>3
    <3>6. CASE ~Down(h) /\ ~(node[h].key = x /\ node[h].down = NULL)
      <4>1. node[h].right \in D /\ node[node[h].right].key <= x
        BY <1>1, <3>1, <3>6
      <4>2. H(node[h].right) = t
        BY <1>0, <4>1
      <4>3. Step(h, H(node[h].down), H(node[h].right)) = H(node[h].right)
        <5> HIDE DEF H, Down
        <5> QED BY <1>0, <2>2, <3>6
      <4> QED BY <3>2, <4>2, <4>3
    <3> HIDE DEF H, Down, Step
    <3> QED BY <3>3, <3>4, <3>5, <3>6
  <2> QED BY <2>1, <2>2
<1>6. h0 = [h \in D \cup {NULL} |->
              IF h = NULL THEN NULL
              ELSE IF node[h].key = x /\ node[h].down = NULL THEN h
              ELSE IF x >= node[h].key /\ (node[h].right = NULL \/ node[node[h].right].key > x)
                   THEN h0[node[h].down]
              ELSE IF x < node[h].key THEN NULL
              ELSE h0[node[h].right]]
  <2>1. \A h \in D : h0[node[h].down] = H(node[h].down) /\ h0[node[h].right] = H(node[h].right)
    <3> HIDE DEF H
    <3> QED BY <1>4
  <2>2. H(NULL) = NULL
    OBVIOUS
  <2>3. \A h \in D \cup {NULL} : H(h) = Step(h, h0[node[h].down], h0[node[h].right])
    <3> HIDE DEF H, h0, Down
    <3> QED BY <1>0, <1>5, <2>1, <2>2
  <2> DEFINE Q(h) == Step(h, h0[node[h].down], h0[node[h].right])
  <2>4. h0 = [h \in D \cup {NULL} |-> Q(h)]
    <3>1. \A h \in D \cup {NULL} : H(h) = Q(h)
      BY <2>3
    <3> HIDE DEF H, Q
    <3> QED BY <3>1
  <2> HIDE DEF h0
  <2> QED BY <2>4
<1>7. PICK g : /\ g = [h \in D \cup {NULL} |->
                         IF h = NULL THEN NULL
                         ELSE IF node[h].key = x /\ node[h].down = NULL THEN h
                         ELSE IF x >= node[h].key /\ (node[h].right = NULL \/ node[node[h].right].key > x)
                              THEN g[node[h].down]
                         ELSE IF x < node[h].key THEN NULL
                         ELSE g[node[h].right]]
               /\ Find(x) = g[max_level]
  <2> HIDE DEF h0
  <2> QED BY <1>6, FindRec
<1>8. g[NULL] = NULL /\ \A h \in D : g[h] = Step(h, g[node[h].down], g[node[h].right])
  BY <1>7
<1> DEFINE Bad(i) == {h \in lev[i] : node[h].key <= x /\ g[h] # t}
           levels == {i \in Levels : Bad(i) # {}}
<1>9. levels = {}
  <2> SUFFICES ASSUME levels # {} PROVE FALSE
    OBVIOUS
  <2>1. PICK i \in levels : \A j \in levels : i <= j
    <3>1. levels \subseteq Nat
      BY Numbers
    <3> HIDE DEF levels
    <3> QED BY <3>1, Least
  <2>2. i \in Levels /\ i \in Nat
    BY Numbers
  <2>3. ASSUME i # 0 PROVE Bad(i - 1) = {}
    <3>1. i - 1 \in Levels /\ ~(i <= i - 1)
      BY <2>2, <2>3, Numbers DEF Levels
    <3>2. i - 1 \notin levels
      BY <2>1, <3>1
    <3> HIDE DEF Bad
    <3> QED BY <3>1, <3>2
  <2>4. ASSUME NEW h \in Bad(i) PROVE node[h].right # NULL /\ node[h].right \in Bad(i)
    <3>1. h \in lev[i] /\ node[h].key <= x /\ g[h] # t
      OBVIOUS
    <3>2. h \in D /\ h # NULL /\ ~(x < node[h].key)
      BY <1>1, <2>2, <3>1
    <3>3. g[h] = Step(h, g[node[h].down], g[node[h].right])
      BY <1>8, <3>2
    <3>4. CASE node[h].key = x /\ node[h].down = NULL
      <4>1. g[h] = h /\ h = t
        BY <1>1, <2>2, <3>1, <3>2, <3>3, <3>4
      <4> QED BY <3>1, <4>1
    <3>5. CASE Down(h) /\ ~(node[h].key = x /\ node[h].down = NULL)
      <4>1. g[h] = g[node[h].down]
        <5> HIDE DEF Down
        <5> QED BY <3>2, <3>3, <3>5
      <4>2. CASE i = 0
        <5>1. node[h].down = NULL /\ t = NULL
          BY <1>1, <2>2, <3>1, <3>5, <4>2
        <5> QED BY <1>8, <3>1, <4>1, <5>1
      <4>3. CASE i # 0
        <5>1. node[h].down \in lev[i - 1] /\ node[node[h].down].key <= x
          BY <1>1, <2>2, <3>1, <4>3
        <5>2. node[h].down \notin Bad(i - 1)
          <6> HIDE DEF Bad
          <6> QED BY <2>3, <4>3
        <5> QED BY <3>1, <4>1, <5>1, <5>2
      <4> QED BY <4>2, <4>3
    <3>6. CASE ~Down(h) /\ ~(node[h].key = x /\ node[h].down = NULL)
      <4>1. g[h] = g[node[h].right]
        <5> HIDE DEF Down
        <5> QED BY <3>2, <3>3, <3>6
      <4>2. node[h].right # NULL /\ node[h].right \in lev[i] /\ node[node[h].right].key <= x
        BY <1>1, <2>2, <3>1, <3>6
      <4> QED BY <3>1, <4>1, <4>2
    <3> HIDE DEF Bad, Down
    <3> QED BY <3>4, <3>5, <3>6
  <2>5. Bad(i) \subseteq DOMAIN node
    BY <2>2, LevelIs
  <2>6. Bad(i) = {}
    <3> HIDE DEF Bad
    <3> QED BY <2>4, <2>5, Descend
  <2> QED BY <2>6
<1>10. max_level \in Levels /\ max_level \in lev[max_level] /\ node[max_level].key <= x
  <2>1. max_level \in Levels
    BY DEF TypeOK
  <2>2. max_level \in lev[max_level] /\ node[max_level].key = HeaderKey
    BY <2>1 DEF Laid, Headed
  <2> QED BY <2>1, <2>2, Numbers
<1>11. Bad(max_level) = {}
  <2> HIDE DEF Bad
  <2> QED BY <1>9, <1>10
<1>12. g[max_level] = t
  BY <1>10, <1>11
<1> QED BY <1>7, <1>12

-----------------------------------------------------------------------------
(* The series *)

\* The series of a stamp is the list of its node on the lowest level.
ValuesAre ==
  \A lev : Laid(lev) => \A x \in Stamps :
    /\ \A n \in lev[0] : node[n].key = x => Series[x] = node[n].list
    /\ (\A n \in lev[0] : node[n].key # x) => Series[x] = <<>>

LEMMA ValuesSo == LaidInv => ValuesAre
<1> SUFFICES ASSUME LaidInv, NEW lev, Laid(lev), NEW x \in Stamps
             PROVE  /\ \A n \in lev[0] : node[n].key = x => Series[x] = node[n].list
                    /\ (\A n \in lev[0] : node[n].key # x) => Series[x] = <<>>
  BY DEF ValuesAre
<1>1. TypeOK /\ x \in Int /\ x > HeaderKey
  BY Numbers DEF LaidInv, Stamps
<1>2. Series[x] = IF Find(x) = NULL THEN <<>> ELSE node[Find(x)].list
  BY DEF Series
<1>3. ASSUME NEW n \in lev[0], node[n].key = x PROVE Series[x] = node[n].list
  <2>1. Find(x) = n
    BY <1>1, <1>3, FindIs
  <2>2. n # NULL
    BY <1>1, Numbers, LevelIs
  <2> QED BY <1>2, <2>1, <2>2
<1>4. ASSUME \A n \in lev[0] : node[n].key # x PROVE Series[x] = <<>>
  <2>1. Find(x) = NULL
    BY <1>1, <1>4, FindIs
  <2> QED BY <1>2, <2>1
<1> QED BY <1>3, <1>4

\* An insertion appends to the series of its stamp ...
LEMMA InsertSeries ==
  ASSUME LaidInv, ValuesAre, ValuesAre', NEW x \in Keys, NEW d \in Data, NEW level \in Levels,
         Insert(x, d, level), x > HeaderKey
  PROVE  Table!Insert(x, d)
<1>0. TypeOK /\ HeapType /\ Room /\ x \in Stamps
  BY DEF LaidInv, Stamps
<1>1. PICK lev : Laid(lev)
  BY DEF LaidInv
<1>2. max_level' = (IF level > max_level THEN level ELSE max_level)
  /\ \E place, prev : Inserted(lev, x, d, level, place, prev)
  BY <1>0, <1>1, InsertIs
<1>3. PICK place, prev : Inserted(lev, x, d, level, place, prev)
  BY <1>2
<1>4. PICK next : Laid(next)' /\ next[0] = lev[0] \cup {place[0]}
  BY <1>0, <1>1, <1>2, <1>3, InsertLaid
<1>5. PICK S : S = {i \in 0..level : ~\E n \in lev[i] : node[n].key = x}
  OBVIOUS
<1>6. Fields(S, x, d, level, place, prev)
  BY <1>0, <1>1, <1>3, <1>5, InsertFields
<1>7. /\ node'[place[0]].key = x /\ 0 \in 0..level /\ 0 \in Levels
      /\ \A a \in DOMAIN node : node'[a].key = node[a].key
      /\ \A a \in DOMAIN node : (\A i \in 0..level : a # place[i]) => node'[a].list = node[a].list
      /\ \A i \in 0..level : node'[place[i]].key = x
      /\ 0 \in S => node'[place[0]].list = <<d>>
      /\ 0 \notin S => node'[place[0]].list = Append(node[place[0]].list, d)
  <2>1. 0 \in 0..level /\ 0 \in Levels
    BY Numbers DEF Levels
  <2> QED BY <1>6, <2>1 DEF Fields
<1>8. lev[0] \subseteq DOMAIN node
  BY <1>0, <1>7, <1>1, LevelIs
<1>9. \A y \in Stamps :
        /\ \A n \in lev[0] : node[n].key = y => Series[y] = node[n].list
        /\ (\A n \in lev[0] : node[n].key # y) => Series[y] = <<>>
  BY <1>1 DEF ValuesAre
<1>10. \A y \in Stamps :
        /\ \A n \in next[0] : node'[n].key = y => Series'[y] = node'[n].list
        /\ (\A n \in next[0] : node'[n].key # y) => Series'[y] = <<>>
  BY <1>4 DEF ValuesAre, Stamps, HeaderKey
<1>11. Series'[x] = Append(Series[x], d)
  <2>1. Series'[x] = node'[place[0]].list
    BY <1>0, <1>4, <1>7, <1>10
  <2>2. CASE 0 \in S
    <3>1. Series[x] = <<>>
      BY <1>0, <1>5, <1>9, <2>2
    <3> QED BY <1>7, <2>1, <2>2, <3>1
  <2>3. CASE 0 \notin S
    <3>1. place[0] \in lev[0] /\ node[place[0]].key = x
      BY <1>3, <1>5, <1>7, <2>3, Zenon DEF Inserted
    <3>2. Series[x] = node[place[0]].list
      BY <1>0, <1>9, <3>1
    <3> QED BY <1>7, <2>1, <2>3, <3>2
  <2> QED BY <2>2, <2>3
<1>12. ASSUME NEW y \in Stamps, y # x PROVE Series'[y] = Series[y]
  <2>1. CASE \E n \in lev[0] : node[n].key = y
    <3>1. PICK n \in lev[0] : node[n].key = y
      BY <2>1
    <3>2. node'[n].key = y
      BY <1>7, <1>8, <3>1
    <3>3. \A i \in 0..level : n # place[i]
      BY <1>7, <1>12, <3>2
    <3>4. node'[n].list = node[n].list
      BY <1>7, <1>8, <3>3
    <3> QED BY <1>4, <1>9, <1>10, <3>1, <3>2, <3>4
  <2>2. CASE \A n \in lev[0] : node[n].key # y
    <3>1. \A n \in next[0] : node'[n].key # y
      BY <1>4, <1>7, <1>8, <1>12, <2>2
    <3> QED BY <1>9, <1>10, <2>2, <3>1
  <2> QED BY <2>1, <2>2
<1>13. DOMAIN Series = Stamps /\ Series = [y \in Stamps |-> Series[y]]
  BY DEF Series
<1>14. Series' = [y \in Stamps |-> Series'[y]]
  BY DEF Series, Stamps, HeaderKey
<1>15. Series' = [Series EXCEPT ![x] = Append(@, d)]
  <2>1. PICK s, r : s = Series /\ r = Series'
    OBVIOUS
  <2>2. /\ s = [y \in Stamps |-> s[y]] /\ r = [y \in Stamps |-> r[y]] /\ r[x] = Append(s[x], d)
        /\ \A y \in Stamps : y # x => r[y] = s[y]
    BY <1>11, <1>12, <1>13, <1>14, <2>1
  <2>3. r = [s EXCEPT ![x] = Append(@, d)]
    BY <1>0, <2>2
  <2> QED BY <2>1, <2>3
<1> QED BY <1>15 DEF Table!Insert

\* ... and a removal empties it.
LEMMA RemoveSeries ==
  ASSUME LaidInv, ValuesAre, ValuesAre', NEW x \in Keys, Remove(x)
  PROVE  IF x \in Stamps THEN Table!Remove(x) ELSE Series' = Series
<1>0. TypeOK /\ HeapType
  BY DEF LaidInv
<1>1. PICK lev : Laid(lev)
  BY DEF LaidInv
<1>2. PICK next : Laid(next)' /\ next[0] = {n \in lev[0] : node[n].key # x}
  BY <1>0, <1>1, RemoveLaid
<1>3. \A n \in lev[0] : node[n].key # x => node'[n].key = node[n].key /\ node'[n].list = node[n].list
  BY <1>0, <1>1, RemoveLaid
<1>4. \A y \in Stamps :
        /\ \A n \in lev[0] : node[n].key = y => Series[y] = node[n].list
        /\ (\A n \in lev[0] : node[n].key # y) => Series[y] = <<>>
  BY <1>1 DEF ValuesAre
<1>5. \A y \in Stamps :
        /\ \A n \in next[0] : node'[n].key = y => Series'[y] = node'[n].list
        /\ (\A n \in next[0] : node'[n].key # y) => Series'[y] = <<>>
  BY <1>2 DEF ValuesAre, Stamps, HeaderKey
<1>6. \A n : n \in next[0] <=> n \in lev[0] /\ node[n].key # x
  BY <1>2
<1>7. x \in Stamps => Series'[x] = <<>>
  BY <1>3, <1>5, <1>6
<1>8. ASSUME NEW y \in Stamps, y # x PROVE Series'[y] = Series[y]
  <2>1. CASE \E n \in lev[0] : node[n].key = y
    <3>1. PICK n \in lev[0] : node[n].key = y
      BY <2>1
    <3>2. n \in next[0] /\ node'[n].key = y /\ node'[n].list = node[n].list
      BY <1>3, <1>6, <1>8, <3>1
    <3> QED BY <1>4, <1>5, <3>1, <3>2
  <2>2. CASE \A n \in lev[0] : node[n].key # y
    <3>1. \A n \in next[0] : node'[n].key # y
      BY <1>3, <1>6, <2>2
    <3> QED BY <1>4, <1>5, <2>2, <3>1
  <2> QED BY <2>1, <2>2
<1>9. PICK s, r : s = Series /\ r = Series'
  OBVIOUS
<1>10. s = [y \in Stamps |-> s[y]] /\ r = [y \in Stamps |-> r[y]]
  <2>1. Series = [y \in Stamps |-> Series[y]] /\ Series' = [y \in Stamps |-> Series'[y]]
    BY DEF Series, Stamps, HeaderKey
  <2> QED BY <1>9, <2>1
<1>11. \A y \in Stamps : y # x => r[y] = s[y]
  BY <1>8, <1>9
<1>12. x \in Stamps => r[x] = <<>>
  BY <1>7, <1>9
<1>13. CASE x \in Stamps
  <2>1. r = [s EXCEPT ![x] = <<>>]
    BY <1>10, <1>11, <1>12, <1>13
  <2> QED BY <1>9, <1>13, <2>1 DEF Table!Remove
<1>14. CASE x \notin Stamps
  <2>1. r = s
    BY <1>10, <1>11, <1>14
  <2> QED BY <1>9, <1>14, <2>1
<1> QED BY <1>13, <1>14

LEMMA SeriesStep == LaidInv /\ ValuesAre /\ ValuesAre' /\ [Next]_vars => [Table!Next]_Series
<1> SUFFICES ASSUME LaidInv, ValuesAre, ValuesAre', [Next]_vars PROVE Table!Next \/ Series' = Series
  OBVIOUS
<1>1. CASE UNCHANGED vars
  BY <1>1 DEF vars, Series, Find, Stamps, HeaderKey
<1>2. ASSUME NEW x \in Keys, Remove(x) PROVE Table!Next \/ Series' = Series
  <2>1. IF x \in Stamps THEN Table!Remove(x) ELSE Series' = Series
    BY <1>2, RemoveSeries
  <2> QED BY <2>1 DEF Table!Next
<1>3. ASSUME NEW x \in Keys, NEW d \in Data, NEW level \in Levels, Insert(x, d, level)
      PROVE  Table!Next \/ Series' = Series
  <2>1. CASE x > HeaderKey
    <3>1. Table!Insert(x, d) /\ x \in Stamps
      BY <1>3, <2>1, InsertSeries DEF Stamps
    <3> QED BY <3>1 DEF Table!Next
  <2>2. CASE ~(x > HeaderKey)
    <3>1. PICK lev : Laid(lev)
      BY DEF LaidInv
    <3>2. Laid(lev)' /\ node' = node
      BY <1>3, <2>2, <3>1, InsertNothing
    <3>3. \A y \in Stamps :
            /\ \A n \in lev[0] : node[n].key = y => Series[y] = node[n].list
            /\ (\A n \in lev[0] : node[n].key # y) => Series[y] = <<>>
      BY <3>1 DEF ValuesAre
    <3>4. \A y \in Stamps :
            /\ \A n \in lev[0] : node[n].key = y => Series'[y] = node[n].list
            /\ (\A n \in lev[0] : node[n].key # y) => Series'[y] = <<>>
      BY <3>2 DEF ValuesAre, Stamps, HeaderKey
    <3>5. \A y \in Stamps : Series'[y] = Series[y]
      BY <3>3, <3>4
    <3>6. Series = [y \in Stamps |-> Series[y]] /\ Series' = [y \in Stamps |-> Series'[y]]
      BY DEF Series, Stamps, HeaderKey
    <3>7. PICK s, r : s = Series /\ r = Series'
      OBVIOUS
    <3>8. r = s
      BY <3>5, <3>6, <3>7
    <3> QED BY <3>7, <3>8
  <2> QED BY <2>1, <2>2
<1> QED BY <1>1, <1>2, <1>3 DEF Next

\* Whatever levels were drawn, a table is a map from stamps to sequences: find returns what was inserted
\* under the stamp since it was last removed, in that order.
THEOREM SkipListIsTimeSeries == Spec => IsTimeSeries
<1>1. Init => Table!Init
  <2> SUFFICES ASSUME Init PROVE Series = [k \in Stamps |-> <<>>]
    BY DEF Table!Init
  <2>1. LaidInv /\ ValuesAre
    BY LaidInit, ValuesSo
  <2>2. PICK lev : Laid(lev)
    BY <2>1 DEF LaidInv
  <2>3. \A n \in lev[0] : node[n].key = HeaderKey
    <3>1. DOMAIN node = Levels /\ \A i \in Levels : node[i].key = HeaderKey
      BY DEF Init
    <3> QED BY <2>2, <3>1, Numbers DEF Laid, Parts
  <2>4. \A x \in Stamps : \A n \in lev[0] : node[n].key # x
    BY <2>3, Numbers DEF Stamps
  <2>5. \A x \in Stamps : Series[x] = <<>>
    BY <2>1, <2>2, <2>4 DEF ValuesAre
  <2>6. Series = [x \in Stamps |-> Series[x]]
    BY DEF Series
  <2>7. PICK s : s = Series
    OBVIOUS
  <2>8. s = [x \in Stamps |-> <<>>]
    BY <2>5, <2>6, <2>7
  <2> QED BY <2>7, <2>8
<1> QED BY <1>1, LaidInit, LaidNext, ValuesSo, SeriesStep, PTL DEF Spec, IsTimeSeries, Table!Spec
===============================================================================
