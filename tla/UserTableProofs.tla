--------------------------- MODULE UserTableProofs ---------------------------
(***************************************************************************)
(* The table of users beside its database, for any accounts, hash, clients *)
(* and interleaving: types, and answers that belong to the account they    *)
(* are given for.  Then the table as a copy of its database: no name is in *)
(* it twice, every row has its user, and login finds whom it can find.     *)
(***************************************************************************)
EXTENDS UserTable, FiniteSetTheorems, SequenceTheorems, TLAPS

(* Finite sets of ids *)

Upto(S, i) == {j \in S : j <= i}

LEMMA RankRises ==
  ASSUME NEW S, IsFiniteSet(S), S \subseteq Int, NEW i \in S
  PROVE  /\ Cardinality(Upto(S, i)) \in 1..Cardinality(S)
         /\ \A k \in S : i < k => Cardinality(Upto(S, i)) < Cardinality(Upto(S, k))
<1>1. \A k \in S : /\ IsFiniteSet(Upto(S, k)) /\ Cardinality(Upto(S, k)) \in Nat
                   /\ Cardinality(Upto(S, k)) <= Cardinality(S)
  BY FS_Subset, FS_CardinalityType DEF Upto
<1>2. Cardinality(Upto(S, i)) # 0
  BY <1>1, FS_EmptySet DEF Upto
<1>3. ASSUME NEW k \in S, i < k PROVE Cardinality(Upto(S, i)) < Cardinality(Upto(S, k))
  <2>0. ASSUME NEW j \in S, j <= i PROVE j <= k /\ j # k
    <3>1. i \in Int /\ j \in Int /\ k \in Int
      OBVIOUS
    <3> QED BY <1>3, <2>0, <3>1
  <2>1. k \in Upto(S, k) /\ Upto(S, i) \subseteq Upto(S, k) \ {k}
    <3>1. k <= k
      <4>1. k \in Int
        OBVIOUS
      <4> QED BY <4>1
    <3> QED BY <2>0, <3>1 DEF Upto
  <2>2. /\ IsFiniteSet(Upto(S, k) \ {k})
        /\ Cardinality(Upto(S, k) \ {k}) = Cardinality(Upto(S, k)) - 1
    BY <1>1, <2>1, FS_RemoveElement
  <2>3. Cardinality(Upto(S, i)) <= Cardinality(Upto(S, k) \ {k})
    BY <2>1, <2>2, FS_Subset
  <2> QED BY <1>1, <2>2, <2>3
<1> QED BY <1>1, <1>2, <1>3, FS_CardinalityType

\* Every finite set of ids can be listed oldest first, each id once.
LEMMA Listing ==
  ASSUME NEW S, IsFiniteSet(S), S \subseteq Int
  PROVE  /\ Ascending(S) \in [1..Cardinality(S) -> S]
         /\ \A p, q \in 1..Cardinality(S) : p < q => Ascending(S)[p] < Ascending(S)[q]
         /\ \A i \in S : \E p \in 1..Cardinality(S) : Ascending(S)[p] = i
<1> DEFINE n == Cardinality(S)
           r == [i \in S |-> Cardinality(Upto(S, i))]
           s == [p \in 1..n |-> CHOOSE i \in S : r[i] = p]
<1>0. n \in Nat /\ IsFiniteSet(1..n) /\ Cardinality(1..n) = n
  BY FS_CardinalityType, FS_Interval
<1>1. r \in [S -> 1..n] /\ \A i, k \in S : i < k => r[i] < r[k]
  BY RankRises
<1>2. r \in Injection(S, 1..n)
  <2>1. \A i, k \in S : r[i] = r[k] => i = k
    BY <1>0, <1>1
  <2> QED BY <1>1, <2>1 DEF Injection, IsInjective
<1>3. \A p \in 1..n : \E i \in S : r[i] = p
  <2> HIDE DEF r
  <2>1. r \in Surjection(S, 1..n)
    BY <1>0, <1>2, FS_Injection
  <2> QED BY <2>1 DEF Surjection
<1>4. \A p \in 1..n : s[p] \in S /\ r[s[p]] = p
  BY <1>3
<1>5. \A p, q \in 1..n : p < q => s[p] < s[q]
  <2> HIDE DEF r, s
  <2> SUFFICES ASSUME NEW p \in 1..n, NEW q \in 1..n, p < q, ~(s[p] < s[q]) PROVE FALSE
    OBVIOUS
  <2>1. s[p] \in S /\ s[q] \in S /\ r[s[p]] = p /\ r[s[q]] = q
    BY <1>4
  <2>2. s[p] \in Int /\ s[q] \in Int
    BY <2>1
  <2>3. s[q] = s[p] \/ s[q] < s[p]
    BY <2>2
  <2>4. q = p \/ q < p
    BY <1>1, <2>1, <2>3
  <2> QED BY <1>0, <2>4
<1> HIDE DEF r, s
<1>6. s \in [1..n -> S] /\ \A p, q \in DOMAIN s : p < q => s[p] < s[q]
  BY <1>4, <1>5 DEF s
<1>7. /\ Ascending(S) \in [1..n -> S]
      /\ \A p, q \in 1..n : p < q => Ascending(S)[p] < Ascending(S)[q]
  BY <1>6 DEF Ascending
<1>8. Ascending(S) \in Injection(1..n, S)
  <2> DEFINE a == Ascending(S)
  <2>1. \A p, q \in 1..n : a[p] \in Int /\ (a[p] = a[q] => p = q)
    <3> SUFFICES ASSUME NEW p \in 1..n, NEW q \in 1..n
                 PROVE  a[p] \in Int /\ (a[p] = a[q] => p = q)
      OBVIOUS
    <3>1. a[p] \in Int /\ a[q] \in Int
      BY <1>7
    <3>2. p < q \/ q < p \/ p = q
      BY <1>0
    <3> QED BY <1>7, <3>1, <3>2
  <2> QED BY <1>7, <2>1 DEF Injection, IsInjective
<1>9. \A i \in S : \E p \in 1..n : Ascending(S)[p] = i
  BY <1>0, <1>8, FS_Injection DEF Surjection
<1> QED BY <1>7, <1>9

LEMMA Extremes ==
  ASSUME NEW S, IsFiniteSet(S), S \subseteq Int, S # {}
  PROVE  (\E i \in S : \A j \in S : i <= j) /\ (\E i \in S : \A j \in S : j <= i)
<1> DEFINE n == Cardinality(S)
<1>1. n \in Nat \ {0}
  BY FS_CardinalityType, FS_EmptySet
<1> DEFINE a == Ascending(S)
<1>2. /\ a \in [1..n -> S] /\ \A p, q \in 1..n : p < q => a[p] < a[q]
      /\ \A i \in S : \E p \in 1..n : a[p] = i
  BY Listing
<1> HIDE DEF n, a
<1>3. 1 \in 1..n /\ n \in 1..n /\ a[1] \in S /\ a[n] \in S
  BY <1>1, <1>2
<1>4. \A p \in 1..n : a[1] <= a[p] /\ a[p] <= a[n]
  <2> SUFFICES ASSUME NEW p \in 1..n PROVE a[1] <= a[p] /\ a[p] <= a[n]
    OBVIOUS
  <2>1. a[1] \in Int /\ a[p] \in Int /\ a[n] \in Int
    BY <1>2, <1>3
  <2>2. (p = 1 \/ 1 < p) /\ (p = n \/ p < n)
    BY <1>1
  <2> QED BY <1>2, <1>3, <2>1, <2>2
<1>5. \A j \in S : a[1] <= j /\ j <= a[n]
  BY <1>2, <1>4
<1> QED BY <1>3, <1>5
-----------------------------------------------------------------------------
(* Chains *)

LEMMA PlacesFinite ==
  ASSUME NEW X, NEW s \in Seq(X) PROVE IsFiniteSet(DOMAIN s) /\ DOMAIN s \subseteq Int
<1>1. DOMAIN s = 1..Len(s) /\ Len(s) \in Nat
  BY LenProperties
<1> QED BY <1>1, FS_Interval

LEMMA RemoveAtPlaces ==
  ASSUME NEW X, NEW s \in Seq(X), NEW i \in 1..Len(s)
  PROVE  /\ RemoveAt(s, i) \in Seq(X) /\ Len(RemoveAt(s, i)) = Len(s) - 1
         /\ \A p \in 1..Len(s)-1 : RemoveAt(s, i)[p] = IF p < i THEN s[p] ELSE s[p + 1]
<1> DEFINE front == SubSeq(s, 1, i - 1)
           back == SubSeq(s, i + 1, Len(s))
<1>1. front \in Seq(X) /\ Len(front) = i - 1 /\ \A p \in 1..i-1 : front[p] = s[p]
  BY SubSeqProperties
<1>2. /\ back \in Seq(X) /\ Len(back) = Len(s) - i
      /\ \A p \in 1..Len(s)-i : back[p] = s[p + i]
  BY SubSeqProperties
<1> HIDE DEF front, back
<1>3. front \o back \in Seq(X) /\ Len(front \o back) = Len(s) - 1
  BY <1>1, <1>2
<1>4. \A p \in 1..Len(s)-1 : (front \o back)[p] = IF p < i THEN s[p] ELSE s[p + 1]
  BY <1>1, <1>2
<1> QED BY <1>3, <1>4 DEF RemoveAt, front, back

LEMMA Conditions ==
  ASSUME TypeOK
  PROVE  /\ {load.serial, load.deletes, load.unique, load.fails, load.reuses} \subseteq BOOLEAN
         /\ load.home \in [Accounts -> Int]
  BY UserAssumption DEF TypeOK

LEMMA FetchedRows ==
  ASSUME given \in Seq(Accounts), NEW ids, ids \subseteq DOMAIN given
  PROVE  /\ IsFiniteSet(ids) /\ Fetched(ids) \in Seq(User)
         /\ Len(Fetched(ids)) = Cardinality(ids)
         /\ \A p \in DOMAIN Fetched(ids) : /\ Fetched(ids)[p].id \in ids
                                           /\ Fetched(ids)[p].who = given[Fetched(ids)[p].id]
         /\ \A p, q \in DOMAIN Fetched(ids) : Fetched(ids)[p].id = Fetched(ids)[q].id => p = q
         /\ \A i \in ids : \E p \in DOMAIN Fetched(ids) : Fetched(ids)[p].id = i
<1> DEFINE n == Cardinality(ids)
           a == Ascending(ids)
           f == Fetched(ids)
<1>1. IsFiniteSet(ids) /\ ids \subseteq Int
  <2>1. DOMAIN given = 1..Len(given) /\ Len(given) \in Nat
    BY LenProperties
  <2>2. IsFiniteSet(1..Len(given)) /\ ids \in SUBSET (1..Len(given))
    BY <2>1, FS_Interval
  <2>3. IsFiniteSet(ids)
    BY <2>2, FS_Subset
  <2> QED BY <2>2, <2>3
<1>2. n \in Nat
  BY <1>1, FS_CardinalityType
<1>3. /\ a \in [1..n -> ids] /\ \A p, q \in 1..n : p < q => a[p] < a[q]
      /\ \A i \in ids : \E p \in 1..n : a[p] = i
  BY <1>1, Listing
<1>4. f = [p \in 1..n |-> [who |-> given[a[p]], id |-> a[p]]]
  BY DEF Fetched
<1> HIDE DEF a, n, f
<1>5. \A p \in 1..n : a[p] \in ids /\ a[p] \in Nat /\ given[a[p]] \in Accounts
  BY <1>3
<1>6. f \in Seq(User) /\ Len(f) = n
  BY <1>2, <1>4, <1>5 DEF User
<1>7. DOMAIN f = 1..n /\ \A p \in 1..n : f[p].id = a[p] /\ f[p].who = given[a[p]]
  BY <1>4
<1>8. \A p, q \in 1..n : a[p] = a[q] => p = q
  <2> SUFFICES ASSUME NEW p \in 1..n, NEW q \in 1..n PROVE a[p] = a[q] => p = q
    OBVIOUS
  <2>1. (p < q \/ q < p \/ p = q) /\ a[p] \in Nat /\ a[q] \in Nat
    BY <1>2, <1>5
  <2> QED BY <1>3, <2>1
<1>9. /\ \A p \in DOMAIN f : f[p].id \in ids /\ f[p].who = given[f[p].id]
      /\ \A p, q \in DOMAIN f : f[p].id = f[q].id => p = q
      /\ \A i \in ids : \E p \in DOMAIN f : f[p].id = i
  BY <1>3, <1>5, <1>7, <1>8
<1> QED BY <1>1, <1>6, <1>9 DEF f, n

\* Strings that are not lost are read as they are.
LEMMA SeenAs ==
  ASSUME NEW h, NEW s \in Seen(h)
  PROVE  /\ DOMAIN s = DOMAIN users[h]
         /\ \A i \in DOMAIN users[h] : users[h][i].id \notin lost => s[i] = users[h][i].who
  BY DEF Seen

LEMMA FoundInChain ==
  ASSUME TypeOK, NEW a \in Accounts, load.home[a] \in Buckets, NEW s \in Seen(load.home[a])
  PROVE  \/ /\ selectUser(a, s) = NULL
            /\ \A i \in DOMAIN users[load.home[a]] :
                 users[load.home[a]][i].who = a =>
                   \/ users[load.home[a]][i].id \in lost
                   \/ Len(users[load.home[a]]) > 1 /\ ~(i > 1)
         \/ \E i \in DOMAIN users[load.home[a]] :
              /\ selectUser(a, s) = users[load.home[a]][i]
              /\ users[load.home[a]][i].who = a \/ users[load.home[a]][i].id \in lost
<1> DEFINE chain == users[load.home[a]]
           match == {i \in DOMAIN chain : s[i] = a /\ (Len(chain) > 1 => i > 1)}
<1>1. chain \in Seq(User)
  BY DEF TypeOK
<1>2. IsFiniteSet(match) /\ match \subseteq Int
  <2>1. IsFiniteSet(DOMAIN chain) /\ DOMAIN chain \subseteq Int
    BY <1>1, PlacesFinite
  <2>2. match \in SUBSET (DOMAIN chain)
    OBVIOUS
  <2> HIDE DEF match, chain
  <2> QED BY <2>1, <2>2, FS_Subset
<1>3. match # {} => \E i \in match : \A j \in match : j <= i
  BY <1>2, Extremes
<1>4. selectUser(a, s) = IF match = {} THEN NULL
                         ELSE chain[CHOOSE i \in match : \A j \in match : j <= i]
  BY DEF selectUser
<1>5. match # {} => (CHOOSE i \in match : \A j \in match : j <= i) \in match
  BY <1>3
<1>6. \A i \in DOMAIN chain : chain[i].id \notin lost => s[i] = chain[i].who
  BY SeenAs
<1>7. \A i \in DOMAIN chain : i \in match <=> s[i] = a /\ (Len(chain) > 1 => i > 1)
  OBVIOUS
<1>8. match \subseteq DOMAIN chain
  OBVIOUS
<1> HIDE DEF match, chain
<1>9. CASE match = {}
  BY <1>4, <1>6, <1>7, <1>9 DEF chain
<1>10. CASE match # {}
  BY <1>4, <1>5, <1>6, <1>7, <1>8, <1>10 DEF chain
<1> QED BY <1>9, <1>10

LEMMA DoomedPlace ==
  ASSUME TypeOK, NEW a \in Accounts, load.home[a] \in Buckets, NEW s \in Seen(load.home[a])
  PROVE  Doomed(a, s) \in 0..Len(users[load.home[a]])
<1> DEFINE chain == users[load.home[a]]
           match == {i \in DOMAIN chain : s[i] = a /\ (Len(chain) > 1 => i < Len(chain))}
           least == CHOOSE i \in match : \A j \in match : i <= j
<1>1. chain \in Seq(User)
  BY DEF TypeOK
<1>2. IsFiniteSet(match) /\ match \subseteq Int
  <2>1. IsFiniteSet(DOMAIN chain) /\ DOMAIN chain \subseteq Int
    BY <1>1, PlacesFinite
  <2>2. match \in SUBSET (DOMAIN chain)
    OBVIOUS
  <2> HIDE DEF match, chain
  <2> QED BY <2>1, <2>2, FS_Subset
<1>3. match # {} => \E i \in match : \A j \in match : i <= j
  BY <1>2, Extremes
<1>4. match # {} => least \in match
  BY <1>3
<1>5. Doomed(a, s) = IF match = {} THEN 0 ELSE IF Len(chain) = 1 THEN 1 ELSE 1 + least
  BY DEF Doomed
<1> HIDE DEF least
<1>6. match # {} /\ Len(chain) # 1 => least \in 1..Len(chain)-1
  <2>0. \A n \in Nat : \A k \in 1..n : n # 1 /\ (n > 1 => k < n) => k \in 1..n-1
    OBVIOUS
  <2>1. match # {} => least \in DOMAIN chain /\ (Len(chain) > 1 => least < Len(chain))
    BY <1>4
  <2>2. Len(chain) \in Nat /\ DOMAIN chain = 1..Len(chain)
    BY <1>1
  <2> QED BY <2>0, <2>1, <2>2
<1> QED BY <1>1, <1>5, <1>6
-----------------------------------------------------------------------------
(* Types *)

\* A call knows its account, and a pointer is read only if there is one.
CallsKnow ==
  \A c \in Clients : /\ pc[c] # "idle" => call[c].who \in Accounts
                     /\ pc[c] = "read" => call[c].found # NULL

TypeInv == TypeOK /\ CallsKnow /\ (lost # {} => spoilt)

LEMMA LoadedTyped ==
  ASSUME given \in Seq(Accounts), rows \subseteq DOMAIN given
  PROVE  Loaded \in [Buckets -> Seq(User)]
  BY FetchedRows DEF Loaded

LEMMA ListedOnce ==
  ASSUME NEW S, IsFiniteSet(S)
  PROVE  SetToSeq(S) \in [1..Cardinality(S) -> S] /\ IsInjective(SetToSeq(S))
<1>1. \E f \in [1..Cardinality(S) -> S] : IsInjective(f)
  <2>1. IsFiniteSet(1..Cardinality(S)) /\ Cardinality(1..Cardinality(S)) = Cardinality(S)
    BY FS_CardinalityType, FS_Interval
  <2>2. ExistsBijection(1..Cardinality(S), S)
    BY <2>1, FS_SameCardinalityBij
  <2> QED BY <2>2 DEF ExistsBijection, Bijection, Injection
<1> QED BY <1>1 DEF SetToSeq

LEMMA NoCallTyped == NoCall \in Locals
  BY UserAssumption DEF NoCall, Locals, Buckets

LEMMA TypesInit == Init => TypeInv
<1> SUFFICES ASSUME Init PROVE TypeInv
  OBVIOUS
<1>1. PICK S \in SUBSET Accounts : given = SetToSeq(S)
  BY DEF Init
<1>2. IsFiniteSet(S) /\ Cardinality(S) \in Nat
  BY UserAssumption, FS_Subset, FS_CardinalityType
<1>3. given \in [1..Cardinality(S) -> Accounts]
  BY <1>1, <1>2, ListedOnce
<1>4. given \in Seq(Accounts)
  BY <1>2, <1>3
<1>5. users \in [Buckets -> Seq(User)]
  BY <1>4, LoadedTyped DEF Init
<1>6. lost = {} /\ lost \subseteq DOMAIN given
  BY DEF Init
<1> QED BY <1>4, <1>5, <1>6, NoCallTyped DEF Init, TypeInv, TypeOK, CallsKnow, CallPC

LEMMA TypesCall ==
  ASSUME TypeInv, NEW c \in Clients, NEW a \in Accounts, Call(c, a) PROVE TypeInv'
<1>1. PICK o \in {"add", "login", "delete"}, first \in {"contains", "find", "delete row"} :
        Begin(c, o, a, first)
  BY DEF Call
<1>2. [NoCall EXCEPT !.op = o, !.who = a] \in Locals
  <2>2. [NoCall EXCEPT !.op = o] \in Locals
    BY NoCallTyped DEF Locals
  <2> QED BY <2>2 DEF Locals
<1>3. /\ call' = [call EXCEPT ![c] = [NoCall EXCEPT !.op = o, !.who = a]]
      /\ pc' = [pc EXCEPT ![c] = first]
      /\ UNCHANGED <<load, given, rows, users, closed, missed, lost, spoilt>>
  BY <1>1 DEF Begin, database, table, strings
<1>4. TypeOK'
  BY <1>2, <1>3 DEF TypeInv, TypeOK, CallPC
<1>5. CallsKnow'
  BY <1>3 DEF TypeInv, TypeOK, CallsKnow, NoCall, Locals
<1> QED BY <1>3, <1>4, <1>5 DEF TypeInv

LEMMA TypesInsert == ASSUME TypeInv, NEW c \in Clients, InsertRow(c) PROVE TypeInv'
<1>1. /\ UNCHANGED <<load, users, closed, call, missed, lost, spoilt>> /\ call[c].who \in Accounts
      /\ \E x \in {"select row", "return"} : pc' = [pc EXCEPT ![c] = x]
  BY DEF InsertRow, Fail, Go, database, strings, TypeInv, CallsKnow
<1>2. given' \in Seq(Accounts) /\ rows' \subseteq DOMAIN given' /\ lost \subseteq DOMAIN given'
  <2>1. CASE UNCHANGED database
    BY <2>1 DEF database, TypeInv, TypeOK
  <2>2. CASE given' = Append(given, call[c].who) /\ rows' = rows \cup {Len(given')}
    <3>1. given \in Seq(Accounts) /\ rows \subseteq DOMAIN given /\ lost \subseteq DOMAIN given
      BY DEF TypeInv, TypeOK
    <3>2. given' \in Seq(Accounts) /\ Len(given') = Len(given) + 1 /\ Len(given) \in Nat
      BY <1>1, <2>2, <3>1, AppendProperties, LenProperties
    <3>3. DOMAIN given = 1..Len(given) /\ DOMAIN given' = 1..Len(given')
      BY <3>1, <3>2, LenProperties
    <3>4. DOMAIN given \subseteq DOMAIN given' /\ Len(given') \in DOMAIN given'
      BY <3>2, <3>3
    <3> QED BY <2>2, <3>1, <3>2, <3>4
  <2> QED BY <2>1, <2>2 DEF InsertRow, Fail, database
<1>3. TypeOK'
  BY <1>1, <1>2 DEF TypeInv, TypeOK, CallPC
<1> QED BY <1>1, <1>3 DEF TypeInv, TypeOK, CallsKnow

LEMMA TypesSelect == ASSUME TypeInv, NEW c \in Clients, SelectRow(c) PROVE TypeInv'
<1> DEFINE new == Fetched({i \in rows : given[i] = call[c].who})
           h == load.home[call[c].who]
<1>1. new \in Seq(User) /\ call[c].who \in Accounts
  BY FetchedRows DEF TypeInv, TypeOK, SelectRow, CallsKnow
<1>2. users \in [Buckets -> Seq(User)] /\ closed \in [Buckets -> BOOLEAN]
  BY DEF TypeInv, TypeOK
<1>3. ASSUME Ends(h) PROVE insertUsers(call[c].who, new) \in [Buckets -> Seq(User)]
  BY <1>1, <1>2, <1>3 DEF insertUsers, Ends
<1>4. /\ users' \in [Buckets -> Seq(User)] /\ missed' \in BOOLEAN
      /\ closed' \in [Buckets -> BOOLEAN]
      /\ UNCHANGED <<load, given, rows, call, lost, spoilt>>
      /\ \E x \in {"find", "return", "undefined"} : pc' = [pc EXCEPT ![c] = x]
  <2>0. PICK n, b : n = new /\ b = h
    OBVIOUS
  <2>1. CASE n # <<>> /\ Ends(b) /\ users' = insertUsers(call[c].who, n)
             /\ \E end \in BOOLEAN : closed' = [closed EXCEPT ![b] = end]
             /\ Go(c, "find") /\ UNCHANGED <<load, database, strings, call, missed>>
    BY <1>2, <1>3, <2>0, <2>1 DEF Go, database, strings, TypeInv, TypeOK
  <2>2. CASE UNCHANGED <<load, database, users, closed, strings, call>> /\ missed' \in {missed, TRUE}
             /\ \E x \in {"find", "return", "undefined"} : Go(c, x)
    BY <1>2, <2>2 DEF Go, database, strings, TypeInv, TypeOK
  <2> HIDE DEF new, h
  <2> QED BY <2>0, <2>1, <2>2 DEF SelectRow, Fail, Undefined, table, new, h
<1>5. TypeOK'
  BY <1>4 DEF TypeInv, TypeOK, CallPC
<1> QED BY <1>1, <1>4, <1>5 DEF TypeInv, TypeOK, CallsKnow

LEMMA TypesLookups ==
  ASSUME TypeInv, NEW c \in Clients, CheckName(c) \/ Find(c) \/ Read(c) \/ Return(c)
  PROVE  TypeInv'
<1>0. /\ UNCHANGED <<load, given, rows, users, closed, missed, lost, spoilt>>
      /\ pc \in [Clients -> CallPC] /\ call \in [Clients -> Locals]
      /\ pc[c] # "idle" /\ call[c].who \in Accounts /\ call[c] \in Locals
  BY DEF CheckName, Find, Read, Return, Undefined, database, table, strings, TypeInv, TypeOK,
         CallsKnow
<1>1. PICK x \in CallPC, r \in Locals :
        /\ pc' = [pc EXCEPT ![c] = x] /\ call' = [call EXCEPT ![c] = r]
        /\ x # "idle" => r.who \in Accounts
        /\ x = "read" => r.found # NULL
  <2>1. CASE CheckName(c)
    <3>1. call[c].at \in Buckets /\ (More(call[c].at) => call[c].at + 1 \in Buckets) /\ 0 \in Buckets
      BY <1>0, UserAssumption DEF More, Buckets, Locals
    <3>2. PICK b \in Buckets : call' = [call EXCEPT ![c].at = b] \/ call' = call
      BY <2>1, <3>1 DEF CheckName, Undefined
    <3>3. PICK r \in Locals : call' = [call EXCEPT ![c] = r] /\ r.who = call[c].who
      <4>1. [call[c] EXCEPT !.at = b] \in Locals /\ [call[c] EXCEPT !.at = b].who = call[c].who
        BY <1>0 DEF Locals
      <4> QED BY <1>0, <3>2, <4>1
    <3>4. \E x \in {"contains", "insert row", "return", "undefined"} : pc' = [pc EXCEPT ![c] = x]
      BY <2>1 DEF CheckName, Undefined, Go
    <3> QED BY <1>0, <3>3, <3>4 DEF CallPC
  <2>2. CASE Find(c)
    <3>1. CASE Undefined(c)
      <4>1. call' = [call EXCEPT ![c] = call[c]] /\ pc' = [pc EXCEPT ![c] = "undefined"]
        BY <1>0, <3>1 DEF Undefined, Go
      <4> QED BY <1>0, <4>1 DEF CallPC
    <3>2. CASE ~Undefined(c)
      <4>1. PICK s \in Seen(load.home[call[c].who]) :
              /\ Ends(load.home[call[c].who])
              /\ call' = [call EXCEPT ![c].found = selectUser(call[c].who, s)]
              /\ Go(c, IF selectUser(call[c].who, s) = NULL THEN "return" ELSE "read")
        BY <2>2, <3>2 DEF Find
      <4> DEFINE u == selectUser(call[c].who, s)
      <4>2. u \in User \cup {NULL}
        <5>1. TypeOK /\ load.home[call[c].who] \in Buckets
          BY <4>1 DEF TypeInv, Ends
        <5>2. users[load.home[call[c].who]] \in Seq(User)
          BY <5>1 DEF TypeOK
        <5>3. \A i \in DOMAIN users[load.home[call[c].who]] :
                users[load.home[call[c].who]][i] \in User
          BY <5>2
        <5> QED BY <1>0, <5>1, <5>3, FoundInChain
      <4>3. call' = [call EXCEPT ![c] = [call[c] EXCEPT !.found = u]]
            /\ Go(c, IF u = NULL THEN "return" ELSE "read")
        BY <4>1
      <4> HIDE DEF u
      <4>4. /\ [call[c] EXCEPT !.found = u] \in Locals
            /\ [call[c] EXCEPT !.found = u].who = call[c].who
            /\ [call[c] EXCEPT !.found = u].found = u
        BY <1>0, <4>2 DEF Locals
      <4> QED BY <1>0, <4>3, <4>4 DEF Go, CallPC
    <3> QED BY <3>1, <3>2
  <2>3. CASE Read(c)
    <3> DEFINE v == IF call[c].found = Garbage \/ call[c].found.id \in lost THEN Garbage
                    ELSE call[c].found.id
    <3>1. v \in Nat \cup {Garbage}
      BY <1>0, <2>3 DEF Read, TypeInv, CallsKnow, Locals, User
    <3>2. [call[c] EXCEPT !.answer = v] \in Locals
      BY <1>0, <3>1 DEF Locals
    <3> QED BY <1>0, <2>3, <3>2 DEF Read, Go, CallPC, Locals
  <2>4. CASE Return(c)
    BY <2>4, NoCallTyped DEF Return, Go, CallPC
  <2> QED BY <2>1, <2>2, <2>3, <2>4
<1>2. TypeOK'
  BY <1>0, <1>1 DEF TypeInv, TypeOK
<1>3. CallsKnow'
  BY <1>0, <1>1 DEF TypeInv, CallsKnow
<1> QED BY <1>0, <1>2, <1>3 DEF TypeInv

LEMMA DanglingTyped ==
  ASSUME TypeOK, NEW u
  PROVE  /\ Dangling(u) \in [Clients -> Locals]
         /\ \A d \in Clients : /\ Dangling(u)[d].op = call[d].op
                               /\ Dangling(u)[d].who = call[d].who
                               /\ Dangling(u)[d].answer = call[d].answer
                               /\ \/ Dangling(u)[d].found = call[d].found
                                  \/ Dangling(u)[d].found = Garbage /\ pc[d] = "read"
<1> SUFFICES ASSUME NEW d \in Clients
             PROVE  /\ Dangling(u)[d] \in Locals /\ Dangling(u)[d].op = call[d].op
                    /\ Dangling(u)[d].who = call[d].who
                    /\ Dangling(u)[d].answer = call[d].answer
                    /\ \/ Dangling(u)[d].found = call[d].found
                       \/ Dangling(u)[d].found = Garbage /\ pc[d] = "read"
  BY DEF Dangling
<1>1. call[d] \in Locals
  BY DEF TypeOK
<1>2. /\ [call[d] EXCEPT !.found = Garbage] \in Locals
      /\ [call[d] EXCEPT !.found = Garbage].op = call[d].op
      /\ [call[d] EXCEPT !.found = Garbage].who = call[d].who
      /\ [call[d] EXCEPT !.found = Garbage].answer = call[d].answer
      /\ [call[d] EXCEPT !.found = Garbage].found = Garbage
  BY <1>1 DEF Locals
<1> QED BY <1>1, <1>2 DEF Dangling

\* What deleteUser does, if it gets through.
LEMMA DeletedOne ==
  ASSUME TypeInv, NEW c \in Clients, DeleteUser(c)
  PROVE  \/ Undefined(c)
         \/ \E i \in 0..Len(users[load.home[call[c].who]]) :
              /\ load.home[call[c].who] \in Buckets
              /\ \E s \in Seen(load.home[call[c].who]) : i = Doomed(call[c].who, s)
              /\ users' = [users EXCEPT ![load.home[call[c].who]]
                                          = Remaining(load.home[call[c].who], i)]
              /\ call' = IF i = 0 THEN call ELSE Dangling(users[load.home[call[c].who]][i])
              /\ pc' = [pc EXCEPT ![c] = "return"]
              /\ UNCHANGED <<load, given, rows, closed, lost, spoilt, missed>>
<1>1. call[c].who \in Accounts /\ TypeOK
  BY DEF DeleteUser, TypeInv, CallsKnow
<1> SUFFICES ASSUME ~Undefined(c)
             PROVE  \E i \in 0..Len(users[load.home[call[c].who]]) :
              /\ load.home[call[c].who] \in Buckets
              /\ \E s \in Seen(load.home[call[c].who]) : i = Doomed(call[c].who, s)
              /\ users' = [users EXCEPT ![load.home[call[c].who]]
                                          = Remaining(load.home[call[c].who], i)]
              /\ call' = IF i = 0 THEN call ELSE Dangling(users[load.home[call[c].who]][i])
              /\ pc' = [pc EXCEPT ![c] = "return"]
              /\ UNCHANGED <<load, given, rows, closed, lost, spoilt, missed>>
  OBVIOUS
<1> DEFINE h == load.home[call[c].who]
<1>2. /\ h \in Buckets
      /\ \E s \in Seen(h) :
           /\ users' = [users EXCEPT ![h] = Remaining(h, Doomed(call[c].who, s))]
           /\ call' = IF Doomed(call[c].who, s) = 0 THEN call
                      ELSE Dangling(users[h][Doomed(call[c].who, s)])
      /\ Go(c, "return") /\ UNCHANGED <<load, database, closed, strings, missed>>
  BY DEF DeleteUser
<1>3. PICK s \in Seen(h) :
        /\ users' = [users EXCEPT ![h] = Remaining(h, Doomed(call[c].who, s))]
        /\ call' = IF Doomed(call[c].who, s) = 0 THEN call
                   ELSE Dangling(users[h][Doomed(call[c].who, s)])
  BY <1>2
<1>4. Doomed(call[c].who, s) \in 0..Len(users[h])
  BY <1>1, <1>2, DoomedPlace
<1> QED BY <1>2, <1>3, <1>4 DEF Go, database, strings

LEMMA TypesDelete ==
  ASSUME TypeInv, NEW c \in Clients, DeleteRow(c) \/ DeleteUser(c) PROVE TypeInv'
<1>0. call[c].who \in Accounts
  BY DEF DeleteRow, DeleteUser, TypeInv, CallsKnow
<1>1. CASE DeleteRow(c)
  <2>1. /\ rows' \subseteq rows /\ UNCHANGED <<load, given, users, closed, lost, spoilt, call, missed>>
        /\ \E x \in {"delete user", "return"} : pc' = [pc EXCEPT ![c] = x]
    BY <1>1 DEF DeleteRow, Fail, Go, database, strings
  <2> QED BY <1>0, <2>1 DEF TypeInv, TypeOK, CallsKnow, CallPC
<1>2. CASE DeleteUser(c) /\ ~Undefined(c)
  <2> DEFINE h == load.home[call[c].who]
  <2>0. PICK i \in 0..Len(users[h]) :
          /\ h \in Buckets /\ users' = [users EXCEPT ![h] = Remaining(h, i)]
          /\ call' = IF i = 0 THEN call ELSE Dangling(users[h][i])
          /\ pc' = [pc EXCEPT ![c] = "return"]
          /\ UNCHANGED <<load, given, rows, closed, lost, spoilt, missed>>
    BY <1>2, DeletedOne
  <2>1. users[h] \in Seq(User)
    BY <2>0 DEF TypeInv, TypeOK
  <2>2. i # 0 => i \in 1..Len(users[h])
    BY <2>1
  <2>3. Remaining(h, i) \in Seq(User)
    BY <2>1, <2>2, RemoveAtPlaces DEF Remaining
  <2>5. /\ call' \in [Clients -> Locals]
        /\ \A d \in Clients : /\ call'[d].who = call[d].who
                              /\ call'[d].found \in {call[d].found, Garbage}
    BY <2>0, DanglingTyped DEF TypeInv, TypeOK
  <2>6. TypeOK'
    BY <2>0, <2>1, <2>3, <2>5 DEF TypeInv, TypeOK, CallPC
  <2>7. CallsKnow'
    BY <1>0, <2>0, <2>5, UserAssumption DEF TypeInv, TypeOK, CallsKnow
  <2> QED BY <2>0, <2>6, <2>7 DEF TypeInv
<1>3. CASE Undefined(c)
  BY <1>0, <1>3 DEF Undefined, Go, database, table, strings, TypeInv, TypeOK, CallsKnow, CallPC
<1> QED BY <1>1, <1>2, <1>3

\* What the reuse of a row's strings leaves of the calls' locals.
LEMMA OverwrittenTyped ==
  ASSUME TypeOK, Overwritten
  PROVE  /\ call' \in [Clients -> Locals] /\ lost \subseteq lost' /\ lost' \subseteq DOMAIN given
         /\ lost' # {} /\ spoilt' /\ UNCHANGED <<load, given, rows, users, closed, missed, pc>>
         /\ \A d \in Clients : /\ call'[d].op = call[d].op /\ call'[d].who = call[d].who
                               /\ call'[d].at = call[d].at /\ call'[d].found = call[d].found
                               /\ call'[d].answer = call[d].answer \/ call'[d].answer = Garbage
                               /\ call[d].answer = NULL => call'[d].answer = NULL
<1>1. PICK x \in DOMAIN given :
        /\ lost' = lost \cup {x}
        /\ call' = [d \in Clients |-> IF call[d].answer = x
                                      THEN [call[d] EXCEPT !.answer = Garbage] ELSE call[d]]
  BY DEF Overwritten
<1>2. x \in Int
  BY DEF TypeOK
<1>3. ASSUME NEW d \in Clients
      PROVE  /\ call'[d] \in Locals
             /\ call'[d].op = call[d].op /\ call'[d].who = call[d].who
             /\ call'[d].at = call[d].at /\ call'[d].found = call[d].found
             /\ call'[d].answer = call[d].answer \/ call'[d].answer = Garbage
             /\ call[d].answer = NULL => call'[d].answer = NULL
  <2>1. call[d] \in Locals
    BY DEF TypeOK
  <2>2. CASE call[d].answer = x
    <3>1. call'[d] = [call[d] EXCEPT !.answer = Garbage] /\ call[d].answer # NULL
      BY <1>1, <1>2, <2>2, UserAssumption
    <3> QED BY <2>1, <3>1 DEF Locals
  <2>3. CASE call[d].answer # x
    BY <1>1, <2>1, <2>3
  <2> QED BY <2>2, <2>3
<1>4. call' \in [Clients -> Locals]
  <2>1. call' = [d \in Clients |-> call'[d]]
    BY <1>1
  <2> QED BY <1>3, <2>1
<1> QED BY <1>1, <1>3, <1>4 DEF Overwritten, database, table, TypeOK

LEMMA TypesOther == ASSUME TypeInv, Restart \/ Overwritten PROVE TypeInv'
<1>1. CASE Restart
  <2>1. Loaded \in [Buckets -> Seq(User)]
    BY LoadedTyped DEF TypeInv, TypeOK
  <2> QED BY <1>1, <2>1 DEF Restart, database, TypeInv, TypeOK, CallsKnow
<1>2. CASE Overwritten
  <2>1. TypeOK'
    BY <1>2, OverwrittenTyped DEF TypeInv, TypeOK
  <2>2. CallsKnow'
    BY <1>2, OverwrittenTyped DEF TypeInv, TypeOK, CallsKnow
  <2> QED BY <1>2, <2>1, <2>2, OverwrittenTyped DEF TypeInv
<1> QED BY <1>1, <1>2

LEMMA TypesNext == TypeInv /\ [Next]_vars => TypeInv'
<1> SUFFICES ASSUME TypeInv, [Next]_vars PROVE TypeInv'
  OBVIOUS
<1>1. CASE UNCHANGED vars
  BY <1>1 DEF vars, database, table, strings, TypeInv, TypeOK, CallsKnow
<1> QED BY <1>1, TypesCall, TypesInsert, TypesSelect, TypesLookups, TypesDelete, TypesOther
        DEF Next, Client

\* The types of the table, of the rows and of the calls' locals, for any accounts, any hash,
\* negative ones included, and whatever the memory of the table holds.
THEOREM UsersTyped == Spec => []TypeOK
<1>1. TypeInv => TypeOK
  BY DEF TypeInv
<1> QED BY TypesInit, TypesNext, <1>1, PTL DEF Spec
-----------------------------------------------------------------------------
(* Answers *)

Owned(u, g) == u.id \in DOMAIN g /\ g[u.id] = u.who

\* A user is of the account that the database gave its id to, and in that account's bucket.
TableOwned ==
  \A h \in Buckets : \A i \in DOMAIN users[h] :
    Owned(users[h][i], given) /\ load.home[users[h][i].who] = h

Raced == load.deletes /\ ~load.serial

\* What a call at place p with locals r has found, and later answers, belongs to its
\* account, unless the strings are lost or a deletion takes it away.
Fits(p, r, g, l) ==
  /\ p = "read" =>
       \/ r.found = Garbage /\ Raced
       \/ r.found \in User /\ (r.found.id \in l \/ (r.found.who = r.who /\ Owned(r.found, g)))
  /\ p # "return" => r.answer = NULL
  /\ p = "return" /\ r.answer # NULL =>
       \/ r.answer \in DOMAIN g /\ g[r.answer] = r.who
       \/ r.answer = Garbage /\ (l # {} \/ Raced)

CallsFit == \A c \in Clients : Fits(pc[c], call[c], given, lost)

CallsKept ==
  /\ load.serial => \A c, d \in Clients : pc[c] # "idle" /\ pc[d] # "idle" => c = d
  /\ \A c \in Clients : pc[c] \in {"delete row", "delete user"} => load.deletes

AnswerInv == TypeInv /\ CallsKept /\ TableOwned /\ CallsFit

LEMMA KeptInit == Init => CallsKept
  BY DEF Init, CallsKept

LEMMA KeptNext == TypeInv /\ CallsKept /\ [Next]_vars => CallsKept'
<1> SUFFICES ASSUME TypeInv, CallsKept, [Next]_vars PROVE CallsKept'
  OBVIOUS
<1>1. CASE UNCHANGED <<load, pc>>
  BY <1>1 DEF CallsKept
<1>2. ASSUME NEW c \in Clients, NEW a \in Accounts, Call(c, a) PROVE CallsKept'
  <2>1. /\ pc \in [Clients -> CallPC] /\ (load.serial => Idle) /\ UNCHANGED load
        /\ \/ \E x \in {"contains", "find"} : pc' = [pc EXCEPT ![c] = x]
           \/ load.deletes /\ pc' = [pc EXCEPT ![c] = "delete row"]
    BY <1>2 DEF Call, Begin, TypeInv, TypeOK
  <2> QED BY <2>1 DEF CallsKept, Idle
<1>3. ASSUME NEW c \in Clients, Client(c) PROVE CallsKept'
  <2>1. /\ pc \in [Clients -> CallPC] /\ UNCHANGED load /\ pc[c] # "idle"
        /\ \E x \in CallPC : /\ pc' = [pc EXCEPT ![c] = x]
                             /\ x \in {"delete row", "delete user"} => pc[c] = "delete row"
    BY <1>3 DEF Client, CheckName, InsertRow, SelectRow, Find, Read, DeleteRow, DeleteUser, Return,
                Undefined, Fail, Go, TypeInv, TypeOK, CallPC
  <2> QED BY <2>1 DEF CallsKept
<1> QED BY <1>1, <1>2, <1>3 DEF Next, Restart, Overwritten, vars

LEMMA GivenGrows ==
  ASSUME TypeInv, [Next]_vars
  PROVE  \A i \in DOMAIN given : i \in DOMAIN given' /\ given'[i] = given[i]
<1>1. given \in Seq(Accounts)
  BY DEF TypeInv, TypeOK
<1>2. CASE UNCHANGED given
  BY <1>2
<1>3. ASSUME NEW a \in Accounts, given' = Append(given, a)
      PROVE  \A i \in DOMAIN given : i \in DOMAIN given' /\ given'[i] = given[i]
  BY <1>1, <1>3
<1>4. ASSUME NEW c \in Clients, InsertRow(c)
      PROVE  UNCHANGED given \/ \E a \in Accounts : given' = Append(given, a)
  BY <1>4 DEF InsertRow, Fail, database, TypeInv, CallsKnow
<1> QED BY <1>2, <1>3, <1>4
        DEF Next, Client, Call, Begin, CheckName, SelectRow, Find, Read, DeleteRow, DeleteUser,
            Return, Undefined, Restart, Overwritten, Fail, vars, database

LEMMA RowsOwned ==
  ASSUME given \in Seq(Accounts), NEW ids, ids \subseteq DOMAIN given
  PROVE  \A p \in DOMAIN Fetched(ids) : Owned(Fetched(ids)[p], given)
  BY FetchedRows DEF Owned

LEMMA LoadedOwned ==
  ASSUME given \in Seq(Accounts), rows \subseteq DOMAIN given
  PROVE  \A h \in Buckets : \A i \in DOMAIN Loaded[h] :
            Owned(Loaded[h][i], given) /\ load.home[Loaded[h][i].who] = h
<1> SUFFICES ASSUME NEW h \in Buckets
             PROVE  \A i \in DOMAIN Loaded[h] :
                       Owned(Loaded[h][i], given) /\ load.home[Loaded[h][i].who] = h
  OBVIOUS
<1> DEFINE ids == {i \in rows : load.home[given[i]] = h}
<1>1. Loaded[h] = Fetched(ids) /\ ids \subseteq DOMAIN given
  BY DEF Loaded
<1>2. \A x \in ids : load.home[given[x]] = h
  OBVIOUS
<1> HIDE DEF ids
<1> QED BY <1>1, <1>2, FetchedRows, RowsOwned

\* Where the users of a table come from in a step.
LEMMA UsersAfter ==
  ASSUME TypeInv, [Next]_vars, NEW h \in Buckets, NEW i \in DOMAIN users'[h]
  PROVE  \/ Owned(users'[h][i], given) /\ load.home[users'[h][i].who] = h
         \/ \E k \in DOMAIN users[h] : users'[h][i] = users[h][k]
<1>1. given \in Seq(Accounts) /\ rows \subseteq DOMAIN given /\ users \in [Buckets -> Seq(User)]
  BY DEF TypeInv, TypeOK
<1>2. CASE UNCHANGED users
  BY <1>2
<1>3. ASSUME NEW c \in Clients, SelectRow(c), ~UNCHANGED users
      PROVE  \/ Owned(users'[h][i], given) /\ load.home[users'[h][i].who] = h
             \/ \E k \in DOMAIN users[h] : users'[h][i] = users[h][k]
  <2> DEFINE ids == {x \in rows : given[x] = call[c].who}
             b == load.home[call[c].who]
             new == Fetched(ids)
  <2>1. users' = [users EXCEPT ![b] = users[b] \o new] /\ b \in Buckets
    BY <1>3 DEF SelectRow, Fail, Undefined, Ends, table, insertUsers
  <2>2. new \in Seq(User) /\ \A p \in DOMAIN new : Owned(new[p], given) /\ load.home[new[p].who] = b
    BY <1>1, FetchedRows, RowsOwned
  <2> HIDE DEF new, b
  <2>3. CASE h = b
    <3>1. users[b] \in Seq(User) /\ users'[h] = users[b] \o new
      BY <1>1, <2>1, <2>3
    <3>2. \/ i \in DOMAIN users[b] /\ users'[h][i] = users[b][i]
          \/ i - Len(users[b]) \in DOMAIN new /\ users'[h][i] = new[i - Len(users[b])]
      BY <2>2, <3>1, ConcatProperties, LenProperties
    <3> QED BY <2>2, <2>3, <3>2
  <2>4. CASE h # b
    BY <1>1, <2>1, <2>4
  <2> QED BY <2>3, <2>4
<1>4. ASSUME NEW c \in Clients, DeleteUser(c), ~UNCHANGED users
      PROVE  \E k \in DOMAIN users[h] : users'[h][i] = users[h][k]
  <2> DEFINE b == load.home[call[c].who]
  <2>0. PICK d \in 0..Len(users[b]) : b \in Buckets /\ users' = [users EXCEPT ![b] = Remaining(b, d)]
    BY <1>4, DeletedOne DEF Undefined, table
  <2>1. users[b] \in Seq(User)
    BY <1>1, <2>0
  <2> HIDE DEF b
  <2>2. CASE h # b \/ d = 0
    BY <1>1, <2>0, <2>2 DEF Remaining
  <2>3. CASE h = b /\ d # 0
    <3>1. d \in 1..Len(users[b]) /\ users'[h] = RemoveAt(users[b], d)
      BY <1>1, <2>0, <2>1, <2>3 DEF Remaining
    <3>2. i \in 1..Len(users[b])-1
      BY <2>1, <3>1, RemoveAtPlaces
    <3>3. /\ \A p \in 1..Len(users[b])-1 :
                RemoveAt(users[b], d)[p] = IF p < d THEN users[b][p] ELSE users[b][p + 1]
          /\ DOMAIN users[b] = 1..Len(users[b]) /\ Len(users[b]) \in Nat
      BY <2>1, <3>1, RemoveAtPlaces, LenProperties
    <3>4. CASE i < d
      BY <2>3, <3>1, <3>2, <3>3, <3>4
    <3>5. CASE ~(i < d)
      <4>1. users'[h][i] = users[b][i + 1] /\ i + 1 \in DOMAIN users[b]
        BY <3>1, <3>2, <3>3, <3>5
      <4> QED BY <2>3, <4>1
    <3> QED BY <3>4, <3>5
  <2> QED BY <2>2, <2>3
<1>5. CASE Restart
  BY <1>1, <1>5, LoadedOwned DEF Restart
<1> QED BY <1>2, <1>3, <1>4, <1>5
        DEF Next, Client, Call, Begin, CheckName, InsertRow, Find, Read, DeleteRow, Return, Undefined,
            Overwritten, Fail, vars, table

LEMMA LoadKept == [Next]_vars => UNCHANGED load
  BY DEF Next, Client, Call, Begin, CheckName, InsertRow, SelectRow, Find, Read, DeleteRow,
         DeleteUser, Return, Undefined, Restart, Overwritten, Fail, vars

LEMMA TableNext == TypeInv /\ TableOwned /\ [Next]_vars => TableOwned'
<1> SUFFICES ASSUME TypeInv, TableOwned, [Next]_vars,
                    NEW h \in Buckets, NEW i \in DOMAIN users'[h]
             PROVE  Owned(users'[h][i], given') /\ load'.home[users'[h][i].who] = h
  BY DEF TableOwned, Owned
<1>2. \/ Owned(users'[h][i], given) /\ load.home[users'[h][i].who] = h
      \/ \E k \in DOMAIN users[h] : users'[h][i] = users[h][k]
  BY UsersAfter
<1>3. Owned(users'[h][i], given) /\ load.home[users'[h][i].who] = h
  BY <1>2 DEF TableOwned
<1> QED BY <1>3, GivenGrows, LoadKept DEF Owned

\* The calls that a step of client c moves to place x with locals r.
LEMMA OwnStep ==
  ASSUME AnswerInv, NEW c \in Clients,
         (\E a \in Accounts : Call(c, a)) \/ (Client(c) /\ ~DeleteUser(c))
  PROVE  \E x, r : /\ pc' = [pc EXCEPT ![c] = x] /\ call' = [call EXCEPT ![c] = r]
                   /\ Fits(x, r, given, lost)
<1>1. /\ pc \in [Clients -> CallPC] /\ call \in [Clients -> Locals] /\ call[c] \in Locals
      /\ Fits(pc[c], call[c], given, lost)
  BY DEF AnswerInv, TypeInv, TypeOK, CallsFit
<1>2. ASSUME NEW a \in Accounts, Call(c, a)
      PROVE  \E x, r : /\ pc' = [pc EXCEPT ![c] = x] /\ call' = [call EXCEPT ![c] = r]
                       /\ Fits(x, r, given, lost)
  <2>1. PICK o, x : /\ x \in {"contains", "find", "delete row"}
                    /\ pc' = [pc EXCEPT ![c] = x]
                    /\ call' = [call EXCEPT ![c] = [NoCall EXCEPT !.op = o, !.who = a]]
    BY <1>2 DEF Call, Begin
  <2>2. [NoCall EXCEPT !.op = o, !.who = a].answer = NULL
    BY DEF NoCall
  <2> QED BY <2>1, <2>2 DEF Fits
<1>3. CASE CheckName(c)
  <2>1. PICK b, x : /\ x \in {"contains", "insert row", "return", "undefined"}
                    /\ pc' = [pc EXCEPT ![c] = x]
                    /\ call' = call \/ call' = [call EXCEPT ![c].at = b]
    BY <1>3 DEF CheckName, Undefined, Go
  <2>2. PICK r : call' = [call EXCEPT ![c] = r] /\ r.answer = NULL
    <3>1. call[c].answer = NULL /\ [call[c] EXCEPT !.at = b].answer = NULL
      BY <1>1, <1>3 DEF CheckName, Fits, Locals
    <3> QED BY <1>1, <2>1, <3>1
  <2> QED BY <2>1, <2>2 DEF Fits
<1>4. CASE InsertRow(c) \/ SelectRow(c) \/ DeleteRow(c)
  <2>1. PICK x : /\ x \in {"select row", "find", "delete user", "return", "undefined"}
                 /\ pc' = [pc EXCEPT ![c] = x] /\ call' = call
    BY <1>4 DEF InsertRow, SelectRow, DeleteRow, Undefined, Fail, Go
  <2>2. call[c].answer = NULL
    BY <1>1, <1>4 DEF InsertRow, SelectRow, DeleteRow, Fits
  <2> QED BY <1>1, <2>1, <2>2 DEF Fits
<1>5. CASE Find(c)
  <2>0. CASE Undefined(c)
    <3>1. pc' = [pc EXCEPT ![c] = "undefined"] /\ call' = [call EXCEPT ![c] = call[c]]
      BY <1>1, <2>0 DEF Undefined, Go
    <3>2. Fits("undefined", call[c], given, lost)
      BY <1>1, <1>5 DEF Find, Fits
    <3> QED BY <3>1, <3>2
  <2>1. CASE ~Undefined(c)
    <3>1. PICK s \in Seen(load.home[call[c].who]) :
            /\ Ends(load.home[call[c].who])
            /\ call' = [call EXCEPT ![c].found = selectUser(call[c].who, s)]
            /\ Go(c, IF selectUser(call[c].who, s) = NULL THEN "return" ELSE "read")
      BY <1>5, <2>1 DEF Find
    <3> DEFINE u == selectUser(call[c].who, s)
               r == [call[c] EXCEPT !.found = u]
    <3>2. r.found = u /\ r.who = call[c].who /\ r.answer = NULL
      BY <1>1, <1>5 DEF Find, Fits, Locals
    <3>3. u # NULL => u \in User /\ (u.id \in lost \/ (u.who = call[c].who /\ Owned(u, given)))
      <4>1. call[c].who \in Accounts /\ users \in [Buckets -> Seq(User)] /\ TypeOK /\ TableOwned
        BY <1>5 DEF Find, AnswerInv, TypeInv, TypeOK, CallsKnow
      <4>2. load.home[call[c].who] \in Buckets
        BY <3>1 DEF Ends
      <4>3. \A i \in DOMAIN users[load.home[call[c].who]] :
               /\ users[load.home[call[c].who]][i] \in User
               /\ Owned(users[load.home[call[c].who]][i], given)
        BY <4>1, <4>2 DEF TableOwned
      <4> QED BY <4>1, <4>2, <4>3, FoundInChain
    <3>4. /\ pc' = [pc EXCEPT ![c] = IF u = NULL THEN "return" ELSE "read"]
          /\ call' = [call EXCEPT ![c] = r]
      BY <3>1 DEF Go
    <3> HIDE DEF u, r
    <3> QED BY <3>2, <3>3, <3>4 DEF Fits
  <2> QED BY <2>0, <2>1
<1>6. CASE Read(c)
  <2> DEFINE v == IF call[c].found = Garbage \/ call[c].found.id \in lost THEN Garbage
                  ELSE call[c].found.id
             r == [call[c] EXCEPT !.answer = v]
  <2>1. r.answer = v /\ r.who = call[c].who
    BY <1>1 DEF Locals
  <2>2. \/ v \in DOMAIN given /\ given[v] = r.who
        \/ v = Garbage /\ (lost # {} \/ Raced)
    BY <1>1, <1>6, <2>1, UserAssumption DEF Read, Fits, Owned
  <2>3. pc' = [pc EXCEPT ![c] = "return"] /\ call' = [call EXCEPT ![c] = r]
    BY <1>6 DEF Read, Go
  <2> HIDE DEF v, r
  <2>4. Fits("return", r, given, lost)
    BY <2>1, <2>2 DEF Fits
  <2> QED BY <2>3, <2>4
<1>7. CASE Return(c)
  <2>1. Fits("idle", NoCall, given, lost)
    BY DEF NoCall, Fits
  <2> QED BY <1>7, <2>1 DEF Return, Go
<1> QED BY <1>2, <1>3, <1>4, <1>5, <1>6, <1>7 DEF Client

\* A deletion makes garbage of what others have found.
LEMMA DeletedFits == ASSUME AnswerInv, NEW c \in Clients, DeleteUser(c) PROVE CallsFit'
<1>1. /\ call' = call \/ \E u : call' = Dangling(u)
      /\ \E x \in {"return", "undefined"} : pc' = [pc EXCEPT ![c] = x]
      /\ UNCHANGED <<load, given, lost>>
  BY DEF DeleteUser, Undefined, Go, database, strings
<1>2. /\ pc \in [Clients -> CallPC] /\ call \in [Clients -> Locals]
      /\ load.deletes /\ (load.serial => \A d \in Clients : pc[d] # "idle" => d = c)
      /\ load.serial \in BOOLEAN /\ pc[c] = "delete user"
  BY Conditions DEF DeleteUser, AnswerInv, CallsKept, TypeInv, TypeOK
<1> SUFFICES ASSUME NEW d \in Clients PROVE Fits(pc'[d], call'[d], given, lost)
  BY <1>1 DEF CallsFit, Fits, Raced
<1>3. Fits(pc[d], call[d], given, lost)
  BY DEF AnswerInv, CallsFit
<1>4. /\ call'[d].who = call[d].who /\ call'[d].answer = call[d].answer
      /\ \/ call'[d].found = call[d].found
         \/ call'[d].found = Garbage /\ pc[d] = "read"
  BY <1>1, DanglingTyped DEF AnswerInv, TypeInv
<1>5. CASE d = c
  BY <1>1, <1>2, <1>3, <1>4, <1>5 DEF Fits
<1>6. CASE d # c
  <2>1. pc'[d] = pc[d] /\ (pc[d] = "read" => Raced)
    BY <1>1, <1>2, <1>6 DEF Raced
  <2> QED BY <1>3, <1>4, <2>1 DEF Fits
<1> QED BY <1>5, <1>6

LEMMA AnswerNext == AnswerInv /\ [Next]_vars => AnswerInv'
<1> SUFFICES ASSUME AnswerInv, [Next]_vars PROVE CallsFit'
  BY TypesNext, KeptNext, TableNext DEF AnswerInv
<1>0. /\ UNCHANGED load /\ pc \in [Clients -> CallPC] /\ call \in [Clients -> Locals]
      /\ \A d \in Clients : Fits(pc[d], call[d], given', lost)
  BY LoadKept, GivenGrows DEF AnswerInv, TypeInv, TypeOK, CallsFit, Fits, Owned
<1>1. CASE UNCHANGED vars
  BY <1>0, <1>1 DEF CallsFit, Fits, Raced, vars, strings
<1>2. ASSUME NEW c \in Clients, (\E a \in Accounts : Call(c, a)) \/ (Client(c) /\ ~DeleteUser(c))
      PROVE  CallsFit'
  <2>0. UNCHANGED lost
    BY <1>2 DEF Client, Call, Begin, CheckName, InsertRow, SelectRow, Find, Read, DeleteRow, Return,
                Undefined, Fail, strings
  <2>1. PICK x, r : /\ pc' = [pc EXCEPT ![c] = x] /\ call' = [call EXCEPT ![c] = r]
                    /\ Fits(x, r, given, lost)
    BY <1>2, OwnStep
  <2>2. Fits(x, r, given', lost)
    BY <2>1, GivenGrows DEF Fits, Owned, AnswerInv
  <2>3. \A d \in Clients : Fits(pc'[d], call'[d], given', lost')
    BY <1>0, <2>0, <2>1, <2>2
  <2> QED BY <1>0, <2>3 DEF CallsFit, Fits, Raced
<1>3. CASE Overwritten
  <2> SUFFICES ASSUME NEW d \in Clients PROVE Fits(pc[d], call'[d], given, lost')
    BY <1>0, <1>3, OverwrittenTyped DEF CallsFit, Fits, Raced, AnswerInv, TypeInv
  <2>1. /\ Fits(pc[d], call[d], given, lost) /\ lost \subseteq lost' /\ lost' # {}
        /\ call'[d].who = call[d].who /\ call'[d].found = call[d].found
        /\ call'[d].answer = call[d].answer \/ call'[d].answer = Garbage
        /\ call[d].answer = NULL => call'[d].answer = NULL
    BY <1>3, OverwrittenTyped DEF AnswerInv, TypeInv, CallsFit
  <2> QED BY <2>1 DEF Fits
<1>4. CASE Restart
  <2>1. \A d \in Clients : pc'[d] = "idle" /\ pc[d] = "idle" /\ call'[d] = call[d]
    BY <1>4 DEF Restart, Idle
  <2> QED BY <1>0, <2>1 DEF CallsFit, Fits
<1> QED BY <1>1, <1>2, <1>3, <1>4, DeletedFits DEF Next

\* Whatever calls run at once, whatever fails, however chains have been damaged and whatever a
\* comparison reads where strings are lost, addUser and login answer with an id the database
\* gave to the account they were called with, or with garbage: that only after strings were
\* lost, or when deletions run beside other calls.
THEOREM AnswersOwn == Spec => []AnswerIsOwn
<1>1. Init => AnswerInv
  <2> SUFFICES ASSUME Init PROVE AnswerInv
    OBVIOUS
  <2>1. CallsFit
    BY DEF Init, CallsFit, Fits, NoCall
  <2>2. TableOwned
    BY TypesInit, LoadedOwned DEF Init, TableOwned, TypeInv, TypeOK
  <2> QED BY <2>1, <2>2, TypesInit, KeptInit DEF AnswerInv
<1>2. AnswerInv => AnswerIsOwn
  BY DEF AnswerInv, CallsFit, Fits, Raced, AnswerIsOwn
<1> QED BY <1>1, <1>2, AnswerNext, PTL DEF Spec

-----------------------------------------------------------------------------
(* Names *)

RowsOnce == \A i, j \in rows : Name(given[i]) = Name(given[j]) => i = j

Once(chains) ==
  \A h, k \in Buckets : \A i \in DOMAIN chains[h], j \in DOMAIN chains[k] :
    Name(chains[h][i].who) = Name(chains[k][j].who) => h = k /\ i = j

Unheard(chains, a) ==
  \A h \in Buckets : \A i \in DOMAIN chains[h] : Name(chains[h][i].who) # Name(a)

\* An addUser between its two statements knows that its row is there, that its name is not
\* yet in the table, and that no other addUser is about to put it there.
Inserting ==
  \A c \in Clients : pc[c] = "select row" =>
    /\ Unheard(users, call[c].who)
    /\ \E i \in rows : given[i] = call[c].who
    /\ \A d \in Clients : pc[d] = "select row" /\ d # c => Name(call[d].who) # Name(call[c].who)

\* What containsUsername has seen is still true, if nobody else is at work and it could read
\* the names ...
Checked ==
  \A c \in Clients :
    /\ pc[c] = "contains" =>
         \A h \in 0..call[c].at-1 : \A i \in DOMAIN users[h] :
            Name(users[h][i].who) # Name(call[c].who)
    /\ pc[c] = "insert row" => Unheard(users, call[c].who)

\* ... and without deletions the database knows the name of any user there is.
Backed == \A h \in Buckets : \A i \in DOMAIN users[h] : users[h][i].id \in rows

\* Conditions under which names stay apart: the database sees to it, or every row has a user
\* in which containsUsername sees the name.
NamesKept ==
  /\ ~load.deletes \/ (load.serial /\ ~spoilt)
  /\ load.unique \/ (load.serial /\ ~load.fails /\ ~spoilt /\ (load.deletes => Apart))

NameFacts == /\ RowsOnce /\ Once(users) /\ Inserting
             /\ load.serial /\ ~spoilt => Checked
             /\ ~load.deletes => Backed

NamesInv == TypeInv /\ CallsKept /\ TableOwned /\ (NamesKept => NameFacts)

\* Conditions under which the table is a copy of the database (Fair, but for missed), as long
\* as no call has become undefined.
CopyKept ==
  /\ load.unique \/ (load.serial /\ ~load.fails /\ ~spoilt)
  /\ ~load.deletes \/ (load.serial /\ Apart /\ ~spoilt)
  /\ Defined

\* Every row has its user, or an addUser is about to put it into the table.
Present ==
  \A i \in rows : \/ \E h \in Buckets : \E k \in DOMAIN users[h] : users[h][k].id = i
                  \/ \E c \in Clients : pc[c] = "select row" /\ call[c].who = given[i]

\* Every user has its row, or a deleteUser is about to take it out.
Vouched ==
  \A h \in Buckets : \A k \in DOMAIN users[h] :
     \/ users[h][k].id \in rows
     \/ \E c \in Clients : pc[c] = "delete user" /\ call[c].who = users[h][k].who

\* The rows of an account that is being deleted have gone.
Gone == \A c \in Clients : pc[c] = "delete user" => \A i \in rows : given[i] # call[c].who

CopyFacts == (~missed => Present) /\ Vouched /\ Gone

CopyInv == NamesInv /\ (missed => load.fails) /\ (CopyKept => CopyFacts)

\* Strings once lost and calls once undefined stay so.
LEMMA NothingMended ==
  ASSUME TypeInv, [Next]_vars
  PROVE  (UNCHANGED spoilt \/ spoilt') /\ (Defined' => Defined)
<1>1. UNCHANGED spoilt \/ spoilt'
  BY DEF Next, Client, Call, Begin, CheckName, InsertRow, SelectRow, Find, Read, DeleteRow,
         DeleteUser, Return, Undefined, Restart, Overwritten, Fail, vars, strings
<1>2. Defined' => Defined
  BY DEF Next, Client, Call, Begin, CheckName, InsertRow, SelectRow, Find, Read, DeleteRow,
         DeleteUser, Return, Restart, Overwritten, vars, Defined
<1> QED BY <1>1, <1>2

LEMMA SameOnce == ASSUME Once(users), UNCHANGED users PROVE Once(users)'
<1> SUFFICES ASSUME NEW h \in Buckets, NEW k \in Buckets,
                    NEW i \in DOMAIN users[h], NEW j \in DOMAIN users[k],
                    Name(users[h][i].who) = Name(users[k][j].who)
             PROVE  h = k /\ i = j
  BY DEF Once
<1> QED BY DEF Once

LEMMA LoadedOnce ==
  ASSUME TypeOK, RowsOnce PROVE Once(Loaded)
<1> SUFFICES ASSUME NEW h \in Buckets, NEW k \in Buckets,
                    NEW i \in DOMAIN Loaded[h], NEW j \in DOMAIN Loaded[k],
                    Name(Loaded[h][i].who) = Name(Loaded[k][j].who)
             PROVE  h = k /\ i = j
  BY DEF Once
<1> DEFINE ids(b) == {x \in rows : load.home[given[x]] = b}
<1>1. given \in Seq(Accounts) /\ \A b \in Buckets : ids(b) \subseteq DOMAIN given
  BY DEF TypeOK
<1>2. Loaded[h] = Fetched(ids(h)) /\ Loaded[k] = Fetched(ids(k))
  BY DEF Loaded
<1> HIDE DEF ids
<1>3. \A b \in Buckets : \A p \in DOMAIN Fetched(ids(b)) :
        Fetched(ids(b))[p].id \in ids(b) /\ Fetched(ids(b))[p].who = given[Fetched(ids(b))[p].id]
  BY <1>1, FetchedRows
<1> DEFINE u == Loaded[h][i]
           v == Loaded[k][j]
<1>4. u.id = v.id /\ h = k
  <2>1. u.id \in ids(h) /\ u.who = given[u.id] /\ v.id \in ids(k) /\ v.who = given[v.id]
    BY <1>2, <1>3
  <2>2. /\ u.id \in rows /\ load.home[given[u.id]] = h
        /\ v.id \in rows /\ load.home[given[v.id]] = k
    BY <2>1 DEF ids
  <2> QED BY <2>1, <2>2 DEF RowsOnce
<1> QED BY <1>1, <1>2, <1>4, FetchedRows

LEMMA LoadedBacked ==
  ASSUME TypeOK PROVE \A h \in Buckets : \A i \in DOMAIN Loaded[h] : Loaded[h][i].id \in rows
<1> SUFFICES ASSUME NEW h \in Buckets, NEW i \in DOMAIN Loaded[h] PROVE Loaded[h][i].id \in rows
  OBVIOUS
<1> DEFINE ids == {x \in rows : load.home[given[x]] = h}
<1>1. Loaded[h] = Fetched(ids) /\ ids \subseteq DOMAIN given /\ given \in Seq(Accounts)
  BY DEF Loaded, TypeOK
<1> QED BY <1>1, FetchedRows

LEMMA ShrunkOnce ==
  ASSUME TypeOK, Once(users), NEW b \in Buckets, NEW d \in 1..Len(users[b])
  PROVE  Once([users EXCEPT ![b] = RemoveAt(users[b], d)])
<1> DEFINE s == users[b]
           t == [users EXCEPT ![b] = RemoveAt(s, d)]
           was(h, i) == IF h = b /\ i >= d THEN i + 1 ELSE i
<1>1. users \in [Buckets -> Seq(User)] /\ s \in Seq(User)
  BY DEF TypeOK
<1>2. /\ RemoveAt(s, d) \in Seq(User) /\ Len(RemoveAt(s, d)) = Len(s) - 1
      /\ \A p \in 1..Len(s)-1 : RemoveAt(s, d)[p] = IF p < d THEN s[p] ELSE s[p + 1]
      /\ DOMAIN s = 1..Len(s) /\ DOMAIN RemoveAt(s, d) = 1..Len(s)-1 /\ Len(s) \in Nat
  BY <1>1, RemoveAtPlaces, LenProperties
<1>3. ASSUME NEW h \in Buckets, NEW i \in DOMAIN t[h]
      PROVE  i \in Nat /\ was(h, i) \in DOMAIN users[h] /\ t[h][i] = users[h][was(h, i)]
  <2>1. CASE h # b
    BY <1>1, <1>3, <2>1, LenProperties
  <2>2. CASE h = b
    <3>1. i \in 1..Len(s)-1 /\ t[h][i] = RemoveAt(s, d)[i]
      BY <1>1, <1>2, <1>3, <2>2
    <3>2. CASE i < d
      BY <1>2, <2>2, <3>1, <3>2
    <3>3. CASE ~(i < d)
      BY <1>2, <2>2, <3>1, <3>3
    <3> QED BY <3>2, <3>3
  <2> QED BY <2>1, <2>2
<1> HIDE DEF t
<1>4. ASSUME NEW h \in Buckets, NEW k \in Buckets, NEW i \in DOMAIN t[h], NEW j \in DOMAIN t[k],
             Name(t[h][i].who) = Name(t[k][j].who)
      PROVE  h = k /\ i = j
  <2>1. h = k /\ was(h, i) = was(k, j)
    BY <1>3, <1>4 DEF Once
  <2> QED BY <1>3, <2>1
<1>5. Once(t)
  BY <1>4 DEF Once
<1> QED BY <1>5 DEF t

\* The statement of addUser that reads the row back puts one user into the table.
LEMMA GrownOnce ==
  ASSUME TypeOK, RowsOnce, Once(users), NEW a \in Accounts, load.home[a] \in Buckets,
         Unheard(users, a), NEW t,
         t = insertUsers(a, Fetched({x \in rows : given[x] = a}))
  PROVE  /\ Once(t)
         /\ \A h \in Buckets : \A i \in DOMAIN t[h] :
              \/ i \in DOMAIN users[h] /\ t[h][i] = users[h][i]
              \/ Name(t[h][i].who) = Name(a) /\ t[h][i].id \in rows
<1> DEFINE ids == {x \in rows : given[x] = a}
           new == Fetched(ids)
           b == load.home[a]
<1>1. users \in [Buckets -> Seq(User)] /\ b \in Buckets
  BY DEF TypeOK
<1>2. /\ new \in Seq(User) /\ \A p \in DOMAIN new : new[p].id \in ids /\ new[p].who = given[new[p].id]
      /\ \A p, q \in DOMAIN new : new[p].id = new[q].id => p = q
  BY FetchedRows DEF TypeOK
<1>3. \A p \in DOMAIN new : new[p].who = a /\ new[p].id \in rows
  BY <1>2
<1>4. \A p, q \in DOMAIN new : p = q
  BY <1>2 DEF RowsOnce
<1>5. t = [users EXCEPT ![b] = users[b] \o new]
  BY DEF insertUsers
<1> HIDE DEF ids, new, b
<1>6. DOMAIN new = 1..Len(new) /\ Len(new) \in Nat
  BY <1>2, LenProperties
<1>7. ASSUME NEW h \in Buckets, NEW i \in DOMAIN t[h]
      PROVE  \/ i \in DOMAIN users[h] /\ t[h][i] = users[h][i]
             \/ h = b /\ i = Len(users[b]) + 1 /\ t[h][i].who = a /\ t[h][i].id \in rows
  <2>1. CASE h # b
    BY <1>1, <1>5, <1>7, <2>1
  <2>2. CASE h = b
    <3>1. /\ t[h] = users[b] \o new /\ users[b] \in Seq(User)
          /\ DOMAIN users[b] = 1..Len(users[b]) /\ Len(users[b]) \in Nat
      BY <1>1, <1>5, <2>2, LenProperties
    <3>2. \/ i \in DOMAIN users[b] /\ t[h][i] = users[b][i]
          \/ i - Len(users[b]) \in DOMAIN new /\ t[h][i] = new[i - Len(users[b])] /\ i \in Int
      <4>1. /\ DOMAIN t[h] = 1..Len(users[b]) + Len(new)
            /\ \A p \in 1..Len(users[b]) : t[h][p] = users[b][p]
            /\ \A p \in 1..Len(new) : t[h][Len(users[b]) + p] = new[p]
        BY <1>2, <1>6, <3>1, ConcatProperties, LenProperties
      <4>2. \/ i \in 1..Len(users[b])
            \/ i - Len(users[b]) \in 1..Len(new) /\ i \in Int
        BY <1>6, <1>7, <3>1, <4>1
      <4>3. ASSUME i - Len(users[b]) \in 1..Len(new), i \in Int
            PROVE  t[h][i] = new[i - Len(users[b])]
        <5>1. Len(users[b]) + (i - Len(users[b])) = i
          BY <3>1, <4>3
        <5> QED BY <4>1, <4>3, <5>1
      <4> QED BY <1>6, <3>1, <4>1, <4>2, <4>3
    <3>3. ASSUME i - Len(users[b]) \in DOMAIN new, i \in Int PROVE i = Len(users[b]) + 1
      <4>1. 1 \in DOMAIN new
        BY <1>6, <3>3
      <4>2. i - Len(users[b]) = 1
        BY <1>4, <3>3, <4>1
      <4> QED BY <3>1, <3>3, <4>2
    <3> QED BY <1>3, <2>2, <3>2, <3>3
  <2> QED BY <2>1, <2>2
<1>8. Once(t)
  <2> SUFFICES ASSUME NEW h \in Buckets, NEW k \in Buckets,
                      NEW i \in DOMAIN t[h], NEW j \in DOMAIN t[k],
                      Name(t[h][i].who) = Name(t[k][j].who)
               PROVE  h = k /\ i = j
    BY DEF Once
  <2> DEFINE old(g, n) == n \in DOMAIN users[g] /\ t[g][n] = users[g][n]
             added(g, n) == g = b /\ n = Len(users[b]) + 1 /\ t[g][n].who = a
  <2>1. (old(h, i) \/ added(h, i)) /\ (old(k, j) \/ added(k, j))
    BY <1>7
  <2>2. CASE old(h, i) /\ old(k, j)
    BY <2>2 DEF Once
  <2>3. CASE added(h, i) /\ added(k, j)
    BY <2>3
  <2>4. ~(old(h, i) /\ added(k, j)) /\ ~(added(h, i) /\ old(k, j))
    BY DEF Unheard
  <2> QED BY <2>1, <2>2, <2>3, <2>4
<1> QED BY <1>7, <1>8

Unseen(a, n) == \A h \in 0..n-1 : \A i \in DOMAIN users[h] : Name(users[h][i].who) # Name(a)

\* What holds of a call that a step takes to place x with locals l.
Arrives(x, l) ==
  /\ x # "select row"
  /\ load.serial /\ ~spoilt /\ x = "contains" => Unseen(l.who, l.at)
  /\ load.serial /\ ~spoilt /\ x = "insert row" => Unheard(users, l.who)

\* A step of one call that leaves table and database alone.
LEMMA NamesQuiet ==
  ASSUME NamesInv, NamesKept, NEW c \in Clients, NEW x, NEW l,
         pc' = [pc EXCEPT ![c] = x], call' = [call EXCEPT ![c] = l],
         UNCHANGED <<load, given, rows, users, spoilt>>, Arrives(x, l)
  PROVE  NameFacts'
<1>1. pc \in [Clients -> CallPC] /\ call \in [Clients -> Locals] /\ NameFacts
  BY DEF NamesInv, TypeInv, TypeOK
<1>2. \A d \in Clients : d # c => pc'[d] = pc[d] /\ call'[d] = call[d]
  BY <1>1
<1>3. pc'[c] = x /\ call'[c] = l
  BY <1>1
<1>4. RowsOnce'
  BY <1>1 DEF NameFacts, RowsOnce
<1>5. Once(users)'
  BY <1>1, SameOnce DEF NameFacts
<1>6. ~load.deletes => Backed'
  BY <1>1 DEF NameFacts, Backed
<1>7. Inserting'
  <2> SUFFICES ASSUME NEW d \in Clients, pc'[d] = "select row"
               PROVE  /\ Unheard(users, call[d].who)'
                      /\ \E i \in rows' : given'[i] = call'[d].who
                      /\ \A e \in Clients : pc'[e] = "select row" /\ e # d =>
                           Name(call'[e].who) # Name(call'[d].who)
    BY DEF Inserting
  <2>1. d # c /\ pc[d] = "select row" /\ call'[d] = call[d]
    BY <1>2, <1>3 DEF Arrives
  <2>2. /\ Unheard(users, call[d].who) /\ \E i \in rows : given[i] = call[d].who
        /\ \A e \in Clients : pc[e] = "select row" /\ e # d => Name(call[e].who) # Name(call[d].who)
    BY <1>1, <2>1 DEF NameFacts, Inserting
  <2>3. Unheard(users, call[d].who)'
    BY <2>1, <2>2 DEF Unheard
  <2> QED BY <1>2, <1>3, <2>1, <2>2, <2>3 DEF Arrives
<1>8. load.serial /\ ~spoilt => Checked'
  <2> SUFFICES ASSUME load.serial, ~spoilt, NEW d \in Clients
               PROVE  /\ pc'[d] = "contains" => Unseen(call'[d].who, call'[d].at)
                      /\ pc'[d] = "insert row" => Unheard(users, call'[d].who)
    BY DEF Checked, Unheard, Unseen
  <2>1. CASE d = c
    BY <1>3, <2>1 DEF Arrives
  <2>2. CASE d # c
    <3>1. pc'[d] = pc[d] /\ call'[d] = call[d] /\ Checked
      BY <1>1, <1>2, <2>2 DEF NameFacts
    <3> QED BY <3>1 DEF Checked, Unseen
  <2> QED BY <2>1, <2>2
<1> QED BY <1>4, <1>5, <1>6, <1>7, <1>8 DEF NameFacts

LEMMA NamesCall ==
  ASSUME NamesInv, NamesKept, NEW c \in Clients, NEW a \in Accounts, Call(c, a) PROVE NameFacts'
<1>1. PICK o, x : /\ x \in {"contains", "find", "delete row"}
                  /\ pc' = [pc EXCEPT ![c] = x]
                  /\ call' = [call EXCEPT ![c] = [NoCall EXCEPT !.op = o, !.who = a]]
                  /\ UNCHANGED <<load, given, rows, users, spoilt>>
  BY DEF Call, Begin, database, table, strings
<1> DEFINE l == [NoCall EXCEPT !.op = o, !.who = a]
<1>2. l.at = 0
  BY DEF NoCall
<1> HIDE DEF l
<1>3. Arrives(x, l)
  <2>1. Unseen(l.who, l.at)
    BY <1>2 DEF Unseen
  <2> QED BY <1>1, <2>1 DEF Arrives
<1> QED BY <1>1, <1>3, NamesQuiet DEF l

\* What containsUsername knows after one more bucket, and after the last one.
LEMMA UnseenNext ==
  ASSUME NEW a, NEW n \in Nat, lost = {}, NEW s \in Seen(n), Unseen(a, n), ~Named(a, s)
  PROVE  Unseen(a, n + 1)
<1> SUFFICES ASSUME NEW h \in 0..n, NEW i \in DOMAIN users[h]
             PROVE  Name(users[h][i].who) # Name(a)
  BY DEF Unseen
<1>1. CASE h = n
  <2>1. i \in DOMAIN s /\ s[i] = users[n][i].who
    BY <1>1, SeenAs
  <2> QED BY <1>1, <2>1 DEF Named
<1>2. CASE h # n
  BY <1>2 DEF Unseen
<1> QED BY <1>1, <1>2

LEMMA UnseenAll ==
  ASSUME NEW a, Unseen(a, LastHome + 1) PROVE Unheard(users, a)
BY UserAssumption DEF Unseen, Unheard, Buckets

LEMMA NamesLookups ==
  ASSUME NamesInv, NamesKept, NEW c \in Clients,
         \/ CheckName(c) \/ Find(c) \/ Read(c) \/ Return(c) \/ Undefined(c)
         \/ Fail(c) /\ UNCHANGED <<given, rows>>
  PROVE  NameFacts'
<1>1. /\ pc \in [Clients -> CallPC] /\ call \in [Clients -> Locals] /\ call[c] \in Locals
      /\ NameFacts /\ call = [call EXCEPT ![c] = call[c]]
  BY DEF NamesInv, TypeInv, TypeOK
<1>2. ASSUME NEW x \in {"return", "read", "idle", "undefined"}, NEW l,
             pc' = [pc EXCEPT ![c] = x], call' = [call EXCEPT ![c] = l],
             UNCHANGED <<load, given, rows, users, spoilt>>
      PROVE  NameFacts'
  <2>1. Arrives(x, l)
    BY <1>2 DEF Arrives
  <2> QED BY <1>2, <2>1, NamesQuiet
<1>3. CASE CheckName(c)
  <2> DEFINE h == call[c].at
             a == call[c].who
  <2>1. h \in 0..LastHome /\ LastHome \in Nat
    BY <1>1, UserAssumption DEF Locals, Buckets
  <2>2. UNCHANGED <<load, given, rows, users, spoilt>>
    BY <1>3 DEF CheckName, Undefined, database, table, strings
  <2>3. PICK s \in Seen(h) :
          \/ \E x \in {"return", "undefined"} : Go(c, x) /\ UNCHANGED call
          \/ /\ ~Named(a, s)
             /\ call' = [call EXCEPT ![c].at = IF More(h) THEN h + 1 ELSE 0]
             /\ Go(c, IF More(h) THEN "contains" ELSE "insert row")
    BY <1>3 DEF CheckName, Undefined
  <2>4. CASE \E x \in {"return", "undefined"} : Go(c, x) /\ UNCHANGED call
    BY <1>1, <1>2, <2>2, <2>4 DEF Go
  <2>5. CASE /\ ~Named(a, s)
             /\ call' = [call EXCEPT ![c].at = IF More(h) THEN h + 1 ELSE 0]
             /\ Go(c, IF More(h) THEN "contains" ELSE "insert row")
    <3>1. load.serial /\ ~spoilt => Unseen(a, h + 1)
      <4>1. load.serial /\ ~spoilt => Unseen(a, h) /\ lost = {}
        BY <1>1, <1>3 DEF CheckName, NameFacts, Checked, Unseen, NamesInv, TypeInv
      <4>2. s \in Seen(h) /\ ~Named(a, s)
        BY <2>5
      <4>3. h \in Nat
        <5> HIDE DEF h
        <5> QED BY <2>1
      <4> HIDE DEF h, a
      <4> QED BY <4>1, <4>2, <4>3, UnseenNext
    <3> DEFINE l(b) == [call[c] EXCEPT !.at = b]
    <3>2. \A b : l(b).at = b /\ l(b).who = a
      BY <1>1 DEF Locals
    <3>3. CASE More(h)
      <4>1. pc' = [pc EXCEPT ![c] = "contains"] /\ call' = [call EXCEPT ![c] = l(h + 1)]
        BY <2>5, <3>3 DEF Go
      <4> HIDE DEF l
      <4>2. Arrives("contains", l(h + 1))
        BY <3>1, <3>2 DEF Arrives
      <4> QED BY <2>2, <4>1, <4>2, NamesQuiet
    <3>4. CASE ~More(h)
      <4>1. pc' = [pc EXCEPT ![c] = "insert row"] /\ call' = [call EXCEPT ![c] = l(0)]
        BY <2>5, <3>4 DEF Go
      <4>2. h = LastHome
        BY <2>1, <3>4 DEF More
      <4>3. load.serial /\ ~spoilt => Unheard(users, a)
        BY <3>1, <4>2, UnseenAll
      <4> HIDE DEF l
      <4>4. Arrives("insert row", l(0))
        BY <3>2, <4>3 DEF Arrives
      <4> QED BY <2>2, <4>1, <4>4, NamesQuiet
    <3> QED BY <3>3, <3>4
  <2> QED BY <2>3, <2>4, <2>5
<1>4. CASE \/ Find(c) \/ Read(c) \/ Return(c) \/ Undefined(c)
           \/ Fail(c) /\ UNCHANGED <<given, rows>>
  <2>1. /\ \E x \in {"return", "read", "idle", "undefined"} : pc' = [pc EXCEPT ![c] = x]
        /\ call' = call \/ \E l : call' = [call EXCEPT ![c] = l]
        /\ UNCHANGED <<load, given, rows, users, spoilt>>
    BY <1>4 DEF Find, Read, Return, Undefined, Fail, Go, database, table, strings
  <2> QED BY <1>1, <1>2, <2>1
<1> QED BY <1>3, <1>4

\* The database refuses a name it has; one that accepts it has no row that containsUsername,
\* which saw no user of the name, did not see.
LEMMA NameIsNew ==
  ASSUME CopyInv, NamesKept, Defined, NEW c \in Clients, pc[c] = "insert row",
         ~Taken(call[c].who)
  PROVE  \A i \in rows : Name(given[i]) # Name(call[c].who)
<1>1. CASE load.unique
  BY <1>1 DEF Taken
<1>2. CASE ~load.unique
  <2>1. load.serial /\ ~missed /\ CopyKept
    BY <1>2 DEF NamesKept, CopyKept, CopyInv
  <2>2. Present /\ TableOwned /\ CallsKept /\ Checked
    BY <1>2, <2>1 DEF CopyInv, CopyFacts, NamesInv, NameFacts, NamesKept
  <2> SUFFICES ASSUME NEW i \in rows PROVE Name(given[i]) # Name(call[c].who)
    OBVIOUS
  <2>3. ~\E d \in Clients : pc[d] = "select row"
    BY <2>1, <2>2 DEF CallsKept
  <2>4. PICK h \in Buckets : \E k \in DOMAIN users[h] : users[h][k].id = i
    BY <2>2, <2>3 DEF Present
  <2>5. PICK k \in DOMAIN users[h] : users[h][k].id = i
    BY <2>4
  <2>6. given[i] = users[h][k].who
    <3>1. Owned(users[h][k], given)
      BY <2>2 DEF TableOwned
    <3> QED BY <2>5, <3>1 DEF Owned
  <2>7. Name(users[h][k].who) # Name(call[c].who)
    BY <2>2 DEF Checked, Unheard
  <2> QED BY <2>6, <2>7
<1> QED BY <1>1, <1>2

\* The name of a new row is in no user either.
LEMMA NamesInsert ==
  ASSUME CopyInv, NamesKept, NEW c \in Clients, InsertRow(c) PROVE NameFacts'
<1> DEFINE a == call[c].who
<1>1. /\ pc \in [Clients -> CallPC] /\ given \in Seq(Accounts) /\ rows \subseteq DOMAIN given
      /\ a \in Accounts /\ NameFacts /\ pc[c] = "insert row" /\ Defined
  BY DEF InsertRow, CopyInv, NamesInv, TypeInv, TypeOK, CallsKnow
<1>2. CASE Taken(a) \/ UNCHANGED <<given, rows>>
  <2>1. /\ pc' = [pc EXCEPT ![c] = "return"] /\ call' = [call EXCEPT ![c] = call[c]]
        /\ UNCHANGED <<load, given, rows, users, spoilt>>
    <3>1. call = [call EXCEPT ![c] = call[c]]
      BY DEF CopyInv, NamesInv, TypeInv, TypeOK
    <3>2. Append(given, a) # given
      <4>1. Len(Append(given, a)) = Len(given) + 1 /\ Len(given) \in Nat
        BY <1>1, AppendProperties, LenProperties
      <4> QED BY <4>1
    <3> QED BY <1>2, <3>1, <3>2 DEF InsertRow, Fail, Go, database, strings
  <2> QED BY <2>1, NamesQuiet DEF Arrives, CopyInv
<1>3. CASE ~Taken(a) /\ ~UNCHANGED <<given, rows>>
  <2> DEFINE n == Len(given) + 1
  <2>1. /\ given' = Append(given, a) /\ rows' = rows \cup {Len(given')}
        /\ pc' = [pc EXCEPT ![c] = "select row"] /\ UNCHANGED <<load, users, call, spoilt>>
    BY <1>3 DEF InsertRow, Fail, Go, database, strings
  <2>2. /\ rows' = rows \cup {n} /\ given'[n] = a
        /\ \A i \in rows : given'[i] = given[i]
    <3>1. /\ Len(Append(given, a)) = n /\ Append(given, a)[n] = a
          /\ \A i \in 1..Len(given) : Append(given, a)[i] = given[i]
          /\ rows \subseteq 1..Len(given)
      <4>1. given \in Seq(Accounts) /\ a \in Accounts /\ rows \subseteq DOMAIN given
        BY <1>1
      <4> HIDE DEF a
      <4> QED BY <4>1, AppendProperties, LenProperties
    <3> HIDE DEF n, a
    <3> QED BY <2>1, <3>1
  <2>3. \A i \in rows : Name(given[i]) # Name(a)
    BY <1>1, <1>3, NameIsNew
  <2>4. Unheard(users, a)
    <3>1. load.deletes => Unheard(users, a)
      BY <1>1 DEF NameFacts, Checked, NamesKept
    <3>2. ~load.deletes => Unheard(users, a)
      <4> SUFFICES ASSUME ~load.deletes, NEW h \in Buckets, NEW i \in DOMAIN users[h]
                   PROVE  Name(users[h][i].who) # Name(a)
        BY DEF Unheard
      <4>1. users[h][i].id \in rows
        BY <1>1 DEF NameFacts, Backed
      <4>2. Owned(users[h][i], given)
        BY DEF CopyInv, NamesInv, TableOwned
      <4> QED BY <2>3, <4>1, <4>2 DEF Owned
    <3> QED BY <3>1, <3>2
  <2>5. \A d \in Clients : pc'[d] = "select row" => d = c \/ pc[d] = "select row"
    BY <1>1, <2>1
  <2>6. RowsOnce'
    <3> SUFFICES ASSUME NEW i \in rows', NEW j \in rows', Name(given'[i]) = Name(given'[j])
                 PROVE  i = j
      BY DEF RowsOnce
    <3>1. (i \in rows \/ i = n) /\ (j \in rows \/ j = n)
      BY <2>2
    <3>2. \A x, y \in rows : Name(given[x]) = Name(given[y]) => x = y
      BY <1>1 DEF NameFacts, RowsOnce
    <3> QED BY <2>2, <2>3, <3>1, <3>2
  <2>7. ASSUME NEW d \in Clients, pc[d] = "select row"
        PROVE  /\ Name(call[d].who) # Name(a) /\ Unheard(users, call[d].who)
               /\ \E i \in rows' : given'[i] = call[d].who
    <3>1. PICK i \in rows : given[i] = call[d].who
      BY <1>1, <2>7 DEF NameFacts, Inserting
    <3>2. i \in rows' /\ given'[i] = call[d].who /\ Name(call[d].who) # Name(a)
      BY <2>2, <2>3, <3>1
    <3>3. Unheard(users, call[d].who)
      BY <1>1, <2>7 DEF NameFacts, Inserting
    <3> QED BY <3>2, <3>3
  <2> HIDE DEF n, a
  <2>8. Inserting'
    <3> SUFFICES ASSUME NEW d \in Clients, pc'[d] = "select row"
                 PROVE  /\ Unheard(users, call[d].who)'
                        /\ \E i \in rows' : given'[i] = call'[d].who
                        /\ \A e \in Clients : pc'[e] = "select row" /\ e # d =>
                             Name(call'[e].who) # Name(call'[d].who)
      BY DEF Inserting
    <3>1. call' = call /\ users' = users
      BY <2>1
    <3>2. CASE d = c
      BY <2>2, <2>4, <2>5, <2>7, <3>1, <3>2 DEF Unheard, a
    <3>3. CASE d # c
      <4>1. pc[d] = "select row"
        BY <2>5, <3>3
      <4>2. \A e \in Clients : pc'[e] = "select row" /\ e # d => Name(call[e].who) # Name(call[d].who)
        BY <1>1, <2>5, <2>7, <4>1 DEF NameFacts, Inserting, a
      <4> QED BY <2>7, <3>1, <4>1, <4>2 DEF Unheard
    <3> QED BY <3>2, <3>3
  <2>9. load.serial /\ ~spoilt => Checked'
    <3> SUFFICES ASSUME load.serial, ~spoilt, NEW d \in Clients
                 PROVE  /\ pc'[d] = "contains" => Unseen(call'[d].who, call'[d].at)
                        /\ pc'[d] = "insert row" => Unheard(users, call'[d].who)
      BY <2>1 DEF Checked, Unheard, Unseen
    <3>1. pc'[d] \in {"contains", "insert row"} => pc'[d] = pc[d]
      BY <1>1, <2>1
    <3>2. /\ pc[d] = "contains" => Unseen(call[d].who, call[d].at)
          /\ pc[d] = "insert row" => Unheard(users, call[d].who)
      BY <1>1 DEF NameFacts, Checked, Unseen
    <3> QED BY <2>1, <3>1, <3>2
  <2>10. ~load.deletes => Backed'
    BY <1>1, <2>1 DEF NameFacts, Backed
  <2>11. Once(users)'
    BY <1>1, <2>1, SameOnce DEF NameFacts
  <2> QED BY <2>1, <2>6, <2>8, <2>9, <2>10, <2>11 DEF NameFacts
<1> QED BY <1>2, <1>3

\* How addUser's statement that reads its row back ends.
LEMMA SelectEnds ==
  ASSUME TypeInv, Inserting, NEW c \in Clients, SelectRow(c)
  PROVE  \/ /\ load.home[call[c].who] \in Buckets
            /\ users' = insertUsers(call[c].who, Fetched({x \in rows : given[x] = call[c].who}))
            /\ pc' = [pc EXCEPT ![c] = "find"]
            /\ UNCHANGED <<load, given, rows, call, lost, spoilt, missed>>
         \/ Undefined(c)
         \/ Fail(c) /\ missed'
<1> DEFINE ids == {x \in rows : given[x] = call[c].who}
<1>1. Fetched(ids) # <<>>
  <2>1. given \in Seq(Accounts) /\ ids \subseteq DOMAIN given
    BY DEF TypeInv, TypeOK
  <2>2. ids # {}
    BY DEF SelectRow, Inserting
  <2> HIDE DEF ids
  <2>3. \E p \in DOMAIN Fetched(ids) : TRUE
    BY <2>1, <2>2, FetchedRows
  <2> QED BY <2>3
<1> QED BY <1>1 DEF SelectRow, Ends, Go, database, strings

LEMMA NamesSelect ==
  ASSUME NamesInv, NamesKept, NEW c \in Clients, SelectRow(c) PROVE NameFacts'
<1> DEFINE a == call[c].who
           t == insertUsers(a, Fetched({x \in rows : given[x] = a}))
<1>1. /\ pc \in [Clients -> CallPC] /\ call \in [Clients -> Locals] /\ TypeInv
      /\ a \in Accounts /\ NameFacts /\ pc[c] = "select row" /\ TypeOK
  BY DEF SelectRow, NamesInv, TypeInv, TypeOK, CallsKnow
<1>2. CASE Undefined(c) \/ Fail(c)
  <2>1. UNCHANGED <<given, rows>>
    BY <1>2 DEF Undefined, Fail, database
  <2> QED BY <1>2, <2>1, NamesLookups
<1>3. CASE ~Undefined(c) /\ ~Fail(c)
  <2>1. /\ users' = t /\ pc' = [pc EXCEPT ![c] = "find"] /\ load.home[a] \in Buckets
        /\ UNCHANGED <<load, given, rows, call, spoilt>>
    BY <1>1, <1>3, SelectEnds DEF NameFacts
  <2>2. /\ Unheard(users, a)
        /\ \A d \in Clients : pc[d] = "select row" /\ d # c => Name(call[d].who) # Name(a)
    BY <1>1 DEF NameFacts, Inserting
  <2>3. /\ Once(t)
        /\ \A h \in Buckets : \A i \in DOMAIN t[h] :
             \/ i \in DOMAIN users[h] /\ t[h][i] = users[h][i]
             \/ Name(t[h][i].who) = Name(a) /\ t[h][i].id \in rows
    BY <1>1, <2>1, <2>2, GrownOnce DEF NameFacts
  <2>4. \A d \in Clients : d # c => pc'[d] = pc[d]
    BY <1>1, <2>1
  <2>5. pc'[c] = "find"
    BY <1>1, <2>1
  <2> HIDE DEF t, a
  <2>6. RowsOnce' /\ Once(users)'
    <3>1. Once(users')
      BY <2>1, <2>3
    <3>2. Once(users)'
      BY <3>1 DEF Once
    <3>3. RowsOnce'
      BY <1>1, <2>1 DEF NameFacts, RowsOnce
    <3> QED BY <3>2, <3>3
  <2>7. Inserting'
    <3> SUFFICES ASSUME NEW d \in Clients, pc'[d] = "select row"
                 PROVE  /\ Unheard(users, call[d].who)'
                        /\ \E i \in rows' : given'[i] = call'[d].who
                        /\ \A e \in Clients : pc'[e] = "select row" /\ e # d =>
                             Name(call'[e].who) # Name(call'[d].who)
      BY DEF Inserting
    <3>1. d # c /\ pc[d] = "select row"
      BY <2>4, <2>5
    <3>2. /\ Unheard(users, call[d].who) /\ \E i \in rows : given[i] = call[d].who
          /\ \A e \in Clients : pc[e] = "select row" /\ e # d => Name(call[e].who) # Name(call[d].who)
      BY <1>1, <3>1 DEF NameFacts, Inserting
    <3>3. Unheard(t, call[d].who)
      BY <2>2, <2>3, <3>1, <3>2 DEF Unheard
    <3>4. Unheard(users, call[d].who)'
      BY <2>1, <3>3 DEF Unheard
    <3> QED BY <2>1, <2>4, <2>5, <3>1, <3>2, <3>4
  <2>8. load.serial /\ ~spoilt => Checked'
    <3>1. load.serial => \A d \in Clients : pc'[d] \in {"idle", "find"}
      <4>1. load.serial => \A d \in Clients : d # c => pc[d] = "idle"
        BY <1>1 DEF NamesInv, CallsKept
      <4> QED BY <2>4, <2>5, <4>1
    <3> QED BY <3>1 DEF Checked
  <2>9. ~load.deletes => Backed'
    <3>1. ~load.deletes => \A h \in Buckets : \A i \in DOMAIN t[h] : t[h][i].id \in rows
      BY <1>1, <2>3 DEF NameFacts, Backed
    <3> QED BY <2>1, <3>1 DEF Backed
  <2> QED BY <2>1, <2>6, <2>7, <2>8, <2>9 DEF NameFacts
<1> QED BY <1>2, <1>3

\* Deletions: only one call at a time is under way.
LEMMA NamesDelete ==
  ASSUME NamesInv, NamesKept, NEW c \in Clients, DeleteRow(c) \/ DeleteUser(c) PROVE NameFacts'
<1>1. /\ pc \in [Clients -> CallPC] /\ call[c].who \in Accounts /\ NameFacts /\ TypeInv
      /\ TypeOK /\ pc[c] # "idle" /\ load.deletes
  BY DEF DeleteRow, DeleteUser, NamesInv, TypeInv, TypeOK, CallsKnow, CallsKept
<1>2. load.serial /\ \A d \in Clients : d # c => pc[d] = "idle"
  BY <1>1 DEF NamesKept, NamesInv, CallsKept
<1>3. /\ \E x \in {"delete user", "return", "undefined"} : pc' = [pc EXCEPT ![c] = x]
      /\ UNCHANGED <<load, given>> /\ rows' \subseteq rows
  BY DEF DeleteRow, DeleteUser, Undefined, Fail, Go, database
<1>4. \A d \in Clients : pc'[d] \in {"delete user", "return", "idle", "undefined"}
  BY <1>1, <1>2, <1>3
<1>5. Inserting' /\ Checked'
  BY <1>4 DEF Inserting, Checked
<1>6. RowsOnce'
  BY <1>1, <1>3 DEF NameFacts, RowsOnce
<1>7. Once(users')
  <2>1. CASE UNCHANGED users
    BY <1>1, <2>1 DEF NameFacts
  <2>2. CASE DeleteUser(c) /\ ~UNCHANGED users
    <3> DEFINE b == load.home[call[c].who]
    <3>0. PICK d \in 0..Len(users[b]) : b \in Buckets /\ users' = [users EXCEPT ![b] = Remaining(b, d)]
      BY <1>1, <2>2, DeletedOne DEF Undefined, table
    <3>1. Len(users[b]) \in Nat /\ users \in [Buckets -> Seq(User)]
      BY <1>1, <3>0, LenProperties DEF TypeOK
    <3> HIDE DEF b
    <3>2. CASE d = 0
      <4>1. users' = users
        BY <3>0, <3>1, <3>2 DEF Remaining
      <4> QED BY <2>1, <4>1
    <3>3. CASE d # 0
      <4>1. d \in 1..Len(users[b]) /\ users' = [users EXCEPT ![b] = RemoveAt(users[b], d)]
        BY <3>0, <3>1, <3>3 DEF Remaining
      <4> QED BY <1>1, <3>0, <4>1, ShrunkOnce DEF NameFacts
    <3> QED BY <3>2, <3>3
  <2> QED BY <2>1, <2>2 DEF DeleteRow, Fail
<1>8. Once(users)'
  BY <1>7 DEF Once
<1>9. load'.deletes
  BY <1>1, <1>3
<1> QED BY <1>5, <1>6, <1>8, <1>9 DEF NameFacts

LEMMA NamesRestart == ASSUME NamesInv, NamesKept, Restart PROVE NameFacts'
<1>1. /\ users' = Loaded /\ UNCHANGED <<load, given, rows, pc, call>> /\ NameFacts /\ TypeOK
      /\ \A d \in Clients : pc[d] = "idle"
  BY DEF Restart, database, Idle, NamesInv, TypeInv
<1>2. RowsOnce' /\ Inserting' /\ Checked'
  BY <1>1 DEF NameFacts, RowsOnce, Inserting, Checked
<1>3. Once(Loaded) /\ \A h \in Buckets : \A i \in DOMAIN Loaded[h] : Loaded[h][i].id \in rows
  BY <1>1, LoadedOnce, LoadedBacked DEF NameFacts
<1>4. Once(users') /\ \A h \in Buckets : \A i \in DOMAIN users'[h] : users'[h][i].id \in rows'
  BY <1>1, <1>3
<1>5. Once(users)' /\ Backed'
  BY <1>4 DEF Once, Backed
<1> QED BY <1>2, <1>5 DEF NameFacts

LEMMA NamesNext == CopyInv /\ [Next]_vars => NamesInv'
<1>0. ASSUME CopyInv, [Next]_vars, NamesKept' PROVE NamesKept
  <2>1. (UNCHANGED spoilt \/ spoilt') /\ UNCHANGED load
    BY <1>0, NothingMended, LoadKept DEF CopyInv, NamesInv
  <2> QED BY <1>0, <2>1 DEF NamesKept, Apart
<1> SUFFICES ASSUME CopyInv, NamesInv, [Next]_vars, NamesKept PROVE NameFacts'
  BY <1>0, TypesNext, KeptNext, TableNext DEF CopyInv, NamesInv
<1>1. CASE UNCHANGED <<load, given, rows, users>> /\ (UNCHANGED spoilt \/ spoilt')
           /\ \A d \in Clients : /\ pc'[d] = pc[d] /\ call'[d].who = call[d].who
                                 /\ call'[d].at = call[d].at
  <2>1. NameFacts
    BY DEF NamesInv
  <2>2. Once(users)'
    BY <1>1, <2>1, SameOnce DEF NameFacts
  <2>3. RowsOnce' /\ (~load.deletes => Backed')
    BY <1>1, <2>1 DEF NameFacts, RowsOnce, Backed
  <2>4. Inserting'
    <3> SUFFICES ASSUME NEW d \in Clients, pc'[d] = "select row"
                 PROVE  /\ Unheard(users, call[d].who)'
                        /\ \E i \in rows' : given'[i] = call'[d].who
                        /\ \A e \in Clients : pc'[e] = "select row" /\ e # d =>
                             Name(call'[e].who) # Name(call'[d].who)
      BY DEF Inserting
    <3>1. /\ Unheard(users, call[d].who) /\ \E i \in rows : given[i] = call[d].who
          /\ \A e \in Clients : pc[e] = "select row" /\ e # d => Name(call[e].who) # Name(call[d].who)
      BY <1>1, <2>1 DEF NameFacts, Inserting
    <3>2. Unheard(users, call[d].who)'
      BY <1>1, <3>1 DEF Unheard
    <3> QED BY <1>1, <3>1, <3>2
  <2>5. load.serial /\ ~spoilt' => Checked'
    <3>0. UNCHANGED users /\ (load.serial /\ ~spoilt' => Checked)
      BY <1>1, <2>1 DEF NameFacts
    <3> SUFFICES ASSUME Checked, NEW d \in Clients
                 PROVE  /\ pc'[d] = "contains" => Unseen(call'[d].who, call'[d].at)
                        /\ pc'[d] = "insert row" => Unheard(users, call'[d].who)
      BY <3>0 DEF Checked, Unheard, Unseen
    <3>1. /\ pc[d] = "contains" => Unseen(call[d].who, call[d].at)
          /\ pc[d] = "insert row" => Unheard(users, call[d].who)
      BY DEF Checked, Unseen
    <3>2. pc'[d] = pc[d] /\ call'[d].who = call[d].who /\ call'[d].at = call[d].at
      BY <1>1
    <3> QED BY <3>1, <3>2
  <2> QED BY <1>1, <2>1, <2>2, <2>3, <2>4, <2>5 DEF NameFacts
<1>2. CASE UNCHANGED vars
  BY <1>1, <1>2 DEF vars, database, table, strings
<1>3. CASE Overwritten
  BY <1>1, <1>3, OverwrittenTyped DEF NamesInv, TypeInv
<1>4. ASSUME NEW c \in Clients, Client(c) PROVE NameFacts'
  BY <1>4, NamesLookups, NamesInsert, NamesSelect, NamesDelete DEF Client
<1>5. ASSUME NEW c \in Clients, NEW a \in Accounts, Call(c, a) PROVE NameFacts'
  BY <1>5, NamesCall
<1> QED BY <1>2, <1>3, <1>4, <1>5, NamesRestart DEF Next

LEMMA NamesInit == Init => NamesInv
<1> SUFFICES ASSUME Init PROVE NameFacts
  BY TypesInit, KeptInit, LoadedOwned DEF NamesInv, TypeInv, TypeOK, Init, TableOwned
<1>1. TypeOK /\ users = Loaded /\ \A c \in Clients : pc[c] = "idle"
  BY TypesInit DEF TypeInv, Init
<1>2. RowsOnce
  <2>1. PICK S \in SUBSET Accounts : /\ \A a, b \in S : Name(a) = Name(b) => a = b
                                     /\ given = SetToSeq(S)
    BY DEF Init
  <2>2. IsFiniteSet(S)
    BY UserAssumption, FS_Subset
  <2>3. given \in [1..Cardinality(S) -> S] /\ IsInjective(given)
    BY <2>1, <2>2, ListedOnce
  <2>4. rows = DOMAIN given
    BY DEF Init
  <2> QED BY <2>1, <2>3, <2>4 DEF RowsOnce, IsInjective
<1>3. Once(users) /\ Backed
  BY <1>1, <1>2, LoadedOnce, LoadedBacked DEF Backed
<1> QED BY <1>1, <1>2, <1>3 DEF NameFacts, Inserting, Checked

-----------------------------------------------------------------------------
(* Rows and their users *)

\* A step of one call that leaves the table alone and deletes no row.
LEMMA CopyQuiet ==
  ASSUME CopyInv, CopyKept, NEW c \in Clients, NEW x,
         pc[c] \notin {"select row", "delete user"}, x # "delete user",
         pc' = [pc EXCEPT ![c] = x],
         \A d \in Clients : d # c => call'[d] = call[d],
         UNCHANGED <<given, rows, users, missed>>
  PROVE  CopyFacts'
<1>1. pc \in [Clients -> CallPC] /\ CopyFacts
  BY DEF CopyInv, NamesInv, TypeInv, TypeOK
<1>2. \A d \in Clients : \/ d = c /\ pc'[d] = x
                         \/ d # c /\ pc'[d] = pc[d] /\ call'[d] = call[d]
  BY <1>1
<1>3. \A d \in Clients : pc[d] \in {"select row", "delete user"} =>
        pc'[d] = pc[d] /\ call'[d] = call[d]
  BY <1>2
<1>4. (~missed => Present)'
  <2> SUFFICES ASSUME ~missed, NEW i \in rows
               PROVE  \/ \E h \in Buckets : \E k \in DOMAIN users[h] : users[h][k].id = i
                      \/ \E d \in Clients : pc'[d] = "select row" /\ call'[d].who = given[i]
    BY DEF Present
  <2>1. \/ \E h \in Buckets : \E k \in DOMAIN users[h] : users[h][k].id = i
        \/ \E d \in Clients : pc[d] = "select row" /\ call[d].who = given[i]
    BY <1>1 DEF CopyFacts, Present
  <2> QED BY <1>3, <2>1
<1>5. Vouched'
  <2> SUFFICES ASSUME NEW h \in Buckets, NEW k \in DOMAIN users[h]
               PROVE  \/ users[h][k].id \in rows
                      \/ \E d \in Clients : pc'[d] = "delete user" /\ call'[d].who = users[h][k].who
    BY DEF Vouched
  <2>1. \/ users[h][k].id \in rows
        \/ \E d \in Clients : pc[d] = "delete user" /\ call[d].who = users[h][k].who
    BY <1>1 DEF CopyFacts, Vouched
  <2> QED BY <1>3, <2>1
<1>6. Gone'
  <2>1. \A d \in Clients : pc'[d] = "delete user" => pc[d] = "delete user" /\ call'[d] = call[d]
    BY <1>2
  <2> QED BY <1>1, <2>1 DEF CopyFacts, Gone
<1> QED BY <1>4, <1>5, <1>6 DEF CopyFacts

LEMMA CopyLookups ==
  ASSUME CopyInv, CopyKept, NEW c \in Clients,
         \/ \E a \in Accounts : Call(c, a)
         \/ CheckName(c) \/ Find(c) \/ Read(c) \/ Return(c)
         \/ (InsertRow(c) \/ DeleteRow(c)) /\ UNCHANGED <<given, rows>> /\ pc'[c] = "return"
  PROVE  CopyFacts'
<1>1. pc \in [Clients -> CallPC] /\ call \in [Clients -> Locals]
  BY DEF CopyInv, NamesInv, TypeInv, TypeOK
<1>2. /\ pc[c] \notin {"select row", "delete user"} /\ UNCHANGED <<given, rows, users, missed>>
      /\ \E x : pc' = [pc EXCEPT ![c] = x]
      /\ pc'[c] # "delete user"
      /\ call' = call \/ \E l : call' = [call EXCEPT ![c] = l]
  BY <1>1 DEF Call, Begin, CheckName, InsertRow, DeleteRow, Find, Read, Return, Undefined, Go, Fail,
              database, table
<1>3. PICK x : pc' = [pc EXCEPT ![c] = x]
  BY <1>2
<1>4. x # "delete user" /\ \A d \in Clients : d # c => call'[d] = call[d]
  BY <1>1, <1>2, <1>3
<1> QED BY <1>2, <1>3, <1>4, CopyQuiet

LEMMA CopyInsert ==
  ASSUME CopyInv, CopyKept, NEW c \in Clients, InsertRow(c), pc'[c] # "return" PROVE CopyFacts'
<1> DEFINE a == call[c].who
           n == Len(given) + 1
<1>1. /\ pc \in [Clients -> CallPC] /\ given \in Seq(Accounts) /\ rows \subseteq DOMAIN given
      /\ a \in Accounts /\ CopyFacts /\ pc[c] = "insert row"
  BY DEF InsertRow, CopyInv, NamesInv, TypeInv, TypeOK, CallsKnow
<1>2. /\ given' = Append(given, a) /\ rows' = rows \cup {Len(given')}
      /\ pc' = [pc EXCEPT ![c] = "select row"] /\ UNCHANGED <<load, users, call, missed>>
  BY <1>1 DEF InsertRow, Fail, Go, database
<1>3. rows' = rows \cup {n} /\ given'[n] = a /\ \A i \in rows : given'[i] = given[i]
  <2>1. given \in Seq(Accounts) /\ a \in Accounts /\ rows \subseteq DOMAIN given
    BY <1>1
  <2> HIDE DEF a
  <2>2. /\ Len(Append(given, a)) = n /\ Append(given, a)[n] = a
        /\ \A i \in 1..Len(given) : Append(given, a)[i] = given[i]
        /\ rows \subseteq 1..Len(given)
    BY <2>1, AppendProperties, LenProperties
  <2> QED BY <1>2, <2>2 DEF a
<1>4. \A d \in Clients : \/ d # c /\ pc'[d] = pc[d]
                         \/ d = c /\ pc'[d] = "select row"
  BY <1>1, <1>2
<1> HIDE DEF n
<1>5. (~missed => Present)'
  <2> SUFFICES ASSUME ~missed, NEW i \in rows'
               PROVE  \/ \E h \in Buckets : \E k \in DOMAIN users[h] : users[h][k].id = i
                      \/ \E d \in Clients : pc'[d] = "select row" /\ call[d].who = given'[i]
    BY <1>2 DEF Present
  <2>1. CASE i = n
    BY <1>3, <1>4, <2>1
  <2>2. CASE i \in rows
    <3>1. \/ \E h \in Buckets : \E k \in DOMAIN users[h] : users[h][k].id = i
          \/ \E d \in Clients : pc[d] = "select row" /\ call[d].who = given[i]
      BY <1>1, <2>2 DEF CopyFacts, Present
    <3>2. given'[i] = given[i] /\ \A d \in Clients : pc[d] = "select row" => pc'[d] = "select row"
      BY <1>3, <1>4, <2>2
    <3> QED BY <3>1, <3>2
  <2> QED BY <1>3, <2>1, <2>2
<1>6. Vouched'
  <2> SUFFICES ASSUME NEW h \in Buckets, NEW k \in DOMAIN users[h]
               PROVE  \/ users[h][k].id \in rows'
                      \/ \E d \in Clients : pc'[d] = "delete user" /\ call[d].who = users[h][k].who
    BY <1>2 DEF Vouched
  <2>1. \/ users[h][k].id \in rows
        \/ \E d \in Clients : pc[d] = "delete user" /\ call[d].who = users[h][k].who
    BY <1>1 DEF CopyFacts, Vouched
  <2>2. \A d \in Clients : pc[d] = "delete user" => pc'[d] = "delete user"
    BY <1>1, <1>4
  <2> QED BY <1>3, <2>1, <2>2
<1>7. Gone'
  <2>1. \A d \in Clients : pc'[d] # "delete user"
    <3>1. \A d \in Clients : pc[d] # "delete user"
      BY <1>1 DEF CopyKept, CopyInv, NamesInv, CallsKept
    <3> QED BY <1>4, <3>1
  <2> QED BY <2>1 DEF Gone
<1> QED BY <1>5, <1>6, <1>7 DEF CopyFacts

\* What a statement of addUser reads back is in the table afterwards, and so is what was there.
Holds(t, a) ==
  /\ \A h \in Buckets : \A k \in DOMAIN users[h] : k \in DOMAIN t[h] /\ t[h][k] = users[h][k]
  /\ \A x \in rows : given[x] = a => \E h \in Buckets : \E k \in DOMAIN t[h] : t[h][k].id = x

LEMMA GrownHolds ==
  ASSUME TypeOK, NEW a \in Accounts, load.home[a] \in Buckets, NEW t,
         t = insertUsers(a, Fetched({x \in rows : given[x] = a}))
  PROVE  Holds(t, a)
<1> DEFINE ids == {x \in rows : given[x] = a}
           new == Fetched(ids)
           b == load.home[a]
<1>1. users \in [Buckets -> Seq(User)] /\ b \in Buckets
  BY DEF TypeOK
<1>2. new \in Seq(User) /\ \A x \in ids : \E p \in DOMAIN new : new[p].id = x
  BY FetchedRows DEF TypeOK
<1>3. t = [users EXCEPT ![b] = users[b] \o new]
  BY DEF insertUsers
<1>4. \A x \in rows : given[x] = a => x \in ids
  OBVIOUS
<1> HIDE DEF ids, new, b
<1>5. t[b] = users[b] \o new /\ \A h \in Buckets : h # b => t[h] = users[h]
  BY <1>1, <1>3
<1>6. users[b] \in Seq(User) /\ DOMAIN users[b] = 1..Len(users[b]) /\ Len(users[b]) \in Nat
      /\ DOMAIN new = 1..Len(new) /\ Len(new) \in Nat
  BY <1>1, <1>2, LenProperties
<1>7. /\ DOMAIN t[b] = 1..Len(users[b]) + Len(new)
      /\ \A k \in 1..Len(users[b]) : t[b][k] = users[b][k]
      /\ \A p \in 1..Len(new) : t[b][Len(users[b]) + p] = new[p]
  BY <1>2, <1>5, <1>6, ConcatProperties, LenProperties
<1>8. ASSUME NEW h \in Buckets, NEW k \in DOMAIN users[h]
      PROVE  k \in DOMAIN t[h] /\ t[h][k] = users[h][k]
  BY <1>5, <1>6, <1>7, <1>8
<1>9. ASSUME NEW x \in rows, given[x] = a
      PROVE  \E h \in Buckets : \E k \in DOMAIN t[h] : t[h][k].id = x
  <2>1. PICK p \in DOMAIN new : new[p].id = x
    BY <1>2, <1>4, <1>9
  <2>2. Len(users[b]) + p \in DOMAIN t[b] /\ t[b][Len(users[b]) + p].id = x
    BY <1>6, <1>7, <2>1
  <2> QED BY <1>1, <2>2
<1> QED BY <1>8, <1>9 DEF Holds

LEMMA CopySelect ==
  ASSUME CopyInv, CopyKept, NEW c \in Clients, SelectRow(c), ~Undefined(c) PROVE CopyFacts'
<1> DEFINE a == call[c].who
           t == insertUsers(a, Fetched({x \in rows : given[x] = a}))
<1>1. /\ pc \in [Clients -> CallPC] /\ a \in Accounts /\ pc[c] = "select row"
      /\ TypeInv /\ TypeOK /\ CopyFacts /\ NameFacts
  BY DEF SelectRow, CopyInv, NamesInv, TypeInv, TypeOK, CallsKnow, CopyKept, NamesKept
<1>2. /\ UNCHANGED <<given, rows, call>> /\ \E x \in {"find", "return"} : pc' = [pc EXCEPT ![c] = x]
      /\ \/ users' = t /\ missed' = missed /\ load.home[a] \in Buckets
         \/ users' = users /\ missed'
  BY <1>1, SelectEnds DEF NameFacts, Fail, Go, database
<1>3. ASSUME load.home[a] \in Buckets
      PROVE  \A h \in Buckets : \A i \in DOMAIN t[h] : \/ i \in DOMAIN users[h] /\ t[h][i] = users[h][i]
                                                       \/ t[h][i].id \in rows
  <2>1. /\ TypeOK /\ a \in Accounts /\ RowsOnce /\ Once(users) /\ Unheard(users, a)
        /\ load.home[a] \in Buckets
    BY <1>1, <1>3 DEF NameFacts, Inserting
  <2> HIDE DEF a
  <2> QED BY <2>1, GrownOnce
<1>4. ASSUME load.home[a] \in Buckets
      PROVE  /\ \A h \in Buckets : \A k \in DOMAIN users[h] : k \in DOMAIN t[h] /\ t[h][k] = users[h][k]
             /\ \A x \in rows : given[x] = a =>
                  \E h \in Buckets : \E k \in DOMAIN t[h] : t[h][k].id = x
  <2>1. /\ TypeOK /\ a \in Accounts /\ load.home[a] \in Buckets
        /\ t = insertUsers(a, Fetched({x \in rows : given[x] = a}))
    BY <1>1, <1>4
  <2> HIDE DEF a, t
  <2>2. Holds(t, a)
    BY <2>1, GrownHolds
  <2> QED BY <2>2 DEF Holds
<1> HIDE DEF t
<1>5. \A d \in Clients : \/ d # c /\ pc'[d] = pc[d]
                         \/ d = c /\ pc'[d] \in {"find", "return"}
  BY <1>1, <1>2
<1>6. ASSUME ~missed' PROVE Present'
  <2>0. users' = t /\ ~missed /\ load.home[a] \in Buckets
    BY <1>2, <1>6
  <2> SUFFICES ASSUME NEW i \in rows
               PROVE  \/ \E h \in Buckets : \E k \in DOMAIN t[h] : t[h][k].id = i
                      \/ \E d \in Clients : pc'[d] = "select row" /\ call[d].who = given[i]
    BY <1>2, <2>0 DEF Present
  <2>1. CASE given[i] = a
    BY <1>4, <2>0, <2>1
  <2>2. CASE given[i] # a
    <3>1. \/ \E h \in Buckets : \E k \in DOMAIN users[h] : users[h][k].id = i
          \/ \E d \in Clients : pc[d] = "select row" /\ call[d].who = given[i]
      BY <1>1, <2>0 DEF CopyFacts, Present
    <3>2. CASE \E h \in Buckets : \E k \in DOMAIN users[h] : users[h][k].id = i
      <4>1. PICK h \in Buckets : \E k \in DOMAIN users[h] : users[h][k].id = i
        BY <3>2
      <4>2. PICK k \in DOMAIN users[h] : users[h][k].id = i
        BY <4>1
      <4> QED BY <1>4, <2>0, <4>2
    <3>3. CASE \E d \in Clients : pc[d] = "select row" /\ call[d].who = given[i]
      BY <1>5, <2>2, <3>3
    <3> QED BY <3>1, <3>2, <3>3
  <2> QED BY <2>1, <2>2
<1>7. Vouched'
  <2>1. ASSUME NEW h \in Buckets, NEW k \in DOMAIN users[h]
        PROVE  \/ users[h][k].id \in rows
               \/ \E d \in Clients : pc'[d] = "delete user" /\ call[d].who = users[h][k].who
    <3>1. \/ users[h][k].id \in rows
          \/ \E d \in Clients : pc[d] = "delete user" /\ call[d].who = users[h][k].who
      BY <1>1 DEF CopyFacts, Vouched
    <3> QED BY <1>1, <1>5, <3>1
  <2>2. ASSUME load.home[a] \in Buckets, NEW h \in Buckets, NEW k \in DOMAIN t[h]
        PROVE  \/ t[h][k].id \in rows
               \/ \E d \in Clients : pc'[d] = "delete user" /\ call[d].who = t[h][k].who
    <3>1. \/ k \in DOMAIN users[h] /\ t[h][k] = users[h][k]
          \/ t[h][k].id \in rows
      BY <1>3, <2>2
    <3> QED BY <2>1, <3>1
  <2>3. CASE users' = t /\ load.home[a] \in Buckets
    <3>1. UNCHANGED <<rows, call>> /\ users' = t
      BY <1>2, <2>3
    <3> SUFFICES ASSUME NEW h \in Buckets, NEW k \in DOMAIN t[h]
                 PROVE  \/ t[h][k].id \in rows
                        \/ \E d \in Clients : pc'[d] = "delete user" /\ call[d].who = t[h][k].who
      BY <3>1 DEF Vouched
    <3> QED BY <2>2, <2>3
  <2>4. CASE users' = users
    BY <1>2, <2>1, <2>4 DEF Vouched
  <2> QED BY <1>2, <2>3, <2>4
<1>8. Gone'
  BY <1>1, <1>2, <1>5 DEF CopyFacts, Gone
<1> QED BY <1>6, <1>7, <1>8 DEF CopyFacts

LEMMA CopyDeleteRow ==
  ASSUME CopyInv, CopyKept, NEW c \in Clients, DeleteRow(c), pc'[c] # "return" PROVE CopyFacts'
<1> DEFINE a == call[c].who
<1>1. /\ pc \in [Clients -> CallPC] /\ CopyFacts /\ pc[c] = "delete row" /\ load.serial
      /\ TableOwned /\ \A d \in Clients : d # c => pc[d] = "idle"
  BY DEF DeleteRow, CopyInv, NamesInv, TypeInv, TypeOK, CallsKept, CopyKept
<1>2. /\ rows' = {i \in rows : given[i] # a} /\ pc' = [pc EXCEPT ![c] = "delete user"]
      /\ UNCHANGED <<given, users, call, missed>>
  BY <1>1 DEF DeleteRow, Fail, Go, database
<1>3. pc'[c] = "delete user" /\ \A d \in Clients : pc'[d] = "delete user" => d = c
  BY <1>1, <1>2
<1>4. (~missed => Present)'
  <2> SUFFICES ASSUME ~missed, NEW i \in rows, given[i] # a
               PROVE  \E h \in Buckets : \E k \in DOMAIN users[h] : users[h][k].id = i
    BY <1>2 DEF Present
  <2> QED BY <1>1 DEF CopyFacts, Present
<1>5. Vouched'
  <2> SUFFICES ASSUME NEW h \in Buckets, NEW k \in DOMAIN users[h], users[h][k].id \notin rows'
               PROVE  users[h][k].who = a
    BY <1>2, <1>3 DEF Vouched
  <2>1. users[h][k].id \in rows
    BY <1>1 DEF CopyFacts, Vouched
  <2>2. given[users[h][k].id] = a
    BY <1>2, <2>1
  <2>3. Owned(users[h][k], given)
    BY <1>1 DEF TableOwned
  <2> QED BY <2>2, <2>3 DEF Owned
<1>6. Gone'
  <2> SUFFICES ASSUME NEW i \in rows' PROVE given[i] # a
    BY <1>2, <1>3 DEF Gone
  <2> QED BY <1>2
<1> QED BY <1>4, <1>5, <1>6 DEF CopyFacts

\* A user that is alone in its bucket is the one that deleteUser finds.
LEMMA LoneDoomed ==
  ASSUME TypeOK, NEW a \in Accounts, load.home[a] \in Buckets, lost = {},
         NEW seen \in Seen(load.home[a]), users[load.home[a]] # <<>>,
         \A i, j \in DOMAIN users[load.home[a]] : i = j,
         \A i \in DOMAIN users[load.home[a]] : users[load.home[a]][i].who = a
  PROVE  Doomed(a, seen) = 1 /\ Len(users[load.home[a]]) = 1
<1> DEFINE s == users[load.home[a]]
<1>1. s \in Seq(User) /\ \A i \in DOMAIN s : seen[i] = s[i].who
  BY SeenAs DEF TypeOK
<1>2. DOMAIN s = 1..Len(s) /\ Len(s) \in Nat /\ Len(s) # 0
  BY <1>1, EmptySeq, LenProperties
<1>0. /\ \A i, j \in DOMAIN s : i = j
      /\ \A i \in DOMAIN s : seen[i] = a
  BY <1>1
<1> HIDE DEF s
<1>3. Len(s) = 1
  <2>1. ASSUME Len(s) > 1 PROVE FALSE
    <3>1. 1 \in DOMAIN s /\ 2 \in DOMAIN s
      BY <1>2, <2>1
    <3>2. 1 = 2
      BY <1>0, <3>1
    <3> QED BY <3>2
  <2> QED BY <1>2, <2>1
<1>4. 1 \in {i \in DOMAIN s : seen[i] = a /\ (Len(s) > 1 => i < Len(s))}
  BY <1>0, <1>2, <1>3
<1> QED BY <1>3, <1>4 DEF Doomed, s

LEMMA CopyDeleteUser ==
  ASSUME CopyInv, CopyKept, NEW c \in Clients, DeleteUser(c), ~Undefined(c) PROVE CopyFacts'
<1> DEFINE a == call[c].who
           b == load.home[a]
<1>1. /\ pc \in [Clients -> CallPC] /\ CopyFacts /\ pc[c] = "delete user" /\ load.serial
      /\ TableOwned /\ lost = {} /\ TypeOK /\ a \in Accounts /\ Apart /\ NameFacts
      /\ \A d \in Clients : d # c => pc[d] = "idle"
  BY DEF DeleteUser, CopyInv, NamesInv, TypeInv, TypeOK, CallsKept, CallsKnow, CopyKept, NamesKept
<1>0. PICK seen \in Seen(b) :
        /\ b \in Buckets /\ users' = [users EXCEPT ![b] = Remaining(b, Doomed(a, seen))]
        /\ pc' = [pc EXCEPT ![c] = "return"] /\ UNCHANGED <<given, rows, missed>>
  BY DEF DeleteUser, Go, database
<1>2. b \in Buckets /\ users \in [Buckets -> Seq(User)] /\ users[b] \in Seq(User)
  BY <1>0, <1>1 DEF TypeOK
<1>3. ASSUME NEW h \in Buckets, NEW k \in DOMAIN users[h]
      PROVE  /\ h = b <=> users[h][k].who = a
             /\ Owned(users[h][k], given)
  <2>1. /\ Owned(users[h][k], given)
        /\ load.home[users[h][k].who] = h /\ given \in Seq(Accounts)
    BY <1>1 DEF TableOwned, TypeOK
  <2>2. users[h][k].who \in Accounts
    BY <2>1 DEF Owned
  <2> QED BY <1>1, <2>1, <2>2 DEF Apart
<1>4. users'[b] = <<>> /\ \A h \in Buckets : h # b => users'[h] = users[h]
  <2>1. users' = [users EXCEPT ![b] = Remaining(b, Doomed(a, seen))]
    BY <1>0
  <2>2. CASE users[b] = <<>>
    <3>1. Doomed(a, seen) = 0
      <4>1. Len(users[b]) = 0 /\ Doomed(a, seen) \in 0..Len(users[b])
        BY <1>1, <1>2, <2>2, DoomedPlace, EmptySeq
      <4> QED BY <4>1
    <3> QED BY <1>2, <2>1, <2>2, <3>1 DEF Remaining
  <2>3. CASE users[b] # <<>>
    <3>1. \A i \in DOMAIN users[b] : users[b][i].who = a
      BY <1>2, <1>3
    <3>2. \A i, j \in DOMAIN users[b] : i = j
      <4>1. Once(users)
        BY <1>1 DEF NameFacts
      <4> SUFFICES ASSUME NEW i \in DOMAIN users[b], NEW j \in DOMAIN users[b] PROVE i = j
        OBVIOUS
      <4>2. users[b][i].who = users[b][j].who
        BY <3>1
      <4> QED BY <1>2, <4>1, <4>2 DEF Once
    <3>3. Doomed(a, seen) = 1 /\ Len(users[b]) = 1
      BY <1>1, <1>2, <2>3, <3>1, <3>2, LoneDoomed
    <3>4. RemoveAt(users[b], 1) = <<>>
      <4>1. RemoveAt(users[b], 1) \in Seq(User) /\ Len(RemoveAt(users[b], 1)) = 0
        <5>1. 1 \in 1..Len(users[b]) /\ Len(users[b]) - 1 = 0
          BY <3>3
        <5> HIDE DEF b
        <5> QED BY <1>2, <5>1, RemoveAtPlaces
      <4> QED BY <4>1, EmptySeq
    <3> QED BY <1>2, <2>1, <3>3, <3>4 DEF Remaining
  <2> QED BY <2>2, <2>3
<1>5. pc' = [pc EXCEPT ![c] = "return"] /\ UNCHANGED <<given, rows, missed>>
  BY <1>0
<1>6. \A d \in Clients : pc'[d] \in {"idle", "return"}
  BY <1>1, <1>5
<1>7. (~missed => Present)'
  <2> SUFFICES ASSUME ~missed, NEW i \in rows
               PROVE  \E h \in Buckets : \E k \in DOMAIN users'[h] : users'[h][k].id = i
    BY <1>5 DEF Present
  <2>1. \E h \in Buckets : \E k \in DOMAIN users[h] : users[h][k].id = i
    BY <1>1 DEF CopyFacts, Present
  <2>2. PICK h \in Buckets : \E k \in DOMAIN users[h] : users[h][k].id = i
    BY <2>1
  <2>3. PICK k \in DOMAIN users[h] : users[h][k].id = i
    BY <2>2
  <2>4. users[h][k].who # a
    <3>1. given[i] # a
      BY <1>1 DEF CopyFacts, Gone
    <3> QED BY <1>3, <2>3, <3>1 DEF Owned
  <2>5. h # b
    BY <1>3, <2>4
  <2> QED BY <1>4, <2>3, <2>5
<1>8. Vouched'
  <2> SUFFICES ASSUME NEW h \in Buckets, NEW k \in DOMAIN users'[h] PROVE users'[h][k].id \in rows
    BY <1>5 DEF Vouched
  <2>1. h # b /\ users'[h] = users[h]
    BY <1>4
  <2>2. users[h][k].who # a
    BY <1>3, <2>1
  <2>3. \/ users[h][k].id \in rows
        \/ \E d \in Clients : pc[d] = "delete user" /\ call[d].who = users[h][k].who
    BY <1>1, <2>1 DEF CopyFacts, Vouched
  <2> QED BY <1>1, <2>1, <2>2, <2>3
<1>9. Gone'
  BY <1>6 DEF Gone
<1> QED BY <1>7, <1>8, <1>9 DEF CopyFacts

LEMMA LoadedWhole ==
  ASSUME TypeOK, Started
  PROVE  \A i \in rows : \E h \in Buckets : \E k \in DOMAIN Loaded[h] : Loaded[h][k].id = i
<1> SUFFICES ASSUME NEW i \in rows
             PROVE  \E h \in Buckets : \E k \in DOMAIN Loaded[h] : Loaded[h][k].id = i
  OBVIOUS
<1> DEFINE h == load.home[given[i]]
           ids == {x \in rows : load.home[given[x]] = h}
<1>1. h \in Buckets /\ given \in Seq(Accounts) /\ ids \subseteq DOMAIN given
  BY DEF TypeOK, Started
<1>2. Loaded[h] = Fetched(ids)
  BY <1>1 DEF Loaded
<1>3. i \in ids
  OBVIOUS
<1> HIDE DEF h, ids
<1>4. \E k \in DOMAIN Loaded[h] : Loaded[h][k].id = i
  BY <1>1, <1>2, <1>3, FetchedRows
<1> QED BY <1>1, <1>4

LEMMA CopyLoaded ==
  ASSUME TypeOK, Started, users = Loaded, \A c \in Clients : pc[c] = "idle" PROVE CopyFacts
  BY LoadedWhole, LoadedBacked DEF CopyFacts, Present, Vouched, Gone

LEMMA CopyRestart == ASSUME CopyInv, Restart PROVE CopyFacts'
<1>1. /\ users' = Loaded /\ UNCHANGED <<given, rows, pc>> /\ TypeOK /\ Started
      /\ \A d \in Clients : pc[d] = "idle"
  BY DEF Restart, database, Idle, CopyInv, NamesInv, TypeInv
<1>2. /\ \A i \in rows : \E h \in Buckets : \E k \in DOMAIN users'[h] : users'[h][k].id = i
      /\ \A h \in Buckets : \A k \in DOMAIN users'[h] : users'[h][k].id \in rows
  BY <1>1, LoadedWhole, LoadedBacked
<1>3. Present' /\ Vouched' /\ Gone'
  BY <1>1, <1>2 DEF Present, Vouched, Gone
<1> QED BY <1>3 DEF CopyFacts

LEMMA CopyInit == Init => CopyInv
<1> SUFFICES ASSUME Init PROVE CopyInv
  OBVIOUS
<1>1. TypeOK /\ Started /\ users = Loaded /\ \A c \in Clients : pc[c] = "idle"
  BY TypesInit DEF TypeInv, Init
<1> QED BY <1>1, CopyLoaded, NamesInit DEF CopyInv, Init

LEMMA CopyNext == CopyInv /\ [Next]_vars => CopyInv'
<1> SUFFICES ASSUME CopyInv, [Next]_vars PROVE CopyInv'
  OBVIOUS
<1>1. NamesInv' /\ UNCHANGED load
  BY NamesNext, LoadKept
<1>2. (missed => load.fails)'
  BY <1>1 DEF CopyInv, Next, Client, Call, Begin, CheckName, InsertRow, SelectRow, Find, Read,
              DeleteRow, DeleteUser, Return, Undefined, Restart, Overwritten, Fail, vars, table
<1>3. ASSUME CopyKept' PROVE CopyKept
  <2>1. (UNCHANGED spoilt \/ spoilt') /\ (Defined' => Defined)
    BY NothingMended DEF CopyInv, NamesInv
  <2> QED BY <1>1, <1>3, <2>1 DEF CopyKept, Apart
<1>4. ASSUME CopyKept, Defined' PROVE CopyFacts'
  <2>0. pc \in [Clients -> CallPC] /\ CopyFacts
    BY <1>4 DEF CopyInv, NamesInv, TypeInv, TypeOK
  <2>1. CASE /\ UNCHANGED <<given, rows, users, missed>>
             /\ \A d \in Clients : pc'[d] = pc[d] /\ call'[d].who = call[d].who
    <3>1. (~missed => Present)'
      <4> SUFFICES ASSUME ~missed, NEW i \in rows
                   PROVE  \/ \E h \in Buckets : \E k \in DOMAIN users[h] : users[h][k].id = i
                          \/ \E d \in Clients : pc'[d] = "select row" /\ call'[d].who = given[i]
        BY <2>1 DEF Present
      <4>1. \/ \E h \in Buckets : \E k \in DOMAIN users[h] : users[h][k].id = i
            \/ \E d \in Clients : pc[d] = "select row" /\ call[d].who = given[i]
        BY <2>0 DEF CopyFacts, Present
      <4> QED BY <2>1, <4>1
    <3>2. Vouched'
      <4> SUFFICES ASSUME NEW h \in Buckets, NEW k \in DOMAIN users[h]
                   PROVE  \/ users[h][k].id \in rows
                          \/ \E d \in Clients : pc'[d] = "delete user" /\ call'[d].who = users[h][k].who
        BY <2>1 DEF Vouched
      <4>1. \/ users[h][k].id \in rows
            \/ \E d \in Clients : pc[d] = "delete user" /\ call[d].who = users[h][k].who
        BY <2>0 DEF CopyFacts, Vouched
      <4> QED BY <2>1, <4>1
    <3>3. Gone'
      BY <2>0, <2>1 DEF CopyFacts, Gone
    <3> QED BY <3>1, <3>2, <3>3 DEF CopyFacts
  <2>2. CASE UNCHANGED vars
    BY <2>1, <2>2 DEF vars, database, table
  <2>3. CASE Overwritten
    BY <2>1, <2>3, OverwrittenTyped DEF CopyInv, NamesInv, TypeInv
  <2>4. ASSUME NEW c \in Clients, NEW a \in Accounts, Call(c, a) PROVE CopyFacts'
    BY <1>4, <2>4, CopyLookups
  <2>5. ASSUME NEW c \in Clients, Client(c) PROVE CopyFacts'
    <3>0. ~Undefined(c)
      BY <1>4, <2>0 DEF Undefined, Go, Defined
    <3>1. CASE InsertRow(c) \/ DeleteRow(c)
      <4>1. pc'[c] = "return" => UNCHANGED <<given, rows>>
        BY <2>0, <3>1 DEF InsertRow, DeleteRow, Fail, Go, database
      <4> QED BY <1>4, <3>1, <4>1, CopyLookups, CopyInsert, CopyDeleteRow
    <3>2. CASE CheckName(c) \/ Find(c) \/ Read(c) \/ Return(c)
      BY <1>4, <3>2, CopyLookups
    <3> QED BY <1>4, <2>5, <3>0, <3>1, <3>2, CopySelect, CopyDeleteUser DEF Client
  <2> QED BY <2>2, <2>3, <2>4, <2>5, CopyRestart DEF Next
<1>5. ASSUME CopyKept' PROVE CopyFacts'
  BY <1>3, <1>4, <1>5 DEF CopyKept
<1> QED BY <1>1, <1>2, <1>5 DEF CopyInv
-----------------------------------------------------------------------------

\* However the statements and the searches of several addUser interleave, whatever fails
\* between a row and its user and whatever containsUsername reads where strings are lost, no
\* name gets into the table twice, if the database refuses double names.  If users are deleted
\* too, calls come one at a time and no strings have been lost.
THEOREM NamesOnce == Spec => []NameOnce
<1>1. NamesInv => NameOnce
  <2> SUFFICES ASSUME Once(users), NEW x \in All, NEW y \in All,
                      Name(At(x).who) = Name(At(y).who)
               PROVE  x = y
    BY DEF NameOnce, NamesInv, NamesKept, NameFacts
  <2>1. PICK h \in Buckets : x \in {h} \X DOMAIN users[h]
    BY DEF All
  <2>2. PICK k \in Buckets : y \in {k} \X DOMAIN users[k]
    BY DEF All
  <2>3. PICK i \in DOMAIN users[h] : x = <<h, i>>
    BY <2>1
  <2>4. PICK j \in DOMAIN users[k] : y = <<k, j>>
    BY <2>2
  <2>5. h = k /\ i = j
    BY <2>3, <2>4 DEF Once, At
  <2> QED BY <2>3, <2>4, <2>5
<1> QED BY <1>1, CopyInit, CopyNext, PTL DEF Spec, CopyInv

\* Whenever no call is under way the table is a copy of the database, a user for each row and
\* none besides, if no addUser failed half-way since the start and the database refuses double
\* names: whatever was added or refused, by how many clients, and whatever strings were lost.
\* If it does not refuse them, calls come one at a time, none fails and no strings are lost;
\* if users are deleted, calls come one at a time, no strings are lost and no two accounts
\* share a bucket.
THEOREM TableIsCopy == Spec => []CacheAgrees
<1>1. ASSUME CopyInv, Idle, Fair
      PROVE  /\ {At(x) : x \in All} = {[who |-> given[i], id |-> i] : i \in rows}
             /\ Cardinality(All) = Cardinality(rows)
  <2>1. CopyKept /\ NamesKept
    BY <1>1 DEF Fair, CopyKept, NamesKept, Idle, Defined
  <2>2. /\ TypeOK /\ TableOwned /\ Once(users) /\ Present /\ Vouched
    BY <1>1, <2>1 DEF CopyInv, NamesInv, TypeInv, NameFacts, CopyFacts, Fair
  <2>3. /\ \A i \in rows : \E h \in Buckets : \E k \in DOMAIN users[h] : users[h][k].id = i
        /\ \A h \in Buckets : \A k \in DOMAIN users[h] : users[h][k].id \in rows
    BY <1>1, <2>2 DEF Idle, Present, Vouched
  <2>4. \A h \in Buckets : \A k \in DOMAIN users[h] : <<h, k>> \in All /\ At(<<h, k>>) = users[h][k]
    BY DEF All, At
  <2>5. \A x \in All : \E h \in Buckets : \E k \in DOMAIN users[h] : x = <<h, k>>
    BY DEF All
  <2>6. ASSUME NEW x \in All
        PROVE  At(x).id \in rows /\ At(x) = [who |-> given[At(x).id], id |-> At(x).id]
    <3>1. PICK h \in Buckets : \E k \in DOMAIN users[h] : x = <<h, k>>
      BY <2>5
    <3>2. PICK k \in DOMAIN users[h] : x = <<h, k>>
      BY <3>1
    <3>3. At(x) = users[h][k] /\ Owned(users[h][k], given)
      BY <2>2, <2>4, <3>2 DEF TableOwned
    <3>4. users[h][k] \in User
      BY <2>2, LenProperties DEF TypeOK
    <3>5. users[h][k] = [who |-> users[h][k].who, id |-> users[h][k].id]
      BY <3>4 DEF User
    <3> QED BY <2>3, <3>3, <3>5 DEF Owned
  <2>7. ASSUME NEW i \in rows PROVE \E x \in All : At(x).id = i
    <3>1. PICK h \in Buckets : \E k \in DOMAIN users[h] : users[h][k].id = i
      BY <2>3
    <3>2. PICK k \in DOMAIN users[h] : users[h][k].id = i
      BY <3>1
    <3> QED BY <2>4, <3>2
  <2>8. ASSUME NEW x \in All, NEW y \in All, At(x).id = At(y).id PROVE x = y
    <3>1. At(x).who = At(y).who
      <4>1. At(x) = At(y)
        BY <2>6, <2>8
      <4> QED BY <4>1
    <3>2. PICK h \in Buckets : \E k \in DOMAIN users[h] : x = <<h, k>>
      BY <2>5
    <3>3. PICK k \in DOMAIN users[h] : x = <<h, k>>
      BY <3>2
    <3>4. PICK g \in Buckets : \E j \in DOMAIN users[g] : y = <<g, j>>
      BY <2>5
    <3>5. PICK j \in DOMAIN users[g] : y = <<g, j>>
      BY <3>4
    <3>6. users[h][k].who = users[g][j].who
      BY <2>4, <3>1, <3>3, <3>5
    <3>7. h = g /\ k = j
      BY <2>2, <3>6 DEF Once
    <3> QED BY <3>3, <3>5, <3>7
  <2>9. {At(x) : x \in All} = {[who |-> given[i], id |-> i] : i \in rows}
    <3>1. ASSUME NEW x \in All PROVE At(x) \in {[who |-> given[i], id |-> i] : i \in rows}
      BY <2>6
    <3>2. ASSUME NEW i \in rows PROVE [who |-> given[i], id |-> i] \in {At(x) : x \in All}
      BY <2>6, <2>7
    <3> QED BY <3>1, <3>2
  <2>10. Cardinality(All) = Cardinality(rows)
    <3> DEFINE f == [x \in All |-> At(x).id]
    <3>1. f \in [All -> rows] /\ \A x \in All : f[x] = At(x).id
      BY <2>6
    <3> HIDE DEF f
    <3>2. f \in Injection(All, rows)
      <4>1. IsInjective(f)
        BY <2>8, <3>1 DEF IsInjective
      <4> QED BY <3>1, <4>1 DEF Injection
    <3>3. f \in Surjection(All, rows)
      BY <2>7, <3>1 DEF Surjection
    <3>4. IsFiniteSet(rows)
      <4>1. given \in Seq(Accounts) /\ rows \subseteq DOMAIN given
        BY <2>2 DEF TypeOK
      <4> QED BY <4>1, FetchedRows
    <3> QED BY <3>2, <3>3, <3>4, FS_Injection
  <2> QED BY <2>9, <2>10
<1>2. CopyInv => CacheAgrees
  BY <1>1 DEF CacheAgrees
<1> QED BY <1>2, CopyInit, CopyNext, PTL DEF Spec
-----------------------------------------------------------------------------
(* Logins *)

\* Where the users of account a are in a chain whose walk has missed them.
Overlooked(chain, a, gone) ==
  \A i \in DOMAIN chain :
    chain[i].who = a => chain[i].id \in gone \/ (Len(chain) > 1 /\ ~(i > 1))

\* A login that is answered NULL has missed the users of its account.
Refused(c) ==
  pc[c] = "return" /\ call[c].op = "login" /\ call[c].answer = NULL /\ load.serial =>
    Overlooked(users[load.home[call[c].who]], call[c].who, lost)

LoginFacts ==
  \A c \in Clients : /\ call[c].op = "login" => pc[c] \in {"find", "read", "return", "undefined"}
                     /\ Refused(c)

LoginInv == CopyInv /\ LoginFacts

LEMMA LoginNext == LoginInv /\ [Next]_vars => LoginInv'
<1> SUFFICES ASSUME LoginInv, [Next]_vars PROVE LoginFacts'
  BY CopyNext DEF LoginInv
<1>0. /\ pc \in [Clients -> CallPC] /\ call \in [Clients -> Locals] /\ LoginFacts /\ UNCHANGED load
      /\ TypeOK /\ TypeInv /\ CallsKept /\ CallsKnow
  BY LoadKept DEF LoginInv, CopyInv, NamesInv, TypeInv, TypeOK
\* Clients of whom a step leaves everything as it is.
<1>1. ASSUME NEW d \in Clients, pc'[d] = pc[d], call'[d].op = call[d].op,
             \/ pc[d] = "idle" \/ ~load.serial
             \/ /\ UNCHANGED users /\ lost \subseteq lost' /\ call'[d].who = call[d].who
                /\ call'[d].answer = NULL => call[d].answer = NULL
      PROVE  /\ call'[d].op = "login" => pc'[d] \in {"find", "read", "return", "undefined"}
             /\ Refused(d)'
  <2>1. call[d].op = "login" => pc[d] \in {"find", "read", "return", "undefined"}
    BY <1>0 DEF LoginFacts
  <2>2. CASE pc[d] = "idle" \/ ~load.serial
    BY <1>0, <1>1, <2>1, <2>2 DEF Refused
  <2>3. CASE /\ UNCHANGED users /\ lost \subseteq lost' /\ call'[d].who = call[d].who
             /\ call'[d].answer = NULL => call[d].answer = NULL
    <3>1. Refused(d)
      BY <1>0 DEF LoginFacts
    <3>2. \A chain, a : Overlooked(chain, a, lost) => Overlooked(chain, a, lost')
      BY <2>3 DEF Overlooked
    <3> QED BY <1>0, <1>1, <2>1, <2>3, <3>1, <3>2 DEF Refused
  <2> QED BY <1>1, <2>2, <2>3
<1>2. CASE UNCHANGED vars
  <2>1. UNCHANGED <<users, lost, pc, call>> /\ lost \subseteq lost'
    BY <1>2 DEF vars, table, strings
  <2> SUFFICES ASSUME NEW d \in Clients
               PROVE  /\ call'[d].op = "login" => pc'[d] \in {"find", "read", "return", "undefined"}
                      /\ Refused(d)'
    BY DEF LoginFacts
  <2> QED BY <1>1, <2>1
<1>3. CASE Restart
  <2>1. UNCHANGED <<pc, call>> /\ \A d \in Clients : pc[d] = "idle"
    BY <1>3 DEF Restart, Idle
  <2> QED BY <1>1, <2>1 DEF LoginFacts
<1>4. CASE Overwritten
  <2>1. /\ UNCHANGED <<users, pc>> /\ lost \subseteq lost'
        /\ \A d \in Clients : /\ call'[d].op = call[d].op /\ call'[d].who = call[d].who
                              /\ call'[d].answer = NULL => call[d].answer = NULL
    BY <1>0, <1>4, OverwrittenTyped, UserAssumption
  <2> SUFFICES ASSUME NEW d \in Clients
               PROVE  /\ call'[d].op = "login" => pc'[d] \in {"find", "read", "return", "undefined"}
                      /\ Refused(d)'
    BY DEF LoginFacts
  <2>2. /\ pc'[d] = pc[d] /\ call'[d].op = call[d].op /\ call'[d].who = call[d].who
        /\ call'[d].answer = NULL => call[d].answer = NULL
    BY <2>1
  <2> QED BY <1>1, <2>1, <2>2
<1>5. ASSUME NEW c \in Clients, (\E a \in Accounts : Call(c, a)) \/ Client(c) PROVE LoginFacts'
  <2>1. \/ \E x, l : pc' = [pc EXCEPT ![c] = x] /\ call' = [call EXCEPT ![c] = l]
        \/ DeleteUser(c) /\ \E x : pc' = [pc EXCEPT ![c] = x]
    <3>1. call = [call EXCEPT ![c] = call[c]]
      BY <1>0
    <3> QED BY <1>5, <3>1 DEF Client, Call, Begin, CheckName, InsertRow, SelectRow, Find, Read, DeleteRow,
                              DeleteUser, Return, Undefined, Fail, Go
  <2>2. load.serial => \A d \in Clients : d # c => pc[d] = "idle"
    <3>1. pc[c] # "idle" \/ (load.serial => Idle)
      BY <1>5 DEF Client, Call, Begin, CheckName, InsertRow, SelectRow, Find, Read, DeleteRow, DeleteUser,
                  Return
    <3> QED BY <1>0, <3>1 DEF CallsKept, Idle
  <2>3. DeleteUser(c) => \A d \in Clients : call'[d].op = call[d].op
    <3>1. DeleteUser(c) => call' = call \/ \E u : call' = Dangling(u)
      BY DEF DeleteUser, Undefined
    <3> QED BY <1>0, <3>1, DanglingTyped
  <2>4. ASSUME NEW d \in Clients, d # c
        PROVE  pc'[d] = pc[d] /\ call'[d].op = call[d].op /\ (pc[d] = "idle" \/ ~load.serial)
    BY <1>0, <2>1, <2>2, <2>3, <2>4
  <2>5. /\ call'[c].op = "login" => pc'[c] \in {"find", "read", "return", "undefined"}
        /\ Refused(c)'
    <3>0. CASE Undefined(c)
      BY <1>0, <3>0 DEF Undefined, Go, Refused
    <3>1. CASE Find(c) /\ ~Undefined(c)
      <4> DEFINE a == call[c].who
                 h == load.home[a]
      <4>1. PICK s \in Seen(h) :
              /\ h \in Buckets /\ call' = [call EXCEPT ![c].found = selectUser(a, s)]
              /\ pc' = [pc EXCEPT ![c] = IF selectUser(a, s) = NULL THEN "return" ELSE "read"]
              /\ UNCHANGED <<users, lost>>
        BY <3>1 DEF Find, Ends, Go, table, strings
      <4>2. a \in Accounts /\ users[h] \in Seq(User)
        BY <1>0, <3>1, <4>1 DEF Find, CallsKnow, TypeOK
      <4>3. /\ call'[c].who = a /\ call'[c].op = call[c].op
            /\ pc'[c] = IF selectUser(a, s) = NULL THEN "return" ELSE "read"
        BY <1>0, <4>1 DEF Locals
      <4>4. selectUser(a, s) = NULL => Overlooked(users[h], a, lost)
        <5>1. \A i \in DOMAIN users[h] : users[h][i] # NULL
          BY <4>2, UserAssumption
        <5>2. \/ Overlooked(users[h], a, lost)
              \/ \E i \in DOMAIN users[h] : selectUser(a, s) = users[h][i]
          <6>1. TypeOK /\ a \in Accounts /\ load.home[a] \in Buckets /\ s \in Seen(load.home[a])
            BY <1>0, <4>1, <4>2
          <6> HIDE DEF a
          <6> QED BY <6>1, FoundInChain DEF Overlooked
        <5> QED BY <5>1, <5>2
      <4>5. users'[load'.home[a]] = users[h] /\ lost' = lost
        BY <1>0, <4>1
      <4> HIDE DEF a, h
      <4>6. pc'[c] = "return" => selectUser(a, s) = NULL
        BY <4>3
      <4>7. call'[c].op = "login" => pc'[c] \in {"return", "read"}
        BY <4>3
      <4>8. pc'[c] = "return" => Overlooked(users'[load'.home[call'[c].who]], call'[c].who, lost')
        BY <4>3, <4>4, <4>5, <4>6
      <4> QED BY <4>7, <4>8 DEF Refused
    <3>2. CASE Read(c)
      <4> DEFINE v == IF call[c].found = Garbage \/ call[c].found.id \in lost THEN Garbage
                      ELSE call[c].found.id
      <4>1. /\ pc'[c] = "return" /\ call[c].found \in User \cup {Garbage}
            /\ call'[c] = [call[c] EXCEPT !.answer = v]
        BY <1>0, <3>2 DEF Read, Go, CallsKnow, Locals
      <4>2. call'[c].answer # NULL
        <5>1. call[c].found \in User => call[c].found.id \in Int
          BY DEF User
        <5>2. call'[c].answer = v
          BY <1>0, <4>1 DEF Locals
        <5> QED BY <4>1, <5>1, <5>2, UserAssumption
      <4> QED BY <4>1, <4>2 DEF Refused
    <3>3. CASE Return(c)
      <4>1. call'[c] = NoCall
        BY <1>0, <3>3 DEF Return
      <4> QED BY <4>1 DEF NoCall, Refused
    <3>4. CASE CheckName(c) \/ InsertRow(c) \/ SelectRow(c) \/ DeleteRow(c) \/ DeleteUser(c)
      <4>1. call[c].op # "login"
        BY <1>0, <3>4 DEF LoginFacts, CheckName, InsertRow, SelectRow, DeleteRow, DeleteUser
      <4>2. call'[c].op = call[c].op
        <5>1. CASE CheckName(c)
          <6>1. call' = call \/ \E b : call' = [call EXCEPT ![c].at = b]
            BY <5>1 DEF CheckName, Undefined
          <6> QED BY <1>0, <6>1 DEF Locals
        <5> QED BY <2>3, <3>4, <5>1 DEF InsertRow, SelectRow, DeleteRow, Undefined, Fail
      <4> QED BY <4>1, <4>2 DEF Refused
    <3>5. ASSUME NEW a \in Accounts, Call(c, a)
          PROVE  /\ call'[c].op = "login" => pc'[c] \in {"find", "read", "return", "undefined"}
                 /\ Refused(c)'
      <4>1. PICK o, x : /\ pc' = [pc EXCEPT ![c] = x] /\ x # "return"
                        /\ o = "login" => x = "find"
                        /\ call' = [call EXCEPT ![c] = [NoCall EXCEPT !.op = o, !.who = a]]
        BY <3>5 DEF Call, Begin
      <4>2. call'[c].op = o /\ pc'[c] = x
        BY <1>0, <4>1 DEF NoCall
      <4> QED BY <4>1, <4>2 DEF Refused
    <3> QED BY <1>5, <3>0, <3>1, <3>2, <3>3, <3>4, <3>5 DEF Client
  <2> QED BY <1>1, <2>4, <2>5 DEF LoginFacts
<1> QED BY <1>2, <1>3, <1>4, <1>5 DEF Next

\* Called one at a time under the conditions of TableIsCopy, login refuses someone the
\* database has only if the user's strings are lost or the user is the first of a longer
\* chain, the one place where selectUser does not look.
THEOREM LoginFinds == Spec => []LoginWorks
<1>1. Init => LoginInv
  <2>1. ASSUME Init PROVE LoginFacts
    BY <2>1 DEF Init, LoginFacts, Refused, NoCall
  <2> QED BY <2>1, CopyInit DEF LoginInv
<1>2. LoginInv => LoginWorks
  <2> SUFFICES ASSUME LoginInv, NEW c \in Clients, pc[c] = "return", call[c].op = "login",
                      call[c].answer = NULL, load.serial, Fair, NEW i \in rows, given[i] = call[c].who
               PROVE  LET chain == users[load.home[given[i]]]
                      IN i \in lost \/ (Len(chain) > 1 /\ Head(chain).id = i)
    BY DEF LoginWorks
  <2> DEFINE a == given[i]
             chain == users[load.home[a]]
  <2>0. /\ TypeOK /\ CallsKept /\ TableOwned
        /\ \A d \in Clients : d # c => pc[d] = "idle"
    BY DEF LoginInv, CopyInv, NamesInv, TypeInv, CallsKept
  <2>1. CopyKept
    BY <2>0 DEF Fair, CopyKept, Defined
  <2>2. Present /\ Overlooked(chain, a, lost)
    BY <2>1 DEF LoginInv, CopyInv, CopyFacts, Fair, LoginFacts, Refused
  <2>3. \E h \in Buckets : \E k \in DOMAIN users[h] : users[h][k].id = i
    BY <2>0, <2>2 DEF Present
  <2>4. PICK h \in Buckets : \E k \in DOMAIN users[h] : users[h][k].id = i
    BY <2>3
  <2>5. PICK k \in DOMAIN users[h] : users[h][k].id = i
    BY <2>4
  <2>6. Owned(users[h][k], given) /\ load.home[users[h][k].who] = h
    BY <2>0 DEF TableOwned
  <2>7. users[h][k].who = a /\ users[h] = chain
    BY <2>5, <2>6 DEF Owned
  <2>8. chain \in Seq(User)
    BY <2>0, <2>7 DEF TypeOK
  <2>9. k \in DOMAIN chain /\ chain[k].id = i /\ (i \in lost \/ (Len(chain) > 1 /\ ~(k > 1)))
    BY <2>2, <2>5, <2>7 DEF Overlooked
  <2> HIDE DEF chain
  <2>10. k \in Nat /\ k >= 1
    BY <2>8, <2>9, LenProperties
  <2>11. ~(k > 1) => k = 1
    BY <2>10
  <2>12. i \in lost \/ (Len(chain) > 1 /\ Head(chain).id = i)
    BY <2>8, <2>9, <2>11
  <2> QED BY <2>12 DEF chain
<1> QED BY <1>1, <1>2, LoginNext, PTL DEF Spec
=============================================================================
