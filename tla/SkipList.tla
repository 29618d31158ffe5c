------------------------------- MODULE SkipList -------------------------------
(***************************************************************************)
(* The skip list of src/src/skip_list.cpp that holds one table: a heap of  *)
(* nodes, a list of them per level, and the operations insert, find and    *)
(* remove, each a single step of one thread.                               *)
(*                                                                         *)
(* Level i starts at its header, the node at address i.  Not modelled:     *)
(* nodes that nothing points to (leaked memory), removal of the header's   *)
(* own key -10, which frees the headers, and a drawn level of MAX_LEVEL or *)
(* more, which writes past two arrays.                                     *)
(***************************************************************************)
EXTENDS Integers, Sequences, FiniteSets

CONSTANTS Keys, Data, NULL,
          MaxLevel,     \* MAX_LEVEL
          MaxInserts    \* bound: calls of insert_x_into_skip_list

HeaderKey == -10

ASSUME SkipAssumption ==
  /\ Keys \subseteq Int /\ MaxLevel \in Nat \ {0} /\ MaxInserts \in Nat
  /\ NULL \notin Nat

VARIABLES node,       \* the heap: address |-> [key, right, down, list]
          max_level, size

vars == <<node, max_level, size>>

Levels == 0..MaxLevel-1
Address == 0..MaxLevel * (MaxInserts + 1) - 1   \* enough for a tower per insertion

\* skip_list_init: the headers, connected downwards.
Init ==
  /\ node = [i \in Levels |-> [key |-> HeaderKey, right |-> NULL,
                               down |-> IF i = 0 THEN NULL ELSE i - 1, list |-> <<>>]]
  /\ max_level = 0 /\ size = 0
-----------------------------------------------------------------------------
\* The last node of level i before x, where insert_x_into_list leaves prev.
Prev(i, x) ==
  LET walk[n \in DOMAIN node] ==
        IF node[n].right # NULL /\ x > node[node[n].right].key THEN walk[node[n].right] ELSE n
  IN walk[i]

\* Mutant: the node that already holds x is not noticed.
AlreadyThere_Unnoticed(i, x) == FALSE

\* Level i holds x: the new data joins that node's list.
AlreadyThere(i, x) ==
  LET r == node[Prev(i, x)].right IN r # NULL /\ node[r].key = x

\* malloc: distinct unused addresses for the levels.
New(i) ==
  LET free == Address \ DOMAIN node
  IN CHOOSE a \in free : Cardinality({b \in free : b < a}) = i

\* insert_x_into_list on the levels up to the drawn one, then the links down.  A key not
\* above the header's gets nodes that are linked nowhere.
Insert(x, d, level) ==
  LET drawn == 0..level
      place == [i \in drawn |-> IF AlreadyThere(i, x) THEN node[Prev(i, x)].right ELSE New(i)]
      fresh == {i \in drawn : ~AlreadyThere(i, x)}
      Below(i) == IF i = 0 THEN NULL ELSE place[i - 1]
      After(a) == IF \E i \in fresh : a = Prev(i, x)
                  THEN place[CHOOSE i \in fresh : a = Prev(i, x)] ELSE node[a].right
      Put(a) == CASE \E i \in fresh : a = place[i] ->
                       LET i == CHOOSE j \in fresh : a = place[j]
                       IN [key |-> x, right |-> node[Prev(i, x)].right, down |-> Below(i),
                           list |-> <<d>>]
                  [] \E i \in drawn \ fresh : a = place[i] ->
                       LET i == CHOOSE j \in drawn : a = place[j]
                       IN [node[a] EXCEPT !.list = Append(@, d), !.down = Below(i)]
                  [] OTHER -> [node[a] EXCEPT !.right = After(a)]
  IN /\ size < MaxInserts
     /\ max_level' = IF level > max_level THEN level ELSE max_level
     /\ node' = IF x <= HeaderKey THEN node
                ELSE [a \in DOMAIN node \cup {place[i] : i \in drawn} |-> Put(a)]
     /\ size' = size + 1
-----------------------------------------------------------------------------
\* The nodes of level i.
On(i) ==
  LET from[n \in DOMAIN node \cup {NULL}] == IF n = NULL THEN {} ELSE {n} \cup from[node[n].right]
  IN from[i]

\* Mutant: the highest level is left out.
Removed_BelowTop == 0..max_level-1

Removed == 0..max_level   \* the levels a removal visits

\* Mutant: the node before is not linked past the one that is freed.
Past_Kept(n, x) == n

\* The next node that stays when x goes.
Past(n, x) ==
  LET skip[m \in DOMAIN node \cup {NULL}] ==
        IF m = NULL THEN NULL ELSE IF node[m].key = x THEN skip[node[m].right] ELSE m
  IN skip[n]

\* remove_data_from_list on every level up to the highest; size is left as it was.
Remove(x) ==
  /\ x # HeaderKey
  /\ LET visited == UNION {On(i) : i \in Removed}
         kept == {a \in DOMAIN node : a \in visited => node[a].key # x}
     IN node' = [a \in kept |-> IF a \in visited THEN [node[a] EXCEPT !.right = Past(@, x)]
                                                 ELSE node[a]]
  /\ UNCHANGED <<max_level, size>>
-----------------------------------------------------------------------------
\* find_x_from_skip_list
Find(x) ==
  LET search[h \in DOMAIN node \cup {NULL}] ==
        IF h = NULL THEN NULL
        ELSE IF node[h].key = x /\ node[h].down = NULL THEN h
        ELSE IF x >= node[h].key /\ (node[h].right = NULL \/ node[node[h].right].key > x)
             THEN search[node[h].down]
        ELSE IF x < node[h].key THEN NULL
        ELSE search[node[h].right]
  IN search[max_level]

\* get_current_level draws any level.
Next == \E x \in Keys : Remove(x) \/ \E d \in Data, level \in Levels : Insert(x, d, level)

Spec == Init /\ [][Next]_vars
-----------------------------------------------------------------------------
(* Properties *)

\* The types of struct node and skip_list: every pointer is NULL or points to a live node.
TypeOK ==
  /\ DOMAIN node \in SUBSET Address /\ Levels \subseteq DOMAIN node
  /\ \A a \in DOMAIN node :
       /\ node[a].key \in Keys \cup {HeaderKey} /\ node[a].list \in Seq(Data)
       /\ {node[a].right, node[a].down} \subseteq DOMAIN node \cup {NULL}
  /\ max_level \in Levels /\ size \in 0..MaxInserts

\* The levels are strictly sorted and nested: a node stands on a node of the same key one level
\* down, every live node is on a level, and none is above max_level, where find starts.
LevelsNest ==
  /\ DOMAIN node = UNION {On(i) : i \in Levels}
  /\ \A i \in Levels :
       /\ \A n \in On(i) : node[n].right # NULL => node[n].key < node[node[n].right].key
       /\ \A n \in On(i) : IF i = 0 THEN node[n].down = NULL
                           ELSE node[n].down \in On(i - 1) /\ node[node[n].down].key = node[n].key
       /\ i > max_level => On(i) = {i}

Stamps == {x \in Keys : x > HeaderKey}
Series == [x \in Stamps |-> IF Find(x) = NULL THEN <<>> ELSE node[Find(x)].list]

Table == INSTANCE TimeSeries WITH series <- Series

\* For every key above the header's, what find returns is what was inserted since the key was
\* last removed, whatever levels were drawn; smaller keys leave no trace.
IsTimeSeries == Table!Spec
=============================================================================
