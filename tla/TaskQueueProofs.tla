--------------------------- MODULE TaskQueueProofs ---------------------------
(***************************************************************************)
(* The ring of the pool, its indices and the workers' locals implement the *)
(* bounded FIFO of TaskQueue, for every size of the ring and every number  *)
(* of tasks, clients and workers.                                          *)
(***************************************************************************)
EXTENDS ThreadPoolProofs

Held    == {adding[a] : a \in Adders} \ {NULL}   \* brought and not yet stored
Fresh   == todo \cup Held
Started == Running \cup finished

\* The k-th cell, from 1, of a queue whose front is f.
Cell(f, k) == (f + k - 1) % QueueMax

RingInv ==
  /\ queue_size \in 0..QueueMax
  /\ queue_rear = (queue_front + queue_size) % QueueMax

\* A worker has a task exactly while it is about to run it or runs it; no two have the same.
WorkersHold ==
  /\ \A w \in Slots : task[w] # NULL <=> worker[w] \in {"taken", "running"}
  /\ \A v, w \in Slots : task[v] = task[w] /\ task[v] # NULL => v = w

\* So it is with the adders and what they bring.
AddersHold ==
  /\ \A a \in Adders : adding[a] # NULL <=> adder[a] # "idle"
  /\ \A a, b \in Adders : adding[a] = adding[b] /\ adding[a] # NULL => a = b
  /\ \A a \in Adders : adding[a] \notin todo

\* A task is in one place: with a client, in the ring or started.  A slot keeps the argument
\* of a task that was taken from it.
OnePlace ==
  /\ \A i \in Ring : slot[i] \notin Fresh
  /\ \A i, j \in Ring : slot[i] = slot[j] /\ slot[i] \in Tasks => i = j
  /\ \A k \in 1..queue_size : slot[Cell(queue_front, k)] \in Tasks \ Started
  /\ Started \subseteq Tasks \ Fresh
  /\ Running \cap finished = {}

QueueInv == RingInv /\ WorkersHold /\ AddersHold /\ OnePlace

\* What is freed was started, or left by malloc; so is what is in a slot beyond the queue.
FreedInv ==
  /\ freed \subseteq Started \cup {Junk}
  /\ \A i \in Ring : slot[i] \notin freed \ {Junk}
  /\ \A i \in Ring : slot[i] \in Started \cup {NULL, Junk} \/ \E k \in 1..queue_size : Cell(queue_front, k) = i

\* Without overlap nobody is in threadPool_add once the pool shuts down.
Calm == shutdown => \A a \in Adders : adder[a] = "idle"
-----------------------------------------------------------------------------
(* The ring *)

LEMMA Wraps ==
  /\ \A x \in Ring : \A y \in 0..QueueMax :
       (x + y) % QueueMax = IF x + y < QueueMax THEN x + y ELSE x + y - QueueMax
  /\ \A x \in Ring : After(x) = IF x + 1 < QueueMax THEN x + 1 ELSE 0
  BY PoolAssumption DEF Ring, After

LEMMA CellIs ==
  ASSUME NEW f \in Ring, NEW k \in 1..QueueMax+1
  PROVE  Cell(f, k) = IF f + k - 1 < QueueMax THEN f + k - 1 ELSE f + k - 1 - QueueMax
<1>1. k - 1 \in 0..QueueMax /\ f + k - 1 = f + (k - 1)
  BY PoolAssumption DEF Ring
<1> QED BY <1>1, Wraps DEF Cell

\* Different places of a queue are different slots.
LEMMA Cells ==
  ASSUME NEW f \in Ring
  PROVE  /\ \A k \in 1..QueueMax : Cell(f, k) \in Ring
         /\ \A k, m \in 1..QueueMax : Cell(f, k) = Cell(f, m) => k = m
         /\ Cell(f, 1) = f
         /\ \A k \in 1..QueueMax : Cell(After(f), k) = Cell(f, k + 1)
<1>1. \A k \in 1..QueueMax+1 : Cell(f, k) = IF f + k - 1 < QueueMax THEN f + k - 1
                                                                  ELSE f + k - 1 - QueueMax
  BY CellIs
<1>2. After(f) \in Ring
  BY AfterInRing
<1>3. \A k \in 1..QueueMax : Cell(After(f), k) = IF After(f) + k - 1 < QueueMax
                               THEN After(f) + k - 1 ELSE After(f) + k - 1 - QueueMax
  BY <1>2, CellIs, PoolAssumption
<1>4. After(f) = IF f + 1 < QueueMax THEN f + 1 ELSE 0
  BY Wraps
<1>5. f \in Nat /\ f < QueueMax /\ QueueMax \in Nat
  BY PoolAssumption DEF Ring
<1>6. ASSUME NEW k \in 1..QueueMax
      PROVE  Cell(f, k) \in Ring /\ Cell(After(f), k) = Cell(f, k + 1)
  BY <1>1, <1>3, <1>4, <1>5 DEF Ring
<1>7. ASSUME NEW k \in 1..QueueMax, NEW m \in 1..QueueMax, Cell(f, k) = Cell(f, m)
      PROVE  k = m
  BY <1>1, <1>5, <1>7
<1>8. Cell(f, 1) = f
  BY <1>1, <1>5
<1> QED BY <1>6, <1>7, <1>8

\* The queue of n tasks with front f, as a sequence.
Queue(s, f, n) == [k \in 1..n |-> s[Cell(f, k)]]

LEMMA QueueSeq ==
  ASSUME NEW V, NEW s \in [Ring -> V], NEW f \in Ring, NEW n \in 0..QueueMax
  PROVE  /\ Queue(s, f, n) \in Seq(V) /\ Len(Queue(s, f, n)) = n
         /\ \A k \in 1..n : Queue(s, f, n)[k] = s[Cell(f, k)]
<1>1. \A k \in 1..n : s[Cell(f, k)] \in V
  BY Cells, PoolAssumption
<1> QED BY <1>1, PoolAssumption DEF Queue

PendingIs ==
  /\ Pending \in Seq(Tasks \cup {NULL, Junk}) /\ Len(Pending) = queue_size
  /\ \A k \in 1..queue_size : Pending[k] = slot[Cell(queue_front, k)]

LEMMA PendingSeq == ASSUME TypeOK, RingInv PROVE PendingIs
<1>1. Pending = Queue(slot, queue_front, queue_size)
  BY DEF Pending, Queue, Cell
<1>2. slot \in [Ring -> Tasks \cup {NULL, Junk}] /\ queue_front \in Ring /\ queue_size \in 0..QueueMax
  BY DEF TypeOK, RingInv
<1>3. /\ Pending \in Seq(Tasks \cup {NULL, Junk}) /\ Len(Pending) = queue_size
      /\ \A k \in 1..queue_size : Pending[k] = slot[Cell(queue_front, k)]
  BY <1>1, <1>2, QueueSeq
<1> QED BY <1>3 DEF PendingIs

\* threadPool_add appends to the queue ...
LEMMA StoreAppends ==
  ASSUME TypeOK, RingInv, HasRoom, NEW t \in Tasks, Store(t)
  PROVE  /\ RingInv' /\ Pending' = Append(Pending, t)
         /\ \A k \in 1..queue_size : Cell(queue_front, k) # queue_rear
         /\ Cell(queue_front, queue_size + 1) = queue_rear
<1>1. queue_size \in 0..QueueMax-1 /\ queue_size' = queue_size + 1 /\ queue_front' = queue_front
  BY PoolAssumption DEF HasRoom, Store, RingInv, TypeOK
<1>2. RingInv'
  <2>1. (queue_front + (queue_size + 1)) % QueueMax = After(queue_rear)
    <3>1. queue_size + 1 \in 0..QueueMax /\ queue_size \in 0..QueueMax
      BY <1>1, PoolAssumption
    <3>2. queue_front \in Ring /\ queue_rear \in Ring
      BY DEF TypeOK
    <3>3. queue_rear = IF queue_front + queue_size < QueueMax
                       THEN queue_front + queue_size ELSE queue_front + queue_size - QueueMax
      BY <3>1, <3>2, Wraps DEF RingInv
    <3>4. (queue_front + (queue_size + 1)) % QueueMax =
            IF queue_front + (queue_size + 1) < QueueMax
            THEN queue_front + (queue_size + 1) ELSE queue_front + (queue_size + 1) - QueueMax
      BY <3>1, <3>2, Wraps
    <3>5. After(queue_rear) = IF queue_rear + 1 < QueueMax THEN queue_rear + 1 ELSE 0
      BY <3>2, Wraps
    <3> QED BY <3>1, <3>2, <3>3, <3>4, <3>5, PoolAssumption DEF Ring
  <2> QED BY <1>1, <2>1, PoolAssumption DEF Store, RingInv
<1>3. Cell(queue_front, queue_size + 1) = queue_rear
  BY <1>1 DEF Cell, RingInv, TypeOK
<1>4. \A k \in 1..queue_size : Cell(queue_front, k) # queue_rear
  BY <1>1, <1>3, Cells, PoolAssumption DEF TypeOK
<1>5. \A k \in 1..queue_size + 1 :
        slot'[Cell(queue_front, k)] = IF k = queue_size + 1 THEN t ELSE slot[Cell(queue_front, k)]
  BY <1>1, <1>3, <1>4, Cells DEF Store, TypeOK
<1>6. slot' \in [Ring -> Tasks \cup {NULL, Junk}]
  BY DEF Store, TypeOK
<1>7. PendingIs
  BY PendingSeq
<1>8. /\ Pending' \in Seq(Tasks \cup {NULL, Junk}) /\ Len(Pending') = queue_size + 1
      /\ \A k \in 1..queue_size + 1 : Pending'[k] = slot'[Cell(queue_front, k)]
  <2>1. Pending' = Queue(slot', queue_front, queue_size + 1)
    BY <1>1 DEF Pending, Queue, Cell
  <2>2. queue_size + 1 \in 0..QueueMax /\ queue_front \in Ring
    BY <1>1, PoolAssumption DEF TypeOK
  <2> QED BY <1>6, <2>1, <2>2, QueueSeq
<1>9. Pending' = Append(Pending, t)
  BY <1>1, <1>5, <1>7, <1>8 DEF PendingIs
<1> QED BY <1>2, <1>3, <1>4, <1>9

\* ... and a worker takes the first.
LEMMA TakePops ==
  ASSUME TypeOK, RingInv, queue_size # 0, NEW w \in Slots, Take(w)
  PROVE  /\ RingInv' /\ Pending # <<>> /\ Pending' = Tail(Pending)
         /\ Head(Pending) = slot[queue_front] /\ slot' = slot
         /\ \A k \in 1..queue_size' : Cell(queue_front', k) = Cell(queue_front, k + 1)
<1>1. /\ queue_size \in 1..QueueMax /\ queue_size' = queue_size - 1
      /\ queue_front' = After(queue_front) /\ queue_front' \in Ring
      /\ slot' = slot /\ queue_rear' = queue_rear
  BY AfterInRing, PoolAssumption DEF Take, RingInv, TypeOK
<1>2. RingInv'
  <2>1. (After(queue_front) + (queue_size - 1)) % QueueMax = queue_rear
    <3>1. queue_size - 1 \in 0..QueueMax /\ queue_size \in 0..QueueMax
      BY <1>1, PoolAssumption
    <3>2. queue_front \in Ring /\ After(queue_front) \in Ring
      BY AfterInRing DEF TypeOK
    <3>3. queue_rear = IF queue_front + queue_size < QueueMax
                       THEN queue_front + queue_size ELSE queue_front + queue_size - QueueMax
      BY <3>1, <3>2, Wraps DEF RingInv
    <3>4. (After(queue_front) + (queue_size - 1)) % QueueMax =
            IF After(queue_front) + (queue_size - 1) < QueueMax
            THEN After(queue_front) + (queue_size - 1)
            ELSE After(queue_front) + (queue_size - 1) - QueueMax
      BY <3>1, <3>2, Wraps
    <3>5. After(queue_front) = IF queue_front + 1 < QueueMax THEN queue_front + 1 ELSE 0
      BY <3>2, Wraps
    <3> QED BY <1>1, <3>1, <3>2, <3>3, <3>4, <3>5, PoolAssumption DEF Ring
  <2> QED BY <1>1, <2>1, PoolAssumption DEF RingInv
<1>3. \A k \in 1..queue_size - 1 : Cell(queue_front', k) = Cell(queue_front, k + 1)
  BY <1>1, Cells, PoolAssumption DEF TypeOK
<1>4. PendingIs
  BY PendingSeq
<1>5. /\ Pending' \in Seq(Tasks \cup {NULL, Junk}) /\ Len(Pending') = queue_size - 1
      /\ \A k \in 1..queue_size - 1 : Pending'[k] = slot[Cell(queue_front', k)]
  <2>1. Pending' = Queue(slot, queue_front', queue_size - 1)
    BY <1>1 DEF Pending, Queue, Cell
  <2>2. queue_size - 1 \in 0..QueueMax /\ slot \in [Ring -> Tasks \cup {NULL, Junk}]
    BY <1>1, PoolAssumption DEF TypeOK
  <2> QED BY <1>1, <2>1, <2>2, QueueSeq
<1>6. Pending' = Tail(Pending) /\ Pending # <<>>
  BY <1>1, <1>3, <1>4, <1>5 DEF PendingIs
<1>7. Head(Pending) = slot[queue_front]
  BY <1>1, <1>4, <1>6, Cells DEF PendingIs, TypeOK
<1> QED BY <1>1, <1>2, <1>3, <1>6, <1>7
-----------------------------------------------------------------------------
(* What the steps do to the queue *)

AtTask == {"taken", "running"}

Stays ==
  /\ UNCHANGED <<ring, task, adding, todo, freed, finished>>
  /\ \A w \in Slots : worker'[w] \in AtTask <=> worker[w] \in AtTask
  /\ \A a \in Adders : adder'[a] = "idle" <=> adder[a] = "idle"

LEMMA QueueInit == Init => QueueInv /\ TQ!Init
<1> SUFFICES ASSUME Init PROVE QueueInv /\ TQ!Init
  OBVIOUS
<1>1. Held = {} /\ Running = {} /\ queue_size = 0 /\ finished = {}
  BY DEF Init, Held, Running
<1>2. RingInv
  BY PoolAssumption DEF Init, RingInv
<1>3. WorkersHold /\ AddersHold
  BY NamesAssumption DEF Init, WorkersHold, AddersHold
<1>4. \A i \in Ring : slot[i] \notin Tasks
  BY NamesAssumption DEF Init
<1>5. OnePlace
  BY <1>1, <1>4 DEF Init, OnePlace, Fresh, Started
<1>6. Pending = <<>>
  BY <1>1 DEF Pending
<1> QED BY <1>1, <1>2, <1>3, <1>5, <1>6 DEF QueueInv, TQ!Init

LEMMA StaysQueue ==
  ASSUME QueueInv, Stays PROVE QueueInv' /\ UNCHANGED <<Pending, Running, finished>>
<1>1. UNCHANGED <<slot, queue_front, queue_rear, queue_size, task, adding, todo, finished>>
  BY DEF Stays, ring
<1>2. Pending' = Pending /\ Running' = Running /\ Held' = Held /\ Fresh' = Fresh /\ Started' = Started
  BY <1>1 DEF Pending, Running, Held, Fresh, Started
<1>3. RingInv' /\ OnePlace'
  BY <1>1, <1>2 DEF QueueInv, RingInv, OnePlace, Cell
<1>4. WorkersHold' /\ AddersHold'
  BY <1>1 DEF QueueInv, WorkersHold, AddersHold, Stays, AtTask
<1> QED BY <1>1, <1>2, <1>3, <1>4 DEF QueueInv

\* A worker starts the oldest task.
LEMMA TakeStarts ==
  ASSUME TypeOK, QueueInv, NEW w \in Slots, worker[w] \notin AtTask, queue_size # 0, Take(w),
         UNCHANGED <<adding, todo, finished>>
  PROVE  /\ QueueInv' /\ TQ!Start
         /\ Started' = Started \cup {slot[queue_front]} /\ slot' = slot
         /\ \A k \in 1..queue_size' : Cell(queue_front', k) = Cell(queue_front, k + 1)
<1> DEFINE t == slot[queue_front]
<1>1. /\ RingInv' /\ Pending # <<>> /\ Pending' = Tail(Pending) /\ Head(Pending) = t
      /\ slot' = slot
      /\ \A k \in 1..queue_size' : Cell(queue_front', k) = Cell(queue_front, k + 1)
  BY TakePops DEF QueueInv
<1>2. /\ queue_size \in 1..QueueMax /\ queue_size' = queue_size - 1 /\ QueueMax \in Nat
      /\ queue_front \in Ring
  BY PoolAssumption DEF Take, QueueInv, RingInv, TypeOK
<1>3. t = slot[Cell(queue_front, 1)] /\ t \in Tasks \ Started
  BY <1>2, Cells DEF QueueInv, OnePlace
<1>4. task' = [task EXCEPT ![w] = t] /\ worker' = [worker EXCEPT ![w] = "taken"]
  BY DEF Take, Goto
<1>5. task[w] = NULL /\ t # NULL
  BY <1>3, NamesAssumption DEF QueueInv, WorkersHold, AtTask
<1>6. Running' = Running \cup {t}
  BY <1>4, <1>5 DEF Running, TypeOK
<1>7. Started' = Started \cup {t} /\ Held' = Held /\ Fresh' = Fresh
  BY <1>6 DEF Started, Held, Fresh
<1>8. WorkersHold'
  <2>1. \A v \in Slots : v # w => task[v] # t
    BY <1>3, <1>5 DEF Started, Running
  <2> QED BY <1>4, <1>5, <2>1 DEF QueueInv, WorkersHold, TypeOK
<1>9. AddersHold'
  <2>1. \A a \in Adders : adder'[a] = "idle" <=> adder[a] = "idle"
    BY DEF Take, BroadcastNotFull
  <2> QED BY <2>1 DEF QueueInv, AddersHold
<1>10. OnePlace'
  <2>1. \A k \in 1..queue_size' : slot'[Cell(queue_front', k)] \in Tasks \ Started'
    <3> SUFFICES ASSUME NEW k \in 1..queue_size - 1
                 PROVE  slot[Cell(queue_front, k + 1)] \in Tasks \ (Started \cup {t})
      BY <1>1, <1>2, <1>7
    <3>1. k + 1 \in 1..queue_size /\ k + 1 \in 1..QueueMax /\ k + 1 # 1 /\ 1 \in 1..QueueMax
      BY <1>2
    <3>2. slot[Cell(queue_front, k + 1)] \in Tasks \ Started
      BY <3>1 DEF QueueInv, OnePlace
    <3>3. Cell(queue_front, k + 1) # Cell(queue_front, 1)
      BY <1>2, <3>1, Cells
    <3>4. Cell(queue_front, k + 1) \in Ring /\ Cell(queue_front, 1) \in Ring
      BY <1>2, <3>1, Cells
    <3> QED BY <1>3, <3>2, <3>3, <3>4 DEF QueueInv, OnePlace
  <2>2. t \notin Fresh
    BY <1>2 DEF QueueInv, OnePlace
  <2>3. Running' \cap finished' = {}
    BY <1>3, <1>6 DEF QueueInv, OnePlace, Started
  <2>4. Started' \subseteq Tasks \ Fresh'
    BY <1>3, <1>7, <2>2 DEF QueueInv, OnePlace
  <2> QED BY <1>1, <1>7, <2>1, <2>3, <2>4 DEF QueueInv, OnePlace
<1> QED BY <1>1, <1>6, <1>7, <1>8, <1>9, <1>10 DEF QueueInv, TQ!Start

\* A task's function returns.
LEMMA FinishFinishes ==
  ASSUME TypeOK, QueueInv, NEW w \in Slots, WorkerFinish(w)
  PROVE  QueueInv' /\ TQ!Finish(task[w]) /\ Started' = Started
<1> DEFINE t == task[w]
<1>1. /\ worker[w] = "running" /\ worker' = [worker EXCEPT ![w] = "lock"]
      /\ task' = [task EXCEPT ![w] = NULL] /\ finished' = finished \cup {t}
      /\ UNCHANGED <<slot, queue_front, queue_rear, queue_size, adder, adding, todo>>
  BY DEF WorkerFinish, Goto, ring, clients
<1>2. t # NULL /\ t \in Running /\ \A v \in Slots : v # w => task[v] # t
  BY <1>1 DEF QueueInv, WorkersHold, Running
<1>3. Running' = Running \ {t}
  BY <1>1, <1>2 DEF Running, TypeOK
<1>4. Started' = Started /\ Held' = Held /\ Fresh' = Fresh /\ Pending' = Pending
  BY <1>1, <1>2, <1>3 DEF Started, Held, Fresh, Pending
<1>5. WorkersHold'
  BY <1>1 DEF QueueInv, WorkersHold, TypeOK
<1>6. AddersHold' /\ RingInv'
  BY <1>1 DEF QueueInv, AddersHold, RingInv
<1>7. OnePlace'
  BY <1>1, <1>3, <1>4 DEF QueueInv, OnePlace, Cell
<1> QED BY <1>1, <1>2, <1>3, <1>4, <1>5, <1>6, <1>7 DEF QueueInv, TQ!Finish

\* A client brings a task t, or has brought it earlier and slept.
Brings(a, t) == t \in Tasks /\ ((adder[a] = "idle" /\ t \in todo) \/ t = adding[a])

LEMMA StoreSubmits ==
  ASSUME TypeOK, QueueInv, NEW a \in Adders, NEW t, Brings(a, t), HasRoom, Store(t),
         SignalNotEmpty, adder' = [adder EXCEPT ![a] = "idle"],
         adding' = [adding EXCEPT ![a] = NULL], todo' = todo \ {t}, UNCHANGED <<task, finished>>
  PROVE  QueueInv' /\ TQ!Submit(t)
<1>1. t \in Tasks /\ t \in Fresh
  BY NamesAssumption DEF Brings, Fresh, Held
<1>2. /\ RingInv' /\ Pending' = Append(Pending, t)
      /\ \A k \in 1..queue_size : Cell(queue_front, k) # queue_rear
      /\ Cell(queue_front, queue_size + 1) = queue_rear
  BY <1>1, StoreAppends DEF QueueInv
<1>3. /\ queue_size \in 0..QueueMax - 1 /\ queue_size' = queue_size + 1 /\ QueueMax \in Nat
      /\ queue_front \in Ring /\ queue_front' = queue_front
      /\ queue_rear \in Ring /\ slot' = [slot EXCEPT ![queue_rear] = t]
  BY PoolAssumption DEF Store, HasRoom, QueueInv, RingInv, TypeOK
<1>4. Running' = Running /\ Started' = Started
  BY DEF Running, Started
<1>5. Fresh' = Fresh \ {t}
  <2>1. \A b \in Adders : b # a => adding[b] # t
    BY <1>1, NamesAssumption DEF QueueInv, AddersHold, Brings
  <2>2. adding[a] = NULL \/ adding[a] = t
    BY DEF Brings, QueueInv, AddersHold
  <2>3. Held' = Held \ {t}
    BY <1>1, <2>1, <2>2, NamesAssumption DEF Held, TypeOK
  <2> QED BY <2>3 DEF Fresh
<1>6. WorkersHold'
  <2>1. \A w \in Slots : worker'[w] \in AtTask <=> worker[w] \in AtTask
    BY DEF SignalNotEmpty, Waiting, AtTask, TypeOK
  <2> QED BY <2>1 DEF QueueInv, WorkersHold, AtTask
<1>7. AddersHold'
  BY NamesAssumption DEF QueueInv, AddersHold, TypeOK
<1>8. t \notin Started /\ \A i \in Ring : slot[i] # t
  BY <1>1 DEF QueueInv, OnePlace
<1>9. \A i \in Ring : slot'[i] = IF i = queue_rear THEN t ELSE slot[i]
  BY <1>3 DEF TypeOK
<1>10. OnePlace'
  <2>1. \A k \in 1..queue_size + 1 : slot'[Cell(queue_front, k)] \in Tasks \ Started
    <3>1. ASSUME NEW k \in 1..queue_size
          PROVE  slot'[Cell(queue_front, k)] \in Tasks \ Started
      <4>1. k \in 1..QueueMax
        BY <1>3
      <4>2. Cell(queue_front, k) \in Ring
        BY <1>3, <4>1, Cells
      <4> QED BY <1>2, <1>9, <4>2 DEF QueueInv, OnePlace
    <3>2. slot'[Cell(queue_front, queue_size + 1)] \in Tasks \ Started
      BY <1>1, <1>2, <1>3, <1>8, <1>9
    <3> QED BY <1>3, <3>1, <3>2
  <2>2. \A i \in Ring : slot'[i] \notin Fresh'
    BY <1>5, <1>9 DEF QueueInv, OnePlace
  <2>3. \A i, j \in Ring : slot'[i] = slot'[j] /\ slot'[i] \in Tasks => i = j
    BY <1>8, <1>9 DEF QueueInv, OnePlace
  <2> QED BY <1>3, <1>4, <1>5, <2>1, <2>2, <2>3 DEF QueueInv, OnePlace
<1>11. TQ!Submit(t)
  <2>1. PendingIs
    BY PendingSeq DEF QueueInv
  <2>2. Len(Pending) < QueueMax
    BY <1>3, <2>1 DEF PendingIs
  <2>3. \A k \in DOMAIN Pending : Pending[k] # t
    <3> SUFFICES ASSUME NEW k \in DOMAIN Pending PROVE Pending[k] # t
      OBVIOUS
    <3>1. k \in 1..queue_size /\ k \in 1..QueueMax
      BY <1>3 DEF Pending
    <3>2. Cell(queue_front, k) \in Ring
      BY <1>3, <3>1, Cells
    <3> QED BY <1>8, <2>1, <3>1, <3>2 DEF PendingIs
  <2> QED BY <1>2, <1>4, <1>8, <2>2, <2>3 DEF TQ!Submit, TQ!Known, Started
<1> QED BY <1>2, <1>6, <1>7, <1>10, <1>11 DEF QueueInv

\* An adder that finds the ring full keeps its task while it sleeps.
LEMMA SleepKeeps ==
  ASSUME TypeOK, QueueInv, NEW a \in Adders, NEW t, Brings(a, t),
         adder' = [adder EXCEPT ![a] = "waiting"], adding' = [adding EXCEPT ![a] = t],
         todo' = todo \ {t}, UNCHANGED <<ring, worker, task, finished>>
  PROVE  QueueInv' /\ UNCHANGED <<Pending, Running, finished>>
<1>1. t \in Tasks /\ t # NULL
  BY NamesAssumption DEF Brings
<1>2. UNCHANGED <<slot, queue_front, queue_rear, queue_size, worker, task, finished>>
  BY DEF ring
<1>3. Pending' = Pending /\ Running' = Running /\ Started' = Started
  BY <1>2 DEF Pending, Running, Started
<1>4. \A b \in Adders : b # a => adding[b] # t
  BY <1>1, NamesAssumption DEF QueueInv, AddersHold, Brings
<1>5. Fresh' = Fresh
  <2>1. t \in Fresh
    BY <1>1 DEF Brings, Fresh, Held
  <2>2. adding[a] = NULL \/ adding[a] = t
    BY DEF Brings, QueueInv, AddersHold
  <2>3. Held' = Held \cup {t}
    BY <1>1, <2>2 DEF Held, TypeOK
  <2> QED BY <2>1, <2>3 DEF Fresh
<1>6. AddersHold'
  BY <1>1, <1>4 DEF QueueInv, AddersHold, TypeOK
<1>7. RingInv' /\ WorkersHold'
  BY <1>2 DEF QueueInv, RingInv, WorkersHold
<1>8. OnePlace'
  BY <1>2, <1>3, <1>5 DEF QueueInv, OnePlace, Cell
<1> QED BY <1>2, <1>3, <1>6, <1>7, <1>8 DEF QueueInv
-----------------------------------------------------------------------------
(* What is freed *)

LEMMA FreedInit == Init => FreedInv
  BY NamesAssumption DEF Init, FreedInv

LEMMA StaysFreed == ASSUME FreedInv, Stays PROVE FreedInv'
<1>1. UNCHANGED <<slot, queue_front, queue_rear, queue_size, task, freed, finished>>
  BY DEF Stays, ring
<1>2. Started' = Started
  BY <1>1 DEF Started, Running
<1> QED BY <1>1, <1>2 DEF FreedInv, Cell

LEMMA TakeFreed ==
  ASSUME TypeOK, QueueInv, FreedInv, NEW w \in Slots, worker[w] \notin AtTask, queue_size # 0,
         Take(w), UNCHANGED <<adding, todo, freed, finished>>
  PROVE  FreedInv'
<1>1. /\ Started' = Started \cup {slot[queue_front]} /\ slot' = slot
      /\ \A k \in 1..queue_size' : Cell(queue_front', k) = Cell(queue_front, k + 1)
  BY TakeStarts
<1>2. queue_size' = queue_size - 1 /\ queue_size \in 1..QueueMax /\ QueueMax \in Nat
      /\ Cell(queue_front, 1) = queue_front
  BY Cells, PoolAssumption DEF Take, QueueInv, RingInv, TypeOK
<1>3. ASSUME NEW i \in Ring, NEW k \in 1..queue_size, Cell(queue_front, k) = i
      PROVE  slot[i] \in Started' \/ \E m \in 1..queue_size' : Cell(queue_front', m) = i
  <2>1. CASE k = 1
    BY <1>1, <1>2, <1>3, <2>1
  <2>2. CASE k # 1
    <3>1. k - 1 \in 1..queue_size' /\ (k - 1) + 1 = k
      BY <1>2, <2>2
    <3>2. Cell(queue_front', k - 1) = i
      BY <1>1, <1>3, <3>1
    <3> QED BY <3>1, <3>2
  <2> QED BY <2>1, <2>2
<1> QED BY <1>1, <1>3 DEF FreedInv

LEMMA StoreFreed ==
  ASSUME TypeOK, QueueInv, FreedInv, NEW a \in Adders, NEW t, Brings(a, t), HasRoom, FreeArg,
         Store(t), UNCHANGED <<task, finished>>
  PROVE  FreedInv'
<1>1. t \in Tasks /\ t \in Fresh
  BY NamesAssumption DEF Brings, Fresh, Held
<1>2. /\ \A k \in 1..queue_size : Cell(queue_front, k) # queue_rear
      /\ Cell(queue_front, queue_size + 1) = queue_rear
  BY <1>1, StoreAppends DEF QueueInv
<1>3. /\ queue_size \in Nat /\ queue_size' = queue_size + 1
      /\ queue_front' = queue_front /\ queue_rear \in Ring
      /\ \A i \in Ring : slot'[i] = IF i = queue_rear THEN t ELSE slot[i]
  BY DEF Store, TypeOK
<1>4. Started' = Started
  BY DEF Started, Running
<1>5. freed' = freed \cup ({slot[queue_rear]} \ {NULL}) /\ slot[queue_rear] \in Started \cup {NULL, Junk}
  BY <1>2, <1>3 DEF FreeArg, FreedInv
<1>6. freed' \subseteq Started \cup {Junk}
  BY <1>5 DEF FreedInv
<1>7. ASSUME NEW i \in Ring PROVE slot'[i] \notin freed' \ {Junk}
  <2>1. CASE i = queue_rear
    BY <1>1, <1>3, <1>6, <2>1, NamesAssumption DEF QueueInv, OnePlace
  <2>2. CASE i # queue_rear
    <3>1. slot[i] = slot[queue_rear] => slot[i] \notin Tasks
      BY <1>3, <2>2 DEF QueueInv, OnePlace
    <3>2. Started \subseteq Tasks
      BY DEF QueueInv, OnePlace
    <3> QED BY <1>3, <1>5, <2>2, <3>1, <3>2 DEF FreedInv
  <2> QED BY <2>1, <2>2
<1>8. ASSUME NEW i \in Ring
      PROVE  slot'[i] \in Started \cup {NULL, Junk} \/ \E k \in 1..queue_size + 1 : Cell(queue_front, k) = i
  <2>1. CASE i = queue_rear
    BY <1>2, <1>3, <2>1
  <2>2. CASE i # queue_rear
    BY <1>3, <2>2 DEF FreedInv
  <2> QED BY <2>1, <2>2
<1> QED BY <1>3, <1>4, <1>6, <1>7, <1>8 DEF FreedInv
-----------------------------------------------------------------------------
(* Every step *)

Implements ==
  /\ QueueInv' /\ [TQ!Next]_<<Pending, Running, finished>>
  /\ FreedInv => FreedInv'

LEMMA StaysImplements == ASSUME QueueInv, Stays PROVE Implements
  BY StaysQueue, StaysFreed DEF Implements

LEMMA WorkerImplements == ASSUME TypeOK, QueueInv, NEW w \in Slots, Worker(w) PROVE Implements
<1>1. ASSUME worker[w] \in {"lock", "woken"}, TestQueue(w),
             UNCHANGED <<adding, todo, freed, finished>>
      PROVE  Implements
  <2>1. CASE queue_size # 0 /\ Take(w)
    <3>1. QueueInv' /\ TQ!Start
      BY <1>1, <2>1, TakeStarts DEF AtTask
    <3>2. FreedInv => FreedInv'
      BY <1>1, <2>1, TakeFreed DEF AtTask
    <3> QED BY <3>1, <3>2 DEF Implements, TQ!Next
  <2>2. CASE Goto(w, "exiting") /\ UNCHANGED <<ring, task, adder>>
    BY <1>1, <2>2, StaysImplements DEF Stays, Goto, AtTask, TypeOK
  <2>3. CASE Goto(w, "towait") /\ UNCHANGED <<ring, task, adder>>
    BY <1>1, <2>3, StaysImplements DEF Stays, Goto, AtTask, TypeOK
  <2> QED BY <1>1, <2>1, <2>2, <2>3 DEF TestQueue
<1>2. CASE WorkerLock(w)
  BY <1>1, <1>2 DEF WorkerLock, args
<1>3. CASE WorkerWake(w)
  <2>1. CASE TestQueue(w)
    BY <1>1, <1>3, <2>1 DEF WorkerWake, args
  <2>2. CASE Goto(w, "exiting") /\ UNCHANGED <<lock, ring, task, adder>>
    BY <1>3, <2>2, StaysImplements DEF WorkerWake, Stays, Goto, AtTask, TypeOK, args
  <2> QED BY <1>3, <2>1, <2>2 DEF WorkerWake
<1>4. CASE WorkerWait(w) \/ WorkerRun(w) \/ WorkerExit(w)
  BY <1>4, StaysImplements
  DEF WorkerWait, WorkerRun, WorkerExit, Stays, Goto, AtTask, TypeOK, clients, args
<1>5. CASE WorkerFinish(w)
  <2>1. task[w] \in Tasks
    BY <1>5, NamesAssumption DEF WorkerFinish, QueueInv, WorkersHold, OnePlace, Started, Running
  <2>2. QueueInv' /\ TQ!Finish(task[w]) /\ Started' = Started
    BY <1>5, FinishFinishes
  <2>3. FreedInv => FreedInv'
    BY <1>5, <2>2 DEF WorkerFinish, FreedInv, Cell, ring
  <2> QED BY <2>1, <2>2, <2>3 DEF Implements, TQ!Next
<1> QED BY <1>2, <1>3, <1>4, <1>5 DEF Worker

LEMMA SignalStays ==
  ASSUME TypeOK, SignalNotEmpty
  PROVE  \A w \in Slots : worker'[w] \in AtTask <=> worker[w] \in AtTask
  BY DEF SignalNotEmpty, Waiting, AtTask, TypeOK

LEMMA ManagerImplements == ASSUME TypeOK, QueueInv, Manager PROVE Implements
<1>1. CASE ManagerSpawn
  BY <1>1, StaysImplements
  DEF ManagerSpawn, is_thread_alive, Stays, Goto, AtTask, TypeOK, clients, args
<1>2. CASE ManagerSignal
  BY <1>2, SignalStays, StaysImplements DEF ManagerSignal, Stays, clients, args
<1>3. CASE \/ ManagerTop \/ ManagerSample \/ ManagerCount \/ ManagerGrow
           \/ ManagerSpawned \/ ManagerShrink \/ ManagerSignalled
  BY <1>3, StaysImplements
  DEF ManagerTop, ManagerSample, ManagerCount, ManagerGrow, ManagerSpawned, ManagerShrink,
      ManagerSignalled, Stays, pool, clients, args
<1> QED BY <1>1, <1>2, <1>3 DEF Manager

LEMMA ClientImplements ==
  ASSUME TypeOK, UnlockedAtShutdown, QueueInv, ~shutdown,
         NEW a \in Adders, Adder(a) \/ \E t \in todo : AddCall(a, t)
  PROVE  Implements
<1>1. PICK t : /\ Brings(a, t) /\ TestRoom(a, t) /\ todo' = todo \ {t}
               /\ UNCHANGED <<task, finished>>
  <2>1. ASSUME NEW t \in todo, AddCall(a, t)
        PROVE  /\ Brings(a, t) /\ TestRoom(a, t) /\ todo' = todo \ {t}
               /\ UNCHANGED <<task, finished>>
    BY <2>1 DEF AddCall, Brings, TypeOK
  <2>2. ASSUME AddWake(a)
        PROVE  /\ Brings(a, adding[a]) /\ TestRoom(a, adding[a]) /\ todo' = todo \ {adding[a]}
               /\ UNCHANGED <<task, finished>>
    BY <2>2 DEF AddWake, Brings, QueueInv, AddersHold, TypeOK, args
  <2> QED BY <2>1, <2>2
          DEF Adder, AddUnlockedFree, AddUnlockedStore, AddUnlockAgain, UnlockedAtShutdown
<1>2. CASE HasRoom
  <2>1. t \in Tasks
    BY <1>1 DEF Brings
  <2>2. QueueInv' /\ TQ!Submit(t)
    BY <1>1, <1>2, StoreSubmits DEF TestRoom
  <2>3. FreedInv => FreedInv'
    BY <1>1, <1>2, StoreFreed DEF TestRoom
  <2> QED BY <2>1, <2>2, <2>3 DEF Implements, TQ!Next
<1>3. CASE ~HasRoom
  <2>1. UNCHANGED <<ring, freed>>
    BY <1>3 , <1>1 DEF TestRoom
  <2>2. QueueInv' /\ UNCHANGED <<Pending, Running, finished>>
    BY <1>1, <1>3, SleepKeeps DEF TestRoom
  <2>3. FreedInv => FreedInv'
    BY <2>1, <2>2 DEF FreedInv, Started, Cell, ring
  <2> QED BY <2>2, <2>3 DEF Implements
<1> QED BY <1>2, <1>3

LEMMA DestroyerImplements == ASSUME TypeOK, QueueInv, DestroyCall \/ Destroyer PROVE Implements
<1>1. CASE DestroyBroadcast
  BY <1>1, StaysImplements
  DEF DestroyBroadcast, BroadcastNotEmpty, Stays, AtTask, TypeOK, clients, args
<1>2. CASE DestroyJoin
  BY <1>2, StaysImplements DEF DestroyJoin, Goto, Stays, AtTask, TypeOK, clients, args
<1>3. CASE DestroyCall \/ DestroyJoinManager \/ DestroyNext \/ DestroyFreeArrays \/ DestroyFreePool
  BY <1>3, StaysImplements DEF DestroyCall, DestroyJoinManager, DestroyNext, DestroyFreeArrays,
                               DestroyFreePool, Stays, pool, clients, args
<1> QED BY <1>1, <1>2, <1>3 DEF Destroyer

LEMMA IdleImplements ==
  ASSUME TypeOK, QueueInv, SpuriousWakeup \/ UNCHANGED vars PROVE Implements
<1>1. CASE SpuriousWakeup
  BY <1>1, StaysImplements
  DEF SpuriousWakeup, Waiting, Stays, AtTask, TypeOK, clients, args
<1>2. CASE UNCHANGED vars
  BY <1>2, StaysImplements DEF vars, pool, Stays, clients, args
<1> QED BY <1>1, <1>2

\* Every step but that of a client after shutdown implements one of the queue, or none.
LEMMA QueueStep ==
  ASSUME TypeOK, UnlockedAtShutdown, QueueInv, [Next]_vars,
         shutdown => \A a \in Adders : ~Adder(a) /\ \A t \in todo : ~AddCall(a, t)
  PROVE  Implements
  BY WorkerImplements, ManagerImplements, ClientImplements, DestroyerImplements, IdleImplements
  DEF Next
-----------------------------------------------------------------------------
UntilShutdown == shutdown \/ (QueueInv /\ FreedInv)

LEMMA UntilShutdownNext ==
  TypeOK /\ AdderInv /\ UntilShutdown /\ [Next]_vars =>
    UntilShutdown' /\ [shutdown \/ TQ!Next]_<<Pending, Running, finished>>
<1> SUFFICES ASSUME TypeOK, AdderInv, UntilShutdown, [Next]_vars
             PROVE  UntilShutdown' /\ [shutdown \/ TQ!Next]_<<Pending, Running, finished>>
  OBVIOUS
<1>1. CASE shutdown
  BY <1>1, ShutdownStays DEF UntilShutdown
<1>2. CASE ~shutdown
  <2>1. Implements
    BY <1>2, QueueStep DEF UntilShutdown, AdderInv
  <2> QED BY <1>2, <2>1 DEF Implements, UntilShutdown
<1> QED BY <1>1, <1>2

LEMMA UntilShutdownInit == Init => TypeOK /\ AdderInv /\ UntilShutdown /\ TQ!Init
  BY TypeInit, AdderInit, QueueInit, FreedInit DEF UntilShutdown

\* Until it is told to shut down the pool is a bounded FIFO whose tasks start once, in the order
\* they were added, for any number of clients and whatever they do while it is destroyed.
THEOREM QueueUntilShutdown == Spec => TaskQueueUntilShutdown
<1>1. TypeOK /\ AdderInv /\ UntilShutdown /\ [Next]_vars =>
        /\ TypeOK' /\ AdderInv' /\ UntilShutdown'
        /\ [shutdown \/ TQ!Next]_<<Pending, Running, finished>>
  BY TypeNext, AdderNext, UntilShutdownNext
<1> QED BY <1>1, UntilShutdownInit, PTL DEF Spec, TaskQueueUntilShutdown

\* threadPool_add frees no task's argument twice, nor before a worker has taken the task, for
\* every size of the ring and whatever malloc left in it.
THEOREM ArgsFreedOnce == Spec => []ArgFreedOnce
<1>1. TypeOK /\ AdderInv /\ UntilShutdown /\ [Next]_vars => TypeOK' /\ AdderInv' /\ UntilShutdown'
  BY TypeNext, AdderNext, UntilShutdownNext
<1>2. TypeOK /\ UntilShutdown => ArgFreedOnce
  BY DEF UntilShutdown, FreedInv, Started, TypeOK, ArgFreedOnce
<1> QED BY <1>1, <1>2, UntilShutdownInit, PTL DEF Spec
-----------------------------------------------------------------------------
(* Clients that are done before another destroys the pool *)

\* The shutdown is the destroyer's doing.
OneDestroyer == destroyer = "none" <=> ~shutdown

CalmInv == Calm /\ OneDestroyer

LEMMA CalmInit == Init => CalmInv
  BY DEF Init, CalmInv, Calm, OneDestroyer

LEMMA CalmNext == ASSUME ~Overlap, TypeOK, CalmInv, [Next]_vars PROVE CalmInv'
<1> USE DEF CalmInv, Calm, OneDestroyer
<1>1. ASSUME NEW w \in Slots, Worker(w) PROVE CalmInv'
  <2>1. UNCHANGED <<destroyer, shutdown>>
    BY <1>1 DEF Worker, WorkerLock, WorkerWait, WorkerWake, WorkerRun, WorkerFinish, WorkerExit,
                closing
  <2>2. \A a \in Adders : adder[a] = "idle" => adder'[a] = "idle"
    BY <1>1 DEF Worker, WorkerLock, WorkerWait, WorkerWake, WorkerRun, WorkerFinish, WorkerExit,
                TestQueue, Take, BroadcastNotFull, clients
  <2> QED BY <2>1, <2>2
<1>2. ASSUME Manager PROVE CalmInv'
  BY <1>2 DEF Manager, ManagerTop, ManagerSample, ManagerCount, ManagerGrow, ManagerSpawn,
              ManagerSpawned, ManagerShrink, ManagerSignal, ManagerSignalled, closing, pool, clients
<1>3. ASSUME NEW a \in Adders, Adder(a) \/ \E t \in todo : AddCall(a, t) PROVE CalmInv'
  <2>1. ~shutdown
    BY <1>3 DEF Adder, AddCall, AddWake, AddUnlockedFree, AddUnlockedStore, AddUnlockAgain
  <2>2. UNCHANGED <<destroyer, shutdown>>
    BY <1>3 DEF Adder, AddCall, AddWake, AddUnlockedFree, AddUnlockedStore, AddUnlockAgain, closing
  <2> QED BY <2>1, <2>2
<1>4. CASE DestroyCall
  BY <1>4 DEF DestroyCall, Move, pool, clients
<1>5. CASE Destroyer
  BY <1>5 DEF Destroyer, DestroyJoinManager, DestroyBroadcast, DestroyNext, DestroyJoin,
              DestroyFreeArrays, DestroyFreePool, Move, pool, clients
<1>6. CASE SpuriousWakeup \/ UNCHANGED vars
  BY <1>6 DEF SpuriousWakeup, vars, pool, clients, closing, TypeOK
<1> QED BY <1>1, <1>2, <1>3, <1>4, <1>5, <1>6 DEF Next

\* The pool implements the bounded FIFO of TaskQueue, also when it is destroyed, if no client is
\* in threadPool_add then and none calls it later.
THEOREM PoolIsTaskQueue == ASSUME ~Overlap PROVE Spec => IsTaskQueue
<1>1. Init => TypeOK /\ AdderInv /\ CalmInv /\ QueueInv /\ TQ!Init
  BY TypeInit, AdderInit, CalmInit, QueueInit
<1>2. TypeOK /\ AdderInv /\ CalmInv /\ QueueInv /\ [Next]_vars =>
        /\ TypeOK' /\ AdderInv' /\ CalmInv' /\ QueueInv'
        /\ [TQ!Next]_<<Pending, Running, finished>>
  <2> SUFFICES ASSUME TypeOK, AdderInv, CalmInv, QueueInv, [Next]_vars
               PROVE  /\ TypeOK' /\ AdderInv' /\ CalmInv' /\ QueueInv'
                      /\ [TQ!Next]_<<Pending, Running, finished>>
    OBVIOUS
  <2>1. shutdown => \A a \in Adders : ~Adder(a) /\ \A t \in todo : ~AddCall(a, t)
    BY DEF CalmInv, Calm, OneDestroyer, Adder, AddCall, AddWake, AddUnlockedFree,
           AddUnlockedStore, AddUnlockAgain
  <2>2. Implements
    BY <2>1, QueueStep DEF AdderInv
  <2> QED BY <2>2, TypeNext, AdderNext, CalmNext DEF Implements
<1> QED BY <1>1, <1>2, PTL DEF Spec, IsTaskQueue, TQ!Spec, TQ!vars
=============================================================================
