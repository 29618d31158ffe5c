--------------------------- MODULE ThreadPoolProofs ---------------------------
(***************************************************************************)
(* Theorems about the thread pool, for every number of workers, clients    *)
(* and tasks and every size of the ring.  The second half is about a pool  *)
(* created with min_thr_num = max_thr_num, which never grows or shrinks,   *)
(* whatever wait_exit_thr_num starts from.  Such a pool strands no task    *)
(* and outlives its threads; a pool that shrinks does neither (runs        *)
(* pool_stranded and pool_destroy_hangs).                                  *)
(***************************************************************************)
EXTENDS ThreadPool, FiniteSetTheorems, TLAPS

LEMMA AfterInRing == ASSUME NEW i \in Ring PROVE After(i) \in Ring
  BY PoolAssumption DEF Ring, After

LEMMA SignalType ==
  ASSUME worker \in [Slots -> WorkerPC], SignalNotEmpty
  PROVE  worker' \in [Slots -> WorkerPC]
  BY DEF SignalNotEmpty, Waiting, WorkerPC

LEMMA BroadcastType ==
  ASSUME adder \in [Adders -> AdderPC], BroadcastNotFull
  PROVE  adder' \in [Adders -> AdderPC]
  BY DEF BroadcastNotFull, AdderPC

\* What a worker does once it holds the lock keeps the types.
LEMMA TestQueueType ==
  ASSUME TypeOK, NEW w \in Slots, TestQueue(w)
  PROVE  /\ lock' \in Slots \cup {NULL, ManagerThread}
         /\ slot' = slot /\ queue_rear' = queue_rear
         /\ queue_front' \in Ring /\ queue_size' \in Nat
         /\ worker' \in [Slots -> WorkerPC] /\ task' \in [Slots -> Tasks \cup {NULL, Junk}]
         /\ adder' \in [Adders -> AdderPC]
<1>1. CASE shutdown /\ Goto(w, "exiting") /\ UNCHANGED <<lock, ring, task, adder>>
  BY <1>1 DEF TypeOK, Goto, WorkerPC, ring
<1>2. CASE queue_size = 0 /\ lock' = w /\ Goto(w, "towait") /\ UNCHANGED <<ring, task, adder>>
  BY <1>2 DEF TypeOK, Goto, WorkerPC, ring
<1>3. CASE queue_size # 0 /\ Take(w)
  <2>1. queue_front' \in Ring /\ queue_front \in Ring
    BY <1>3, AfterInRing DEF Take, TypeOK
  <2>2. queue_size' \in Nat
    BY <1>3 DEF Take, TypeOK
  <2>3. adder' \in [Adders -> AdderPC]
    BY <1>3, BroadcastType DEF Take, TypeOK
  <2> QED BY <1>3, <2>1, <2>2, <2>3 DEF Take, TypeOK, Goto, WorkerPC
<1> QED BY <1>1, <1>2, <1>3 DEF TestQueue

LEMMA StoreType ==
  ASSUME TypeOK, NEW t \in Tasks \cup {NULL}, Store(t)
  PROVE  /\ slot' \in [Ring -> Tasks \cup {NULL, Junk}]
         /\ queue_front' = queue_front /\ queue_rear' \in Ring /\ queue_size' \in Nat
  BY AfterInRing DEF Store, TypeOK

LEMMA FreeArgType ==
  ASSUME TypeOK, FreeArg PROVE freed' \subseteq Tasks \cup {Junk}
  BY DEF TypeOK, FreeArg

LEMMA TestRoomType ==
  ASSUME TypeOK, NEW a \in Adders, NEW t \in Tasks \cup {NULL}, TestRoom(a, t)
  PROVE  /\ slot' \in [Ring -> Tasks \cup {NULL, Junk}]
         /\ queue_front' \in Ring /\ queue_rear' \in Ring /\ queue_size' \in Nat
         /\ worker' \in [Slots -> WorkerPC] /\ freed' \subseteq Tasks \cup {Junk}
         /\ adder' \in [Adders -> AdderPC] /\ adding' \in [Adders -> Tasks \cup {NULL}]
<1>1. CASE /\ \/ adder' = [adder EXCEPT ![a] = "waiting"]
              \/ adder' = [adder EXCEPT ![a] = "unlocked"]
           /\ adding' = [adding EXCEPT ![a] = t]
           /\ UNCHANGED <<ring, worker, freed>>
  BY <1>1 DEF TypeOK, AdderPC, ring
<1>2. CASE /\ FreeArg /\ Store(t) /\ SignalNotEmpty
           /\ adder' = [adder EXCEPT ![a] = "idle"]
           /\ adding' = [adding EXCEPT ![a] = NULL]
  BY <1>2, StoreType, FreeArgType, SignalType DEF TypeOK, AdderPC
<1> QED BY <1>1, <1>2 DEF TestRoom

LEMMA TypeInit == Init => TypeOK
<1> SUFFICES ASSUME Init PROVE TypeOK
  OBVIOUS
<1>1. slot \in [Ring -> Tasks \cup {NULL, Junk}]
  BY NamesAssumption DEF Init
<1>2. 0 \in Ring /\ MinThr \in Int /\ wait_exit_thr_num \in Int
  BY PoolAssumption DEF Init, Ring
<1>3. worker \in [Slots -> WorkerPC] /\ task \in [Slots -> Tasks \cup {NULL, Junk}]
  BY DEF Init, WorkerPC
<1>4. seen \in [size : Nat, live : Int, busy : Int]
  BY DEF Init, NothingSeen
<1>5. adder \in [Adders -> AdderPC] /\ adding \in [Adders -> Tasks \cup {NULL}]
  BY DEF Init, AdderPC
<1>6. manager \in ManagerPC /\ destroyer \in DestroyerPC
  BY DEF Init, ManagerPC, DestroyerPC
<1>7. todo \subseteq Tasks /\ freed \subseteq Tasks \cup {Junk}
      /\ finished \subseteq Tasks \cup {NULL, Junk}
  BY DEF Init
<1>8. lock \in Slots \cup {NULL, ManagerThread} /\ shutdown \in BOOLEAN
  BY DEF Init
<1>9. /\ queue_front \in Ring /\ queue_rear \in Ring /\ queue_size \in Nat
      /\ live_thr_num \in Int /\ busy_thr_num \in Int
      /\ mi \in Nat /\ added \in Nat /\ di \in Nat
  BY <1>2 DEF Init
<1> QED BY <1>1, <1>2, <1>3, <1>4, <1>5, <1>6, <1>7, <1>8, <1>9 DEF TypeOK

LEMMA WorkerType ==
  ASSUME TypeOK, NEW w \in Slots, Worker(w) PROVE TypeOK'
<1> USE DEF ring, counts, mgr, clients, closing, args, pool
<1>1. CASE WorkerLock(w)
  BY <1>1, TestQueueType DEF WorkerLock, TypeOK
<1>2. CASE WorkerWait(w)
  BY <1>2 DEF WorkerWait, Goto, TypeOK, WorkerPC
<1>3. CASE WorkerWake(w)
  <2>1. CASE Goto(w, "exiting") /\ UNCHANGED <<lock, ring, task, adder>>
    BY <1>3, <2>1 DEF WorkerWake, Goto, TypeOK, WorkerPC
  <2>2. CASE TestQueue(w)
    BY <1>3, <2>2, TestQueueType DEF WorkerWake, TypeOK
  <2> QED BY <1>3, <2>1, <2>2 DEF WorkerWake
<1>4. CASE WorkerRun(w)
  BY <1>4 DEF WorkerRun, Goto, TypeOK, WorkerPC
<1>5. CASE WorkerFinish(w)
  BY <1>5 DEF WorkerFinish, Goto, TypeOK, WorkerPC
<1>6. CASE WorkerExit(w)
  BY <1>6 DEF WorkerExit, Goto, TypeOK, WorkerPC
<1> QED BY <1>1, <1>2, <1>3, <1>4, <1>5, <1>6 DEF Worker

LEMMA ManagerType ==
  ASSUME TypeOK, Manager PROVE TypeOK'
<1> USE DEF ring, counts, mgr, clients, closing, args, pool
<1>1. CASE ManagerTop
  BY <1>1 DEF ManagerTop, TypeOK, ManagerPC
<1>6. CASE ManagerSample
  BY <1>6 DEF ManagerSample, TypeOK, ManagerPC
<1>7. CASE ManagerCount
  BY <1>7 DEF ManagerCount, TypeOK, ManagerPC
<1>8. CASE ManagerGrow
  BY <1>8 DEF ManagerGrow, TypeOK, ManagerPC
<1>9. CASE ManagerSpawned
  BY <1>9 DEF ManagerSpawned, TypeOK, ManagerPC
<1>2. CASE ManagerSpawn
  BY <1>2 DEF ManagerSpawn, Goto, TypeOK, WorkerPC
<1>3. CASE ManagerShrink
  BY <1>3, PoolAssumption DEF ManagerShrink, NothingSeen, TypeOK, ManagerPC
<1>4. CASE ManagerSignal
  BY <1>4, SignalType DEF ManagerSignal, TypeOK
<1>5. CASE ManagerSignalled
  BY <1>5 DEF ManagerSignalled, NothingSeen, TypeOK, ManagerPC
<1> QED BY <1>1, <1>2, <1>3, <1>4, <1>5, <1>6, <1>7, <1>8, <1>9 DEF Manager

LEMMA AdderType ==
  ASSUME TypeOK, NEW a \in Adders, Adder(a) \/ \E t \in todo : AddCall(a, t) PROVE TypeOK'
<1> USE DEF ring, counts, mgr, clients, closing, args, pool
<1>1. ASSUME NEW t \in todo, AddCall(a, t) PROVE TypeOK'
  BY <1>1, TestRoomType DEF AddCall, TypeOK
<1>2. CASE AddWake(a)
  BY <1>2, TestRoomType DEF AddWake, TypeOK
<1>3. CASE AddUnlockedFree(a)
  BY <1>3, FreeArgType DEF AddUnlockedFree, TypeOK, AdderPC
<1>4. CASE AddUnlockedStore(a)
  BY <1>4, StoreType, SignalType DEF AddUnlockedStore, TypeOK, AdderPC
<1>5. CASE AddUnlockAgain(a)
  BY <1>5 DEF AddUnlockAgain, TypeOK, AdderPC
<1> QED BY <1>1, <1>2, <1>3, <1>4, <1>5 DEF Adder

LEMMA DestroyerType ==
  ASSUME TypeOK, DestroyCall \/ Destroyer PROVE TypeOK'
<1> USE DEF ring, counts, mgr, clients, closing, args, pool
<1>1. CASE DestroyCall
  BY <1>1 DEF DestroyCall, Move, TypeOK, DestroyerPC
<1>2. CASE DestroyJoinManager
  BY <1>2 DEF DestroyJoinManager, Move, TypeOK, DestroyerPC
<1>3. CASE DestroyBroadcast
  <2>1. destroyer' \in DestroyerPC
    BY <1>3 DEF DestroyBroadcast, Move, TypeOK, DestroyerPC
  <2>3. di' \in Nat
    BY <1>3 DEF DestroyBroadcast, Move, TypeOK
  <2>2. worker' \in [Slots -> WorkerPC]
    BY <1>3 DEF DestroyBroadcast, BroadcastNotEmpty, TypeOK, WorkerPC
  <2> QED BY <1>3, <2>1, <2>2, <2>3 DEF DestroyBroadcast, TypeOK
<1>4. CASE DestroyNext
  <2>1. destroyer' \in DestroyerPC
    BY <1>4 DEF DestroyNext, Move, TypeOK, DestroyerPC, ToJoin
  <2>3. di' \in Nat
    BY <1>4 DEF DestroyNext, Move, TypeOK, ToJoin
  <2> QED BY <1>4, <2>1, <2>3 DEF DestroyNext, TypeOK
<1>5. CASE DestroyJoin
  <2>1. destroyer' \in DestroyerPC
    BY <1>5 DEF DestroyJoin, Move, TypeOK, DestroyerPC
  <2>3. di' \in Nat
    BY <1>5 DEF DestroyJoin, Move, TypeOK
  <2>2. worker' \in [Slots -> WorkerPC]
    BY <1>5 DEF DestroyJoin, Goto, TypeOK, WorkerPC
  <2> QED BY <1>5, <2>1, <2>2, <2>3 DEF DestroyJoin, TypeOK
<1>6. CASE DestroyFreeArrays
  BY <1>6 DEF DestroyFreeArrays, Move, TypeOK, DestroyerPC
<1>7. CASE DestroyFreePool
  BY <1>7 DEF DestroyFreePool, Move, TypeOK, DestroyerPC
<1> QED BY <1>1, <1>2, <1>3, <1>4, <1>5, <1>6, <1>7 DEF Destroyer

LEMMA TypeNext == TypeOK /\ [Next]_vars => TypeOK'
<1> SUFFICES ASSUME TypeOK, [Next]_vars PROVE TypeOK'
  OBVIOUS
<1>1. CASE SpuriousWakeup
  BY <1>1 DEF SpuriousWakeup, Waiting, TypeOK, WorkerPC, AdderPC, ring, counts, mgr, closing, args
<1>2. CASE UNCHANGED vars
  BY <1>2 DEF vars, TypeOK, ring, counts, mgr, clients, closing, args, pool
<1> QED BY <1>1, <1>2, WorkerType, ManagerType, AdderType, DestroyerType DEF Next

\* The types of the fields of struct threadPool hold in every state.
THEOREM TypeCorrect == Spec => []TypeOK
  BY TypeInit, TypeNext, PTL DEF Spec

\* A pool that shuts down does not open again.
LEMMA ShutdownStays == ASSUME TypeOK, [Next]_vars, shutdown PROVE shutdown'
<1>1. UNCHANGED shutdown \/ shutdown' = TRUE
  <2>1. ASSUME NEW w \in Slots, Worker(w) PROVE UNCHANGED shutdown
    BY <2>1 DEF Worker, WorkerLock, WorkerWait, WorkerWake, WorkerRun, WorkerFinish, WorkerExit,
                closing
  <2>2. ASSUME Manager PROVE UNCHANGED shutdown
    BY <2>2 DEF Manager, ManagerTop, ManagerSample, ManagerCount, ManagerGrow, ManagerSpawn,
                ManagerSpawned, ManagerShrink, ManagerSignal, ManagerSignalled, closing
  <2>3. ASSUME NEW a \in Adders, Adder(a) \/ \E t \in todo : AddCall(a, t)
        PROVE  UNCHANGED shutdown
    BY <2>3 DEF Adder, AddWake, AddUnlockedFree, AddUnlockedStore, AddUnlockAgain, AddCall, closing
  <2>4. ASSUME DestroyCall \/ Destroyer PROVE UNCHANGED shutdown \/ shutdown' = TRUE
    BY <2>4 DEF DestroyCall, Destroyer, DestroyJoinManager, DestroyBroadcast, DestroyNext,
                DestroyJoin, DestroyFreeArrays, DestroyFreePool
  <2>5. CASE SpuriousWakeup \/ UNCHANGED vars
    BY <2>5 DEF SpuriousWakeup, vars, closing
  <2> QED BY <2>1, <2>2, <2>3, <2>4, <2>5 DEF Next
<1> QED BY <1>1
-----------------------------------------------------------------------------
(* Adders asleep beside a free slot *)

\* Only an adder that has seen the shutdown works without the lock.
UnlockedAtShutdown ==
  \A a \in Adders : adder[a] \in {"unlocked", "storing", "unlocking"} => shutdown

AdderInv == UnlockedAtShutdown /\ NoAdderForgotten

LEMMA AdderInit == Init => AdderInv
  BY DEF Init, AdderInv, UnlockedAtShutdown, NoAdderForgotten

LEMMA TestQueueAdders ==
  ASSUME TypeOK, AdderInv, NEW w \in Slots, TestQueue(w), shutdown' = shutdown PROVE AdderInv'
<1>1. CASE UNCHANGED <<ring, adder>>
  BY <1>1 DEF AdderInv, UnlockedAtShutdown, NoAdderForgotten, ring
<1>2. CASE Take(w)
  BY <1>2 DEF Take, BroadcastNotFull, TypeOK, AdderInv, UnlockedAtShutdown, NoAdderForgotten
<1> QED BY <1>1, <1>2 DEF TestQueue, ring

LEMMA TestRoomAdders ==
  ASSUME TypeOK, AdderInv, NEW a \in Adders, NEW t \in Tasks \cup {NULL}, TestRoom(a, t),
         shutdown' = shutdown
  PROVE  AdderInv'
<1>1. CASE ~shutdown /\ ~HasRoom /\ adder' = [adder EXCEPT ![a] = "waiting"] /\ UNCHANGED ring
  BY <1>1 DEF HasRoom, TypeOK, AdderInv, UnlockedAtShutdown, NoAdderForgotten, ring
<1>2. CASE shutdown /\ adder' = [adder EXCEPT ![a] = "unlocked"]
  BY <1>2 DEF TypeOK, AdderInv, UnlockedAtShutdown, NoAdderForgotten
<1>3. CASE ~shutdown /\ HasRoom /\ adder' = [adder EXCEPT ![a] = "idle"]
  BY <1>3 DEF HasRoom, TypeOK, AdderInv, UnlockedAtShutdown, NoAdderForgotten
<1> QED BY <1>1, <1>2, <1>3 DEF TestRoom

LEMMA AdderNext == TypeOK /\ AdderInv /\ [Next]_vars => AdderInv'
<1> SUFFICES ASSUME TypeOK, AdderInv, [Next]_vars PROVE AdderInv'
  OBVIOUS
<1>1. ASSUME NEW w \in Slots, WorkerLock(w) \/ WorkerWake(w) PROVE AdderInv'
  <2>1. CASE TestQueue(w)
    BY <1>1, <2>1, TestQueueAdders DEF WorkerLock, WorkerWake, closing
  <2>2. CASE UNCHANGED <<lock, ring, task, adder, closing>>
    BY <2>2 DEF AdderInv, UnlockedAtShutdown, NoAdderForgotten, ring, closing
  <2> QED BY <1>1, <2>1, <2>2 DEF WorkerLock, WorkerWake
<1>2. ASSUME NEW a \in Adders, AddWake(a) \/ \E t \in todo : AddCall(a, t) PROVE AdderInv'
  BY <1>2, TestRoomAdders DEF AddWake, AddCall, TypeOK, closing
<1>3. ASSUME NEW a \in Adders, AddUnlockedFree(a) \/ AddUnlockedStore(a) \/ AddUnlockAgain(a)
      PROVE  AdderInv'
  BY <1>3 DEF AddUnlockedFree, AddUnlockedStore, AddUnlockAgain, TypeOK, AdderInv,
              UnlockedAtShutdown, NoAdderForgotten, closing
<1>4. CASE SpuriousWakeup
  BY <1>4 DEF SpuriousWakeup, TypeOK, AdderInv, UnlockedAtShutdown, NoAdderForgotten, ring, closing
<1>5. CASE DestroyCall
  BY <1>5 DEF DestroyCall, pool, clients, AdderInv, UnlockedAtShutdown, NoAdderForgotten
<1>6. CASE UNCHANGED <<ring, adder, shutdown>>
  BY <1>6 DEF AdderInv, UnlockedAtShutdown, NoAdderForgotten, ring
<1>7. ASSUME NEW w \in Slots, WorkerWait(w) \/ WorkerRun(w) \/ WorkerFinish(w) \/ WorkerExit(w)
      PROVE  UNCHANGED <<ring, adder, shutdown>>
  BY <1>7 DEF WorkerWait, WorkerRun, WorkerFinish, WorkerExit, clients, closing
<1>8. ASSUME Manager PROVE UNCHANGED <<ring, adder, shutdown>>
  BY <1>8 DEF Manager, ManagerTop, ManagerSample, ManagerCount, ManagerGrow, ManagerSpawn,
              ManagerSpawned, ManagerShrink, ManagerSignal, ManagerSignalled, pool, clients, closing
<1>9. ASSUME Destroyer PROVE UNCHANGED <<ring, adder, shutdown>>
  BY <1>9 DEF Destroyer, DestroyJoinManager, DestroyBroadcast, DestroyNext, DestroyJoin,
              DestroyFreeArrays, DestroyFreePool, pool, clients
<1>10. CASE UNCHANGED vars
  BY <1>6, <1>10 DEF vars, pool, clients, closing
<1> QED BY <1>1, <1>2, <1>3, <1>4, <1>5, <1>6, <1>7, <1>8, <1>9, <1>10 DEF Next, Worker, Adder

\* No client sleeps in threadPool_add beside a free slot, whatever the size of the ring and
\* the number of clients: the broadcast of L57 covers every dequeue.
THEOREM AddersNotForgotten == Spec => []NoAdderForgotten
<1>1. Init => TypeOK /\ AdderInv
  BY TypeInit, AdderInit
<1>2. TypeOK /\ AdderInv /\ [Next]_vars => TypeOK' /\ AdderInv'
  BY TypeNext, AdderNext
<1>3. AdderInv => NoAdderForgotten
  BY DEF AdderInv
<1> QED BY <1>1, <1>2, <1>3, PTL DEF Spec
-----------------------------------------------------------------------------
(* The counters: live_thr_num and busy_thr_num count what they are named for, through every growth
   and shrinkage, and the manager finds an index for every thread it may add. *)

Busy == {w \in Slots : worker[w] = "running"}

LEMMA FiniteCounts ==
  /\ IsFiniteSet(Slots) /\ IsFiniteSet(Alive) /\ IsFiniteSet(Busy)
  /\ Cardinality(Alive) \in Nat /\ Cardinality(Busy) \in Nat
<1>1. IsFiniteSet(Slots)
  BY FS_Interval, PoolAssumption DEF Slots
<1>2. Alive \in SUBSET Slots /\ Busy \in SUBSET Slots
  BY DEF Alive, Busy
<1> QED BY <1>1, <1>2, FS_Subset, FS_CardinalityType

\* What a step does to the two sets of workers.
Same    == Alive' = Alive /\ Busy' = Busy
Leaves  == \E w \in Alive : Alive' = Alive \ {w} /\ Busy' = Busy
Joins   == \E w \in Slots \ Alive : Alive' = Alive \cup {w} /\ Busy' = Busy
Starts  == \E w \in Slots \ Busy : Alive' = Alive /\ Busy' = Busy \cup {w}
Ends    == \E w \in Busy : Alive' = Alive /\ Busy' = Busy \ {w}

LEMMA SignalSame == ASSUME TypeOK, SignalNotEmpty PROVE Same
  BY DEF SignalNotEmpty, Waiting, TypeOK, Same, Alive, Busy

LEMMA TestQueueSets ==
  ASSUME TypeOK, NEW w \in Slots, worker[w] \in {"lock", "woken"}, TestQueue(w)
  PROVE  Same \/ (shutdown /\ Leaves)
<1>1. CASE shutdown /\ Goto(w, "exiting")
  <2>1. w \in Alive /\ Alive' = Alive \ {w} /\ Busy' = Busy
    BY <1>1 DEF Goto, TypeOK, Alive, Busy
  <2> QED BY <1>1, <2>1 DEF Leaves
<1>2. CASE Goto(w, "towait") \/ Goto(w, "taken")
  BY <1>2 DEF Goto, TypeOK, Same, Alive, Busy
<1> QED BY <1>1, <1>2 DEF TestQueue, Take

\* Every step changes sets and counters in one of six ways.
Quiet   == Same /\ UNCHANGED <<live_thr_num, busy_thr_num>> /\ (shutdown => shutdown')
Quits   == Leaves /\ UNCHANGED <<live_thr_num, busy_thr_num, shutdown>> /\ shutdown
Shrinks == /\ Leaves /\ UNCHANGED <<busy_thr_num, shutdown>>
           /\ live_thr_num' = live_thr_num - 1 /\ live_thr_num > MinThr
Grows   == /\ Joins /\ UNCHANGED <<busy_thr_num, shutdown>>
           /\ live_thr_num' = live_thr_num + 1 /\ live_thr_num < MaxThr
Begins  == Starts /\ UNCHANGED <<live_thr_num, shutdown>> /\ busy_thr_num' = busy_thr_num + 1
Returns == Ends /\ UNCHANGED <<live_thr_num, shutdown>> /\ busy_thr_num' = busy_thr_num - 1

LEMMA WorkerSteps ==
  ASSUME TypeOK, NEW w \in Slots, Worker(w)
  PROVE  Quiet \/ Quits \/ Shrinks \/ Begins \/ Returns
<1> USE DEF closing, counts
<1>1. CASE WorkerLock(w)
  BY <1>1, TestQueueSets DEF WorkerLock, Quiet, Quits
<1>2. CASE WorkerWait(w)
  BY <1>2 DEF WorkerWait, Goto, Quiet, Same, Alive, Busy, TypeOK
<1>3. CASE WorkerWake(w)
  <2>1. CASE TestQueue(w) /\ UNCHANGED live_thr_num
    BY <1>3, <2>1, TestQueueSets DEF WorkerWake, Quiet, Quits
  <2>2. CASE Spare /\ live_thr_num' = live_thr_num - 1 /\ Goto(w, "exiting")
    <3>1. w \in Alive /\ Alive' = Alive \ {w} /\ Busy' = Busy
      BY <1>3, <2>2 DEF WorkerWake, Goto, TypeOK, Alive, Busy
    <3> QED BY <1>3, <2>2, <3>1 DEF WorkerWake, Shrinks, Spare, Leaves
  <2> QED BY <1>3, <2>1, <2>2 DEF WorkerWake
<1>4. CASE WorkerRun(w)
  <2>1. w \in Slots \ Busy /\ Alive' = Alive /\ Busy' = Busy \cup {w}
    BY <1>4 DEF WorkerRun, Goto, Alive, Busy, TypeOK
  <2> QED BY <1>4, <2>1 DEF WorkerRun, Begins, Starts
<1>5. CASE WorkerFinish(w)
  <2>1. w \in Busy /\ Alive' = Alive /\ Busy' = Busy \ {w}
    BY <1>5 DEF WorkerFinish, Goto, Alive, Busy, TypeOK
  <2> QED BY <1>5, <2>1 DEF WorkerFinish, Returns, Ends
<1>6. CASE WorkerExit(w)
  BY <1>6 DEF WorkerExit, Goto, Quiet, Same, Alive, Busy, TypeOK
<1> QED BY <1>1, <1>2, <1>3, <1>4, <1>5, <1>6 DEF Worker

LEMMA ManagerSteps == ASSUME TypeOK, Manager PROVE Quiet \/ Grows
<1>1. CASE ManagerSpawn
  <2>1. CASE is_thread_alive(mi)
    BY <1>1, <2>1 DEF ManagerSpawn, Quiet, Same, Alive, Busy, closing
  <2>2. CASE ~is_thread_alive(mi)
    <3>1. mi \in Slots \ Alive /\ Alive' = Alive \cup {mi} /\ Busy' = Busy
      BY <1>1, <2>2, PoolAssumption
      DEF ManagerSpawn, Spawning, is_thread_alive, Goto, Alive, Busy, TypeOK, Slots
    <3> QED BY <1>1, <2>2, <3>1 DEF ManagerSpawn, Spawning, Grows, Joins, closing
  <2> QED BY <2>1, <2>2
<1>2. CASE ManagerSignal
  BY <1>2, SignalSame DEF ManagerSignal, Quiet, counts, closing
<1>3. CASE \/ ManagerTop \/ ManagerSample \/ ManagerCount \/ ManagerGrow
           \/ ManagerSpawned \/ ManagerShrink \/ ManagerSignalled
  BY <1>3 DEF ManagerTop, ManagerSample, ManagerCount, ManagerGrow, ManagerSpawned, ManagerShrink,
              ManagerSignalled, Quiet, Same, Alive, Busy, pool, counts, closing
<1> QED BY <1>1, <1>2, <1>3 DEF Manager

LEMMA ClientSteps ==
  ASSUME TypeOK, NEW a \in Adders, Adder(a) \/ \E t \in todo : AddCall(a, t) PROVE Quiet
<1>1. Same
  <2>1. CASE UNCHANGED worker
    BY <2>1 DEF Same, Alive, Busy
  <2>2. CASE SignalNotEmpty
    BY <2>2, SignalSame
  <2> QED BY <2>1, <2>2 DEF Adder, AddWake, AddCall, TestRoom, AddUnlockedFree, AddUnlockedStore,
                            AddUnlockAgain
<1>2. UNCHANGED <<live_thr_num, busy_thr_num, shutdown>>
  BY DEF Adder, AddWake, AddCall, AddUnlockedFree, AddUnlockedStore, AddUnlockAgain, counts, closing
<1> QED BY <1>1, <1>2 DEF Quiet

LEMMA DestroyerSteps == ASSUME TypeOK, DestroyCall \/ Destroyer PROVE Quiet
<1>1. Same
  <2>1. CASE UNCHANGED worker
    BY <2>1 DEF Same, Alive, Busy
  <2>2. CASE BroadcastNotEmpty
    BY <2>2 DEF BroadcastNotEmpty, Same, Alive, Busy, TypeOK
  <2>3. CASE worker[di] = "exited" /\ Goto(di, "joined")
    BY <2>3 DEF Goto, Same, Alive, Busy, TypeOK
  <2> QED BY <2>1, <2>2, <2>3 DEF DestroyCall, Destroyer, DestroyJoinManager, DestroyBroadcast,
                  DestroyNext, DestroyJoin, DestroyFreeArrays, DestroyFreePool, pool
<1>2. UNCHANGED <<live_thr_num, busy_thr_num>>
  BY DEF DestroyCall, Destroyer, DestroyJoinManager, DestroyBroadcast, DestroyNext, DestroyJoin,
         DestroyFreeArrays, DestroyFreePool, pool, counts
<1>3. shutdown' = TRUE \/ UNCHANGED shutdown
  BY DEF DestroyCall, Destroyer, DestroyJoinManager, DestroyBroadcast, DestroyNext, DestroyJoin,
         DestroyFreeArrays, DestroyFreePool
<1>4. shutdown => shutdown'
  BY <1>3
<1> QED BY <1>1, <1>2, <1>4 DEF Quiet

LEMMA StepKinds ==
  ASSUME TypeOK, [Next]_vars
  PROVE  Quiet \/ Quits \/ Shrinks \/ Grows \/ Begins \/ Returns
<1>1. CASE SpuriousWakeup
  BY <1>1 DEF SpuriousWakeup, Waiting, Quiet, Same, Alive, Busy, TypeOK, counts, closing
<1>2. CASE UNCHANGED vars
  BY <1>2 DEF vars, pool, counts, closing, Quiet, Same, Alive, Busy
<1> QED BY <1>1, <1>2, WorkerSteps, ManagerSteps, ClientSteps, DestroyerSteps DEF Next
-----------------------------------------------------------------------------
CountInv == ThreadCount /\ BusyCount

LEMMA CountInit == Init => CountInv
<1> SUFFICES ASSUME Init PROVE CountInv
  OBVIOUS
<1>1. Alive = 0..MinThr-1 /\ Busy = {}
  BY PoolAssumption DEF Init, Alive, Busy, Slots
<1>2. Cardinality(Alive) = MinThr /\ Cardinality(Busy) = 0
  BY <1>1, FS_Interval, FS_EmptySet, PoolAssumption
<1> QED BY <1>2, PoolAssumption DEF Init, CountInv, ThreadCount, BusyCount, Busy

LEMMA CountNext == TypeOK /\ CountInv /\ [Next]_vars => CountInv'
<1> SUFFICES ASSUME TypeOK, CountInv, [Next]_vars PROVE CountInv'
  OBVIOUS
<1> USE PoolAssumption, FiniteCounts DEF TypeOK, CountInv, ThreadCount, BusyCount
<1>0. BusyCount' <=> busy_thr_num' = Cardinality(Busy')
  BY DEF Busy
<1>1. CASE Quiet
  BY <1>0, <1>1 DEF Quiet, Same, Busy
<1>2. CASE Quits
  <2>1. PICK w \in Alive : Alive' = Alive \ {w} /\ Busy' = Busy
    BY <1>2 DEF Quits, Leaves
  <2>2. Cardinality(Alive') = Cardinality(Alive) - 1
    BY <2>1, FS_RemoveElement
  <2>3. ThreadCount'
    BY <1>2, <2>2 DEF Quits
  <2>4. BusyCount'
    BY <1>0, <1>2, <2>1 DEF Quits, Busy
  <2> QED BY <2>3, <2>4
<1>3. CASE Shrinks
  <2>1. PICK w \in Alive : Alive' = Alive \ {w} /\ Busy' = Busy
    BY <1>3 DEF Shrinks, Leaves
  <2>2. Cardinality(Alive') = Cardinality(Alive) - 1
    BY <2>1, FS_RemoveElement
  <2>3. ThreadCount'
    BY <1>3, <2>2 DEF Shrinks
  <2>4. BusyCount'
    BY <1>0, <1>3, <2>1 DEF Shrinks, Busy
  <2> QED BY <2>3, <2>4
<1>4. CASE Grows
  <2>1. PICK w \in Slots \ Alive : Alive' = Alive \cup {w} /\ Busy' = Busy
    BY <1>4 DEF Grows, Joins
  <2>2. Cardinality(Alive') = Cardinality(Alive) + 1
    BY <2>1, FS_AddElement
  <2>3. ThreadCount'
    BY <1>4, <2>2 DEF Grows
  <2>4. BusyCount'
    BY <1>0, <1>4, <2>1 DEF Grows, Busy
  <2> QED BY <2>3, <2>4
<1>5. CASE Begins
  <2>1. PICK w \in Slots \ Busy : Alive' = Alive /\ Busy' = Busy \cup {w}
    BY <1>5 DEF Begins, Starts
  <2>2. Cardinality(Busy') = Cardinality(Busy) + 1
    BY <2>1, FS_AddElement
  <2>3. ThreadCount'
    BY <1>5, <2>1 DEF Begins
  <2>4. BusyCount'
    BY <1>0, <1>5, <2>2 DEF Begins, Busy
  <2> QED BY <2>3, <2>4
<1>6. CASE Returns
  <2>1. PICK w \in Busy : Alive' = Alive /\ Busy' = Busy \ {w}
    BY <1>6 DEF Returns, Ends
  <2>2. Cardinality(Busy') = Cardinality(Busy) - 1
    BY <2>1, FS_RemoveElement
  <2>3. ThreadCount'
    BY <1>6, <2>1 DEF Returns
  <2>4. BusyCount'
    BY <1>0, <1>6, <2>2 DEF Returns, Busy
  <2> QED BY <2>3, <2>4
<1> QED BY <1>1, <1>2, <1>3, <1>4, <1>5, <1>6, StepKinds

\* live_thr_num is the number of workers that have not left, between min_thr_num and
\* max_thr_num, for pools of every size and however the manager's stale samples fall.
THEOREM LiveCounted == Spec => []ThreadCount
<1>1. TypeOK /\ CountInv /\ [Next]_vars => TypeOK' /\ CountInv'
  BY TypeNext, CountNext
<1>2. CountInv => ThreadCount
  BY DEF CountInv
<1> QED BY TypeInit, CountInit, <1>1, <1>2, PTL DEF Spec

\* busy_thr_num is the number of workers running a task.
THEOREM BusyCounted == Spec => []BusyCount
<1>1. TypeOK /\ CountInv /\ [Next]_vars => TypeOK' /\ CountInv'
  BY TypeNext, CountNext
<1>2. CountInv => BusyCount
  BY DEF CountInv
<1> QED BY TypeInit, CountInit, <1>1, <1>2, PTL DEF Spec

LEMMA SlotFree ==
  ASSUME TypeOK, CountInv, ~ZombieAlive PROVE CanGrowBack
<1> SUFFICES ASSUME live_thr_num < MaxThr
             PROVE  \E i \in Slots : ~is_thread_alive(i) \/ worker[i] = "exiting"
  BY DEF CanGrowBack
<1>1. Cardinality(Slots) = MaxThr
  BY FS_Interval, PoolAssumption DEF Slots
<1>2. Cardinality(Alive) < MaxThr
  BY FiniteCounts, PoolAssumption DEF CountInv, ThreadCount, TypeOK
<1>3. Alive # Slots
  BY <1>1, <1>2, FiniteCounts, PoolAssumption
<1>4. PICK i \in Slots : i \notin Alive
  BY <1>3 DEF Alive
<1> QED BY <1>4 DEF Alive, is_thread_alive

\* Where pthread_kill does not find a thread that has ended, the manager has an index of
\* threads[] for every thread it is allowed to add, in pools of every size: live_thr_num
\* never lags behind the workers that occupy one.
THEOREM PoolGrowsBack == ASSUME ~ZombieAlive PROVE Spec => []CanGrowBack
<1>1. TypeOK /\ CountInv /\ [Next]_vars => TypeOK' /\ CountInv'
  BY TypeNext, CountNext
<1>2. TypeOK /\ CountInv => CanGrowBack
  BY SlotFree
<1> QED BY TypeInit, CountInit, <1>1, <1>2, PTL DEF Spec
-----------------------------------------------------------------------------
FixedSize == MinThr = MaxThr /\ MaxThr > 0

AllThere == live_thr_num = MaxThr

\* The manager's samples never ask for a change.
ManagerIdle ==
  /\ manager \notin {"spawn", "signal"}
  /\ manager \in {"count", "grow", "shrink"} => seen.live = MaxThr

AtWork == {"lock", "towait", "waiting", "woken", "taken", "running"}

\* Nobody leaves before the shutdown, and a worker on its way to pthread_cond_wait holds the
\* lock over the empty queue it has just tested.
WorkersServe ==
  ~shutdown => \A w \in Slots : /\ worker[w] \in AtWork
                                /\ worker[w] = "towait" => lock = w /\ queue_size = 0

FixedInv == AllThere /\ ManagerIdle

ServeInv == WorkersServe /\ UnlockedAtShutdown /\ NoTaskStranded

LEMMA FixedInit == FixedSize /\ Init => FixedInv /\ ServeInv
<1> SUFFICES ASSUME FixedSize, Init PROVE FixedInv /\ ServeInv
  OBVIOUS
<1>1. FixedInv
  BY DEF FixedSize, Init, FixedInv, AllThere, ManagerIdle
<1>2. \A w \in Slots : worker[w] = "lock"
  BY PoolAssumption DEF FixedSize, Init, Slots
<1>3. WorkersServe
  BY <1>2 DEF WorkersServe, AtWork
<1>4. UnlockedAtShutdown /\ NoTaskStranded
  BY DEF Init, UnlockedAtShutdown, NoTaskStranded
<1> QED BY <1>1, <1>3, <1>4 DEF ServeInv

\* live_thr_num changes only where Spare or the manager's samples allow it.
LEMMA FixedNext == FixedSize /\ TypeOK /\ FixedInv /\ [Next]_vars => FixedInv'
<1> SUFFICES ASSUME FixedSize, TypeOK, FixedInv, [Next]_vars PROVE FixedInv'
  OBVIOUS
<1> USE PoolAssumption DEF FixedSize, FixedInv, AllThere, ManagerIdle
<1>1. ASSUME NEW w \in Slots, Worker(w) PROVE UNCHANGED <<live_thr_num, manager, seen>>
  BY <1>1 DEF Worker, WorkerLock, WorkerWait, WorkerWake, WorkerRun, WorkerFinish, WorkerExit,
              Spare, counts, mgr, TypeOK
<1>2. CASE ManagerTop \/ ManagerCount \/ ManagerGrow \/ ManagerSpawned \/ ManagerSignalled
  BY <1>2 DEF ManagerTop, ManagerCount, ManagerGrow, ManagerSpawned, ManagerSignalled, Backlog,
              pool, counts, TypeOK
<1>3. CASE ManagerSample
  BY <1>3 DEF ManagerSample, pool, counts, TypeOK
<1>4. CASE ManagerSpawn \/ ManagerSignal
  BY <1>4 DEF ManagerSpawn, ManagerSignal
<1>5. CASE ManagerShrink
  BY <1>5 DEF ManagerShrink, Surplus, TypeOK
<1>6. ASSUME NEW a \in Adders, Adder(a) \/ \E t \in todo : AddCall(a, t)
      PROVE  UNCHANGED <<live_thr_num, manager, seen>>
  BY <1>6 DEF Adder, AddWake, AddUnlockedFree, AddUnlockedStore, AddUnlockAgain, AddCall, counts, mgr
<1>7. ASSUME DestroyCall \/ Destroyer PROVE UNCHANGED <<live_thr_num, manager, seen>>
  BY <1>7 DEF DestroyCall, Destroyer, DestroyJoinManager, DestroyBroadcast, DestroyNext,
              DestroyJoin, DestroyFreeArrays, DestroyFreePool, pool, counts, mgr
<1>8. CASE SpuriousWakeup \/ UNCHANGED vars
  BY <1>8 DEF SpuriousWakeup, vars, pool, counts, mgr
<1>9. CASE UNCHANGED <<live_thr_num, manager, seen>>
  BY <1>9
<1> QED BY <1>1, <1>2, <1>3, <1>4, <1>5, <1>6, <1>7, <1>8, <1>9 DEF Next, Manager
-----------------------------------------------------------------------------
(* No task is stranded *)

\* A signal leaves no task behind: either a worker wakes, or none was asleep.
LEMMA SignalServes ==
  ASSUME FixedSize, TypeOK, WorkersServe, ~shutdown, lock = NULL, SignalNotEmpty
  PROVE  /\ \A w \in Slots : worker'[w] \in AtWork \ {"towait"}
         /\ \E w \in Slots : worker'[w] \in {"lock", "woken", "taken", "running"}
<1>1. \A w \in Slots : worker[w] \in AtWork \ {"towait"}
  BY NamesAssumption DEF WorkersServe, AtWork, Slots
<1>2. 0 \in Slots
  BY PoolAssumption DEF FixedSize, Slots
<1>3. CASE Waiting = {} /\ UNCHANGED worker
  BY <1>1, <1>2, <1>3 DEF Waiting, AtWork
<1>4. ASSUME NEW w \in Waiting, worker' = [worker EXCEPT ![w] = "woken"]
      PROVE  /\ \A v \in Slots : worker'[v] \in AtWork \ {"towait"}
             /\ worker'[w] = "woken" /\ w \in Slots
  BY <1>1, <1>4 DEF Waiting, AtWork, TypeOK
<1> QED BY <1>3, <1>4 DEF SignalNotEmpty

LEMMA WorkersStay ==
  ASSUME FixedSize, TypeOK, FixedInv, ServeInv, NEW w \in Slots, Worker(w), ~shutdown
  PROVE  WorkersServe' /\ NoTaskStranded'
<1> USE DEF ServeInv, WorkersServe, NoTaskStranded, AtWork
<1>1. shutdown' = shutdown
  BY DEF Worker, WorkerLock, WorkerWait, WorkerWake, WorkerRun, WorkerFinish, WorkerExit, closing
<1>2. CASE WorkerLock(w) \/ WorkerWake(w)
  <2>1. TestQueue(w) /\ lock = NULL
    BY <1>2, PoolAssumption
    DEF WorkerLock, WorkerWake, Spare, FixedSize, FixedInv, AllThere, TypeOK
  <2>2. \A v \in Slots : worker[v] # "towait"
    BY <2>1, NamesAssumption DEF Slots
  <2>3. CASE Take(w)
    <3>1. worker' = [worker EXCEPT ![w] = "taken"]
      BY <2>3 DEF Take, Goto
    <3> QED BY <1>1, <2>2, <3>1 DEF TypeOK
  <2>4. CASE queue_size = 0 /\ lock' = w /\ Goto(w, "towait") /\ UNCHANGED ring
    BY <1>1, <2>2, <2>4 DEF Goto, ring, TypeOK
  <2> QED BY <2>1, <2>3, <2>4 DEF TestQueue
<1>3. CASE WorkerWait(w)
  <2>1. queue_size = 0 /\ queue_size' = 0
    BY <1>3 DEF WorkerWait, ring
  <2>2. \A v \in Slots : v # w => worker[v] # "towait"
    BY <1>3 DEF WorkerWait
  <2> QED BY <1>1, <1>3, <2>1, <2>2 DEF WorkerWait, Goto, TypeOK
<1>4. CASE WorkerRun(w) \/ WorkerFinish(w)
  <2>1. /\ lock' = lock /\ queue_size' = queue_size
        /\ worker' = [worker EXCEPT ![w] = "running"] \/ worker' = [worker EXCEPT ![w] = "lock"]
    BY <1>4 DEF WorkerRun, WorkerFinish, Goto, ring
  <2> QED BY <1>1, <2>1 DEF TypeOK
<1>5. CASE WorkerExit(w)
  BY <1>5 DEF WorkerExit
<1> QED BY <1>2, <1>3, <1>4, <1>5 DEF Worker

LEMMA AddersServe ==
  ASSUME FixedSize, TypeOK, ServeInv, ~shutdown,
         NEW a \in Adders, Adder(a) \/ \E t \in todo : AddCall(a, t)
  PROVE  WorkersServe' /\ NoTaskStranded'
<1>1. PICK t : /\ lock = NULL /\ TestRoom(a, t)
               /\ UNCHANGED <<lock, shutdown>>
  BY DEF Adder, AddCall, AddWake, AddUnlockedFree, AddUnlockedStore, AddUnlockAgain, closing,
         ServeInv, UnlockedAtShutdown
<1>2. CASE SignalNotEmpty
  BY <1>1, <1>2, SignalServes DEF ServeInv, WorkersServe, NoTaskStranded, AtWork
<1>3. CASE UNCHANGED <<ring, worker>>
  BY <1>1, <1>3 DEF ServeInv, WorkersServe, NoTaskStranded, ring
<1> QED BY <1>1, <1>2, <1>3 DEF TestRoom

LEMMA OthersServe ==
  ASSUME FixedSize, TypeOK, FixedInv, ServeInv,
         Manager \/ DestroyCall \/ Destroyer \/ SpuriousWakeup \/ UNCHANGED vars,
         ~shutdown, ~shutdown'
  PROVE  WorkersServe' /\ NoTaskStranded'
<1> USE DEF ServeInv, WorkersServe, NoTaskStranded, AtWork, ring
<1>1. CASE UNCHANGED <<ring, worker>> /\ (lock = NULL \/ UNCHANGED lock)
  <2>1. \A w \in Slots : worker[w] = "towait" => lock' = w
    BY <1>1, NamesAssumption DEF Slots
  <2> QED BY <1>1, <2>1
<1>2. CASE Manager
  BY <1>1, <1>2 DEF Manager, ManagerTop, ManagerSample, ManagerCount, ManagerGrow, ManagerSpawn,
                    ManagerSpawned, ManagerShrink, ManagerSignal, ManagerSignalled, pool,
                    FixedInv, ManagerIdle
<1>3. CASE SpuriousWakeup
  <2>1. CASE UNCHANGED worker
    BY <1>1, <1>3, <2>1 DEF SpuriousWakeup
  <2>2. ASSUME NEW w \in Waiting, worker' = [worker EXCEPT ![w] = "woken"],
               UNCHANGED <<lock, ring>>
        PROVE  WorkersServe' /\ NoTaskStranded'
    BY <2>2 DEF Waiting, TypeOK
  <2> QED BY <1>3, <2>1, <2>2 DEF SpuriousWakeup
<1>4. CASE DestroyCall \/ Destroyer
  <2>1. CASE UNCHANGED worker
    BY <1>1, <1>4, <2>1 DEF DestroyCall, Destroyer, DestroyJoinManager, DestroyBroadcast,
              DestroyNext, DestroyJoin, DestroyFreeArrays, DestroyFreePool, pool
  <2>2. CASE BroadcastNotEmpty /\ UNCHANGED <<lock, ring>>
    BY <2>2 DEF BroadcastNotEmpty
  <2>3. CASE DestroyJoin
    <3>1. UNCHANGED <<lock, ring>>
      BY <2>3 DEF DestroyJoin
    <3>2. CASE di \in Slots
      BY <2>3, <3>2 DEF DestroyJoin
    <3>3. CASE di \notin Slots
      BY <1>1, <2>3, <3>1, <3>3 DEF DestroyJoin, Goto, TypeOK
    <3> QED BY <3>2, <3>3
  <2> QED BY <1>4, <2>1, <2>2, <2>3 DEF DestroyCall, Destroyer, DestroyJoinManager,
              DestroyBroadcast, DestroyNext, DestroyFreeArrays, DestroyFreePool, pool
<1>5. CASE UNCHANGED vars
  BY <1>1, <1>5 DEF vars, pool
<1> QED BY <1>2, <1>3, <1>4, <1>5

\* UnlockedAtShutdown is a part of the invariant of ThreadPoolProofs.
LEMMA ServeNext ==
  FixedSize /\ TypeOK /\ FixedInv /\ AdderInv /\ ServeInv /\ [Next]_vars => ServeInv'
<1> SUFFICES ASSUME FixedSize, TypeOK, FixedInv, AdderInv, ServeInv, [Next]_vars PROVE ServeInv'
  OBVIOUS
<1>1. UnlockedAtShutdown'
  BY AdderNext DEF AdderInv
<1>2. CASE ~shutdown /\ ~shutdown'
  <2>1. WorkersServe' /\ NoTaskStranded'
    BY <1>2, WorkersStay, AddersServe, OthersServe DEF Next
  <2> QED BY <1>1, <2>1 DEF ServeInv
<1>3. CASE shutdown'
  BY <1>1, <1>3 DEF ServeInv, WorkersServe, NoTaskStranded
<1>4. CASE shutdown /\ ~shutdown'
  BY <1>4, ShutdownStays
<1> QED BY <1>2, <1>3, <1>4

\* While tasks wait in the ring of a pool of fixed size some worker is awake, for every
\* number of workers and clients: no wake-up of threadPool_add is lost or misspent.
THEOREM FixedPoolServes == ASSUME FixedSize PROVE Spec => []NoTaskStranded
<1>1. Init => TypeOK /\ AdderInv /\ FixedInv /\ ServeInv
  BY TypeInit, AdderInit, FixedInit
<1>2. TypeOK /\ AdderInv /\ FixedInv /\ ServeInv /\ [Next]_vars
        => TypeOK' /\ AdderInv' /\ FixedInv' /\ ServeInv'
  BY TypeNext, AdderNext, FixedNext, ServeNext
<1>3. ServeInv => NoTaskStranded
  BY DEF ServeInv
<1> QED BY <1>1, <1>2, <1>3, PTL DEF Spec
-----------------------------------------------------------------------------
(* No thread outlives the pool *)

Joined(i) == worker[i] = "joined"

\* threadPool_destroy has joined the threads below di, and does not stop before the last.
JoinInv ==
  /\ destroyer \in {"joining", "join"} => \A i \in Slots : i < di => Joined(i)
  /\ destroyer \in {"free", "arrays freed", "pool freed"} => \A i \in Slots : Joined(i)

LEMMA JoinedStays ==
  ASSUME FixedSize, TypeOK, FixedInv, [Next]_vars, NEW i \in Slots, Joined(i) PROVE Joined(i)'
<1>1. ASSUME SignalNotEmpty PROVE Joined(i)'
  BY <1>1 DEF SignalNotEmpty, Waiting, Joined, TypeOK
<1>2. ASSUME NEW w \in Slots, Worker(w) PROVE Joined(i)'
  BY <1>2 DEF Worker, WorkerLock, WorkerWait, WorkerWake, WorkerRun, WorkerFinish, WorkerExit,
              TestQueue, Take, Goto, Joined, TypeOK
<1>3. ASSUME Manager PROVE Joined(i)'
  BY <1>1, <1>3 DEF Manager, ManagerTop, ManagerSample, ManagerCount, ManagerGrow, ManagerSpawn,
              ManagerSpawned, ManagerShrink, ManagerSignal, ManagerSignalled, pool, FixedInv,
              ManagerIdle, Joined
<1>4. ASSUME NEW a \in Adders, Adder(a) \/ \E t \in todo : AddCall(a, t) PROVE Joined(i)'
  BY <1>1, <1>4 DEF Adder, AddWake, AddUnlockedFree, AddUnlockedStore, AddUnlockAgain, AddCall,
              TestRoom, Joined
<1>5. ASSUME DestroyCall \/ Destroyer PROVE Joined(i)'
  BY <1>5 DEF DestroyCall, Destroyer, DestroyJoinManager, DestroyBroadcast, BroadcastNotEmpty,
              DestroyNext, DestroyJoin, DestroyFreeArrays, DestroyFreePool, Goto, pool, Joined, TypeOK
<1>6. CASE SpuriousWakeup \/ UNCHANGED vars
  BY <1>6 DEF SpuriousWakeup, Waiting, vars, pool, Joined, TypeOK
<1> QED BY <1>2, <1>3, <1>4, <1>5, <1>6 DEF Next

\* The indices of threads[].
LEMMA SlotsRange ==
  /\ \A i \in Slots : ~(i < 0) /\ i < MaxThr
  /\ \A i \in Slots, j \in Nat : i < j + 1 => i < j \/ i = j
  /\ \A i \in Slots, j \in Nat : ~(j < MaxThr) => i < j
<1>1. Slots \subseteq Int /\ \A i \in Slots : 0 <= i /\ i <= MaxThr - 1
  BY PoolAssumption DEF Slots
<1> QED BY <1>1, PoolAssumption

LEMMA JoinNext == FixedSize /\ TypeOK /\ FixedInv /\ JoinInv /\ [Next]_vars => JoinInv'
<1> SUFFICES ASSUME FixedSize, TypeOK, FixedInv, JoinInv, [Next]_vars PROVE JoinInv'
  OBVIOUS
<1> USE DEF JoinInv
<1>1. \A i \in Slots : Joined(i) => Joined(i)'
  BY JoinedStays
<1>2. CASE UNCHANGED <<destroyer, di>>
  BY <1>1, <1>2
<1>3. CASE DestroyCall \/ DestroyJoinManager
  BY <1>3 DEF DestroyCall, DestroyJoinManager, Move
<1>4. CASE DestroyBroadcast
  <2>1. destroyer' = "broadcast" \/ (destroyer' = "joining" /\ di' = 0)
    BY <1>4 DEF DestroyBroadcast, Move
  <2> QED BY SlotsRange, <2>1
<1>5. CASE DestroyNext
  <2>1. CASE ToJoin
    <3>1. destroyer = "joining" /\ destroyer' = "join" /\ di' = di
      BY <1>5, <2>1 DEF DestroyNext, Move
    <3> QED BY <1>1, <3>1
  <2>2. CASE ~ToJoin
    <3>1. destroyer = "joining" /\ destroyer' = "free"
      BY <1>5, <2>2 DEF DestroyNext, Move
    <3>2. \A i \in Slots : i < di
      BY <2>2, SlotsRange DEF ToJoin, FixedInv, AllThere, TypeOK
    <3> QED BY <1>1, <3>1, <3>2
  <2> QED BY <2>1, <2>2
<1>6. CASE DestroyJoin
  <2>1. destroyer = "join" /\ destroyer' = "joining" /\ di' = di + 1
    BY <1>6 DEF DestroyJoin, Move
  <2>2. \A i \in Slots : i = di => Joined(i)'
    BY <1>6 DEF DestroyJoin, Goto, Joined, TypeOK
  <2>3. \A i \in Slots : i < di + 1 => i < di \/ i = di
    BY SlotsRange DEF TypeOK
  <2> QED BY <1>1, <2>1, <2>2, <2>3
<1>7. CASE DestroyFreeArrays \/ DestroyFreePool
  BY <1>1, <1>7 DEF DestroyFreeArrays, DestroyFreePool, Move
<1>8. ASSUME NEW w \in Slots, Worker(w) PROVE UNCHANGED <<destroyer, di>>
  BY <1>8 DEF Worker, WorkerLock, WorkerWait, WorkerWake, WorkerRun, WorkerFinish, WorkerExit,
              closing
<1>9. ASSUME Manager PROVE UNCHANGED <<destroyer, di>>
  BY <1>9 DEF Manager, ManagerTop, ManagerSample, ManagerCount, ManagerGrow, ManagerSpawn,
              ManagerSpawned, ManagerShrink, ManagerSignal, ManagerSignalled, closing
<1>10. ASSUME NEW a \in Adders, Adder(a) \/ \E t \in todo : AddCall(a, t)
       PROVE  UNCHANGED <<destroyer, di>>
  BY <1>10 DEF Adder, AddWake, AddUnlockedFree, AddUnlockedStore, AddUnlockAgain, AddCall, closing
<1>11. CASE SpuriousWakeup \/ UNCHANGED vars
  BY <1>2, <1>11 DEF SpuriousWakeup, vars, closing
<1> QED BY <1>2, <1>3, <1>4, <1>5, <1>6, <1>7, <1>8, <1>9, <1>10, <1>11 DEF Next, Destroyer

\* A pool of fixed size is freed only after every thread it created has ended: the join loop
\* over live_thr_num reaches every slot, because no worker ever left one.
THEOREM FixedPoolClosed == ASSUME FixedSize PROVE Spec => []NoThreadOutlivesPool
<1>1. Init => TypeOK /\ FixedInv /\ JoinInv
  BY TypeInit, FixedInit DEF Init, JoinInv
<1>2. TypeOK /\ FixedInv /\ JoinInv /\ [Next]_vars => TypeOK' /\ FixedInv' /\ JoinInv'
  BY TypeNext, FixedNext, JoinNext
<1>3. JoinInv => NoThreadOutlivesPool
  BY DEF JoinInv, Joined, NoThreadOutlivesPool
<1> QED BY <1>1, <1>2, <1>3, PTL DEF Spec
=============================================================================
