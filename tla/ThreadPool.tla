------------------------------ MODULE ThreadPool ------------------------------
(***************************************************************************)
(* The thread pool of src/src/threadPool.cpp: workers, the manager thread, *)
(* client threads in threadPool_add and one thread in threadPool_destroy.  *)
(*                                                                         *)
(* A worker is named by its index in pool->threads.  pool->lock protects   *)
(* the ring and the counters, so a critical section is one step, except    *)
(* where a thread that does not take the lock can tell the difference: a   *)
(* worker between its test of the queue and pthread_cond_wait, and the     *)
(* manager's loop of pthread_create.  Those hold `lock' across steps.      *)
(* shutdown, and the signals of manager and destroyer, ignore the lock.    *)
(***************************************************************************)
EXTENDS Integers, Sequences, FiniteSets

CONSTANTS Tasks, Adders, NULL,
          MinThr, MaxThr, QueueMax,
          MinWaitTaskNum,  \* MIN_WAIT_TASK_NUM
          ThreadVary,      \* DEFAULT_THREAD_VARY
          WaitExitInit,    \* what malloc may leave in wait_exit_thr_num
          Junk,            \* what malloc may leave in a slot's arg
          MallocFill,      \* \subseteq {NULL, Junk}
          ZombieAlive,     \* does pthread_kill(tid,0) succeed on an exited, unjoined thread
          Spurious,        \* may pthread_cond_wait return without a signal
          MayDestroy,      \* does the client ever call threadPool_destroy
          Overlap          \* ... while other threads are in, or will call, threadPool_add

ASSUME PoolAssumption ==
  /\ MinThr \in Nat /\ MaxThr \in Nat /\ MinThr <= MaxThr
  /\ QueueMax \in Nat \ {0} /\ ThreadVary \in Nat \ {0} /\ MinWaitTaskNum \in Nat
  /\ WaitExitInit \subseteq Int
  /\ {ZombieAlive, Spurious, MayDestroy, Overlap} \subseteq BOOLEAN

ASSUME NamesAssumption ==
  /\ NULL \notin Tasks /\ Junk \notin Tasks \cup {NULL} /\ MallocFill \subseteq {NULL, Junk}
  /\ NULL \notin Int

Slots == 0..MaxThr-1       \* indices of pool->threads
Ring  == 0..QueueMax-1     \* indices of pool->task_queue
ManagerThread == MaxThr    \* the manager, as a holder of the lock

VARIABLES
  lock,                    \* holder of pool->lock between two steps, or NULL
  slot,                    \* task_queue[i].arg; a task is known by its argument
  queue_front, queue_rear, queue_size,
  live_thr_num, busy_thr_num, wait_exit_thr_num, shutdown,
  worker,                  \* where the thread of threads[i] is; "none" if there is none
  task,                    \* the worker's local copy of the task
  manager, seen, mi, added,\* the manager: pc, sampled counters, its loop's i and add
  adder, adding,           \* threads in threadPool_add and the task each brings
  todo,                    \* tasks no client has brought yet
  destroyer, di,           \* threadPool_destroy: pc and its loops' i
  freed,                   \* args threadPool_add has passed to free
  finished                 \* tasks whose function has returned

ring    == <<slot, queue_front, queue_rear, queue_size>>
counts  == <<live_thr_num, busy_thr_num, wait_exit_thr_num>>
mgr     == <<manager, seen, mi, added>>
clients == <<adder, adding, todo>>
closing == <<destroyer, di, shutdown>>
args    == <<freed, finished>>
pool    == <<ring, counts, worker, task, clients, args>>   \* neither lock nor manager nor destroyer
vars    == <<pool, lock, mgr, closing>>

\* Mutant: the indices of the ring do not wrap.
After_NoWrap(x) == x + 1

After(x) == (x + 1) % QueueMax   \* the next index of the ring

\* Mutant: the ring counts as full only when it holds more than it can.
HasRoom_OneTooMany == queue_size <= QueueMax

HasRoom == queue_size # QueueMax

NothingSeen == [size |-> 0, live |-> 0, busy |-> 0]

\* threadPool_create.  wait_exit_thr_num and the slots are not initialised.
Init ==
  /\ lock = NULL
  /\ slot \in [Ring -> MallocFill]
  /\ queue_front = 0 /\ queue_rear = 0 /\ queue_size = 0
  /\ live_thr_num = MinThr /\ busy_thr_num = 0 /\ shutdown = FALSE
  /\ wait_exit_thr_num \in WaitExitInit
  /\ worker = [w \in Slots |-> IF w < MinThr THEN "lock" ELSE "none"]
  /\ task = [w \in Slots |-> NULL]
  /\ manager = "top" /\ seen = NothingSeen /\ mi = 0 /\ added = 0
  /\ adder = [a \in Adders |-> "idle"] /\ adding = [a \in Adders |-> NULL] /\ todo = Tasks
  /\ destroyer = "none" /\ di = 0
  /\ freed = {} /\ finished = {}
-----------------------------------------------------------------------------
(* Condition variables *)

Waiting == {w \in Slots : worker[w] = "waiting"}

\* Mutant: the signal is forgotten.
SignalNotEmpty_Forgotten == UNCHANGED worker

\* pthread_cond_signal(&queue_not_empty)
SignalNotEmpty ==
  \/ Waiting = {} /\ UNCHANGED worker
  \/ \E w \in Waiting : worker' = [worker EXCEPT ![w] = "woken"]

\* pthread_cond_broadcast(&queue_not_empty)
BroadcastNotEmpty ==
  worker' = [w \in Slots |-> IF worker[w] = "waiting" THEN "woken" ELSE worker[w]]

\* Mutants: the broadcast is forgotten; it is made only when the ring runs empty.
BroadcastNotFull_Forgotten == UNCHANGED adder
BroadcastNotFull_IfEmpty ==
  adder' = [a \in Adders |-> IF adder[a] = "waiting" /\ queue_size = 1 THEN "woken" ELSE adder[a]]

\* pthread_cond_broadcast(&queue_not_full)
BroadcastNotFull ==
  adder' = [a \in Adders |-> IF adder[a] = "waiting" THEN "woken" ELSE adder[a]]

SpuriousWakeup ==
  /\ Spurious
  /\ \/ /\ \E w \in Waiting : worker' = [worker EXCEPT ![w] = "woken"]
        /\ UNCHANGED adder
     \/ /\ \E a \in Adders : /\ adder[a] = "waiting"
                             /\ adder' = [adder EXCEPT ![a] = "woken"]
        /\ UNCHANGED worker
  /\ UNCHANGED <<lock, ring, counts, task, mgr, adding, todo, closing, args>>
-----------------------------------------------------------------------------
(* threadPool_thread *)

Goto(w, pc) == worker' = [worker EXCEPT ![w] = pc]

\* Dequeue, wake the adders, unlock.
Take(w) ==
  /\ task' = [task EXCEPT ![w] = slot[queue_front]]
  /\ queue_front' = After(queue_front)
  /\ queue_size' = queue_size - 1
  /\ BroadcastNotFull
  /\ Goto(w, "taken")
  /\ UNCHANGED <<lock, slot, queue_rear>>

\* Mutant: the lock is released before the worker blocks.
TestQueue_UnlockFirst(w) ==
  \/ shutdown /\ Goto(w, "exiting") /\ UNCHANGED <<lock, ring, task, adder>>
  \/ ~shutdown /\ queue_size = 0 /\ Goto(w, "towait") /\ UNCHANGED <<lock, ring, task, adder>>
  \/ ~shutdown /\ queue_size # 0 /\ Take(w)

\* The worker holds pool->lock and is at the top of its while loop.
TestQueue(w) ==
  \/ /\ shutdown
     /\ Goto(w, "exiting")
     /\ UNCHANGED <<lock, ring, task, adder>>
  \/ /\ ~shutdown /\ queue_size = 0
     /\ lock' = w
     /\ Goto(w, "towait")
     /\ UNCHANGED <<ring, task, adder>>
  \/ ~shutdown /\ queue_size # 0 /\ Take(w)

WorkerLock(w) ==
  /\ worker[w] = "lock" /\ lock = NULL
  /\ TestQueue(w)
  /\ UNCHANGED <<counts, mgr, adding, todo, closing, args>>

\* pthread_cond_wait releases the lock and blocks, atomically.
WorkerWait(w) ==
  /\ worker[w] = "towait"
  /\ Goto(w, "waiting")
  /\ lock' = NULL
  /\ UNCHANGED <<ring, counts, task, mgr, clients, closing, args>>

\* Mutant: min_thr_num is not respected.
Spare_All == live_thr_num > 0

Spare == live_thr_num > MinThr

\* pthread_cond_wait returns with the lock; surplus workers leave here.
WorkerWake(w) ==
  /\ worker[w] = "woken" /\ lock = NULL
  /\ wait_exit_thr_num' = IF wait_exit_thr_num > 0 THEN wait_exit_thr_num - 1
                                                    ELSE wait_exit_thr_num
  /\ \/ /\ wait_exit_thr_num > 0 /\ Spare
        /\ live_thr_num' = live_thr_num - 1
        /\ Goto(w, "exiting")
        /\ UNCHANGED <<lock, ring, task, adder>>
     \/ /\ ~(wait_exit_thr_num > 0 /\ Spare)
        /\ TestQueue(w)
        /\ UNCHANGED live_thr_num
  /\ UNCHANGED <<busy_thr_num, mgr, adding, todo, closing, args>>

WorkerRun(w) ==
  /\ worker[w] = "taken"
  /\ busy_thr_num' = busy_thr_num + 1
  /\ Goto(w, "running")
  /\ UNCHANGED <<lock, ring, live_thr_num, wait_exit_thr_num, task, mgr, clients, closing,
                 args>>

\* Mutant: busy_thr_num is not decremented.
WorkerFinish_StaysBusy(w) ==
  /\ worker[w] = "running"
  /\ finished' = finished \cup {task[w]}
  /\ task' = [task EXCEPT ![w] = NULL]
  /\ Goto(w, "lock")
  /\ UNCHANGED <<lock, ring, counts, mgr, clients, closing, freed>>

\* The task's function returns and the worker goes back for the lock.
WorkerFinish(w) ==
  /\ worker[w] = "running"
  /\ busy_thr_num' = busy_thr_num - 1
  /\ finished' = finished \cup {task[w]}
  /\ task' = [task EXCEPT ![w] = NULL]
  /\ Goto(w, "lock")
  /\ UNCHANGED <<lock, ring, live_thr_num, wait_exit_thr_num, mgr, clients, closing, freed>>

\* pthread_exit; until then pthread_kill(tid,0) finds the thread.
WorkerExit(w) ==
  /\ worker[w] = "exiting"
  /\ Goto(w, "exited")
  /\ UNCHANGED <<lock, ring, counts, task, mgr, clients, closing, args>>

Worker(w) == \/ WorkerLock(w) \/ WorkerWait(w) \/ WorkerWake(w)
             \/ WorkerRun(w) \/ WorkerFinish(w) \/ WorkerExit(w)
-----------------------------------------------------------------------------
(* manager_thread *)

ManagerTop ==
  /\ manager = "top"
  /\ manager' = IF shutdown THEN "done" ELSE "sleep"
  /\ UNCHANGED <<pool, lock, seen, mi, added, closing>>

\* sleep(DEFAULT_TIME) is over: sample the queue and the number of threads.
ManagerSample ==
  /\ manager = "sleep" /\ lock = NULL
  /\ seen' = [seen EXCEPT !.size = queue_size, !.live = live_thr_num]
  /\ manager' = "count"
  /\ UNCHANGED <<pool, lock, mi, added, closing>>

ManagerCount ==
  /\ manager = "count"
  /\ seen' = [seen EXCEPT !.busy = busy_thr_num]
  /\ manager' = "grow"
  /\ UNCHANGED <<pool, lock, mi, added, closing>>

Backlog == seen.size >= MinWaitTaskNum /\ seen.live < MaxThr

ManagerGrow ==
  /\ manager = "grow"
  /\ \/ /\ ~Backlog
        /\ manager' = "shrink"
        /\ UNCHANGED lock
     \/ /\ Backlog /\ lock = NULL
        /\ manager' = "spawn"
        /\ lock' = ManagerThread
  /\ UNCHANGED <<pool, seen, mi, added, closing>>

\* Mutant: an index of threads[] that was ever used counts as alive.
is_thread_alive_Once(i) == worker[i] # "none"

is_thread_alive(i) ==
  \/ worker[i] \in {"lock", "towait", "waiting", "woken", "taken", "running", "exiting"}
  \/ worker[i] = "exited" /\ ZombieAlive

Spawning == mi < MaxThr /\ added < ThreadVary /\ live_thr_num < MaxThr

\* One turn of the creation loop; pthread_create succeeds.
ManagerSpawn ==
  /\ manager = "spawn" /\ Spawning
  /\ mi' = mi + 1
  /\ \/ /\ ~is_thread_alive(mi)
        /\ added' = added + 1
        /\ live_thr_num' = live_thr_num + 1
        /\ Goto(mi, "lock")
     \/ /\ is_thread_alive(mi)
        /\ UNCHANGED <<live_thr_num, worker, added>>
  /\ UNCHANGED <<lock, ring, busy_thr_num, wait_exit_thr_num, task, manager, seen, clients,
                 closing, args>>

ManagerSpawned ==
  /\ manager = "spawn" /\ ~Spawning
  /\ manager' = "shrink"
  /\ lock' = NULL /\ mi' = 0 /\ added' = 0
  /\ UNCHANGED <<pool, seen, closing>>

Surplus == seen.busy * 2 < seen.live /\ seen.live > MinThr

ManagerShrink ==
  /\ manager = "shrink"
  /\ \/ /\ ~Surplus
        /\ manager' = "top"
        /\ seen' = NothingSeen
        /\ UNCHANGED wait_exit_thr_num
     \/ /\ Surplus /\ lock = NULL
        /\ wait_exit_thr_num' = ThreadVary
        /\ manager' = "signal"
        /\ UNCHANGED seen
  /\ UNCHANGED <<lock, ring, live_thr_num, busy_thr_num, worker, task, mi, added, clients,
                 closing, args>>

\* One turn of the signalling loop, without the lock.
ManagerSignal ==
  /\ manager = "signal" /\ mi < ThreadVary
  /\ SignalNotEmpty
  /\ mi' = mi + 1
  /\ UNCHANGED <<lock, ring, counts, task, manager, seen, added, clients, closing, args>>

ManagerSignalled ==
  /\ manager = "signal" /\ mi = ThreadVary
  /\ manager' = "top" /\ mi' = 0 /\ seen' = NothingSeen
  /\ UNCHANGED <<pool, lock, added, closing>>

Manager == \/ ManagerTop \/ ManagerSample \/ ManagerCount \/ ManagerGrow \/ ManagerSpawn
           \/ ManagerSpawned \/ ManagerShrink \/ ManagerSignal \/ ManagerSignalled
-----------------------------------------------------------------------------
(* threadPool_add *)

\* free(arg) of whatever the rear slot still points to.
FreeArg == freed' = freed \cup ({slot[queue_rear]} \ {NULL})

\* Store the task in the rear slot and advance.
Store(t) ==
  /\ slot' = [slot EXCEPT ![queue_rear] = t]
  /\ queue_rear' = After(queue_rear)
  /\ queue_size' = queue_size + 1
  /\ UNCHANGED queue_front

\* The adder a holds pool->lock and tests the queue for t.  At shutdown it
\* unlocks and, with no return statement there, goes on to store the task.
TestRoom(a, t) ==
  \/ /\ ~shutdown /\ ~HasRoom
     /\ adder' = [adder EXCEPT ![a] = "waiting"]
     /\ adding' = [adding EXCEPT ![a] = t]
     /\ UNCHANGED <<ring, worker, freed>>
  \/ /\ shutdown
     /\ adder' = [adder EXCEPT ![a] = "unlocked"]
     /\ adding' = [adding EXCEPT ![a] = t]
     /\ UNCHANGED <<ring, worker, freed>>
  \/ /\ ~shutdown /\ HasRoom
     /\ FreeArg
     /\ Store(t)
     /\ SignalNotEmpty
     /\ adder' = [adder EXCEPT ![a] = "idle"]
     /\ adding' = [adding EXCEPT ![a] = NULL]

\* A client calls threadPool_add; unless Overlap, never once the pool is being destroyed.
AddCall(a, t) ==
  /\ adder[a] = "idle" /\ lock = NULL
  /\ Overlap \/ destroyer = "none"
  /\ TestRoom(a, t)
  /\ todo' = todo \ {t}
  /\ UNCHANGED <<lock, counts, task, mgr, closing, finished>>

AddWake(a) ==
  /\ adder[a] = "woken" /\ lock = NULL
  /\ TestRoom(a, adding[a])
  /\ UNCHANGED <<lock, counts, task, mgr, todo, closing, finished>>

\* An adder that no longer holds the lock frees the slot's argument, stores its task over
\* whatever other adders have put there meanwhile, and signals ...
AddUnlockedFree(a) ==
  /\ adder[a] = "unlocked"
  /\ FreeArg
  /\ slot' = [slot EXCEPT ![queue_rear] = NULL]
  /\ adder' = [adder EXCEPT ![a] = "storing"]
  /\ UNCHANGED <<lock, queue_front, queue_rear, queue_size, counts, worker, task, mgr,
                 adding, todo, closing, finished>>

AddUnlockedStore(a) ==
  /\ adder[a] = "storing"
  /\ Store(adding[a])
  /\ SignalNotEmpty
  /\ adder' = [adder EXCEPT ![a] = "unlocking"]
  /\ UNCHANGED <<lock, counts, task, mgr, adding, todo, closing, args>>

\* ... and its second pthread_mutex_unlock, whoever holds the mutex now.
AddUnlockAgain(a) ==
  /\ adder[a] = "unlocking"
  /\ lock' = NULL
  /\ adder' = [adder EXCEPT ![a] = "idle"]
  /\ adding' = [adding EXCEPT ![a] = NULL]
  /\ UNCHANGED <<ring, counts, worker, task, mgr, todo, closing, args>>

Adder(a) == AddWake(a) \/ AddUnlockedFree(a) \/ AddUnlockedStore(a) \/ AddUnlockAgain(a)
-----------------------------------------------------------------------------
(* threadPool_destroy and threadPool_free *)

Move(pc, i) == destroyer' = pc /\ di' = i

DestroyCall ==
  /\ MayDestroy /\ destroyer = "none"
  /\ Overlap \/ \A a \in Adders : adder[a] = "idle"
  /\ shutdown' = TRUE
  /\ Move("manager", 0)
  /\ UNCHANGED <<pool, lock, mgr>>

\* pthread_join(manager_tid)
DestroyJoinManager ==
  /\ destroyer = "manager" /\ manager = "done"
  /\ Move("broadcast", 0)
  /\ UNCHANGED <<pool, lock, mgr, shutdown>>

\* The loops of the destroyer read live_thr_num without the lock at every turn.
DestroyBroadcast ==
  /\ destroyer = "broadcast"
  /\ \/ di < live_thr_num /\ BroadcastNotEmpty /\ Move("broadcast", di + 1)
     \/ di >= live_thr_num /\ Move("joining", 0) /\ UNCHANGED worker
  /\ UNCHANGED <<lock, ring, counts, task, mgr, clients, shutdown, args>>

\* Mutant: the last worker is not joined.
ToJoin_OneShort == di < live_thr_num - 1

ToJoin == di < live_thr_num

DestroyNext ==
  /\ destroyer = "joining"
  /\ IF ToJoin THEN Move("join", di) ELSE Move("free", 0)
  /\ UNCHANGED <<pool, lock, mgr, shutdown>>

\* pthread_join(threads[di])
DestroyJoin ==
  /\ destroyer = "join" /\ worker[di] = "exited"
  /\ Goto(di, "joined")
  /\ Move("joining", di + 1)
  /\ UNCHANGED <<lock, ring, counts, task, mgr, clients, shutdown, args>>

\* threadPool_free: the arrays first, then it takes the lock to destroy it and the pool.
DestroyFreeArrays ==
  /\ destroyer = "free"
  /\ Move("arrays freed", 0)
  /\ UNCHANGED <<pool, lock, mgr, shutdown>>

DestroyFreePool ==
  /\ destroyer = "arrays freed" /\ lock = NULL
  /\ Move("pool freed", 0)
  /\ UNCHANGED <<pool, lock, mgr, shutdown>>

Destroyer == \/ DestroyJoinManager \/ DestroyBroadcast \/ DestroyNext \/ DestroyJoin
             \/ DestroyFreeArrays \/ DestroyFreePool
-----------------------------------------------------------------------------
Next == \/ \E w \in Slots : Worker(w)
        \/ Manager
        \/ \E a \in Adders : Adder(a) \/ \E t \in todo : AddCall(a, t)
        \/ DestroyCall \/ Destroyer
        \/ SpuriousWakeup

Spec == Init /\ [][Next]_vars

(***************************************************************************)
(* Every thread that can run is eventually scheduled and every task's      *)
(* function returns.  Weak fairness is enough for the lock: it is never    *)
(* held for ever and the contenders are finitely many.  Clients need not   *)
(* call threadPool_add or threadPool_destroy.                              *)
(***************************************************************************)
Fairness == /\ \A w \in Slots : WF_vars(Worker(w))
            /\ \A a \in Adders : WF_vars(Adder(a))
            /\ WF_vars(Manager) /\ WF_vars(Destroyer)

FairSpec == Spec /\ Fairness
-----------------------------------------------------------------------------
(* Properties *)

WorkerPC == {"none", "lock", "towait", "waiting", "woken", "taken", "running",
             "exiting", "exited", "joined"}
ManagerPC == {"top", "sleep", "count", "grow", "spawn", "shrink", "signal", "done"}
AdderPC == {"idle", "waiting", "woken", "unlocked", "storing", "unlocking"}
DestroyerPC == {"none", "manager", "broadcast", "joining", "join", "free",
                "arrays freed", "pool freed"}

\* The types of the fields of struct threadPool and of the threads' locals.
TypeOK ==
  /\ lock \in Slots \cup {NULL, ManagerThread}
  /\ slot \in [Ring -> Tasks \cup {NULL, Junk}]
  /\ queue_front \in Ring /\ queue_rear \in Ring /\ queue_size \in Nat
  /\ live_thr_num \in Int /\ busy_thr_num \in Int /\ wait_exit_thr_num \in Int
  /\ shutdown \in BOOLEAN
  /\ worker \in [Slots -> WorkerPC] /\ task \in [Slots -> Tasks \cup {NULL, Junk}]
  /\ manager \in ManagerPC /\ seen \in [size : Nat, live : Int, busy : Int]
  /\ mi \in Nat /\ added \in Nat
  /\ adder \in [Adders -> AdderPC] /\ adding \in [Adders -> Tasks \cup {NULL}]
  /\ todo \subseteq Tasks
  /\ destroyer \in DestroyerPC /\ di \in Nat
  /\ freed \subseteq Tasks \cup {Junk} /\ finished \subseteq Tasks \cup {NULL, Junk}

Pending == [i \in 1..queue_size |-> slot[(queue_front + i - 1) % QueueMax]]
Running == {task[w] : w \in Slots} \ {NULL}

TQ == INSTANCE TaskQueue WITH Capacity <- QueueMax, pending <- Pending, running <- Running

\* The ring, its indices and the workers' locals implement the bounded FIFO of TaskQueue:
\* tasks start in the order they were added, none twice, none lost, never more than the
\* ring holds.
IsTaskQueue == TQ!Spec

\* The same as long as the pool has not been told to shut down, for clients that go on
\* adding while another thread destroys the pool.
TaskQueueUntilShutdown == TQ!Init /\ [][shutdown \/ TQ!Next]_<<Pending, Running, finished>>

Alive == {w \in Slots : worker[w] \in {"lock", "towait", "waiting", "woken", "taken", "running"}}

\* live_thr_num is the number of workers that have not left, through every growth and
\* shrinkage, and stays between the bounds given to threadPool_create.  Shutdown does not
\* decrement it, which threadPool_destroy relies on.
ThreadCount ==
  /\ MinThr <= live_thr_num /\ live_thr_num <= MaxThr
  /\ Cardinality(Alive) <= live_thr_num
  /\ ~shutdown => Cardinality(Alive) = live_thr_num

\* busy_thr_num, which the manager compares with live_thr_num, counts the workers that are
\* running a task and never exceeds the workers there are.
BusyCount == busy_thr_num = Cardinality({w \in Slots : worker[w] = "running"})

\* A client sleeps in threadPool_add only while the ring is full: no dequeue leaves an adder
\* asleep beside a free slot.
NoAdderForgotten ==
  ~shutdown => \A a \in Adders : adder[a] = "waiting" => queue_size = QueueMax

\* While tasks wait in the ring some worker is awake: the wake-up of threadPool_add is not
\* lost between a worker's test of the queue and its pthread_cond_wait, nor spent on a
\* worker that leaves.
NoTaskStranded ==
  ~shutdown /\ queue_size > 0 =>
    \E w \in Slots : worker[w] \in {"lock", "woken", "taken", "running"}

\* threadPool_add frees the argument of a slot it reuses: never that of a task twice, and never
\* before a worker has taken the task.  (The first time round it frees what malloc left there.)
ArgFreedOnce ==
  ~shutdown => /\ slot[queue_rear] \notin freed \ {Junk}
               /\ freed \subseteq Running \cup finished \cup {Junk}

\* When threadPool_destroy frees the pool, no thread it created is left to touch it.
NoThreadOutlivesPool ==
  destroyer \in {"arrays freed", "pool freed"} =>
    \A w \in Slots : worker[w] \in {"none", "exited", "joined"}

\* A free index of threads[] exists whenever the manager is allowed to add a thread, so the
\* pool can grow back after it shrank; one worker may still be on its way out of its index.
CanGrowBack ==
  live_thr_num < MaxThr =>
    \E i \in Slots : ~is_thread_alive(i) \/ worker[i] = "exiting"

\* Every task given to a pool that is not destroyed is run to its end.
AddedTasksFinish ==
  \A t \in Tasks : (\E i \in DOMAIN Pending : Pending[i] = t) ~> (t \in finished \/ shutdown)

\* threadPool_add returns, unless the pool is destroyed.
AddReturns == \A a \in Adders : adder[a] # "idle" ~> (adder[a] = "idle" \/ shutdown)

\* threadPool_destroy returns: every worker hears of the shutdown and ends.
DestroyReturns == destroyer = "manager" ~> destroyer = "pool freed"
=============================================================================
