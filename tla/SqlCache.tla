------------------------------- MODULE SqlCache -------------------------------
(***************************************************************************)
(* sql_cache (src/src/workQueue.cpp): statements written to a shared file  *)
(* are carried by cache_thread into two memory queues, pop and cache, and  *)
(* executed from pop by execute_sql_thread, which exchanges the queues     *)
(* when pop is used up.                                                    *)
(*                                                                         *)
(* Lengths and offsets count units of memory; a statement with its length  *)
(* word takes one unit or more.  The writer is outside the program: it     *)
(* appends, as tests() does, or starts again from the beginning of the     *)
(* file when a statement would reach its end, as get_read_buf_len expects. *)
(* The reader's process may stop anywhere and be started again.            *)
(* A critical section is one step except where the other thread, which     *)
(* then holds the other lock or none, can see it half done: pop_lock does  *)
(* not exclude the exchange, which runs under swap_lock.                   *)
(***************************************************************************)
EXTENDS Integers, Sequences, FiniteSets

CONSTANTS MaxPush,   \* max_push_number, in units
          Loads      \* the conditions considered, records
                     \*   [ahead, cap, last, restarts, upto]:
                     \*   last: how many statements the writer will write;
                     \*   upto: the units of the first n of them together;
                     \*   ahead: how far it goes beyond the reader's offset;
                     \*   cap: max_mmap_size less the two header words;
                     \*   restarts: how often the reader may be restarted

ASSUME SqlAssumption ==
  /\ MaxPush \in Nat \ {0}
  /\ \A x \in Loads :
       /\ x.ahead \in Nat /\ x.cap \in Nat /\ x.restarts \in Nat /\ x.last \in Nat \ {0}
       /\ x.upto \in [0..x.last -> Nat] /\ x.upto[0] = 0
       /\ \A m, n \in 0..x.last : m < n => x.upto[m] < x.upto[n]
       /\ \A n \in 1..x.last : x.upto[n] - x.upto[n-1] < x.cap

\* mmap_buf_len, mmap_buf_offset and read_word are offsets in the file; each is the end of a
\* statement, and the variable holds the number of that statement, End being the offset.
VARIABLES
  load,              \* the conditions of this run
  file,              \* the offset at which each statement was written
  read_word,         \* the reader's offset, as published in the file
  mem, pop_mem, cache_mem,      \* the two buffers, and which is which
  pop_mem_offset, pop_mem_length, cache_mem_length,
  mmap_buf_offset,
  cacher, mmap_buf_len, zero_sql_len, read_buf_len, sql_list_buf, at,  \* cache_thread: pc and locals
  exec, sql,                                \* execute_sql_thread: pc and its statement
  executed,
  restarts,          \* how often the reader was restarted
  collided           \* history: a copy into pop has fallen between the test that finds pop used
                     \* up and the end of the exchange, which nothing keeps it out of

shared == <<mem, pop_mem, cache_mem, pop_mem_offset, pop_mem_length, cache_mem_length>>
writer == <<load, file, read_word, restarts, collided>>
batch  == <<mmap_buf_len, zero_sql_len, read_buf_len, sql_list_buf>>
cache  == <<cacher, mmap_buf_offset, batch, at>>
execv  == <<exec, sql, executed>>
vars   == <<shared, writer, cache, execv>>

Cells == 0..MaxPush-1
Zero == 0      \* zeroed memory: read as a length it is an empty statement
Inside == -1   \* memory that is not the start of a statement

written == Len(file)
Size(n) == IF n = Zero THEN 1 ELSE load.upto[n] - load.upto[n-1]
Units(m, n) == load.upto[n] - load.upto[m]     \* of the statements after m, up to n
End(n) == IF n = 0 THEN 0 ELSE file[n] + Size(n)

Latest(S) == CHOOSE n \in S : \A m \in S : m <= n

\* What starts at offset o of the file, which was zeroed when it was created.
FileCell(o) ==
  LET over == {n \in 1..written : o \in file[n]..End(n)-1}
  IN IF over = {} THEN IF o < load.cap THEN Zero ELSE Inside
     ELSE IF file[Latest(over)] = o THEN Latest(over) ELSE Inside

Zeroed == [b \in {0, 1} |-> [i \in Cells |-> Zero]]

Init ==
  /\ load \in Loads /\ file = <<>> /\ read_word = 0 /\ restarts = 0 /\ collided = FALSE
  /\ mem = Zeroed /\ pop_mem = 0 /\ cache_mem = 1
  /\ pop_mem_offset = 0 /\ pop_mem_length = 0 /\ cache_mem_length = 0
  /\ cacher = "poll" /\ mmap_buf_offset = 0 /\ mmap_buf_len = 0 /\ zero_sql_len = 0
  /\ read_buf_len = 0 /\ sql_list_buf = <<>> /\ at = 0
  /\ exec = "lock" /\ sql = Zero /\ executed = <<>>
-----------------------------------------------------------------------------
(* The writer *)

\* A statement that would reach the end of the file is written to its beginning.
Place(n) == IF End(n - 1) + Size(n) >= load.cap THEN 0 ELSE End(n - 1)

Write ==
  /\ written < load.last
  /\ Units(read_word, written + 1) <= load.ahead
  /\ file' = Append(file, Place(written + 1))
  /\ UNCHANGED <<shared, load, read_word, restarts, collided, cache, execv>>
-----------------------------------------------------------------------------
(* cache_thread *)

PopLockFree == cacher \notin {"measure", "publish"}
Exchanging == {"rewind", "relength", "empty cache"}
SwapLockFree == exec \notin Exchanging

\* The writer has started again between the reader's offset and its own.
Around == End(mmap_buf_len) < End(mmap_buf_offset)

CachePoll ==
  /\ cacher = "poll"
  /\ End(written) \notin {0, End(mmap_buf_offset)}
  /\ mmap_buf_len' = written
  /\ LET len == End(written) - End(mmap_buf_offset) IN
     \/ /\ len < 0
        /\ zero_sql_len' = Size(FileCell(0))
        /\ cacher' = "around" /\ read_buf_len' = 0
     \/ /\ len > MaxPush
        /\ cacher' = "onward" /\ read_buf_len' = 0
        /\ UNCHANGED zero_sql_len
     \/ /\ len \in 0..MaxPush
        /\ cacher' = "choose" /\ read_buf_len' = len
        /\ UNCHANGED zero_sql_len
  /\ UNCHANGED <<shared, writer, mmap_buf_offset, sql_list_buf, at, execv>>

\* get_read_buf_len goes on to the next statement, as long as a queue can hold it.  Where there is
\* none it takes something else for a length: undefined, and the model follows it no further.
NextLength(end) ==
  LET s == FileCell(End(mmap_buf_offset) + read_buf_len) IN
  \/ /\ s = Inside
     /\ cacher' = "undefined" /\ UNCHANGED read_buf_len
  \/ /\ s # Inside /\ read_buf_len + Size(s) > MaxPush
     /\ cacher' = end /\ UNCHANGED read_buf_len
  \/ /\ s # Inside /\ read_buf_len + Size(s) <= MaxPush
     /\ read_buf_len' = read_buf_len + Size(s) /\ UNCHANGED cacher

CacheOnward ==
  /\ cacher = "onward"
  /\ NextLength("choose")
  /\ UNCHANGED <<shared, writer, mmap_buf_offset, mmap_buf_len, zero_sql_len, sql_list_buf, at, execv>>

\* Mutant: the statements at the beginning of the file are not counted.
AroundLength_TailOnly == read_buf_len

AroundLength == End(mmap_buf_len) + read_buf_len

\* The statements up to the end of the file are taken to end where the one at its beginning had
\* no room.  When they are too much for a queue, those at the beginning are not counted, and
\* read_buf_len - mmap_buf_len, which is unsigned, may wrap round: memcpy leaves all memory.
CacheAround ==
  /\ cacher = "around"
  /\ \/ /\ End(mmap_buf_offset) + read_buf_len >= load.cap - zero_sql_len
        /\ read_buf_len' = AroundLength /\ cacher' = "choose"
     \/ /\ End(mmap_buf_offset) + read_buf_len < load.cap - zero_sql_len
        /\ NextLength(IF read_buf_len < End(mmap_buf_len) THEN "undefined" ELSE "choose")
  /\ UNCHANGED <<shared, writer, mmap_buf_offset, mmap_buf_len, zero_sql_len, sql_list_buf, at, execv>>

\* The batch: what is at the reader's offset, and, after a new start of the writer, what is at
\* the beginning of the file.
BatchCell(k) ==
  LET tail == read_buf_len - End(mmap_buf_len)
  IN IF Around /\ k >= tail THEN FileCell(k - tail) ELSE FileCell(End(mmap_buf_offset) + k)

\* The choice of a queue, by a look at pop_mem_length without the lock, and the copy of the batch
\* out of the file.  max_push_number - read_buf_len is unsigned.
CacheChoose ==
  /\ cacher = "choose"
  /\ cacher' = IF read_buf_len > MaxPush \/ pop_mem_length < MaxPush - read_buf_len THEN "fill" ELSE "queue"
  /\ sql_list_buf' = [k \in 0..read_buf_len-1 |-> BatchCell(k)]
  /\ UNCHANGED <<shared, writer, mmap_buf_offset, mmap_buf_len, zero_sql_len, read_buf_len, at, execv>>

\* memcpy of the batch to offset o of buffer b.  Of what falls outside, nothing is claimed.
CopyBatch(b, o) ==
  mem' = [mem EXCEPT ![b] =
            [i \in Cells |-> IF i \in o..(o + read_buf_len - 1) THEN sql_list_buf[i - o] ELSE mem[b][i]]]

\* Mutant: the offset is published and not kept.
Advance_NotKept ==
  /\ read_word' = mmap_buf_len
  /\ cacher' = "poll" /\ sql_list_buf' = <<>>
  /\ UNCHANGED <<load, file, restarts, collided, mmap_buf_offset, mmap_buf_len, zero_sql_len, read_buf_len>>

\* The batch is in a queue: the offset moves to the end of the file and is published.
Advance ==
  /\ mmap_buf_offset' = mmap_buf_len
  /\ read_word' = mmap_buf_len
  /\ cacher' = "poll" /\ sql_list_buf' = <<>>
  /\ UNCHANGED <<load, file, restarts, collided, mmap_buf_len, zero_sql_len, read_buf_len>>

CacheFill ==
  /\ cacher = "fill"
  /\ CopyBatch(pop_mem, pop_mem_length)
  /\ cacher' = "measure"
  /\ collided' = (collided \/ exec \in {"exchange"} \cup Exchanging)
  /\ UNCHANGED <<pop_mem, cache_mem, pop_mem_offset, pop_mem_length, cache_mem_length, load, file,
                 read_word, restarts, mmap_buf_offset, batch, at, execv>>

PopEmpty == pop_mem_length = 0 \/ pop_mem_offset = pop_mem_length

\* pop_mem_length is read ...
CacheMeasure ==
  /\ cacher = "measure"
  /\ at' = pop_mem_length
  /\ cacher' = "publish"
  /\ exec' = IF PopEmpty /\ exec = "waiting" THEN "woken" ELSE exec
  /\ UNCHANGED <<shared, writer, mmap_buf_offset, batch, sql, executed>>

\* ... and written back; the lock is released.
CachePublish ==
  /\ cacher = "publish"
  /\ pop_mem_length' = at + read_buf_len
  /\ at' = 0
  /\ Advance
  /\ UNCHANGED <<mem, pop_mem, cache_mem, pop_mem_offset, cache_mem_length, execv>>

\* Mutant: the batch is not counted.
CacheFull_Before == cache_mem_length >= MaxPush

CacheFull == cache_mem_length > MaxPush - read_buf_len

CacheQueue ==
  /\ cacher \in {"queue", "woken"} /\ SwapLockFree
  /\ \/ /\ CacheFull
        /\ cacher' = "waiting"
        /\ UNCHANGED <<shared, writer, mmap_buf_offset, batch>>
     \/ /\ ~CacheFull
        /\ CopyBatch(cache_mem, cache_mem_length)
        /\ cache_mem_length' = cache_mem_length + read_buf_len
        /\ Advance
        /\ UNCHANGED <<pop_mem, cache_mem, pop_mem_offset, pop_mem_length>>
  /\ UNCHANGED <<at, execv>>

CacheThread == \/ CachePoll \/ CacheOnward \/ CacheAround \/ CacheChoose \/ CacheFill
               \/ CacheMeasure \/ CachePublish \/ CacheQueue
-----------------------------------------------------------------------------
(* execute_sql_thread *)

\* The statement at pop_mem_offset.  Where there is none the program reads a length out of
\* the middle of a statement or past the buffer: undefined, and the model follows it no further.
Take ==
  IF pop_mem_offset \in Cells /\ mem[pop_mem][pop_mem_offset] # Inside
  THEN LET s == mem[pop_mem][pop_mem_offset] IN
       /\ sql' = s
       /\ pop_mem_offset' = pop_mem_offset + Size(s)
       /\ exec' = "execute"
  ELSE exec' = "undefined" /\ UNCHANGED <<sql, pop_mem_offset>>

ExecLock ==
  /\ exec = "lock" /\ PopLockFree
  /\ \/ ~PopEmpty /\ Take
     \/ /\ PopEmpty /\ cache_mem_length # 0
        /\ exec' = "exchange"
        /\ UNCHANGED <<sql, pop_mem_offset>>
     \/ /\ PopEmpty /\ cache_mem_length = 0
        /\ exec' = "waiting"
        /\ UNCHANGED <<sql, pop_mem_offset>>
  /\ UNCHANGED <<mem, pop_mem, cache_mem, pop_mem_length, cache_mem_length, writer, cache, executed>>

\* pthread_cond_wait(&pop_fill) returns: only pop is looked at again.
ExecWake ==
  /\ exec = "woken" /\ PopLockFree
  /\ \/ ~PopEmpty /\ Take
     \/ PopEmpty /\ exec' = "waiting" /\ UNCHANGED <<sql, pop_mem_offset>>
  /\ UNCHANGED <<mem, pop_mem, cache_mem, pop_mem_length, cache_mem_length, writer, cache, executed>>

\* Mutant: no third pointer keeps the old pop_mem.
Exchange_NoTemp == pop_mem' = cache_mem /\ cache_mem' = cache_mem

Exchange == pop_mem' = cache_mem /\ cache_mem' = pop_mem

\* The exchange, under swap_lock and without pop_lock.
ExecExchange ==
  /\ exec = "exchange"
  /\ Exchange
  /\ exec' = "rewind"
  /\ UNCHANGED <<mem, pop_mem_offset, pop_mem_length, cache_mem_length, writer, cache, sql, executed>>

\* Mutant: pop is not rewound.
Rewind_Forgotten == UNCHANGED pop_mem_offset

Rewind == pop_mem_offset' = 0

ExecRewind ==
  /\ exec = "rewind"
  /\ Rewind
  /\ exec' = "relength"
  /\ UNCHANGED <<mem, pop_mem, cache_mem, pop_mem_length, cache_mem_length, writer, cache, sql,
                 executed>>

ExecRelength ==
  /\ exec = "relength"
  /\ pop_mem_length' = cache_mem_length
  /\ exec' = "empty cache"
  /\ UNCHANGED <<mem, pop_mem, cache_mem, pop_mem_offset, cache_mem_length, writer, cache, sql,
                 executed>>

\* Mutant: the cache queue keeps its length.
EmptyCache_Forgotten == UNCHANGED cache_mem_length

EmptyCache == cache_mem_length' = 0

ExecEmptyCache ==
  /\ exec = "empty cache"
  /\ EmptyCache
  /\ exec' = "clear"
  /\ UNCHANGED <<mem, pop_mem, cache_mem, pop_mem_offset, pop_mem_length, writer, cache, sql,
                 executed>>

\* pthread_cond_signal(&cache_clear)
ExecClear ==
  /\ exec = "clear"
  /\ cacher' = IF cacher = "waiting" THEN "woken" ELSE cacher
  /\ exec' = "relock"
  /\ UNCHANGED <<shared, writer, mmap_buf_offset, batch, at, sql, executed>>

ExecRelock ==
  /\ exec = "relock" /\ PopLockFree
  /\ Take
  /\ UNCHANGED <<mem, pop_mem, cache_mem, pop_mem_length, cache_mem_length, writer, cache, executed>>

ExecExecute ==
  /\ exec = "execute"
  /\ executed' = Append(executed, sql)
  /\ sql' = Zero
  /\ exec' = "lock"
  /\ UNCHANGED <<shared, writer, cache>>

ExecThread == \/ ExecLock \/ ExecWake \/ ExecExchange \/ ExecRewind \/ ExecRelength
              \/ ExecEmptyCache \/ ExecClear \/ ExecRelock \/ ExecExecute
-----------------------------------------------------------------------------
\* pthread_cond_wait may return without a signal.
SpuriousWakeup ==
  /\ \/ exec = "waiting" /\ exec' = "woken" /\ UNCHANGED cacher
     \/ cacher = "waiting" /\ cacher' = "woken" /\ UNCHANGED exec
  /\ UNCHANGED <<shared, writer, mmap_buf_offset, batch, at, sql, executed>>

\* The reader's process ends at any point; its next run has new queues and begins at offset 0.
Restart ==
  /\ restarts < load.restarts
  /\ restarts' = restarts + 1
  /\ mem' = Zeroed /\ pop_mem' = 0 /\ cache_mem' = 1
  /\ pop_mem_offset' = 0 /\ pop_mem_length' = 0 /\ cache_mem_length' = 0
  /\ cacher' = "poll" /\ mmap_buf_offset' = 0 /\ mmap_buf_len' = 0 /\ zero_sql_len' = 0
  /\ read_buf_len' = 0 /\ sql_list_buf' = <<>> /\ at' = 0
  /\ exec' = "lock" /\ sql' = Zero
  /\ UNCHANGED <<load, file, read_word, collided, executed>>

Next == Write \/ Restart \/ CacheThread \/ ExecThread \/ SpuriousWakeup

Spec == Init /\ [][Next]_vars

\* Both threads are scheduled; neither the writer nor a spurious wake-up need ever come.
FairSpec == Spec /\ WF_vars(CacheThread) /\ WF_vars(ExecThread)
-----------------------------------------------------------------------------
(* Properties *)

CachePC == {"poll", "onward", "around", "choose", "fill", "measure", "publish", "queue", "waiting",
            "woken", "undefined"}
ExecPC == {"lock", "waiting", "woken", "exchange", "rewind", "relength", "empty cache", "clear",
           "relock", "execute", "undefined"}

\* While cache_thread has a batch, after get_read_buf_len.
HasBatch == cacher \in {"fill", "measure", "publish", "queue", "waiting", "woken"}

Contents == 0..written \cup {Inside}

\* The types of the fields of sql_cache and of the threads' locals.
TypeOK ==
  /\ load \in Loads /\ restarts \in 0..load.restarts /\ collided \in BOOLEAN
  /\ file \in Seq(0..load.cap-1) /\ written <= load.last
  /\ mem \in [{0, 1} -> [Cells -> Contents]]
  /\ pop_mem \in {0, 1} /\ cache_mem = 1 - pop_mem
  /\ pop_mem_offset \in Nat /\ pop_mem_length \in Nat /\ cache_mem_length \in Nat
  /\ cacher \in CachePC /\ {read_word, mmap_buf_offset, mmap_buf_len} \subseteq 0..written
  /\ zero_sql_len \in 0..load.cap-1 /\ read_buf_len \in Nat /\ at \in Nat
  /\ sql_list_buf \in [0..(IF HasBatch THEN read_buf_len ELSE 0)-1 -> Contents]
  /\ exec \in ExecPC /\ sql \in 0..written /\ executed \in Seq(0..written)

\* The writer never comes up to the reader's offset from behind and, if the reader is restarted,
\* does not start again.
Behind ==
  /\ \A n \in 2..load.last : load.ahead + Size(n) < load.cap
  /\ load.restarts > 0 => load.upto[load.last] < load.cap

Uniform == \A n \in 1..load.last : Size(n) = Size(1)

\* One statement at a time, all of one length that a queue can hold and, if the reader is restarted,
\* no more of them than a queue can hold.
Orderly ==
  /\ Behind /\ Uniform
  /\ load.ahead = Size(1) /\ Size(1) <= MaxPush
  /\ load.restarts > 0 => load.upto[load.last] <= MaxPush

\* Where the two queues begin and end, also half-way through the exchange.
PopFrom == IF exec \in {"rewind", "relength"} THEN 0 ELSE pop_mem_offset
PopTo   == IF exec \in {"rewind", "relength"} THEN cache_mem_length ELSE pop_mem_length
CacheTo == IF exec \in Exchanging THEN 0 ELSE cache_mem_length

\* The places where a statement can be, and what is there.
Places ==
  ({"executed"} \X DOMAIN executed) \cup (IF exec = "execute" THEN {<<"in hand", 0>>} ELSE {})
    \cup ({"pop"} \X (PopFrom..PopTo-1)) \cup ({"cache"} \X (0..CacheTo-1))
    \cup ({"unread"} \X (mmap_buf_offset+1..written))

Found(p) ==
  CASE p[1] = "executed" -> executed[p[2]]
    [] p[1] = "in hand"  -> sql
    [] p[1] = "pop"      -> mem[pop_mem][p[2]]
    [] p[1] = "cache"    -> mem[cache_mem][p[2]]
    [] p[1] = "unread"   -> p[2]

\* A copy amid an exchange is the only way in which an orderly load loses or repeats a statement:
\* up to the first, every statement is in exactly one place, executed, being executed, in pop, in
\* cache, or in the file beyond the reader's offset, whatever the unlocked look at pop_mem_length
\* makes of an exchange that follows it, and also when the writer starts again from the beginning.
\* After a restart it is in one place at least.  (Their order is not kept: a batch that chose the
\* cache queue before an exchange is overtaken by the next.)
NothingLost ==
  Orderly /\ ~collided =>
    /\ PopTo <= MaxPush /\ CacheTo <= MaxPush
    /\ {Found(p) : p \in Places} \ {Inside} = 1..written
    /\ restarts = 0 => \A p, q \in Places : Found(p) = Found(q) /\ Found(p) # Inside => p = q

\* The cache queue never outgrows its buffer, however the batches and the exchanges fall.
CacheFits == cache_mem_length <= MaxPush

\* The cache queue holds statements, each once and in the order written, even while the
\* races on pop go wrong.
CacheOrdered ==
  Behind =>
    LET c == mem[cache_mem] IN
    /\ \A i \in 0..CacheTo-1 : c[i] # Zero
    /\ \A i, j \in 0..CacheTo-1 : i < j /\ Inside \notin {c[i], c[j]} => c[i] < c[j]

\* A batch ends where a statement ends, fits a queue, and is the largest that does, and its cells
\* are those of the statements beyond the reader's offset; so it is too when the writer has started
\* again, if its statements have one length and all fit a queue.
BatchIsWhole ==
  Behind /\ cacher \notin {"poll", "onward", "around"} /\ (Around => Uniform /\ load.ahead <= MaxPush) =>
    LET len(n) == Units(mmap_buf_offset, n)
        ends == {len(n) : n \in mmap_buf_offset..mmap_buf_len} \cap 0..MaxPush
        StartAt(k) == {n \in mmap_buf_offset+1..mmap_buf_len : len(n - 1) = k}
    IN /\ cacher # "undefined"
       /\ read_buf_len \in ends /\ \A m \in ends : m <= read_buf_len
       /\ \A k \in DOMAIN sql_list_buf :
            IF sql_list_buf[k] = Inside THEN StartAt(k) = {} ELSE sql_list_buf[k] \in StartAt(k)

Log == INSTANCE StatementLog WITH written <- written

\* Under an orderly load, until it is restarted or a copy falls amid an exchange, sql_cache keeps
\* the writer's log: every statement is executed at most once, and only what was written is executed.
KeepsLog == Log!Init /\ [][Orderly /\ ~collided /\ restarts = 0 => Log!Next]_<<written, executed>>

\* Comment at L248: if pop is used up and the cache queue is not empty, they are exchanged.
CacheIsExchanged == cache_mem_length > 0 ~> cache_mem_length = 0
=============================================================================
