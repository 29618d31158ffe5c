# IndexTSDB: TLA+ models, model checking and proofs

IndexTSDB is the beginning of a time-series database: an epoll server, a thread pool, a
reader of SQL statements from shared memory, an in-memory skip list per table, a user table
over SQLite, and a hand-written SQL scanner. The parts are mostly not wired to one another
yet: `main` starts the server, the server's callbacks decode a command and stop there, and the
pool, `sql_cache` and the skip list are started by test functions or not at all. Each is
therefore modelled as a component with its own clients.

Paths below are relative to the repository (`src/` is its source directory).

## 1. Inventory

| component | state | operations | what is hard |
|---|---|---|---|
| thread pool, `src/threadPool.cpp` | ring of tasks, `live/busy/wait_exit_thr_num`, `shutdown`, one lock for these, one for `busy_thr_num`, two condition variables, `threads[]` | `threadPool_create/add/destroy/free`, worker and manager threads | wake-ups lost or spent on the wrong thread; stale samples in the manager; shutdown without the lock; indices of `threads[]` against the count of the living |
| sql_cache, `src/workQueue.cpp` | a shared file with the writer's and the reader's offset; two buffers `pop` and `cache` with lengths and an offset; `pop_lock`, `swap_lock`, two condition variables | `cache_thread`, `execute_sql_thread`, `get_read_buf_len` | exchange of the buffers under the other lock; the unlocked choice of a queue; a wait for only one of two events; capped reads; a writer that starts again from the beginning; restarts |
| reactor server, `src/epollReactorServer.cpp` | table of `EVENT_SIZE`+1 slots, epoll set, sockets | `startServer`, `initAccept`, `readData`, `eventadd`, `eventdel` | edge-triggered readiness; slots reused within one batch of events; a full table |
| skip list, `src/skip_list.cpp` | heap of nodes, `header[]`, `max_level`, `size` | init, insert, find, remove | towers of nodes of different heights after insertions of a key at different drawn levels and removals; dangling pointers |
| user table, `src/user/tools.cpp`; operations, `src/user/operationUser.cpp` | 100 buckets of chains behind `user_lock`; a SQLite table | insert/delete/select user; addUser, login, deleteUser | chain surgery; check-then-act across table and database; one of two stores failing |
| powers, `src/user/Mtools.cpp` | a map | givePower, updatePower | nothing: the guards refuse every call |
| DDL, `src/user/ddl.cpp` | none of its own (MySQL behind `Db_conn`, not in the repository) | one SQL text per call | out of the model |
| protocol, `src/IndexTSDB_protocol.cpp`; `src/crc16.cpp` | one global packet and its length | format, decode, dispatch | narrow integers; a length that is never reset; headers decoded in place, with lengths taken from them; a checksum by tables |
| SQL scanner and LL parser, `src/sqlScanner.cpp` | global arrays of words, the parser's position `len`, `level`, the table's name | `sqlsacnner` (scan, then parse) | nothing is reset between statements; loops and recursions that wait for a word they never take |
| trie, `src/tireTree.cpp` | trie of keywords | insert, search | little |
| `cacheSet`, `primitive`, `sqlparser/` | none (declarations, comments) | none | nothing |

What makes the components correct, in one line each. *Pool*: tasks start in order, each once; every
accepted task ends; the counters count; destroy returns with no thread left. *sql_cache*: every
statement is executed once; queues stay in their buffers; the reader's offset follows what was read.
*Protocol*: a packet arrives as it was put together; the decoder ends. *Scanner*: the words are
those of the statement; the parser stays in them and ends. *Server*: an event reaches the connection
it is for; the only thread never blocks; a closed connection is released. *Skip list*: find returns
what was inserted. *Users*: the table is a copy of the database; a name is there once; login answers
the id of who asked.

The hazards are listed line by line in `PROJECT.json`, with the properties that cover them.

## 2. Modules

| module | role |
|---|---|
| `TaskQueue` | abstract: a bounded FIFO whose tasks start once, in order |
| `ThreadPool`, `MCPool` | the pool; its instances |
| `ThreadPoolProofs`, `TaskQueueProofs` | theorems about the pool: types, adders, counters and pools of constant size; the ring as a queue |
| `StatementLog` | abstract: written statements are executed at most once |
| `SqlCache`, `MCSqlCache` | sql_cache; its instances |
| `SqlCacheProofs` | theorems about it: types, the cache queue, the batches, that no statement is lost or repeated |
| `TimeSeries` | abstract: a table from stamps to sequences of data |
| `SkipList`, `MCSkipList` | the skip list; its instance |
| `SkipListProofs` | theorems about it: pointers, levels, that it implements `TimeSeries` |
| `UserTable`, `MCUserTable` | the user table and the calls on it and the database; its instance |
| `UserTableProofs` | theorems about it: types and answers; the table as a copy of the database |
| `ReactorServer` | the server (its `.cfg` files give the constants directly) |
| `ReactorProofs` | theorems about it |
| `Crc16` | the two checksums |
| `Protocol`, `MCProtocol` | a sender and a receiver of packets; its instance |
| `ProtocolProofs` | theorems about them: types, packets taken apart as they were put together |
| `SqlScanner`, `MCSqlScanner` | scanner and parser; its instance |
| `SqlScannerProofs` | theorems about them |

`ThreadPool`, `SkipList` and `SqlCache` instantiate their abstract module with a refinement
mapping and check it as a property (`IsTaskQueue`, `TaskQueueUntilShutdown`, `IsTimeSeries`,
`KeepsLog`).

### ThreadPool

Variables keep the names of `struct threadPool`; `worker[w]`, `manager`, `adder[a]` and
`destroyer` are the places of the threads in their functions. A worker is its index in
`threads[]`. A critical section under `pool->lock` is one step because everything it touches is
under that lock, except where a thread without the lock can see the inside: the worker between
its test and `pthread_cond_wait` (the destroyer writes `shutdown` and broadcasts without the
lock, and the manager signals without it) and the manager's creation loop. There `lock` names
the holder between steps. `threadPool_add` at shutdown unlocks and falls through, so its
remaining statements are steps without the lock (`AddUnlocked...`). `thread_counter` protects
single reads and writes only, each of which is a step already. The manager's ten-second sleep
is a step of its own that may happen at any time.

Left to the constants: what `malloc` leaves in the fields `threadPool_create` does not set
(`WaitExitInit`, `MallocFill`), whether `pthread_kill` still finds an exited thread that was
not joined (`ZombieAlive`), spurious wake-ups, whether the client destroys the pool, and
whether other threads are adding then (`Overlap`). A task is known by its argument, and
finishes when its function returns. After `threadPool_free`, nothing more is claimed: the pool
is gone, and a step of a worker after that is what `NoThreadOutlivesPool` is about.

### SqlCache

Lengths are in units; statement `n` with its length word takes `Size(n)` of them, and
`load.upto[n]` is what the first `n` take together. `file` is the history of the file: the offset at
which each statement was written. What stands at an offset (`FileCell`) follows from it: a
statement's start, the inside of one, or the zeros the file was created with. Every offset the
program keeps (`mmap_buf_len`, `mmap_buf_offset`, the reader's word) is the end of a statement, and
the variable holds the statement's number; `End` gives the offset. Buffers hold the number of
the statement in its first unit and `Inside` in the others; a copy that leaves the buffer is cut at
its end.

`get_read_buf_len` reads the file while the writer may write, so each turn of its loops is a step
(`CacheOnward`; `CacheAround` after a new start of the writer). `mmap_buf_len` is read before
(`CachePoll`). The copy of the batch out of the file is a step with the choice of the queue
(`CacheChoose`): nothing between the two changes, and a writer that stays behind the reader does
not touch what is copied. In the queues, steps follow the locks as above: the exchange
under `swap_lock` is one step per assignment since `cache_thread`, under `pop_lock`, sees it half done;
the update of `pop_mem_length` is a read and a write for the same reason. Where the program takes
something that is no statement for a length, or leaves its memory, its thread goes to "undefined",
from which nothing is claimed.

The writer is outside the program. As `get_read_buf_len` expects, it appends until a statement
would reach the end of the file (`cap`) and then starts again from offset zero; `tests()` only
ever appends. `Around` is the branch for a writer that has started again: it takes the statements
at the end of the file to end where the one at offset zero had no room, counts those at the
beginning to them, and forgets the latter when the former alone fill a queue, after which the
unsigned `read_buf_len - mmap_buf_len` may wrap round. `Restart` is the end of the reader's
process at any point and `init` of the next.

A `load` fixes the sizes of the statements, how far the writer goes beyond the reader (`ahead`),
where the file ends, and how often the reader is restarted. A copy into pop that falls between the
executor's test and the end of its exchange is a step like any other, since the two threads hold
different locks; `collided` remembers that there has been one. Three predicates on loads say under
which conditions a property is claimed:

- `Behind`: the writer never comes up to the reader's offset from behind. `BatchIsWhole` and
  `CacheOrdered` need it (a writer that writes over what was not read loses it). For
  `BatchIsWhole` round the end of the file there is a second condition: one length of statements,
  all that are ahead fitting a queue.
- `Uniform`: all statements have one length.
- `Orderly`: `Behind` and `Uniform`, one statement at a time, and, if the reader is restarted, no
  more statements than a queue holds. `NothingLost` and `KeepsLog` claim something only of these
  loads, and up to the first `collided` copy: they say that such a copy is the only way in which an
  orderly load loses or repeats a statement (it is one, see section 3).
  After a restart `NothingLost` says at least once instead of once, and `KeepsLog` nothing.

`TypeOK` and `CacheFits` are claimed under every load, whatever collides.

### SkipList

`node` is the heap, addresses are numbers, a header's address is its level. Each operation is one
step of its one thread. The drawn level is any below `MAX_LEVEL`. Walks along pointers are
recursive functions over the heap.

### UserTable

`users` maps a bucket to its chain, a sequence of users; an account is a pair of username and
password, and `load.home` is the hash. What a function does under `user_lock` is one step;
`containsUsername`, which takes no lock, is a step per bucket (it could also be overtaken inside
a bucket; there it would see the chain before or after one insertion at its end, or, under a
concurrent deletion, freed memory, of which nothing is claimed). A client's call goes through
the places in `pc`: for `addUser` the test of the name, the insertion into the database, the
selection that fills the table through `callback`, the search, and the reading of the id from
the pointer found. SQLite is external: `given` is the account of each id ever given, `rows` the
ids it still holds; any statement may fail. `selectUser` passes over the head of a longer chain
and `deleteUser` removes the user after the one it compares, as in the code.

The code leaves outcomes open that the model leaves open too:

- No constructor sets `users[]` or `User::next`. The pointer at the end of a chain is null or not
  (`closed`); whatever walks past one that is not gets to "undefined", where the model ends. `Init`
  and `Restart` are the starts of the program that got through.
- The hash sums signed characters and takes `% 100`, so it may be negative: `load.home` is any
  integer, and a call with one that is no bucket gets to "undefined" as well.
- A user's id, name and password are pointers that SQLite lends to `callback`. `Overwritten` is
  SQLite using that memory again: from then on the id is in `lost`, a comparison of the user's name
  or password may read anything (`Seen`), and so does an answer. `spoilt` remembers that it happened.

A `load` names conditions: `serial` (one call at a time), `deletes`, `unique` (the database
refuses a name twice; its schema is not in the repository), `fails`, `reuses` (SQLite does use the
memory again), and `home`. None of them is taken for granted; the properties say which of them they
need:

- `CacheAgrees` needs no addUser that failed half-way since the start, and a database that refuses
  double names. If it does not refuse them, calls must come one at a time, none may fail and no
  strings be lost, because all hangs on `containsUsername`. If users are deleted, calls must come one
  at a time, no strings be lost, and no two accounts share a bucket. Each condition is necessary.
- `NameOnce` needs a database that refuses double names: the test in `addUser` is not atomic
  with what follows. With deletions it needs one call at a time and strings that stay.
- `AnswerIsOwn` holds under every load: an answer is the account's own id or garbage, the latter
  only where strings were lost or a deletion ran beside other calls.
- `LoginWorks` says for which two reasons login can refuse someone the database has (serial calls,
  conditions of `CacheAgrees`): lost strings, or a place at the head of a longer chain.

Beyond these conditions the table, the names and the answers go wrong in the model as they do in the
code (see section 3).

### ReactorServer

One step per callback; the kernel's side of epoll is `ready` (descriptors with an unreported
edge) and `Readable` (the level), `ptr` is the registered `data.ptr`. The table has
`EVENT_SIZE` = 2 slots and the listener's slot after it, as in the code. Clients connect, send,
close and reset at any time, or, in runs with `patient`, only when the server has nothing left
to notice and the table has room. With `MayFail`, `accept` and `recv` may fail (`Fails`): `EINTR`, and
`ECONNABORTED` of `accept`, lead into a `goto` that tests the old result for ever ("spinning"), any
other error ends the process ("exited"). An `epoll_wait` that returns `EINTR` is called again, which
changes nothing, and its arguments allow no other error, so it does not fail in the model. What
`readData` does with the bytes changes nothing of the server's state and is in `Protocol`. Constructs
that no live call reaches (`senddata`, `eventset`) are left out.

### Crc16 and Protocol

Bytes are numbers, and widths are the program's: `msgLength` and the length handed to the checksum
are 8 bits, the decoder's index 16. A sender fills the one global packet in the order `Serialize`
uses (command, one call of a `Fmt` function, checksum, end) and puts it on the wire. `recv` takes
all bytes there are, as far as they fit the 1024 of `ev->buf`, or, with `cuts`, fewer. The receiver
then either runs the decoder's loop, one step per turn, or does what `readData` does: `checkCommand`
on the first byte, then `ProtocolProcessing` on the first packet. `Protocol_Analysis` changes the
receiver's buffer, as in the code. Printing is left out, with two consequences that the model does
not show: `Serialize` copies the packet to a `DisplayBuffer` of 128 bytes, which longer packets
overflow, and prints it with a u8 index, which never reaches a length of 256 or more
(`IndexTSDB_protocol.cpp:148`); the decoder's loop over a packet's data (line 169) ends, but may read
past the buffer. `expected` and `seen`, and the place `at` that a packet in `sent`
had on the wire, only serve the properties. `SendProtocolLength` is the length of `MsgPayLoad` and
is never reset; beyond `SEND_BUFFER` the sender stops in "overrun", from which nothing is claimed.

The exclusive or is that of two numbers below 2^16, put together from those of their halves down to
two bits, so that it can be reasoned about level by level. `Message_count_CRC_2` uses the tables of
the header file; its loop over the bytes is a recursion by halves, which TLC evaluates without a
deep stack. `SameCode` compares it with `CalCRc` of `crc16.cpp`, which takes the bits of a byte, and
gives those of the result, in the opposite order.

### SqlScanner

A statement is a sequence of pieces: a keyword, a run of letters, a digit, a symbol, a space. One
step of `Scan` is one turn of the loop in `sqlsacnner`. The parser has one action per function, one
step from one reading of `number` to the next; `at` is the function that runs. The three clause
functions differ in the keyword they take and in whom they call, and are one action (`Clause`);
their recursion needs no stack because a call only ever returns at ";" with nothing left to do.
At a word that none of the calls takes the recursion is endless: `at = "overflow"`. `sList` at a
word it does not know turns for ever, a step that changes nothing. `word` keeps what was
written, so that a shorter statement has the tail of a longer one behind it, and `len` goes on
from statement to statement, as nothing in the code resets them. A function that ends without a
`return` gives any value of `Junk`.

Left out are the arrays that are only written. `andFunc` and the inside of `params` are reached by
no statement: `isWhere` compares the "=" it stands at with a name or number, and `params` looks for
"(" where the word is still "values".

## 3. Runs

| run | what it shows |
|---|---|
| `pool_all` | counters, no adder forgotten, arguments freed once, room to grow back, FIFO until shutdown; 1 to 3 threads, ring of 2, 3 tasks, 2 clients, spurious wake-ups, destroy at any time |
| `pool_fixed` | a pool of constant size implements the FIFO, finishes every task, lets every add return, outlives its threads; 2 threads, ring of 1, `wait_exit_thr_num` starting at 0 or 2 |
| `pool_stranded` (violated) | a shrinking pool can leave a task in its ring for ever |
| `pool_destroy_hangs` (violated) | a worker misses the shutdown and destroy joins it for ever |
| `sql_all` | under orderly loads nothing is lost, also round the end of the file and over restarts, and nothing executed twice without a restart, as long as no copy into pop has fallen amid an exchange; under a writer that stays behind the reader the cache queue stays ordered and batches are whole; under any, the cache queue fits its buffer |
| `sql_stuck` (violated) | statements in the cache queue that nobody exchanges |
| `skip_all` | no dangling pointer, nested levels, find answers as the abstract table |
| `users_all` | the table agrees with the database, has a name once, answers an account's own id and lets in whom the database has, each under the conditions it needs |
| `reactor_all` | events reach their owners, no callback blocks, the table overflows only when full, patient clients are served and released |
| `parser_all` | a statement's words are cut right whatever earlier ones left; the parser stays in the words written, takes a table's name only from behind `from` or `into`, and ends with plain statements |
| `protocol_all` | both checksums are the same code; whole buffers are taken apart as they were put together; the decoder ends with any buffer |
| `reactor_leak` (violated) | message and end of stream in one edge: the connection is never released |

The violated runs are disagreements between the code and a comment beside it; the comment and
the counterexample are in `PROJECT.json`, "findings". More are in the models and have no run:

- After a shrink the surviving worker of the pool may have an index that `threadPool_destroy` does
  not join (it joins the first `live_thr_num`), and the pool is freed under it:
  `NoThreadOutlivesPool` fails without a constant size.
- After a read capped to a queue's size `mmap_buf_offset` becomes the end of the file, over
  statements that were not read; `workQueue.h:27` calls it how far the file has been read.
- `execute_sql_thread` exchanges the queues under `swap_lock` while `cache_thread` may be between its
  copy into pop and its update of `pop_mem_length` under `pop_lock`, which `workQueue.h:31` calls the
  lock of that queue: the batch is then in neither queue, though the reader's offset has passed it.
  `NothingLost` fails without `~collided`.
- A deletion from a bucket of two users removes the wrong one from the table, or none
  (`tools.cpp:54`), so that a row is left without a user: `CacheAgrees` fails where accounts share a
  bucket. `operationUser.cpp:67` speaks of a cache of the database's users.
- `login` does not find the first user of a longer chain (`tools.cpp:80`), though
  `operationUser.cpp:121` returns the id if the user is found: `LoginWorks` fails without its
  exception.
- `addUser` and `login` answer a pointer into memory that SQLite may have used again
  (`operationUser.cpp:32`), where `operationUser.cpp:103` promises the added user's id: `AnswerIsOwn`
  fails without its exception.
- `handleCommand` means to find the type of a command (comment at `IndexTSDB_protocol.cpp:264`) and
  takes an exclusive or with 0xC0 where a mask is needed: only 0xC0, 0x80 and 0x40 reach a
  function, and not that of their type; SELECT_SQL and the others reach none.
- The result of `checkCommand` is only printed: unknown commands are processed all the same
  (`epollReactorServer.cpp:91`).
- `DecodeTestBuffer` (`IndexTSDB_protocol.cpp:180`) is coded with another key than `R_CODE`: its
  length decodes to 59 instead of 7.
- `<=` is 160 in the table of numbers (`sqlScanner.cpp:34`) and 150 in the scanner, like `>=`.
- `group by` and `order by` never end: "by" is a keyword that no function takes.

**Bounds.** Three tasks over a ring of two, on a heap that is not empty (`UsedHeap`), and one more
task than slots in `pool_fixed`, make the ring wrap, fill and run empty with an adder asleep; two
clients make the race for a freed slot; three threads over a minimum of one make the manager grow by
two, shrink, leave `wait_exit_thr_num` over, and reuse an index. `MinWaitTaskNum`, `ThreadVary` are
small instead of 10. Tasks and clients are interchangeable in `pool_all` (no liveness there);
`pool_fixed` has none, because of its liveness. `sql_all` has buffers of four units and up to nine
statements: several exchanges, batches capped in the middle of mixed lengths, both queues full;
files of four, five and ten units, so that the writer comes round twice, with statements of one
length and of several, with up to three statements on both sides of the end, and in two loads more
than a queue holds there, one of them with a statement longer than a queue; a writer that laps the
reader and writes over what was not read; two restarts, and one over a file that a queue does not
hold. `skip_all` has four insertions over three stamps on three levels, and two keys not above the
headers' -10. `users_all` has three accounts of two names, in buckets of their own, two in one, or one
with a hash of -1, two clients, and four rows in the life of the database: a name can be deleted and
added again, added twice at once, and left behind by a failure; strings may be lost at any time in
two of its loads. `reactor_all` has more clients than slots and a buffer
of two messages. `parser_all` gives three statements in a row: the first of each form of select,
insert and delete with every combination of list, table, where, clause and end that the parser tells
apart, or of any three of seven kinds of pieces without spaces; the next two of three forms, one of
which has what looks like other statements behind it. `protocol_all` sends each of the 256 bytes, so
that every entry of both tables is used; three packets to a buffer, the first too short to be
decoded alone; packets cut after 3 or 9 bytes, which makes data into headers with lengths of 0, 2
and others; packets of 255, 256 and more bytes; and three long ones at once, more than the
receiver's buffer takes.

**Fairness.** Every thread of the program is scheduled (weak fairness of each thread's steps); a
task's function returns. Weak fairness is enough for the locks in the pool: a lock is held over at
most two steps of its holder or over the manager's bounded loop, and waiting threads are finitely
many, each passing the lock to a state in which it does not want it; where this were not so,
`AddedTasksFinish` and `AddReturns` would fail. In `SqlScanner` a call that was made runs, and in
`Protocol` the decoder's loop does: one thread each, with nothing to wait for. No fairness for
clients, for spurious wake-ups, for the writer of the SQL file, or for the network.
`DestroyReturns`, `CacheIsExchanged` and `ClosedIsReleased` are refuted under this fairness by
states in which no thread has a step that could help.

`CHECK_DEADLOCK FALSE` is given where the system may stop: a pool ends when it is destroyed (or
blocks, as the runs show), the writer and the sender end, the calls of the parser end or overflow
the stack, clients go away, and where a call has followed a wild pointer nothing more is modelled. In
`skip_all` deadlock is checked.

**Mutants.** Each property of a passing run has a changed definition (`<Name>_<Change>`, beside
the definition it replaces) with which TLC finds it violated.

## 4. Proofs

TLAPS checks the theorems below for every value of the constants under the assumptions the modules
state:

- `PoolAssumption`, `NamesAssumption`: sizes are naturals, the ring and the variation are
  positive, `MinThr <= MaxThr`, the special values are distinct from tasks and numbers.
- `SqlAssumption`: a queue of at least one unit; statements take at least one, and less than the
  file has.
- `SkipAssumption`: keys are integers, there is at least one level, NULL is no address.
- `ReactorAssumption`: a table of at least one slot, a buffer of at least one message, descriptors
  distinct from one another and from `NoFd`.
- `UserAssumption`: finitely many accounts, any integers for hashes, special values distinct from
  accounts, users and numbers.
- `ProtocolAssumption`: commands are bytes, data are sequences of bytes, numbers of packets and
  places of cuts are naturals.
- `ScannerAssumption`: names are no keywords, digits or symbols, statements are sequences, and
  their end is not among their pieces.

| theorem | states | argument |
|---|---|---|
| `TypeCorrect` | `Spec => []TypeOK` (pool) | `TypeOK` is inductive; one lemma per thread |
| `AddersNotForgotten` | `Spec => []NoAdderForgotten` | with `UnlockedAtShutdown`: an adder works without the lock only after shutdown. A dequeue wakes every adder, and no other step makes room |
| `LiveCounted`, `BusyCounted` | `Spec => []ThreadCount`, `[]BusyCount` | every step is of one of six kinds by what it does to the sets of living and of busy workers and to the counters (`StepKinds`); the cardinalities follow |
| `PoolGrowsBack` | `~ZombieAlive ⊢ Spec => []CanGrowBack` | `live_thr_num` never lags behind the workers that occupy an index, so below `MaxThr` there is one they do not occupy |
| `FixedPoolServes` | `FixedSize ⊢ Spec => []NoTaskStranded` | with `MinThr = MaxThr > 0` nobody leaves before shutdown (`FixedInv`: all there, the manager neither spawns nor signals), and a worker on its way to the wait holds the lock over an empty ring (`WorkersServe`) |
| `FixedPoolClosed` | `FixedSize ⊢ Spec => []NoThreadOutlivesPool` | `JoinInv`: the threads below the loop's index are joined, and the loop ends at `live_thr_num = MaxThr` |
| `QueueUntilShutdown` | `Spec => TaskQueueUntilShutdown` | `QueueInv`: the indices of the ring agree with its size (`RingInv`), a task is in one place (`OnePlace`), workers and adders hold different ones. Each step maps to a step of `TaskQueue` or a stutter; the lemmas about the ring say what an addition at the rear and a removal at the front do to the sequence it holds |
| `PoolIsTaskQueue` | `~Overlap ⊢ Spec => IsTaskQueue` | no adder is at work at shutdown, so no step without the lock touches the ring |
| `ArgsFreedOnce` | `Spec => []ArgFreedOnce` | `FreedInv`: what was freed has started, and no slot still holds it; a slot holds what was started, what the heap held, or a task of the queue |
| `SqlTyped` | `Spec => []TypeOK` (sql_cache) | with `FileInv` (statements lie in runs, each inside the file) and `PaceInv` (offsets are ordered and the writer is at most `ahead` beyond the reader); every loop ends at or behind its bound |
| `CacheQueueFits` | `Spec => []CacheFits` | `FitsInv`: a batch on its way to the cache queue fits a queue, whatever was read; the length that an exchange takes was the cache queue's |
| `BatchesWhole` | `Spec => []BatchIsWhole` | `OffsetInv`, `LengthInv`, `BatchInv`: what lies between the reader's offset and the writer's has at most one new start in it (`Shape`), and the writer has no room to write over it (`RoomNow`), so each cell read is the cell of the statement the loop has come to (`WindowCell`, `NextCell`), in the turns of `get_read_buf_len` (`LengthAhead`, `LengthAround`) and in the copy (`CopiedAhead`, `CopiedAround`) |
| `CacheInOrder` | `Spec => []CacheOrdered` | `CacheInv`: the cache queue's statements are ordered and all come before the reader's offset, so before the next batch, which is ordered by `BatchesWhole`'s invariant; only `cache_thread` moves the offset, after the copy |
| `StatementsKept` | `Spec => []NothingLost` | `KeptInv`: the exchange, which takes no lock of `cache_thread`, never finds that thread between its copy and its publication (`ThreadInv`); the queues end no further than what was read and, one statement at a time, leave room for the next batch wherever it goes (`RoomInv`); both hold whole statements, and what was copied behind the pop queue stays until it is published (`QueueInv`); all this up to the first `collided` copy (`NotCollided`); what was executed, is in hand, in a queue or unread is everything written, and until a restart these sets are disjoint (`PlaceInv`). A batch is all that is unread, by `BatchesWhole`'s invariant, and each step moves one statement or one batch from a set to the next (`PlaceTake`, `PlaceExecute`, `PlacePublish`, `PlaceQueued`, `PlaceExchange`) |
| `LogKept` | `Spec => KeepsLog` | a step that writes is the log's `Write`; by `PlaceInv` the statement in hand was written and is not among the executed, so that `ExecExecute` is its `Execute`; other steps touch neither |
| `SkipTyped` | `Spec => []TypeOK` (skip list) | `LaidInv`: there are sets of live nodes, one per level, each with its header and one node to a key, that following `right` never leaves and passes in order of the keys, and each node of which stands on one of the set below (`Laid`). Going right comes to an end, as keys rise and nodes are finitely many (`Descend`, by the well-foundedness of the naturals), so the recursive walks have a solution and every solution finds what it should (`PrevIs`, `OnIs`, `PastIs`, `FindIs`). From the places at which `insert` links and `remove` unlinks follow the next sets (`InsertLaid`, `RemoveLaid`); `Room`, by cardinalities, has `malloc` find new addresses (`NewIs`) |
| `SkipNests` | `Spec => []LevelsNest` | the sets are what the walks along the levels reach (`OnIs`), so what `Laid` says of them is said of the levels |
| `SkipListIsTimeSeries` | `Spec => IsTimeSeries` | a stamp's sequence is the list of its node on the lowest level (`ValuesAre`), which insertion extends or creates and removal frees; other nodes' lists stay (`InsertSeries`, `RemoveSeries`) |
| `ReactorTyped` | `Spec => []TypeOK` (server) | with `Registered`; the search for a slot ends in the table because the listener's is behind it (`SearchEnds`, by the well-foundedness of the naturals) |
| `OwnersReached` | `Spec => []EventsReachOwners` | with `Newcomers` (a connection in the backlog is there once and has no slot) the property is inductive: a slot that is free is no event's slot, so it can be given away, and a slot is only released by the one event for it, which has left the batch |
| `ReactorNeverBlocks` | `Spec => []NeverBlocks` | `StillReady`: what `epoll_wait` has reported stays true until the event's turn comes, since only its own callback takes from its descriptor |
| `TableSuffices` | `Spec => OverflowWhenFull` | the search reaches the listener's slot only when each of the others belongs to another connection (`OverflowTakesAll`: slots and registered connections correspond one to one, by `OwnersReached`'s invariant, so their cardinalities agree). No bound on the clients |
| `UsersTyped` | `Spec => []TypeOK` (users) | places in `pc` fix what the locals hold |
| `AnswersOwn` | `Spec => []AnswerIsOwn` | every user in a chain is a row the database gave, in the bucket of its account, and while its strings are not lost what `selectUser` finds has the account asked for |
| `NamesOnce` | `Spec => []NameOnce` | `NamesInv`: between its two statements an `addUser` has a name that is in no chain and that nobody else is inserting |
| `TableIsCopy` | `Spec => []CacheAgrees` | `CopyInv`: `NamesInv`, and every row has its user unless an `addUser` is about to put it into the table, every user its row unless a `deleteUser` is about to take it out, and the rows of an account being deleted have gone |
| `LoginFinds` | `Spec => []LoginWorks` | `LoginInv` on top of `CopyInv`: with one call at a time a `login` that answers nothing has been refused by the table as it still is |
| `ProtocolTyped` | `Spec => []TypeOK` (protocol) | with `PacketInv` (what the sender has filled in so far), `WireInv` and `DataInv`. The recursion of the checksum has a solution with values of 16 bits (`ChecksumRuns`, by the well-foundedness of the naturals; `ChecksumType`) |
| `PacketsTakenApart` | `Spec => []PacketsArrive` | exclusive or with `R_CODE` undoes itself, level by level of its definition (`XorTwo` to `XorBack`), so a header decodes to what was coded (`HeaderBack`). Packets lie one behind the other on the wire (`Placed`, `PlacedAppend`, `Wired`), and `recv` takes them as they lie. A turn of the decoder goes to the end of the packet it is at and changes that packet's header only, so those behind are still coded when it gets there (`Found`, `DecodeTurn`); a buffer of 1024 bytes keeps the 16 bits of its index from wrapping |
| `ScannerTyped` | `Spec => []TypeOK` (scanner) | runs of pieces end in the statement or behind it (`RunEnds`) |
| `WordsAreRight` | `Spec => []WordsAreTheStatements` | `WordsInv`: the scanner stands where no word goes on, has passed no error, and the words before it are done (`CutUpTo`). What `Token` cuts off at a start is the word the reference finds there (`TokenCuts`, `WordEnds`), and the cell it goes to is the number of starts before it (`CutWord`) |
| `ParserStaysInWords` | `Spec => []StaysInWords` | `ScanInv`: between functions `number` is the word at `len` (`Lookahead`), so a function that takes a word stands at one; two words are taken at once only behind a test of the second. `word` never gets shorter |
| `TableNameIsNamed` | `Spec => TableIsNamed` | by `Lookahead` the word before the name taken is "from" or "into", in whatever statement `len` stands |

`NoTaskStranded` and `NoThreadOutlivesPool` are not invariants without `FixedSize` (run
`pool_stranded` for the former). The hypothesis is about the arguments of
`threadPool_create` only, so it is a usable rule for a client. `~Overlap` is one about the client's
conduct. `~ZombieAlive` is about `pthread_kill`: where it finds threads that have ended and were not
joined, as it may, `CanGrowBack` claims nothing.

Only model-checked:

- All liveness (`AddedTasksFinish`, `AddReturns`, `PatientServed`,
  `PlainStatementsEnd`, `DecodeEnds`): outside the prover's reach.
- `CrcsAgree`: that the 512 entries of the tables are what the bit by bit division gives. TLC
  computes it for every byte, which uses every entry; the provers have no theory of bits, and for
  data of any length it is an induction over data. `PacketsTakenApart` does not depend on it: it
  holds with any tables of bytes.

## 5. Not modelled, and why

See "components" in `PROJECT.json`. In short: calls that print; failure of `malloc` and of
`pthread_create`; in `sql_cache` the destructor (`run` never returns); in the skip list `tableMap`
and the undefined cases (`MAX_LEVEL` levels, removal of the header's key); in the user table
the listing of users, a failing `initUser` and `closeUser` under a running call; in the parser
arrays that are only written, code no statement reaches, and statements longer than the arrays; in
the protocol the functions of single commands, which are empty. Not at all: the powers map, whose
guards refuse every call, so that nothing ever changes; DDL, which hands a text to a database
behind one lock, with no state of its own; the keyword trie, a textbook structure with fixed
contents that only its own test uses; `cacheSet` and `primitive`, which are declarations; MySQL,
which is external.

## 6. Plan

Pool: failure of `pthread_create`.
