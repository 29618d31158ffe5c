--------------------------- MODULE SqlCacheProofs ---------------------------
(***************************************************************************)
(* sql_cache, for any statements, buffers and pace of the writer: types,   *)
(* the cache queue, the batches cut out of the file and, under an orderly  *)
(* load, that no statement is lost or executed twice.                      *)
(***************************************************************************)
EXTENDS SqlCache, WellFoundedInduction, TLAPS

(* The file *)

LEMMA Rises ==
  ASSUME NEW N \in Nat, NEW u \in [0..N -> Nat], \A m, n \in 0..N : m < n => u[m] < u[n]
  PROVE  /\ \A m, n \in 0..N : m <= n => u[m] <= u[n]
         /\ \A n \in 1..N : u[n] - u[n-1] \in Nat \ {0}
<1>1. \A m \in 0..N : m \in Int /\ u[m] \in Nat
  OBVIOUS
<1>2. ASSUME NEW m \in 0..N, NEW n \in 0..N, m <= n PROVE u[m] <= u[n]
  <2>1. m = n \/ m < n
    BY <1>1, <1>2
  <2> QED BY <1>1, <2>1
<1>3. ASSUME NEW n \in 1..N PROVE u[n] - u[n-1] \in Nat \ {0}
  <2>1. n - 1 \in 0..N /\ n \in 0..N /\ n - 1 < n
    OBVIOUS
  <2> QED BY <1>1, <2>1
<1> QED BY <1>2, <1>3

LEMMA SeqElements ==
  ASSUME NEW S, NEW s \in Seq(S)
  PROVE  Len(s) \in Nat /\ \A n \in 1..Len(s) : s[n] \in S
  OBVIOUS

LEMMA SeqWider ==
  ASSUME NEW S, NEW T, S \subseteq T, NEW s \in Seq(S)
  PROVE  s \in Seq(T)
  OBVIOUS

LEMMA LoadType ==
  ASSUME load \in Loads
  PROVE  /\ load.ahead \in Nat /\ load.cap \in Nat /\ load.restarts \in Nat
         /\ load.last \in Nat /\ load.last > 0
         /\ load.upto \in [0..load.last -> Nat] /\ load.upto[0] = 0
         /\ \A m, n \in 0..load.last : m < n => load.upto[m] < load.upto[n]
         /\ \A m, n \in 0..load.last : m <= n => load.upto[m] <= load.upto[n]
         /\ \A n \in 1..load.last : Size(n) = load.upto[n] - load.upto[n-1]
         /\ \A n \in 0..load.last : Size(n) \in 1..load.cap-1
<1>1. /\ load.ahead \in Nat /\ load.cap \in Nat /\ load.restarts \in Nat
      /\ load.last \in Nat /\ load.last > 0
      /\ load.upto \in [0..load.last -> Nat] /\ load.upto[0] = 0
      /\ \A m, n \in 0..load.last : m < n => load.upto[m] < load.upto[n]
      /\ \A n \in 1..load.last : load.upto[n] - load.upto[n-1] < load.cap
  BY SqlAssumption
<1>2. \A m, n \in 0..load.last : m <= n => load.upto[m] <= load.upto[n]
  BY <1>1, Rises
<1>3. \A n \in 1..load.last : Size(n) = load.upto[n] - load.upto[n-1]
  BY DEF Size, Zero
<1>4. ASSUME NEW n \in 1..load.last PROVE Size(n) \in 1..load.cap-1
  <2>1. load.upto[n] - load.upto[n-1] \in Nat \ {0}
    BY <1>1, Rises
  <2> QED BY <1>1, <1>3, <2>1
<1>5. Size(0) = 1 /\ load.cap - 1 >= 1
  <2>1. Size(1) \in 1..load.cap-1
    BY <1>1, <1>4
  <2> QED BY <1>1, <2>1 DEF Size, Zero
<1>6. \A n \in 0..load.last : Size(n) \in 1..load.cap-1
  <2> TAKE n \in 0..load.last
  <2>1. n = 0 \/ n \in 1..load.last
    BY <1>1
  <2> QED BY <1>1, <1>4, <1>5, <2>1
<1> QED BY <1>1, <1>2, <1>3, <1>6

LEMMA LatestIs ==
  ASSUME NEW N \in Nat, NEW S \in SUBSET (0..N), S # {}
  PROVE  Latest(S) \in S /\ \A m \in S : m <= Latest(S)
<1> DEFINE T == {N - n : n \in S}
<1>1. T \subseteq Nat /\ T # {}
  <2>1. \A n \in S : N - n \in Nat
    OBVIOUS
  <2> QED BY <2>1
<1>2. PICK t \in T : \A u \in T : ~(<<u, t>> \in OpToRel(<, Nat))
  BY <1>1, NatLessThanWellFounded, WFMin
<1>3. \A u \in T : ~(u < t)
  BY <1>1, <1>2 DEF OpToRel
<1>4. PICK n \in S : t = N - n
  OBVIOUS
<1>5. \A m \in S : m <= n
  <2> TAKE m \in S
  <2>1. N - m \in T
    OBVIOUS
  <2>2. ~(N - m < N - n)
    BY <1>3, <1>4, <2>1
  <2> QED BY <2>2
<1> QED BY <1>5 DEF Latest

FileType ==
  /\ load \in Loads
  /\ file \in Seq(0..load.cap-1) /\ written <= load.last

LEMMA EndType ==
  ASSUME FileType
  PROVE  /\ written \in Nat /\ End(0) = 0
         /\ \A n \in 1..written : /\ file[n] \in 0..load.cap-1 /\ n \in 0..load.last
                                  /\ End(n) = file[n] + Size(n) /\ End(n) > file[n]
         /\ \A n \in 0..written : End(n) \in Nat
<1>1. written \in Nat /\ \A n \in 1..written : file[n] \in 0..load.cap-1
  <2>1. file \in Seq(0..load.cap-1)
    BY DEF FileType
  <2> QED BY <2>1, SeqElements DEF written
<1>2. \A n \in 1..written : n \in 0..load.last
  BY <1>1, LoadType DEF FileType
<1>3. ASSUME NEW n \in 1..written
      PROVE  End(n) = file[n] + Size(n) /\ End(n) > file[n] /\ End(n) \in Nat
  <2>1. Size(n) \in 1..load.cap-1 /\ load.cap \in Nat /\ file[n] \in 0..load.cap-1
    BY <1>1, <1>2, LoadType DEF FileType
  <2>2. n # 0 /\ End(n) = file[n] + Size(n)
    BY <1>1 DEF End
  <2> QED BY <2>1, <2>2
<1>4. End(0) = 0
  BY DEF End
<1> QED BY <1>1, <1>2, <1>3, <1>4

\* The statements that were written over offset o.
Over(o) == {n \in 1..written : o \in file[n]..End(n)-1}

LEMMA FileCellIs ==
  ASSUME NEW o
  PROVE  FileCell(o) = IF Over(o) = {} THEN IF o < load.cap THEN Zero ELSE Inside
                       ELSE IF file[Latest(Over(o))] = o THEN Latest(Over(o)) ELSE Inside
  BY DEF FileCell, Over

LEMMA OverLatest ==
  ASSUME FileType, NEW o, Over(o) # {}
  PROVE  Latest(Over(o)) \in Over(o) /\ \A m \in Over(o) : m <= Latest(Over(o))
<1>1. written \in Nat /\ Over(o) \in SUBSET (0..written)
  BY EndType DEF Over
<1> QED BY <1>1, LatestIs

LEMMA FileCellType ==
  ASSUME FileType, NEW o
  PROVE  FileCell(o) \in 0..written \cup {Inside}
<1>1. written \in Nat
  BY EndType
<1>2. CASE Over(o) = {}
  BY <1>1, <1>2, FileCellIs DEF Zero
<1>3. CASE Over(o) # {}
  <2>1. Latest(Over(o)) \in 1..written
    BY <1>3, OverLatest DEF Over
  <2> QED BY <1>1, <1>3, <2>1, FileCellIs
<1> QED BY <1>2, <1>3

LEMMA FrontCell ==
  ASSUME FileType
  PROVE  FileCell(0) \in 0..written
<1>1. written \in Nat /\ load.cap \in Nat /\ load.cap > 1
  <2>1. Size(0) \in 1..load.cap-1
    BY LoadType DEF FileType
  <2> QED BY <2>1, EndType, LoadType DEF FileType
<1>2. CASE Over(0) = {}
  BY <1>1, <1>2, FileCellIs DEF Zero
<1>3. CASE Over(0) # {}
  <2>1. Latest(Over(0)) \in Over(0)
    BY <1>3, OverLatest
  <2>2. Latest(Over(0)) \in 1..written /\ file[Latest(Over(0))] = 0
    BY <2>1, EndType DEF Over
  <2> QED BY <1>1, <1>3, <2>2, FileCellIs
<1> QED BY <1>2, <1>3

LEMMA SizeType ==
  ASSUME FileType, NEW n \in 0..written
  PROVE  Size(n) \in 1..load.cap-1 /\ Size(n) \in Nat /\ Size(n) > 0
<1>1. n \in 0..load.last /\ load.cap \in Nat
  BY EndType, LoadType DEF FileType
<1> QED BY <1>1, LoadType DEF FileType

LEMMA PlaceType ==
  ASSUME FileType, written < load.last
  PROVE  Place(written + 1) \in 0..load.cap-1
<1>1. written \in Nat /\ End(written) \in Nat /\ load.cap \in Nat /\ load.last \in Nat
  BY EndType, LoadType DEF FileType
<1>2. Size(written + 1) \in 1..load.cap-1
  BY <1>1, LoadType DEF FileType
<1>3. End((written + 1) - 1) = End(written)
  BY <1>1
<1> HIDE DEF written
<1> QED BY <1>1, <1>2, <1>3 DEF Place
LEMMA WriteIs ==
  ASSUME FileType, Write
  PROVE  /\ FileType' /\ written' = written + 1 /\ written + 1 \in 1..load.last
         /\ load' = load
         /\ \A n \in 1..written : file'[n] = file[n]
         /\ file'[written + 1] = Place(written + 1)
         /\ \A n : Size(n)' = Size(n)
         /\ \A n \in 0..written : End(n)' = End(n)
<1>1. /\ load' = load /\ file' = Append(file, Place(written + 1)) /\ written < load.last
  BY DEF Write
<1>2. Place(written + 1) \in 0..load.cap-1
  BY <1>1, PlaceType
<1>3. written \in Nat /\ load.last \in Nat
  BY EndType, LoadType DEF FileType
<1>4. /\ file' \in Seq(0..load.cap-1) /\ written' = written + 1
      /\ \A n \in 1..written : file'[n] = file[n]
      /\ file'[written + 1] = Place(written + 1)
  BY <1>1, <1>2 DEF FileType, written
<1>5. \A n : Size(n)' = Size(n)
  BY <1>1 DEF Size
<1>6. \A n \in 0..written : End(n)' = End(n)
  <2> HIDE DEF written
  <2> QED BY <1>3, <1>4, <1>5 DEF End
<1>7. FileType' /\ written + 1 \in 1..load.last
  <2> HIDE DEF written
  <2> QED BY <1>1, <1>3, <1>4 DEF FileType
<1> QED BY <1>1, <1>4, <1>5, <1>6, <1>7
-----------------------------------------------------------------------------
(* Types *)

LEMMA NoBatch ==
  /\ \A S : [i \in 0..0-1 |-> i] = <<>> /\ <<>> \in [0..0-1 -> S]
  OBVIOUS

LEMMA TypesInit == Init => TypeOK
<1> SUFFICES ASSUME Init PROVE TypeOK
  OBVIOUS
<1>1. load.restarts \in Nat /\ load.cap \in Nat /\ load.last \in Nat /\ load.cap - 1 >= 0
  <2>1. load \in Loads
    BY DEF Init
  <2>2. Size(0) \in 1..load.cap-1
    BY <2>1, LoadType
  <2> QED BY <2>1, <2>2, LoadType
<1>2. written = 0 /\ file \in Seq(0..load.cap-1)
  BY DEF Init, written
<1>3. mem \in [{0, 1} -> [Cells -> Contents]]
  BY <1>2 DEF Init, Zeroed, Zero, Contents
<1>4. sql_list_buf \in [0..(IF HasBatch THEN read_buf_len ELSE 0)-1 -> Contents]
  BY NoBatch DEF Init, HasBatch
<1>5. executed \in Seq(0..written)
  BY DEF Init
<1>6. /\ load \in Loads /\ restarts \in 0..load.restarts /\ collided \in BOOLEAN /\ written <= load.last
      /\ zero_sql_len \in 0..load.cap-1
  <2>1. /\ load \in Loads /\ restarts = 0 /\ collided \in BOOLEAN /\ zero_sql_len = 0
    BY DEF Init
  <2> HIDE DEF written
  <2> QED BY <1>1, <1>2, <2>1
<1>7. /\ pop_mem \in {0, 1} /\ cache_mem = 1 - pop_mem
      /\ pop_mem_offset \in Nat /\ pop_mem_length \in Nat /\ cache_mem_length \in Nat
      /\ cacher \in CachePC /\ read_buf_len \in Nat /\ at \in Nat /\ exec \in ExecPC
  BY DEF Init, CachePC, ExecPC
<1>8. {read_word, mmap_buf_offset, mmap_buf_len} \subseteq 0..written /\ sql \in 0..written
  <2> HIDE DEF written
  <2> QED BY <1>2 DEF Init, Zero
<1> HIDE DEF written
<1> QED BY <1>2, <1>3, <1>4, <1>5, <1>6, <1>7, <1>8 DEF TypeOK

LEMMA TypeFile == TypeOK => FileType
  BY DEF TypeOK, FileType

LEMMA TypesWrite == ASSUME TypeOK, Write PROVE TypeOK'
<1>1. FileType' /\ written' = written + 1 /\ written \in Nat
  BY TypeFile, WriteIs, EndType
<1>2. UNCHANGED <<shared, load, read_word, restarts, collided, cache, execv>>
  BY DEF Write
<1>3. Contents \subseteq Contents' /\ 0..written \subseteq (0..written)'
  BY <1>1 DEF Contents
<1>4. HasBatch' = HasBatch
  BY <1>2 DEF HasBatch, cache
<1>5. executed' \in Seq(0..written')
  <2>1. executed' = executed /\ executed \in Seq(0..written)
    BY <1>2 DEF TypeOK, execv
  <2> HIDE DEF written
  <2> QED BY <1>3, <2>1, SeqWider
<1>6. mem' \in [{0, 1} -> [Cells -> Contents']]
  BY <1>2, <1>3 DEF TypeOK, shared
<1>7. sql_list_buf' \in [0..(IF HasBatch' THEN read_buf_len' ELSE 0)-1 -> Contents']
  BY <1>2, <1>3, <1>4 DEF TypeOK, cache, batch
<1> HIDE DEF written
<1> QED BY <1>1, <1>2, <1>3, <1>5, <1>6, <1>7
        DEF TypeOK, FileType, shared, cache, batch, execv

\* What does not touch the file.
LEMMA FileKept ==
  ASSUME UNCHANGED <<load, file>>
  PROVE  /\ written' = written /\ Contents' = Contents
         /\ (FileType <=> FileType')
         /\ \A n : Size(n)' = Size(n) /\ End(n)' = End(n)
         /\ \A o : FileCell(o)' = FileCell(o) /\ Over(o)' = Over(o)
         /\ \A m, n : Units(m, n)' = Units(m, n)
<1>1. written' = written
  BY DEF written
<1>2. \A n : Size(n)' = Size(n)
  BY DEF Size
<1>3. \A n : End(n)' = End(n)
  BY <1>2 DEF End
<1>4. \A o : FileCell(o)' = FileCell(o) /\ Over(o)' = Over(o)
  BY <1>1, <1>3 DEF FileCell, Over
<1>5. FileType <=> FileType'
  BY <1>1 DEF FileType
<1> QED BY <1>1, <1>2, <1>3, <1>4, <1>5 DEF Contents, Units

LEMMA TypesPoll == ASSUME TypeOK, CachePoll PROVE TypeOK'
<1>1. /\ UNCHANGED <<shared, writer, mmap_buf_offset, sql_list_buf, at, execv>> /\ mmap_buf_len' = written
      /\ cacher = "poll"
  BY DEF CachePoll
<1>2. /\ End(written) \in Nat /\ End(mmap_buf_offset) \in Nat /\ written \in Nat
      /\ Size(FileCell(0)) \in 0..load.cap-1 /\ MaxPush \in Nat
  <2>1. FileType /\ mmap_buf_offset \in 0..written
    BY TypeFile DEF TypeOK
  <2>2. written \in Nat /\ written \in 0..written
    BY <2>1, EndType
  <2>3. load.cap \in Nat /\ Size(FileCell(0)) \in 1..load.cap-1
    BY <2>1, FrontCell, SizeType, LoadType DEF FileType
  <2> HIDE DEF written
  <2> QED BY <2>1, <2>2, <2>3, EndType, SqlAssumption
<1>3. /\ read_buf_len' \in Nat /\ cacher' \in {"around", "onward", "choose"}
      /\ zero_sql_len' \in 0..load.cap-1
  <2>1. zero_sql_len \in 0..load.cap-1
    BY DEF TypeOK
  <2> HIDE DEF written
  <2> QED BY <1>2, <2>1 DEF CachePoll
<1>4. written' = written /\ Contents' = Contents /\ load' = load
  BY <1>1, FileKept DEF writer
<1>5. sql_list_buf' \in [0..(IF HasBatch' THEN read_buf_len' ELSE 0)-1 -> Contents']
  BY <1>1, <1>3, <1>4 DEF TypeOK, HasBatch
<1>6. mmap_buf_len' \in 0..written' /\ cacher' \in CachePC
  <2> HIDE DEF written
  <2> QED BY <1>1, <1>2, <1>3, <1>4 DEF CachePC
<1> HIDE DEF written
<1> QED BY <1>1, <1>3, <1>4, <1>5, <1>6 DEF TypeOK, shared, writer, execv

LEMMA NextLengthType ==
  ASSUME TypeOK, NEW end \in {"undefined", "choose"}, NextLength(end)
  PROVE  read_buf_len' \in Nat /\ cacher' \in {cacher, "undefined", "choose"}
<1> DEFINE s == FileCell(End(mmap_buf_offset) + read_buf_len)
<1>1. s \in 0..written \cup {Inside}
  BY TypeFile, FileCellType
<1>2. s # Inside => Size(s) \in Nat
  BY <1>1, TypeFile, SizeType
<1>3. read_buf_len \in Nat
  BY DEF TypeOK
<1> HIDE DEF written
<1> QED BY <1>2, <1>3 DEF NextLength

LEMMA TypesLength == ASSUME TypeOK, CacheOnward \/ CacheAround PROVE TypeOK'
<1>1. /\ UNCHANGED <<shared, writer, mmap_buf_offset, mmap_buf_len, zero_sql_len, sql_list_buf, at, execv>>
      /\ cacher \in {"onward", "around"}
  BY DEF CacheOnward, CacheAround
<1>2. End(mmap_buf_len) \in Nat /\ read_buf_len \in Nat
  BY TypeFile, EndType DEF TypeOK
<1>3. read_buf_len' \in Nat /\ cacher' \in {"onward", "around", "undefined", "choose"}
  BY <1>1, <1>2, NextLengthType DEF CacheOnward, CacheAround, AroundLength
<1>4. written' = written /\ Contents' = Contents /\ load' = load
  BY <1>1, FileKept DEF writer
<1>5. sql_list_buf' \in [0..(IF HasBatch' THEN read_buf_len' ELSE 0)-1 -> Contents']
  BY <1>1, <1>3, <1>4 DEF TypeOK, HasBatch
<1> HIDE DEF written
<1> QED BY <1>1, <1>3, <1>4, <1>5 DEF TypeOK, shared, writer, execv, CachePC

LEMMA TypesChoose == ASSUME TypeOK, CacheChoose PROVE TypeOK'
<1>1. /\ UNCHANGED <<shared, writer, mmap_buf_offset, mmap_buf_len, zero_sql_len, read_buf_len, at, execv>>
      /\ cacher' \in {"fill", "queue"}
      /\ sql_list_buf' = [k \in 0..read_buf_len-1 |-> BatchCell(k)]
  BY DEF CacheChoose
<1>2. written' = written /\ Contents' = Contents /\ load' = load
  BY <1>1, FileKept DEF writer
<1>3. \A k : BatchCell(k) \in Contents
  BY TypeFile, FileCellType DEF BatchCell, Contents
<1>4. sql_list_buf' \in [0..(IF HasBatch' THEN read_buf_len' ELSE 0)-1 -> Contents']
  BY <1>1, <1>2, <1>3 DEF HasBatch
<1> HIDE DEF written
<1> QED BY <1>1, <1>2, <1>4 DEF TypeOK, shared, writer, execv, CachePC

LEMMA Copied ==
  ASSUME TypeOK, HasBatch, NEW b \in {0, 1}, NEW o \in Nat, CopyBatch(b, o)
  PROVE  /\ mem' \in [{0, 1} -> [Cells -> Contents]]
         /\ mem'[1 - b] = mem[1 - b]
         /\ \A i \in Cells : i \in o..(o + read_buf_len - 1) => mem'[b][i] = sql_list_buf[i - o]
         /\ \A i \in Cells : i \notin o..(o + read_buf_len - 1) => mem'[b][i] = mem[b][i]
<1> DEFINE row == [i \in Cells |-> IF i \in o..(o + read_buf_len - 1) THEN sql_list_buf[i - o]
                                                                      ELSE mem[b][i]]
<1>1. /\ mem \in [{0, 1} -> [Cells -> Contents]] /\ read_buf_len \in Nat
      /\ sql_list_buf \in [0..read_buf_len-1 -> Contents]
  BY DEF TypeOK
<1>2. mem' = [mem EXCEPT ![b] = row]
  BY DEF CopyBatch
<1>3. \A i \in Cells : row[i] = IF i \in o..(o + read_buf_len - 1) THEN sql_list_buf[i - o] ELSE mem[b][i]
  OBVIOUS
<1>4. ASSUME NEW i \in Cells PROVE row[i] \in Contents
  <2>1. i \in Int
    BY SqlAssumption DEF Cells
  <2>2. i \in o..(o + read_buf_len - 1) => i - o \in 0..read_buf_len-1
    BY <1>1, <2>1
  <2>3. mem[b][i] \in Contents
    BY <1>1
  <2> HIDE DEF row
  <2> QED BY <1>1, <1>3, <2>2, <2>3
<1>5. row \in [Cells -> Contents]
  BY <1>4
<1>6. mem'[b] = row /\ mem'[1 - b] = mem[1 - b] /\ mem' \in [{0, 1} -> [Cells -> Contents]]
  <2>1. 1 - b \in {0, 1} /\ 1 - b # b
    OBVIOUS
  <2> HIDE DEF row
  <2> QED BY <1>1, <1>2, <1>5, <2>1
<1> QED BY <1>3, <1>6

LEMMA TypesFill == ASSUME TypeOK, CacheFill PROVE TypeOK'
<1>1. /\ UNCHANGED <<pop_mem, cache_mem, pop_mem_offset, pop_mem_length, cache_mem_length, load, file,
                     read_word, restarts, mmap_buf_offset, batch, at, execv>>
      /\ cacher = "fill" /\ cacher' = "measure" /\ collided' \in BOOLEAN
  BY DEF CacheFill, TypeOK
<1>2. mem' \in [{0, 1} -> [Cells -> Contents]]
  BY <1>1, Copied DEF CacheFill, HasBatch, TypeOK
<1>3. written' = written /\ Contents' = Contents
  BY <1>1, FileKept
<1> HIDE DEF written
<1> QED BY <1>1, <1>2, <1>3 DEF TypeOK, batch, execv, HasBatch, CachePC

LEMMA TypesMeasure == ASSUME TypeOK, CacheMeasure PROVE TypeOK'
<1>1. written' = written /\ Contents' = Contents
  BY FileKept DEF CacheMeasure, writer
<1> HIDE DEF written
<1> QED BY <1>1 DEF CacheMeasure, TypeOK, shared, writer, batch, HasBatch, CachePC, ExecPC

LEMMA TypesPublish == ASSUME TypeOK, CachePublish PROVE TypeOK'
<1>1. written' = written /\ Contents' = Contents
  BY FileKept DEF CachePublish, Advance
<1>2. sql_list_buf' \in [0..(IF HasBatch' THEN read_buf_len' ELSE 0)-1 -> Contents']
  BY NoBatch DEF CachePublish, Advance, HasBatch
<1>3. /\ UNCHANGED <<load, file, restarts, collided, zero_sql_len, read_buf_len, mem, pop_mem, cache_mem,
                     pop_mem_offset, cache_mem_length, exec, sql, executed>>
      /\ at' = 0 /\ cacher' \in CachePC
      /\ {read_word, mmap_buf_offset, mmap_buf_len}' \subseteq {mmap_buf_len}
  BY DEF CachePublish, Advance, execv, CachePC
<1>4. pop_mem_length' \in Nat
  BY DEF CachePublish, TypeOK
<1>5. {read_word, mmap_buf_offset, mmap_buf_len}' \subseteq 0..written
  BY <1>3 DEF TypeOK
<1> HIDE DEF written
<1> QED BY <1>1, <1>2, <1>3, <1>4, <1>5 DEF TypeOK

LEMMA TypesQueue == ASSUME TypeOK, CacheQueue PROVE TypeOK'
<1>1. cacher \in {"queue", "woken"} /\ UNCHANGED <<at, execv>>
  BY DEF CacheQueue
<1>2. CASE cacher' = "waiting" /\ UNCHANGED <<shared, writer, mmap_buf_offset, batch>>
  <2>1. written' = written /\ Contents' = Contents
    BY <1>2, FileKept DEF writer
  <2> HIDE DEF written
  <2> QED BY <1>1, <1>2, <2>1 DEF TypeOK, shared, writer, batch, execv, HasBatch, CachePC
<1>3. CASE /\ CopyBatch(cache_mem, cache_mem_length)
           /\ cache_mem_length' = cache_mem_length + read_buf_len
           /\ Advance
           /\ UNCHANGED <<pop_mem, cache_mem, pop_mem_offset, pop_mem_length>>
  <2>1. written' = written /\ Contents' = Contents
    BY <1>3, FileKept DEF Advance
  <2>2. mem' \in [{0, 1} -> [Cells -> Contents]]
    BY <1>1, <1>3, Copied DEF HasBatch, TypeOK
  <2>3. sql_list_buf' \in [0..(IF HasBatch' THEN read_buf_len' ELSE 0)-1 -> Contents']
    BY <1>3, NoBatch DEF Advance, HasBatch
  <2>4. /\ cache_mem_length' \in Nat /\ cacher' \in CachePC
        /\ {read_word, mmap_buf_offset, mmap_buf_len}' \subseteq 0..written
    <3> HIDE DEF written
    <3> QED BY <1>3 DEF Advance, TypeOK, CachePC
  <2>5. UNCHANGED <<load, file, restarts, collided, zero_sql_len, read_buf_len, pop_mem, cache_mem, pop_mem_offset,
                    pop_mem_length, at, exec, sql, executed>>
    BY <1>1, <1>3 DEF Advance, execv
  <2> HIDE DEF written
  <2> QED BY <2>1, <2>2, <2>3, <2>4, <2>5 DEF TypeOK
<1> QED BY <1>2, <1>3 DEF CacheQueue

LEMMA TakeIs ==
  ASSUME TypeOK, Take
  PROVE  /\ sql' \in 0..written /\ pop_mem_offset' \in Nat /\ exec' \in {"execute", "undefined"}
         /\ \/ /\ pop_mem_offset \in Cells /\ mem[pop_mem][pop_mem_offset] # Inside
               /\ sql' = mem[pop_mem][pop_mem_offset]
               /\ pop_mem_offset' = pop_mem_offset + Size(sql') /\ exec' = "execute"
            \/ /\ ~(pop_mem_offset \in Cells /\ mem[pop_mem][pop_mem_offset] # Inside)
               /\ exec' = "undefined" /\ UNCHANGED <<sql, pop_mem_offset>>
<1>1. CASE pop_mem_offset \in Cells /\ mem[pop_mem][pop_mem_offset] # Inside
  <2>1. mem[pop_mem][pop_mem_offset] \in 0..written
    BY <1>1 DEF TypeOK, Contents
  <2>2. Size(mem[pop_mem][pop_mem_offset]) \in Nat
    BY <2>1, TypeFile, SizeType
  <2>3. pop_mem_offset \in Nat
    BY DEF TypeOK
  <2> HIDE DEF written
  <2> QED BY <1>1, <2>1, <2>2, <2>3 DEF Take
<1>2. CASE ~(pop_mem_offset \in Cells /\ mem[pop_mem][pop_mem_offset] # Inside)
  <2>1. sql \in 0..written /\ pop_mem_offset \in Nat
    BY DEF TypeOK
  <2> QED BY <1>2, <2>1 DEF Take
<1> QED BY <1>1, <1>2

LEMMA TypesExec == ASSUME TypeOK, ExecThread PROVE TypeOK'
<1>0. UNCHANGED <<load, file>>
  BY DEF ExecThread, ExecLock, ExecWake, ExecExchange, ExecRewind, ExecRelength, ExecEmptyCache,
         ExecClear, ExecRelock, ExecExecute, writer
<1>1. written' = written /\ Contents' = Contents
  BY <1>0, FileKept
<1>2. CASE ExecLock \/ ExecWake \/ ExecRelock
  <2>1. /\ UNCHANGED <<mem, pop_mem, cache_mem, pop_mem_length, cache_mem_length, writer, cache, executed>>
        /\ \/ Take
           \/ exec' \in {"exchange", "waiting"} /\ UNCHANGED <<sql, pop_mem_offset>>
    BY <1>2 DEF ExecLock, ExecWake, ExecRelock
  <2>2. sql' \in 0..written /\ pop_mem_offset' \in Nat /\ exec' \in ExecPC
    BY <2>1, TakeIs DEF TypeOK, ExecPC
  <2>3. HasBatch' = HasBatch
    BY <2>1 DEF HasBatch, cache
  <2> HIDE DEF written
  <2> QED BY <1>1, <2>1, <2>2, <2>3 DEF TypeOK, writer, cache, batch
<1>3. CASE ExecExchange \/ ExecRewind \/ ExecRelength \/ ExecEmptyCache
  <2>1. /\ UNCHANGED <<mem, writer, cache, sql, executed>> /\ exec' \in ExecPC
        /\ pop_mem' \in {0, 1} /\ cache_mem' = 1 - pop_mem'
        /\ pop_mem_offset' \in Nat /\ pop_mem_length' \in Nat /\ cache_mem_length' \in Nat
    <3>1. /\ pop_mem \in {0, 1} /\ cache_mem = 1 - pop_mem
          /\ pop_mem_offset \in Nat /\ pop_mem_length \in Nat /\ cache_mem_length \in Nat
      BY DEF TypeOK
    <3>2. CASE ExecExchange
      BY <3>1, <3>2 DEF ExecExchange, Exchange, ExecPC
    <3>3. CASE ExecRewind
      BY <3>1, <3>3 DEF ExecRewind, Rewind, ExecPC
    <3>4. CASE ExecRelength
      BY <3>1, <3>4 DEF ExecRelength, ExecPC
    <3>5. CASE ExecEmptyCache
      BY <3>1, <3>5 DEF ExecEmptyCache, EmptyCache, ExecPC
    <3> QED BY <1>3, <3>2, <3>3, <3>4, <3>5
  <2>2. HasBatch' = HasBatch
    BY <2>1 DEF HasBatch, cache
  <2> HIDE DEF written
  <2> QED BY <1>1, <2>1, <2>2 DEF TypeOK, writer, cache, batch
<1>4. CASE ExecClear
  <2>1. HasBatch' = HasBatch /\ cacher' \in CachePC
    BY <1>4 DEF ExecClear, HasBatch, TypeOK, CachePC
  <2> HIDE DEF written
  <2> QED BY <1>1, <1>4, <2>1 DEF ExecClear, TypeOK, shared, writer, batch, ExecPC
<1>5. CASE ExecExecute
  <2>1. executed' \in Seq(0..written) /\ sql' \in 0..written /\ exec' \in ExecPC
    <3>1. executed \in Seq(0..written) /\ sql \in 0..written /\ written \in Nat
      BY TypeFile, EndType DEF TypeOK
    <3> HIDE DEF written
    <3> QED BY <1>5, <3>1 DEF ExecExecute, ExecPC, Zero
  <2>2. HasBatch' = HasBatch
    BY <1>5 DEF ExecExecute, HasBatch, cache
  <2> HIDE DEF written
  <2> QED BY <1>1, <1>5, <2>1, <2>2 DEF ExecExecute, TypeOK, shared, writer, cache, batch
<1> QED BY <1>2, <1>3, <1>4, <1>5 DEF ExecThread

LEMMA TypesSpurious == ASSUME TypeOK, SpuriousWakeup PROVE TypeOK'
<1>1. written' = written /\ Contents' = Contents
  BY FileKept DEF SpuriousWakeup, writer
<1>2. (HasBatch' <=> HasBatch) /\ cacher' \in CachePC /\ exec' \in ExecPC
  <2>1. cacher \in CachePC /\ exec \in ExecPC
    BY DEF TypeOK
  <2> QED BY <2>1 DEF SpuriousWakeup, HasBatch, CachePC, ExecPC
<1> HIDE DEF written
<1> QED BY <1>1, <1>2 DEF SpuriousWakeup, TypeOK, shared, writer, batch

LEMMA TypesRestart == ASSUME TypeOK, Restart PROVE TypeOK'
<1>1. written' = written /\ Contents' = Contents
  BY FileKept DEF Restart
<1>2. written \in Nat /\ load.restarts \in Nat /\ load.cap \in Nat /\ load.cap > 1
  <2>1. FileType
    BY TypeFile
  <2>2. Size(0) \in 1..load.cap-1
    BY <2>1, LoadType DEF FileType
  <2> QED BY <2>1, <2>2, EndType, LoadType DEF FileType
<1>3. mem' \in [{0, 1} -> [Cells -> Contents]]
  <2> HIDE DEF written
  <2> QED BY <1>2 DEF Restart, Zeroed, Zero, Contents
<1>4. sql_list_buf' \in [0..(IF HasBatch' THEN read_buf_len' ELSE 0)-1 -> Contents']
  BY NoBatch DEF Restart, HasBatch
<1>5. restarts' \in 0..load.restarts
  BY <1>2 DEF Restart, TypeOK
<1>6. {read_word, mmap_buf_offset, mmap_buf_len}' \subseteq 0..written /\ sql' \in 0..written
      /\ zero_sql_len' \in 0..load.cap-1
  <2> HIDE DEF written
  <2> QED BY <1>2 DEF Restart, TypeOK, Zero
<1>7. /\ pop_mem' = 0 /\ cache_mem' = 1 /\ pop_mem_offset' = 0 /\ pop_mem_length' = 0
      /\ cache_mem_length' = 0 /\ cacher' = "poll" /\ read_buf_len' = 0 /\ at' = 0 /\ exec' = "lock"
      /\ UNCHANGED <<load, file, collided, executed>>
  BY DEF Restart
<1>8. /\ load' \in Loads /\ file' \in Seq(0..load'.cap-1) /\ written' <= load'.last
      /\ executed' \in Seq(0..written')
  BY <1>1, <1>7 DEF TypeOK
<1>9. /\ pop_mem' \in {0, 1} /\ cache_mem' = 1 - pop_mem'
      /\ pop_mem_offset' \in Nat /\ pop_mem_length' \in Nat /\ cache_mem_length' \in Nat
      /\ cacher' \in CachePC /\ read_buf_len' \in Nat /\ at' \in Nat /\ exec' \in ExecPC
  BY <1>7 DEF CachePC, ExecPC
<1> HIDE DEF written
<1> QED BY <1>1, <1>3, <1>4, <1>5, <1>6, <1>7, <1>8, <1>9 DEF TypeOK

LEMMA TypesNext == TypeOK /\ [Next]_vars => TypeOK'
<1> SUFFICES ASSUME TypeOK, [Next]_vars PROVE TypeOK'
  OBVIOUS
<1>1. CASE UNCHANGED vars
  <2>1. written' = written /\ Contents' = Contents
    BY <1>1, FileKept DEF vars, writer
  <2>2. HasBatch' = HasBatch
    BY <1>1 DEF vars, cache, HasBatch
  <2> HIDE DEF written
  <2> QED BY <1>1, <2>1, <2>2 DEF TypeOK, vars, shared, writer, cache, batch, execv
<1>2. CASE CacheThread
  BY <1>2, TypesPoll, TypesLength, TypesChoose, TypesFill, TypesMeasure, TypesPublish, TypesQueue
     DEF CacheThread
<1> QED BY <1>1, <1>2, TypesWrite, TypesRestart, TypesExec, TypesSpurious DEF Next

\* The types of the fields of sql_cache and of the threads' locals, whatever the writer does; the
\* offsets never pass that of the writer, and a batch is as long as read_buf_len says.
THEOREM SqlTyped == Spec => []TypeOK
  BY TypesInit, TypesNext, PTL DEF Spec
-----------------------------------------------------------------------------
(* The size of the cache queue *)

\* Only a batch that fits goes to the cache queue.
FitsInv == /\ CacheFits
           /\ cacher \in {"queue", "waiting", "woken"} => read_buf_len <= MaxPush

LEMMA FitsNext == TypeOK /\ FitsInv /\ [Next]_vars => FitsInv'
<1> SUFFICES ASSUME TypeOK, FitsInv, [Next]_vars PROVE FitsInv'
  OBVIOUS
<1>0. MaxPush \in Nat /\ cache_mem_length \in Nat /\ read_buf_len \in Nat /\ pop_mem_length \in Nat
  BY SqlAssumption DEF TypeOK
<1>1. CASE UNCHANGED vars
  BY <1>1 DEF FitsInv, CacheFits, vars, shared, cache, batch
<1>2. CASE Write
  BY <1>2 DEF Write, FitsInv, CacheFits, shared, cache, batch
<1>3. CASE Restart
  BY <1>0, <1>3 DEF Restart, FitsInv, CacheFits
<1>4. CASE CachePoll
  BY <1>4 DEF CachePoll, FitsInv, CacheFits, shared
<1>5. CASE CacheOnward \/ CacheAround
  BY <1>5 DEF CacheOnward, CacheAround, NextLength, FitsInv, CacheFits, shared
<1>6. CASE CacheChoose
  BY <1>0, <1>6 DEF CacheChoose, FitsInv, CacheFits, shared
<1>7. CASE CacheFill \/ CacheMeasure
  BY <1>7 DEF CacheFill, CacheMeasure, FitsInv, CacheFits, shared
<1>8. CASE CachePublish
  BY <1>8 DEF CachePublish, Advance, FitsInv, CacheFits
<1>9. CASE CacheQueue
  <2>1. CASE CacheFull /\ cacher' = "waiting" /\ UNCHANGED <<shared, writer, mmap_buf_offset, batch>>
    BY <1>9, <2>1 DEF CacheQueue, FitsInv, CacheFits, shared, batch
  <2>2. CASE ~CacheFull /\ cache_mem_length' = cache_mem_length + read_buf_len /\ Advance
    BY <1>0, <1>9, <2>2 DEF CacheQueue, CacheFull, Advance, FitsInv, CacheFits
  <2> QED BY <1>9, <2>1, <2>2 DEF CacheQueue
<1>10. CASE ExecLock \/ ExecWake \/ ExecRelock \/ ExecExecute
  BY <1>10 DEF ExecLock, ExecWake, ExecRelock, ExecExecute, FitsInv, CacheFits, shared, cache, batch
<1>11. CASE ExecExchange \/ ExecRewind \/ ExecRelength \/ ExecEmptyCache
  <2>1. cache_mem_length' \in {cache_mem_length, 0} /\ UNCHANGED cache
    BY <1>11 DEF ExecExchange, ExecRewind, ExecRelength, ExecEmptyCache, EmptyCache
  <2> QED BY <1>0, <2>1 DEF FitsInv, CacheFits, cache, batch
<1>12. CASE ExecClear
  BY <1>12 DEF ExecClear, FitsInv, CacheFits, shared, batch
<1>13. CASE SpuriousWakeup
  BY <1>13 DEF SpuriousWakeup, FitsInv, CacheFits, shared, batch
<1> QED BY <1>1, <1>2, <1>3, <1>4, <1>5, <1>6, <1>7, <1>8, <1>9, <1>10, <1>11, <1>12, <1>13
        DEF Next, CacheThread, ExecThread

\* The cache queue never outgrows its buffer, whatever is written, however far ahead the writer is
\* and however the batches and the exchanges fall.
THEOREM CacheQueueFits == Spec => []CacheFits
<1>1. Init => FitsInv
  BY SqlAssumption DEF Init, FitsInv, CacheFits
<1>2. FitsInv => CacheFits
  BY DEF FitsInv
<1> QED BY <1>1, <1>2, SqlTyped, FitsNext, PTL DEF Spec
-----------------------------------------------------------------------------
(* Runs of statements in the file *)

\* Statements w to n were written one behind the other, from the beginning of the file.
Run(w, n) ==
  /\ file[w] = 0 /\ file[n] = Units(w - 1, n - 1)
  /\ \A v \in w+1..n : file[v] # 0

FileInv ==
  /\ \A n \in 1..written : \E w \in 1..n : Run(w, n)
  /\ \A n \in 2..written : IF file[n] = 0 THEN End(n - 1) + Size(n) >= load.cap
                                          ELSE file[n] = End(n - 1)
  /\ \A n \in 1..written : End(n) < load.cap

LEMMA UnitsAre ==
  ASSUME FileType
  PROVE  /\ \A n \in 0..written : load.upto[n] \in Nat
         /\ \A m, n \in 0..written : m <= n => load.upto[m] <= load.upto[n]
         /\ \A m, n \in 0..written : m < n => load.upto[m] < load.upto[n]
         /\ \A n \in 1..written : Size(n) = load.upto[n] - load.upto[n-1]
<1>1. written \in Nat /\ load.last \in Nat /\ written <= load.last
  BY EndType, LoadType DEF FileType
<1>2. 0..written \subseteq 0..load.last /\ 1..written \subseteq 1..load.last
  <2> HIDE DEF written
  <2> QED BY <1>1
<1> HIDE DEF written
<1> QED BY <1>2, LoadType DEF FileType

LEMMA RunEnd ==
  ASSUME FileType, NEW n \in 1..written, NEW w \in 1..n, Run(w, n)
  PROVE  End(n) = load.upto[n] - load.upto[w-1] /\ file[n] = load.upto[n-1] - load.upto[w-1]
<1>0. written \in Nat
  BY EndType
<1>1. n \in 0..written /\ n - 1 \in 0..written /\ w - 1 \in 0..written
  BY <1>0
<1>2. End(n) = file[n] + Size(n) /\ Size(n) = load.upto[n] - load.upto[n-1]
  BY EndType, UnitsAre
<1>3. load.upto[n] \in Nat /\ load.upto[n-1] \in Nat /\ load.upto[w-1] \in Nat
  BY <1>1, UnitsAre
<1> QED BY <1>2, <1>3 DEF Run, Units

LEMMA OneRun ==
  ASSUME FileType, FileInv, NEW m \in 1..written, NEW w \in 1..m, Run(w, m), NEW n \in w..m
  PROVE  Run(w, n)
<1>0. written \in Nat /\ n \in 1..written
  BY EndType
<1>1. PICK v \in 1..n : Run(v, n)
  BY <1>0 DEF FileInv
<1>2. v \in Int /\ w \in Int /\ m \in Int /\ n \in Int
  BY <1>0
<1>3. ~(v > w)
  <2>1. v > w => v \in w+1..m
    BY <1>2
  <2> QED BY <1>1, <2>1 DEF Run
<1>4. ~(v < w)
  <2>1. v < w => w \in v+1..n
    BY <1>2
  <2> QED BY <1>1, <2>1 DEF Run
<1>5. v = w
  BY <1>2, <1>3, <1>4
<1> QED BY <1>1, <1>5

\* What was written beyond statement k takes less room than lies before any new start among it.
Room(k) ==
  \A w \in 2..written : w > k /\ file[w] = 0 => Units(k, written) < End(w - 1)

\* So the statements beyond k can all still be read,
LEMMA WindowCell ==
  ASSUME FileType, FileInv, NEW k \in 0..written, Room(k),
         NEW n \in k+1..written, NEW o \in file[n]..End(n)-1
  PROVE  FileCell(o) = IF file[n] = o THEN n ELSE Inside
<1>0. written \in Nat /\ n \in 1..written /\ n \in Int /\ k \in Int
  BY EndType
<1>1. ASSUME NEW m \in n+1..written PROVE o \notin file[m]..End(m)-1
  <2>1. m \in 1..written /\ m \in Int
    BY <1>0
  <2>2. PICK w \in 1..m : Run(w, m)
    BY <2>1 DEF FileInv
  <2>3. /\ file[n] \in Int /\ End(n) \in Int /\ file[m] \in Int /\ End(m) \in Int
        /\ o \in Int
    <3>1. load.cap \in Nat
      BY LoadType DEF FileType
    <3>2. \A x \in 1..written : file[x] \in 0..load.cap-1 /\ End(x) \in Nat
      BY <1>0, EndType
    <3>3. file[n] \in 0..load.cap-1 /\ End(n) \in Nat /\ file[m] \in 0..load.cap-1 /\ End(m) \in Nat
      BY <1>0, <2>1, <3>2
    <3> QED BY <3>1, <3>3
  <2>4. End(m) = load.upto[m] - load.upto[w-1] /\ file[m] = load.upto[m-1] - load.upto[w-1]
    BY <2>1, <2>2, RunEnd
  <2>5. CASE w <= n
    <3>1. Run(w, n)
      BY <2>1, <2>2, <2>5, <1>0, OneRun
    <3>2. End(n) = load.upto[n] - load.upto[w-1]
      BY <1>0, <2>5, <3>1, RunEnd
    <3>3. n \in 0..written /\ m - 1 \in 0..written /\ w - 1 \in 0..written /\ n <= m - 1
      BY <1>0, <2>1
    <3>4. /\ load.upto[n] <= load.upto[m-1] /\ load.upto[n] \in Nat /\ load.upto[m-1] \in Nat
          /\ load.upto[w-1] \in Nat
      BY <3>3, UnitsAre
    <3> QED BY <2>3, <2>4, <3>2, <3>4
  <2>6. CASE w > n
    <3>1. w \in 2..written /\ w > k /\ w - 1 \in 1..written /\ w \in Int
      BY <1>0, <2>1, <2>6
    <3>2. file[w] = 0 /\ Units(k, written) < End(w - 1)
      BY <2>2, <3>1 DEF Room, Run
    <3>3. PICK u \in 1..w-1 : Run(u, w - 1)
      BY <3>1 DEF FileInv
    <3>4. End(w - 1) = load.upto[w-1] - load.upto[u-1]
      BY <3>1, <3>3, RunEnd
    <3>5. /\ u - 1 \in 0..written /\ w - 1 \in 0..written /\ n - 1 \in 0..written
          /\ k \in 0..written /\ written \in 0..written /\ m \in 0..written
      BY <1>0, <2>1, <3>1
    <3>6. /\ load.upto[u-1] \in Nat /\ load.upto[w-1] \in Nat /\ load.upto[n-1] \in Nat
          /\ load.upto[k] \in Nat /\ load.upto[written] \in Nat /\ load.upto[m] \in Nat
      BY <3>5, UnitsAre
    <3>7. load.upto[w-1] <= load.upto[written] /\ load.upto[m] <= load.upto[written]
      BY <1>0, <2>1, <3>5, UnitsAre
    <3>8. load.upto[k] <= load.upto[n-1]
      BY <1>0, <3>5, UnitsAre
    <3>9. CASE u <= n
      <4>1. Run(u, n)
        BY <1>0, <2>6, <3>1, <3>3, <3>9, OneRun
      <4>2. file[n] = load.upto[n-1] - load.upto[u-1]
        BY <1>0, <3>9, <4>1, RunEnd
      <4> QED BY <2>3, <2>4, <3>2, <3>4, <3>6, <3>7, <3>8, <4>2 DEF Units
    <3>10. CASE u > n
      <4>1. k <= u - 1
        BY <1>0, <3>10
      <4>2. load.upto[k] <= load.upto[u-1]
        BY <3>5, <4>1, UnitsAre
      <4> QED BY <3>2, <3>4, <3>6, <3>7, <4>2 DEF Units
    <3> QED BY <1>0, <3>3, <3>9, <3>10
  <2> QED BY <1>0, <2>2, <2>5, <2>6
<1>2. n \in Over(o)
  BY <1>0 DEF Over
<1>3. Latest(Over(o)) \in Over(o) /\ n <= Latest(Over(o))
  BY <1>2, OverLatest
<1>4. Latest(Over(o)) \in 1..written /\ Latest(Over(o)) \notin n+1..written
  BY <1>1, <1>3 DEF Over
<1>5. Latest(Over(o)) = n
  BY <1>0, <1>3, <1>4
<1> QED BY <1>2, <1>5, FileCellIs

\* there is one new start among them at most,
LEMMA OneTurn ==
  ASSUME FileType, FileInv, NEW k \in 0..written, Room(k),
         NEW v \in k+1..written, NEW w \in v+1..written, file[v] = 0, v > 1
  PROVE  file[w] # 0
<1> SUFFICES ASSUME file[w] = 0 PROVE FALSE
  OBVIOUS
<1>0. written \in Nat /\ w \in 2..written /\ w > k /\ w - 1 \in 1..written /\ w \in Int /\ v \in Int
  BY EndType
<1>1. Units(k, written) < End(w - 1)
  BY <1>0 DEF Room
<1>2. PICK u \in 1..w-1 : Run(u, w - 1)
  BY <1>0 DEF FileInv
<1>3. End(w - 1) = load.upto[w-1] - load.upto[u-1]
  BY <1>0, <1>2, RunEnd
<1>4. u >= v
  <2>1. u < v => v \in u+1..w-1
    BY <1>0
  <2> QED BY <1>0, <1>2, <2>1 DEF Run
<1>5. /\ u - 1 \in 0..written /\ w - 1 \in 0..written /\ k \in 0..written /\ written \in 0..written
      /\ k <= u - 1 /\ w - 1 <= written
  BY <1>0, <1>4
<1>6. /\ load.upto[k] <= load.upto[u-1] /\ load.upto[w-1] <= load.upto[written]
      /\ load.upto[u-1] \in Nat /\ load.upto[w-1] \in Nat /\ load.upto[k] \in Nat
      /\ load.upto[written] \in Nat
  BY <1>5, UnitsAre
<1> QED BY <1>1, <1>3, <1>6 DEF Units

\* and up to it they lie one behind the other.
LEMMA Straight ==
  ASSUME FileType, FileInv, NEW k \in 0..written, NEW n \in k..written,
         \A w \in k+1..n : w > 1 => file[w] # 0
  PROVE  End(n) = End(k) + load.upto[n] - load.upto[k]
<1>0. written \in Nat /\ k \in Int /\ n \in Int /\ k \in 0..written /\ n \in 0..written
  BY EndType
<1>1. load.upto[n] \in Nat /\ load.upto[k] \in Nat /\ End(k) \in Nat /\ load.upto[0] = 0
  BY <1>0, UnitsAre, EndType, LoadType DEF FileType
<1>2. CASE n = k
  BY <1>1, <1>2
<1>3. CASE n > k
  <2>1. n \in 1..written
    BY <1>0, <1>3
  <2>2. PICK w \in 1..n : Run(w, n)
    BY <2>1 DEF FileInv
  <2>3. End(n) = load.upto[n] - load.upto[w-1]
    BY <2>1, <2>2, RunEnd
  <2>4. w <= k \/ w = 1
    BY <1>0, <2>2 DEF Run
  <2>5. CASE k = 0
    BY <1>1, <2>3, <2>4, <2>5, EndType
  <2>6. CASE k # 0
    <3>1. k \in w..n /\ k \in 1..written /\ w \in 1..k
      BY <1>0, <1>3, <2>4, <2>6
    <3>2. Run(w, k)
      BY <2>1, <2>2, <3>1, OneRun
    <3>3. End(k) = load.upto[k] - load.upto[w-1]
      BY <3>1, <3>2, RunEnd
    <3>4. load.upto[w-1] \in Nat
      <4>1. w - 1 \in 0..written
        BY <1>0, <3>1
      <4> QED BY <4>1, UnitsAre
    <3> QED BY <1>1, <2>3, <3>3, <3>4
  <2> QED BY <2>5, <2>6
<1> QED BY <1>0, <1>2, <1>3

\* Behind a new start they lie at the beginning of the file, before the end of statement k.
LEMMA Turned ==
  ASSUME FileType, FileInv, NEW k \in 0..written, Room(k), NEW w \in k+1..written,
         w > 1, file[w] = 0
  PROVE  /\ \A n \in w..written : /\ End(n) = load.upto[n] - load.upto[w-1] /\ End(n) < End(k)
                                  /\ file[n] = load.upto[n-1] - load.upto[w-1]
         /\ \A n \in k..w-1 : End(n) = End(k) + load.upto[n] - load.upto[k]
         /\ End(w - 1) + Size(w) >= load.cap
<1>0. /\ written \in Nat /\ w \in 2..written /\ w > k /\ w - 1 \in 1..written /\ w \in Int /\ k \in Int
      /\ w \in 1..written
  BY EndType
<1>1. \A v \in k+1..w-1 : v > 1 => file[v] # 0
  <2> SUFFICES ASSUME NEW v \in k+1..w-1, v > 1, file[v] = 0 PROVE FALSE
    OBVIOUS
  <2>1. v \in k+1..written /\ w \in v+1..written
    BY <1>0
  <2> QED BY <2>1, OneTurn
<1>2. \A v \in w+1..written : file[v] # 0
  BY OneTurn
<1>3. ASSUME NEW n \in k..w-1 PROVE End(n) = End(k) + load.upto[n] - load.upto[k]
  <2>1. n \in k..written /\ \A v \in k+1..n : v > 1 => file[v] # 0
    BY <1>0, <1>1
  <2> QED BY <2>1, Straight
<1>4. ASSUME NEW n \in w..written PROVE Run(w, n)
  <2>1. n \in 1..written /\ n \in Int
    BY <1>0
  <2>2. PICK v \in 1..n : Run(v, n)
    BY <2>1 DEF FileInv
  <2>3. ~(v < w)
    <3>1. v < w => w \in v+1..n
      BY <1>0, <2>1
    <3> QED BY <2>2, <3>1 DEF Run
  <2>4. ~(v > w)
    <3>1. v > w => v \in w+1..written
      BY <1>0, <2>1
    <3> QED BY <1>2, <2>2, <3>1 DEF Run
  <2>5. v = w
    BY <1>0, <2>1, <2>3, <2>4
  <2> QED BY <2>2, <2>5
<1>5. ASSUME NEW n \in w..written
      PROVE  End(n) = load.upto[n] - load.upto[w-1] /\ file[n] = load.upto[n-1] - load.upto[w-1]
  <2>1. n \in 1..written /\ w \in 1..n
    BY <1>0
  <2> QED BY <1>4, <2>1, RunEnd
<1>6. Units(k, written) < End(w - 1)
  BY <1>0 DEF Room
<1>7. End(w - 1) = End(k) + load.upto[w-1] - load.upto[k]
  BY <1>0, <1>3
<1>8. ASSUME NEW n \in w..written PROVE End(n) < End(k)
  <2>1. /\ n \in 0..written /\ w - 1 \in 0..written /\ k \in 0..written /\ written \in 0..written
        /\ n <= written
    BY <1>0
  <2>2. /\ load.upto[n] <= load.upto[written] /\ load.upto[n] \in Nat /\ load.upto[written] \in Nat
        /\ load.upto[w-1] \in Nat /\ load.upto[k] \in Nat /\ End(k) \in Nat
    BY <2>1, UnitsAre, EndType
  <2> QED BY <1>5, <1>6, <1>7, <2>2 DEF Units
<1>9. End(w - 1) + Size(w) >= load.cap
  BY <1>0 DEF FileInv
<1> QED BY <1>3, <1>5, <1>8, <1>9

LEMMA RunsKept ==
  ASSUME UNCHANGED <<load, file>>
  PROVE  (FileInv <=> FileInv') /\ \A k : Room(k) <=> Room(k)'
<1>1. \A w, n : Run(w, n)' <=> Run(w, n)
  BY FileKept DEF Run
<1>2. written' = written /\ \A n : Size(n)' = Size(n) /\ End(n)' = End(n)
  BY FileKept
<1>3. FileInv <=> FileInv'
  BY <1>1, <1>2 DEF FileInv
<1>4. ASSUME NEW k PROVE Room(k) <=> Room(k)'
  BY <1>2, FileKept DEF Room
<1> QED BY <1>3, <1>4

LEMMA RunsWrite == ASSUME FileType, FileInv, Write PROVE FileInv'
<1>0. PICK p \in Int : p = written + 1
  BY EndType
<1>1. /\ written' = p /\ written \in Nat /\ p - 1 = written /\ load' = load /\ p \in 1..load.last
      /\ \A n \in 1..written : file'[n] = file[n]
      /\ file'[p] = Place(p)
      /\ \A n : Size(n)' = Size(n)
      /\ \A n \in 0..written : End(n)' = End(n)
  BY <1>0, WriteIs, EndType
<1> HIDE DEF written
<1>2. ASSUME NEW n \in 1..written, NEW w \in 1..n, Run(w, n) PROVE Run(w, n)'
  <2>1. w \in 1..written /\ w+1..n \subseteq 1..written
    BY <1>1
  <2>2. file'[w] = file[w] /\ file'[n] = file[n] /\ \A v \in w+1..n : file'[v] = file[v]
    BY <1>1, <2>1
  <2>3. load'.upto[n - 1] - load'.upto[w - 1] = load.upto[n - 1] - load.upto[w - 1]
    BY <1>1
  <2> QED BY <1>2, <2>2, <2>3 DEF Run, Units
<1>3. /\ Place(p) = IF End(written) + Size(p) >= load.cap THEN 0 ELSE End(written)
      /\ End(0) = 0
  BY <1>1, EndType DEF Place
<1>4. \E w \in 1..p : Run(w, p)'
  <2>1. CASE Place(p) = 0
    <3>1. load'.upto[p - 1] - load'.upto[p - 1] = 0
      <4>1. written \in 0..written
        BY <1>1
      <4>2. load.upto[p - 1] \in Nat
        BY <1>1, <4>1, UnitsAre
      <4> QED BY <1>1, <4>2
    <3>2. p+1..p = {} /\ p \in 1..p
      BY <1>1
    <3>3. Run(p, p)'
      BY <1>1, <2>1, <3>1, <3>2 DEF Run, Units
    <3> QED BY <3>2, <3>3
  <2>2. CASE Place(p) # 0
    <3>1. Place(p) = End(written) /\ written # 0
      BY <1>3, <2>2
    <3>2. written \in 1..written /\ p - 1 = written
      BY <1>1, <3>1
    <3>3. PICK u \in 1..written : Run(u, written)
      BY <3>2 DEF FileInv
    <3>4. End(written) = load.upto[written] - load.upto[u - 1]
      BY <3>2, <3>3, RunEnd
    <3>5. file'[u] = 0 /\ file'[p] = load'.upto[p - 1] - load'.upto[u - 1]
      BY <1>1, <3>1, <3>3, <3>4 DEF Run
    <3>6. \A v \in u+1..p : file'[v] # 0
      <4> TAKE v \in u+1..p
      <4>1. v = p \/ (v \in u+1..written /\ v \in 1..written)
        BY <1>1
      <4>2. \A x \in u+1..written : file[x] # 0
        BY <3>3 DEF Run
      <4> QED BY <1>1, <2>2, <4>1, <4>2
    <3>7. Run(u, p)'
      BY <3>5, <3>6 DEF Run, Units
    <3>8. u \in 1..p
      BY <1>1
    <3> QED BY <3>7, <3>8
  <2> QED BY <2>1, <2>2
<1>5. p >= 2 => IF Place(p) = 0 THEN End(p - 1) + Size(p) >= load.cap ELSE Place(p) = End(p - 1)
  <2>1. p >= 2 => End(written) > 0
    <3> SUFFICES ASSUME p >= 2 PROVE End(written) > 0
      OBVIOUS
    <3>1. written \in 1..written
      BY <1>1
    <3>2. file[written] \in 0..load.cap-1 /\ End(written) > file[written] /\ End(written) \in Nat
      BY <3>1, EndType
    <3>3. load.cap \in Nat
      BY LoadType DEF FileType
    <3> QED BY <3>2, <3>3
  <2> QED BY <1>1, <1>3, <2>1
<1>6. \A n \in 1..p : \E w \in 1..n : Run(w, n)'
  <2> TAKE n \in 1..p
  <2>1. CASE n = p
    BY <1>4, <2>1
  <2>2. CASE n # p
    <3>1. n \in 1..written
      BY <1>1, <2>2
    <3>2. PICK w \in 1..n : Run(w, n)
      BY <3>1 DEF FileInv
    <3>3. Run(w, n)'
      BY <1>2, <3>1, <3>2
    <3> QED BY <3>3
  <2> QED BY <2>1, <2>2
<1>7. ASSUME NEW n \in 2..p
      PROVE  IF file'[n] = 0 THEN End(n - 1)' + Size(n)' >= load'.cap ELSE file'[n] = End(n - 1)'
  <2>1. n - 1 \in 0..written /\ (n = p \/ (n \in 2..written /\ n \in 1..written))
    BY <1>1
  <2>2. End(n - 1)' = End(n - 1) /\ Size(n)' = Size(n) /\ load' = load
    BY <1>1, <2>1
  <2>3. CASE n = p
    <3>1. p >= 2
      BY <2>3
    <3> QED BY <1>1, <1>5, <2>2, <2>3, <3>1
  <2>4. CASE n \in 2..written /\ n \in 1..written
    <3>1. file'[n] = file[n]
      BY <1>1, <2>4
    <3>2. IF file[n] = 0 THEN End(n - 1) + Size(n) >= load.cap ELSE file[n] = End(n - 1)
      BY <2>4 DEF FileInv
    <3> QED BY <2>2, <3>1, <3>2
  <2> QED BY <2>1, <2>3, <2>4
<1>8. \A n \in 1..p : End(n)' < load'.cap
  <2> TAKE n \in 1..p
  <2>1. CASE n = p
    <3>1. End(n)' = Place(p) + Size(p)
      BY <1>1, <2>1 DEF End
    <3>2. Size(p) \in 1..load.cap-1 /\ load.cap \in Nat /\ End(written) \in Nat
      BY <1>1, LoadType, EndType DEF FileType
    <3>3. Place(p) + Size(p) < load.cap
      BY <1>3, <3>2
    <3>4. load'.cap = load.cap
      BY <1>1
    <3> QED BY <3>1, <3>3, <3>4
  <2>2. CASE n # p
    <3>1. n \in 1..written /\ n \in 0..written
      BY <1>1, <2>2
    <3>2. End(n) < load.cap
      BY <3>1 DEF FileInv
    <3>3. End(n)' = End(n)
      BY <1>1, <3>1
    <3>4. load'.cap = load.cap
      BY <1>1
    <3> QED BY <3>2, <3>3, <3>4
  <2> QED BY <2>1, <2>2
<1> QED BY <1>1, <1>6, <1>7, <1>8 DEF FileInv

\* Statements a+1 to n lie one behind the other from offset o.
Stretch(a, n, o) == \A m \in a+1..n : file[m] = o + Units(a, m - 1)

\* What lies beyond statement k up to statement e: one stretch, or two about a new start with w.
Turn(k, e, w) == w \in k+1..e /\ w > 1 /\ file[w] = 0

LEMMA Shape ==
  ASSUME FileType, FileInv, NEW k \in 0..written, NEW e \in k+1..written, Room(k)
  PROVE  /\ End(e) < End(k) \/ End(e) = End(k) + Units(k, e)
         /\ End(e) >= End(k) => Stretch(k, e, End(k)) /\ End(e) = End(k) + Units(k, e)
         /\ End(e) < End(k) => \E w : Turn(k, e, w)
         /\ \A w : Turn(k, e, w) =>
              /\ Stretch(k, w - 1, End(k)) /\ End(w - 1) = End(k) + Units(k, w - 1)
              /\ Stretch(w - 1, e, 0) /\ End(e) = Units(w - 1, e)
              /\ End(e) < End(k) /\ End(w - 1) + Size(w) >= load.cap
<1>0. written \in Nat /\ k \in Int /\ e \in Int /\ e \in 1..written /\ e \in k..written
  BY EndType
<1>1. \A n \in 0..written : load.upto[n] \in Nat /\ End(n) \in Nat
  BY EndType, UnitsAre
<1>2. \A m \in 1..written : file[m] = End(m) - (load.upto[m] - load.upto[m-1]) /\ file[m] \in Int
  <2> TAKE m \in 1..written
  <2>1. file[m] \in 0..load.cap-1 /\ load.cap \in Nat
    BY EndType, LoadType DEF FileType
  <2>2. End(m) = file[m] + Size(m) /\ Size(m) = load.upto[m] - load.upto[m-1]
    BY EndType, UnitsAre
  <2>3. load.upto[m] \in Nat /\ load.upto[m-1] \in Nat
    BY <1>0, <1>1
  <2> QED BY <2>1, <2>2, <2>3
<1>3. ASSUME NEW a \in 0..written, NEW n \in a..written, NEW o \in Int,
             \A m \in a+1..n : End(m) = o + load.upto[m] - load.upto[a]
      PROVE  Stretch(a, n, o)
  <2> SUFFICES ASSUME NEW m \in a+1..n PROVE file[m] = o + Units(a, m - 1)
    BY DEF Stretch
  <2>1. m \in 1..written /\ m - 1 \in 0..written /\ m \in 0..written
    BY <1>0
  <2>2. file[m] = End(m) - (load.upto[m] - load.upto[m-1]) /\ End(m) = o + load.upto[m] - load.upto[a]
    BY <1>2, <1>3, <2>1
  <2>3. load.upto[m] \in Nat /\ load.upto[m-1] \in Nat /\ load.upto[a] \in Nat
    BY <1>1, <2>1
  <2> QED BY <2>2, <2>3 DEF Units
<1>4. ASSUME NEW w, Turn(k, e, w)
      PROVE  /\ Stretch(k, w - 1, End(k)) /\ End(w - 1) = End(k) + Units(k, w - 1)
             /\ Stretch(w - 1, e, 0) /\ End(e) = Units(w - 1, e)
             /\ End(e) < End(k) /\ End(w - 1) + Size(w) >= load.cap
  <2>1. w \in k+1..written /\ w > 1 /\ file[w] = 0 /\ w <= e /\ w \in Int
    BY <1>0, <1>4 DEF Turn
  <2>2. /\ \A n \in w..written : /\ End(n) = load.upto[n] - load.upto[w-1] /\ End(n) < End(k)
                                 /\ file[n] = load.upto[n-1] - load.upto[w-1]
        /\ \A n \in k..w-1 : End(n) = End(k) + load.upto[n] - load.upto[k]
        /\ End(w - 1) + Size(w) >= load.cap
    BY <2>1, Turned
  <2>3. /\ e \in w..written /\ w - 1 \in k..w-1 /\ w - 1 \in k..written /\ w - 1 \in 0..written
        /\ End(k) \in Int /\ load.upto[w-1] \in Nat /\ load.upto[k] \in Nat /\ load.upto[e] \in Nat
        /\ e \in w-1..written
    BY <1>0, <1>1, <2>1
  <2>4. Stretch(k, w - 1, End(k))
    <3>1. \A m \in k+1..w-1 : End(m) = End(k) + load.upto[m] - load.upto[k]
      BY <1>0, <2>1, <2>2
    <3> QED BY <1>3, <2>3, <3>1
  <2>5. Stretch(w - 1, e, 0)
    <3>1. ASSUME NEW m \in (w-1)+1..e PROVE End(m) = 0 + load.upto[m] - load.upto[w-1]
      <4>1. m \in w..written /\ m \in 0..written
        BY <1>0, <2>1
      <4>2. End(m) = load.upto[m] - load.upto[w-1] /\ load.upto[m] \in Nat
        BY <1>1, <2>2, <4>1
      <4> QED BY <2>3, <4>2
    <3> QED BY <1>3, <2>3, <3>1
  <2>6. End(w - 1) = End(k) + Units(k, w - 1)
    BY <2>2, <2>3 DEF Units
  <2>7. End(e) = Units(w - 1, e) /\ End(e) < End(k)
    BY <2>2, <2>3 DEF Units
  <2> QED BY <2>2, <2>4, <2>5, <2>6, <2>7
<1>5. CASE \E w : Turn(k, e, w)
  <2>1. End(k) \in Nat /\ End(e) \in Nat
    BY <1>0, <1>1
  <2>2. End(e) < End(k)
    BY <1>4, <1>5
  <2> QED BY <1>4, <1>5, <2>1, <2>2
<1>6. CASE ~\E w : Turn(k, e, w)
  <2>1. \A n \in k+1..e : n > 1 => file[n] # 0
    BY <1>0, <1>6 DEF Turn
  <2>2. ASSUME NEW n \in k..e PROVE End(n) = End(k) + load.upto[n] - load.upto[k]
    <3>1. n \in k..written /\ \A m \in k+1..n : m > 1 => file[m] # 0
      BY <1>0, <2>1
    <3> QED BY <3>1, Straight
  <2>3. Stretch(k, e, End(k))
    <3>1. End(k) \in Int /\ \A m \in k+1..e : m \in k..e
      BY <1>0, <1>1
    <3> QED BY <1>0, <1>3, <2>2, <3>1
  <2>4. End(e) = End(k) + Units(k, e)
    <3>1. e \in k..e /\ load.upto[e] \in Nat /\ load.upto[k] \in Nat /\ End(k) \in Nat
      BY <1>0, <1>1
    <3> QED BY <2>2, <3>1 DEF Units
  <2>5. ~(End(e) < End(k))
    <3>1. /\ e \in 0..written /\ load.upto[k] <= load.upto[e] /\ load.upto[e] \in Nat /\ load.upto[k] \in Nat
          /\ End(k) \in Nat
      BY <1>0, <1>1, UnitsAre
    <3> QED BY <2>4, <3>1 DEF Units
  <2> QED BY <1>6, <2>3, <2>4, <2>5
<1> QED BY <1>5, <1>6

\* Every unit of statements a+1 to n belongs to one of them.
LEMMA UnitOf ==
  ASSUME FileType, NEW a \in 0..written, NEW n \in a..written, NEW i \in Nat, i < Units(a, n)
  PROVE  \E m \in a+1..n : Units(a, m - 1) <= i /\ i < Units(a, m)
<1>0. written \in Nat /\ a \in Nat /\ n \in Nat /\ a <= n /\ \A m \in 0..written : load.upto[m] \in Nat
  BY EndType, UnitsAre
<1> DEFINE T == {m \in a..n : i < Units(a, m)}
<1>1. T \subseteq Nat /\ n \in T
  BY <1>0
<1>2. PICK m \in T : \A x \in T : ~(<<x, m>> \in OpToRel(<, Nat))
  BY <1>1, NatLessThanWellFounded, WFMin
<1>3. \A x \in T : ~(x < m)
  BY <1>1, <1>2 DEF OpToRel
<1>4. m \in a..n /\ i < Units(a, m) /\ m # a
  <2>1. Units(a, a) = 0
    BY <1>0 DEF Units
  <2> QED BY <2>1
<1>5. m - 1 \in a..n /\ m - 1 \notin T /\ m \in a+1..n
  BY <1>0, <1>3, <1>4
<1>6. Units(a, m - 1) \in Int
  <2>1. m - 1 \in 0..written
    BY <1>0, <1>5
  <2> QED BY <1>0, <2>1 DEF Units
<1> QED BY <1>4, <1>5, <1>6

\* What is found in a stretch that can still be read: a statement where it starts.
LEMMA StretchCell ==
  ASSUME FileType, FileInv, NEW k \in 0..written, Room(k),
         NEW a \in k..written, NEW n \in a..written, NEW o \in Int, Stretch(a, n, o),
         NEW p \in Int, NEW i \in Nat, p = o + i, i < Units(a, n)
  PROVE  \/ FileCell(p) \in a+1..n /\ Units(a, FileCell(p) - 1) = i
         \/ FileCell(p) = Inside /\ \A m \in a+1..n : Units(a, m - 1) # i
<1>0. written \in Nat /\ a \in 0..written /\ a \in Int /\ n \in Int /\ k \in Int
  BY EndType
<1>1. PICK m \in a+1..n : Units(a, m - 1) <= i /\ i < Units(a, m)
  BY <1>0, UnitOf
<1>2. m \in k+1..written /\ m \in 1..written /\ m - 1 \in 0..written /\ m \in 0..written /\ m \in Int
  BY <1>0
<1>3. \A x \in 0..written : load.upto[x] \in Nat
  BY UnitsAre
<1>4. file[m] = o + Units(a, m - 1) /\ Units(a, m - 1) \in Int /\ Units(a, m) \in Int
  BY <1>0, <1>2, <1>3 DEF Stretch, Units
<1>5. End(m) = o + Units(a, m)
  <2>1. End(m) = file[m] + (load.upto[m] - load.upto[m-1])
    BY <1>2, EndType, UnitsAre
  <2>2. load.upto[m] \in Nat /\ load.upto[m-1] \in Nat /\ load.upto[a] \in Nat
    BY <1>0, <1>2, <1>3
  <2> QED BY <1>4, <2>1, <2>2 DEF Units
<1>6. p \in file[m]..End(m)-1
  BY <1>1, <1>4, <1>5
<1>7. FileCell(p) = IF file[m] = p THEN m ELSE Inside
  BY <1>2, <1>6, WindowCell
<1>8. CASE file[m] = p
  BY <1>4, <1>7, <1>8
<1>9. CASE file[m] # p
  <2>1. ASSUME NEW x \in a+1..n PROVE Units(a, x - 1) # i
    <3>1. x \in Int /\ x \in 0..written /\ x - 1 \in 0..written /\ a \in 0..written
      BY <1>0
    <3>2. /\ load.upto[x] \in Nat /\ load.upto[x-1] \in Nat /\ load.upto[a] \in Nat
          /\ load.upto[m] \in Nat /\ load.upto[m-1] \in Nat
      BY <1>2, <1>3, <3>1
    <3>3. CASE x < m
      <4>1. x - 1 < m - 1
        BY <1>2, <3>1, <3>3
      <4>2. load.upto[x-1] < load.upto[m-1]
        BY <1>2, <3>1, <4>1, UnitsAre
      <4> QED BY <1>1, <3>2, <4>2 DEF Units
    <3>4. CASE x > m
      <4>1. m <= x - 1
        BY <1>2, <3>1, <3>4
      <4>2. load.upto[m] <= load.upto[x-1]
        BY <1>2, <3>1, <4>1, UnitsAre
      <4> QED BY <1>1, <3>2, <4>2 DEF Units
    <3>5. CASE x = m
      BY <1>4, <1>9, <3>5
    <3> QED BY <1>2, <3>1, <3>3, <3>4, <3>5
  <2> QED BY <1>7, <1>9, <2>1
<1> QED BY <1>8, <1>9
-----------------------------------------------------------------------------
(* The offsets *)

\* The offset published is the reader's, unless it was restarted; the writer keeps its pace to it.
PaceInv ==
  /\ mmap_buf_offset <= read_word /\ (restarts = 0 => mmap_buf_offset = read_word)
  /\ cacher # "poll" => mmap_buf_offset < mmap_buf_len /\ read_word <= mmap_buf_len
  /\ Units(read_word, written) <= load.ahead

OffsetInv == TypeOK /\ FileInv /\ PaceInv

LEMMA PaceInit == Init => FileInv /\ PaceInv
<1> SUFFICES ASSUME Init PROVE FileInv /\ PaceInv
  OBVIOUS
<1>1. TypeOK /\ written = 0
  BY TypesInit DEF Init, written
<1>2. FileInv
  BY <1>1 DEF FileInv
<1>3. Units(0, 0) = 0 /\ load.ahead \in Nat
  BY <1>1, LoadType DEF TypeOK, Units
<1> HIDE DEF written
<1> QED BY <1>1, <1>2, <1>3 DEF Init, PaceInv

\* The steps of cache_thread that move the reader's offset.
LEMMA PaceAdvance ==
  ASSUME TypeOK, PaceInv, Advance, cacher # "poll"
  PROVE  PaceInv'
<1>1. /\ load' = load /\ written' = written /\ FileType
      /\ mmap_buf_offset' = mmap_buf_len /\ read_word' = mmap_buf_len /\ cacher' = "poll"
  BY TypeFile, FileKept DEF Advance
<1>2. /\ read_word \in 0..written /\ mmap_buf_len \in 0..written /\ written \in 0..written
      /\ read_word <= mmap_buf_len /\ written \in Nat
  <2>1. written \in Nat
    BY <1>1, EndType
  <2> HIDE DEF written
  <2> QED BY <2>1 DEF TypeOK, PaceInv
<1>3. /\ load.upto[read_word] \in Nat /\ load.upto[mmap_buf_len] \in Nat /\ load.upto[written] \in Nat
      /\ load.upto[read_word] <= load.upto[mmap_buf_len] /\ load.ahead \in Nat
  BY <1>1, <1>2, UnitsAre, LoadType DEF FileType
<1>4. Units(read_word, written) <= load.ahead
  BY DEF PaceInv
<1>5. Units(read_word, written)' = load.upto[written] - load.upto[mmap_buf_len]
  <2> HIDE DEF written
  <2> QED BY <1>1 DEF Units
<1>6. (Units(read_word, written) <= load.ahead)'
  <2> HIDE DEF written
  <2> QED BY <1>1, <1>3, <1>4, <1>5 DEF Units
<1> HIDE DEF written
<1> QED BY <1>1, <1>2, <1>6 DEF PaceInv

LEMMA PacePoll == ASSUME TypeOK, PaceInv, CachePoll PROVE PaceInv'
<1>1. /\ UNCHANGED <<load, file, read_word, restarts, mmap_buf_offset>> /\ mmap_buf_len' = written
      /\ written' = written
  BY FileKept DEF CachePoll, writer
<1>2. /\ mmap_buf_offset \in 0..written /\ read_word \in 0..written /\ written \in Nat
      /\ mmap_buf_offset # written
  <2>1. written \in Nat
    BY TypeFile, EndType
  <2> HIDE DEF written
  <2> QED BY <2>1 DEF TypeOK, CachePoll
<1>3. Units(read_word, written)' = Units(read_word, written)
  BY <1>1 DEF Units
<1> HIDE DEF written
<1> QED BY <1>1, <1>2, <1>3 DEF PaceInv

LEMMA PaceNext == OffsetInv /\ [Next]_vars => PaceInv'
<1> SUFFICES ASSUME OffsetInv, [Next]_vars PROVE PaceInv'
  OBVIOUS
<1>0. TypeOK /\ TypeOK' /\ FileType /\ PaceInv
  BY TypesNext, TypeFile DEF OffsetInv
<1>1. CASE Write
  <2>1. /\ UNCHANGED <<load, read_word, restarts, mmap_buf_offset, mmap_buf_len, cacher>>
        /\ written' = written + 1 /\ Units(read_word, written + 1) <= load.ahead
    BY <1>0, <1>1, WriteIs DEF Write, cache, batch
  <2>2. Units(read_word, written)' = Units(read_word, written + 1)
    BY <2>1 DEF Units
  <2> HIDE DEF written
  <2> QED BY <1>0, <2>1, <2>2 DEF PaceInv
<1>2. ASSUME UNCHANGED <<load, file, read_word, restarts, mmap_buf_offset, mmap_buf_len>>,
             cacher' # "poll" => cacher # "poll"
      PROVE  PaceInv'
  <2>1. written' = written /\ Units(read_word, written)' = Units(read_word, written)
    BY <1>2, FileKept DEF Units
  <2> HIDE DEF written
  <2> QED BY <1>0, <1>2, <2>1 DEF PaceInv
<1>3. CASE Restart
  <2>1. /\ UNCHANGED <<load, file, read_word>> /\ mmap_buf_offset' = 0 /\ cacher' = "poll"
        /\ restarts' = restarts + 1
    BY <1>3 DEF Restart
  <2>2. read_word \in Nat /\ restarts \in Nat
    <3>1. written \in Nat /\ load.restarts \in Nat
      BY <1>0, EndType, LoadType DEF FileType
    <3> HIDE DEF written
    <3> QED BY <1>0, <3>1 DEF TypeOK
  <2>3. written' = written /\ Units(read_word, written)' = Units(read_word, written)
    BY <2>1, FileKept DEF Units
  <2> HIDE DEF written
  <2> QED BY <1>0, <2>1, <2>2, <2>3 DEF PaceInv
<1>4. CASE CacheThread
  <2>1. CASE CacheOnward \/ CacheAround \/ CacheChoose \/ CacheFill \/ CacheMeasure
    BY <1>2, <2>1 DEF CacheOnward, CacheAround, CacheChoose, CacheFill, CacheMeasure, writer, batch
  <2>2. CASE CacheQueue /\ ~Advance
    BY <1>2, <2>2 DEF CacheQueue, writer, batch
  <2>3. CASE CachePublish \/ (CacheQueue /\ Advance)
    BY <1>0, <2>3, PaceAdvance DEF CachePublish, CacheQueue
  <2> QED BY <1>0, <1>4, <2>1, <2>2, <2>3, PacePoll DEF CacheThread, CachePublish
<1>5. CASE ExecThread
  BY <1>2, <1>5 DEF ExecThread, ExecLock, ExecWake, ExecExchange, ExecRewind, ExecRelength,
                    ExecEmptyCache, ExecClear, ExecRelock, ExecExecute, writer, cache, batch
<1>6. CASE SpuriousWakeup
  BY <1>2, <1>6 DEF SpuriousWakeup, writer, batch
<1>7. CASE UNCHANGED vars
  BY <1>2, <1>7 DEF vars, writer, cache, batch
<1> QED BY <1>1, <1>3, <1>4, <1>5, <1>6, <1>7 DEF Next

LEMMA OffsetNext == OffsetInv /\ [Next]_vars => OffsetInv'
<1> SUFFICES ASSUME OffsetInv, [Next]_vars PROVE OffsetInv'
  OBVIOUS
<1>1. CASE Write
  BY <1>1, RunsWrite, TypeFile, TypesNext, PaceNext DEF OffsetInv
<1>2. CASE UNCHANGED <<load, file>>
  BY <1>2, RunsKept, TypesNext, PaceNext DEF OffsetInv
<1>3. Write \/ UNCHANGED <<load, file>>
  <2>1. CASE CacheThread
    BY <2>1 DEF CacheThread, CachePoll, CacheOnward, CacheAround, CacheChoose, CacheFill,
                CacheMeasure, CachePublish, CacheQueue, Advance, writer
  <2>2. CASE ExecThread
    BY <2>2 DEF ExecThread, ExecLock, ExecWake, ExecExchange, ExecRewind, ExecRelength,
                ExecEmptyCache, ExecClear, ExecRelock, ExecExecute, writer
  <2>3. CASE UNCHANGED vars \/ Restart \/ SpuriousWakeup
    BY <2>3 DEF vars, Restart, SpuriousWakeup, writer
  <2> QED BY <2>1, <2>2, <2>3 DEF Next
<1> QED BY <1>1, <1>2, <1>3

\* Where the reader was restarted the writer never started again.
LEMMA NoTurn ==
  ASSUME OffsetInv, Behind, restarts # 0, NEW w \in 2..written
  PROVE  file[w] # 0
<1> SUFFICES ASSUME file[w] = 0 PROVE FALSE
  OBVIOUS
<1>0. FileType /\ FileInv /\ TypeOK
  BY TypeFile DEF OffsetInv
<1>1. /\ written \in Nat /\ load.last \in Nat /\ written <= load.last
      /\ w \in 1..written /\ w - 1 \in 1..written
  <2>1. written \in Nat /\ load.last \in Nat /\ written <= load.last
    BY <1>0, EndType, LoadType DEF FileType
  <2> HIDE DEF written
  <2> QED BY <2>1
<1>2. End(w - 1) + Size(w) >= load.cap /\ load.cap \in Nat
  BY <1>0, LoadType DEF FileInv, FileType
<1>3. load.upto[load.last] < load.cap
  <2>1. load.restarts \in Nat /\ restarts \in 0..load.restarts
    BY <1>0, LoadType DEF TypeOK
  <2> QED BY <2>1 DEF Behind
<1>4. PICK u \in 1..w-1 : Run(u, w - 1)
  BY <1>0, <1>1 DEF FileInv
<1>5. End(w - 1) = load.upto[w-1] - load.upto[u-1]
  BY <1>0, <1>1, <1>4, RunEnd
<1>6. Size(w) = load.upto[w] - load.upto[w-1]
  BY <1>0, <1>1, UnitsAre
<1>7. /\ w \in 0..load.last /\ load.last \in 0..load.last /\ w <= load.last
      /\ w - 1 \in 0..load.last /\ u - 1 \in 0..load.last
  BY <1>1
<1>8. /\ load.upto[w] <= load.upto[load.last] /\ load.upto[w] \in Nat /\ load.upto[w-1] \in Nat
      /\ load.upto[u-1] \in Nat /\ load.upto[load.last] \in Nat
  BY <1>0, <1>7, LoadType DEF FileType
<1> QED BY <1>2, <1>3, <1>5, <1>6, <1>8

LEMMA RoomNow ==
  ASSUME OffsetInv, Behind
  PROVE  Room(mmap_buf_offset)
<1> SUFFICES ASSUME NEW w \in 2..written, w > mmap_buf_offset, file[w] = 0
             PROVE  Units(mmap_buf_offset, written) < End(w - 1)
  BY DEF Room
<1>0. FileType /\ FileInv /\ PaceInv /\ TypeOK
  BY TypeFile DEF OffsetInv
<1>1. /\ written \in Nat /\ load.last \in Nat /\ written <= load.last
      /\ w \in 1..written /\ w - 1 \in 1..written /\ w \in 2..load.last
  <2>1. written \in Nat /\ load.last \in Nat /\ written <= load.last
    BY <1>0, EndType, LoadType DEF FileType
  <2> HIDE DEF written
  <2> QED BY <2>1
<1>2. End(w - 1) + Size(w) >= load.cap /\ load.cap \in Nat
  BY <1>0, LoadType DEF FileInv, FileType
<1>3. End(w - 1) \in Nat /\ Size(w) \in Nat /\ load.ahead \in Nat
  BY <1>0, <1>1, EndType, SizeType, LoadType DEF FileType
<1>4. Units(mmap_buf_offset, written) <= load.ahead /\ load.ahead + Size(w) < load.cap
  BY <1>0, <1>1, NoTurn DEF PaceInv, Behind
<1>5. Units(mmap_buf_offset, written) \in Int
  <2>1. mmap_buf_offset \in 0..written /\ written \in 0..written
    BY <1>0, <1>1 DEF TypeOK
  <2> QED BY <1>0, <2>1, UnitsAre DEF Units
<1> QED BY <1>2, <1>3, <1>4, <1>5

LEMMA OffsetAlways == Spec => []OffsetInv
<1>1. Init => OffsetInv
  BY TypesInit, PaceInit DEF OffsetInv
<1> QED BY <1>1, OffsetNext, PTL DEF Spec
-----------------------------------------------------------------------------
(* The batches *)

\* The length of a batch while the writer is ahead of the reader in the file: the statements up to
\* one, and at the end of get_read_buf_len no more fit.
LengthAhead ==
  /\ cacher \notin {"around", "undefined"}
  /\ cacher = "onward" => Units(mmap_buf_offset, mmap_buf_len) > MaxPush
  /\ \E n \in mmap_buf_offset..mmap_buf_len :
       /\ read_buf_len = Units(mmap_buf_offset, n) /\ read_buf_len <= MaxPush
       /\ cacher # "onward" /\ n < mmap_buf_len => Units(mmap_buf_offset, n + 1) > MaxPush

\* Its length when statement w made a new start.
LengthAround(w) ==
  /\ cacher # "onward"
  /\ cacher = "around" =>
       /\ zero_sql_len = Size(w)
       /\ \E n \in mmap_buf_offset..w-1 :
            read_buf_len = Units(mmap_buf_offset, n) /\ read_buf_len <= MaxPush
  /\ cacher \notin {"around", "undefined"} =>
       read_buf_len - End(mmap_buf_len) \in 0..Units(mmap_buf_offset, w - 1)
  /\ Uniform /\ load.ahead <= MaxPush /\ cacher # "around" =>
       cacher # "undefined" /\ read_buf_len = Units(mmap_buf_offset, mmap_buf_len)

LengthInv ==
  Behind /\ cacher # "poll" =>
    /\ ~Around => LengthAhead
    /\ Around => \A w \in mmap_buf_offset+1..mmap_buf_len :
                  Turn(mmap_buf_offset, mmap_buf_len, w) => LengthAround(w)

\* The cells of a batch: statements beyond the reader's offset, in order, and when the batch is
\* whole, each where it starts.
Ordered(c, S) == \A i, j \in S : i < j /\ c[i] # Inside /\ c[j] # Inside => c[i] < c[j]

Whole(c) ==
  \A i \in DOMAIN c :
    \/ /\ c[i] \in mmap_buf_offset+1..mmap_buf_len /\ Units(mmap_buf_offset, c[i] - 1) = i
    \/ /\ c[i] = Inside
       /\ \A m \in mmap_buf_offset+1..mmap_buf_len : Units(mmap_buf_offset, m - 1) # i

BatchInv ==
  Behind /\ HasBatch =>
    /\ \A i \in DOMAIN sql_list_buf :
         sql_list_buf[i] \in mmap_buf_offset+1..mmap_buf_len \cup {Inside}
    /\ Ordered(sql_list_buf, DOMAIN sql_list_buf)
    /\ (Around => Uniform /\ load.ahead <= MaxPush) => Whole(sql_list_buf)

CacheInv ==
  Behind =>
    /\ \A i \in 0..CacheTo-1 : mem[cache_mem][i] \in 1..mmap_buf_offset \cup {Inside}
    /\ Ordered(mem[cache_mem], 0..CacheTo-1)

LEMMA UnitsRise ==
  ASSUME FileType, NEW a \in 0..written
  PROVE  /\ Units(a, a) = 0
         /\ \A n \in 0..written : Units(a, n) \in Int
         /\ \A n \in 0..written : a <= n => Units(a, n) \in Nat
         /\ \A m, n \in 0..written : m <= n <=> Units(a, m) <= Units(a, n)
         /\ \A m, n \in 0..written : m < n <=> Units(a, m) < Units(a, n)
         /\ \A n \in 1..written : Units(a, n - 1) + Size(n) = Units(a, n)
         /\ \A b, n \in 0..written : Units(a, b) + Units(b, n) = Units(a, n)
<1>0. written \in Nat
  BY EndType
<1> HIDE DEF written
<1>1. /\ \A n \in 0..written : load.upto[n] \in Nat /\ n \in Int
      /\ \A m, n \in 0..written : m <= n => load.upto[m] <= load.upto[n]
      /\ \A m, n \in 0..written : m < n => load.upto[m] < load.upto[n]
      /\ \A n \in 1..written : Size(n) = load.upto[n] - load.upto[n-1]
  BY <1>0, UnitsAre
<1>2. ASSUME NEW m \in 0..written, NEW n \in 0..written
      PROVE  (m <= n <=> Units(a, m) <= Units(a, n)) /\ (m < n <=> Units(a, m) < Units(a, n))
  <2>1. m < n \/ m = n \/ n < m
    BY <1>1
  <2>2. load.upto[m] \in Nat /\ load.upto[n] \in Nat /\ load.upto[a] \in Nat
    BY <1>1
  <2>3. (m < n => load.upto[m] < load.upto[n]) /\ (n < m => load.upto[n] < load.upto[m])
    BY <1>1
  <2> QED BY <1>1, <2>1, <2>2, <2>3 DEF Units
<1>3. ASSUME NEW n \in 1..written PROVE Units(a, n - 1) + Size(n) = Units(a, n)
  <2>1. n \in 0..written /\ n - 1 \in 0..written
    BY <1>0
  <2> QED BY <1>1, <2>1 DEF Units
<1>4. ASSUME NEW n \in 0..written PROVE Units(a, n) \in Int /\ (a <= n => Units(a, n) \in Nat)
  BY <1>1 DEF Units
<1>5. ASSUME NEW b \in 0..written, NEW n \in 0..written PROVE Units(a, b) + Units(b, n) = Units(a, n)
  BY <1>1 DEF Units
<1>6. Units(a, a) = 0
  BY <1>1 DEF Units
<1> QED BY <1>2, <1>3, <1>4, <1>5, <1>6

\* Where a statement ends in a stretch, the next is found.
LEMMA NextCell ==
  ASSUME FileType, FileInv, NEW k \in 0..written, Room(k),
         NEW a \in k..written, NEW n \in a..written, NEW o \in Int, Stretch(a, n, o),
         NEW m \in a..n-1
  PROVE  FileCell(o + Units(a, m)) = m + 1
<1>0. /\ written \in Nat /\ a \in 0..written /\ m \in 0..written /\ n \in 0..written /\ m + 1 \in a+1..n
      /\ m \in Int /\ a <= m /\ m < n
  BY EndType
<1>8. /\ \A x \in 0..written : Units(a, x) \in Int
      /\ \A x \in 0..written : a <= x => Units(a, x) \in Nat
      /\ \A x, y \in 0..written : x <= y <=> Units(a, x) <= Units(a, y)
      /\ \A x, y \in 0..written : x < y <=> Units(a, x) < Units(a, y)
  BY <1>0, UnitsRise
<1>1. Units(a, m) \in Nat /\ Units(a, m) < Units(a, n)
  BY <1>0, <1>8
<1> DEFINE p == o + Units(a, m)
<1> DEFINE c == FileCell(p)
<1>9. p \in Int
  BY <1>1
<1>2. \/ c \in a+1..n /\ Units(a, c - 1) = Units(a, m)
      \/ c = Inside /\ \A x \in a+1..n : Units(a, x - 1) # Units(a, m)
  <2> HIDE DEF c
  <2>1. p = o + Units(a, m)
    OBVIOUS
  <2> HIDE DEF p
  <2> QED BY <1>1, <1>9, <2>1, StretchCell DEF c
<1>3. (m + 1) - 1 = m
  BY <1>0
<1>4. c \in a+1..n /\ Units(a, c - 1) = Units(a, m)
  BY <1>0, <1>2, <1>3
<1>5. c - 1 \in 0..written /\ c \in Int
  BY <1>0, <1>4
<1>6. c - 1 = m
  <2> HIDE DEF c
  <2>1. c - 1 <= m /\ m <= c - 1
    BY <1>0, <1>1, <1>4, <1>5, <1>8
  <2> QED BY <1>0, <1>5, <2>1
<1> HIDE DEF c
<1>7. c = m + 1
  BY <1>0, <1>5, <1>6
<1> QED BY <1>7 DEF c

LEMMA Window ==
  ASSUME OffsetInv, Behind, cacher # "poll"
  PROVE  /\ FileType /\ FileInv /\ Room(mmap_buf_offset)
         /\ mmap_buf_offset \in 0..written /\ mmap_buf_len \in mmap_buf_offset+1..written
<1>1. FileType /\ written \in Nat
  BY TypeFile, EndType DEF OffsetInv
<1>2. mmap_buf_offset \in 0..written /\ mmap_buf_len \in 0..written /\ mmap_buf_offset < mmap_buf_len
  BY DEF OffsetInv, TypeOK, PaceInv
<1> HIDE DEF written
<1> QED BY <1>1, <1>2, RoomNow DEF OffsetInv

LEMMA LoadKept ==
  ASSUME UNCHANGED load
  PROVE  /\ Behind' <=> Behind
         /\ Uniform' <=> Uniform
         /\ \A m, n : Units(m, n)' = Units(m, n)
         /\ \A n : Size(n)' = Size(n)
<1>1. \A n : Size(n)' = Size(n)
  BY DEF Size
<1> QED BY <1>1 DEF Behind, Uniform, Units

\* What was written up to mmap_buf_len stays while cache_thread works on it.
LEMMA WindowKept ==
  ASSUME OffsetInv, Write \/ UNCHANGED <<load, file>>, UNCHANGED <<mmap_buf_offset, mmap_buf_len>>
  PROVE  /\ load' = load /\ (Around' <=> Around) /\ End(mmap_buf_len)' = End(mmap_buf_len)
         /\ \A w \in mmap_buf_offset+1..mmap_buf_len :
              Turn(mmap_buf_offset, mmap_buf_len, w)' <=> Turn(mmap_buf_offset, mmap_buf_len, w)
<1>1. /\ FileType /\ written \in Nat /\ mmap_buf_offset \in 0..written /\ mmap_buf_len \in 0..written
  BY TypeFile, EndType DEF OffsetInv, TypeOK
<1>2. /\ load' = load
      /\ \A n \in 1..written : file'[n] = file[n]
      /\ \A n \in 0..written : End(n)' = End(n)
  <2>1. CASE Write
    BY <1>1, <2>1, WriteIs
  <2>2. CASE UNCHANGED <<load, file>>
    BY <2>2, FileKept
  <2> QED BY <2>1, <2>2
<1> HIDE DEF written
<1>3. \A w \in mmap_buf_offset+1..mmap_buf_len : w \in 1..written
  BY <1>1
<1>4. End(mmap_buf_len)' = End(mmap_buf_len) /\ End(mmap_buf_offset)' = End(mmap_buf_offset)
  <2>1. ASSUME NEW n \in 0..written, NEW m, m = n, m' = m PROVE End(m)' = End(n)
    BY <1>2, <2>1
  <2> QED BY <1>1, <1>2
<1>5. \A w \in mmap_buf_offset+1..mmap_buf_len :
        Turn(mmap_buf_offset, mmap_buf_len, w)' <=> Turn(mmap_buf_offset, mmap_buf_len, w)
  BY <1>2, <1>3 DEF Turn
<1> QED BY <1>2, <1>4, <1>5 DEF Around

\* Steps that leave the batch alone.
LEMMA LengthKept ==
  ASSUME OffsetInv, LengthInv, Write \/ UNCHANGED <<load, file>>,
         UNCHANGED <<mmap_buf_offset, mmap_buf_len, read_buf_len, zero_sql_len>>,
         \/ cacher' = cacher \/ cacher' = "poll"
         \/ /\ cacher \notin {"poll", "onward", "around", "undefined"}
            /\ cacher' \notin {"poll", "onward", "around", "undefined"}
  PROVE  LengthInv'
<1>1. SUFFICES ASSUME Behind', cacher' # "poll"
               PROVE  /\ ~Around' => LengthAhead'
                      /\ Around' => \A w \in mmap_buf_offset+1..mmap_buf_len :
                                    Turn(mmap_buf_offset, mmap_buf_len, w)' => LengthAround(w)'
  BY DEF LengthInv
<1>2. /\ load' = load /\ (Around' <=> Around) /\ End(mmap_buf_len)' = End(mmap_buf_len)
      /\ \A w \in mmap_buf_offset+1..mmap_buf_len :
           Turn(mmap_buf_offset, mmap_buf_len, w)' <=> Turn(mmap_buf_offset, mmap_buf_len, w)
  BY WindowKept
<1>3. Behind /\ cacher # "poll" /\ (Uniform' <=> Uniform)
      /\ (\A m, n : Units(m, n)' = Units(m, n)) /\ \A n : Size(n)' = Size(n)
  BY <1>1, <1>2, LoadKept
<1>4. ASSUME LengthAhead PROVE LengthAhead'
  <2>1. /\ mmap_buf_offset' = mmap_buf_offset /\ mmap_buf_len' = mmap_buf_len /\ read_buf_len' = read_buf_len
        /\ \A n : Units(mmap_buf_offset, n)' = Units(mmap_buf_offset, n)
        /\ Units(mmap_buf_offset, mmap_buf_len)' = Units(mmap_buf_offset, mmap_buf_len)
    BY <1>2 DEF Units
  <2>2. /\ cacher' \notin {"around", "undefined"}
        /\ cacher' = "onward" <=> cacher = "onward"
    BY <1>1, <1>3, <1>4 DEF LengthAhead
  <2>3. PICK n \in mmap_buf_offset..mmap_buf_len :
          /\ read_buf_len = Units(mmap_buf_offset, n) /\ read_buf_len <= MaxPush
          /\ cacher # "onward" /\ n < mmap_buf_len => Units(mmap_buf_offset, n + 1) > MaxPush
    BY <1>4 DEF LengthAhead
  <2>4. cacher = "onward" => Units(mmap_buf_offset, mmap_buf_len) > MaxPush
    BY <1>4 DEF LengthAhead
  <2>5. /\ read_buf_len' = Units(mmap_buf_offset, n)' /\ read_buf_len' <= MaxPush
        /\ cacher' # "onward" /\ n < mmap_buf_len' => Units(mmap_buf_offset, n + 1)' > MaxPush
    BY <2>1, <2>2, <2>3
  <2>6. n \in mmap_buf_offset'..mmap_buf_len' /\ (cacher' = "onward" => Units(mmap_buf_offset, mmap_buf_len)' > MaxPush)
    BY <2>1, <2>2, <2>4
  <2> QED BY <2>2, <2>5, <2>6 DEF LengthAhead
<1>5. ASSUME NEW w, LengthAround(w) PROVE LengthAround(w)'
  BY <1>1, <1>2, <1>3, <1>5 DEF LengthAround, Units
<1> QED BY <1>2, <1>3, <1>4, <1>5 DEF LengthInv

LEMMA LengthPoll == ASSUME OffsetInv, CachePoll PROVE LengthInv'
<1>1. SUFFICES ASSUME Behind'
               PROVE  /\ ~Around' => LengthAhead'
                      /\ Around' => \A w \in mmap_buf_offset'+1..mmap_buf_len' :
                                    Turn(mmap_buf_offset, mmap_buf_len, w)' => LengthAround(w)'
  BY DEF LengthInv
<1>2. /\ UNCHANGED <<load, file, mmap_buf_offset>> /\ mmap_buf_len' = written /\ cacher = "poll"
      /\ End(written) # End(mmap_buf_offset)
  BY DEF CachePoll, writer
<1>3. Behind /\ FileType /\ FileInv /\ Room(mmap_buf_offset) /\ written \in Nat /\ MaxPush \in Nat
  BY <1>1, <1>2, LoadKept, RoomNow, TypeFile, EndType, SqlAssumption DEF OffsetInv
<1> DEFINE k == mmap_buf_offset
<1> DEFINE e == written
<1>4. k \in 0..e /\ e \in k+1..e /\ e \in 0..e /\ k \in Int
  <2>1. mmap_buf_offset \in 0..written /\ mmap_buf_offset # written
    BY <1>2 DEF OffsetInv, TypeOK
  <2> HIDE DEF written
  <2> QED BY <1>3, <2>1
<1>5. /\ End(e) < End(k) \/ End(e) = End(k) + Units(k, e)
      /\ End(e) >= End(k) => End(e) = End(k) + Units(k, e)
  BY <1>3, <1>4, Shape
<1>6. /\ Units(k, e) \in Nat /\ Units(k, k) = 0 /\ End(e) \in Nat /\ End(k) \in Nat
  <2>1. k <= e /\ k \in 0..written /\ e \in 0..written
    BY <1>4
  <2>2. \A n \in 0..written : k <= n => Units(k, n) \in Nat
    BY <1>3, <2>1, UnitsRise
  <2>3. Units(k, k) = 0
    BY <1>3, <2>1, UnitsRise
  <2> QED BY <1>3, <2>1, <2>2, <2>3, EndType
<1>7. /\ \A m, n : Units(m, n)' = Units(m, n)
      /\ \A n : Size(n)' = Size(n) /\ End(n)' = End(n)
  BY <1>2, FileKept
<1>8. /\ mmap_buf_offset' = k /\ mmap_buf_len' = e /\ (Around' <=> End(e) < End(k))
      /\ load' = load /\ Units(mmap_buf_offset, mmap_buf_len)' = Units(k, e)
      /\ \A n : Units(mmap_buf_offset, n)' = Units(k, n)
  <2>1. mmap_buf_offset' = k /\ mmap_buf_len' = e /\ load' = load
    BY <1>2
  <2>2. /\ End(mmap_buf_len)' = End(e) /\ End(mmap_buf_offset)' = End(k)
        /\ Units(mmap_buf_offset, mmap_buf_len)' = Units(k, e)
        /\ \A n : Units(mmap_buf_offset, n)' = Units(k, n)
    BY <1>2, <2>1, FileKept DEF End, Size, Units
  <2> QED BY <2>1, <2>2 DEF Around
<1>9. ASSUME ~Around' PROVE LengthAhead'
  <2>1. End(e) - End(k) = Units(k, e)
    BY <1>5, <1>6, <1>8, <1>9
  <2>2. \/ Units(k, e) > MaxPush /\ cacher' = "onward" /\ read_buf_len' = 0
        \/ Units(k, e) <= MaxPush /\ cacher' = "choose" /\ read_buf_len' = Units(k, e)
    <3> HIDE DEF written
    <3> QED BY <1>3, <1>6, <2>1 DEF CachePoll
  <2>3. CASE Units(k, e) > MaxPush /\ cacher' = "onward" /\ read_buf_len' = 0
    <3>1. k \in k..e /\ read_buf_len' = Units(k, k) /\ 0 <= MaxPush
      BY <1>3, <1>4, <1>6, <2>3
    <3> HIDE DEF k, e, written
    <3> QED BY <1>8, <2>3, <3>1 DEF LengthAhead
  <2>4. CASE Units(k, e) <= MaxPush /\ cacher' = "choose" /\ read_buf_len' = Units(k, e)
    <3>1. e \in k..e /\ ~(e < e)
      BY <1>4
    <3> HIDE DEF k, e, written
    <3> QED BY <1>8, <2>4, <3>1 DEF LengthAhead
  <2> QED BY <2>2, <2>3, <2>4
<1>10. ASSUME Around', NEW w \in k+1..e, Turn(mmap_buf_offset, mmap_buf_len, w)'
       PROVE  LengthAround(w)'
  <2>1. End(e) - End(k) < 0
    BY <1>6, <1>8, <1>10
  <2>2. cacher' = "around" /\ read_buf_len' = 0 /\ zero_sql_len' = Size(FileCell(0))
    <3> HIDE DEF written
    <3> QED BY <1>3, <1>6, <2>1 DEF CachePoll
  <2>3. file[w] = 0 /\ w \in 1..written /\ w \in Int
    BY <1>2, <1>4, <1>10 DEF Turn
  <2>4. 0 \in file[w]..End(w)-1
    <3>1. End(w) > file[w] /\ End(w) \in Nat
      <4>1. w \in 0..written
        BY <1>3, <2>3
      <4> QED BY <1>3, <2>3, <4>1, EndType
    <3> QED BY <2>3, <3>1
  <2>5. FileCell(0) = w
    BY <1>3, <1>4, <2>3, <2>4, WindowCell
  <2>6. zero_sql_len' = Size(w)'
    BY <1>7, <2>2, <2>5
  <2>7. k \in k..w-1 /\ 0 = Units(k, k) /\ 0 <= MaxPush
    BY <1>3, <1>4, <1>6, <2>3
  <2> HIDE DEF k, e, written
  <2> QED BY <1>8, <2>2, <2>6, <2>7 DEF LengthAround
<1> QED BY <1>8, <1>9, <1>10

LEMMA LengthOnward == ASSUME OffsetInv, LengthInv, CacheOnward PROVE LengthInv'
<1>1. SUFFICES ASSUME Behind' PROVE ~Around' /\ LengthAhead'
  BY DEF LengthInv
<1>2. /\ cacher = "onward" /\ NextLength("choose")
      /\ UNCHANGED <<load, file, mmap_buf_offset, mmap_buf_len>>
  BY DEF CacheOnward, writer
<1>3. /\ Behind /\ FileType /\ FileInv /\ Room(mmap_buf_offset) /\ written \in Nat /\ MaxPush \in Nat
      /\ mmap_buf_offset \in 0..written /\ mmap_buf_len \in mmap_buf_offset+1..written
  BY <1>1, <1>2, LoadKept, Window, EndType, SqlAssumption
<1> DEFINE k == mmap_buf_offset
<1> DEFINE e == mmap_buf_len
<1>4. ~Around /\ LengthAhead
  <2>1. Around => \E w : Turn(k, e, w)
    BY <1>3, Shape DEF Around
  <2>2. \A w : Turn(k, e, w) => w \in k+1..e
    BY DEF Turn
  <2>3. \A w : ~LengthAround(w)
    BY <1>2 DEF LengthAround
  <2> QED BY <1>2, <1>3, <2>1, <2>2, <2>3 DEF LengthInv
<1>5. Stretch(k, e, End(k))
  <2>1. End(e) \in Nat /\ End(k) \in Nat
    <3>1. e \in 0..written
      BY <1>3
    <3> QED BY <1>3, <3>1, EndType
  <2>2. End(e) >= End(k)
    BY <1>4, <2>1 DEF Around
  <2> QED BY <1>3, <2>2, Shape
<1>6. /\ \A x \in 0..written : Units(k, x) \in Int
      /\ \A x \in 1..written : Units(k, x - 1) + Size(x) = Units(k, x)
  <2>1. k \in 0..written
    BY <1>3
  <2> HIDE DEF k
  <2> QED BY <1>3, <2>1, UnitsRise
<1> HIDE DEF written
<1>7. PICK n \in k..e : read_buf_len = Units(k, n) /\ read_buf_len <= MaxPush
  BY <1>4 DEF LengthAhead
<1>8. Units(k, e) > MaxPush
  BY <1>2, <1>4 DEF LengthAhead
<1>9. n \in k..e-1 /\ n + 1 \in k..e /\ n + 1 \in 1..written /\ (n + 1) - 1 = n
  <2>1. n # e
    <3>1. e \in 0..written
      BY <1>3
    <3>2. Units(k, e) \in Int
      BY <1>6, <3>1
    <3> QED BY <1>3, <1>7, <1>8, <3>2
  <2> QED BY <1>3, <2>1
<1>10. FileCell(End(k) + Units(k, n)) = n + 1
  <2>1. k \in k..written /\ e \in k..written /\ End(k) \in Int
    BY <1>3, EndType
  <2> QED BY <1>3, <1>5, <1>9, <2>1, NextCell
<1>11. read_buf_len + Size(n + 1) = Units(k, n + 1) /\ n + 1 # Inside
  BY <1>3, <1>6, <1>7, <1>9 DEF Inside
<1>12. \/ Units(k, n + 1) > MaxPush /\ cacher' = "choose" /\ read_buf_len' = Units(k, n)
       \/ Units(k, n + 1) <= MaxPush /\ cacher' = "onward" /\ read_buf_len' = Units(k, n + 1)
  BY <1>2, <1>7, <1>10, <1>11 DEF NextLength
<1>13. /\ ~Around' /\ mmap_buf_offset' = k /\ mmap_buf_len' = e
       /\ Units(mmap_buf_offset, mmap_buf_len)' = Units(k, e)
       /\ \A x : Units(mmap_buf_offset, x)' = Units(k, x)
  BY <1>2, <1>4, WindowKept DEF Units
<1> HIDE DEF k, e
<1>14. CASE Units(k, n + 1) > MaxPush /\ cacher' = "choose" /\ read_buf_len' = Units(k, n)
  BY <1>7, <1>13, <1>14 DEF LengthAhead
<1>15. CASE Units(k, n + 1) <= MaxPush /\ cacher' = "onward" /\ read_buf_len' = Units(k, n + 1)
  BY <1>8, <1>9, <1>13, <1>15 DEF LengthAhead
<1> QED BY <1>12, <1>13, <1>14, <1>15

\* About a new start, what is unread is no more than the writer may be ahead.
LEMMA PaceAround ==
  ASSUME OffsetInv, Behind, cacher # "poll", Around
  PROVE  Units(mmap_buf_offset, mmap_buf_len) <= load.ahead
<1>1. /\ FileType /\ FileInv /\ Room(mmap_buf_offset) /\ written \in Nat
      /\ mmap_buf_offset \in 0..written /\ mmap_buf_len \in mmap_buf_offset+1..written
  BY Window, EndType
<1>2. PICK w : Turn(mmap_buf_offset, mmap_buf_len, w)
  BY <1>1, Shape DEF Around
<1>3. w \in 2..written /\ file[w] = 0
  <2>1. w \in mmap_buf_offset+1..mmap_buf_len /\ w > 1 /\ file[w] = 0
    BY <1>2 DEF Turn
  <2> HIDE DEF written
  <2> QED BY <1>1, <2>1
<1>4. Units(mmap_buf_offset, written) <= load.ahead
  BY <1>3, NoTurn DEF OffsetInv, PaceInv
<1>5. Units(mmap_buf_offset, mmap_buf_len) <= Units(mmap_buf_offset, written)
  <2>1. mmap_buf_len \in 0..written /\ written \in 0..written /\ mmap_buf_len <= written
    BY <1>1
  <2> QED BY <1>1, <2>1, UnitsRise
<1>6. Units(mmap_buf_offset, mmap_buf_len) \in Int /\ Units(mmap_buf_offset, written) \in Int /\ load.ahead \in Nat
  <2>1. mmap_buf_len \in 0..written /\ written \in 0..written
    BY <1>1
  <2> QED BY <1>1, <2>1, UnitsRise, LoadType DEF FileType
<1> QED BY <1>4, <1>5, <1>6

LEMMA LengthTurned == ASSUME OffsetInv, LengthInv, CacheAround PROVE LengthInv'
<1>1. SUFFICES ASSUME Behind'
               PROVE  Around' /\ \A w \in mmap_buf_offset+1..mmap_buf_len :
                                   Turn(mmap_buf_offset, mmap_buf_len, w)' => LengthAround(w)'
  BY DEF LengthInv, CacheAround
<1>2. /\ cacher = "around"
      /\ UNCHANGED <<load, file, mmap_buf_offset, mmap_buf_len, zero_sql_len>>
  BY DEF CacheAround, writer
<1>3. /\ Behind /\ FileType /\ FileInv /\ Room(mmap_buf_offset) /\ written \in Nat /\ MaxPush \in Nat
      /\ mmap_buf_offset \in 0..written /\ mmap_buf_len \in mmap_buf_offset+1..written
  BY <1>1, <1>2, LoadKept, Window, EndType, SqlAssumption
<1> DEFINE k == mmap_buf_offset
<1> DEFINE e == mmap_buf_len
<1>4. Around
  BY <1>2, <1>3 DEF LengthInv, LengthAhead
<1>5. /\ load' = load /\ Around' /\ End(mmap_buf_len)' = End(e)
      /\ \A w \in k+1..e : Turn(mmap_buf_offset, mmap_buf_len, w)' <=> Turn(k, e, w)
      /\ Units(mmap_buf_offset, mmap_buf_len)' = Units(k, e)
      /\ \A n : Units(mmap_buf_offset, n)' = Units(k, n)
      /\ (Uniform' <=> Uniform)
  BY <1>2, <1>4, WindowKept, LoadKept DEF Units
<1> SUFFICES ASSUME NEW w \in k+1..e, Turn(k, e, w) PROVE LengthAround(w)'
  BY <1>5
<1>6. /\ Stretch(k, w - 1, End(k)) /\ End(w - 1) = End(k) + Units(k, w - 1)
      /\ End(e) = Units(w - 1, e) /\ End(w - 1) + Size(w) >= load.cap
  BY <1>3, Shape
<1> HIDE DEF written
<1>7. /\ w \in 1..written /\ w - 1 \in 0..written /\ w - 1 \in k..written /\ e \in 0..written /\ w \in Int
      /\ k \in 0..written /\ w - 1 < e
  BY <1>3
<1>8. /\ \A x \in 0..written : Units(k, x) \in Int
      /\ \A x \in 0..written : k <= x => Units(k, x) \in Nat
      /\ \A x, y \in 0..written : x <= y <=> Units(k, x) <= Units(k, y)
      /\ \A x, y \in 0..written : x < y <=> Units(k, x) < Units(k, y)
      /\ \A x \in 1..written : Units(k, x - 1) + Size(x) = Units(k, x)
      /\ \A b, n \in 0..written : Units(k, b) + Units(b, n) = Units(k, n)
  <2> HIDE DEF k
  <2> QED BY <1>3, <1>7, UnitsRise
<1>9. /\ Size(w) \in Nat /\ End(k) \in Nat /\ End(e) \in Nat /\ load.cap \in Nat
  <2>1. w \in 0..written
    BY <1>7
  <2> QED BY <1>3, <1>7, <2>1, SizeType, EndType, LoadType DEF FileType
<1>10. /\ zero_sql_len = Size(w)
       /\ \E n \in k..w-1 : read_buf_len = Units(k, n) /\ read_buf_len <= MaxPush
  BY <1>2, <1>3, <1>4 DEF LengthInv, LengthAround
<1>11. PICK n \in k..w-1 : read_buf_len = Units(k, n) /\ read_buf_len <= MaxPush
  BY <1>10
<1>12. /\ n \in 0..written /\ n <= w - 1 /\ Units(k, n) \in Nat /\ Units(k, n) <= Units(k, w - 1)
       /\ Units(k, w - 1) \in Nat
  <2>1. n \in 0..written /\ n <= w - 1 /\ k <= n /\ k <= w - 1
    BY <1>3, <1>7
  <2> QED BY <1>7, <1>8, <2>1
<1>13. ASSUME n < w - 1
       PROVE  /\ FileCell(End(k) + Units(k, n)) = n + 1
              /\ Units(k, n) + Size(n + 1) = Units(k, n + 1)
              /\ n + 1 \in k+1..w-1 /\ n + 1 \in 1..written /\ n + 1 # Inside
  <2>1. /\ n + 1 \in k+1..w-1 /\ n + 1 \in 1..written /\ n + 1 # Inside /\ (n + 1) - 1 = n
        /\ n \in k..(w-1)-1
    BY <1>3, <1>7, <1>12, <1>13 DEF Inside
  <2>2. k \in k..written /\ w - 1 \in k..written /\ End(k) \in Int
    BY <1>7, <1>9
  <2>3. FileCell(End(k) + Units(k, n)) = n + 1
    BY <1>3, <1>6, <1>7, <2>1, <2>2, NextCell
  <2>4. Units(k, (n + 1) - 1) + Size(n + 1) = Units(k, n + 1)
    BY <1>8, <2>1
  <2> QED BY <2>1, <2>3, <2>4
<1>14. CASE End(k) + read_buf_len >= load.cap - zero_sql_len
  <2>1. read_buf_len' = End(e) + Units(k, n) /\ cacher' = "choose"
    <3>1. ~(End(k) + read_buf_len < load.cap - zero_sql_len)
      BY <1>9, <1>10, <1>11, <1>12, <1>14
    <3> QED BY <1>11, <3>1 DEF CacheAround, AroundLength
  <2>2. read_buf_len' - End(e) \in 0..Units(k, w - 1)
    BY <1>9, <1>12, <2>1
  <2>3. ASSUME Uniform PROVE read_buf_len' = Units(k, e)
    <3>1. ~(n < w - 1)
      <4> SUFFICES ASSUME n < w - 1 PROVE FALSE
        OBVIOUS
      <4>1. Size(n + 1) = Size(w)
        <5>1. n + 1 \in 1..load.last /\ w \in 1..load.last
          <6>1. load.last \in Nat /\ written \in Nat /\ written <= load.last
            BY <1>3, EndType, LoadType DEF FileType
          <6> HIDE DEF written
          <6> QED BY <1>3, <1>7, <1>13, <6>1
        <5> QED BY <2>3, <5>1 DEF Uniform
      <4>2. End(n + 1) = file[n + 1] + Size(n + 1) /\ End(n + 1) < load.cap
        BY <1>3, <1>13, EndType DEF FileInv
      <4>3. file[n + 1] = End(k) + Units(k, n)
        <5>1. file[n + 1] = End(k) + Units(k, (n + 1) - 1)
          BY <1>6, <1>13 DEF Stretch
        <5>2. (n + 1) - 1 = n
          BY <1>12
        <5> QED BY <5>1, <5>2
      <4> QED BY <1>9, <1>10, <1>11, <1>12, <1>14, <4>1, <4>2, <4>3
    <3>2. n = w - 1
      BY <1>7, <1>12, <3>1
    <3>3. Units(k, w - 1) + Units(w - 1, e) = Units(k, e)
      BY <1>7, <1>8
    <3> QED BY <1>6, <1>9, <1>12, <2>1, <3>2, <3>3
  <2> HIDE DEF k, e
  <2> QED BY <1>5, <2>1, <2>2, <2>3 DEF LengthAround
<1>15. CASE ~(End(k) + read_buf_len >= load.cap - zero_sql_len)
  <2>1. NextLength(IF read_buf_len < End(e) THEN "undefined" ELSE "choose")
    BY <1>15 DEF CacheAround
  <2>2. n < w - 1
    BY <1>6, <1>7, <1>9, <1>10, <1>11, <1>12, <1>15
  <2>3. \/ /\ Units(k, n + 1) > MaxPush /\ read_buf_len' = Units(k, n)
           /\ cacher' = IF Units(k, n) < End(e) THEN "undefined" ELSE "choose"
        \/ /\ Units(k, n + 1) <= MaxPush /\ read_buf_len' = Units(k, n + 1) /\ cacher' = "around"
    BY <1>2, <1>11, <1>13, <2>1, <2>2 DEF NextLength
  <2>4. CASE Units(k, n + 1) <= MaxPush /\ read_buf_len' = Units(k, n + 1) /\ cacher' = "around"
    <3>1. n + 1 \in k..w-1
      BY <1>3, <1>7, <1>13, <2>2
    <3>2. zero_sql_len' = Size(w)'
      BY <1>2, <1>10 DEF Size
    <3>3. mmap_buf_offset' = k
      BY <1>2
    <3>4. read_buf_len' = Units(mmap_buf_offset, n + 1)' /\ read_buf_len' <= MaxPush
          /\ n + 1 \in mmap_buf_offset'..w-1
      BY <1>5, <2>4, <3>1, <3>3
    <3> HIDE DEF k, e
    <3> QED BY <2>4, <3>2, <3>4 DEF LengthAround
  <2>5. CASE /\ Units(k, n + 1) > MaxPush /\ read_buf_len' = Units(k, n)
             /\ cacher' = IF Units(k, n) < End(e) THEN "undefined" ELSE "choose"
    <3>1. ~(load.ahead <= MaxPush)
      <4>1. Units(k, e) <= load.ahead
        BY <1>2, <1>3, <1>4, PaceAround
      <4>2. Units(k, n + 1) <= Units(k, e)
        <5>1. n + 1 \in 0..written /\ n + 1 <= e
          BY <1>7, <1>13, <2>2
        <5> QED BY <1>7, <1>8, <5>1
      <4>3. Units(k, n + 1) \in Int /\ Units(k, e) \in Int /\ load.ahead \in Nat
        <5>1. n + 1 \in 0..written
          BY <1>13, <2>2
        <5> QED BY <1>3, <1>7, <1>8, <5>1, LoadType DEF FileType
      <4> QED BY <1>3, <2>5, <4>1, <4>2, <4>3
    <3>2. cacher' = "choose" => read_buf_len' - End(e) \in 0..Units(k, w - 1)
      BY <1>9, <1>12, <2>5
    <3>3. cacher' \in {"undefined", "choose"}
      BY <2>5
    <3>4. load'.ahead = load.ahead
      BY <1>5
    <3> HIDE DEF k, e
    <3> QED BY <1>5, <3>1, <3>2, <3>3, <3>4 DEF LengthAround
  <2> QED BY <2>3, <2>4, <2>5
<1> QED BY <1>14, <1>15

LEMMA Frame ==
  ASSUME Next, ~CachePoll, ~CacheOnward, ~CacheAround
  PROVE  \/ cacher' = "poll"
         \/ /\ Write \/ UNCHANGED <<load, file>>
            /\ UNCHANGED <<mmap_buf_offset, mmap_buf_len, read_buf_len, zero_sql_len, read_word, restarts>>
            /\ \/ cacher' = cacher
               \/ /\ cacher \notin {"poll", "onward", "around", "undefined"}
                  /\ cacher' \notin {"poll", "onward", "around", "undefined"}
<1>1. CASE Write
  BY <1>1 DEF Write, cache, batch
<1>2. CASE Restart
  BY <1>2 DEF Restart
<1>3. CASE CacheThread
  BY <1>3 DEF CacheThread, CacheChoose, CacheFill, CacheMeasure, CachePublish, CacheQueue, Advance,
              writer, batch
<1>4. CASE ExecThread
  BY <1>4 DEF ExecThread, ExecLock, ExecWake, ExecExchange, ExecRewind, ExecRelength,
              ExecEmptyCache, ExecClear, ExecRelock, ExecExecute, writer, cache, batch
<1>5. CASE SpuriousWakeup
  BY <1>5 DEF SpuriousWakeup, writer, batch
<1> QED BY <1>1, <1>2, <1>3, <1>4, <1>5 DEF Next

LEMMA LengthNext == OffsetInv /\ LengthInv /\ [Next]_vars => LengthInv'
<1> SUFFICES ASSUME OffsetInv, LengthInv, [Next]_vars PROVE LengthInv'
  OBVIOUS
<1>1. CASE CachePoll \/ CacheOnward \/ CacheAround
  BY <1>1, LengthPoll, LengthOnward, LengthTurned
<1>2. CASE cacher' = "poll"
  BY <1>2 DEF LengthInv
<1>3. CASE UNCHANGED vars
  <2>1. UNCHANGED <<load, file, cacher, mmap_buf_offset, mmap_buf_len, read_buf_len, zero_sql_len>>
    BY <1>3 DEF vars, writer, cache, batch
  <2> QED BY <2>1, LengthKept
<1>4. CASE Next /\ ~CachePoll /\ ~CacheOnward /\ ~CacheAround /\ cacher' # "poll"
  BY <1>4, Frame, LengthKept
<1> QED BY <1>1, <1>2, <1>3, <1>4

\* The batch is copied out of the file: in one stretch,
LEMMA CopiedAhead ==
  ASSUME OffsetInv, LengthInv, Behind, cacher = "choose", ~Around, NEW c,
         c = [i \in 0..read_buf_len-1 |-> BatchCell(i)]
  PROVE  Whole(c)
<1>1. /\ FileType /\ FileInv /\ Room(mmap_buf_offset) /\ written \in Nat
      /\ mmap_buf_offset \in 0..written /\ mmap_buf_len \in mmap_buf_offset+1..written
  BY Window, EndType
<1> DEFINE k == mmap_buf_offset
<1> DEFINE e == mmap_buf_len
<1> HIDE DEF written
<1>2. k \in k..written /\ e \in k..written /\ e \in 0..written /\ k \in 0..written
  BY <1>1
<1>3. Stretch(k, e, End(k)) /\ End(k) \in Nat
  <2>1. End(e) \in Nat /\ End(k) \in Nat
    BY <1>1, <1>2, EndType
  <2>2. End(e) >= End(k)
    BY <2>1 DEF Around
  <2> QED BY <1>1, <2>1, <2>2, Shape
<1>4. PICK n \in k..e : read_buf_len = Units(k, n)
  BY DEF LengthInv, LengthAhead
<1>5. Units(k, n) <= Units(k, e) /\ Units(k, n) \in Int /\ Units(k, e) \in Int
  <2>1. n \in 0..written /\ n <= e
    BY <1>1, <1>2
  <2> HIDE DEF k, e
  <2> QED BY <1>1, <1>2, <2>1, UnitsRise
<1>6. ASSUME NEW i \in DOMAIN c
      PROVE  \/ c[i] \in k+1..e /\ Units(k, c[i] - 1) = i
             \/ c[i] = Inside /\ \A m \in k+1..e : Units(k, m - 1) # i
  <2>1. i \in Nat /\ i < Units(k, e) /\ c[i] = BatchCell(i)
    BY <1>4, <1>5
  <2>2. c[i] = FileCell(End(k) + i)
    BY <2>1 DEF BatchCell
  <2>3. PICK p \in Int : p = End(k) + i
    BY <1>3, <2>1
  <2>4. \/ FileCell(p) \in k+1..e /\ Units(k, FileCell(p) - 1) = i
        \/ FileCell(p) = Inside /\ \A m \in k+1..e : Units(k, m - 1) # i
    <3> QED BY <1>1, <1>2, <1>3, <2>1, <2>3, StretchCell
  <2> QED BY <2>2, <2>3, <2>4
<1> QED BY <1>6 DEF Whole

\* or in two, about a new start of the writer.
LEMMA CopiedAround ==
  ASSUME OffsetInv, LengthInv, Behind, cacher = "choose", Around, NEW c,
         c = [i \in 0..read_buf_len-1 |-> BatchCell(i)]
  PROVE  /\ \A i \in DOMAIN c : c[i] \in mmap_buf_offset+1..mmap_buf_len \cup {Inside}
         /\ Ordered(c, DOMAIN c)
         /\ Uniform /\ load.ahead <= MaxPush => Whole(c)
<1>1. /\ FileType /\ FileInv /\ Room(mmap_buf_offset) /\ written \in Nat
      /\ mmap_buf_offset \in 0..written /\ mmap_buf_len \in mmap_buf_offset+1..written
  BY Window, EndType
<1> DEFINE k == mmap_buf_offset
<1> DEFINE e == mmap_buf_len
<1>2. PICK w : Turn(k, e, w)
  BY <1>1, Shape DEF Around
<1>3. /\ Stretch(k, w - 1, End(k)) /\ Stretch(w - 1, e, 0) /\ End(e) = Units(w - 1, e)
  BY <1>1, <1>2, Shape
<1> HIDE DEF written
<1>4. /\ w \in k+1..e /\ w - 1 \in k..written /\ w - 1 \in 0..written /\ e \in 0..written /\ k \in 0..written
      /\ k \in k..written /\ e \in w-1..written /\ w \in Int /\ (w - 1) + 1 = w /\ k \in Int /\ e \in Int
  <2>1. w \in k+1..e
    BY <1>2 DEF Turn
  <2> QED BY <1>1, <2>1
<1>5. End(k) \in Nat /\ End(e) \in Nat
  BY <1>1, <1>4, EndType
<1> DEFINE tail == read_buf_len - End(e)
<1>6. LengthAround(w)
  BY <1>2, <1>4 DEF LengthInv
<1>7. tail \in 0..Units(k, w - 1) /\ read_buf_len \in Nat
  BY <1>6 DEF LengthAround, OffsetInv, TypeOK
<1>8. /\ \A x \in 0..written : Units(k, x) \in Int
      /\ \A x \in 0..written : Units(w - 1, x) \in Int
      /\ \A x, y \in 0..written : x < y <=> Units(k, x) < Units(k, y)
      /\ \A x, y \in 0..written : x <= y <=> Units(k, x) <= Units(k, y)
      /\ \A x, y \in 0..written : x < y <=> Units(w - 1, x) < Units(w - 1, y)
      /\ \A b, n \in 0..written : Units(k, b) + Units(b, n) = Units(k, n)
  <2> DEFINE v == w - 1
  <2>1. k \in 0..written /\ v \in 0..written
    BY <1>4
  <2> HIDE DEF k, v
  <2>2. /\ \A x \in 0..written : Units(v, x) \in Int
        /\ \A x, y \in 0..written : x < y <=> Units(v, x) < Units(v, y)
    BY <1>1, <2>1, UnitsRise
  <2>3. /\ \A x \in 0..written : Units(k, x) \in Int
        /\ \A x, y \in 0..written : x < y <=> Units(k, x) < Units(k, y)
        /\ \A x, y \in 0..written : x <= y <=> Units(k, x) <= Units(k, y)
        /\ \A b, n \in 0..written : Units(k, b) + Units(b, n) = Units(k, n)
    BY <1>1, <2>1, UnitsRise
  <2> QED BY <2>2, <2>3 DEF v
<1>9. ASSUME NEW i \in DOMAIN c, i < tail
      PROVE  /\ i \in Nat
             /\ \/ c[i] \in k+1..w-1 /\ Units(k, c[i] - 1) = i
                \/ c[i] = Inside /\ \A m \in k+1..w-1 : Units(k, m - 1) # i
  <2>1. i \in Nat /\ c[i] = BatchCell(i)
    BY <1>7
  <2>2. i < Units(k, w - 1)
    <3>1. Units(k, w - 1) \in Int
      BY <1>4, <1>8
    <3> HIDE DEF tail
    <3> QED BY <1>7, <1>9, <2>1, <3>1
  <2>3. c[i] = FileCell(End(k) + i)
    <3>1. ~(i >= tail)
      BY <1>5, <1>7, <1>9, <2>1
    <3> QED BY <2>1, <3>1 DEF BatchCell
  <2>4. PICK p \in Int : p = End(k) + i
    BY <1>5, <2>1
  <2>5. \/ FileCell(p) \in k+1..w-1 /\ Units(k, FileCell(p) - 1) = i
        \/ FileCell(p) = Inside /\ \A m \in k+1..w-1 : Units(k, m - 1) # i
    <3> DEFINE v == w - 1
    <3>1. v \in k..written /\ Stretch(k, v, End(k)) /\ i < Units(k, v)
      BY <1>3, <1>4, <2>2
    <3>2. \/ FileCell(p) \in k+1..v /\ Units(k, FileCell(p) - 1) = i
          \/ FileCell(p) = Inside /\ \A m \in k+1..v : Units(k, m - 1) # i
      <4> HIDE DEF tail, v
      <4> QED BY <1>1, <1>4, <1>5, <2>1, <2>4, <3>1, StretchCell
    <3> QED BY <3>2
  <2> QED BY <2>1, <2>3, <2>4, <2>5
<1>10. ASSUME NEW i \in DOMAIN c, ~(i < tail)
       PROVE  /\ i \in Nat
              /\ \/ c[i] \in w..e /\ Units(w - 1, c[i] - 1) = i - tail
                 \/ c[i] = Inside /\ \A m \in w..e : Units(w - 1, m - 1) # i - tail
  <2>1. i \in Nat /\ c[i] = BatchCell(i) /\ i < read_buf_len
    BY <1>7
  <2>2. i - tail \in Nat /\ i - tail < Units(w - 1, e)
    BY <1>3, <1>5, <1>7, <1>10, <2>1
  <2>3. c[i] = FileCell(i - tail)
    <3>1. i >= tail
      BY <1>5, <1>7, <1>10, <2>1
    <3> QED BY <2>1, <3>1 DEF BatchCell
  <2>4. PICK p \in Nat : p = i - tail /\ p = 0 + p
    BY <2>2
  <2>5. \/ FileCell(p) \in w..e /\ Units(w - 1, FileCell(p) - 1) = p
        \/ FileCell(p) = Inside /\ \A m \in w..e : Units(w - 1, m - 1) # p
    <3> DEFINE v == w - 1
    <3>1. v \in k..written /\ e \in v..written /\ Stretch(v, e, 0) /\ p < Units(v, e) /\ v + 1 = w
      BY <1>3, <1>4, <2>2, <2>4
    <3>2. \/ FileCell(p) \in v+1..e /\ Units(v, FileCell(p) - 1) = p
          \/ FileCell(p) = Inside /\ \A m \in v+1..e : Units(v, m - 1) # p
      <4> HIDE DEF tail, v
      <4> QED BY <1>1, <1>4, <2>4, <3>1, StretchCell
    <3> QED BY <3>1, <3>2
  <2> QED BY <2>1, <2>3, <2>4, <2>5
<1> HIDE DEF k, e, tail
<1>11. ASSUME NEW i \in DOMAIN c PROVE c[i] \in k+1..e \cup {Inside}
  <2>1. k+1..w-1 \subseteq k+1..e /\ w..e \subseteq k+1..e
    BY <1>4
  <2> QED BY <1>9, <1>10, <2>1
<1>12. ASSUME NEW i \in DOMAIN c, NEW j \in DOMAIN c, i < j, c[i] # Inside, c[j] # Inside
       PROVE  c[i] < c[j]
  <2>0. i \in Nat /\ j \in Nat /\ tail \in Int
    BY <1>7, <1>9, <1>10
  <2>1. CASE j < tail
    <3>1. i < tail
      BY <1>12, <2>0, <2>1
    <3>2. /\ c[i] \in k+1..w-1 /\ Units(k, c[i] - 1) = i
          /\ c[j] \in k+1..w-1 /\ Units(k, c[j] - 1) = j
      BY <1>9, <1>12, <2>1, <3>1
    <3>3. c[i] - 1 \in 0..written /\ c[j] - 1 \in 0..written /\ c[i] \in Int /\ c[j] \in Int
      BY <1>1, <1>4, <3>2
    <3>4. c[i] - 1 < c[j] - 1
      BY <1>8, <1>12, <3>2, <3>3
    <3> QED BY <3>3, <3>4
  <2>2. CASE i < tail /\ ~(j < tail)
    <3>1. c[i] \in k+1..w-1 /\ c[j] \in w..e
      BY <1>9, <1>10, <1>12, <2>2
    <3> QED BY <1>4, <3>1
  <2>3. CASE ~(i < tail)
    <3>1. ~(j < tail)
      BY <1>12, <2>0, <2>3
    <3>2. /\ c[i] \in w..e /\ Units(w - 1, c[i] - 1) = i - tail
          /\ c[j] \in w..e /\ Units(w - 1, c[j] - 1) = j - tail
      BY <1>10, <1>12, <2>3, <3>1
    <3>3. c[i] - 1 \in 0..written /\ c[j] - 1 \in 0..written /\ c[i] \in Int /\ c[j] \in Int
      BY <1>1, <1>4, <3>2
    <3>4. i - tail < j - tail
      BY <1>12, <2>0
    <3>5. c[i] - 1 < c[j] - 1
      BY <1>8, <3>2, <3>3, <3>4
    <3> QED BY <3>3, <3>5
  <2> QED BY <2>1, <2>2, <2>3
<1>13. ASSUME Uniform, load.ahead <= MaxPush, NEW i \in DOMAIN c
       PROVE  \/ c[i] \in k+1..e /\ Units(k, c[i] - 1) = i
              \/ c[i] = Inside /\ \A m \in k+1..e : Units(k, m - 1) # i
  <2>1. read_buf_len = Units(k, e)
    BY <1>6, <1>13 DEF LengthAround, k, e
  <2>2. tail = Units(k, w - 1)
    <3>1. Units(k, w - 1) + Units(w - 1, e) = Units(k, e)
      BY <1>4, <1>8
    <3>2. Units(k, w - 1) \in Int /\ Units(w - 1, e) \in Int
      BY <1>4, <1>8
    <3> QED BY <1>3, <2>1, <3>1, <3>2 DEF tail
  <2>3. \A m \in k+1..w-1 : Units(k, m - 1) < tail
    <3> TAKE m \in k+1..w-1
    <3>1. m - 1 \in 0..written /\ m - 1 < w - 1
      BY <1>1, <1>4
    <3> QED BY <1>4, <1>8, <2>2, <3>1
  <2>4. \A m \in w..e : Units(k, m - 1) = tail + Units(w - 1, m - 1) /\ Units(w - 1, m - 1) \in Nat
    <3> TAKE m \in w..e
    <3>1. m - 1 \in 0..written /\ w - 1 <= m - 1
      BY <1>1, <1>4
    <3>2. Units(k, w - 1) + Units(w - 1, m - 1) = Units(k, m - 1)
      BY <1>4, <1>8, <3>1
    <3>3. Units(w - 1, m - 1) \in Nat
      BY <1>1, <1>4, <3>1, UnitsRise
    <3> QED BY <2>2, <3>2, <3>3
  <2>5. \A m \in k+1..e : m \in k+1..w-1 \/ m \in w..e
    BY <1>4
  <2>6. tail \in Int
    BY <1>7
  <2>7. CASE i < tail
    <3>1. \A m \in w..e : Units(k, m - 1) # i
      BY <1>9, <2>4, <2>6, <2>7
    <3>2. c[i] \in k+1..w-1 => c[i] \in k+1..e
      BY <1>4
    <3> QED BY <1>9, <2>5, <2>7, <3>1, <3>2
  <2>8. CASE ~(i < tail)
    <3>0. i \in Nat
      BY <1>10, <2>8
    <3>1. \A m \in k+1..w-1 : Units(k, m - 1) # i
      BY <2>3, <2>8
    <3>2. c[i] \in w..e => c[i] \in k+1..e
      BY <1>4
    <3>3. \A m \in w..e : Units(w - 1, m - 1) = i - tail <=> Units(k, m - 1) = i
      <4> TAKE m \in w..e
      <4>1. Units(k, m - 1) = tail + Units(w - 1, m - 1) /\ Units(w - 1, m - 1) \in Nat
        BY <2>4
      <4> QED BY <2>6, <3>0, <4>1
    <3> QED BY <1>10, <2>5, <2>8, <3>1, <3>2, <3>3
  <2> QED BY <2>7, <2>8
<1> QED BY <1>11, <1>12, <1>13 DEF Whole, Ordered, k, e

LEMMA WholeOrdered ==
  ASSUME FileType, mmap_buf_offset \in 0..written, mmap_buf_len \in 0..written,
         NEW c, DOMAIN c \subseteq Int, Whole(c)
  PROVE  /\ \A i \in DOMAIN c : c[i] \in mmap_buf_offset+1..mmap_buf_len \cup {Inside}
         /\ Ordered(c, DOMAIN c)
<1>0. written \in Nat
  BY EndType
<1> HIDE DEF written
<1>1. ASSUME NEW i \in DOMAIN c, NEW j \in DOMAIN c, i < j, c[i] # Inside, c[j] # Inside
      PROVE  c[i] < c[j]
  <2>1. /\ c[i] \in mmap_buf_offset+1..mmap_buf_len /\ Units(mmap_buf_offset, c[i] - 1) = i
        /\ c[j] \in mmap_buf_offset+1..mmap_buf_len /\ Units(mmap_buf_offset, c[j] - 1) = j
    BY <1>1 DEF Whole
  <2>2. c[i] - 1 \in 0..written /\ c[j] - 1 \in 0..written /\ c[i] \in Int /\ c[j] \in Int
    BY <1>0, <2>1
  <2>3. \A x, y \in 0..written : x < y <=> Units(mmap_buf_offset, x) < Units(mmap_buf_offset, y)
    BY UnitsRise
  <2>4. c[i] - 1 < c[j] - 1
    BY <1>1, <2>1, <2>2, <2>3
  <2> QED BY <2>2, <2>4
<1> QED BY <1>1 DEF Whole, Ordered

LEMMA BatchNext == OffsetInv /\ LengthInv /\ BatchInv /\ [Next]_vars => BatchInv'
<1> SUFFICES ASSUME OffsetInv, LengthInv, BatchInv, [Next]_vars, Behind', HasBatch'
             PROVE  BatchInv'
  BY DEF BatchInv
<1>1. FileType /\ written \in Nat /\ mmap_buf_offset \in 0..written /\ mmap_buf_len \in 0..written
      /\ read_buf_len \in Nat
  BY TypeFile, EndType DEF OffsetInv, TypeOK
<1>2. CASE CacheChoose
  <2>1. /\ cacher = "choose" /\ UNCHANGED <<load, file, mmap_buf_offset, mmap_buf_len>>
        /\ sql_list_buf' = [i \in 0..read_buf_len-1 |-> BatchCell(i)]
    BY <1>2 DEF CacheChoose, writer
  <2>2. Behind
    BY <2>1, LoadKept
  <2>3. /\ \A i \in DOMAIN sql_list_buf' :
             sql_list_buf'[i] \in mmap_buf_offset+1..mmap_buf_len \cup {Inside}
        /\ Ordered(sql_list_buf', DOMAIN sql_list_buf')
        /\ (Around => Uniform /\ load.ahead <= MaxPush) => Whole(sql_list_buf')
    <3>1. CASE ~Around
      <4>1. Whole(sql_list_buf')
        BY <2>1, <2>2, <3>1, CopiedAhead
      <4>2. DOMAIN sql_list_buf' \subseteq Int
        BY <1>1, <2>1
      <4> QED BY <1>1, <4>1, <4>2, WholeOrdered
    <3>2. CASE Around
      BY <2>1, <2>2, <3>2, CopiedAround
    <3> QED BY <3>1, <3>2
  <2>4. (Around' <=> Around) /\ (Uniform' <=> Uniform) /\ load' = load
        /\ \A n : Units(mmap_buf_offset, n)' = Units(mmap_buf_offset, n)
    BY <2>1, WindowKept, LoadKept DEF Units
  <2>5. (\A i, j \in DOMAIN sql_list_buf' : i < j /\ sql_list_buf'[i] # Inside /\ sql_list_buf'[j] # Inside
           => sql_list_buf'[i] < sql_list_buf'[j])
    BY <2>3 DEF Ordered
  <2> QED BY <2>1, <2>3, <2>4, <2>5 DEF BatchInv, Whole, Ordered
<1>3. CASE ~CacheChoose
  <2>1. /\ HasBatch /\ (Write \/ UNCHANGED <<load, file>>)
        /\ UNCHANGED <<mmap_buf_offset, mmap_buf_len, sql_list_buf>>
    <3>1. CASE Write
      BY <3>1 DEF Write, cache, batch, HasBatch
    <3>2. CASE Restart
      BY <3>2 DEF Restart, HasBatch
    <3>3. CASE CacheThread
      BY <1>3, <3>3 DEF CacheThread, CachePoll, CacheOnward, CacheAround, NextLength, CacheFill,
                  CacheMeasure, CachePublish, CacheQueue, Advance, writer, batch, HasBatch
    <3>4. CASE ExecThread
      BY <3>4 DEF ExecThread, ExecLock, ExecWake, ExecExchange, ExecRewind, ExecRelength,
                  ExecEmptyCache, ExecClear, ExecRelock, ExecExecute, writer, cache, batch, HasBatch
    <3>5. CASE SpuriousWakeup
      BY <3>5 DEF SpuriousWakeup, writer, batch, HasBatch
    <3>6. CASE UNCHANGED vars
      BY <3>6 DEF vars, writer, cache, batch, HasBatch
    <3> QED BY <3>1, <3>2, <3>3, <3>4, <3>5, <3>6 DEF Next
  <2>2. (Around' <=> Around) /\ load' = load
    BY <2>1, WindowKept
  <2>3. Behind /\ (Uniform' <=> Uniform) /\ \A n : Units(mmap_buf_offset, n)' = Units(mmap_buf_offset, n)
    BY <2>1, <2>2, LoadKept DEF Units
  <2>4. Whole(sql_list_buf) => Whole(sql_list_buf)'
    <3> SUFFICES ASSUME Whole(sql_list_buf), NEW i \in DOMAIN sql_list_buf
                 PROVE  \/ /\ sql_list_buf[i] \in mmap_buf_offset+1..mmap_buf_len
                           /\ Units(mmap_buf_offset, sql_list_buf[i] - 1)' = i
                        \/ /\ sql_list_buf[i] = Inside
                           /\ \A m \in mmap_buf_offset+1..mmap_buf_len : Units(mmap_buf_offset, m - 1)' # i
      BY <2>1 DEF Whole, Units
    <3>1. \A m : Units(mmap_buf_offset, m - 1)' = Units(mmap_buf_offset, m - 1)
      BY <2>3
    <3>2. \/ /\ sql_list_buf[i] \in mmap_buf_offset+1..mmap_buf_len
             /\ Units(mmap_buf_offset, sql_list_buf[i] - 1) = i
          \/ /\ sql_list_buf[i] = Inside
             /\ \A m \in mmap_buf_offset+1..mmap_buf_len : Units(mmap_buf_offset, m - 1) # i
      BY DEF Whole
    <3>3. Units(mmap_buf_offset, sql_list_buf[i] - 1)' = Units(mmap_buf_offset, sql_list_buf[i] - 1)
      BY <2>1, <2>2 DEF Units
    <3> QED BY <3>1, <3>2, <3>3
  <2>5. Ordered(sql_list_buf, DOMAIN sql_list_buf) => Ordered(sql_list_buf, DOMAIN sql_list_buf)'
    BY <2>1 DEF Ordered
  <2>6. /\ \A i \in DOMAIN sql_list_buf :
             sql_list_buf[i] \in mmap_buf_offset+1..mmap_buf_len \cup {Inside}
        /\ Ordered(sql_list_buf, DOMAIN sql_list_buf)
        /\ (Around => Uniform /\ load.ahead <= MaxPush) => Whole(sql_list_buf)
    BY <2>1, <2>3 DEF BatchInv
  <2> QED BY <2>1, <2>2, <2>3, <2>4, <2>5, <2>6 DEF BatchInv
<1> QED BY <1>2, <1>3

LEMMA BatchImplied == OffsetInv /\ LengthInv /\ BatchInv => BatchIsWhole
<1> SUFFICES ASSUME OffsetInv, LengthInv, BatchInv,
                    Behind, cacher \notin {"poll", "onward", "around"},
                    Around => Uniform /\ load.ahead <= MaxPush
             PROVE  LET len(n) == Units(mmap_buf_offset, n)
                        ends == {len(n) : n \in mmap_buf_offset..mmap_buf_len} \cap 0..MaxPush
                        StartAt(k) == {n \in mmap_buf_offset+1..mmap_buf_len : len(n - 1) = k}
                    IN /\ cacher # "undefined"
                       /\ read_buf_len \in ends /\ \A m \in ends : m <= read_buf_len
                       /\ \A k \in DOMAIN sql_list_buf :
                            IF sql_list_buf[k] = Inside THEN StartAt(k) = {} ELSE sql_list_buf[k] \in StartAt(k)
  BY DEF BatchIsWhole
<1> DEFINE k == mmap_buf_offset
<1> DEFINE e == mmap_buf_len
<1>1. /\ FileType /\ FileInv /\ Room(k) /\ written \in Nat /\ MaxPush \in Nat
      /\ k \in 0..written /\ e \in k+1..written
  BY Window, EndType, SqlAssumption
<1> HIDE DEF written
<1>2. e \in 0..written /\ k \in Int /\ e \in Int
  BY <1>1
<1>3. /\ \A x \in 0..written : Units(k, x) \in Int
      /\ \A x \in 0..written : k <= x => Units(k, x) \in Nat
      /\ \A x, y \in 0..written : x <= y <=> Units(k, x) <= Units(k, y)
  BY <1>1, UnitsRise
<1>4. /\ cacher # "undefined"
      /\ \E n \in k..e :
           /\ read_buf_len = Units(k, n) /\ read_buf_len <= MaxPush
           /\ n < e => Units(k, n + 1) > MaxPush
  <2>1. CASE ~Around
    BY <2>1 DEF LengthInv, LengthAhead
  <2>2. CASE Around
    <3>1. PICK w : Turn(k, e, w)
      BY <1>1, <2>2, Shape DEF Around
    <3>2. LengthAround(w)
      BY <2>2, <3>1 DEF LengthInv, Turn
    <3>3. cacher # "undefined" /\ read_buf_len = Units(k, e)
      BY <2>2, <3>2 DEF LengthAround
    <3>4. Units(k, e) <= MaxPush
      <4>1. Units(k, e) <= load.ahead
        BY <2>2, PaceAround
      <4>2. Units(k, e) \in Int /\ load.ahead \in Nat
        BY <1>1, <1>2, <1>3, LoadType DEF FileType
      <4> QED BY <1>1, <2>2, <4>1, <4>2
    <3>5. e \in k..e /\ ~(e < e)
      BY <1>1, <1>2
    <3> HIDE DEF k, e
    <3> QED BY <3>3, <3>4, <3>5
  <2> QED BY <2>1, <2>2
<1>5. PICK n \in k..e :
        /\ read_buf_len = Units(k, n) /\ read_buf_len <= MaxPush
        /\ n < e => Units(k, n + 1) > MaxPush
  BY <1>4
<1>6. n \in 0..written /\ k <= n /\ n \in Int
  BY <1>1
<1>7. read_buf_len \in 0..MaxPush
  <2>1. Units(k, n) \in Nat
    BY <1>3, <1>6
  <2> QED BY <1>1, <1>5, <2>1
<1>8. ASSUME NEW m \in k..e, Units(k, m) \in 0..MaxPush PROVE Units(k, m) <= read_buf_len
  <2>1. m \in 0..written /\ m \in Int
    BY <1>1
  <2>2. CASE m <= n
    <3>1. Units(k, m) <= Units(k, n)
      BY <1>3, <1>6, <2>1, <2>2
    <3> QED BY <1>5, <3>1
  <2>3. CASE m > n
    <3>1. n < e /\ n + 1 <= m /\ n + 1 \in 0..written
      BY <1>1, <1>2, <1>6, <2>1, <2>3
    <3>2. Units(k, n + 1) > MaxPush
      BY <1>5, <3>1
    <3>3. Units(k, n + 1) <= Units(k, m) /\ Units(k, n + 1) \in Int
      BY <1>3, <2>1, <3>1
    <3> QED BY <1>1, <1>8, <3>2, <3>3
  <2> QED BY <1>6, <2>1, <2>2, <2>3
<1>9. ASSUME NEW i \in DOMAIN sql_list_buf
      PROVE  \/ sql_list_buf[i] \in k+1..e /\ Units(k, sql_list_buf[i] - 1) = i
             \/ sql_list_buf[i] = Inside /\ \A m \in k+1..e : Units(k, m - 1) # i
  <2>1. HasBatch
    <3>1. cacher \in CachePC
      BY DEF OffsetInv, TypeOK
    <3>2. ASSUME cacher = "choose" PROVE FALSE
      <4>1. sql_list_buf \in [0..0-1 -> Contents]
        BY <3>2 DEF OffsetInv, TypeOK, HasBatch
      <4> QED BY <4>1
    <3> QED BY <1>4, <3>1, <3>2 DEF CachePC, HasBatch
  <2> QED BY <2>1 DEF BatchInv, Whole
<1>10. \A i \in k+1..e : i # Inside
  BY <1>1 DEF Inside
<1> HIDE DEF k, e
<1>11. read_buf_len \in {Units(k, m) : m \in k..e}
  <2>1. read_buf_len = Units(k, n) /\ n \in k..e
    BY <1>5
  <2> QED BY <2>1
<1> QED BY <1>4, <1>7, <1>8, <1>9, <1>10, <1>11 DEF k, e

\* A batch ends where a statement ends, is as long as a queue allows, and its cells are those of
\* the statements beyond the reader's offset, however the writer and the other thread interleave
\* with get_read_buf_len and the copy; about a new start of the writer too, where the statements
\* have one length and fit.
THEOREM BatchesWhole == Spec => []BatchIsWhole
<1>1. Init => LengthInv /\ BatchInv
  BY DEF Init, LengthInv, BatchInv, HasBatch
<1> QED BY <1>1, OffsetAlways, LengthNext, BatchNext, BatchImplied, PTL DEF Spec
-----------------------------------------------------------------------------
(* The order of the cache queue *)

LEMMA CacheKept ==
  ASSUME TypeOK, CacheInv, UNCHANGED load, mem'[cache_mem'] = mem[cache_mem], CacheTo' = CacheTo,
         mmap_buf_offset' \in Nat, mmap_buf_offset <= mmap_buf_offset'
  PROVE  CacheInv'
<1> SUFFICES ASSUME Behind'
             PROVE  /\ \A i \in 0..CacheTo-1 : mem'[cache_mem'][i] \in 1..mmap_buf_offset' \cup {Inside}
                    /\ Ordered(mem'[cache_mem'], 0..CacheTo-1)
  BY DEF CacheInv, Ordered
<1>1. Behind
  BY LoadKept
<1>2. mmap_buf_offset \in Nat
  <2>1. written \in Nat
    BY TypeFile, EndType
  <2> HIDE DEF written
  <2> QED BY <2>1 DEF TypeOK
<1>3. 1..mmap_buf_offset \subseteq 1..mmap_buf_offset'
  BY <1>2
<1> QED BY <1>1, <1>3 DEF CacheInv

LEMMA CacheNone == ASSUME CacheTo' = 0 PROVE CacheInv'
<1>1. 0..CacheTo'-1 = {}
  OBVIOUS
<1> QED BY <1>1 DEF CacheInv, Ordered

LEMMA CacheGrows ==
  ASSUME OffsetInv, FitsInv, BatchInv, CacheInv, CacheQueue, ~CacheFull
  PROVE  CacheInv'
<1> DEFINE n == cache_mem_length
<1> DEFINE len == read_buf_len
<1> DEFINE old == mem[cache_mem]
<1> DEFINE new == mem'[cache_mem]
<1>1. /\ CopyBatch(cache_mem, n) /\ cache_mem_length' = n + len
      /\ UNCHANGED <<cache_mem, exec, load>> /\ mmap_buf_offset' = mmap_buf_len
      /\ cacher \in {"queue", "woken"} /\ exec \notin Exchanging
  BY DEF CacheQueue, Advance, execv, SwapLockFree
<1>2. /\ TypeOK /\ n \in Nat /\ len \in Nat /\ MaxPush \in Nat /\ HasBatch /\ cache_mem \in {0, 1}
      /\ sql_list_buf \in [0..len-1 -> Contents]
  <2>1. TypeOK /\ HasBatch /\ MaxPush \in Nat
    BY <1>1, SqlAssumption DEF OffsetInv, HasBatch
  <2> QED BY <2>1 DEF TypeOK
<1>3. n + len <= MaxPush
  BY <1>2 DEF CacheFull
<1>4. CacheTo = n /\ CacheTo' = n + len
  BY <1>1 DEF CacheTo
<1>5. /\ \A i \in Cells : i \in n..(n + len - 1) => new[i] = sql_list_buf[i - n]
      /\ \A i \in Cells : i \notin n..(n + len - 1) => new[i] = old[i]
  BY <1>1, <1>2, Copied
<1>6. /\ \A i \in 0..n-1 : new[i] = old[i]
      /\ \A i \in n..(n + len - 1) : new[i] = sql_list_buf[i - n] /\ i - n \in 0..len-1
  BY <1>2, <1>3, <1>5 DEF Cells
<1>7. /\ mmap_buf_offset \in Nat /\ mmap_buf_len \in Nat /\ mmap_buf_offset < mmap_buf_len
  <2>1. written \in Nat
    BY <1>2, TypeFile, EndType
  <2> HIDE DEF written
  <2> QED BY <1>1, <2>1 DEF OffsetInv, TypeOK, PaceInv
<1> SUFFICES ASSUME Behind'
             PROVE  /\ \A i \in 0..(n + len)-1 : new[i] \in 1..mmap_buf_len \cup {Inside}
                    /\ \A i, j \in 0..(n + len)-1 : i < j /\ new[i] # Inside /\ new[j] # Inside => new[i] < new[j]
  BY <1>1, <1>4 DEF CacheInv, Ordered
<1>8. Behind
  BY <1>1, LoadKept
<1>9. /\ \A i \in 0..n-1 : old[i] \in 1..mmap_buf_offset \cup {Inside}
      /\ \A i, j \in 0..n-1 : i < j /\ old[i] # Inside /\ old[j] # Inside => old[i] < old[j]
  BY <1>4, <1>8 DEF CacheInv, Ordered
<1>10. /\ \A i \in 0..len-1 : sql_list_buf[i] \in mmap_buf_offset+1..mmap_buf_len \cup {Inside}
       /\ \A i, j \in 0..len-1 : i < j /\ sql_list_buf[i] # Inside /\ sql_list_buf[j] # Inside
                                  => sql_list_buf[i] < sql_list_buf[j]
  BY <1>2, <1>8 DEF BatchInv, Ordered
<1>11. /\ \A i \in 0..n-1 : new[i] \in 1..mmap_buf_offset \cup {Inside}
       /\ \A i \in n..(n + len - 1) : new[i] \in mmap_buf_offset+1..mmap_buf_len \cup {Inside}
  BY <1>6, <1>9, <1>10
<1>12. \A i \in 0..(n + len)-1 : i \in 0..n-1 \/ i \in n..(n + len - 1)
  BY <1>2
<1>13. \A i \in 0..(n + len)-1 : new[i] \in 1..mmap_buf_len \cup {Inside}
  <2>1. 1..mmap_buf_offset \subseteq 1..mmap_buf_len /\ mmap_buf_offset+1..mmap_buf_len \subseteq 1..mmap_buf_len
    BY <1>7
  <2> HIDE DEF new
  <2> QED BY <1>11, <1>12, <2>1
<1>14. ASSUME NEW i \in 0..(n + len)-1, NEW j \in 0..(n + len)-1, i < j, new[i] # Inside, new[j] # Inside
       PROVE  new[i] < new[j]
  <2>0. i \in Int /\ j \in Int
    BY <1>2
  <2>1. CASE j \in 0..n-1
    <3>1. i \in 0..n-1
      BY <1>2, <1>14, <2>0, <2>1
    <3>2. new[i] = old[i] /\ new[j] = old[j]
      BY <1>6, <2>1, <3>1
    <3> HIDE DEF new, old
    <3> QED BY <1>9, <1>14, <2>1, <3>1, <3>2
  <2>2. CASE i \in 0..n-1 /\ j \in n..(n + len - 1)
    <3>1. new[i] \in 1..mmap_buf_offset /\ new[j] \in mmap_buf_offset+1..mmap_buf_len
      BY <1>11, <1>14, <2>2
    <3> HIDE DEF new
    <3> QED BY <1>7, <3>1
  <2>3. CASE i \in n..(n + len - 1)
    <3>1. j \in n..(n + len - 1)
      BY <1>2, <1>14, <2>0, <2>3
    <3>2. /\ new[i] = sql_list_buf[i - n] /\ new[j] = sql_list_buf[j - n]
          /\ i - n \in 0..len-1 /\ j - n \in 0..len-1 /\ i - n < j - n
      BY <1>2, <1>6, <1>14, <2>0, <2>3, <3>1
    <3> HIDE DEF new
    <3> QED BY <1>10, <1>14, <3>2
  <2> QED BY <1>12, <2>1, <2>2, <2>3
<1> QED BY <1>13, <1>14

LEMMA CacheNext ==
  OffsetInv /\ FitsInv /\ BatchInv /\ CacheInv /\ [Next]_vars => CacheInv'
<1> SUFFICES ASSUME OffsetInv, FitsInv, BatchInv, CacheInv, [Next]_vars PROVE CacheInv'
  OBVIOUS
<1>0. TypeOK /\ pop_mem \in {0, 1} /\ cache_mem = 1 - pop_mem /\ mmap_buf_offset \in Nat /\ mmap_buf_len \in Nat
  <2>1. written \in Nat
    BY TypeFile, EndType DEF OffsetInv
  <2> HIDE DEF written
  <2> QED BY <2>1 DEF OffsetInv, TypeOK
<1>1. ASSUME UNCHANGED <<load, mem, cache_mem, cache_mem_length, mmap_buf_offset>>,
             (exec' \in Exchanging) <=> (exec \in Exchanging)
      PROVE  CacheInv'
  <2>1. CacheTo' = CacheTo
    BY <1>1 DEF CacheTo
  <2> QED BY <1>0, <1>1, <2>1, CacheKept
<1>2. CASE UNCHANGED vars
  BY <1>1, <1>2 DEF vars, shared, writer, cache, execv
<1>3. CASE Write
  BY <1>1, <1>3 DEF Write, shared, cache, execv
<1>4. CASE Restart
  <2>1. CacheTo' = 0
    BY <1>4 DEF Restart, CacheTo
  <2> QED BY <2>1, CacheNone
<1>5. CASE CachePoll \/ CacheOnward \/ CacheAround \/ CacheChoose
  BY <1>1, <1>5 DEF CachePoll, CacheOnward, CacheAround, CacheChoose, shared, writer, execv
<1>6. CASE CacheFill
  <2>1. /\ CopyBatch(pop_mem, pop_mem_length) /\ pop_mem_length \in Nat /\ HasBatch
        /\ UNCHANGED <<load, cache_mem, cache_mem_length, mmap_buf_offset, exec>>
    BY <1>6 DEF CacheFill, OffsetInv, TypeOK, HasBatch, writer, execv
  <2>2. mem'[1 - pop_mem] = mem[1 - pop_mem]
    BY <1>0, <2>1, Copied
  <2>3. CacheTo' = CacheTo /\ mem'[cache_mem'] = mem[cache_mem]
    BY <1>0, <2>1, <2>2 DEF CacheTo
  <2> QED BY <1>0, <2>1, <2>3, CacheKept
<1>7. CASE CacheMeasure
  BY <1>1, <1>7 DEF CacheMeasure, shared, writer, Exchanging
<1>8. CASE CachePublish
  <2>1. /\ UNCHANGED <<load, mem, cache_mem, cache_mem_length, exec>>
        /\ mmap_buf_offset' = mmap_buf_len /\ cacher # "poll"
    BY <1>8 DEF CachePublish, Advance, execv
  <2>2. mmap_buf_offset < mmap_buf_len
    BY <2>1 DEF OffsetInv, PaceInv
  <2>3. CacheTo' = CacheTo
    BY <2>1 DEF CacheTo
  <2> QED BY <1>0, <2>1, <2>2, <2>3, CacheKept
<1>9. CASE CacheQueue
  <2>1. CASE CacheFull
    <3>1. UNCHANGED <<shared, writer, mmap_buf_offset, execv>>
      BY <1>9, <2>1 DEF CacheQueue
    <3> QED BY <1>1, <3>1 DEF shared, writer, execv
  <2> QED BY <1>9, <2>1, CacheGrows
<1>10. CASE ExecLock \/ ExecWake \/ ExecRelock
  BY <1>1, <1>10 DEF ExecLock, ExecWake, ExecRelock, Take, Exchanging, writer, cache
<1>11. CASE ExecExchange \/ ExecRewind \/ ExecRelength \/ ExecEmptyCache
  <2>1. CacheTo' = 0
    BY <1>11 DEF ExecExchange, ExecRewind, ExecRelength, ExecEmptyCache, EmptyCache, CacheTo, Exchanging
  <2> QED BY <2>1, CacheNone
<1>12. CASE ExecClear \/ ExecExecute
  BY <1>1, <1>12 DEF ExecClear, ExecExecute, Exchanging, shared, writer, cache
<1>13. CASE SpuriousWakeup
  BY <1>1, <1>13 DEF SpuriousWakeup, Exchanging, shared, writer
<1> QED BY <1>2, <1>3, <1>4, <1>5, <1>6, <1>7, <1>8, <1>9, <1>10, <1>11, <1>12, <1>13
        DEF Next, CacheThread, ExecThread

LEMMA CacheImplied == TypeOK /\ CacheInv => CacheOrdered
<1> SUFFICES ASSUME TypeOK, CacheInv, Behind
             PROVE  LET c == mem[cache_mem] IN
                    /\ \A i \in 0..CacheTo-1 : c[i] # Zero
                    /\ \A i, j \in 0..CacheTo-1 : i < j /\ Inside \notin {c[i], c[j]} => c[i] < c[j]
  BY DEF CacheOrdered
<1>1. mmap_buf_offset \in Nat
  <2>1. written \in Nat
    BY TypeFile, EndType
  <2> HIDE DEF written
  <2> QED BY <2>1 DEF TypeOK
<1>2. Zero \notin 1..mmap_buf_offset \cup {Inside}
  BY <1>1 DEF Zero, Inside
<1> QED BY <1>2 DEF CacheInv, Ordered

\* The cache queue holds statements, each once and in the order written, for any statements and any
\* pace of a writer that stays behind the reader, while the races on pop go wrong as they may.
THEOREM CacheInOrder == Spec => []CacheOrdered
<1>1. Init => FitsInv
  BY SqlAssumption DEF Init, FitsInv, CacheFits
<1>2. Init => LengthInv /\ BatchInv
  BY DEF Init, LengthInv, BatchInv, HasBatch
<1>3. Init => CacheInv
  BY DEF Init, CacheInv, CacheTo, Exchanging, Ordered
<1>4. OffsetInv => TypeOK
  BY DEF OffsetInv
<1> QED BY <1>1, <1>2, <1>3, <1>4, OffsetAlways, FitsNext, LengthNext, BatchNext, CacheNext, CacheImplied,
           PTL DEF Spec
-----------------------------------------------------------------------------
(* Every statement is in one place *)

\* Cells a to b - 1 of a buffer hold statements of u units, one behind the other.
Strung(c, a, b, u) ==
  /\ a < b => c[a] # Inside
  /\ \A i \in a..b-1 : c[i] # Inside =>
       /\ i + u <= b
       /\ i + u < b => c[i + u] # Inside
       /\ \A j \in i+1..i+u-1 : c[j] = Inside

\* The statements in cells a to b - 1, and that none of them is there twice.
Held(c, a, b) == {c[i] : i \in a..b-1} \ {Inside}
Once(c, a, b) == \A i, j \in a..b-1 : c[i] = c[j] /\ c[i] # Inside => i = j

Elements(s) == {s[i] : i \in DOMAIN s}

\* The statements executed, in the executor's hand, in either queue and not yet read.
Done == Elements(executed)
InHand == IF exec = "execute" THEN {sql} ELSE {}
InPop == Held(mem[pop_mem], PopFrom, PopTo)
InCache == Held(mem[cache_mem], 0, CacheTo)
Unread == mmap_buf_offset+1..written

Regions ==
  /\ Strung(mem[pop_mem], PopFrom, PopTo, Size(1))
  /\ Strung(mem[cache_mem], 0, CacheTo, Size(1))

\* What cache_thread copied behind the pop queue is not touched until pop_mem_length says it is there.
QueueInv ==
  /\ Regions
  /\ cacher \in {"measure", "publish"} =>
       \A i \in 0..read_buf_len-1 : mem[pop_mem][pop_mem_length + i] = sql_list_buf[i]

\* The exchange of the two buffers, which the executor does without the lock of cache_thread, finds that
\* thread neither copying nor about to publish.
ThreadInv ==
  /\ exec # "undefined" /\ PopFrom <= PopTo
  /\ exec \in {"rewind", "relength", "empty cache", "clear", "relock"} => PopFrom < PopTo
  /\ exec = "exchange" => cache_mem_length > 0 /\ pop_mem_offset = pop_mem_length
  /\ exec = "relength" => pop_mem_offset = 0
  /\ cacher \in {"measure", "publish"} => exec \notin {"exchange"} \cup Exchanging
  /\ cacher = "publish" => at = pop_mem_length

\* The batch that goes to the cache queue, and the length that queue keeps when the exchange is over.
Coming == IF cacher \in {"queue", "waiting", "woken"} THEN read_buf_len ELSE 0
CacheNow == IF exec = "empty cache" THEN 0 ELSE cache_mem_length

\* The queues have room: together they end no further than what was read and, without restarts, as long as
\* a batch can go to the pop queue the cache queue holds at most one statement.
RoomInv ==
  /\ PopTo <= MaxPush /\ CacheTo <= MaxPush
  /\ PopTo + CacheTo <= load.upto[mmap_buf_offset]
  /\ cacher \in {"fill", "measure", "publish"} => PopTo + read_buf_len <= MaxPush
  /\ cacher = "fill" => CacheTo + read_buf_len <= MaxPush
  /\ load.restarts = 0 =>
       /\ pop_mem_length = 0 \/ pop_mem_length >= Size(1)
       /\ cache_mem_length = 0 \/ cache_mem_length >= Size(1)
       /\ pop_mem_length < MaxPush - Size(1) => CacheNow + Coming <= Size(1)
       /\ pop_mem_length = 0 /\ Size(1) < MaxPush => CacheNow + Coming = 0

\* The five sets cover what was written and, until a restart, no statement is in two of them or in one twice.
PlaceInv ==
  /\ Done \cup InHand \cup InPop \cup InCache \cup Unread = 1..written
  /\ restarts = 0 =>
       /\ Once(executed, 1, Len(executed) + 1)
       /\ Once(mem[pop_mem], PopFrom, PopTo) /\ Once(mem[cache_mem], 0, CacheTo)
       /\ Done \cap InHand = {} /\ (Done \cup InHand) \cap InPop = {}
       /\ (Done \cup InHand \cup InPop) \cap InCache = {}
       /\ Done \cup InHand \cup InPop \cup InCache \subseteq 1..mmap_buf_offset

KeptInv == Orderly /\ ~collided => ThreadInv /\ RoomInv /\ QueueInv /\ PlaceInv

\* Strung looks only at the cells of its range.
LEMMA StrungSame ==
  ASSUME NEW c, NEW d, NEW a \in Nat, NEW b \in Nat, NEW u \in Nat, \A i \in a..b-1 : d[i] = c[i],
         Strung(c, a, b, u)
  PROVE  Strung(d, a, b, u)
<1>1. ASSUME NEW i \in a..b-1, d[i] # Inside
      PROVE  /\ i + u <= b
             /\ i + u < b => d[i + u] # Inside
             /\ \A j \in i+1..i+u-1 : d[j] = Inside
  <2>1. /\ i + u <= b
        /\ i + u < b => c[i + u] # Inside
        /\ \A j \in i+1..i+u-1 : c[j] = Inside
    BY <1>1 DEF Strung
  <2>2. i + u < b => i + u \in a..b-1
    OBVIOUS
  <2>3. \A j \in i+1..i+u-1 : j \in a..b-1
    BY <2>1
  <2> QED BY <2>1, <2>2, <2>3
<1>2. a < b => a \in a..b-1
  OBVIOUS
<1> QED BY <1>1, <1>2 DEF Strung

\* So do Held and Once.
LEMMA HeldSame ==
  ASSUME NEW c, NEW d, NEW a, NEW b, \A i \in a..b-1 : d[i] = c[i]
  PROVE  Held(d, a, b) = Held(c, a, b) /\ (Once(c, a, b) => Once(d, a, b))
<1>1. Held(d, a, b) = Held(c, a, b)
  BY DEF Held
<1> QED BY <1>1 DEF Once

\* An empty range.
LEMMA HeldNone ==
  ASSUME NEW c, NEW a \in Nat, NEW u
  PROVE  Strung(c, a, a, u) /\ Held(c, a, a) = {} /\ Once(c, a, a)
<1>1. a..a-1 = {} /\ ~(a < a)
  OBVIOUS
<1> QED BY <1>1 DEF Strung, Held, Once

\* Taking the first statement of a range.
LEMMA TakeFront ==
  ASSUME NEW c, NEW a \in Nat, NEW b \in Nat, NEW u \in Nat \ {0}, Strung(c, a, b, u), a < b
  PROVE  /\ c[a] # Inside /\ a + u <= b /\ Strung(c, a + u, b, u)
         /\ Held(c, a, b) = {c[a]} \cup Held(c, a + u, b)
         /\ Once(c, a, b) => Once(c, a + u, b) /\ c[a] \notin Held(c, a + u, b)
<1>1. a \in a..b-1 /\ c[a] # Inside
  BY DEF Strung
<1>2. /\ a + u <= b
      /\ a + u < b => c[a + u] # Inside
      /\ \A j \in a+1..a+u-1 : c[j] = Inside
  BY <1>1 DEF Strung
<1>3. \A i \in a+u..b-1 : i \in a..b-1 /\ i # a
  OBVIOUS
<1>4. Strung(c, a + u, b, u)
  BY <1>2, <1>3 DEF Strung
<1>5. Held(c, a, b) = {c[a]} \cup Held(c, a + u, b)
  <2>1. \A i \in a..b-1 : i = a \/ i \in a+1..a+u-1 \/ i \in a+u..b-1
    OBVIOUS
  <2> QED BY <1>1, <1>2, <1>3, <2>1 DEF Held
<1>6. Once(c, a, b) => Once(c, a + u, b) /\ c[a] \notin Held(c, a + u, b)
  BY <1>1, <1>3 DEF Once, Held
<1> QED BY <1>1, <1>2, <1>4, <1>5, <1>6

\* A buffer d in which l cells of s follow cells a to b - 1 of c.
LEMMA JoinBack ==
  ASSUME NEW c, NEW d, NEW s, NEW a \in Nat, NEW b \in Nat, NEW l \in Nat, NEW u \in Nat \ {0}, a <= b,
         Strung(c, a, b, u), Strung(s, 0, l, u),
         \A i \in a..b-1 : d[i] = c[i], \A i \in 0..l-1 : d[b + i] = s[i]
  PROVE  /\ Strung(d, a, b + l, u)
         /\ Held(d, a, b + l) = Held(c, a, b) \cup Held(s, 0, l)
         /\ Once(c, a, b) /\ Once(s, 0, l) /\ Held(c, a, b) \cap Held(s, 0, l) = {} => Once(d, a, b + l)
<1>1. ASSUME NEW i \in a..b+l-1
      PROVE  \/ i \in a..b-1 /\ d[i] = c[i]
             \/ i \notin a..b-1 /\ i - b \in 0..l-1 /\ d[i] = s[i - b]
  <2>1. CASE i < b
    <3>1. i \in a..b-1
      BY <2>1
    <3> QED BY <3>1
  <2>2. CASE i >= b
    <3>1. i - b \in 0..l-1 /\ b + (i - b) = i /\ i \notin a..b-1
      BY <2>2
    <3>2. d[b + (i - b)] = s[i - b]
      BY <3>1
    <3> QED BY <3>1, <3>2
  <2> QED BY <2>1, <2>2
<1>2. \A i \in a..b-1 : i \in a..b+l-1
  OBVIOUS
<1>3. \A i \in 0..l-1 : b + i \in a..b+l-1
  OBVIOUS
<1>4. Strung(d, a, b + l, u)
  <2>1. ASSUME a < b + l PROVE d[a] # Inside
    <3>1. CASE a < b
      <4>1. a \in a..b-1 /\ c[a] # Inside
        BY <3>1 DEF Strung
      <4> QED BY <4>1
    <3>2. CASE a = b
      <4>1. 0 < l /\ 0 \in 0..l-1 /\ b + 0 = a
        BY <2>1, <3>2
      <4>2. s[0] # Inside /\ d[b + 0] = s[0]
        BY <4>1 DEF Strung
      <4> QED BY <4>1, <4>2
    <3> QED BY <3>1, <3>2
  <2>2. ASSUME NEW i \in a..b+l-1, d[i] # Inside
        PROVE  /\ i + u <= b + l
               /\ i + u < b + l => d[i + u] # Inside
               /\ \A j \in i+1..i+u-1 : d[j] = Inside
    <3>1. CASE i \in a..b-1 /\ d[i] = c[i]
      <4>1. /\ i + u <= b
            /\ i + u < b => c[i + u] # Inside
            /\ \A j \in i+1..i+u-1 : c[j] = Inside
        BY <2>2, <3>1 DEF Strung
      <4>2. \A j \in i+1..i+u-1 : j \in a..b-1
        BY <4>1
      <4>3. ASSUME i + u < b + l PROVE d[i + u] # Inside
        <5>1. CASE i + u < b
          <6>1. i + u \in a..b-1
            BY <5>1
          <6> QED BY <4>1, <5>1, <6>1
        <5>2. CASE i + u = b
          <6>1. 0 < l /\ 0 \in 0..l-1 /\ b + 0 = i + u
            BY <4>3, <5>2
          <6>2. s[0] # Inside /\ d[b + 0] = s[0]
            BY <6>1 DEF Strung
          <6> QED BY <6>1, <6>2
        <5> QED BY <4>1, <5>1, <5>2
      <4> QED BY <4>1, <4>2, <4>3
    <3>2. CASE i - b \in 0..l-1 /\ d[i] = s[i - b]
      <4> DEFINE k == i - b
      <4>1. /\ k + u <= l
            /\ k + u < l => s[k + u] # Inside
            /\ \A j \in k+1..k+u-1 : s[j] = Inside
        BY <2>2, <3>2 DEF Strung
      <4>2. ASSUME NEW j \in i+1..i+u-1 PROVE d[j] = Inside
        <5>1. j - b \in k+1..k+u-1 /\ j - b \in 0..l-1 /\ b + (j - b) = j
          BY <3>2, <4>1
        <5>2. d[b + (j - b)] = s[j - b] /\ s[j - b] = Inside
          BY <4>1, <5>1
        <5> QED BY <5>1, <5>2
      <4>3. ASSUME i + u < b + l PROVE d[i + u] # Inside
        <5>1. k + u < l /\ k + u \in 0..l-1 /\ b + (k + u) = i + u
          BY <3>2, <4>3
        <5>2. d[b + (k + u)] = s[k + u]
          BY <5>1
        <5> QED BY <4>1, <5>1, <5>2
      <4>4. i + u <= b + l
        BY <3>2, <4>1
      <4> QED BY <4>2, <4>3, <4>4
    <3> QED BY <1>1, <3>1, <3>2
  <2> QED BY <2>1, <2>2 DEF Strung
<1>5. Held(d, a, b + l) = Held(c, a, b) \cup Held(s, 0, l)
  BY <1>1, <1>2, <1>3 DEF Held
<1>6. ASSUME Once(c, a, b), Once(s, 0, l), Held(c, a, b) \cap Held(s, 0, l) = {} PROVE Once(d, a, b + l)
  <2> SUFFICES ASSUME NEW i \in a..b+l-1, NEW j \in a..b+l-1, d[i] = d[j], d[i] # Inside PROVE i = j
    BY DEF Once
  <2>1. CASE i \in a..b-1 /\ j \in a..b-1
    BY <1>1, <1>6, <2>1 DEF Once
  <2>2. CASE i \notin a..b-1 /\ j \notin a..b-1
    <3>1. i - b \in 0..l-1 /\ j - b \in 0..l-1 /\ s[i - b] = s[j - b] /\ s[i - b] # Inside
      BY <1>1, <2>2
    <3>2. i - b = j - b
      BY <1>6, <3>1 DEF Once
    <3> QED BY <3>2
  <2>3. CASE ~(i \in a..b-1 <=> j \in a..b-1)
    <3>1. d[i] \in Held(c, a, b) /\ d[i] \in Held(s, 0, l)
      BY <1>1, <2>3 DEF Held
    <3> QED BY <1>6, <3>1
  <2> QED BY <2>1, <2>2, <2>3
<1> QED BY <1>4, <1>5, <1>6

\* What an orderly load is: statements of one length, written one at a time behind the reader.
LEMMA OrderlyLoad ==
  ASSUME OffsetInv, Orderly
  PROVE  /\ MaxPush \in Nat /\ Size(1) \in Nat \ {0} /\ Size(1) <= MaxPush /\ load.restarts \in Nat
         /\ Behind /\ Uniform /\ load.ahead = Size(1)
         /\ \A n \in 1..written : Size(n) = Size(1)
         /\ \A n \in 0..written : load.upto[n] \in Nat /\ (load.restarts > 0 => load.upto[n] <= MaxPush)
<1>0. FileType /\ load \in Loads
  BY TypeFile DEF OffsetInv, TypeOK
<1>1. /\ MaxPush \in Nat /\ load.restarts \in Nat /\ load.last \in Nat /\ load.last > 0
      /\ written \in Nat /\ written <= load.last /\ load.cap \in Nat
  BY <1>0, SqlAssumption, LoadType, EndType DEF FileType
<1>2. Size(1) \in 1..load.cap-1
  BY <1>0, <1>1, LoadType
<1>3. \A n \in 1..written : Size(n) = Size(1)
  BY <1>1 DEF Orderly, Uniform
<1>4. ASSUME NEW n \in 0..written
      PROVE  load.upto[n] \in Nat /\ (load.restarts > 0 => load.upto[n] <= MaxPush)
  <2>1. n \in 0..load.last /\ load.last \in 0..load.last /\ n <= load.last
    BY <1>1
  <2>2. load.upto[n] \in Nat /\ load.upto[load.last] \in Nat /\ load.upto[n] <= load.upto[load.last]
    BY <1>0, <2>1, LoadType
  <2>3. load.restarts > 0 => load.upto[load.last] <= MaxPush
    BY DEF Orderly
  <2> QED BY <1>1, <2>2, <2>3
<1> QED BY <1>1, <1>2, <1>3, <1>4 DEF Orderly

\* Under an orderly load a batch is all there is.
LEMMA BatchIsAll ==
  ASSUME OffsetInv, LengthInv, BatchInv, Orderly, cacher \notin {"poll", "onward", "around"}
  PROVE  /\ cacher # "undefined" /\ mmap_buf_offset < mmap_buf_len
         /\ read_buf_len = Units(mmap_buf_offset, mmap_buf_len)
         /\ read_buf_len \in Size(1)..MaxPush /\ (load.restarts = 0 => read_buf_len = Size(1))
<1> DEFINE k == mmap_buf_offset  e == mmap_buf_len
<1>1. /\ FileType /\ k \in 0..written /\ e \in k+1..written /\ written \in Nat
      /\ MaxPush \in Nat /\ Size(1) \in Nat \ {0} /\ Size(1) <= MaxPush /\ load.restarts \in Nat
      /\ Behind /\ Uniform /\ load.ahead = Size(1)
  BY Window, OrderlyLoad, EndType
<1>2. k \in Int /\ e \in 1..written /\ k < e /\ e <= written
  BY <1>1
<1>3. Units(k, e) \in Nat /\ Size(1) <= Units(k, e)
  <2>1. /\ Units(k, e - 1) \in Nat /\ Units(k, e) \in Nat
        /\ Units(k, e - 1) + Size(e) = Units(k, e)
    <3>1. e - 1 \in 0..written /\ k <= e - 1 /\ e \in 0..written
      BY <1>1, <1>2
    <3> HIDE DEF k, e
    <3> QED BY <1>1, <1>2, <3>1, UnitsRise
  <2>2. Size(e) = Size(1)
    BY <1>2, OrderlyLoad
  <2> QED BY <1>1, <2>1, <2>2
<1>4. Units(k, e) <= MaxPush /\ (load.restarts = 0 => Units(k, e) = Size(1))
  <2>1. CASE restarts = 0
    <3>1. k = read_word /\ Units(read_word, written) <= load.ahead
      BY <2>1 DEF OffsetInv, PaceInv
    <3>2. Units(k, e) <= Units(k, written) /\ Units(k, written) \in Int
      <4>1. e \in 0..written /\ written \in 0..written
        BY <1>1, <1>2
      <4> HIDE DEF k, e
      <4> QED BY <1>1, <1>2, <4>1, UnitsRise
    <3> QED BY <1>1, <1>3, <3>1, <3>2
  <2>2. CASE restarts # 0
    <3>1. load.restarts > 0
      BY <1>1, <2>2 DEF OffsetInv, TypeOK
    <3>2. load.upto[e] <= MaxPush /\ load.upto[e] \in Nat /\ load.upto[k] \in Nat
      BY <1>1, <1>2, <3>1, OrderlyLoad
    <3> QED BY <1>1, <3>1, <3>2 DEF Units
  <2> QED BY <2>1, <2>2
<1>5. BatchIsWhole
  BY BatchImplied
<1>6. /\ cacher # "undefined" /\ read_buf_len \in Nat
      /\ \A m \in {Units(k, n) : n \in k..e} \cap 0..MaxPush : m <= read_buf_len
      /\ \E n \in k..e : read_buf_len = Units(k, n)
  BY <1>1, <1>5 DEF BatchIsWhole
<1>7. Units(k, e) <= read_buf_len
  <2>1. Units(k, e) \in {Units(k, n) : n \in k..e} \cap 0..MaxPush
    BY <1>1, <1>2, <1>3, <1>4
  <2> QED BY <1>6, <2>1
<1>8. read_buf_len <= Units(k, e)
  <2>1. PICK n \in k..e : read_buf_len = Units(k, n)
    BY <1>6
  <2>2. n \in 0..written /\ e \in 0..written /\ n <= e
    BY <1>1, <1>2
  <2>3. Units(k, n) <= Units(k, e)
    <3> HIDE DEF k, e
    <3> QED BY <1>1, <2>2, UnitsRise
  <2> QED BY <2>1, <2>3
<1> QED BY <1>1, <1>2, <1>3, <1>4, <1>6, <1>7, <1>8

LEMMA BatchStrung ==
  ASSUME OffsetInv, LengthInv, BatchInv, Orderly, HasBatch
  PROVE  /\ Strung(sql_list_buf, 0, read_buf_len, Size(1))
         /\ Held(sql_list_buf, 0, read_buf_len) = mmap_buf_offset+1..mmap_buf_len
         /\ Once(sql_list_buf, 0, read_buf_len)
<1> DEFINE k == mmap_buf_offset  e == mmap_buf_len  c == sql_list_buf  u == Size(1)  l == read_buf_len
<1>0. cacher \notin {"poll", "onward", "around"}
  BY DEF HasBatch
<1>1. /\ FileType /\ k \in 0..written /\ e \in k+1..written /\ written \in Nat
      /\ u \in Nat \ {0} /\ Behind /\ Uniform /\ load.ahead <= MaxPush
  BY <1>0, Window, OrderlyLoad, EndType
<1>2. k \in Int /\ k < e /\ e <= written /\ \A n \in k+1..e : n \in 1..written /\ n \in 0..written /\ n - 1 \in 0..written
  BY <1>1
<1>3. l = Units(k, e) /\ l \in Nat
  <2>1. l \in u..MaxPush /\ l = Units(k, e) /\ MaxPush \in Nat
    BY <1>0, BatchIsAll, OrderlyLoad
  <2> QED BY <1>1, <2>1
<1>4. DOMAIN c = 0..l-1
  BY DEF OffsetInv, TypeOK
<1>5. ASSUME NEW i \in 0..l-1
      PROVE  \/ c[i] \in k+1..e /\ Units(k, c[i] - 1) = i
             \/ c[i] = Inside /\ \A m \in k+1..e : Units(k, m - 1) # i
  <2>1. Whole(c)
    BY <1>1 DEF BatchInv
  <2> QED BY <1>4, <2>1 DEF Whole
<1>6. /\ \A n \in 0..written : k <= n => Units(k, n) \in Nat
      /\ \A m, n \in 0..written : m <= n <=> Units(k, m) <= Units(k, n)
      /\ \A m, n \in 0..written : m < n <=> Units(k, m) < Units(k, n)
      /\ \A n \in 1..written : Units(k, n - 1) + Size(n) = Units(k, n)
      /\ Units(k, k) = 0
  <2> HIDE DEF k
  <2> QED BY <1>1, UnitsRise
<1>7. \A n \in 1..written : Size(n) = u
  BY OrderlyLoad
<1>8. ASSUME NEW n \in k+1..e
      PROVE  /\ Units(k, n - 1) \in 0..l-1 /\ c[Units(k, n - 1)] = n
             /\ Units(k, n) = Units(k, n - 1) + u /\ Units(k, n) <= l
  <2>1. n - 1 \in 0..written /\ n \in 0..written /\ n \in 1..written /\ k <= n - 1 /\ n <= e /\ e \in 0..written /\ n - 1 < n
    BY <1>1, <1>2
  <2>2. Units(k, n) = Units(k, n - 1) + u /\ Units(k, n - 1) \in Nat /\ Units(k, n) <= l
    BY <1>1, <1>3, <1>6, <1>7, <2>1
  <2>3. Units(k, n - 1) \in 0..l-1
    BY <1>1, <1>3, <2>2
  <2>4. c[Units(k, n - 1)] \in k+1..e /\ Units(k, c[Units(k, n - 1)] - 1) = Units(k, n - 1)
    BY <1>5, <2>3
  <2>5. c[Units(k, n - 1)] - 1 = n - 1
    <3> DEFINE m == c[Units(k, n - 1)] - 1
    <3>1. m \in 0..written /\ m \in Int /\ n - 1 \in Int
      BY <1>2, <2>1, <2>4
    <3>2. m <= n - 1 /\ n - 1 <= m
      BY <1>6, <2>1, <2>4, <3>1, <2>2
    <3> QED BY <3>1, <3>2
  <2>6. c[Units(k, n - 1)] \in Int /\ n \in Int
    BY <1>1, <2>4
  <2> HIDE DEF k, e, c
  <2> QED BY <2>2, <2>3, <2>5, <2>6
<1>9. \A n \in k+1..e : n # Inside
  BY <1>1 DEF Inside
<1>10. Held(c, 0, l) = k+1..e
  <2>1. ASSUME NEW n \in k+1..e PROVE n \in Held(c, 0, l)
    BY <1>8, <1>9 DEF Held
  <2>2. ASSUME NEW n \in Held(c, 0, l) PROVE n \in k+1..e
    BY <1>5 DEF Held
  <2> QED BY <2>1, <2>2
<1>11. Once(c, 0, l)
  BY <1>5 DEF Once
<1>12. Strung(c, 0, l, u)
  <2>1. ASSUME 0 < l PROVE c[0] # Inside
    <3>1. PICK n \in k+1..e : n - 1 = k
      <4>1. PICK n \in Int : n = k + 1
        BY <1>2
      <4>2. n \in k+1..e /\ n - 1 = k
        BY <1>1, <1>2, <4>1
      <4> QED BY <4>2
    <3>2. c[Units(k, n - 1)] = n
      BY <1>8
    <3> QED BY <1>6, <1>9, <3>1, <3>2
  <2>2. ASSUME NEW i \in 0..l-1, c[i] # Inside
        PROVE  /\ i + u <= l
               /\ i + u < l => c[i + u] # Inside
               /\ \A j \in i+1..i+u-1 : c[j] = Inside
    <3> DEFINE n == c[i]
    <3>1. n \in k+1..e /\ Units(k, n - 1) = i /\ Units(k, n) = i + u /\ i + u <= l
      BY <1>5, <1>8, <2>2
    <3>2. ASSUME i + u < l PROVE c[i + u] # Inside
      <4>1. n \in 0..written /\ e \in 0..written /\ n \in Int
        BY <1>1, <1>2, <3>1
      <4>2. n < e
        BY <1>3, <1>6, <3>1, <3>2, <4>1
      <4>3. PICK m \in k+1..e : m - 1 = n
        <5>1. PICK m \in Int : m = n + 1
          BY <4>1
        <5>2. m \in k+1..e /\ m - 1 = n
          BY <1>1, <3>1, <4>1, <4>2, <5>1
        <5> QED BY <5>2
      <4>4. c[Units(k, m - 1)] = m
        BY <1>8
      <4> QED BY <1>9, <3>1, <4>3, <4>4
    <3>3. ASSUME NEW j \in i+1..i+u-1 PROVE c[j] = Inside
      <4>1. j \in 0..l-1 /\ i < j /\ j < i + u
        BY <1>1, <1>3, <3>1
      <4>2. ASSUME c[j] \in k+1..e, Units(k, c[j] - 1) = j PROVE FALSE
        <5> DEFINE m == c[j] - 1
        <5>1. m \in 0..written /\ m \in Int /\ n - 1 \in 0..written /\ n \in 0..written /\ n \in Int
          BY <1>2, <3>1, <4>2
        <5>2. n - 1 < m /\ m < n
          BY <1>6, <3>1, <4>1, <4>2, <5>1
        <5> QED BY <5>1, <5>2
      <4> QED BY <1>5, <4>1, <4>2
    <3> QED BY <3>1, <3>2, <3>3
  <2> QED BY <2>1, <2>2 DEF Strung
<1> QED BY <1>10, <1>11, <1>12

\* The types of the queues and of the batch, as the lemmas below use them.
LEMMA QueueTypes ==
  ASSUME OffsetInv
  PROVE  /\ pop_mem_offset \in Nat /\ pop_mem_length \in Nat /\ cache_mem_length \in Nat
         /\ PopFrom \in Nat /\ PopTo \in Nat /\ CacheTo \in Nat /\ at \in Nat /\ read_buf_len \in Nat
         /\ written \in Nat /\ mmap_buf_offset \in 0..written /\ pop_mem \in {0, 1} /\ cache_mem = 1 - pop_mem
         /\ cacher \in CachePC /\ exec \in ExecPC
<1>1. written \in Nat
  BY TypeFile, EndType DEF OffsetInv
<1> HIDE DEF written
<1> QED BY <1>1 DEF OffsetInv, TypeOK, PopFrom, PopTo, CacheTo

\* A statement is taken where pop begins.
LEMMA TakeFirst ==
  ASSUME OffsetInv, Orderly, ThreadInv, RoomInv, QueueInv, PlaceInv,
         exec \in {"lock", "woken", "relock"}, exec # "relock" => ~PopEmpty, Take
  PROVE  /\ PopFrom = pop_mem_offset /\ PopTo = pop_mem_length /\ PopFrom + Size(1) <= PopTo
         /\ exec' = "execute" /\ sql' = mem[pop_mem][PopFrom] /\ sql' \in 1..written
         /\ pop_mem_offset' = PopFrom + Size(1)
<1>1. PopFrom = pop_mem_offset /\ PopTo = pop_mem_length
  BY DEF PopFrom, PopTo
<1>2. /\ PopFrom \in Nat /\ PopTo \in Nat /\ MaxPush \in Nat /\ Size(1) \in Nat \ {0} /\ written \in Nat
      /\ PopFrom <= PopTo /\ PopTo <= MaxPush /\ Strung(mem[pop_mem], PopFrom, PopTo, Size(1))
  BY QueueTypes, OrderlyLoad DEF ThreadInv, RoomInv, QueueInv, Regions
<1>3. PopFrom < PopTo
  <2>1. CASE exec = "relock"
    BY <2>1 DEF ThreadInv
  <2>2. CASE exec # "relock"
    BY <1>1, <1>2, <2>2 DEF PopEmpty
  <2> QED BY <2>1, <2>2
<1>4. mem[pop_mem][PopFrom] # Inside /\ PopFrom + Size(1) <= PopTo
  BY <1>2, <1>3, TakeFront
<1>5. mem[pop_mem][PopFrom] \in 1..written
  <2>1. PopFrom \in PopFrom..PopTo-1
    BY <1>2, <1>3
  <2>2. mem[pop_mem][PopFrom] \in InPop
    BY <1>4, <2>1 DEF InPop, Held
  <2> QED BY <2>2 DEF PlaceInv
<1>6. PopFrom \in Cells
  BY <1>2, <1>3 DEF Cells
<1>7. /\ sql' = mem[pop_mem][PopFrom] /\ exec' = "execute"
      /\ pop_mem_offset' = PopFrom + Size(mem[pop_mem][PopFrom])
  BY <1>1, <1>4, <1>6 DEF Take
<1>8. Size(mem[pop_mem][PopFrom]) = Size(1)
  BY <1>5, OrderlyLoad
<1> QED BY <1>1, <1>4, <1>5, <1>7, <1>8

\* The history of the copies: it is never forgotten, and where it stays clear the copy found no
\* exchange under way.
LEMMA NotCollided ==
  ASSUME [Next]_vars, ~collided'
  PROVE  ~collided /\ (CacheFill => exec \notin {"exchange"} \cup Exchanging)
<1>1. CASE CacheFill
  BY <1>1 DEF CacheFill
<1>2. CASE ~CacheFill
  <2>1. collided' = collided
    BY <1>2 DEF Next, vars, writer, Write, Restart, CacheThread, CachePoll, CacheOnward, CacheAround, CacheChoose,
                CacheMeasure, CachePublish, CacheQueue, Advance, ExecThread, ExecLock, ExecWake, ExecExchange,
                ExecRewind, ExecRelength, ExecEmptyCache, ExecClear, ExecRelock, ExecExecute, SpuriousWakeup
  <2> QED BY <1>2, <2>1
<1> QED BY <1>1, <1>2

\* The places of the two threads, step by step.
LEMMA ThreadNext ==
  ASSUME OffsetInv, Orderly, ~collided', ThreadInv, RoomInv, QueueInv, PlaceInv, [Next]_vars
  PROVE  ThreadInv'
<1>0. /\ pop_mem_offset \in Nat /\ pop_mem_length \in Nat /\ cache_mem_length \in Nat
      /\ read_buf_len \in Nat /\ Size(1) \in Nat \ {0}
  BY QueueTypes, OrderlyLoad
<1>1. ASSUME UNCHANGED <<pop_mem_offset, pop_mem_length, cache_mem_length, exec>>,
             \/ UNCHANGED <<cacher, at>>
             \/ cacher' \notin {"measure", "publish"}
      PROVE  ThreadInv'
  BY <1>1 DEF ThreadInv, PopFrom, PopTo, Exchanging
<1>2. CASE UNCHANGED vars
  BY <1>1, <1>2 DEF vars, shared, cache, execv
<1>3. CASE Write
  BY <1>1, <1>3 DEF Write, shared, cache, execv
<1>4. CASE Restart
  <2>1. exec' = "lock" /\ cacher' = "poll" /\ PopFrom' = 0 /\ PopTo' = 0
    BY <1>4 DEF Restart, PopFrom, PopTo
  <2>2. PopFrom' <= PopTo'
    BY <2>1
  <2> QED BY <2>1, <2>2 DEF ThreadInv, Exchanging
<1>5. CASE CachePoll
  <2>1. cacher' \notin {"measure", "publish"} /\ UNCHANGED <<shared, exec>>
    BY <1>5 DEF CachePoll, execv
  <2> QED BY <1>1, <2>1 DEF shared
<1>6. CASE CacheOnward \/ CacheAround \/ CacheChoose
  <2>1. cacher' \notin {"measure", "publish"} /\ UNCHANGED <<shared, exec>>
    BY <1>6 DEF CacheOnward, CacheAround, CacheChoose, NextLength, execv
  <2> QED BY <1>1, <2>1 DEF shared
<1>7. CASE CacheFill
  BY <1>0, <1>7, NotCollided DEF CacheFill, ThreadInv, PopFrom, PopTo, Exchanging, execv
<1>8. CASE CacheMeasure
  BY <1>0, <1>8 DEF CacheMeasure, ThreadInv, PopFrom, PopTo, Exchanging, shared
<1>9. CASE CachePublish
  <2>1. /\ exec \notin {"exchange"} \cup Exchanging /\ at = pop_mem_length
        /\ pop_mem_length' = at + read_buf_len /\ cacher' = "poll"
        /\ UNCHANGED <<pop_mem_offset, cache_mem_length, exec>>
    BY <1>9 DEF CachePublish, Advance, ThreadInv, execv
  <2>2. /\ PopFrom = pop_mem_offset /\ PopTo = pop_mem_length
        /\ PopFrom' = pop_mem_offset /\ PopTo' = pop_mem_length + read_buf_len
    BY <2>1 DEF PopFrom, PopTo, Exchanging
  <2>3. PopFrom <= PopTo /\ (exec \in {"clear", "relock"} => PopFrom < PopTo) /\ exec # "undefined"
    BY DEF ThreadInv
  <2>4. PopFrom' <= PopTo' /\ (exec \in {"clear", "relock"} => PopFrom' < PopTo')
    BY <1>0, <2>2, <2>3
  <2> QED BY <2>1, <2>3, <2>4 DEF ThreadInv, Exchanging
<1>10. CASE CacheQueue
  <2>1. CASE CacheFull
    BY <1>1, <1>10, <2>1 DEF CacheQueue, shared, execv
  <2>2. CASE ~CacheFull
    <3>1. /\ exec \notin Exchanging /\ cache_mem_length' = cache_mem_length + read_buf_len /\ cacher' = "poll"
          /\ UNCHANGED <<pop_mem_offset, pop_mem_length, exec>>
      BY <1>10, <2>2 DEF CacheQueue, SwapLockFree, Advance, execv
    <3>2. PopFrom' = PopFrom /\ PopTo' = PopTo
      BY <3>1 DEF PopFrom, PopTo, Exchanging
    <3>3. cache_mem_length > 0 => cache_mem_length' > 0
      BY <1>0, <3>1
    <3> QED BY <3>1, <3>2, <3>3 DEF ThreadInv
  <2> QED BY <2>1, <2>2
<1>11. CASE ExecLock \/ ExecWake \/ ExecRelock
  <2>1. /\ exec \in {"lock", "woken", "relock"} /\ PopLockFree
        /\ UNCHANGED <<pop_mem_length, cache_mem_length, cacher, at>>
    BY <1>11 DEF ExecLock, ExecWake, ExecRelock, cache
  <2>2. CASE Take /\ (exec # "relock" => ~PopEmpty)
    <3>1. /\ PopFrom = pop_mem_offset /\ PopTo = pop_mem_length /\ PopFrom + Size(1) <= PopTo
          /\ exec' = "execute" /\ pop_mem_offset' = PopFrom + Size(1)
      BY <2>1, <2>2, TakeFirst
    <3> QED BY <1>0, <2>1, <3>1 DEF ThreadInv, PopFrom, PopTo, Exchanging
  <2>3. CASE ~(Take /\ (exec # "relock" => ~PopEmpty))
    <3>1. /\ exec # "relock" /\ PopEmpty /\ UNCHANGED pop_mem_offset
          /\ exec' = "waiting" \/ (exec' = "exchange" /\ cache_mem_length # 0)
      BY <1>11, <2>3 DEF ExecLock, ExecWake, ExecRelock
    <3>2. pop_mem_offset = pop_mem_length
      <4>1. PopFrom = pop_mem_offset /\ PopTo = pop_mem_length
        BY <2>1 DEF PopFrom, PopTo
      <4>2. pop_mem_offset <= pop_mem_length
        BY <4>1 DEF ThreadInv
      <4> QED BY <1>0, <3>1, <4>2 DEF PopEmpty
    <3>3. PopFrom' = PopTo' /\ pop_mem_offset' = pop_mem_length' /\ PopTo' \in Nat
      BY <1>0, <2>1, <3>1, <3>2 DEF PopFrom, PopTo
    <3>4. cacher' \notin {"measure", "publish"}
      BY <2>1 DEF PopLockFree
    <3>5. exec' = "exchange" => cache_mem_length' > 0
      BY <1>0, <2>1, <3>1
    <3>6. PopFrom' <= PopTo'
      BY <3>3
    <3> QED BY <3>1, <3>4, <3>5, <3>3, <3>6 DEF ThreadInv
  <2> QED BY <2>2, <2>3
<1>12. CASE ExecExchange \/ ExecRewind \/ ExecRelength
  <2>1. /\ exec \in {"exchange", "rewind", "relength"} /\ exec' \in {"rewind", "relength", "empty cache"}
        /\ UNCHANGED <<cacher, at, cache_mem_length>>
        /\ exec' = "rewind" \/ pop_mem_offset' = 0
    BY <1>12 DEF ExecExchange, ExecRewind, Rewind, ExecRelength, ThreadInv, cache
  <2>2. /\ cacher \notin {"measure", "publish"}
        /\ cache_mem_length > 0
    BY <1>0, <2>1 DEF ThreadInv, Exchanging, PopFrom, PopTo
  <2>3. PopFrom' = 0 /\ PopTo' = cache_mem_length
    BY <1>12, <2>1 DEF ExecExchange, ExecRewind, ExecRelength, PopFrom, PopTo
  <2>4. PopFrom' < PopTo' /\ PopFrom' <= PopTo'
    BY <1>0, <2>2, <2>3
  <2> QED BY <2>1, <2>2, <2>4 DEF ThreadInv
<1>13. CASE ExecEmptyCache \/ ExecClear \/ ExecExecute
  BY <1>0, <1>13 DEF ExecEmptyCache, ExecClear, ExecExecute, EmptyCache, ThreadInv, PopFrom, PopTo, Exchanging, shared, cache
<1>14. CASE SpuriousWakeup
  BY <1>0, <1>14 DEF SpuriousWakeup, ThreadInv, PopFrom, PopTo, Exchanging, shared
<1> QED BY <1>2, <1>3, <1>4, <1>5, <1>6, <1>7, <1>8, <1>9, <1>10, <1>11, <1>12, <1>13, <1>14
        DEF Next, CacheThread, ExecThread

\* The numbers RoomInv speaks of.
LEMMA RoomTypes ==
  ASSUME OffsetInv, Orderly
  PROVE  /\ MaxPush \in Nat /\ Size(1) \in Nat \ {0} /\ Size(1) <= MaxPush /\ load.restarts \in Nat
         /\ pop_mem_length \in Nat /\ cache_mem_length \in Nat /\ read_buf_len \in Nat
         /\ PopTo \in Nat /\ CacheTo \in Nat /\ CacheNow \in Nat /\ Coming \in Nat
         /\ load.upto[mmap_buf_offset] \in Nat
<1>1. /\ MaxPush \in Nat /\ Size(1) \in Nat \ {0} /\ Size(1) <= MaxPush /\ load.restarts \in Nat
      /\ \A n \in 0..written : load.upto[n] \in Nat
  BY OrderlyLoad
<1>2. /\ pop_mem_length \in Nat /\ cache_mem_length \in Nat /\ read_buf_len \in Nat
      /\ PopTo \in Nat /\ CacheTo \in Nat /\ mmap_buf_offset \in 0..written
  BY QueueTypes
<1>3. CacheNow \in Nat /\ Coming \in Nat
  BY <1>2 DEF CacheNow, Coming
<1> QED BY <1>1, <1>2, <1>3

\* The batch ends at the writer's offset, and so does what the queues have taken over of the file.
LEMMA BatchUnits ==
  ASSUME OffsetInv, LengthInv, BatchInv, Orderly, cacher \notin {"poll", "onward", "around"}
  PROVE  /\ load.upto[mmap_buf_offset] + read_buf_len = load.upto[mmap_buf_len]
         /\ load.restarts > 0 => load.upto[mmap_buf_len] <= MaxPush
<1>1. /\ mmap_buf_offset \in 0..written /\ mmap_buf_len \in 0..written
  <2>1. written \in Nat
    BY QueueTypes
  <2> HIDE DEF written
  <2> QED BY <2>1 DEF OffsetInv, TypeOK
<1>2. read_buf_len = load.upto[mmap_buf_len] - load.upto[mmap_buf_offset]
  BY BatchIsAll DEF Units
<1> QED BY <1>1, <1>2, OrderlyLoad

\* cache_thread chooses a queue.
LEMMA RoomChoose ==
  ASSUME OffsetInv, LengthInv, BatchInv, Orderly, ThreadInv, RoomInv, CacheChoose
  PROVE  RoomInv'
<1>0. /\ MaxPush \in Nat /\ Size(1) \in Nat \ {0} /\ Size(1) <= MaxPush /\ load.restarts \in Nat
      /\ pop_mem_length \in Nat /\ cache_mem_length \in Nat /\ read_buf_len \in Nat
      /\ PopTo \in Nat /\ CacheTo \in Nat /\ CacheNow \in Nat /\ load.upto[mmap_buf_offset] \in Nat
  BY RoomTypes
<1>1. /\ cacher = "choose"
      /\ UNCHANGED <<load, shared, mmap_buf_offset, read_buf_len, exec>>
      /\ cacher' = IF read_buf_len > MaxPush \/ pop_mem_length < MaxPush - read_buf_len THEN "fill" ELSE "queue"
  BY DEF CacheChoose, writer, execv
<1>2. /\ read_buf_len <= MaxPush /\ (load.restarts = 0 => read_buf_len = Size(1))
      /\ load.restarts > 0 => load.upto[mmap_buf_offset] + read_buf_len <= MaxPush
  BY <1>0, <1>1, BatchIsAll, BatchUnits
<1>3. /\ PopTo' = PopTo /\ CacheTo' = CacheTo /\ CacheNow' = CacheNow /\ Size(1)' = Size(1) /\ Coming = 0
      /\ Coming' = IF cacher' = "queue" THEN read_buf_len ELSE 0
  BY <1>1 DEF PopTo, CacheTo, CacheNow, Coming, shared, Size
<1>4. /\ PopTo <= MaxPush /\ CacheTo <= MaxPush /\ PopTo + CacheTo <= load.upto[mmap_buf_offset]
      /\ load.restarts = 0 =>
           /\ pop_mem_length = 0 \/ pop_mem_length >= Size(1)
           /\ cache_mem_length = 0 \/ cache_mem_length >= Size(1)
           /\ pop_mem_length < MaxPush - Size(1) => CacheNow <= Size(1)
           /\ pop_mem_length = 0 /\ Size(1) < MaxPush => CacheNow = 0
  BY <1>0, <1>3 DEF RoomInv
<1>5. CASE cacher' = "fill"
  <2>1. pop_mem_length < MaxPush - read_buf_len
    BY <1>0, <1>1, <1>2, <1>5
  <2>2. PopTo + read_buf_len <= MaxPush /\ CacheTo + read_buf_len <= MaxPush
    <3>1. CASE load.restarts > 0
      BY <1>0, <1>2, <1>4, <3>1
    <3>2. CASE load.restarts = 0
      <4>1. read_buf_len = Size(1) /\ CacheNow <= Size(1) /\ (pop_mem_length = 0 => CacheNow = 0)
            /\ (pop_mem_length = 0 \/ pop_mem_length >= Size(1))
        BY <1>0, <1>2, <1>4, <2>1, <3>2
      <4>2. CacheTo <= CacheNow
        <5>1. CacheTo = 0 \/ CacheTo = CacheNow
          BY DEF CacheTo, CacheNow, Exchanging
        <5> QED BY <1>0, <5>1
      <4>3. PopTo = pop_mem_length \/ PopTo = CacheNow
        BY DEF PopTo, CacheNow
      <4> QED BY <1>0, <2>1, <4>1, <4>2, <4>3
    <3> QED BY <1>0, <3>1, <3>2
  <2> QED BY <1>0, <1>1, <1>3, <1>4, <1>5, <2>2 DEF RoomInv, shared
<1>6. CASE cacher' = "queue"
  <2>1. pop_mem_length >= MaxPush - read_buf_len
    BY <1>0, <1>1, <1>6
  <2> QED BY <1>0, <1>1, <1>2, <1>3, <1>4, <1>6, <2>1 DEF RoomInv, shared
<1> QED BY <1>1, <1>5, <1>6

\* A queue grows by a batch.
LEMMA RoomGrows ==
  ASSUME OffsetInv, LengthInv, BatchInv, Orderly, ThreadInv, RoomInv,
         CachePublish \/ (CacheQueue /\ ~CacheFull)
  PROVE  RoomInv'
<1>0. /\ MaxPush \in Nat /\ Size(1) \in Nat \ {0} /\ Size(1) <= MaxPush /\ load.restarts \in Nat
      /\ pop_mem_length \in Nat /\ cache_mem_length \in Nat /\ read_buf_len \in Nat
      /\ PopTo \in Nat /\ CacheTo \in Nat /\ CacheNow \in Nat /\ load.upto[mmap_buf_offset] \in Nat
  BY RoomTypes
<1>1. /\ cacher \in {"publish", "queue", "woken"} /\ cacher' = "poll"
      /\ UNCHANGED <<load, read_buf_len, exec>> /\ mmap_buf_offset' = mmap_buf_len
      /\ exec \notin Exchanging
  BY DEF CachePublish, CacheQueue, Advance, SwapLockFree, ThreadInv, execv
<1>2. /\ load.restarts = 0 => read_buf_len = Size(1)
      /\ load.upto[mmap_buf_len] = load.upto[mmap_buf_offset] + read_buf_len
      /\ read_buf_len \in Size(1)..MaxPush
  BY <1>1, BatchIsAll, BatchUnits
<1>3. /\ PopTo = pop_mem_length /\ CacheTo = cache_mem_length /\ CacheNow = cache_mem_length
      /\ PopTo' = pop_mem_length' /\ CacheTo' = cache_mem_length' /\ CacheNow' = cache_mem_length'
      /\ Coming' = 0 /\ Size(1)' = Size(1)
  BY <1>1 DEF PopTo, CacheTo, CacheNow, Coming, Exchanging, Size
<1>4. /\ PopTo <= MaxPush /\ CacheTo <= MaxPush /\ PopTo + CacheTo <= load.upto[mmap_buf_offset]
      /\ cacher = "publish" => PopTo + read_buf_len <= MaxPush
      /\ load.restarts = 0 =>
           /\ pop_mem_length = 0 \/ pop_mem_length >= Size(1)
           /\ cache_mem_length = 0 \/ cache_mem_length >= Size(1)
           /\ pop_mem_length < MaxPush - Size(1) => CacheNow + Coming <= Size(1)
           /\ pop_mem_length = 0 /\ Size(1) < MaxPush => CacheNow + Coming = 0
  BY DEF RoomInv
<1>5. CASE CachePublish
  <2>1. /\ pop_mem_length' = pop_mem_length + read_buf_len /\ cache_mem_length' = cache_mem_length
        /\ Coming = 0 /\ cacher = "publish"
    BY <1>5 DEF CachePublish, ThreadInv, Coming
  <2> QED BY <1>0, <1>1, <1>2, <1>3, <1>4, <2>1 DEF RoomInv
<1>6. CASE CacheQueue /\ ~CacheFull
  <2>1. /\ pop_mem_length' = pop_mem_length /\ cache_mem_length' = cache_mem_length + read_buf_len
        /\ Coming = read_buf_len /\ cache_mem_length <= MaxPush - read_buf_len
    BY <1>0, <1>6 DEF CacheQueue, CacheFull, Coming
  <2> QED BY <1>0, <1>1, <1>2, <1>3, <1>4, <2>1 DEF RoomInv
<1> QED BY <1>5, <1>6

\* The exchange: the cache queue becomes the pop queue.
LEMMA RoomExchange ==
  ASSUME OffsetInv, LengthInv, BatchInv, Orderly, ThreadInv, RoomInv,
         ExecExchange \/ ExecRewind \/ ExecRelength \/ ExecEmptyCache
  PROVE  RoomInv'
<1>0. /\ MaxPush \in Nat /\ Size(1) \in Nat \ {0} /\ Size(1) <= MaxPush /\ load.restarts \in Nat
      /\ pop_mem_length \in Nat /\ cache_mem_length \in Nat /\ read_buf_len \in Nat
      /\ PopTo \in Nat /\ CacheTo \in Nat /\ CacheNow \in Nat /\ Coming \in Nat /\ load.upto[mmap_buf_offset] \in Nat
  BY RoomTypes
<1>1. /\ UNCHANGED <<load, cacher, read_buf_len, mmap_buf_offset>>
      /\ Size(1)' = Size(1) /\ Coming' = Coming
  BY DEF ExecExchange, ExecRewind, ExecRelength, ExecEmptyCache, writer, cache, batch, Size, Coming
<1>2. load.restarts = 0 => Coming <= Size(1)
  <2>1. CASE HasBatch
    <3>1. load.restarts = 0 => read_buf_len = Size(1)
      BY <2>1, BatchIsAll DEF HasBatch
    <3> QED BY <1>0, <3>1 DEF Coming
  <2>2. CASE ~HasBatch
    BY <1>0, <2>2 DEF HasBatch, Coming
  <2> QED BY <2>1, <2>2
<1>3. /\ PopTo <= MaxPush /\ CacheTo <= MaxPush /\ PopTo + CacheTo <= load.upto[mmap_buf_offset]
      /\ cacher \in {"fill", "measure", "publish"} => PopTo + read_buf_len <= MaxPush
      /\ cacher = "fill" => CacheTo + read_buf_len <= MaxPush
      /\ load.restarts = 0 =>
           /\ pop_mem_length = 0 \/ pop_mem_length >= Size(1)
           /\ cache_mem_length = 0 \/ cache_mem_length >= Size(1)
           /\ pop_mem_length < MaxPush - Size(1) => CacheNow + Coming <= Size(1)
           /\ pop_mem_length = 0 /\ Size(1) < MaxPush => CacheNow + Coming = 0
  BY DEF RoomInv
<1>4. CASE ExecExchange
  <2>1. /\ PopTo' = cache_mem_length /\ CacheTo = cache_mem_length /\ CacheTo' = 0
        /\ CacheNow' = CacheNow /\ UNCHANGED <<pop_mem_length, cache_mem_length>>
    BY <1>4 DEF ExecExchange, PopTo, CacheTo, CacheNow, Exchanging
  <2>2. cacher \notin {"measure", "publish"}
    BY <1>4 DEF ExecExchange, ThreadInv
  <2>3. /\ PopTo' <= MaxPush /\ CacheTo' <= MaxPush /\ PopTo' + CacheTo' <= load.upto[mmap_buf_offset]
        /\ cacher = "fill" => PopTo' + read_buf_len <= MaxPush /\ CacheTo' + read_buf_len <= MaxPush
    BY <1>0, <1>3, <2>1
  <2> QED BY <1>1, <1>3, <2>1, <2>2, <2>3 DEF RoomInv
<1>5. CASE ExecRewind
  <2>1. /\ PopTo' = PopTo /\ CacheTo' = CacheTo
        /\ CacheNow' = CacheNow /\ UNCHANGED <<pop_mem_length, cache_mem_length>>
    BY <1>5 DEF ExecRewind, PopTo, CacheTo, CacheNow, Exchanging
  <2> QED BY <1>1, <1>3, <2>1 DEF RoomInv
<1>6. CASE ExecRelength
  <2>1. /\ PopTo' = PopTo /\ PopTo = cache_mem_length /\ CacheTo' = CacheTo /\ CacheNow' = 0
        /\ pop_mem_length' = cache_mem_length /\ cache_mem_length' = cache_mem_length
    BY <1>6 DEF ExecRelength, PopTo, CacheTo, CacheNow, Exchanging
  <2>2. cache_mem_length > 0
    BY <1>0, <1>6 DEF ExecRelength, ThreadInv, PopFrom, PopTo
  <2> QED BY <1>0, <1>1, <1>2, <1>3, <2>1, <2>2 DEF RoomInv
<1>7. CASE ExecEmptyCache
  <2>1. /\ PopTo' = PopTo /\ CacheTo' = 0 /\ CacheTo = 0 /\ CacheNow' = 0 /\ CacheNow = 0
        /\ UNCHANGED pop_mem_length /\ cache_mem_length' = 0
    BY <1>7 DEF ExecEmptyCache, EmptyCache, PopTo, CacheTo, CacheNow, Exchanging
  <2> QED BY <1>0, <1>1, <1>3, <2>1 DEF RoomInv
<1> QED BY <1>4, <1>5, <1>6, <1>7

\* The room in the queues, step by step.
LEMMA RoomNext ==
  ASSUME OffsetInv, LengthInv, BatchInv, Orderly, ThreadInv, RoomInv, [Next]_vars
  PROVE  RoomInv'
<1>1. ASSUME UNCHANGED <<load, pop_mem_length, cache_mem_length, mmap_buf_offset>>,
             UNCHANGED exec \/ (exec \notin Exchanging /\ exec' \notin Exchanging),
             \/ /\ UNCHANGED read_buf_len
                /\ \/ cacher' = cacher \/ <<cacher, cacher'>> \in {<<"fill", "measure">>, <<"measure", "publish">>}
                   \/ {cacher, cacher'} \subseteq {"queue", "waiting", "woken"}
             \/ {cacher, cacher'} \subseteq {"poll", "onward", "around", "choose", "undefined"}
      PROVE  RoomInv'
  <2>1. /\ PopTo' = PopTo /\ CacheTo' = CacheTo /\ CacheNow' = CacheNow /\ Size(1)' = Size(1)
        /\ Coming' = Coming
    BY <1>1 DEF PopTo, CacheTo, CacheNow, Exchanging, Coming, Size
  <2>2. /\ cacher' = "fill" => cacher = "fill" /\ UNCHANGED read_buf_len
        /\ cacher' \in {"fill", "measure", "publish"} =>
             cacher \in {"fill", "measure", "publish"} /\ UNCHANGED read_buf_len
    BY <1>1
  <2> QED BY <1>1, <2>1, <2>2 DEF RoomInv
<1>2. CASE UNCHANGED vars
  BY <1>1, <1>2 DEF vars, shared, writer, cache, batch, execv
<1>3. CASE Write
  BY <1>1, <1>3 DEF Write, shared, cache, batch, execv
<1>4. CASE Restart
  <2>1. /\ PopTo' = 0 /\ CacheTo' = 0 /\ cacher' = "poll" /\ mmap_buf_offset' = 0 /\ UNCHANGED load
    BY <1>4 DEF Restart, PopTo, CacheTo, Exchanging
  <2>2. load.restarts # 0 /\ MaxPush \in Nat
    BY <1>4, RoomTypes DEF Restart, OffsetInv, TypeOK
  <2>3. load.upto[0] = 0
    BY LoadType DEF OffsetInv, TypeOK
  <2>4. PopTo' <= MaxPush /\ CacheTo' <= MaxPush /\ PopTo' + CacheTo' <= load.upto[mmap_buf_offset]'
    BY <2>1, <2>2, <2>3
  <2> QED BY <2>1, <2>2, <2>4 DEF RoomInv
<1>5. CASE CachePoll \/ CacheOnward \/ CacheAround
  <2>1. /\ UNCHANGED <<load, shared, mmap_buf_offset, exec>>
        /\ {cacher, cacher'} \subseteq {"poll", "onward", "around", "choose", "undefined"}
    BY <1>5 DEF CachePoll, CacheOnward, CacheAround, NextLength, writer, execv
  <2> QED BY <1>1, <2>1 DEF shared
<1>6. CASE CacheFill \/ CacheMeasure
  <2>1. /\ UNCHANGED <<load, pop_mem_length, cache_mem_length, mmap_buf_offset, read_buf_len>>
        /\ UNCHANGED exec \/ (exec = "waiting" /\ exec' = "woken")
        /\ <<cacher, cacher'>> \in {<<"fill", "measure">>, <<"measure", "publish">>}
    BY <1>6 DEF CacheFill, CacheMeasure, shared, writer, batch, execv
  <2> QED BY <1>1, <2>1 DEF Exchanging
<1>7. CASE CacheQueue /\ CacheFull
  BY <1>1, <1>7 DEF CacheQueue, shared, writer, batch, execv
<1>8. CASE ExecLock \/ ExecWake \/ ExecRelock \/ ExecExecute
  <2>1. /\ UNCHANGED <<load, pop_mem_length, cache_mem_length, mmap_buf_offset, read_buf_len, cacher>>
        /\ exec \notin Exchanging /\ exec' \notin Exchanging
    BY <1>8 DEF ExecLock, ExecWake, ExecRelock, ExecExecute, Take, Exchanging, shared, writer, cache, batch
  <2> QED BY <1>1, <2>1
<1>9. CASE ExecClear \/ SpuriousWakeup
  <2>1. /\ UNCHANGED <<load, pop_mem_length, cache_mem_length, mmap_buf_offset, read_buf_len>>
        /\ cacher' = cacher \/ {cacher, cacher'} \subseteq {"queue", "waiting", "woken"}
        /\ UNCHANGED exec \/ (exec \notin Exchanging /\ exec' \notin Exchanging)
    BY <1>9 DEF ExecClear, SpuriousWakeup, Exchanging, shared, writer, batch
  <2> QED BY <1>1, <2>1
<1> QED BY <1>2, <1>3, <1>4, <1>5, <1>6, <1>7, <1>8, <1>9, RoomChoose, RoomGrows, RoomExchange
        DEF Next, CacheThread, ExecThread

\* The queues keep their extent and their cells.
Still ==
  /\ PopFrom' = PopFrom /\ PopTo' = PopTo /\ CacheTo' = CacheTo
  /\ \A i \in PopFrom..PopTo-1 : mem'[pop_mem'][i] = mem[pop_mem][i]
  /\ \A i \in 0..CacheTo-1 : mem'[cache_mem'][i] = mem[cache_mem][i]

\* Of the sets that PlaceInv is about, when each statement is to be in one of them only.
Single ==
  /\ Once(executed, 1, Len(executed) + 1)
  /\ Once(mem[pop_mem], PopFrom, PopTo) /\ Once(mem[cache_mem], 0, CacheTo)
  /\ Done \cap InHand = {} /\ (Done \cup InHand) \cap InPop = {}
  /\ (Done \cup InHand \cup InPop) \cap InCache = {}
  /\ Done \cup InHand \cup InPop \cup InCache \subseteq 1..mmap_buf_offset

\* A step that is Still leaves both ranges as they were.
LEMMA StillIs ==
  ASSUME OffsetInv, Orderly, Regions, UNCHANGED load, Still
  PROVE  /\ Regions' /\ InPop' = InPop /\ InCache' = InCache
         /\ Once(mem[pop_mem], PopFrom, PopTo) => Once(mem[pop_mem], PopFrom, PopTo)'
         /\ Once(mem[cache_mem], 0, CacheTo) => Once(mem[cache_mem], 0, CacheTo)'
<1>1. PopFrom \in Nat /\ PopTo \in Nat /\ CacheTo \in Nat /\ Size(1) \in Nat /\ Size(1)' = Size(1)
  BY QueueTypes, OrderlyLoad, LoadKept
<1>2. Strung(mem[pop_mem], PopFrom, PopTo, Size(1)) /\ Strung(mem[cache_mem], 0, CacheTo, Size(1))
  BY DEF Regions
<1>3. Strung(mem'[pop_mem'], PopFrom, PopTo, Size(1)) /\ Strung(mem'[cache_mem'], 0, CacheTo, Size(1))
  BY <1>1, <1>2, StrungSame DEF Still
<1>4. /\ Held(mem'[pop_mem'], PopFrom, PopTo) = InPop /\ Held(mem'[cache_mem'], 0, CacheTo) = InCache
      /\ Once(mem[pop_mem], PopFrom, PopTo) => Once(mem'[pop_mem'], PopFrom, PopTo)
      /\ Once(mem[cache_mem], 0, CacheTo) => Once(mem'[cache_mem'], 0, CacheTo)
  BY HeldSame DEF Still, InPop, InCache
<1>5. PopFrom' = PopFrom /\ PopTo' = PopTo /\ CacheTo' = CacheTo
  BY DEF Still
<1> QED BY <1>1, <1>3, <1>4, <1>5 DEF Regions, InPop, InCache

\* A step that moves no statement.
LEMMA PlaceStill ==
  ASSUME OffsetInv, Orderly, Regions, PlaceInv, Still,
         UNCHANGED <<load, restarts, mmap_buf_offset, executed>>, InHand' = InHand,
         written' = written \/ written' = written + 1
  PROVE  Regions' /\ PlaceInv'
<1>1. /\ Regions' /\ InPop' = InPop /\ InCache' = InCache
      /\ Once(mem[pop_mem], PopFrom, PopTo) => Once(mem[pop_mem], PopFrom, PopTo)'
      /\ Once(mem[cache_mem], 0, CacheTo) => Once(mem[cache_mem], 0, CacheTo)'
  BY StillIs
<1>2. Done' = Done /\ Once(executed, 1, Len(executed) + 1)' = Once(executed, 1, Len(executed) + 1)
  BY DEF Done, Once
<1>3. \/ Unread' = Unread /\ 1..written' = 1..written
      \/ Unread' = Unread \cup {written + 1} /\ 1..written' = 1..written \cup {written + 1}
  <2>1. written \in Nat /\ mmap_buf_offset \in 0..written
    BY QueueTypes
  <2> QED BY <2>1 DEF Unread
<1>4. restarts = 0 => Single
  BY DEF PlaceInv, Single
<1>5. restarts' = 0 => Single'
  BY <1>1, <1>2, <1>4 DEF Single
<1>6. Done' \cup InHand' \cup InPop' \cup InCache' \cup Unread' = 1..written'
  BY <1>1, <1>2, <1>3 DEF PlaceInv
<1> QED BY <1>1, <1>5, <1>6 DEF PlaceInv, Single

\* A new element at the end of a sequence.
LEMMA AppendOnce ==
  ASSUME NEW S, NEW q \in Seq(S), NEW x \in S, NEW r, r = Append(q, x)
  PROVE  /\ Elements(r) = Elements(q) \cup {x}
         /\ Once(q, 1, Len(q) + 1) /\ x \notin Elements(q) => Once(r, 1, Len(r) + 1)
<1>1. /\ Len(q) \in Nat /\ Len(r) = Len(q) + 1 /\ DOMAIN q = 1..Len(q) /\ DOMAIN r = 1..Len(q)+1
      /\ r[Len(q) + 1] = x /\ \A i \in 1..Len(q) : r[i] = q[i]
  OBVIOUS
<1>2. /\ 1..Len(q)+1 = 1..Len(q) \cup {Len(q) + 1} /\ Len(q) + 1 - 1 = Len(q) /\ Len(r) + 1 - 1 = Len(q) + 1
      /\ Len(q) + 1 \notin 1..Len(q)
  BY <1>1
<1>3. Elements(r) = Elements(q) \cup {x}
  BY <1>1, <1>2 DEF Elements
<1>4. ASSUME Once(q, 1, Len(q) + 1), x \notin Elements(q) PROVE Once(r, 1, Len(r) + 1)
  <2> SUFFICES ASSUME NEW i \in 1..Len(q)+1, NEW j \in 1..Len(q)+1, r[i] = r[j], r[i] # Inside PROVE i = j
    BY <1>2 DEF Once
  <2>1. CASE i \in 1..Len(q) /\ j \in 1..Len(q)
    BY <1>1, <1>2, <1>4, <2>1 DEF Once
  <2>2. CASE ~(i \in 1..Len(q) /\ j \in 1..Len(q))
    BY <1>1, <1>2, <1>4, <2>2 DEF Elements
  <2> QED BY <2>1, <2>2
<1> QED BY <1>3, <1>4

\* The statement in hand is executed.
LEMMA PlaceExecute ==
  ASSUME OffsetInv, Orderly, Regions, PlaceInv, ExecExecute
  PROVE  Regions' /\ PlaceInv'
<1>1. /\ UNCHANGED <<shared, load, restarts, file, mmap_buf_offset>> /\ executed' = Append(executed, sql)
      /\ exec = "execute" /\ exec' = "lock"
  BY DEF ExecExecute, writer, cache
<1>2. /\ Regions' /\ InPop' = InPop /\ InCache' = InCache
      /\ Once(mem[pop_mem], PopFrom, PopTo) => Once(mem[pop_mem], PopFrom, PopTo)'
      /\ Once(mem[cache_mem], 0, CacheTo) => Once(mem[cache_mem], 0, CacheTo)'
  <2>1. Still
    BY <1>1 DEF Still, PopFrom, PopTo, CacheTo, Exchanging, shared
  <2> QED BY <1>1, <2>1, StillIs
<1>3. executed \in Seq(0..written) /\ sql \in 0..written
  BY DEF OffsetInv, TypeOK
<1>4. /\ Done' = Done \cup {sql}
      /\ Once(executed, 1, Len(executed) + 1) /\ sql \notin Done => Once(executed, 1, Len(executed) + 1)'
  <2>1. /\ Elements(executed') = Elements(executed) \cup {sql}
        /\ Once(executed, 1, Len(executed) + 1) /\ sql \notin Elements(executed)
             => Once(executed', 1, Len(executed') + 1)
    <3> DEFINE r == Append(executed, sql)
    <3>1. r = Append(executed, sql)
      OBVIOUS
    <3> HIDE DEF r
    <3>2. /\ Elements(r) = Elements(executed) \cup {sql}
          /\ Once(executed, 1, Len(executed) + 1) /\ sql \notin Elements(executed) => Once(r, 1, Len(r) + 1)
      <4> DEFINE S == 0..written
      <4>1. executed \in Seq(S) /\ sql \in S
        BY <1>3
      <4> HIDE DEF S
      <4> QED BY <3>1, <4>1, AppendOnce
    <3>3. executed' = r
      BY <1>1, <3>1
    <3> QED BY <3>2, <3>3
  <2> QED BY <2>1 DEF Done
<1>5. InHand = {sql} /\ InHand' = {} /\ Unread' = Unread /\ written' = written
  BY <1>1 DEF InHand, Unread, written
<1>6. restarts = 0 => Single
  BY DEF PlaceInv, Single
<1>7. restarts' = 0 => Single'
  BY <1>1, <1>2, <1>4, <1>5, <1>6 DEF Single
<1>8. Done' \cup InHand' \cup InPop' \cup InCache' \cup Unread' = 1..written'
  BY <1>2, <1>4, <1>5 DEF PlaceInv
<1> QED BY <1>2, <1>7, <1>8 DEF PlaceInv, Single

\* The batch joins a queue: its statements are no longer unread.
LEMMA PlaceGrows ==
  ASSUME OffsetInv, LengthInv, BatchInv, Orderly, PlaceInv, HasBatch,
         mmap_buf_offset' = mmap_buf_len, UNCHANGED <<restarts, file, executed, exec, sql>>,
         \/ InPop' = InPop \cup (mmap_buf_offset+1..mmap_buf_len) /\ InCache' = InCache
         \/ InPop' = InPop /\ InCache' = InCache \cup (mmap_buf_offset+1..mmap_buf_len),
         Single => Once(mem[pop_mem], PopFrom, PopTo)' /\ Once(mem[cache_mem], 0, CacheTo)'
  PROVE  PlaceInv'
<1> DEFINE N == mmap_buf_offset+1..mmap_buf_len
<1>1. /\ Done' = Done /\ InHand' = InHand /\ written' = written
      /\ Once(executed, 1, Len(executed) + 1)' = Once(executed, 1, Len(executed) + 1)
  BY DEF Done, InHand, Once, written
<1>2. /\ Unread = N \cup Unread' /\ 1..mmap_buf_offset \cap N = {}
      /\ 1..mmap_buf_offset \subseteq 1..mmap_buf_offset' /\ N \subseteq 1..mmap_buf_offset'
  <2>1. /\ mmap_buf_offset \in 0..written /\ mmap_buf_len \in mmap_buf_offset+1..written /\ written \in Nat
    BY Window, QueueTypes, OrderlyLoad DEF HasBatch
  <2> QED BY <1>1, <2>1 DEF Unread
<1>3. Done' \cup InHand' \cup InPop' \cup InCache' \cup Unread' = 1..written'
  <2>1. Done \cup InHand \cup InPop \cup InCache \cup Unread = 1..written
    BY DEF PlaceInv
  <2> QED BY <1>1, <1>2, <2>1
<1>4. ASSUME restarts' = 0 PROVE Single'
  <2>1. Single
    BY <1>4 DEF PlaceInv, Single
  <2>2. /\ Done \cap InHand = {} /\ (Done \cup InHand) \cap InPop = {}
        /\ (Done \cup InHand \cup InPop) \cap InCache = {}
        /\ Done \cup InHand \cup InPop \cup InCache \subseteq 1..mmap_buf_offset
    BY <2>1 DEF Single
  <2>3. /\ Done \cap N = {} /\ InHand \cap N = {} /\ InPop \cap N = {} /\ InCache \cap N = {}
    BY <1>2, <2>2
  <2>4. /\ Done' \cap InHand' = {} /\ (Done' \cup InHand') \cap InPop' = {}
        /\ (Done' \cup InHand' \cup InPop') \cap InCache' = {}
        /\ Done' \cup InHand' \cup InPop' \cup InCache' \subseteq 1..mmap_buf_offset'
    <3> QED BY <1>1, <1>2, <2>2, <2>3
  <2> QED BY <1>1, <2>1, <2>4 DEF Single
<1> QED BY <1>3, <1>4 DEF PlaceInv, Single

\* A batch joins the pop queue.
LEMMA PlacePublish ==
  ASSUME OffsetInv, LengthInv, BatchInv, Orderly, ThreadInv, QueueInv, PlaceInv, CachePublish
  PROVE  Regions' /\ PlaceInv'
<1> DEFINE u == Size(1)  l == read_buf_len
<1>1. /\ cacher = "publish" /\ HasBatch /\ exec \notin {"exchange"} \cup Exchanging /\ pop_mem_length' = pop_mem_length + l
      /\ UNCHANGED <<mem, pop_mem, cache_mem, pop_mem_offset, cache_mem_length, exec, sql, executed, file, load, restarts>>
      /\ mmap_buf_offset' = mmap_buf_len
  BY DEF CachePublish, Advance, ThreadInv, HasBatch, execv
<1>2. /\ PopFrom \in Nat /\ PopTo \in Nat /\ CacheTo \in Nat /\ l \in Nat /\ u \in Nat \ {0}
      /\ PopFrom <= PopTo /\ u' = u
  BY <1>1, QueueTypes, OrderlyLoad, LoadKept DEF ThreadInv
<1>3. /\ PopTo = pop_mem_length /\ PopTo' = PopTo + l /\ PopFrom' = PopFrom /\ CacheTo' = CacheTo
  BY <1>1 DEF PopTo, PopFrom, CacheTo, Exchanging
<1>4. /\ Strung(mem[pop_mem], PopFrom, PopTo, u) /\ Strung(mem[cache_mem], 0, CacheTo, u)
      /\ \A i \in 0..l-1 : mem[pop_mem][PopTo + i] = sql_list_buf[i]
  BY <1>1, <1>3 DEF QueueInv, Regions
<1>5. /\ Strung(sql_list_buf, 0, l, u) /\ Held(sql_list_buf, 0, l) = mmap_buf_offset+1..mmap_buf_len
      /\ Once(sql_list_buf, 0, l)
  BY <1>1, BatchStrung
<1>6. /\ Strung(mem[pop_mem], PopFrom, PopTo + l, u)
      /\ Held(mem[pop_mem], PopFrom, PopTo + l) = InPop \cup (mmap_buf_offset+1..mmap_buf_len)
      /\ Once(mem[pop_mem], PopFrom, PopTo) /\ InPop \cap (mmap_buf_offset+1..mmap_buf_len) = {}
           => Once(mem[pop_mem], PopFrom, PopTo + l)
  <2>1. PICK c, s, a, b, n, v : /\ c = mem[pop_mem] /\ s = sql_list_buf
                                /\ a = PopFrom /\ b = PopTo /\ n = l /\ v = u
    OBVIOUS
  <2>2. /\ a \in Nat /\ b \in Nat /\ n \in Nat /\ v \in Nat \ {0} /\ a <= b
        /\ Strung(c, a, b, v) /\ Strung(s, 0, n, v)
        /\ \A i \in a..b-1 : c[i] = c[i]
        /\ \A i \in 0..n-1 : c[b + i] = s[i]
    BY <1>2, <1>4, <1>5, <2>1
  <2>3. /\ Strung(c, a, b + n, v)
        /\ Held(c, a, b + n) = Held(c, a, b) \cup Held(s, 0, n)
        /\ Once(c, a, b) /\ Once(s, 0, n) /\ Held(c, a, b) \cap Held(s, 0, n) = {} => Once(c, a, b + n)
    BY <2>2, JoinBack
  <2> QED BY <1>5, <2>1, <2>3 DEF InPop
<1>7. InPop' = InPop \cup (mmap_buf_offset+1..mmap_buf_len) /\ InCache' = InCache
  BY <1>1, <1>3, <1>6 DEF InPop, InCache
<1>8. Single => Once(mem[pop_mem], PopFrom, PopTo)' /\ Once(mem[cache_mem], 0, CacheTo)'
  <2>1. ASSUME Single PROVE InPop \cap (mmap_buf_offset+1..mmap_buf_len) = {}
    <3>1. mmap_buf_offset \in Nat /\ InPop \subseteq 1..mmap_buf_offset
      BY <2>1, QueueTypes DEF Single
    <3> QED BY <3>1
  <2> QED BY <1>1, <1>3, <1>6, <2>1 DEF Single
<1>9. Regions'
  BY <1>1, <1>2, <1>3, <1>4, <1>6 DEF Regions
<1> QED BY <1>1, <1>7, <1>8, <1>9, PlaceGrows

\* A batch joins the cache queue.
LEMMA PlaceQueued ==
  ASSUME OffsetInv, LengthInv, BatchInv, Orderly, ThreadInv, RoomInv, QueueInv, PlaceInv,
         CacheQueue, ~CacheFull
  PROVE  Regions' /\ PlaceInv'
<1> DEFINE u == Size(1)  l == read_buf_len
<1>1. /\ HasBatch /\ exec \notin Exchanging /\ cache_mem_length' = cache_mem_length + l
      /\ CopyBatch(cache_mem, cache_mem_length) /\ cache_mem_length <= MaxPush - l
      /\ UNCHANGED <<pop_mem, cache_mem, pop_mem_offset, pop_mem_length, exec, sql, executed, file, load, restarts>>
      /\ mmap_buf_offset' = mmap_buf_len
  <2>1. cache_mem_length \in Nat /\ l \in Nat /\ MaxPush \in Nat
    BY QueueTypes, OrderlyLoad
  <2> QED BY <2>1 DEF CacheQueue, CacheFull, Advance, HasBatch, SwapLockFree, execv
<1>2. /\ PopFrom \in Nat /\ PopTo \in Nat /\ CacheTo \in Nat /\ l \in Nat /\ u \in Nat \ {0}
      /\ PopFrom <= PopTo /\ u' = u /\ MaxPush \in Nat /\ PopTo <= MaxPush
      /\ pop_mem \in {0, 1} /\ cache_mem = 1 - pop_mem /\ cache_mem_length \in Nat
  BY <1>1, QueueTypes, OrderlyLoad, LoadKept DEF ThreadInv, RoomInv
<1>3. /\ CacheTo = cache_mem_length /\ CacheTo' = CacheTo + l /\ PopFrom' = PopFrom /\ PopTo' = PopTo
  BY <1>1 DEF PopTo, PopFrom, CacheTo, Exchanging
<1>4. /\ mem'[pop_mem] = mem[pop_mem]
      /\ \A i \in 0..CacheTo-1 : mem'[cache_mem][i] = mem[cache_mem][i]
      /\ \A i \in 0..l-1 : mem'[cache_mem][CacheTo + i] = sql_list_buf[i]
  <2>1. cache_mem \in {0, 1} /\ 1 - cache_mem = pop_mem /\ TypeOK
    BY <1>2 DEF OffsetInv
  <2>2. /\ mem'[1 - cache_mem] = mem[1 - cache_mem]
        /\ \A i \in Cells : i \in CacheTo..(CacheTo + l - 1) => mem'[cache_mem][i] = sql_list_buf[i - CacheTo]
        /\ \A i \in Cells : i \notin CacheTo..(CacheTo + l - 1) => mem'[cache_mem][i] = mem[cache_mem][i]
    BY <1>1, <1>2, <1>3, <2>1, Copied
  <2>3. ASSUME NEW i \in 0..CacheTo-1 PROVE mem'[cache_mem][i] = mem[cache_mem][i]
    <3>1. i \in Cells /\ i \notin CacheTo..(CacheTo + l - 1)
      BY <1>1, <1>2, <1>3 DEF Cells
    <3> QED BY <2>2, <3>1
  <2>4. ASSUME NEW i \in 0..l-1 PROVE mem'[cache_mem][CacheTo + i] = sql_list_buf[i]
    <3>1. PICK j \in Int : j = CacheTo + i
      BY <1>2
    <3>2. j \in Cells /\ j \in CacheTo..(CacheTo + l - 1) /\ j - CacheTo = i
      BY <1>1, <1>2, <1>3, <3>1 DEF Cells
    <3> QED BY <2>2, <3>1, <3>2
  <2> QED BY <2>1, <2>2, <2>3, <2>4
<1>5. /\ Strung(mem[pop_mem], PopFrom, PopTo, u) /\ Strung(mem[cache_mem], 0, CacheTo, u)
  BY DEF QueueInv, Regions
<1>6. /\ Strung(sql_list_buf, 0, l, u) /\ Held(sql_list_buf, 0, l) = mmap_buf_offset+1..mmap_buf_len
      /\ Once(sql_list_buf, 0, l)
  BY <1>1, BatchStrung
<1>7. /\ Strung(mem'[cache_mem], 0, CacheTo + l, u)
      /\ Held(mem'[cache_mem], 0, CacheTo + l) = InCache \cup (mmap_buf_offset+1..mmap_buf_len)
      /\ Once(mem[cache_mem], 0, CacheTo) /\ InCache \cap (mmap_buf_offset+1..mmap_buf_len) = {}
           => Once(mem'[cache_mem], 0, CacheTo + l)
  <2>1. 0 \in Nat /\ 0 <= CacheTo
    BY <1>2
  <2>2. PICK c, d, s, b, n, v : /\ c = mem[cache_mem] /\ d = mem'[cache_mem] /\ s = sql_list_buf
                                /\ b = CacheTo /\ n = l /\ v = u
    OBVIOUS
  <2>3. /\ b \in Nat /\ n \in Nat /\ v \in Nat \ {0} /\ 0 <= b /\ Strung(c, 0, b, v) /\ Strung(s, 0, n, v)
        /\ \A i \in 0..b-1 : d[i] = c[i]
        /\ \A i \in 0..n-1 : d[b + i] = s[i]
    BY <1>2, <1>4, <1>5, <1>6, <2>2
  <2>4. /\ Strung(d, 0, b + n, v)
        /\ Held(d, 0, b + n) = Held(c, 0, b) \cup Held(s, 0, n)
        /\ Once(c, 0, b) /\ Once(s, 0, n) /\ Held(c, 0, b) \cap Held(s, 0, n) = {} => Once(d, 0, b + n)
    BY <2>1, <2>3, JoinBack
  <2> QED BY <1>6, <2>2, <2>4 DEF InCache
<1>8. InCache' = InCache \cup (mmap_buf_offset+1..mmap_buf_len) /\ InPop' = InPop
  BY <1>1, <1>3, <1>4, <1>7 DEF InPop, InCache
<1>9. Single => Once(mem[pop_mem], PopFrom, PopTo)' /\ Once(mem[cache_mem], 0, CacheTo)'
  <2>1. ASSUME Single PROVE InCache \cap (mmap_buf_offset+1..mmap_buf_len) = {}
    <3>1. mmap_buf_offset \in Nat /\ InCache \subseteq 1..mmap_buf_offset
      BY <2>1, QueueTypes DEF Single
    <3> QED BY <3>1
  <2> QED BY <1>1, <1>3, <1>4, <1>7, <2>1 DEF Single
<1>10. Regions'
  BY <1>1, <1>2, <1>3, <1>4, <1>5, <1>7 DEF Regions
<1> QED BY <1>1, <1>8, <1>9, <1>10, PlaceGrows

\* The first statement of the pop queue goes into the hand.
LEMMA PlaceTake ==
  ASSUME OffsetInv, Orderly, ThreadInv, RoomInv, QueueInv, PlaceInv,
         exec \in {"lock", "woken", "relock"}, exec # "relock" => ~PopEmpty, Take,
         UNCHANGED <<mem, pop_mem, cache_mem, pop_mem_length, cache_mem_length, writer, cache, executed>>
  PROVE  Regions' /\ PlaceInv'
<1> DEFINE u == Size(1)  s == mem[pop_mem][PopFrom]
<1>1. /\ PopFrom = pop_mem_offset /\ PopTo = pop_mem_length /\ PopFrom + u <= PopTo
      /\ exec' = "execute" /\ sql' = s /\ pop_mem_offset' = PopFrom + u
      /\ UNCHANGED <<load, file, restarts, mmap_buf_offset>>
  BY TakeFirst DEF writer, cache
<1>2. /\ PopFrom \in Nat /\ PopTo \in Nat /\ CacheTo \in Nat /\ u \in Nat \ {0} /\ u' = u
      /\ Strung(mem[pop_mem], PopFrom, PopTo, u) /\ Strung(mem[cache_mem], 0, CacheTo, u)
  BY <1>1, QueueTypes, OrderlyLoad, LoadKept DEF QueueInv, Regions
<1>3. PopFrom' = PopFrom + u /\ PopTo' = PopTo /\ CacheTo' = CacheTo
  BY <1>1 DEF PopTo, PopFrom, CacheTo, Exchanging
<1>4. /\ Strung(mem[pop_mem], PopFrom + u, PopTo, u)
      /\ InPop = {s} \cup Held(mem[pop_mem], PopFrom + u, PopTo)
      /\ Once(mem[pop_mem], PopFrom, PopTo) =>
           Once(mem[pop_mem], PopFrom + u, PopTo) /\ s \notin Held(mem[pop_mem], PopFrom + u, PopTo)
  <2>1. PopFrom < PopTo
    BY <1>1, <1>2
  <2>2. PICK c, a, b, v : c = mem[pop_mem] /\ a = PopFrom /\ b = PopTo /\ v = u
    OBVIOUS
  <2>3. a \in Nat /\ b \in Nat /\ v \in Nat \ {0} /\ Strung(c, a, b, v) /\ a < b
    BY <1>2, <2>1, <2>2
  <2>4. Strung(c, a + v, b, v) /\ Held(c, a, b) = {c[a]} \cup Held(c, a + v, b)
    BY <2>3, TakeFront
  <2>5. ASSUME Once(c, a, b) PROVE Once(c, a + v, b) /\ c[a] \notin Held(c, a + v, b)
    BY <2>3, <2>5, TakeFront
  <2> QED BY <2>2, <2>4, <2>5 DEF InPop
<1>5. Regions'
  BY <1>1, <1>2, <1>3, <1>4 DEF Regions
<1>6. /\ InHand = {} /\ InHand' = {s} /\ InCache' = InCache /\ Done' = Done /\ Unread' = Unread
      /\ written' = written /\ InPop' = Held(mem[pop_mem], PopFrom + u, PopTo) /\ InPop = {s} \cup InPop'
      /\ Once(mem[pop_mem], PopFrom, PopTo) => s \notin InPop' /\ Once(mem[pop_mem], PopFrom, PopTo)'
      /\ Once(mem[cache_mem], 0, CacheTo)' = Once(mem[cache_mem], 0, CacheTo)
      /\ Once(executed, 1, Len(executed) + 1)' = Once(executed, 1, Len(executed) + 1)
  BY <1>1, <1>3, <1>4 DEF InHand, InCache, InPop, Done, Unread, written, Once
<1>7. Done' \cup InHand' \cup InPop' \cup InCache' \cup Unread' = 1..written'
  BY <1>6 DEF PlaceInv
<1>8. ASSUME restarts' = 0 PROVE Single'
  <2>1. Single
    BY <1>1, <1>8 DEF PlaceInv, Single
  <2>2. /\ Done' \cap InHand' = {} /\ (Done' \cup InHand') \cap InPop' = {}
        /\ (Done' \cup InHand' \cup InPop') \cap InCache' = {}
        /\ Done' \cup InHand' \cup InPop' \cup InCache' \subseteq 1..mmap_buf_offset
    <3> QED BY <1>6, <2>1 DEF Single
  <2> QED BY <1>1, <1>6, <2>1, <2>2 DEF Single
<1> QED BY <1>5, <1>7, <1>8 DEF PlaceInv, Single

\* The pop queue was empty; the cache queue takes its place.
LEMMA PlaceExchange ==
  ASSUME OffsetInv, Orderly, ThreadInv, QueueInv, PlaceInv, ExecExchange
  PROVE  Regions' /\ PlaceInv'
<1>1. /\ exec = "exchange" /\ exec' = "rewind" /\ pop_mem' = cache_mem /\ cache_mem' = pop_mem
      /\ UNCHANGED <<mem, cache_mem_length, load, file, restarts, mmap_buf_offset, executed>>
  BY DEF ExecExchange, Exchange, writer, cache
<1>2. PopFrom = PopTo /\ PopFrom' = 0 /\ PopTo' = CacheTo /\ CacheTo' = 0
  BY <1>1 DEF ThreadInv, PopFrom, PopTo, CacheTo, Exchanging
<1>3. PopFrom \in Nat /\ CacheTo \in Nat /\ Size(1)' = Size(1)
  BY <1>1, QueueTypes, LoadKept
<1>4. /\ InPop = {} /\ InPop' = InCache /\ InCache' = {} /\ InHand = {} /\ InHand' = {} /\ Done' = Done
      /\ Unread' = Unread /\ written' = written
      /\ Once(executed, 1, Len(executed) + 1)' = Once(executed, 1, Len(executed) + 1)
  BY <1>1, <1>2, <1>3, HeldNone DEF InPop, InCache, InHand, Done, Unread, written, Once
<1>5. Regions'
  BY <1>1, <1>2, <1>3, HeldNone DEF QueueInv, Regions
<1>6. ASSUME restarts' = 0 PROVE Single'
  <2>1. Single
    BY <1>1, <1>6 DEF PlaceInv, Single
  <2>2. Once(mem[pop_mem], PopFrom, PopTo)' /\ Once(mem[cache_mem], 0, CacheTo)'
    BY <1>1, <1>2, <2>1, HeldNone DEF Single
  <2> QED BY <1>1, <1>4, <2>1, <2>2 DEF Single
<1>7. Done' \cup InHand' \cup InPop' \cup InCache' \cup Unread' = 1..written'
  BY <1>4 DEF PlaceInv
<1> QED BY <1>5, <1>6, <1>7 DEF PlaceInv, Single

\* After a restart the statements are read again: only that none is lost is still claimed.
LEMMA PlaceRestart ==
  ASSUME OffsetInv, Orderly, PlaceInv, Restart
  PROVE  Regions' /\ PlaceInv'
<1>1. /\ restarts' # 0 /\ exec' = "lock" /\ mmap_buf_offset' = 0 /\ UNCHANGED <<load, file, executed>>
      /\ PopFrom' = 0 /\ PopTo' = 0 /\ CacheTo' = 0
  <2>1. restarts \in Nat
    BY OrderlyLoad DEF OffsetInv, TypeOK
  <2> QED BY <2>1 DEF Restart, PopFrom, PopTo, CacheTo, Exchanging
<1>2. Regions' /\ InPop' = {} /\ InCache' = {} /\ InHand' = {}
  BY <1>1, HeldNone DEF Regions, InPop, InCache, InHand
<1>3. Done' = Done /\ written' = written /\ Unread' = 1..written
  BY <1>1 DEF Done, written, Unread
<1> QED BY <1>1, <1>2, <1>3 DEF PlaceInv

\* The cells behind the pop queue after the copy.
LEMMA FilledCells ==
  ASSUME OffsetInv, Orderly, ~collided', ThreadInv, RoomInv, CacheFill
  PROVE  /\ Still /\ \A i \in 0..read_buf_len-1 : mem'[pop_mem][pop_mem_length + i] = sql_list_buf[i]
         /\ cacher' = "measure"
         /\ UNCHANGED <<pop_mem, cache_mem, pop_mem_offset, pop_mem_length, cache_mem_length, load, file, restarts,
                        mmap_buf_offset, read_buf_len, sql_list_buf, exec, sql, executed>>
<1> DEFINE l == read_buf_len
<1>1. /\ cacher = "fill" /\ HasBatch /\ exec \notin {"exchange"} \cup Exchanging /\ CopyBatch(pop_mem, pop_mem_length)
      /\ UNCHANGED <<pop_mem, cache_mem, pop_mem_offset, pop_mem_length, cache_mem_length, load, file, restarts,
                     mmap_buf_offset, read_buf_len, sql_list_buf, exec, sql, executed>>
      /\ cacher' = "measure"
  <2>1. exec \notin {"exchange"} \cup Exchanging
    BY DEF CacheFill
  <2> QED BY <2>1 DEF CacheFill, HasBatch, batch, execv
<1>2. /\ PopFrom = pop_mem_offset /\ PopTo = pop_mem_length /\ PopFrom' = PopFrom /\ PopTo' = PopTo /\ CacheTo' = CacheTo
  BY <1>1 DEF PopFrom, PopTo, CacheTo, Exchanging
<1>3. /\ PopFrom \in Nat /\ PopTo \in Nat /\ CacheTo \in Nat /\ l \in Nat /\ MaxPush \in Nat
      /\ pop_mem \in {0, 1} /\ cache_mem = 1 - pop_mem
      /\ PopTo + l <= MaxPush /\ CacheTo <= MaxPush
  BY <1>1, QueueTypes, OrderlyLoad DEF RoomInv
<1>4. /\ mem'[1 - pop_mem] = mem[1 - pop_mem]
      /\ \A i \in Cells : i \in PopTo..(PopTo + l - 1) => mem'[pop_mem][i] = sql_list_buf[i - PopTo]
      /\ \A i \in Cells : i \notin PopTo..(PopTo + l - 1) => mem'[pop_mem][i] = mem[pop_mem][i]
  BY <1>1, <1>2, <1>3, Copied DEF OffsetInv
<1>5. ASSUME NEW i \in PopFrom..PopTo-1 PROVE mem'[pop_mem][i] = mem[pop_mem][i]
  <2>1. i \in Cells /\ i \notin PopTo..(PopTo + l - 1)
    BY <1>3 DEF Cells
  <2> QED BY <1>4, <2>1
<1>6. ASSUME NEW i \in 0..l-1 PROVE mem'[pop_mem][PopTo + i] = sql_list_buf[i]
  <2>1. PICK j \in Int : j = PopTo + i
    BY <1>3
  <2>2. j \in Cells /\ j \in PopTo..(PopTo + l - 1) /\ j - PopTo = i
    BY <1>3, <2>1 DEF Cells
  <2> QED BY <1>4, <2>1, <2>2
<1> QED BY <1>1, <1>2, <1>3, <1>4, <1>5, <1>6 DEF Still

\* They stay as they are until they are published.
LEMMA CopyNext ==
  ASSUME OffsetInv, Orderly, ThreadInv, RoomInv, QueueInv, Next, ~collided', cacher' \in {"measure", "publish"}
  PROVE  \A i \in 0..read_buf_len'-1 : mem'[pop_mem'][pop_mem_length' + i] = sql_list_buf'[i]
<1>1. CASE CacheFill
  BY <1>1, FilledCells
<1>2. CASE ~CacheFill
  <2>1. /\ cacher \in {"measure", "publish"}
        /\ UNCHANGED <<mem, pop_mem, pop_mem_length, read_buf_len, sql_list_buf>>
    <3>1. CASE Write
      BY <3>1 DEF Write, shared, cache, batch
    <3>2. CASE Restart \/ CachePoll \/ CacheOnward \/ CacheAround \/ CacheChoose
      BY <3>2 DEF Restart, CachePoll, CacheOnward, CacheAround, CacheChoose, NextLength
    <3>3. CASE CachePublish \/ CacheQueue
      BY <3>3 DEF CachePublish, CacheQueue, Advance
    <3>4. CASE CacheMeasure
      BY <3>4 DEF CacheMeasure, shared, batch
    <3>5. CASE ExecThread
      <4>1. cacher \in {"measure", "publish"} /\ UNCHANGED <<read_buf_len, sql_list_buf>>
        BY <3>5 DEF ExecThread, ExecLock, ExecWake, ExecExchange, ExecRewind, ExecRelength, ExecEmptyCache,
                    ExecClear, ExecRelock, ExecExecute, cache, batch
      <4>2. exec \notin {"exchange"} \cup Exchanging
        BY <4>1 DEF ThreadInv
      <4>3. UNCHANGED <<mem, pop_mem, pop_mem_length>>
        BY <3>5, <4>2 DEF ExecThread, ExecLock, ExecWake, ExecExchange, ExecRewind, ExecRelength,
                          ExecEmptyCache, ExecClear, ExecRelock, ExecExecute, Exchanging, shared
      <4> QED BY <4>1, <4>3
    <3>6. CASE SpuriousWakeup
      BY <3>6 DEF SpuriousWakeup, shared, batch
    <3> QED BY <1>2, <3>1, <3>2, <3>3, <3>4, <3>5, <3>6 DEF Next, CacheThread
  <2> QED BY <2>1 DEF QueueInv
<1> QED BY <1>1, <1>2

\* The places of the statements, step by step.
LEMMA PlaceNext ==
  ASSUME OffsetInv, LengthInv, BatchInv, Orderly, ThreadInv, RoomInv, QueueInv, PlaceInv, Next, ~collided'
  PROVE  Regions' /\ PlaceInv'
<1>0. Regions
  BY DEF QueueInv
<1>1. ASSUME UNCHANGED <<shared, load, restarts, mmap_buf_offset, executed, sql>>,
             \/ UNCHANGED exec
             \/ (exec \notin {"execute"} \cup Exchanging /\ exec' \notin {"execute"} \cup Exchanging),
             written' = written \/ written' = written + 1
      PROVE  Regions' /\ PlaceInv'
  <2>1. Still
    BY <1>1 DEF Still, PopFrom, PopTo, CacheTo, Exchanging, shared
  <2>2. InHand' = InHand
    BY <1>1 DEF InHand
  <2> QED BY <1>0, <1>1, <2>1, <2>2, PlaceStill
<1>2. CASE Write
  <2>1. written' = written + 1
    BY <1>2, TypeFile, WriteIs DEF OffsetInv
  <2> QED BY <1>1, <1>2, <2>1 DEF Write, cache, execv
<1>3. CASE Restart
  BY <1>3, PlaceRestart
<1>4. CASE CachePoll \/ CacheOnward \/ CacheAround \/ CacheChoose
  <2>1. UNCHANGED <<shared, load, file, restarts, mmap_buf_offset, executed, sql, exec>>
    BY <1>4 DEF CachePoll, CacheOnward, CacheAround, CacheChoose, writer, execv
  <2> QED BY <1>1, <2>1 DEF written
<1>5. CASE CacheFill
  <2>1. /\ Still /\ UNCHANGED <<load, file, restarts, mmap_buf_offset, exec, sql, executed>>
    BY <1>5, FilledCells
  <2>2. InHand' = InHand /\ written' = written
    BY <2>1 DEF InHand, written
  <2> QED BY <1>0, <2>1, <2>2, PlaceStill
<1>6. CASE CacheMeasure
  <2>1. /\ UNCHANGED <<shared, load, file, restarts, mmap_buf_offset, executed, sql>>
        /\ UNCHANGED exec \/ (exec = "waiting" /\ exec' = "woken")
    BY <1>6 DEF CacheMeasure, writer
  <2> QED BY <1>1, <2>1 DEF written, Exchanging
<1>7. CASE CachePublish
  BY <1>7, PlacePublish
<1>8. CASE CacheQueue
  <2>1. CASE CacheFull
    <3>1. UNCHANGED <<shared, load, file, restarts, mmap_buf_offset, executed, sql, exec>>
      BY <1>8, <2>1 DEF CacheQueue, writer, execv
    <3> QED BY <1>1, <3>1 DEF written
  <2> QED BY <1>8, <2>1, PlaceQueued
<1>9. CASE ExecLock \/ ExecWake \/ ExecRelock
  <2>1. /\ exec \in {"lock", "woken", "relock"}
        /\ UNCHANGED <<mem, pop_mem, cache_mem, pop_mem_length, cache_mem_length, writer, cache, executed>>
    BY <1>9 DEF ExecLock, ExecWake, ExecRelock
  <2>2. CASE Take /\ (exec # "relock" => ~PopEmpty)
    BY <2>1, <2>2, PlaceTake
  <2>3. CASE ~(Take /\ (exec # "relock" => ~PopEmpty))
    <3>1. exec' \in {"waiting", "exchange"} /\ UNCHANGED <<sql, pop_mem_offset>>
      BY <1>9, <2>3 DEF ExecLock, ExecWake, ExecRelock
    <3> QED BY <1>1, <2>1, <3>1 DEF written, Exchanging, shared, writer, cache
  <2> QED BY <2>2, <2>3
<1>10. CASE ExecExchange
  BY <1>10, PlaceExchange
<1>11. CASE ExecRewind \/ ExecRelength \/ ExecEmptyCache
  <2>1. /\ UNCHANGED <<mem, pop_mem, cache_mem, load, file, restarts, mmap_buf_offset, executed, sql>>
        /\ exec # "execute" /\ exec' # "execute"
    BY <1>11 DEF ExecRewind, ExecRelength, ExecEmptyCache, writer, cache
  <2>2. PopFrom' = PopFrom /\ PopTo' = PopTo /\ CacheTo' = CacheTo
    BY <1>11 DEF ExecRewind, Rewind, ExecRelength, ExecEmptyCache, EmptyCache, ThreadInv,
                 PopFrom, PopTo, CacheTo, Exchanging
  <2>3. Still /\ InHand' = InHand /\ written' = written
    BY <2>1, <2>2 DEF Still, InHand, written
  <2> QED BY <1>0, <2>1, <2>3, PlaceStill
<1>12. CASE ExecClear
  <2>1. /\ UNCHANGED <<shared, load, file, restarts, mmap_buf_offset, executed, sql>>
        /\ exec = "clear" /\ exec' = "relock"
    BY <1>12 DEF ExecClear, writer
  <2> QED BY <1>1, <2>1 DEF written, Exchanging
<1>13. CASE ExecExecute
  BY <1>0, <1>13, PlaceExecute
<1>14. CASE SpuriousWakeup
  <2>1. /\ UNCHANGED <<shared, load, file, restarts, mmap_buf_offset, executed, sql>>
        /\ UNCHANGED exec \/ (exec = "waiting" /\ exec' = "woken")
    BY <1>14 DEF SpuriousWakeup, writer
  <2> QED BY <1>1, <2>1 DEF written, Exchanging
<1> QED BY <1>2, <1>3, <1>4, <1>5, <1>6, <1>7, <1>8, <1>9, <1>10, <1>11, <1>12, <1>13, <1>14
        DEF Next, CacheThread, ExecThread

LEMMA KeptNext == OffsetInv /\ LengthInv /\ BatchInv /\ KeptInv /\ [Next]_vars => KeptInv'
<1> SUFFICES ASSUME OffsetInv, LengthInv, BatchInv, KeptInv, [Next]_vars, Orderly', ~collided'
             PROVE  ThreadInv' /\ RoomInv' /\ QueueInv' /\ PlaceInv'
  BY DEF KeptInv
<1>1. Orderly /\ ThreadInv /\ RoomInv /\ QueueInv /\ PlaceInv
  <2>1. load' = load
    BY DEF Next, vars, writer, Write, Restart, CacheThread, CachePoll, CacheOnward, CacheAround, CacheChoose, CacheFill,
           CacheMeasure, CachePublish, CacheQueue, Advance, ExecThread, ExecLock, ExecWake, ExecExchange,
           ExecRewind, ExecRelength, ExecEmptyCache, ExecClear, ExecRelock, ExecExecute, SpuriousWakeup
  <2>2. /\ Behind' <=> Behind
        /\ Uniform' <=> Uniform
        /\ Size(1)' = Size(1)
    BY <2>1, LoadKept
  <2>3. Orderly /\ ~collided
    BY <2>1, <2>2, NotCollided DEF Orderly
  <2> QED BY <2>3 DEF KeptInv
<1>2. ThreadInv' /\ RoomInv'
  BY <1>1, ThreadNext, RoomNext
<1>3. CASE UNCHANGED vars
  <2>1. UNCHANGED <<shared, load, file, restarts, mmap_buf_offset, cacher, read_buf_len, sql_list_buf, exec, sql, executed>>
    BY <1>3 DEF vars, writer, cache, batch, execv
  <2>2. Still /\ InHand' = InHand /\ written' = written
    BY <2>1 DEF Still, InHand, PopFrom, PopTo, CacheTo, Exchanging, written, shared
  <2>3. Regions' /\ PlaceInv'
    BY <1>1, <2>1, <2>2, PlaceStill DEF QueueInv
  <2>4. QueueInv'
    BY <1>1, <2>1, <2>3 DEF QueueInv, shared
  <2> QED BY <1>2, <2>3, <2>4
<1>4. CASE Next
  <2>1. Regions' /\ PlaceInv'
    BY <1>1, <1>4, PlaceNext
  <2>2. QueueInv'
    BY <1>1, <1>4, <2>1, CopyNext DEF QueueInv
  <2> QED BY <1>2, <2>1, <2>2
<1> QED BY <1>3, <1>4

\* The places of SqlCache, one kind at a time.
LEMMA FoundIs ==
  /\ \A i : Found(<<"executed", i>>) = executed[i]
  /\ Found(<<"in hand", 0>>) = sql
  /\ \A i : Found(<<"pop", i>>) = mem[pop_mem][i]
  /\ \A i : Found(<<"cache", i>>) = mem[cache_mem][i]
  /\ \A i : Found(<<"unread", i>>) = i
<1>1. \A s, i : <<s, i>>[1] = s /\ <<s, i>>[2] = i
  OBVIOUS
<1> QED BY <1>1 DEF Found

LEMMA PlaceIs ==
  ASSUME NEW p
  PROVE  p \in Places <=> \/ \E i \in DOMAIN executed : p = <<"executed", i>>
                          \/ exec = "execute" /\ p = <<"in hand", 0>>
                          \/ \E i \in PopFrom..PopTo-1 : p = <<"pop", i>>
                          \/ \E i \in 0..CacheTo-1 : p = <<"cache", i>>
                          \/ \E i \in Unread : p = <<"unread", i>>
<1>1. ASSUME NEW s, NEW S PROVE p \in {s} \X S <=> \E i \in S : p = <<s, i>>
  OBVIOUS
<1>2. p \in {"executed"} \X DOMAIN executed <=> \E i \in DOMAIN executed : p = <<"executed", i>>
  BY <1>1
<1>3. p \in {"pop"} \X (PopFrom..PopTo-1) <=> \E i \in PopFrom..PopTo-1 : p = <<"pop", i>>
  BY <1>1
<1>4. p \in {"cache"} \X (0..CacheTo-1) <=> \E i \in 0..CacheTo-1 : p = <<"cache", i>>
  BY <1>1
<1>5. p \in {"unread"} \X (mmap_buf_offset+1..written) <=> \E i \in Unread : p = <<"unread", i>>
  BY <1>1 DEF Unread
<1>6. p \in (IF exec = "execute" THEN {<<"in hand", 0>>} ELSE {}) <=> exec = "execute" /\ p = <<"in hand", 0>>
  OBVIOUS
<1>7. p \in Places <=> \/ p \in {"executed"} \X DOMAIN executed
                       \/ p \in (IF exec = "execute" THEN {<<"in hand", 0>>} ELSE {})
                       \/ p \in {"pop"} \X (PopFrom..PopTo-1)
                       \/ p \in {"cache"} \X (0..CacheTo-1)
                       \/ p \in {"unread"} \X (mmap_buf_offset+1..written)
  <2>1. ASSUME NEW A, NEW B, NEW C, NEW D, NEW E
        PROVE  p \in A \cup B \cup C \cup D \cup E <=> p \in A \/ p \in B \/ p \in C \/ p \in D \/ p \in E
    OBVIOUS
  <2> QED BY <2>1, Zenon DEF Places
<1> QED BY <1>2, <1>3, <1>4, <1>5, <1>6, <1>7, Zenon

LEMMA KeptImplied == OffsetInv /\ KeptInv => NothingLost
<1> SUFFICES ASSUME OffsetInv, KeptInv, Orderly, ~collided
             PROVE  /\ PopTo <= MaxPush /\ CacheTo <= MaxPush
                    /\ {Found(p) : p \in Places} \ {Inside} = 1..written
                    /\ restarts = 0 => \A p, q \in Places : Found(p) = Found(q) /\ Found(p) # Inside => p = q
  BY DEF NothingLost
<1>1. RoomInv /\ PlaceInv
  BY DEF KeptInv
<1>2. /\ written \in Nat /\ mmap_buf_offset \in 0..written /\ executed \in Seq(0..written)
  BY QueueTypes DEF OffsetInv, TypeOK
<1>3. DOMAIN executed = 1..Len(executed) /\ Len(executed) \in Nat /\ 1..Len(executed) = 1..(Len(executed) + 1 - 1)
  BY <1>2
<1>4. Inside \notin 1..written
  BY <1>2 DEF Inside
<1>5. Done \cup InHand \cup InPop \cup InCache \cup Unread = 1..written
  BY <1>1 DEF PlaceInv
<1>6. ASSUME NEW p \in Places, Found(p) # Inside
      PROVE  \/ \E i \in DOMAIN executed : p = <<"executed", i>> /\ Found(p) = executed[i] /\ Found(p) \in Done
             \/ p = <<"in hand", 0>> /\ Found(p) \in InHand
             \/ \E i \in PopFrom..PopTo-1 : p = <<"pop", i>> /\ Found(p) = mem[pop_mem][i] /\ Found(p) \in InPop
             \/ \E i \in 0..CacheTo-1 : p = <<"cache", i>> /\ Found(p) = mem[cache_mem][i] /\ Found(p) \in InCache
             \/ p = <<"unread", Found(p)>> /\ Found(p) \in Unread
  <2>1. CASE \E i \in DOMAIN executed : p = <<"executed", i>>
    BY <2>1, FoundIs DEF Done, Elements
  <2>2. CASE exec = "execute" /\ p = <<"in hand", 0>>
    BY <2>2, FoundIs DEF InHand
  <2>3. CASE \E i \in PopFrom..PopTo-1 : p = <<"pop", i>>
    <3>1. PICK i \in PopFrom..PopTo-1 : p = <<"pop", i>>
      BY <2>3
    <3>2. Found(p) = mem[pop_mem][i]
      BY <3>1, FoundIs
    <3>3. Found(p) \in InPop
      BY <1>6, <3>2 DEF InPop, Held
    <3> QED BY <3>1, <3>2, <3>3
  <2>4. CASE \E i \in 0..CacheTo-1 : p = <<"cache", i>>
    <3>1. PICK i \in 0..CacheTo-1 : p = <<"cache", i>>
      BY <2>4
    <3>2. Found(p) = mem[cache_mem][i]
      BY <3>1, FoundIs
    <3>3. Found(p) \in InCache
      BY <1>6, <3>2 DEF InCache, Held
    <3> QED BY <3>1, <3>2, <3>3
  <2>5. CASE \E i \in Unread : p = <<"unread", i>>
    BY <2>5, FoundIs
  <2> QED BY <2>1, <2>2, <2>3, <2>4, <2>5, PlaceIs
<1>7. ASSUME NEW n \in 1..written PROVE \E p \in Places : Found(p) = n
  <2>1. CASE n \in Done
    <3>1. PICK i \in DOMAIN executed : n = executed[i]
      BY <2>1 DEF Done, Elements
    <3>2. <<"executed", i>> \in Places
      BY PlaceIs
    <3> QED BY <3>1, <3>2, FoundIs
  <2>2. CASE n \in InHand
    <3>1. <<"in hand", 0>> \in Places /\ n = sql
      BY <2>2, PlaceIs DEF InHand
    <3> QED BY <3>1, FoundIs
  <2>3. CASE n \in InPop
    <3>1. PICK i \in PopFrom..PopTo-1 : n = mem[pop_mem][i]
      BY <2>3 DEF InPop, Held
    <3>2. <<"pop", i>> \in Places
      BY PlaceIs
    <3> QED BY <3>1, <3>2, FoundIs
  <2>4. CASE n \in InCache
    <3>1. PICK i \in 0..CacheTo-1 : n = mem[cache_mem][i]
      BY <2>4 DEF InCache, Held
    <3>2. <<"cache", i>> \in Places
      BY PlaceIs
    <3> QED BY <3>1, <3>2, FoundIs
  <2>5. CASE n \in Unread
    <3>1. <<"unread", n>> \in Places
      BY <2>5, PlaceIs
    <3> QED BY <3>1, FoundIs
  <2> QED BY <1>5, <2>1, <2>2, <2>3, <2>4, <2>5
<1>8. {Found(p) : p \in Places} \ {Inside} = 1..written
  <2>1. ASSUME NEW p \in Places, Found(p) # Inside PROVE Found(p) \in 1..written
    <3>1. Found(p) \in Done \cup InHand \cup InPop \cup InCache \cup Unread
      BY <1>6, <2>1
    <3> QED BY <1>5, <3>1
  <2> QED BY <1>4, <1>7, <2>1
<1>9. ASSUME restarts = 0, NEW p \in Places, NEW q \in Places, Found(p) = Found(q), Found(p) # Inside
      PROVE  p = q
  <2>1. /\ Once(executed, 1, Len(executed) + 1)
        /\ Once(mem[pop_mem], PopFrom, PopTo) /\ Once(mem[cache_mem], 0, CacheTo)
        /\ Done \cap InHand = {} /\ (Done \cup InHand) \cap InPop = {}
        /\ (Done \cup InHand \cup InPop) \cap InCache = {}
        /\ Done \cup InHand \cup InPop \cup InCache \subseteq 1..mmap_buf_offset
    BY <1>1, <1>9 DEF PlaceInv
  <2>2. 1..mmap_buf_offset \cap Unread = {}
    BY <1>2 DEF Unread
  <2>3. /\ Found(p) \in Done => /\ \E i \in DOMAIN executed : p = <<"executed", i>> /\ Found(p) = executed[i]
                                /\ \E i \in DOMAIN executed : q = <<"executed", i>> /\ Found(q) = executed[i]
        /\ Found(p) \in InHand => p = <<"in hand", 0>> /\ q = <<"in hand", 0>>
        /\ Found(p) \in InPop => /\ \E i \in PopFrom..PopTo-1 : p = <<"pop", i>> /\ Found(p) = mem[pop_mem][i]
                                 /\ \E i \in PopFrom..PopTo-1 : q = <<"pop", i>> /\ Found(q) = mem[pop_mem][i]
        /\ Found(p) \in InCache => /\ \E i \in 0..CacheTo-1 : p = <<"cache", i>> /\ Found(p) = mem[cache_mem][i]
                                   /\ \E i \in 0..CacheTo-1 : q = <<"cache", i>> /\ Found(q) = mem[cache_mem][i]
        /\ Found(p) \in Unread => p = <<"unread", Found(p)>> /\ q = <<"unread", Found(q)>>
    BY <1>6, <1>9, <2>1, <2>2
  <2>4. Found(p) \in Done \cup InHand \cup InPop \cup InCache \cup Unread
    BY <1>6, <1>9
  <2>5. CASE Found(p) \in Done
    <3>1. PICK i \in DOMAIN executed, j \in DOMAIN executed :
            /\ p = <<"executed", i>> /\ Found(p) = executed[i]
            /\ q = <<"executed", j>> /\ Found(q) = executed[j]
      BY <2>3, <2>5
    <3>2. i \in 1..(Len(executed) + 1 - 1) /\ j \in 1..(Len(executed) + 1 - 1)
      BY <1>3
    <3>3. executed[i] = executed[j] /\ executed[i] # Inside
      BY <1>9, <3>1
    <3>4. PICK c, b : c = executed /\ b = Len(executed) + 1
      OBVIOUS
    <3>5. Once(c, 1, b) /\ i \in 1..b-1 /\ j \in 1..b-1 /\ c[i] = c[j] /\ c[i] # Inside
      BY <2>1, <3>2, <3>3, <3>4
    <3>6. i = j
      BY <3>5 DEF Once
    <3> QED BY <3>1, <3>6
  <2>6. CASE Found(p) \in InPop
    <3>1. PICK i \in PopFrom..PopTo-1, j \in PopFrom..PopTo-1 :
            /\ p = <<"pop", i>> /\ Found(p) = mem[pop_mem][i]
            /\ q = <<"pop", j>> /\ Found(q) = mem[pop_mem][j]
      BY <2>3, <2>6
    <3>2. i = j
      BY <1>9, <2>1, <3>1 DEF Once
    <3> QED BY <3>1, <3>2
  <2>7. CASE Found(p) \in InCache
    <3>1. PICK i \in 0..CacheTo-1, j \in 0..CacheTo-1 :
            /\ p = <<"cache", i>> /\ Found(p) = mem[cache_mem][i]
            /\ q = <<"cache", j>> /\ Found(q) = mem[cache_mem][j]
      BY <2>3, <2>7
    <3>2. i = j
      BY <1>9, <2>1, <3>1 DEF Once
    <3> QED BY <3>1, <3>2
  <2> QED BY <1>9, <2>3, <2>4, <2>5, <2>6, <2>7
<1> QED BY <1>1, <1>8, <1>9 DEF RoomInv

LEMMA KeptInit == Init => KeptInv
<1> SUFFICES ASSUME Init, Orderly, ~collided PROVE ThreadInv /\ RoomInv /\ QueueInv /\ PlaceInv
  BY DEF KeptInv
<1>1. /\ exec = "lock" /\ cacher = "poll" /\ PopFrom = 0 /\ PopTo = 0 /\ CacheTo = 0 /\ cache_mem_length = 0
      /\ pop_mem_length = 0 /\ executed = <<>> /\ written = 0 /\ mmap_buf_offset = 0
  BY DEF Init, PopFrom, PopTo, CacheTo, Exchanging, written
<1>2. MaxPush \in Nat /\ Size(1) \in Nat /\ load.upto[0] = 0 /\ CacheNow = 0 /\ Coming = 0
  <2>1. OffsetInv
    BY TypesInit, PaceInit DEF OffsetInv
  <2> QED BY <1>1, <2>1, OrderlyLoad, LoadType DEF OffsetInv, TypeOK, CacheNow, Coming
<1>3. ThreadInv
  <2>1. PopFrom <= PopTo
    BY <1>1
  <2> QED BY <1>1, <2>1 DEF ThreadInv
<1>4. RoomInv
  <2>1. /\ PopTo <= MaxPush /\ CacheTo <= MaxPush /\ PopTo + CacheTo <= load.upto[mmap_buf_offset]
        /\ CacheNow + Coming <= Size(1) /\ CacheNow + Coming = 0
    BY <1>1, <1>2
  <2> QED BY <1>1, <2>1 DEF RoomInv
<1>5. QueueInv /\ InPop = {} /\ InCache = {} /\ Once(mem[pop_mem], PopFrom, PopTo) /\ Once(mem[cache_mem], 0, CacheTo)
  BY <1>1, HeldNone DEF QueueInv, Regions, InPop, InCache
<1>6. Done = {} /\ InHand = {} /\ Unread = {} /\ 1..written = {} /\ Once(executed, 1, Len(executed) + 1)
  BY <1>1 DEF Done, Elements, InHand, Unread, Once
<1> QED BY <1>3, <1>4, <1>5, <1>6 DEF PlaceInv

\* A load of one statement at a time, all of one length, loses or repeats a statement only through a
\* copy into pop that falls amid an exchange: until there was one, every statement is in exactly one
\* place (at least one after a restart), for any number and length of statements and any size of the
\* buffers, in every interleaving of the two threads and round the end of the file.
THEOREM StatementsKept == Spec => []NothingLost
<1>1. Init => LengthInv /\ BatchInv
  BY DEF Init, LengthInv, BatchInv, HasBatch
<1> QED BY <1>1, KeptInit, OffsetAlways, LengthNext, BatchNext, KeptNext, KeptImplied, PTL DEF Spec

\* A step that writes is a step of the log, a step that executes takes a statement that was not executed
\* before, and the others do not touch it.
LEMMA LogStep ==
  ASSUME OffsetInv, KeptInv, Next, Orderly, ~collided, restarts = 0, ~UNCHANGED <<written, executed>>
  PROVE  Log!Next
<1>1. CASE Write
  <2>1. written' = written + 1 /\ executed' = executed
    BY <1>1, TypeFile, WriteIs DEF OffsetInv, Write, execv
  <2> QED BY <2>1 DEF Log!Next, Log!Write
<1>2. CASE ExecExecute
  <2>1. exec = "execute" /\ executed' = Append(executed, sql) /\ written' = written
    BY <1>2 DEF ExecExecute, writer, written
  <2>2. PlaceInv /\ InHand = {sql}
    BY <2>1 DEF KeptInv, InHand
  <2>3. sql \in 1..written /\ sql \notin Done
    BY <2>2 DEF PlaceInv
  <2>4. \A i \in DOMAIN executed : executed[i] # sql
    BY <2>3 DEF Done, Elements
  <2> QED BY <2>1, <2>3, <2>4 DEF Log!Next, Log!Execute
<1>3. CASE ~Write /\ ~ExecExecute
  <2>1. UNCHANGED <<file, executed>>
    BY <1>3 DEF Next, writer, execv, Restart, CacheThread, CachePoll, CacheOnward, CacheAround, CacheChoose, CacheFill,
           CacheMeasure, CachePublish, CacheQueue, Advance, ExecThread, ExecLock, ExecWake, ExecExchange,
           ExecRewind, ExecRelength, ExecEmptyCache, ExecClear, ExecRelock, SpuriousWakeup
  <2> QED BY <2>1 DEF written
<1> QED BY <1>1, <1>2, <1>3

\* Under such a load, until a restart or a copy into pop amid an exchange, sql_cache implements the
\* log of the writer: each statement is executed at most once, and nothing else is.
THEOREM LogKept == Spec => KeepsLog
<1>1. Init => LengthInv /\ BatchInv
  BY DEF Init, LengthInv, BatchInv, HasBatch
<1>2. Init => Log!Init
  BY DEF Init, Log!Init, written
<1>3. OffsetInv /\ KeptInv /\ [Next]_vars => [Orderly /\ ~collided /\ restarts = 0 => Log!Next]_<<written, executed>>
  <2> SUFFICES ASSUME OffsetInv, KeptInv, [Next]_vars, ~UNCHANGED <<written, executed>>, Orderly, ~collided, restarts = 0
               PROVE  Log!Next
    OBVIOUS
  <2>1. CASE UNCHANGED vars
    BY <2>1 DEF vars, writer, execv, written
  <2> QED BY <2>1, LogStep
<1> QED BY <1>1, <1>2, <1>3, KeptInit, OffsetAlways, LengthNext, BatchNext, KeptNext, PTL DEF Spec, KeepsLog
=============================================================================
