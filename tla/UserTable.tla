------------------------------ MODULE UserTable ------------------------------
(***************************************************************************)
(* The users: UserTable of src/src/user/tools.cpp, a hash table of chains  *)
(* behind user_lock, kept beside a table of SQLite by the operations of    *)
(* src/src/user/operationUser.cpp, which clients call concurrently.        *)
(*                                                                         *)
(* An account is a pair <<username, password>>, never empty.  SQLite is    *)
(* external: rows have ascending ids, and one sqlite3_exec, its callbacks  *)
(* included, excludes another.  A function under user_lock is one step, as *)
(* is containsUsername's walk, without the lock, of one bucket.            *)
(*                                                                         *)
(* The code leaves some outcomes open, and so does the model.  users[] and *)
(* User::next are not initialised: the pointer at the end of a chain is    *)
(* null or not.  The hash sums signed characters and may be no bucket.     *)
(* The strings of a user are SQLite's, which may reuse their memory: what  *)
(* is read there afterwards is anything.  A call that leaves users[] or    *)
(* follows a wild pointer gets to "undefined", and the program is followed *)
(* no further.                                                             *)
(***************************************************************************)
EXTENDS Integers, SequencesExt

CONSTANTS Clients, Accounts, NULL,
          Garbage,   \* what is read through a pointer to freed memory
          LastHome,  \* buckets are 0..LastHome (0..99 in the code)
          MaxRows,   \* bound: rows ever inserted
          Loads      \* the conditions considered: records of
                     \*   serial: one call at a time; deletes: users are deleted;
                     \*   unique: the database refuses a username it has;
                     \*   fails: sqlite3_exec may fail;
                     \*   reuses: SQLite reuses the memory of rows it has handed out;
                     \*   home: the hash of each account

User == [who : Accounts, id : Nat]

ASSUME UserAssumption ==
  /\ LastHome \in Nat /\ MaxRows \in Nat /\ IsFiniteSet(Accounts)
  /\ {NULL, Garbage} \cap (Accounts \cup User \cup Int) = {} /\ NULL # Garbage
  /\ \A x \in Loads : /\ {x.serial, x.deletes, x.unique, x.fails, x.reuses} \subseteq BOOLEAN
                      /\ x.home \in [Accounts -> Int]

VARIABLES
  load,
  given, rows,    \* the account of each id the database has given; the ids it still holds
  users,          \* bucket |-> its chain of records [who, id], as SQLite gave them
  closed,         \* bucket |-> is the pointer at the end of its chain null
  lost,           \* ids of users whose strings have been reused since the last start
  pc, call,       \* each client: its place in a call and the call's locals
  missed,         \* did a failure leave a row without a user since the last start
  spoilt          \* history: have strings of any user ever been reused

database == <<given, rows>>
table == <<users, closed, missed>>
strings == <<lost, spoilt>>
vars == <<load, database, table, strings, pc, call>>

Buckets == 0..LastHome
Name(a) == a[1]
NoCall == [op |-> "none", who |-> NULL, at |-> 0, found |-> NULL, answer |-> NULL]
Idle == \A c \in Clients : pc[c] = "idle"
Defined == \A c \in Clients : pc[c] # "undefined"

Ascending(ids) ==
  CHOOSE s \in [1..Cardinality(ids) -> ids] : \A i, j \in DOMAIN s : i < j => s[i] < s[j]

\* The rows of a set of ids, oldest first, as users.
Fetched(ids) ==
  [i \in 1..Cardinality(ids) |-> [who |-> given[Ascending(ids)[i]], id |-> Ascending(ids)[i]]]

\* initUser: every row is inserted into its bucket.
Loaded == [h \in Buckets |-> Fetched({i \in rows : load.home[given[i]] = h})]

\* initUser gets through: every row has a bucket, and its walks ended; the rest is open.
Started == \A i \in rows : load.home[given[i]] \in Buckets

\* The program starts on a database with some accounts of different names.
Init ==
  /\ load \in Loads
  /\ \E S \in SUBSET Accounts : /\ \A a, b \in S : Name(a) = Name(b) => a = b
                                /\ given = SetToSeq(S)
  /\ rows = DOMAIN given
  /\ Started /\ users = Loaded /\ closed \in [Buckets -> BOOLEAN]
  /\ lost = {} /\ spoilt = FALSE
  /\ pc = [c \in Clients |-> "idle"] /\ call = [c \in Clients |-> NoCall]
  /\ missed = FALSE
-----------------------------------------------------------------------------
(* UserTable *)

\* A walk of bucket h comes to an end.
Ends(h) == h \in Buckets /\ closed[h]

\* What a walk of bucket h may read in its users: anything where the strings are lost.
Seen(h) == {s \in [DOMAIN users[h] -> Accounts \cup {<<Garbage, Garbage>>}] :
              \A i \in DOMAIN s : users[h][i].id \notin lost => s[i] = users[h][i].who}

\* Mutant: the new user becomes the only one of its bucket.
insertUsers_Replace(a, new) == [users EXCEPT ![load.home[a]] = new]

\* insertUser, for each of the users new of account a: at the end of its bucket's chain.
insertUsers(a, new) == [users EXCEPT ![load.home[a]] = @ \o new]

\* Mutant: the username is not compared.
selectUser_AnyName(a, seen) ==
  LET chain == users[load.home[a]]
      match == {i \in DOMAIN chain : seen[i][2] = a[2] /\ (Len(chain) > 1 => i > 1)}
  IN IF match = {} THEN NULL ELSE chain[CHOOSE i \in match : \A j \in match : j <= i]

\* Mutant: a user that is alone in its bucket is not looked at either.
selectUser_NotAlone(a, seen) ==
  LET chain == users[load.home[a]]
      match == {i \in DOMAIN chain : seen[i] = a /\ i > 1}
  IN IF match = {} THEN NULL ELSE chain[CHOOSE i \in match : \A j \in match : j <= i]

\* selectUser: the last match; in a chain of two or more the first user is not looked at.
selectUser(a, seen) ==
  LET chain == users[load.home[a]]
      match == {i \in DOMAIN chain : seen[i] = a /\ (Len(chain) > 1 => i > 1)}
  IN IF match = {} THEN NULL ELSE chain[CHOOSE i \in match : \A j \in match : j <= i]

\* The place in its chain of the user that deleteUser deletes, 0 if none.  In a chain of two
\* or more it is the one after the first match, and the last user is not compared.
Doomed(a, seen) ==
  LET chain == users[load.home[a]]
      match == {i \in DOMAIN chain : seen[i] = a /\ (Len(chain) > 1 => i < Len(chain))}
  IN IF match = {} THEN 0
     ELSE IF Len(chain) = 1 THEN 1 ELSE 1 + CHOOSE i \in match : \A j \in match : i <= j

\* Mutant: the name of a user that is not the first of its bucket is not seen.
Named_FirstOnly(a, seen) == 1 \in DOMAIN seen /\ Name(seen[1]) = Name(a)

\* containsUsername in one bucket.
Named(a, seen) == \E i \in DOMAIN seen : Name(seen[i]) = Name(a)
-----------------------------------------------------------------------------
(* addUser, login and deleteUser of operationUser.cpp *)

Begin(c, operation, a, first) ==
  /\ Defined /\ pc[c] = "idle" /\ (load.serial => Idle)
  /\ pc' = [pc EXCEPT ![c] = first]
  /\ call' = [call EXCEPT ![c] = [NoCall EXCEPT !.op = operation, !.who = a]]
  /\ UNCHANGED <<load, database, table, strings>>

Call(c, a) ==
  \/ /\ Len(given) + Cardinality({d \in Clients : call[d].op = "add"}) < MaxRows
     /\ Begin(c, "add", a, "contains")
  \/ Begin(c, "login", a, "find")
  \/ load.deletes /\ Begin(c, "delete", a, "delete row")

Go(c, place) == pc' = [pc EXCEPT ![c] = place]

\* sqlite3_exec returns an error, and the call returns nullptr or false.
Fail(c) ==
  /\ load.fails
  /\ Go(c, "return")
  /\ UNCHANGED <<load, database, users, closed, strings, call>>

\* The call leaves users[] or follows a wild pointer.
Undefined(c) == Go(c, "undefined") /\ UNCHANGED <<load, database, table, strings, call>>

\* Mutant: the loop over the buckets makes one turn too many.
More_OneTooMany(h) == h <= LastHome

\* The loop of containsUsername goes on after bucket h.
More(h) == h < LastHome

CheckName(c) ==
  /\ Defined /\ pc[c] = "contains"
  /\ \E seen \in Seen(call[c].at) : LET h == call[c].at IN
       \/ /\ Named(call[c].who, seen)
          /\ Go(c, "return")
          /\ UNCHANGED <<load, database, table, strings, call>>
       \/ /\ ~Named(call[c].who, seen) /\ Ends(h)
          /\ call' = [call EXCEPT ![c].at = IF More(h) THEN h + 1 ELSE 0]
          /\ Go(c, IF More(h) THEN "contains" ELSE "insert row")
          /\ UNCHANGED <<load, database, table, strings>>
       \/ ~Named(call[c].who, seen) /\ ~Ends(h) /\ Undefined(c)

Taken(a) == load.unique /\ \E i \in rows : Name(given[i]) = Name(a)

InsertRow(c) ==
  /\ Defined /\ pc[c] = "insert row"
  /\ \/ /\ ~Taken(call[c].who)
        /\ given' = Append(given, call[c].who)
        /\ rows' = rows \cup {Len(given')}
        /\ Go(c, "select row")
        /\ UNCHANGED <<load, users, closed, strings, call>>
     \/ /\ Taken(call[c].who)
        /\ Go(c, "return")
        /\ UNCHANGED <<load, database, users, closed, strings, call>>
     \/ Fail(c)
  /\ UNCHANGED missed

\* The rows of this account go to the table, whoever inserted them; the next of a new user is
\* null or not.
SelectRow(c) ==
  /\ Defined /\ pc[c] = "select row"
  /\ LET h == load.home[call[c].who]
         new == Fetched({i \in rows : given[i] = call[c].who})
     IN \/ /\ new = <<>>
           /\ Go(c, "find")
           /\ UNCHANGED <<load, database, table, strings, call>>
        \/ /\ new # <<>> /\ Ends(h)
           /\ users' = insertUsers(call[c].who, new)
           /\ \E end \in BOOLEAN : closed' = [closed EXCEPT ![h] = end]
           /\ Go(c, "find")
           /\ UNCHANGED <<load, database, strings, call, missed>>
        \/ new # <<>> /\ (~Ends(h) \/ Len(new) > 1) /\ Undefined(c)
        \/ Fail(c) /\ missed' = TRUE

Find(c) ==
  /\ Defined /\ pc[c] = "find"
  /\ LET h == load.home[call[c].who] IN
     \/ /\ Ends(h)
        /\ \E seen \in Seen(h) : LET u == selectUser(call[c].who, seen) IN
             /\ call' = [call EXCEPT ![c].found = u]
             /\ Go(c, IF u = NULL THEN "return" ELSE "read")
        /\ UNCHANGED <<load, database, table, strings>>
     \/ ~Ends(h) /\ Undefined(c)

\* getUserid, after user_lock was released.
Read(c) ==
  /\ Defined /\ pc[c] = "read"
  /\ LET u == call[c].found IN
     call' = [call EXCEPT ![c].answer = IF u = Garbage \/ u.id \in lost THEN Garbage ELSE u.id]
  /\ Go(c, "return")
  /\ UNCHANGED <<load, database, table, strings>>

DeleteRow(c) ==
  /\ Defined /\ pc[c] = "delete row"
  /\ \/ /\ rows' = {i \in rows : given[i] # call[c].who}
        /\ Go(c, "delete user")
        /\ UNCHANGED <<load, given, users, closed, strings, call>>
     \/ Fail(c)
  /\ UNCHANGED missed

Remaining(h, i) == IF i = 0 THEN users[h] ELSE RemoveAt(users[h], i)

\* What a call that still points to user u will read when u is freed.
Dangling(u) == [d \in Clients |-> IF pc[d] = "read" /\ call[d].found = u
                                  THEN [call[d] EXCEPT !.found = Garbage] ELSE call[d]]

\* deleteUser of the table.  In a chain without an end it is enough to find a user to delete.
DeleteUser(c) ==
  /\ Defined /\ pc[c] = "delete user"
  /\ LET h == load.home[call[c].who] IN
     \/ /\ h \in Buckets
        /\ \E seen \in Seen(h) : LET i == Doomed(call[c].who, seen) IN
             /\ closed[h] \/ i > 1
             /\ users' = [users EXCEPT ![h] = Remaining(h, i)]
             /\ call' = IF i = 0 THEN call ELSE Dangling(users[h][i])
        /\ Go(c, "return")
        /\ UNCHANGED <<load, database, closed, strings, missed>>
     \/ /\ h \in Buckets =>
              ~closed[h] /\ \E seen \in Seen(h) : ~(Doomed(call[c].who, seen) > 1)
        /\ Undefined(c)

Return(c) ==
  /\ Defined /\ pc[c] = "return"
  /\ Go(c, "idle")
  /\ call' = [call EXCEPT ![c] = NoCall]
  /\ UNCHANGED <<load, database, table, strings>>

Client(c) == \/ CheckName(c) \/ InsertRow(c) \/ SelectRow(c) \/ Find(c) \/ Read(c)
             \/ DeleteRow(c) \/ DeleteUser(c) \/ Return(c)

\* The program ends between calls, and initUser runs again.
Restart ==
  /\ Idle /\ Started
  /\ users' = Loaded /\ closed' \in [Buckets -> BOOLEAN]
  /\ missed' = FALSE /\ lost' = {}
  /\ UNCHANGED <<load, database, spoilt, pc, call>>

All == UNION {{h} \X DOMAIN users[h] : h \in Buckets}
At(x) == users[x[1]][x[2]]

\* Ids of users and of answers: their strings are in memory of SQLite.
Held == {At(x).id : x \in All} \cup {call[d].answer : d \in Clients}

\* SQLite uses the memory of the strings of a row it has handed out for something else.
Overwritten ==
  /\ Defined /\ load.reuses
  /\ \E i \in (Held \cap DOMAIN given) \ lost :
       /\ lost' = lost \cup {i}
       /\ call' = [d \in Clients |-> IF call[d].answer = i
                                     THEN [call[d] EXCEPT !.answer = Garbage] ELSE call[d]]
  /\ spoilt' = TRUE
  /\ UNCHANGED <<load, database, table, pc>>

Next == \/ \E c \in Clients : Client(c) \/ \E a \in Accounts : Call(c, a)
        \/ Restart \/ Overwritten

Spec == Init /\ [][Next]_vars
-----------------------------------------------------------------------------
(* Properties *)

CallPC == {"idle", "contains", "insert row", "select row", "find", "read", "delete row",
           "delete user", "return", "undefined"}
Locals == [op : {"none", "add", "login", "delete"}, who : Accounts \cup {NULL}, at : Buckets,
           found : User \cup {NULL, Garbage}, answer : Nat \cup {NULL, Garbage}]

\* The types of the table, of the rows and of the calls' locals.
TypeOK ==
  /\ load \in Loads /\ given \in Seq(Accounts) /\ rows \subseteq DOMAIN given
  /\ users \in [Buckets -> Seq(User)] /\ closed \in [Buckets -> BOOLEAN]
  /\ lost \subseteq DOMAIN given /\ spoilt \in BOOLEAN
  /\ pc \in [Clients -> CallPC] /\ call \in [Clients -> Locals] /\ missed \in BOOLEAN

\* The conditions under which the table keeps up with the database: no addUser failed
\* half-way since the start; the database has a name once, because it refuses a second one or
\* because containsUsername could be relied on (one call at a time, none failed, no strings
\* lost); and if users are deleted, one call at a time, no strings lost and no two accounts to
\* a bucket.  Strings may be lost where nothing depends on comparing them.
Apart == \A a, b \in Accounts : load.home[a] = load.home[b] => a = b
Fair == /\ ~missed
        /\ load.unique \/ (load.serial /\ ~load.fails /\ ~spoilt)
        /\ ~load.deletes \/ (load.serial /\ Apart /\ ~spoilt)

\* Under these conditions, whenever no call is under way the table has a user for each row of
\* the database, and none besides.
CacheAgrees ==
  Idle /\ Fair =>
    /\ {At(x) : x \in All} = {[who |-> given[i], id |-> i] : i \in rows}
    /\ Cardinality(All) = Cardinality(rows)

\* Two clients that add the same name at once do not both get it into the table, if the
\* database refuses double names; failures and lost strings do not matter, unless users are
\* deleted, when calls must come one at a time and strings stay.
NameOnce ==
  load.unique /\ (~load.deletes \/ (load.serial /\ ~spoilt)) =>
    \A x, y \in All : Name(At(x).who) = Name(At(y).who) => x = y

\* What addUser and login answer is an id that the database gave to the very account they
\* were called with, though chains are damaged, rows have gone and comparisons read lost
\* strings; else it is garbage, and then strings were lost or a deletion came between.
AnswerIsOwn ==
  \A c \in Clients :
    pc[c] = "return" /\ call[c].answer # NULL =>
      \/ call[c].answer \in DOMAIN given /\ given[call[c].answer] = call[c].who
      \/ call[c].answer = Garbage /\ (lost # {} \/ (load.deletes /\ ~load.serial))

\* Called one at a time under the conditions of CacheAgrees, login refuses someone the
\* database has only if the user's strings are lost or it is the first of a longer chain.
LoginWorks ==
  \A c \in Clients :
    pc[c] = "return" /\ call[c].op = "login" /\ call[c].answer = NULL /\ load.serial /\ Fair =>
      \A i \in rows : given[i] = call[c].who =>
        LET chain == users[load.home[given[i]]]
        IN i \in lost \/ (Len(chain) > 1 /\ Head(chain).id = i)
=============================================================================
