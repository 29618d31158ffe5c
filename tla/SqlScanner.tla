------------------------------ MODULE SqlScanner ------------------------------
(***************************************************************************)
(* The scanner and the LL parser of src/src/sqlScanner.cpp: one thread,    *)
(* global arrays.  sqlsacnner cuts a statement into words and hands them   *)
(* to llParser.  Nothing is reset between two statements: word keeps the   *)
(* tail of a longer one, and len, the parser's position in it, goes on     *)
(* from where the last statement left it.                                  *)
(*                                                                         *)
(* A statement is a sequence of pieces: a keyword, a run of letters, a     *)
(* digit, a symbol or a space.  A word's number is the keyword or symbol   *)
(* it stands for; "<=" and ">=" share the number 150, here ">=".  The      *)
(* arrays the parser only writes (selectList, setKeys, setValues,          *)
(* setBetween, setOrderBy, setGroupBy, counts) are left out.               *)
(***************************************************************************)
EXTENDS Integers, Sequences, FiniteSets

CONSTANTS Names,        \* runs of letters that are no keyword
          Statements,   \* what the first call may be given
          Again,        \* what later calls may be given
          MaxCalls,     \* bound on the calls of sqlsacnner
          Junk          \* what a function returns that ends without a return

Keywords == {"select", "insert", "delete", "from", "into", "where", "group", "by", "between",
             "and", "or", "primary", "like", "values", "order", "mean", "max", "min", "count",
             "as", "time"}
Letters == Keywords \cup Names
Digits == {"9"}
Symbols == {"<", ">", "=", "&", "(", ")", "*", ";", ",", ".", "|", "-", ":"}
Zero == [num |-> "none", arr |-> <<>>]   \* a cell of word nothing was written to

ASSUME ScannerAssumption ==
  /\ Names \cap (Keywords \cup Digits \cup Symbols \cup {" ", "!", "end"}) = {}
  /\ \A s \in Statements : s \in Seq({s[k] : k \in DOMAIN s} \ {"end"})
  /\ Again \subseteq Statements /\ MaxCalls \in Nat /\ Junk \subseteq Int /\ Junk # {}

VARIABLES
  input, p_input,     \* the statement and the scanner's position in it
  word, i,            \* the words ever written, and how many of this statement
  at,                 \* the function that runs: the program counter
  len, number,        \* the parser's position in word, from 0, and the word there
  clause,             \* where the recursion of a clause is: the keyword it takes, its level
  level, setTableName,
  calls

lexer  == <<input, p_input, word, i, calls>>
parser == <<len, number, clause, level, setTableName>>
vars   == <<lexer, parser, at>>

Init ==
  /\ input = <<>> /\ p_input = 1 /\ word = <<>> /\ i = 0 /\ calls = 0
  /\ at = "idle" /\ len = 0 /\ number = "none" /\ level = 0 /\ setTableName = <<>>
  /\ clause = [takes |-> "none", adds |-> 0]
-----------------------------------------------------------------------------
(* The scanner *)

Piece(p) == IF p \in DOMAIN input THEN input[p] ELSE "end"

\* Where the run of pieces of S from p on ends: m_getch until something else comes, and retract.
Past(p, S) ==
  CHOOSE q \in p..(Len(input) + 1) : Piece(q) \notin S /\ \A k \in p..q-1 : Piece(k) \in S

\* Mutant: the piece that ended the run is not given back.
RunEnd_NoRetract(p, S) == IF Past(p, S) > Len(input) THEN Past(p, S) ELSE Past(p, S) + 1

RunEnd(p, S) == Past(p, S)

\* Mutant: the keywords are counted from 0, the number of an empty cell.
reserver_FromZero(s) == CASE s = <<"select">> -> "none"
                          [] Len(s) = 1 /\ s[1] \in Keywords \ {"select"} -> s[1]
                          [] OTHER -> "name"

\* A word that is exactly a keyword has its number; any other has 100.
reserver(s) == IF Len(s) = 1 /\ s[1] \in Keywords THEN s[1] ELSE "name"

\* The pieces from p on, before q.
Text(p, q) == [k \in 1..(q - p) |-> Piece(p + k - 1)]

\* The word that starts at p, and where the next begins.
Token(p) ==
  LET c == Piece(p)
      twin == Piece(p + 1) = "="
      To(num, q) == [num |-> num, arr |-> Text(p, q), next |-> q]
  IN CASE c \in Letters -> LET q == RunEnd(p, Letters \cup Digits) IN To(reserver(Text(p, q)), q)
       [] c \in Digits -> To("number", RunEnd(p, Digits))
       [] c \in {"<", ">"} /\ twin -> To(">=", p + 2)
       [] c = "!" /\ twin -> To("!=", p + 2)
       [] c \in Symbols /\ ~(c \in {"<", ">"} /\ twin) -> To(c, p + 1)
       [] c = "end" -> To("end", p + 1)
       [] OTHER -> [num |-> "ERROR", arr |-> <<"ERROR">>, next |-> p + 1]

scanner == Token(Past(p_input, {" "}))

Call(s) ==
  /\ at = "idle" /\ calls < MaxCalls
  /\ input' = s /\ p_input' = 1 /\ i' = 0 /\ calls' = calls + 1
  /\ at' = "scan"
  /\ UNCHANGED <<word, parser>>

Num(w, l) == IF l < Len(w) THEN w[l + 1].num ELSE "none"

Put(k, cell) == IF k < Len(word) THEN [word EXCEPT ![k + 1] = cell] ELSE Append(word, cell)

initNumber(w) == number' = Num(w, len)

\* One turn of sqlsacnner's loop.  An error is a word, and the last one.
Scan ==
  LET t == scanner
      w == IF t.num = "end" THEN word ELSE Put(i, [num |-> t.num, arr |-> t.arr])
  IN /\ at = "scan"
     /\ p_input' = t.next
     /\ word' = w
     /\ i' = IF t.num = "end" THEN i ELSE i + 1
     /\ IF t.num \in {"end", "ERROR"} THEN at' = "llParser" /\ initNumber(w)
                                      ELSE UNCHANGED <<at, number>>
     /\ UNCHANGED <<input, calls, len, clause, level, setTableName>>
-----------------------------------------------------------------------------
(* The parser *)

\* n times getWord.
getWords(n) == len' = len + n /\ number' = Num(word, len + n)

Goto(f) == at' = f /\ UNCHANGED lexer

\* Mutant: an unknown statement is skipped, word by word.
llParser_Skips ==
  /\ at = "llParser"
  /\ IF number \in {"select", "insert", "delete"} THEN Goto(number) ELSE Goto("idle")
  /\ getWords(1)
  /\ UNCHANGED <<clause, level, setTableName>>

llParser ==
  /\ at = "llParser"
  /\ IF number \in {"select", "insert", "delete"} THEN Goto(number) /\ getWords(1)
                                                  ELSE Goto("idle") /\ UNCHANGED <<len, number>>
  /\ UNCHANGED <<clause, level, setTableName>>

\* Mutant: a comma is left where it is.
sList_Comma ==
  /\ at = "select"
  /\ \/ number \in {"*", "name"} /\ getWords(1) /\ Goto("selectSql")
     \/ number = "from" /\ Goto("selectSql") /\ UNCHANGED <<len, number>>
     \/ number \notin {"from", "*", "name"} /\ Goto(at) /\ UNCHANGED <<len, number>>
  /\ UNCHANGED <<clause, level, setTableName>>

\* One turn of the loop of sList.  At a word it does not know it turns for ever.
sList ==
  /\ at = "select"
  /\ \/ number \in {"*", "name"} /\ getWords(1) /\ Goto("selectSql")
     \/ number = "," /\ getWords(1) /\ Goto(at)
     \/ number = "from" /\ Goto("selectSql") /\ UNCHANGED <<len, number>>
     \/ number \notin {"from", "*", ",", "name"} /\ Goto(at) /\ UNCHANGED <<len, number>>
  /\ UNCHANGED <<clause, level, setTableName>>

\* isLetter, behind a getWord: a name is taken, anything else stays.
NameNext == Num(word, len + 1) = "name"
TakeName == getWords(IF NameNext THEN 2 ELSE 1)

selectSql ==
  /\ at = "selectSql"
  /\ \/ number = "from" /\ TakeName /\ Goto("allFunc") /\ UNCHANGED level
     \/ number # "from" /\ level' = 0 /\ Goto("idle") /\ UNCHANGED <<len, number>>
  /\ UNCHANGED <<clause, setTableName>>

\* Mutant: the table's name is taken from the position after it.
getTableName_After ==
  setTableName' = IF NameNext /\ len + 2 < Len(word) THEN word[len + 3].arr ELSE setTableName

\* The table's name is the word isLetter has just passed.
getTableName ==
  setTableName' = IF NameNext THEN word[len + 2].arr ELSE setTableName

\* Values are never read: params looks for "(" where the word is still "values".
insertSql ==
  /\ at = "insert"
  /\ \/ number = "into" /\ TakeName /\ getTableName /\ level' \in Junk
     \/ number # "into" /\ level' = 0 /\ UNCHANGED <<len, number, setTableName>>
  /\ Goto("idle") /\ UNCHANGED clause

deleteSql ==
  /\ at = "delete"
  /\ \/ number = "from" /\ TakeName /\ getTableName /\ Goto("allFunc")
     \/ number # "from" /\ Goto("idle") /\ UNCHANGED <<len, number, setTableName>>
  /\ UNCHANGED <<clause, level>>

\* isWhere takes a name; what follows "=" is compared with the "=" itself and never taken.
isWhere ==
  /\ number = "where"
  /\ TakeName
  /\ level' = level + 1
  /\ Goto("idle") /\ UNCHANGED clause

Clauses == {"group", "between", "order"}
LevelOf == [c \in Clauses |-> CASE c = "group" -> 3 [] c = "between" -> 4 [] c = "order" -> 5]

allFunc ==
  /\ at = "allFunc"
  /\ \/ isWhere
     \/ /\ number \in Clauses
        /\ clause' = [takes |-> number, adds |-> LevelOf[number]]
        /\ getWords(1) /\ Goto("clause") /\ UNCHANGED level
     \/ /\ number \notin {"where"} \cup Clauses
        /\ level' = 0
        /\ Goto("idle") /\ UNCHANGED <<len, number, clause>>
  /\ UNCHANGED setTableName

\* isGroupBy does not call itself but isOrderBy, which takes another keyword.
InCalled(kw) == IF kw = "group" THEN "order" ELSE kw

\* One call of isBetweenAnd, isOrderBy or isGroupBy.  It calls again until ";", also at
\* a word none of the calls takes: then the stack overflows.
Clause ==
  /\ at = "clause"
  /\ \/ /\ number = ";"
        /\ level' = level + clause.adds
        /\ Goto("idle") /\ UNCHANGED <<len, number, clause>>
     \/ /\ number \in {clause.takes, "and", "name"}
        /\ getWords(IF number = "name" THEN 2 ELSE 1)
        /\ clause' = [clause EXCEPT !.takes = InCalled(@)]
        /\ Goto(at) /\ UNCHANGED level
     \/ /\ number \notin {clause.takes, InCalled(clause.takes), "and", "name", ";"}
        /\ Goto("overflow") /\ UNCHANGED <<len, number, clause, level>>
     \/ /\ number = InCalled(clause.takes) /\ number # clause.takes
        /\ clause' = [clause EXCEPT !.takes = number]
        /\ Goto(at) /\ UNCHANGED <<len, number, level>>
  /\ UNCHANGED setTableName

Parse == llParser \/ sList \/ selectSql \/ insertSql \/ deleteSql \/ allFunc \/ Clause

Next == (\E s \in IF calls = 0 THEN Statements ELSE Again : Call(s)) \/ Scan \/ Parse

Spec == Init /\ [][Next]_vars

\* A call that was made runs.
FairSpec == Spec /\ WF_vars(Scan \/ Parse)
-----------------------------------------------------------------------------
(* Properties *)

Places == {"idle", "scan", "llParser", "select", "selectSql", "insert", "delete", "allFunc",
           "clause", "overflow"}
Nums == Keywords \cup Symbols \cup {"name", "number", ">=", "!=", "ERROR"}

\* The types of the globals of sqlScanner.cpp.
TypeOK ==
  /\ p_input \in Nat \ {0} /\ i \in Nat /\ calls \in 0..MaxCalls
  /\ \A k \in DOMAIN word : word[k].num \in Nums
  /\ at \in Places /\ len \in Nat /\ number \in Nums \cup {"none"}
  /\ clause.takes \in Clauses \cup {"none"} /\ clause.adds \in 0..5 /\ level \in Int

\* Reference: piece p continues the word of the piece before it.
Joined(p) ==
  LET alnum(q) == Piece(q) \in Letters \cup Digits
      afterNumber == \E q \in 1..p-1 : /\ \A k \in q..p-1 : Piece(k) \in Digits
                                       /\ ~alnum(q - 1)
  IN \/ alnum(p - 1) /\ alnum(p) /\ ~(Piece(p) \in Letters /\ afterNumber)
     \/ Piece(p - 1) \in {"<", ">", "!"} /\ Piece(p) = "="

Starts == {p \in 1..Len(input) : Piece(p) # " " /\ ~Joined(p)}
Bad == {p \in Starts : Piece(p) \notin Letters \cup Digits \cup Symbols /\ ~(Piece(p) = "!" /\ Joined(p + 1))}
Kept == {p \in Starts : \A q \in Bad : p <= q}
WordAt(p) == CHOOSE q \in p..Len(input) : /\ \A k \in p+1..q : Joined(k)
                                          /\ q = Len(input) \/ ~Joined(q + 1)

WordText(p) == IF p \in Bad THEN <<"ERROR">> ELSE SubSeq(input, p, WordAt(p))

\* The words handed to the parser are those of the statement, cut as long as they can be and in
\* order, up to the first error, whatever an earlier statement left in word.
WordsAreTheStatements ==
  at = "llParser" =>
    /\ i = Cardinality(Kept)
    /\ \A p \in Kept :
         LET w == word[Cardinality({q \in Kept : q <= p})]
         IN /\ w.arr = WordText(p)
            /\ (w.num \in Keywords \/ w.num = "name") = (Piece(p) \in Letters)

\* However many statements there are and whatever is in them, the parser does not leave the
\* words that were written: it is at most one word past the last.
StaysInWords == len <= Len(word) + 1

\* Between two functions number is the word at len, not one an earlier statement had there.
Lookahead == at \notin {"idle", "scan"} => number = Num(word, len)

BehindFrom(name) ==
  \E k \in 1..Len(word)-1 : /\ word[k].num \in {"from", "into"}
                            /\ word[k + 1].num = "name" /\ word[k + 1].arr = name

\* The table's name is only ever taken from a name that stands behind "from" or "into", also when
\* the parser starts in the words of an earlier statement.
TableIsNamed == [][setTableName' # setTableName => BehindFrom(setTableName')]_vars

\* No clause but "where" from word l on, and a list of columns sList knows.
Plain(l) ==
  LET rest == l+1..Len(word)
      from == {k \in rest : word[k].num # "," /\ k > l + 1}
  IN /\ \A k \in rest : word[k].num \notin Clauses
     /\ Num(word, l) = "select" =>
          \E k \in from : /\ \A m \in from : k <= m
                          /\ word[k].num \in {"from", "*", "name"}

\* The parser comes to an end with every statement without order, group or between whose list of
\* columns begins with "*" or a name.
PlainStatementsEnd == at = "llParser" /\ Plain(len) ~> at = "idle"
=============================================================================
