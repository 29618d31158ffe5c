--------------------------- MODULE SqlScannerProofs ---------------------------
(***************************************************************************)
(* For all statements and any number of calls: the globals have their      *)
(* types, the scanner hands over the words of the statement, the parser    *)
(* stays in the words that were written and names a table only where a     *)
(* statement does.                                                         *)
(***************************************************************************)
EXTENDS SqlScanner, FiniteSetTheorems, WellFoundedInduction, TLAPS

\* What the parser relies on between its functions: a clause takes a keyword, and number is the
\* word at len.
ScanInv ==
  /\ \E S : word \in Seq(S)
  /\ len \in Nat
  /\ clause \in [takes : Clauses \cup {"none"}, adds : Int]
  /\ at = "clause" => clause.takes # "none"
  /\ Lookahead
  /\ StaysInWords

\* A cell is written in place or behind the last.
LEMMA PutType ==
  ASSUME NEW S, word \in Seq(S), NEW k \in Nat, NEW cell
  PROVE  /\ Put(k, cell) \in Seq(S \cup {cell})
         /\ Len(Put(k, cell)) >= Len(word)
<1>1. word \in Seq(S \cup {cell})
  OBVIOUS
<1>2. CASE k < Len(word)
  <2>1. k + 1 \in 1..Len(word)
    BY <1>2
  <2> QED BY <1>1, <1>2, <2>1 DEF Put
<1>3. CASE ~(k < Len(word))
  BY <1>1, <1>3 DEF Put
<1> QED BY <1>2, <1>3

\* A word that is there is before the end; so one more step stays within.
LEMMA GetWordStays ==
  ASSUME ScanInv, NEW n \in {1, 2}, getWords(n), UNCHANGED word,
         Num(word, len + n - 1) # "none" \/ (n = 2 /\ Num(word, len) # "none")
  PROVE  /\ len' \in Nat /\ len' <= Len(word') + 1
         /\ number' = Num(word', len')
<1>1. Len(word) \in Nat
  BY DEF ScanInv
<1> QED BY <1>1 DEF ScanInv, getWords, Num

\* A word is put into its place and, behind the last one, the parser is started at len.
LEMMA ScanKeeps ==
  ASSUME ScanInv, i \in Nat, Scan
  PROVE  ScanInv' /\ i' \in Nat
<1> DEFINE t == scanner
           cell == [num |-> t.num, arr |-> t.arr]
           w == IF t.num = "end" THEN word ELSE Put(i, cell)
<1>1. PICK S : word \in Seq(S)
  BY DEF ScanInv
<1>2. word' = w /\ w \in Seq(S \cup {cell}) /\ Len(w) >= Len(word) /\ Len(w) \in Nat
  <2>1. word' = w
    BY DEF Scan
  <2> HIDE DEF t, cell
  <2>2. CASE t.num = "end"
    BY <1>1, <2>1, <2>2
  <2>3. CASE t.num # "end"
    <3>1. Put(i, cell) \in Seq(S \cup {cell}) /\ Len(Put(i, cell)) >= Len(word)
      BY <1>1, PutType
    <3>2. w = Put(i, cell)
      BY <2>3
    <3> HIDE DEF w
    <3> QED BY <2>1, <3>1, <3>2
  <2> QED BY <2>2, <2>3
<1>3. /\ UNCHANGED <<len, clause>> /\ i' \in Nat
      /\ \/ at' = "llParser" /\ number' = Num(w, len)
         \/ at' = "scan"
  BY DEF Scan, initNumber
<1> HIDE DEF w, cell, t
<1>4. Len(word) \in Nat
  BY <1>1
<1>5. \E T : word' \in Seq(T)
  BY <1>2
<1>6. StaysInWords'
  BY <1>2, <1>3, <1>4 DEF ScanInv, StaysInWords
<1>7. Lookahead'
  BY <1>2, <1>3 DEF ScanInv, Lookahead
<1> QED BY <1>3, <1>5, <1>6, <1>7 DEF ScanInv

\* A step that takes words keeps the invariant, if the words were there and at' is no clause
\* without a keyword.
LEMMA TakeKeeps ==
  ASSUME ScanInv, NEW n \in {1, 2}, getWords(n), UNCHANGED word,
         Num(word, len + n - 1) # "none" \/ (n = 2 /\ Num(word, len) # "none"),
         clause' \in [takes : Clauses \cup {"none"}, adds : Int],
         at' = "clause" => clause'.takes # "none"
  PROVE  ScanInv'
<1>1. len' \in Nat /\ len' <= Len(word') + 1 /\ number' = Num(word', len')
  BY GetWordStays
<1> QED BY <1>1 DEF ScanInv, Lookahead, StaysInWords

\* ... and so does one that takes none.
LEMMA StayKeeps ==
  ASSUME ScanInv, UNCHANGED <<word, len, number>>, at \notin {"idle", "scan"},
         clause' \in [takes : Clauses \cup {"none"}, adds : Int],
         at' = "clause" => clause'.takes # "none"
  PROVE  ScanInv'
BY DEF ScanInv, Lookahead, StaysInWords, Num

\* What a function of the parser sees when it starts.
LEMMA AtWord ==
  ASSUME ScanInv, at \notin {"idle", "scan"}
  PROVE  /\ number = Num(word, len) /\ len \in Nat
         /\ clause \in [takes : Clauses \cup {"none"}, adds : Int]
BY DEF ScanInv, Lookahead

\* isLetter behind a getWord takes one word or, if the next is a name, two.
LEMMA TakeNameKeeps ==
  ASSUME ScanInv, at \notin {"idle", "scan"}, number # "none", TakeName,
         UNCHANGED <<word, clause>>, at' # "clause"
  PROVE  ScanInv'
<1>1. number = Num(word, len) /\ len \in Nat
  BY AtWord
<1>2. CASE NameNext
  <2>1. getWords(2) /\ Num(word, len + 2 - 1) # "none"
    BY <1>1, <1>2 DEF TakeName, NameNext
  <2> QED BY <2>1, TakeKeeps, AtWord
<1>3. CASE ~NameNext
  <2>1. getWords(1) /\ Num(word, len + 1 - 1) # "none"
    BY <1>1, <1>3 DEF TakeName
  <2> QED BY <2>1, TakeKeeps, AtWord
<1> QED BY <1>2, <1>3

LEMMA ParseKeeps ==
  ASSUME ScanInv, Parse
  PROVE  ScanInv'
<1>1. /\ at \notin {"idle", "scan"} /\ UNCHANGED lexer
  BY DEF Parse, llParser, sList, selectSql, insertSql, deleteSql, allFunc, isWhere, Clause, Goto
<1>2. /\ number = Num(word, len) /\ len \in Nat /\ UNCHANGED word
      /\ clause \in [takes : Clauses \cup {"none"}, adds : Int]
  BY <1>1, AtWord DEF lexer
<1>3. ASSUME number # "none", getWords(1), UNCHANGED clause, at' # "clause"
      PROVE  ScanInv'
  <2>1. Num(word, len + 1 - 1) # "none"
    BY <1>2, <1>3
  <2> QED BY <1>2, <1>3, <2>1, TakeKeeps
<1>4. ASSUME UNCHANGED <<len, number, clause>>, at' # "clause"
      PROVE  ScanInv'
  BY <1>1, <1>2, <1>4, StayKeeps
<1>5. CASE llParser
  BY <1>3, <1>4, <1>5 DEF llParser, Goto
<1>6. CASE sList
  BY <1>3, <1>4, <1>6 DEF sList, Goto
<1>7. CASE selectSql
  BY <1>1, <1>2, <1>4, <1>7, TakeNameKeeps DEF selectSql, Goto
<1>8. CASE insertSql
  BY <1>1, <1>2, <1>4, <1>8, TakeNameKeeps DEF insertSql, Goto
<1>9. CASE deleteSql
  BY <1>1, <1>2, <1>4, <1>9, TakeNameKeeps DEF deleteSql, Goto
<1>10. CASE allFunc
  <2>1. CASE isWhere
    BY <1>1, <1>2, <2>1, TakeNameKeeps DEF isWhere, Goto
  <2>2. CASE /\ number \in Clauses
             /\ clause' = [takes |-> number, adds |-> LevelOf[number]]
             /\ getWords(1) /\ Goto("clause")
    <3>1. number # "none" /\ LevelOf[number] \in Int
      BY <2>2 DEF Clauses, LevelOf
    <3>2. Num(word, len + 1 - 1) # "none"
      BY <1>2, <3>1
    <3> QED BY <1>2, <2>2, <3>1, <3>2, TakeKeeps
  <2>3. CASE Goto("idle") /\ UNCHANGED <<len, number, clause>>
    BY <1>4, <2>3 DEF Goto
  <2> QED BY <1>10, <2>1, <2>2, <2>3 DEF allFunc
<1>11. CASE Clause
  <2>1. clause.takes \in Clauses /\ InCalled(clause.takes) \in Clauses
    BY <1>2, <1>11 DEF Clause, ScanInv, InCalled, Clauses
  <2>2. CASE Goto("idle") /\ UNCHANGED <<len, number, clause>>
    BY <1>4, <2>2 DEF Goto
  <2>3. CASE /\ number \in {clause.takes, "and", "name"}
             /\ getWords(IF number = "name" THEN 2 ELSE 1)
             /\ clause' = [clause EXCEPT !.takes = InCalled(@)]
    <3>1. number # "none"
      BY <2>1, <2>3 DEF Clauses
    <3>2. clause' \in [takes : Clauses \cup {"none"}, adds : Int] /\ clause'.takes # "none"
      BY <1>2, <2>1, <2>3 DEF Clauses
    <3>3. CASE number = "name"
      <4>1. getWords(2) /\ Num(word, len) # "none"
        BY <1>2, <2>3, <3>1, <3>3
      <4> QED BY <1>2, <3>2, <4>1, TakeKeeps
    <3>4. CASE number # "name"
      <4>1. getWords(1) /\ Num(word, len + 1 - 1) # "none"
        BY <1>2, <2>3, <3>1, <3>4
      <4> QED BY <1>2, <3>2, <4>1, TakeKeeps
    <3> QED BY <3>3, <3>4
  <2>4. CASE Goto("overflow") /\ UNCHANGED <<len, number, clause>>
    BY <1>4, <2>4 DEF Goto
  <2>5. CASE /\ number = InCalled(clause.takes)
             /\ clause' = [clause EXCEPT !.takes = number]
             /\ UNCHANGED <<len, number>>
    <3>1. clause' \in [takes : Clauses \cup {"none"}, adds : Int] /\ clause'.takes # "none"
      BY <1>2, <2>1, <2>5 DEF Clauses
    <3> QED BY <1>1, <1>2, <2>5, <3>1, StayKeeps
  <2> QED BY <1>11, <2>2, <2>3, <2>4, <2>5 DEF Clause
<1> QED BY <1>5, <1>6, <1>7, <1>8, <1>9, <1>10, <1>11 DEF Parse

LEMMA Inductive == Spec => [](ScanInv /\ i \in Nat)
<1> DEFINE IInv == ScanInv /\ i \in Nat
<1>1. Init => IInv
  <2> SUFFICES ASSUME Init PROVE IInv
    OBVIOUS
  <2>1. word \in Seq({}) /\ Len(word) = 0
    BY DEF Init
  <2> QED BY <2>1 DEF Init, ScanInv, Lookahead, StaysInWords
<1>2. IInv /\ [Next]_vars => IInv'
  <2> SUFFICES ASSUME IInv, [Next]_vars PROVE IInv'
    OBVIOUS
  <2>1. ASSUME NEW s, Call(s) PROVE IInv'
    BY <2>1 DEF Call, parser, ScanInv, Lookahead, StaysInWords
  <2>2. CASE Scan
    BY <2>2, ScanKeeps
  <2>3. CASE Parse
    <3>1. i' = i
      BY <2>3 DEF Parse, llParser, sList, selectSql, insertSql, deleteSql, allFunc, isWhere,
                  Clause, Goto, lexer
    <3> QED BY <2>3, <3>1, ParseKeeps
  <2>4. CASE UNCHANGED vars
    BY <2>4 DEF vars, lexer, parser, ScanInv, Lookahead, StaysInWords, Num
  <2> QED BY <2>1, <2>2, <2>3, <2>4 DEF Next
<1> QED BY <1>1, <1>2, PTL DEF Spec

\* However many statements the parser is given, and whatever they are, len stays in the words
\* ever written: it is never more than one past the last.
THEOREM ParserStaysInWords == Spec => []StaysInWords
<1>1. ScanInv => StaysInWords
  BY DEF ScanInv
<1> QED BY <1>1, Inductive, PTL

\* The name of the table never comes from anywhere but behind a "from" or an "into", also when
\* the parser starts in the words of an earlier statement.
THEOREM TableNameIsNamed == Spec => TableIsNamed
<1>1. ASSUME ScanInv, at \in {"insert", "delete"}, number \in {"from", "into"}, getTableName,
             setTableName' # setTableName
      PROVE  BehindFrom(setTableName')
  <2>1. number = Num(word, len) /\ len \in Nat /\ Len(word) \in Nat
    BY <1>1, AtWord DEF ScanInv
  <2>2. NameNext /\ setTableName' = word[len + 2].arr
    BY <1>1 DEF getTableName
  <2>3. len + 1 < Len(word) /\ word[len + 1].num = number /\ word[len + 2].num = "name"
    BY <1>1, <2>1, <2>2 DEF Num, NameNext
  <2>4. len + 1 \in 1..Len(word)-1
    BY <2>1, <2>3
  <2> QED BY <1>1, <2>1, <2>2, <2>3, <2>4 DEF BehindFrom
<1>2. ASSUME ScanInv, [Next]_vars, setTableName' # setTableName
      PROVE  BehindFrom(setTableName')
  <2>1. insertSql \/ deleteSql
    BY <1>2 DEF Next, Call, Scan, Parse, llParser, sList, selectSql, allFunc, isWhere, Clause,
                vars, parser
  <2>2. CASE insertSql
    BY <1>1, <1>2, <2>2 DEF insertSql
  <2>3. CASE deleteSql
    BY <1>1, <1>2, <2>3 DEF deleteSql
  <2> QED BY <2>1, <2>2, <2>3
<1>3. ScanInv /\ [Next]_vars => [setTableName' # setTableName => BehindFrom(setTableName')]_vars
  BY <1>2
<1> QED BY <1>3, Inductive, PTL DEF Spec, TableIsNamed
-----------------------------------------------------------------------------
(* Types *)

LEMMA Least ==
  ASSUME NEW S, S \subseteq Nat, S # {} PROVE \E x \in S : \A y \in S : x <= y
<1>1. PICK x \in S : \A y \in S : ~(<<y, x>> \in OpToRel(<, Nat))
  BY NatLessThanWellFounded, WFMin
<1>2. x \in Nat /\ \A y \in S : y \in Nat /\ ~(y < x)
  BY <1>1 DEF OpToRel
<1>3. \A y \in S : x <= y
  BY <1>2
<1> QED BY <1>3

\* The statement is a sequence, and the scanner has not passed its end.
InputInv ==
  /\ \E S : input \in Seq(S) /\ "end" \notin S
  /\ Len(input) \in Nat /\ DOMAIN input = 1..Len(input)
  /\ at = "scan" => p_input \in 1..Len(input)+1

\* A run ends in the statement or behind it.
LEMMA RunEnds ==
  ASSUME InputInv, NEW p \in 1..Len(input)+1, NEW S, "end" \notin S
  PROVE  /\ Past(p, S) \in p..Len(input)+1 /\ Piece(Past(p, S)) \notin S
         /\ \A k \in p..Past(p, S)-1 : Piece(k) \in S
<1> DEFINE n == Len(input) + 1
           out == {q \in p..n : Piece(q) \notin S}
<1>1. n \in out /\ out \subseteq Nat
  BY DEF InputInv, Piece
<1>2. PICK q \in out : \A k \in out : q <= k
  BY <1>1, Least
<1>3. q \in p..n /\ Piece(q) \notin S /\ \A k \in p..q-1 : Piece(k) \in S
  <2>1. \A k \in p..q-1 : k \in p..n /\ ~(q <= k)
    BY <1>2 DEF InputInv
  <2> QED BY <1>2, <2>1
<1> QED BY <1>3 DEF Past

\* Where a word that begins at p ends, by what it begins with.
LEMMA TokenShapes ==
  ASSUME NEW p
  PROVE  \/ /\ Token(p).num = reserver(Text(p, RunEnd(p, Letters \cup Digits)))
            /\ Token(p).next = RunEnd(p, Letters \cup Digits)
         \/ Token(p).num = "number" /\ Token(p).next = RunEnd(p, Digits)
         \/ Token(p).num \in {">=", "!="} /\ Token(p).next = p + 2 /\ Piece(p + 1) = "="
         \/ /\ Token(p).num \in Symbols /\ Piece(p) \in Symbols
            /\ Token(p).next = p + 1
         \/ Token(p).num \in {"end", "ERROR"} /\ Token(p).next = p + 1
<1> DEFINE twin == Piece(p + 1) = "="
<1>1. CASE Piece(p) \in Letters
  BY <1>1 DEF Token
<1>2. CASE Piece(p) \in Digits /\ Piece(p) \notin Letters
  BY <1>2 DEF Token
<1>3. CASE Piece(p) \in {"<", ">"} /\ twin /\ Piece(p) \notin Letters \cup Digits
  BY <1>3 DEF Token
<1>4. CASE Piece(p) = "!" /\ twin /\ Piece(p) \notin Letters \cup Digits
  BY <1>4 DEF Token
<1>5. CASE /\ Piece(p) \in Symbols /\ ~(Piece(p) \in {"<", ">"} /\ twin)
           /\ Piece(p) \notin Letters \cup Digits
  BY <1>5 DEF Token, Symbols
<1>6. CASE /\ Piece(p) \notin Symbols /\ ~(Piece(p) \in {"<", ">"} /\ twin)
           /\ ~(Piece(p) = "!" /\ twin)
           /\ Piece(p) \notin Letters \cup Digits
  BY <1>6 DEF Token
<1> QED BY <1>1, <1>2, <1>3, <1>4, <1>5, <1>6

LEMMA StatementsAreSequences ==
  /\ \A s \in Statements : /\ Len(s) \in Nat /\ DOMAIN s = 1..Len(s)
                           /\ \E S : s \in Seq(S) /\ "end" \notin S
  /\ Again \subseteq Statements /\ MaxCalls \in Nat /\ Junk \subseteq Int
<1>1. ASSUME NEW s \in Statements
      PROVE  \E S : s \in Seq(S) /\ "end" \notin S
  <2> DEFINE S == {s[k] : k \in DOMAIN s} \ {"end"}
  <2>1. s \in Seq(S)
    BY ScannerAssumption
  <2>2. "end" \notin S
    OBVIOUS
  <2> HIDE DEF S
  <2> QED BY <2>1, <2>2
<1>2. \A S : \A s \in Seq(S) : Len(s) \in Nat /\ DOMAIN s = 1..Len(s)
  OBVIOUS
<1> QED BY <1>1, <1>2, ScannerAssumption

\* A word begins in the statement or is its end, and the next begins behind it.
LEMMA TokenTyped ==
  ASSUME InputInv, NEW p \in 1..Len(input)+1
  PROVE  /\ Token(p).num \in Nums \cup {"end"} /\ Token(p).next \in Nat \ {0}
         /\ Token(p).num \notin {"end", "ERROR"} => Token(p).next \in 1..Len(input)+1
<1> DEFINE c == Piece(p)
           n == Len(input) + 1
<1>1. "end" \notin Letters \cup Digits
  BY ScannerAssumption DEF Letters, Digits, Keywords
<1>2. /\ RunEnd(p, Letters \cup Digits) \in p..n
      /\ RunEnd(p, Digits) \in p..n
  BY <1>1, RunEnds DEF RunEnd
<1>3. \A q \in Nat : Piece(q) # "end" => q \in 1..Len(input)
  BY DEF Piece, InputInv
<1>4. p \in Nat /\ n \in Nat /\ Len(input) \in Nat
  BY DEF InputInv
<1>5. c # "end" => p + 1 \in 1..n
  BY <1>3, <1>4
<1>6. Piece(p + 1) = "=" => p + 2 \in 1..n
  BY <1>3, <1>4
<1>7. \A s : reserver(s) \in Nums /\ reserver(s) \notin {"end", "ERROR"}
  BY DEF reserver, Nums, Keywords
<1>8. "end" \notin Symbols /\ "ERROR" \notin Symbols /\ "end" \notin Letters \cup Digits
  BY <1>1 DEF Symbols
<1> DEFINE t == Token(p)
<1> HIDE DEF n, c, t
<1>9. CASE t.num \in Nums \ {"ERROR"} /\ t.next \in p..n
  BY <1>4, <1>8, <1>9 DEF t, n
<1>10. CASE t.num \in {"end", "ERROR"} /\ t.next = p + 1
  BY <1>4, <1>10 DEF Nums, t
<1>11. p + 1 \in 1..n => p + 1 \in p..n
  BY <1>4
<1>12. \/ t.num \in Nums \ {"ERROR"} /\ t.next \in p..n
       \/ t.num \in {"end", "ERROR"} /\ t.next = p + 1
  <2>1. Symbols \cup {"number", ">=", "!="} \subseteq Nums \ {"ERROR"}
    BY <1>8 DEF Nums
  <2>2. \A q \in Symbols : q # "end"
    BY <1>8
  <2>3. p + 2 \in 1..n => p + 2 \in p..n
    BY <1>4
  <2> QED BY <1>2, <1>5, <1>6, <1>7, <1>11, <2>1, <2>2, <2>3, TokenShapes DEF t, c
<1> QED BY <1>9, <1>10, <1>12

TypesInv == ScanInv /\ InputInv /\ TypeOK

LEMMA TypesScan == ASSUME TypesInv, Scan PROVE TypesInv'
<1> DEFINE t == scanner
           cell == [num |-> t.num, arr |-> t.arr]
<1>1. /\ t.num \in Nums \cup {"end"} /\ t.next \in Nat \ {0}
      /\ t.num \notin {"end", "ERROR"} => t.next \in 1..Len(input)+1
  <2>1. p_input \in 1..Len(input)+1 /\ "end" \notin {" "}
    BY DEF TypesInv, InputInv, Scan
  <2>2. Past(p_input, {" "}) \in p_input..Len(input)+1
    BY <2>1, RunEnds DEF TypesInv
  <2>3. Past(p_input, {" "}) \in 1..Len(input)+1
    <3>1. Len(input) \in Nat
      BY DEF TypesInv, InputInv
    <3>2. \A n \in Nat : \A p \in 1..n+1 : \A q \in p..n+1 : q \in 1..n+1
      OBVIOUS
    <3> QED BY <2>1, <2>2, <3>1, <3>2
  <2> QED BY <2>3, TokenTyped DEF TypesInv, scanner
<1>2. ScanInv' /\ i' \in Nat
  BY ScanKeeps DEF TypesInv, TypeOK
<1>3. InputInv'
  BY <1>1 DEF Scan, TypesInv, InputInv
<1>4. \A k \in DOMAIN word' : word'[k].num \in Nums
  <2>1. PICK S : word \in Seq(S)
    BY DEF TypesInv, ScanInv
  <2>2. CASE t.num = "end"
    BY <2>2 DEF Scan, TypesInv, TypeOK
  <2>3. CASE t.num # "end"
    <3>1. word' = Put(i, cell) /\ cell.num \in Nums
      BY <1>1, <2>3 DEF Scan
    <3> HIDE DEF t, cell
    <3> DEFINE T == {x \in S : x.num \in Nums}
    <3>2. word \in Seq(T)
      BY <2>1 DEF TypesInv, TypeOK
    <3>3. \A x \in T \cup {cell} : x.num \in Nums
      BY <3>1
    <3> HIDE DEF T
    <3>4. word' \in Seq(T \cup {cell})
      BY <3>1, <3>2, PutType DEF TypesInv, TypeOK
    <3> QED BY <3>3, <3>4
  <2> QED BY <2>2, <2>3
<1>5. number' \in Nums \cup {"none"}
  <2>1. number' = number \/ number' = Num(word', len)
    BY DEF Scan, initNumber
  <2>2. number \in Nums \cup {"none"} /\ \E S : word' \in Seq(S)
    BY <1>2 DEF TypesInv, TypeOK, ScanInv
  <2>3. len \in Nat
    BY DEF TypesInv, ScanInv
  <2> QED BY <1>4, <2>1, <2>2, <2>3 DEF Num
<1>6. /\ p_input' \in Nat \ {0} /\ UNCHANGED <<calls, len, clause, level>>
      /\ at' \in Places
  BY <1>1 DEF Scan, Places
<1> QED BY <1>2, <1>3, <1>4, <1>5, <1>6 DEF TypesInv, TypeOK

LEMMA TypesParse == ASSUME TypesInv, Parse PROVE TypesInv'
<1>1. ScanInv' /\ UNCHANGED lexer /\ at' \in Places /\ at' # "scan"
  BY ParseKeeps DEF TypesInv, Parse, llParser, sList, selectSql, insertSql, deleteSql, allFunc,
                    isWhere, Clause, Goto, Places
<1>2. InputInv'
  BY <1>1 DEF TypesInv, InputInv, lexer
<1>3. number' \in Nums \cup {"none"} /\ len' \in Nat
  <2>1. /\ number \in Nums \cup {"none"} /\ len \in Nat
        /\ \A k \in DOMAIN word : word[k].num \in Nums
        /\ \E S : word \in Seq(S)
    BY DEF TypesInv, TypeOK, ScanInv
  <2>2. UNCHANGED <<len, number>> \/ getWords(1) \/ getWords(2)
    BY DEF Parse, llParser, sList, selectSql, insertSql, deleteSql, allFunc, isWhere, Clause, TakeName
  <2>3. \A l \in Nat : Num(word, l) \in Nums \cup {"none"}
    BY <2>1 DEF Num
  <2> QED BY <2>1, <2>2, <2>3 DEF getWords
<1>4. /\ clause'.takes \in Clauses \cup {"none"} /\ clause'.adds \in 0..5
  <2>1. /\ clause \in [takes : Clauses \cup {"none"}, adds : Int] /\ clause.adds \in 0..5
        /\ at = "clause" => clause.takes # "none"
    BY DEF TypesInv, ScanInv, TypeOK
  <2>2. \/ UNCHANGED clause
        \/ \E k \in Clauses : clause' = [takes |-> k, adds |-> LevelOf[k]]
        \/ \E k \in Clauses : clause' = [clause EXCEPT !.takes = k]
    <3>1. CASE Clause
      BY <2>1, <3>1 DEF Clause, InCalled, Clauses
    <3>2. CASE ~Clause
      BY <3>2 DEF Parse, llParser, sList, selectSql, insertSql, deleteSql, allFunc, isWhere
    <3> QED BY <3>1, <3>2
  <2>3. \A k \in Clauses : LevelOf[k] \in 0..5
    BY DEF LevelOf, Clauses
  <2> QED BY <2>1, <2>2, <2>3
<1>5. level' \in Int
  <2>1. level \in Int /\ clause.adds \in Int
    <3>1. \A x \in 0..5 : x \in Int
      OBVIOUS
    <3> QED BY <3>1 DEF TypesInv, TypeOK
  <2>2. \/ UNCHANGED level \/ level' = 0 \/ level' \in Junk \/ level' = level + 1
        \/ level' = level + clause.adds
    BY DEF Parse, llParser, sList, selectSql, insertSql, deleteSql, allFunc, isWhere, Clause
  <2>3. \A x \in Junk : x \in Int
    BY StatementsAreSequences
  <2> QED BY <2>1, <2>2, <2>3
<1> QED BY <1>1, <1>2, <1>3, <1>4, <1>5 DEF TypesInv, TypeOK, lexer

LEMMA TypesInductive == Spec => []TypesInv
<1>1. Init => TypesInv
  <2> SUFFICES ASSUME Init PROVE TypesInv
    OBVIOUS
  <2>1. /\ word \in Seq({}) /\ Len(word) = 0 /\ Len(input) = 0 /\ DOMAIN input = 1..0
        /\ input \in Seq({}) /\ "end" \notin {}
    BY DEF Init
  <2>2. ScanInv
    BY <2>1 DEF Init, ScanInv, Lookahead, StaysInWords
  <2>3. InputInv
    BY <2>1 DEF Init, InputInv
  <2>4. TypeOK
    BY <2>1, StatementsAreSequences DEF Init, TypeOK, Places
  <2> QED BY <2>2, <2>3, <2>4 DEF TypesInv
<1>2. TypesInv /\ [Next]_vars => TypesInv'
  <2> SUFFICES ASSUME TypesInv, [Next]_vars PROVE TypesInv'
    OBVIOUS
  <2>1. ASSUME NEW s \in Statements, Call(s) PROVE TypesInv'
    <3>1. ScanInv'
      BY <2>1 DEF Call, parser, TypesInv, ScanInv, Lookahead, StaysInWords
    <3>2. InputInv'
      <4>1. /\ input' = s /\ p_input' = 1 /\ Len(s) \in Nat /\ DOMAIN s = 1..Len(s)
            /\ \E S : s \in Seq(S) /\ "end" \notin S
        BY <2>1, StatementsAreSequences DEF Call
      <4> QED BY <4>1 DEF InputInv
    <3>3. TypeOK'
      BY <2>1, StatementsAreSequences DEF Call, parser, TypesInv, TypeOK, Places
    <3> QED BY <3>1, <3>2, <3>3 DEF TypesInv
  <2>2. CASE UNCHANGED vars
    BY <2>2 DEF vars, lexer, parser, TypesInv, TypeOK, InputInv, ScanInv, Lookahead, StaysInWords, Num
  <2>3. ASSUME NEW s \in IF calls = 0 THEN Statements ELSE Again, Call(s) PROVE s \in Statements
    BY StatementsAreSequences
  <2> QED BY <2>1, <2>2, <2>3, TypesScan, TypesParse DEF Next
<1> QED BY <1>1, <1>2, PTL DEF Spec

\* The globals of sqlScanner.cpp have their types, whatever the statements and whatever an
\* earlier one has left in them.
THEOREM ScannerTyped == Spec => []TypeOK
<1>1. TypesInv => TypeOK
  BY DEF TypesInv
<1> QED BY <1>1, TypesInductive, PTL
-----------------------------------------------------------------------------
(* The words are those of the statement *)

\* The kinds of pieces are apart.
LEMMA Alphabet ==
  /\ Letters \cap Digits = {}
  /\ \A c \in Letters \cup Digits : c \notin Symbols \cup {"<", ">", "=", "!", " ", "end"}
  /\ \A c \in {" ", "!", "end"} : c \notin Symbols
<1>1. Names \cap (Keywords \cup Digits \cup Symbols \cup {" ", "!", "end"}) = {}
  BY ScannerAssumption
<1>2. Keywords \cap (Digits \cup Symbols \cup {" ", "!", "end"}) = {}
  BY DEF Keywords, Digits, Symbols
<1>3. {"<", ">", "="} \subseteq Symbols
  BY DEF Symbols
<1>4. Digits \cap (Symbols \cup {" ", "!", "end"}) = {}
  BY DEF Symbols, Digits
<1>5. \A c \in {" ", "!", "end"} : c \notin Symbols
  BY DEF Symbols
<1> QED BY <1>1, <1>2, <1>3, <1>4, <1>5 DEF Letters

\* p is behind letters that continue a number.
AfterNumber(p) ==
  \E q \in 1..p-1 : (\A k \in q..p-1 : Piece(k) \in Digits) /\ Piece(q - 1) \notin Letters \cup Digits

LEMMA JoinedIs ==
  ASSUME NEW p
  PROVE  Joined(p) <=>
           \/ /\ Piece(p - 1) \in Letters \cup Digits /\ Piece(p) \in Letters \cup Digits
              /\ ~(Piece(p) \in Letters /\ AfterNumber(p))
           \/ Piece(p - 1) \in {"<", ">", "!"} /\ Piece(p) = "="
  BY DEF Joined, AfterNumber

LEMMA JoinedNext ==
  ASSUME NEW p \in Int, NEW q \in Int, q = p + 1,
         Piece(p) \notin Letters \cup Digits
  PROVE  Joined(q) <=> Piece(p) \in {"<", ">", "!"} /\ Piece(q) = "="
<1>1. q - 1 = p
  OBVIOUS
<1> QED BY <1>1, JoinedIs

\* A run of letters and digits that begins with a letter is one word.
LEMMA LettersCut ==
  ASSUME InputInv, NEW p \in 1..Len(input), Piece(p) \in Letters,
         NEW n, n = RunEnd(p, Letters \cup Digits)
  PROVE  /\ n \in p+1..Len(input)+1 /\ ~Joined(n)
         /\ \A k \in p+1..n-1 : Joined(k)
<1>0. "end" \notin Letters \cup Digits /\ Len(input) \in Nat
  BY Alphabet DEF InputInv
<1>1. "end" \notin Letters \cup Digits /\ p \in 1..Len(input)+1 /\ Len(input) \in Nat
  BY <1>0
<1>2. /\ n \in p..Len(input)+1 /\ Piece(n) \notin Letters \cup Digits
      /\ \A k \in p..n-1 : Piece(k) \in Letters \cup Digits
  BY <1>1, RunEnds DEF RunEnd
<1>3. n \in p+1..Len(input)+1
  BY <1>1, <1>2
<1>4. n - 1 \in p..n-1
  BY <1>1, <1>3
<1>5. ~Joined(n)
  BY <1>2, <1>4, JoinedIs, Alphabet
<1>6. ASSUME NEW k \in p+1..n-1 PROVE Joined(k)
  <2>1. k \in p..n-1 /\ k - 1 \in p..n-1
    BY <1>1, <1>3
  <2>2. ~AfterNumber(k)
    <3> SUFFICES ASSUME NEW q \in 1..k-1, \A j \in q..k-1 : Piece(j) \in Digits,
                        Piece(q - 1) \notin Letters \cup Digits
                 PROVE  FALSE
      BY DEF AfterNumber
    <3>1. CASE q <= p
      <4>1. p \in q..k-1
        BY <1>1, <1>3, <3>1
      <4> QED BY <4>1, Alphabet
    <3>2. CASE p < q
      <4>1. q - 1 \in p..n-1
        BY <1>1, <1>3, <3>2
      <4> QED BY <1>2, <4>1
    <3> QED BY <1>1, <3>1, <3>2
  <2> QED BY <1>2, <2>1, <2>2, JoinedIs
<1> QED BY <1>3, <1>5, <1>6

\* So is a run of digits, unless it continues a word.
LEMMA DigitsCut ==
  ASSUME InputInv, NEW p \in 1..Len(input), Piece(p) \in Digits, ~Joined(p),
         NEW n, n = RunEnd(p, Digits)
  PROVE  /\ n \in p+1..Len(input)+1 /\ ~Joined(n)
         /\ \A k \in p+1..n-1 : Joined(k)
<1>0. "end" \notin Digits /\ Len(input) \in Nat
  BY Alphabet DEF InputInv
<1>1. "end" \notin Digits /\ p \in 1..Len(input)+1 /\ Len(input) \in Nat
  BY <1>0
<1>2. /\ n \in p..Len(input)+1 /\ Piece(n) \notin Digits
      /\ \A k \in p..n-1 : Piece(k) \in Digits
  BY <1>1, RunEnds DEF RunEnd
<1>3. n \in p+1..Len(input)+1
  BY <1>1, <1>2
<1>4. p \in 1..n-1 /\ n - 1 \in p..n-1
  BY <1>1, <1>3
<1>5. AfterNumber(n)
  <2>1. Piece(p - 1) \notin Letters \cup Digits
    BY JoinedIs, Alphabet
  <2> QED BY <1>2, <1>4, <2>1 DEF AfterNumber
<1>6. ~Joined(n)
  BY <1>2, <1>4, <1>5, JoinedIs, Alphabet
<1>7. ASSUME NEW k \in p+1..n-1 PROVE Joined(k)
  <2>1. k \in p..n-1 /\ k - 1 \in p..n-1
    BY <1>1, <1>3
  <2> QED BY <1>2, <2>1, JoinedIs, Alphabet
<1> QED BY <1>3, <1>6, <1>7

\* What is cut off at p is the word that starts there.
Cuts(p, t) ==
  /\ t.next \in p+1..Len(input)+1 /\ ~Joined(t.next)
  /\ \A k \in p+1..t.next-1 : Joined(k)
  /\ t.arr = IF p \in Bad THEN <<"ERROR">> ELSE Text(p, t.next)
  /\ t.num \in Keywords \cup {"name"} <=> Piece(p) \in Letters
  /\ t.num # "end" /\ (t.num = "ERROR" <=> p \in Bad)

\* What Token makes of a piece, by its kind.
Makes(t, p, num, q) == t.num = num /\ t.arr = Text(p, q) /\ t.next = q

LEMMA TokenIs ==
  ASSUME NEW p
  PROVE  LET c == Piece(p)
             twin == Piece(p + 1) = "="
             letters == RunEnd(p, Letters \cup Digits)
         IN /\ c \in Letters => Makes(Token(p), p, reserver(Text(p, letters)), letters)
            /\ c \in Digits => Makes(Token(p), p, "number", RunEnd(p, Digits))
            /\ c \in {"<", ">"} /\ twin => Makes(Token(p), p, ">=", p + 2)
            /\ c = "!" /\ twin => Makes(Token(p), p, "!=", p + 2)
            /\ c \in Symbols /\ ~(c \in {"<", ">"} /\ twin) => Makes(Token(p), p, c, p + 1)
            /\ c \notin Letters \cup Digits \cup Symbols \cup {"end"} /\ ~(c = "!" /\ twin) =>
                 Token(p) = [num |-> "ERROR", arr |-> <<"ERROR">>, next |-> p + 1]
            /\ c = "end" => Makes(Token(p), p, "end", p + 1)
<1> DEFINE twin == Piece(p + 1) = "="
           letters == RunEnd(p, Letters \cup Digits)
<1>1. CASE Piece(p) \in Letters
  <2>1. Piece(p) \notin Digits \cup Symbols \cup {"<", ">", "!", "end"}
    BY <1>1, Alphabet
  <2> QED BY <1>1, <2>1 DEF Token, Makes
<1>2. CASE Piece(p) \in Digits
  <2>1. Piece(p) \notin Letters \cup Symbols \cup {"<", ">", "!", "end"}
    BY <1>2, Alphabet
  <2> QED BY <1>2, <2>1 DEF Token, Makes
<1>3. CASE Piece(p) \notin Letters \cup Digits
  <2>1. {"<", ">"} \subseteq Symbols /\ "end" \notin Symbols /\ "!" \notin Symbols
    BY DEF Symbols
  <2>2. CASE Piece(p) \in {"<", ">"} /\ twin
    BY <1>3, <2>1, <2>2 DEF Token, Makes
  <2>3. CASE Piece(p) = "!" /\ twin
    BY <1>3, <2>1, <2>3 DEF Token, Makes
  <2>4. CASE Piece(p) \in Symbols /\ ~(Piece(p) \in {"<", ">"} /\ twin)
    BY <1>3, <2>1, <2>4 DEF Token, Makes
  <2>5. CASE /\ Piece(p) \notin Symbols \cup {"end"} /\ ~(Piece(p) = "!" /\ twin)
    BY <1>3, <2>1, <2>5 DEF Token, Makes
  <2>6. CASE Piece(p) = "end"
    BY <1>3, <2>1, <2>6 DEF Token, Makes
  <2> QED BY <2>2, <2>3, <2>4, <2>5, <2>6
<1> QED BY <1>1, <1>2, <1>3

\* The end is behind the statement and nowhere in it.
LEMMA PieceEnd ==
  ASSUME InputInv, NEW p
  PROVE  Piece(p) = "end" <=> p \notin 1..Len(input)
<1>1. PICK S : input \in Seq(S) /\ "end" \notin S
  BY DEF InputInv
<1>2. \A q \in 1..Len(input) : input[q] # "end"
  BY <1>1
<1> QED BY <1>2 DEF Piece, InputInv

LEMMA Steps ==
  ASSUME NEW n \in Nat, NEW p \in 1..n
  PROVE  /\ p \in Int /\ p + 1 \in Int /\ p + 1 \in p+1..n+1
         /\ p + 2 \in Int /\ p + 2 = (p + 1) + 1
         /\ p + 1 \in 1..n => p + 2 \in p+1..n+1
         /\ \A k : k \notin p+1..(p+1)-1
         /\ \A k \in p+1..(p+2)-1 : k = p + 1
  OBVIOUS

LEMMA TokenCuts ==
  ASSUME InputInv, NEW p \in 1..Len(input), ~Joined(p), Piece(p) # " "
  PROVE  Cuts(p, Token(p))
<1> DEFINE c == Piece(p)
           twin == Piece(p + 1) = "="
           t == Token(p)
<1>1. Len(input) \in Nat
  BY DEF InputInv
<1>2. /\ p \in Int /\ p + 1 \in Int /\ p + 1 \in p+1..Len(input)+1
      /\ \A k \in p+1..(p+1)-1 : Joined(k)
      /\ \A k \in p+1..(p+2)-1 : k = p + 1
  BY <1>1, Steps
<1>3. c # "end"
  BY PieceEnd
<1>4. p \in Bad <=> c \notin Letters \cup Digits \cup Symbols /\ ~(c = "!" /\ Joined(p + 1))
  BY DEF Bad, Starts
<1>5. twin => p + 2 \in p+1..Len(input)+1
  BY <1>1, PieceEnd, Steps
<1>6. c \notin Letters \cup Digits => (Joined(p + 1) <=> c \in {"<", ">", "!"} /\ twin)
  BY <1>2, JoinedNext
<1>7. twin => ~Joined(p + 2)
  <2>1. "=" \notin Letters \cup Digits
    BY Alphabet
  <2>2. p + 1 \in Int /\ p + 2 \in Int /\ p + 2 = (p + 1) + 1
    BY <1>1, Steps
  <2>3. "=" \notin {"<", ">", "!"}
    OBVIOUS
  <2> QED BY <2>1, <2>2, <2>3, JoinedNext
<1>8. CASE c \in Letters
  <2> DEFINE n == RunEnd(p, Letters \cup Digits)
  <2>1. Makes(t, p, reserver(Text(p, n)), n)
    BY <1>8, TokenIs
  <2>2. \A s : /\ reserver(s) \in Keywords \cup {"name"}
               /\ reserver(s) # "end" /\ reserver(s) # "ERROR"
    BY DEF reserver, Keywords
  <2>3. n \in p+1..Len(input)+1 /\ ~Joined(n) /\ \A k \in p+1..n-1 : Joined(k)
    BY <1>8, LettersCut
  <2> HIDE DEF n, t
  <2>4. Cuts(p, t)
    BY <1>4, <1>8, <2>1, <2>2, <2>3 DEF Cuts, Makes
  <2> QED BY <2>4 DEF t
<1>9. CASE c \in Digits
  <2> DEFINE n == RunEnd(p, Digits)
  <2>1. Makes(t, p, "number", n)
    BY <1>9, TokenIs
  <2>2. n \in p+1..Len(input)+1 /\ ~Joined(n) /\ \A k \in p+1..n-1 : Joined(k)
    BY <1>9, DigitsCut
  <2>3. "number" \notin Keywords \cup {"name"} /\ c \notin Letters
    BY <1>9, Alphabet DEF Keywords
  <2> HIDE DEF n, t
  <2>4. Cuts(p, t)
    BY <1>4, <1>9, <2>1, <2>2, <2>3 DEF Cuts, Makes
  <2> QED BY <2>4 DEF t
<1>10. CASE c \in {"<", ">", "!"} /\ twin
  <2> DEFINE n == p + 2
  <2>1. c \notin Letters \cup Digits
    BY <1>10, Alphabet
  <2>2. PICK m \in {">=", "!="} : Makes(t, p, m, n)
    BY <1>10, TokenIs
  <2>3. \A q \in {">=", "!="} : q \notin Keywords \cup {"name"} /\ q # "end" /\ q # "ERROR"
    BY DEF Keywords
  <2>4. p \notin Bad
    BY <1>4, <1>6, <1>10 DEF Symbols
  <2>5. n \in p+1..Len(input)+1 /\ ~Joined(n) /\ \A k \in p+1..n-1 : Joined(k)
    BY <1>2, <1>5, <1>6, <1>7, <1>10, <2>1
  <2> HIDE DEF n, t
  <2>6. Cuts(p, t)
    BY <2>1, <2>2, <2>3, <2>4, <2>5 DEF Cuts, Makes
  <2> QED BY <2>6 DEF t
<1>11. CASE c \in Symbols /\ ~(c \in {"<", ">"} /\ twin)
  <2> DEFINE n == p + 1
  <2>1. c \notin Letters \cup Digits /\ c # "!"
    BY <1>11, Alphabet
  <2>2. Makes(t, p, c, n)
    BY <1>11, TokenIs
  <2>3. c \notin Keywords \cup {"name"} /\ c # "end" /\ c # "ERROR"
    BY <1>11 DEF Keywords, Symbols
  <2>4. n \in p+1..Len(input)+1 /\ ~Joined(n) /\ \A k \in p+1..n-1 : Joined(k)
    BY <1>2, <1>6, <1>11, <2>1
  <2> HIDE DEF n, t
  <2>5. Cuts(p, t)
    BY <1>4, <1>11, <2>1, <2>2, <2>3, <2>4 DEF Cuts, Makes
  <2> QED BY <2>5 DEF t
<1>12. CASE c \notin Letters \cup Digits \cup Symbols /\ ~(c = "!" /\ twin)
  <2> DEFINE n == p + 1
  <2>1. c # "<" /\ c # ">"
    BY <1>12 DEF Symbols
  <2>2. t = [num |-> "ERROR", arr |-> <<"ERROR">>, next |-> n]
    BY <1>3, <1>12, TokenIs
  <2>3. "ERROR" \notin Keywords \cup {"name"}
    BY DEF Keywords
  <2>4. n \in p+1..Len(input)+1 /\ ~Joined(n) /\ \A k \in p+1..n-1 : Joined(k)
    BY <1>2, <1>6, <1>12, <2>1
  <2>5. p \in Bad
    BY <1>4, <1>6, <1>12
  <2> HIDE DEF n, t
  <2>6. Cuts(p, t)
    BY <1>12, <2>2, <2>3, <2>4, <2>5 DEF Cuts, Makes
  <2> QED BY <2>6 DEF t
<1> QED BY <1>8, <1>9, <1>10, <1>11, <1>12

Before(n) == {q \in Starts : q < n}
Index(p)  == Cardinality({q \in Starts : q <= p})

\* The word of the statement that starts at p is in w, and in its place.
Done(p, w) ==
  /\ w[Index(p)].arr = WordText(p)
  /\ w[Index(p)].num \in Keywords \cup {"name"} <=> Piece(p) \in Letters

\* The statement is cut into k words up to n, where none goes on.
CutUpTo(n, k, w) ==
  /\ n \in 1..Len(input)+1 /\ ~Joined(n)
  /\ k = Cardinality(Before(n)) /\ k <= Len(w)
  /\ \A q \in Bad : n <= q
  /\ \A p \in Before(n) : Done(p, w)

\* All words are there that WordsAreTheStatements asks for.
AllDone(k, w) ==
  /\ k = Cardinality(Kept)
  /\ \A p \in Kept :
       /\ w[Cardinality({q \in Kept : q <= p})].arr = WordText(p)
       /\ (w[Cardinality({q \in Kept : q <= p})].num \in Keywords
           \/ w[Cardinality({q \in Kept : q <= p})].num = "name") = (Piece(p) \in Letters)

WordsInv ==
  /\ TypesInv
  /\ at = "scan" => CutUpTo(p_input, i, word)
  /\ at = "llParser" => AllDone(i, word)

\* The reference finds the same end.
LEMMA WordEnds ==
  ASSUME InputInv, NEW p \in 1..Len(input), NEW n \in p+1..Len(input)+1,
         ~Joined(n), \A k \in p+1..n-1 : Joined(k)
  PROVE  /\ WordAt(p) = n - 1
         /\ Text(p, n) = SubSeq(input, p, WordAt(p))
<1> DEFINE Ends(q) == (\A k \in p+1..q : Joined(k)) /\ (q = Len(input) \/ ~Joined(q + 1))
<1>1. Len(input) \in Nat
  BY DEF InputInv
<1>2. p \in Int /\ n \in Int /\ n - 1 \in p..Len(input) /\ (n - 1) + 1 = n
  BY <1>1
<1>3. Ends(n - 1)
  BY <1>2
<1>4. ASSUME NEW q \in p..Len(input), Ends(q) PROVE q = n - 1
  <2>1. CASE q < n - 1
    <3>1. q + 1 \in p+1..n-1 /\ q # Len(input)
      BY <1>1, <1>2, <2>1
    <3> QED BY <1>4, <3>1
  <2>2. CASE q > n - 1
    <3>1. n \in p+1..q
      BY <1>1, <1>2, <2>2
    <3> QED BY <1>4, <3>1
  <2> QED BY <1>1, <1>2, <2>1, <2>2
<1>5. WordAt(p) = n - 1
  <2>1. WordAt(p) = CHOOSE q \in p..Len(input) : Ends(q)
    BY DEF WordAt
  <2> HIDE DEF Ends
  <2> QED BY <1>2, <1>3, <1>4, <2>1
<1>6. Text(p, n) = SubSeq(input, p, n - 1)
  <2>1. PICK S : input \in Seq(S)
    BY DEF InputInv
  <2>2. SubSeq(input, p, n - 1) = [k \in 1..n-p |-> input[p + k - 1]]
    BY <1>1, <1>2, <2>1
  <2>3. \A k \in 1..n-p : Piece(p + k - 1) = input[p + k - 1]
    BY <1>1, <1>2 DEF Piece, InputInv
  <2> QED BY <2>2, <2>3 DEF Text
<1> QED BY <1>5, <1>6

LEMMA StartsFinite ==
  ASSUME InputInv
  PROVE  /\ Starts \subseteq Nat /\ Starts \subseteq 1..Len(input)
         /\ \A T : T \subseteq Starts => IsFiniteSet(T) /\ Cardinality(T) \in Nat
<1>1. Len(input) \in Nat /\ Starts \subseteq 1..Len(input)
  BY DEF InputInv, Starts
<1>2. IsFiniteSet(1..Len(input))
  BY <1>1, FS_Interval
<1>3. IsFiniteSet(Starts)
  BY <1>1, <1>2, FS_Subset
<1> QED BY <1>1, <1>3, FS_Subset, FS_CardinalityType

Space(p) == Piece(p) = " "

\* From m on, before n, there are only spaces.
Blank(m, n) == \A q \in m..n-1 : Space(q)

LEMMA IsStart ==
  ASSUME NEW p, p \in 1..Len(input), ~Joined(p), ~Space(p) PROVE p \in Starts
  BY DEF Starts, Space

LEMMA CutWordStarts ==
  ASSUME InputInv, NEW n \in Int, NEW p \in Int, 1 <= n, n <= p, p <= Len(input), ~Joined(n),
         Blank(n, p), ~Space(p)
  PROVE  ~Joined(p) /\ p \in Starts
<1>0. Len(input) \in Nat
  BY DEF InputInv
<1>1. p \in 1..Len(input)
  BY <1>0
<1>2. CASE p = n
  BY <1>1, <1>2, IsStart
<1>3. CASE p # n
  <2>1. p - 1 \in n..p-1
    BY <1>1, <1>3
  <2>2. Piece(p - 1) = " " /\ " " \notin Letters \cup Digits /\ " " \notin {"<", ">", "!"}
    BY <2>1, Alphabet DEF Blank, Space
  <2>3. ~Joined(p)
    BY <2>2, JoinedIs
  <2> QED BY <1>1, <2>3, IsStart
<1> QED BY <1>2, <1>3

\* A statement is cut up to its next word.
LEMMA CutWord ==
  ASSUME InputInv, NEW n, NEW k \in Nat, NEW S, NEW w \in Seq(S), CutUpTo(n, k, w),
         n \in Int, NEW p \in Int, n <= p, p <= Len(input), Blank(n, p), ~Space(p),
         NEW t, Cuts(p, t), NEW v, Len(v) \in Nat, Len(v) > k,
         \A j \in 1..k : v[j] = w[j], v[k + 1].num = t.num, v[k + 1].arr = t.arr
  PROVE  /\ Before(t.next) = Before(n) \cup {p} /\ k + 1 = Cardinality(Before(t.next))
         /\ \A q \in Before(t.next) : Done(q, v)
         /\ \A q \in Bad : p <= q
<1>0. Len(input) \in Nat /\ n \in 1..Len(input)+1 /\ t.next \in p+1..Len(input)+1
  BY DEF InputInv, CutUpTo, Cuts
<1>1. /\ Len(input) \in Nat /\ n \in 1..Len(input)+1 /\ p \in 1..Len(input) 
      /\ p < t.next /\ t.next \in Int
  BY <1>0
<1>2. Before(t.next) = Before(n) \cup {p}
  <2>1. p \in Before(t.next)
    BY <1>1, CutWordStarts DEF Before, CutUpTo
  <2>2. ASSUME NEW q \in Starts, q < n PROVE q < t.next
    BY <1>1, <2>2, StartsFinite
  <2>3. ASSUME NEW q \in Starts, q < t.next, n <= q, q # p PROVE FALSE
    <3>1. q \in Int
      BY StartsFinite
    <3>2. CASE q < p
      <4>1. q \in n..p-1
        BY <1>1, <2>3, <3>1, <3>2
      <4> QED BY <2>3, <4>1 DEF Starts, Space, Blank
    <3>3. CASE p < q
      <4>1. q \in p+1..t.next-1
        BY <1>1, <2>3, <3>1, <3>3
      <4> QED BY <2>3, <4>1 DEF Starts, Cuts
    <3> QED BY <1>1, <2>3, <3>1, <3>2, <3>3
  <2>4. \A q \in Starts : q < t.next <=> q < n \/ q = p
    <3>1. \A q \in Starts : q \in Int
      BY StartsFinite
    <3> QED BY <1>1, <2>2, <2>3, <3>1
  <2> QED BY <2>1, <2>4 DEF Before
<1>3. k + 1 = Cardinality(Before(t.next))
  <2>1. Before(n) \subseteq Starts /\ p \notin Before(n) /\ k = Cardinality(Before(n))
    BY <1>1 DEF Before, CutUpTo
  <2>2. IsFiniteSet(Before(n))
    BY <2>1, StartsFinite
  <2> QED BY <1>2, <2>1, <2>2, FS_AddElement
<1>4. ASSUME NEW q \in Before(n) PROVE Done(q, v)
  <2> DEFINE T == {r \in Starts : r <= q}
  <2>1. q \in Starts /\ q \in Nat /\ q < n
    BY StartsFinite DEF Before
  <2>2. T \subseteq Before(n) /\ T \subseteq Starts /\ q \in T /\ Before(n) \subseteq Starts
    <3>1. ASSUME NEW r \in Starts, r <= q PROVE r < n
      BY <1>1, <2>1, <3>1, StartsFinite
    <3>2. q <= q
      BY <2>1
    <3> QED BY <2>1, <3>1, <3>2 DEF Before
  <2>3. IsFiniteSet(Before(n)) /\ IsFiniteSet(T) /\ Cardinality(T) \in Nat
    BY <2>2, StartsFinite
  <2>4. Cardinality(T) # 0 /\ Cardinality(T) <= k
    BY <2>2, <2>3, FS_EmptySet, FS_Subset DEF CutUpTo
  <2>5. Index(q) \in 1..k
    BY <2>3, <2>4 DEF Index
  <2>6. v[Index(q)] = w[Index(q)] /\ Done(q, w)
    BY <2>5 DEF CutUpTo
  <2> QED BY <2>6 DEF Done
<1>5. Done(p, v)
  <2>1. {r \in Starts : r <= p} = Before(t.next)
    <3>1. ASSUME NEW r \in Starts, r <= p PROVE r < t.next
      BY <1>1, <3>1, StartsFinite
    <3>2. ASSUME NEW r \in Before(n) \cup {p} PROVE r <= p
      BY <1>1, <3>2, StartsFinite DEF Before
    <3> QED BY <1>2, <3>1, <3>2 DEF Before
  <2>2. Index(p) = k + 1
    BY <1>3, <2>1 DEF Index
  <2>3. t.arr = WordText(p)
    <3>1. Text(p, t.next) = SubSeq(input, p, WordAt(p))
      BY <1>1, WordEnds DEF Cuts
    <3> QED BY <3>1 DEF Cuts, WordText
  <2> QED BY <2>2, <2>3 DEF Done, Cuts
<1>6. ASSUME NEW q \in Bad PROVE p <= q
  <2>1. q \in Starts /\ n <= q /\ q \in Nat
    BY StartsFinite DEF CutUpTo, Bad
  <2>2. q \notin n..p-1
    BY <2>1 DEF Starts, Space, Blank
  <2> QED BY <1>1, <2>1, <2>2
<1> QED BY <1>2, <1>3, <1>4, <1>5, <1>6

\* When the words before n are all that are kept, they are what is asked for.
LEMMA AllKept ==
  ASSUME InputInv, NEW n, NEW k, NEW w, Kept = Before(n),
         k = Cardinality(Before(n)), \A q \in Before(n) : Done(q, w)
  PROVE  AllDone(k, w)
<1>1. ASSUME NEW p \in Kept PROVE {q \in Kept : q <= p} = {q \in Starts : q <= p}
  <2>1. ASSUME NEW q \in Starts, q <= p PROVE q \in Kept
    <3>1. p \in Nat /\ q \in Nat /\ \A b \in Bad : b \in Nat /\ p <= b
      BY StartsFinite DEF Kept, Bad
    <3> QED BY <2>1, <3>1 DEF Kept
  <2> QED BY <2>1 DEF Kept
<1>2. ASSUME NEW p \in Kept
      PROVE  /\ w[Cardinality({q \in Kept : q <= p})].arr = WordText(p)
             /\ (w[Cardinality({q \in Kept : q <= p})].num \in Keywords
                 \/ w[Cardinality({q \in Kept : q <= p})].num = "name") = (Piece(p) \in Letters)
  <2>1. Index(p) = Cardinality({q \in Kept : q <= p}) /\ Done(p, w)
    BY <1>1 DEF Index
  <2> QED BY <2>1 DEF Done
<1> QED BY <1>2 DEF AllDone

\* The first error is the last word.
LEMMA AllAtError ==
  ASSUME InputInv, NEW n \in Int, NEW p \in Bad, p < n, NEW k, NEW w,
         \A q \in Starts : q < n => q <= p,
         k = Cardinality(Before(n)), \A q \in Before(n) : Done(q, w), \A q \in Bad : p <= q
  PROVE  AllDone(k, w)
<1>1. p \in Starts /\ p \in Nat
  BY StartsFinite DEF Bad
<1>2. Kept = Before(n)
  <2>1. ASSUME NEW q \in Starts, q < n PROVE q \in Kept
    <3>1. q <= p /\ q \in Nat
      BY <2>1, StartsFinite
    <3>2. \A b \in Bad : b \in Nat
      BY StartsFinite DEF Bad
    <3> QED BY <1>1, <3>1, <3>2 DEF Kept
  <2>2. ASSUME NEW q \in Kept PROVE q < n
    <3>1. q <= p /\ q \in Nat
      BY <2>2, StartsFinite DEF Kept
    <3> QED BY <1>1, <3>1
  <2>3. Kept \subseteq Starts
    BY DEF Kept
  <2> QED BY <2>1, <2>2, <2>3 DEF Before
<1> QED BY <1>2, AllKept

\* Without an error the words end with the statement.
LEMMA AllAtEnd ==
  ASSUME InputInv, NEW n, NEW k, NEW w, CutUpTo(n, k, w),
         NEW e \in Int, e = Len(input) + 1, Blank(n, e)
  PROVE  AllDone(k, w)
<1>0. Len(input) \in Nat /\ n \in 1..Len(input)+1
  BY DEF InputInv, CutUpTo
<1>1. Len(input) \in Nat /\ n \in Int
  BY <1>0
<1>2. ASSUME NEW q \in Starts PROVE q < n
  <2>1. q \in Nat /\ q \in 1..Len(input) /\ ~Space(q)
    BY StartsFinite DEF Starts, Space
  <2>2. q \notin n..e-1
    BY <2>1 DEF Blank
  <2>3. q <= Len(input) /\ e - 1 = Len(input)
    BY <1>1, <2>1
  <2> QED BY <1>1, <2>1, <2>2, <2>3
<1>3. Bad = {}
  <2>1. ASSUME NEW q \in Bad PROVE FALSE
    <3>1. q \in Starts /\ n <= q /\ q \in Nat
      BY StartsFinite DEF CutUpTo, Bad
    <3> QED BY <1>1, <1>2, <3>1
  <2> QED BY <2>1
<1>4. Kept = Before(n)
  BY <1>2, <1>3 DEF Kept, Before
<1> QED BY <1>4, AllKept DEF CutUpTo

LEMMA PutWord ==
  ASSUME NEW S, word \in Seq(S), NEW k \in Nat, k <= Len(word), NEW cell, NEW v, v = Put(k, cell)
  PROVE  /\ Len(v) \in Nat /\ Len(v) > k /\ v[k + 1] = cell
         /\ \A j \in 1..k : v[j] = word[j]
<1>1. CASE k < Len(word)
  <2>1. v = [word EXCEPT ![k + 1] = cell] /\ k + 1 \in 1..Len(word)
    BY <1>1 DEF Put
  <2> QED BY <1>1, <2>1
<1>2. CASE k = Len(word)
  BY <1>2 DEF Put
<1> QED BY <1>1, <1>2

\* One turn of the loop: the next word is cut off, or there is none left.
LEMMA ScanCuts ==
  ASSUME WordsInv, Scan
  PROVE  /\ at' = "scan" => CutUpTo(p_input', i', word')
         /\ at' = "llParser" => AllDone(i', word')
<1> DEFINE n == p_input
           p == Past(n, {" "})
<1>1. /\ InputInv /\ CutUpTo(n, i, word) /\ i \in Nat /\ \E S : word \in Seq(S)
      /\ n \in 1..Len(input)+1
  BY DEF Scan, WordsInv, TypesInv, TypeOK, ScanInv, InputInv
<1>2. Len(input) \in Nat
  BY <1>1 DEF InputInv
<1>3. p \in n..Len(input)+1 /\ ~Space(p) /\ Blank(n, p)
  <2>1. "end" \notin {" "}
    OBVIOUS
  <2>2. p \in n..Len(input)+1 /\ Piece(p) \notin {" "} /\ \A k \in n..p-1 : Piece(k) \in {" "}
    BY <1>1, <2>1, RunEnds
  <2> QED BY <2>2 DEF Space, Blank
<1> DEFINE t == Token(p)
           cell == [num |-> t.num, arr |-> t.arr]
<1>0. scanner = t
  BY DEF scanner
<1> HIDE DEF p
<1>4. n \in Int /\ p \in Int /\ n <= p /\ 1 <= n
  BY <1>1, <1>2, <1>3
<1>5. CASE p <= Len(input)
  <2>1. p \in 1..Len(input) /\ p \in Nat
    BY <1>2, <1>4, <1>5
  <2>2. ~Joined(p) /\ p \in Starts
    BY <1>1, <1>3, <1>4, <1>5, CutWordStarts DEF CutUpTo
  <2>3. Cuts(p, t)
    <3>1. Piece(p) # " "
      BY <1>3 DEF Space
    <3> QED BY <1>1, <2>1, <2>2, <3>1, TokenCuts
  <2>4. t.num # "end" /\ (t.num = "ERROR" <=> p \in Bad)
    BY <2>3 DEF Cuts
  <2>5. p_input' = t.next /\ word' = Put(i, cell) /\ i' = i + 1
        /\ at' = IF t.num = "ERROR" THEN "llParser" ELSE "scan"
    BY <1>0, <2>4 DEF Scan
  <2>6. t.next \in p+1..Len(input)+1 /\ ~Joined(t.next) /\ t.next \in Int /\ p < t.next
        /\ t.next \in 1..Len(input)+1
    <3>1. t.next \in p+1..Len(input)+1 /\ ~Joined(t.next)
      BY <2>3 DEF Cuts
    <3> QED BY <1>2, <2>1, <3>1
  <2>7. /\ Len(word') \in Nat /\ Len(word') > i /\ word'[i + 1] = cell
        /\ \A j \in 1..i : word'[j] = word[j]
    BY <1>1, <2>5, PutWord DEF CutUpTo
  <2>8. /\ Before(t.next) = Before(n) \cup {p} /\ i + 1 = Cardinality(Before(t.next))
        /\ \A q \in Before(t.next) : Done(q, word')
        /\ \A q \in Bad : p <= q
    <3>1. cell.num = t.num /\ cell.arr = t.arr
      OBVIOUS
    <3> HIDE DEF t, cell, p
    <3> QED BY <1>1, <1>3, <1>4, <1>5, <2>3, <2>7, <3>1, CutWord
  <2>9. CASE t.num = "ERROR"
    <3>1. ASSUME NEW q \in Starts, q < t.next PROVE q <= p
      <4>1. q \in Before(t.next) /\ q \in Nat
        BY <1>1, <3>1, StartsFinite DEF Before
      <4>2. q = p \/ q < n
        BY <2>8, <4>1 DEF Before
      <4> QED BY <1>4, <4>1, <4>2
    <3>2. AllDone(i', word')
      BY <1>1, <2>1, <2>4, <2>5, <2>6, <2>8, <2>9, <3>1, AllAtError
    <3> QED BY <2>5, <2>9, <3>2
  <2>10. CASE t.num # "ERROR"
    <3>1. \A q \in Bad : t.next <= q
      <4> SUFFICES ASSUME NEW q \in Bad, q < t.next PROVE FALSE
        BY <1>1, <2>6, StartsFinite DEF Bad
      <4>1. q \in Before(t.next) /\ q \in Nat /\ p <= q /\ n <= q
        BY <1>1, <2>8, StartsFinite DEF Bad, Before, CutUpTo
      <4>2. q = p \/ q < n
        BY <2>8, <4>1 DEF Before
      <4> QED BY <1>4, <2>4, <2>10, <4>1, <4>2
    <3>2. CutUpTo(p_input', i', word')
      BY <1>1, <2>5, <2>6, <2>7, <2>8, <3>1 DEF CutUpTo
    <3> QED BY <2>5, <2>10, <3>2
  <2> QED BY <2>9, <2>10
<1>6. CASE p = Len(input) + 1
  <2>1. Piece(p) = "end"
    BY <1>1, <1>2, <1>6, PieceEnd
  <2>2. t.num = "end"
    BY <2>1, TokenIs DEF Makes
  <2>3. at' = "llParser" /\ UNCHANGED <<i, word>>
    BY <1>0, <2>2 DEF Scan
  <2>4. AllDone(i, word)
    BY <1>1, <1>3, <1>4, <1>6, AllAtEnd
  <2> QED BY <2>3, <2>4
<1> QED BY <1>2, <1>3, <1>4, <1>5, <1>6

\* The reference depends on the statement alone.
LEMMA SameStatement ==
  ASSUME input' = input
  PROVE  /\ Starts' = Starts /\ Bad' = Bad /\ Kept' = Kept
         /\ \A p : WordText(p)' = WordText(p) /\ Piece(p)' = Piece(p) /\ Joined(p)' = Joined(p)
<1>1. Starts' = Starts
  BY DEF Starts, Joined, Piece
<1>2. Bad' = Bad
  BY <1>1 DEF Bad, Joined, Piece
<1>3. Kept' = Kept
  BY <1>1, <1>2 DEF Kept
<1>4. \A p : WordText(p)' = WordText(p) /\ Piece(p)' = Piece(p) /\ Joined(p)' = Joined(p)
  BY <1>2 DEF WordText, WordAt, Joined, Piece
<1> QED BY <1>1, <1>2, <1>3, <1>4

LEMMA WordsScan == ASSUME WordsInv, Scan PROVE WordsInv'
<1>1. TypesInv' /\ input' = input
  BY TypesScan DEF WordsInv, Scan
<1>2. at' = "scan" => CutUpTo(p_input, i, word)'
  BY <1>1, SameStatement, ScanCuts DEF CutUpTo, Before, Done, Index
<1>3. at' = "llParser" => AllDone(i, word)'
  BY <1>1, SameStatement, ScanCuts DEF AllDone
<1> QED BY <1>1, <1>2, <1>3 DEF WordsInv

LEMMA WordsInductive == Spec => []WordsInv
<1>1. Init /\ TypesInv => WordsInv
  BY DEF Init, WordsInv
<1>2. WordsInv /\ TypesInv' /\ [Next]_vars => WordsInv'
  <2> SUFFICES ASSUME WordsInv, TypesInv', [Next]_vars PROVE WordsInv'
    OBVIOUS
  <2>1. ASSUME NEW s, Call(s) PROVE WordsInv'
    <3>1. at' = "scan" /\ p_input' = 1 /\ i' = 0 /\ UNCHANGED word
      BY <2>1 DEF Call
    <3>2. /\ Len(input') \in Nat /\ DOMAIN input' = 1..Len(input') /\ Len(word') \in Nat
      BY DEF TypesInv, InputInv, ScanInv
    <3>3. Starts' \subseteq 1..Len(input')
      BY DEF Starts
    <3>4. Before(1)' = {}
      <4>1. \A q \in 1..Len(input') : ~(q < 1)
        BY <3>2
      <4>2. Before(1)' = {q \in Starts' : q < 1}
        BY DEF Before
      <4> QED BY <3>3, <4>1, <4>2
    <3>5. Cardinality({}) = 0
      BY FS_EmptySet
    <3>6. ~Joined(1)'
      <4>1. Piece(0)' = "end" /\ 1 - 1 = 0
        BY <3>2 DEF Piece
      <4>2. "end" \notin Letters \cup Digits
        BY Alphabet
      <4> QED BY <4>1, <4>2 DEF Joined
    <3>7. \A q \in Bad' : 1 <= q
      <4>1. Bad' \subseteq 1..Len(input')
        BY <3>3 DEF Bad
      <4> QED BY <3>2, <4>1
    <3>8. 1 \in 1..Len(input')+1
      BY <3>2
    <3>9. CutUpTo(1, 0, word)'
      BY <3>2, <3>4, <3>5, <3>6, <3>7, <3>8 DEF CutUpTo
    <3> QED BY <3>1, <3>9 DEF WordsInv, CutUpTo, Before, Done, Index
  <2>2. CASE Parse
    <3>1. at' \notin {"scan", "llParser"}
      BY <2>2 DEF Parse, llParser, sList, selectSql, insertSql, deleteSql, allFunc, isWhere, Clause, Goto
    <3> QED BY <3>1 DEF WordsInv
  <2>3. CASE UNCHANGED vars
    <3>1. UNCHANGED <<at, p_input, i, word>> /\ input' = input
      BY <2>3 DEF vars, lexer
    <3>2. at = "scan" => CutUpTo(p_input, i, word)'
      BY <3>1, SameStatement DEF WordsInv, CutUpTo, Before, Done, Index
    <3>3. at = "llParser" => AllDone(i, word)'
      BY <3>1, SameStatement DEF WordsInv, AllDone
    <3> QED BY <3>1, <3>2, <3>3 DEF WordsInv
  <2> QED BY <2>1, <2>2, <2>3, WordsScan DEF Next
<1> QED BY <1>1, <1>2, TypesInductive, PTL DEF Spec

\* For every statement, and whatever earlier ones left behind: the words handed to the parser are
\* those of the statement, as long as they can be and in order, up to the first error.
THEOREM WordsAreRight == Spec => []WordsAreTheStatements
<1>1. WordsInv => WordsAreTheStatements
  BY DEF WordsInv, AllDone, WordsAreTheStatements
<1> QED BY <1>1, WordsInductive, PTL
=============================================================================
