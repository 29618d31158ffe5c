----------------------------- MODULE MCSqlScanner -----------------------------
(* The instance of SqlScanner for TLC. *)
EXTENDS SqlScanner, SequencesExt

Spaced(s) == FlattenSeq([k \in DOMAIN s |-> <<s[k], " ">>])

\* Statements as main.cpp has them, by their parts; some are no SQL.
Lists   == {<<"*">>, <<"x">>, <<",", "x">>, <<"x", ",", "x">>, <<"max", "(">>, <<>>}
Wheres  == {<<>>, <<"where", "x">>, <<"where", "x", "=", "9", "and", "x", "=", "9">>, <<"where", "9">>}
Ordered == {<<>>} \cup {<<c>> \o b : c \in {"group", "between", "order"},
                                  b \in {<<"by", "x">>, <<"x", "and">>, <<"x", "x">>, <<"order", "x", "x">>}}
Ends    == {<<>>, <<";">>}
Tables  == {<<"t">>, <<>>}
Selects == {<<"select">> \o l \o <<"from">> \o t \o w \o c \o e :
              l \in Lists, t \in Tables, w \in Wheres, c \in Ordered, e \in Ends}
Deletes == {<<"delete", "from">> \o t \o w \o c \o e :
              t \in Tables, w \in Wheres, c \in Ordered, e \in Ends}
Inserts == {<<"insert", "into", "t">> \o v : v \in {<<>>, <<"values", "(", "9", ",", "x", ")">>}}
Others  == {<<"insert", "t">>, <<"delete", "t">>, <<"x", "select">>, <<>>}

\* Runs of pieces without spaces, for the scanner.
Runs == BoundedSeq({"select", "x", "9", " ", "<", "!", "="}, 3)
        \cup {<<"x", "?", "x">>, <<"<", "x", "?">>, <<"9", "9", "x", "9", "select", " ", "=", "=">>}

Later == {Spaced(<<"select", "*", "from", "t", "where", "x">>), Spaced(<<"insert", "into", "x">>),
          Spaced(<<"select", "x", "from", "x", "delete", "from", "t", "insert", "into", "t", "x", "x">>)}
All == {Spaced(s) : s \in Selects \cup Deletes \cup Inserts \cup Others} \cup Runs \cup Later
=============================================================================
