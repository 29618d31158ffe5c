----------------------------- MODULE MCSqlCache -----------------------------
(* Instances of SqlCache for TLC. *)
EXTENDS SqlCache, TLC

\* The load of a writer of statements with the given lengths, when nothing else is said.
Sizes(s) ==
  LET upto[n \in 0..Len(s)] == IF n = 0 THEN 0 ELSE upto[n-1] + s[n]
  IN [ahead |-> 50, cap |-> 100, last |-> Len(s), restarts |-> 0, upto |-> upto]

Paced == [Sizes(<<1, 1, 1, 1, 1, 1, 1, 1, 1>>) EXCEPT !.ahead = 1]
Wide  == [Sizes(<<2, 2, 2, 2, 2, 2>>) EXCEPT !.ahead = 2]
Burst == Sizes(<<1, 2, 1, 2, 1>>)
Heavy == Sizes(<<2, 1, 4, 1, 3, 2, 1>>)

\* The writer starts again after four units, or ten; the third is up to three statements ahead.  The
\* next two have statements of several lengths and more than a queue holds on both sides of the end;
\* the last writes over what was not read.
Round     == [Paced EXCEPT !.cap = 5]
WideRound == [Sizes(<<2, 2, 2, 2, 2, 2, 2, 2, 2>>) EXCEPT !.ahead = 2, !.cap = 11]
FarRound  == [Paced EXCEPT !.cap = 6, !.ahead = 3]
Mixed     == [Sizes(<<2, 1, 2, 1, 3, 1, 2>>) EXCEPT !.cap = 11, !.ahead = 7]
TooFar    == [Sizes(<<5, 1, 4, 3>>) EXCEPT !.cap = 13, !.ahead = 8]
Lapped    == [Sizes(<<1, 2, 3, 2, 4, 1>>) EXCEPT !.cap = 7]

\* The reader is restarted twice; the second writer has written more than a queue holds.
Restarted == [Sizes(<<1, 1, 1, 1>>) EXCEPT !.ahead = 1, !.restarts = 2]
Overfull  == [Sizes(<<2, 1, 2, 1>>) EXCEPT !.ahead = 2, !.restarts = 1]

All == {Paced, Wide, Burst, Heavy, Round, WideRound, FarRound, Mixed, TooFar, Lapped, Restarted, Overfull}
OnlyPaced == {Paced}
=============================================================================
