----------------------------- MODULE MCUserTable -----------------------------
(* Instances of UserTable for TLC: three accounts, two of one name. *)
EXTENDS UserTable, TLC

Three == {<<"n1", "p1">>, <<"n1", "p2">>, <<"n2", "p1">>}
Spread == [a \in Three |-> IF a[1] = "n2" THEN 2 ELSE IF a[2] = "p1" THEN 0 ELSE 1]
Crowded == [a \in Three |-> IF a[2] = "p1" THEN 0 ELSE 1]

Plain == [serial |-> TRUE, deletes |-> TRUE, unique |-> TRUE, fails |-> TRUE, reuses |-> FALSE,
          home |-> Crowded]

Astray == [Crowded EXCEPT ![<<"n1", "p2">>] = -1]

Various == {[Plain EXCEPT !.home = Spread],
            Plain,
            [Plain EXCEPT !.unique = FALSE, !.fails = FALSE, !.deletes = FALSE],
            [Plain EXCEPT !.unique = FALSE, !.fails = FALSE, !.home = Spread],
            [Plain EXCEPT !.serial = FALSE, !.deletes = FALSE],
            [Plain EXCEPT !.serial = FALSE, !.deletes = FALSE, !.unique = FALSE, !.fails = FALSE,
                         !.home = Spread],
            [Plain EXCEPT !.serial = FALSE, !.fails = FALSE, !.home = Spread],
            [Plain EXCEPT !.fails = FALSE, !.reuses = TRUE, !.home = Spread],
            [Plain EXCEPT !.fails = FALSE, !.deletes = FALSE, !.reuses = TRUE],
            [Plain EXCEPT !.fails = FALSE, !.home = Astray]}

Symmetry == Permutations(Clients)
=============================================================================
