------------------------------ MODULE MCSkipList ------------------------------
(* An instance of SkipList for TLC: three timestamps, and two keys that are not above -10. *)
EXTENDS SkipList, TLC

StampsAndBelow == {-11, -10, 1, 2, 3}
\* Data are only stored: interchangeable.
DataSymmetry == Permutations(Data)
=============================================================================
