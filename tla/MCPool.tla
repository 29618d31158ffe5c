------------------------------- MODULE MCPool -------------------------------
(* Instances of ThreadPool for TLC. *)
EXTENDS ThreadPool, TLC

\* Tasks and clients are interchangeable (safety runs only).
Symmetry == Permutations(Tasks) \cup Permutations(Adders)

NothingSpare == {0}          \* wait_exit_thr_num as left by zeroed memory
SomethingSpare == {0, 2}    \* ... or by a heap in use
FreshHeap == {NULL}          \* slots as left by zeroed memory
UsedHeap == {Junk}           \* ... or by a heap in use
=============================================================================
