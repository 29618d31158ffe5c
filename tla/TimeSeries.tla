------------------------------ MODULE TimeSeries ------------------------------
(***************************************************************************)
(* What a table of src/src/skip_list.cpp promises: for each timestamp the  *)
(* data inserted under it, in the order of insertion, until it is removed. *)
(***************************************************************************)
EXTENDS Sequences

CONSTANTS Stamps, Data

VARIABLE series

Init == series = [k \in Stamps |-> <<>>]

Insert(k, d) == series' = [series EXCEPT ![k] = Append(@, d)]

Remove(k) == series' = [series EXCEPT ![k] = <<>>]

Next == \E k \in Stamps : Remove(k) \/ \E d \in Data : Insert(k, d)

Spec == Init /\ [][Next]_series
=============================================================================
