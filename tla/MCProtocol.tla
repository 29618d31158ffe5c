------------------------------ MODULE MCProtocol ------------------------------
(* The instance of Protocol for TLC. *)
EXTENDS Protocol

Rep(b, n) == [k \in 1..n |-> b]

\* Every byte once, for the checksums.
Bytes == {[commands |-> {128}, chunks |-> {<<b>>}, packets |-> 1, cuts |-> {}] : b \in Byte}

\* Several packets, the first of them too short to be decoded alone.
Short == [commands |-> {16, 192}, chunks |-> {<<1>>, <<2, 0>>, <<143, 7, 0, 200>>},
          packets |-> 3, cuts |-> {}]

\* Parts of packets: data are taken for headers.
Torn == [commands |-> {64}, chunks |-> {<<143, 143, 136, 0, 0>>, <<0, 141, 0>>}, packets |-> 3,
         cuts |-> {3, 9}]

\* Up to, at and beyond 256 bytes, and more than the receiver's buffer.
Long == [commands |-> {66}, chunks |-> {<<5>>, Rep(143, 250), Rep(7, 251), Rep(9, 252)}, packets |-> 3,
         cuts |-> {}]

All == Bytes \cup {Short, Torn, Long}
=============================================================================
