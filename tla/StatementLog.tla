----------------------------- MODULE StatementLog -----------------------------
(***************************************************************************)
(* What the writer of the shared SQL file may expect of sql_cache          *)
(* (src/src/workQueue.cpp): its statements, numbered in the order written, *)
(* are executed, each once, and nothing else is.                           *)
(***************************************************************************)
EXTENDS Naturals, Sequences

VARIABLES written,    \* how many statements are in the file
          executed    \* the statements executed, oldest first

Init == written = 0 /\ executed = <<>>

Write == written' = written + 1 /\ UNCHANGED executed

Execute(n) ==
  /\ \A i \in DOMAIN executed : executed[i] # n
  /\ executed' = Append(executed, n)
  /\ UNCHANGED written

Next == Write \/ \E n \in 1..written : Execute(n)

Spec == Init /\ [][Next]_<<written, executed>>
=============================================================================
