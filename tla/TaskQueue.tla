------------------------------ MODULE TaskQueue ------------------------------
(***************************************************************************)
(* What a client of the thread pool (src/src/threadPool.cpp) may rely on:  *)
(* a bounded FIFO of tasks.  A submitted task is started at most once, in  *)
(* submission order, and never forgotten.  ThreadPool implements it.       *)
(***************************************************************************)
EXTENDS Naturals, Sequences

CONSTANTS Tasks, Capacity

VARIABLES pending,    \* submitted and not yet started, oldest first
          running,    \* started and not yet finished
          finished

vars == <<pending, running, finished>>

Known == {pending[i] : i \in DOMAIN pending} \cup running \cup finished

Init == pending = <<>> /\ running = {} /\ finished = {}

Submit(t) ==
  /\ t \notin Known
  /\ Len(pending) < Capacity
  /\ pending' = Append(pending, t)
  /\ UNCHANGED <<running, finished>>

Start ==
  /\ pending # <<>>
  /\ running' = running \cup {Head(pending)}
  /\ pending' = Tail(pending)
  /\ UNCHANGED finished

Finish(t) ==
  /\ t \in running
  /\ running' = running \ {t}
  /\ finished' = finished \cup {t}
  /\ UNCHANGED pending

Next == Start \/ \E t \in Tasks : Submit(t) \/ Finish(t)

Spec == Init /\ [][Next]_vars

\* Nothing obliges a client to submit; what was submitted is started and ends.
FairSpec == Spec /\ WF_vars(Start) /\ \A t \in Tasks : WF_vars(Finish(t))
=============================================================================
