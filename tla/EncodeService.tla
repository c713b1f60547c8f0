--------------------------- MODULE EncodeService ---------------------------
(***************************************************************************)
(* What the callers of the encoder pool rely on, without threads, sessions *)
(* or sentinels.  Jobs are accepted in some order, started in that order,  *)
(* at most Capacity of them at a time, and every started job is answered   *)
(* once.  Closing the service may leave accepted jobs without an answer:   *)
(* after Close nothing has to be started any more.                         *)
(*                                                                         *)
(* EncoderPool.tla is shown to implement this specification.               *)
(***************************************************************************)
EXTENDS Naturals, Sequences, FiniteSets

CONSTANTS Jobs,       \* one element per future a caller can obtain
          Capacity    \* the most jobs that are in inference at one time

VARIABLES waiting,    \* the accepted jobs nobody has started, oldest first
          running,    \* the jobs being encoded
          answer,     \* what the future of each job shows
          closed      \* the service has been told to stop

vars == <<waiting, running, answer, closed>>

Init ==
    /\ waiting = <<>>
    /\ running = {}
    /\ answer = [j \in Jobs |-> "none"]
    /\ closed = FALSE

Accept(j) ==
    /\ answer[j] = "none"
    /\ waiting' = Append(waiting, j)
    /\ answer' = [answer EXCEPT ![j] = "pending"]
    /\ UNCHANGED <<running, closed>>

Start ==
    /\ waiting # <<>>
    /\ Cardinality(running) < Capacity
    /\ running' = running \cup {Head(waiting)}
    /\ waiting' = Tail(waiting)
    /\ UNCHANGED <<answer, closed>>

Answer(j) ==
    /\ j \in running
    /\ running' = running \ {j}
    /\ \E a \in {"result", "error"} : answer' = [answer EXCEPT ![j] = a]
    /\ UNCHANGED <<waiting, closed>>

Close ==
    /\ ~closed
    /\ closed' = TRUE
    /\ UNCHANGED <<waiting, running, answer>>

Next ==
    \/ \E j \in Jobs : Accept(j) \/ Answer(j)
    \/ Start
    \/ Close

\* An open service starts what it accepted, and what was started is answered.
Fairness ==
    /\ WF_vars(~closed /\ Start)
    /\ \A j \in Jobs : WF_vars(Answer(j))

Spec == Init /\ [][Next]_vars

FairSpec == Spec /\ Fairness
=============================================================================
