------------------------------- MODULE MCThreads -------------------------------
(* What threads that meet leave behind, on small instances: in the           *)
(* configuration, which they edit and save (GatewayConfig), and inside the   *)
(* methods of the circuit breaker (BreakerThreads).  part says which of them *)
(* a behaviour is about: the other rests.                                    *)
EXTENDS GatewayConfig, BreakerThreads, TLC

CONSTANTS p1, p2, p3, f1, f2, t1, t2

VARIABLE part

sharedParts == <<part, vars, threadVars>>

\* A seed with one provider and the default profile.
OneChain == f1 :> {p1}

\* The row that an earlier process may have left: dead until time 1.
MCBootRows == {[status |-> "dead", failures |-> 2, tripped |-> 1, override |-> "none"]}

\* Threads are not told apart by anything but their name, nor are the entries.
MCSymmetry == Permutations(BThreads) \cup Permutations(Objects)

MCInit ==
  /\ part \in {"config", "breaker"}
  /\ Init /\ ThreadsInit
  /\ part = "config" => tableRow = NoRow

MCNext ==
  /\ UNCHANGED part
  /\ \/ part = "config" /\ Next /\ UNCHANGED threadVars
     \/ part = "breaker" /\ ThreadsNext /\ UNCHANGED vars

MCSpec == MCInit /\ [][MCNext]_sharedParts
=============================================================================
