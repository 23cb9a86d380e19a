-------------------------- MODULE MCCircuitBreaker --------------------------
(* TLC instances of CircuitBreaker.                                        *)
EXTENDS CircuitBreaker, TLC

CONSTANTS k1, k2, p1, p2, t1, t2

\* Two keys of one provider: the same provider in the chains of two profiles.
OneProvider == k1 :> p1 @@ k2 :> p1
SingleKey == k1 :> p1

\* One key of each of two providers.
TwoProviders == k1 :> p1 @@ k2 :> p2
=============================================================================
