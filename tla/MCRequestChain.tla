--------------------------- MODULE MCRequestChain ---------------------------
(* TLC instances of RequestChain: a chain of two or three steps over two     *)
(* base URLs, of one provider or of two; one of the models supports images.  *)
EXTENDS RequestChain, TLC

CONSTANTS k1, k2, p1, p2, t1, t2, s1, s2, s3

TwoProviders == k1 :> p1 @@ k2 :> p2
OneProvider == k1 :> p1 @@ k2 :> p1

TwoSteps == <<s1, s2>>
ThreeSteps == <<s1, s2, s3>>

\* s3 is another model of s1's provider and base URL.
StepKeys == s1 :> k1 @@ s2 :> k2 @@ s3 :> k1

\* A retried 5xx or 429, a timeout, a rejected key.
ErrorKinds == {[w |-> 1, retried |-> TRUE], [w |-> 1, retried |-> FALSE],
               [w |-> 2, retried |-> FALSE]}

AnyRequest == [image : BOOLEAN, dynamic : BOOLEAN]
TextStatic == {[image |-> FALSE, dynamic |-> FALSE]}

MCSteps == {s1, s2, s3}
=============================================================================
