---------------------------- MODULE MCChatRequest ----------------------------
(* Two bodies of the same prompt, one of them as the client spells it.      *)
EXTENDS ChatRequest

CONSTANTS b1, b2

MCNormal == [b \in Bodies |-> b1]

=============================================================================
