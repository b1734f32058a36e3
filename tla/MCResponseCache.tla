-------------------------- MODULE MCResponseCache --------------------------
(* A small instance of ResponseCache: the response declares a lifetime, the *)
(* remembered value none, which leaves it cache.ttl as shipped: no expiry.  *)
EXTENDS ResponseCache

OnlyResponseDeclares == [k \in Keys |-> IF k = "response" THEN 2 ELSE Unset]
=============================================================================
