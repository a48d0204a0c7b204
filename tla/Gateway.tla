------------------------------- MODULE Gateway -------------------------------
(***************************************************************************)
(* The gateway-verification service: it looks a key up (GatewayCache) and  *)
(* passes a creation request to the payment service (CircuitBreaker).  The *)
(* two keep different Redis keys and share no state, so a behaviour is one *)
(* of one part, the other standing still.                                  *)
(***************************************************************************)
EXTENDS CircuitBreaker, GatewayCache

VARIABLE part   \* whose behaviour this is

gatewayVars == <<part, breakerVars, cacheVars>>

TypeOK == part \in {"breaker", "cache"} /\ BreakerTypeOK /\ CacheTypeOK

Init == BreakerInit /\ CacheInit /\ part \in {"breaker", "cache"}

Next ==
    /\ UNCHANGED part
    /\ \/ part = "breaker" /\ BreakerNext /\ UNCHANGED cacheVars
       \/ part = "cache" /\ CacheNext /\ UNCHANGED breakerVars

Spec == Init /\ [][Next]_gatewayVars
=============================================================================
