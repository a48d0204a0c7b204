--------------------------- MODULE CircuitBreaker ---------------------------
(***************************************************************************)
(* The gateway's circuit breaker around POST /api/v1/payments              *)
(* (gateway-verification/app/services/circuitBreaker.js, routes/payments.js*)
(* and config/proxy.js).  All requests share one http-proxy emitter: a     *)
(* POST registers a one-shot proxyRes listener on it, and any response,    *)
(* to a GET as well, fires every listener registered at that moment.       *)
(*                                                                         *)
(* Commands of one Redis connection are executed in the order the gateway  *)
(* sent them, so a command takes effect where it is sent; what follows its *)
(* reply is a step of its own.                                             *)
(***************************************************************************)
EXTENDS Integers, FiniteSets

CONSTANTS
    Post,         \* creation requests, each made once
    Threshold     \* FAIL_THRESHOLD

ASSUME PostAssumption == IsFiniteSet(Post)
ASSUME ThresholdAssumption == Threshold \in Nat \ {0}

VARIABLES
    phase,        \* where a request stands
    listening,    \* the requests whose listener is registered
    fails,        \* the counter cb:payments:fails
    open,         \* cb:payments holds "open"
    trips,        \* INCR replies at or over the threshold, not yet acted on
    answer,       \* what the payment service answered to a request
    heard,        \* the outcomes recorded on behalf of a request
    streak        \* failures recorded since the last recorded success

breaker == <<fails, open>>
breakerVars == <<phase, listening, breaker, trips, answer, heard, streak>>

BreakerTypeOK ==
    /\ phase \in [Post -> {"idle", "admitted", "refused", "forwarded", "answered", "aborted", "lost"}]
    /\ listening \subseteq Post
    /\ fails \in Nat
    /\ open \in BOOLEAN
    /\ trips \in Nat
    /\ answer \in [Post -> {"none", "ok", "error"}]
    /\ heard \in [Post -> SUBSET {"ok", "error"}]
    /\ streak \in Nat

BreakerInit ==
    /\ phase = [p \in Post |-> "idle"]
    /\ listening = {}
    /\ fails = 0 /\ open = FALSE /\ trips = 0
    /\ answer = [p \in Post |-> "none"]
    /\ heard = [p \in Post |-> {}]
    /\ streak = 0

Goto(p, ph) == phase' = [phase EXCEPT ![p] = ph]

-----------------------------------------------------------------------------
(***************************************************************************)
(* circuitBreaker.js                                                       *)
(***************************************************************************)

\* recordFailure n times, up to its INCR.
Failures(n) ==
    /\ fails' = fails + n
    /\ trips' = trips + Cardinality({k \in 1..n : fails + k >= Threshold})
    /\ streak' = streak + n
    /\ UNCHANGED open

\* Fault: a success closes the circuit and leaves the counter.
CloseOnly ==
    /\ open' = FALSE
    /\ streak' = 0
    /\ UNCHANGED <<fails, trips>>

\* recordSuccess
Success ==
    /\ open' = FALSE
    /\ fails' = 0
    /\ streak' = 0
    /\ UNCHANGED trips

\* recordFailure after its INCR: open for OPEN_TTL and start counting anew.
Trip ==
    /\ trips > 0
    /\ trips' = trips - 1
    /\ open' = TRUE
    /\ fails' = 0
    /\ UNCHANGED <<phase, listening, answer, heard, streak>>

\* The key's time to live.
Expire ==
    /\ open
    /\ open' = FALSE
    /\ UNCHANGED <<phase, listening, fails, trips, answer, heard, streak>>

-----------------------------------------------------------------------------
(***************************************************************************)
(* routes/payments.js                                                      *)
(***************************************************************************)

\* isCircuitOpen
Check(p) ==
    /\ phase[p] = "idle"
    /\ Goto(p, IF open THEN "refused" ELSE "admitted")
    /\ UNCHANGED <<listening, breaker, trips, answer, heard, streak>>

Forward(p) ==
    /\ phase[p] = "admitted"
    /\ Goto(p, "forwarded")
    /\ listening' = listening \union {p}
    /\ UNCHANGED <<breaker, trips, answer, heard, streak>>

\* A response fires every listener.
Fire(outcome) ==
    /\ listening' = {}
    /\ heard' = [p \in Post |-> IF p \in listening THEN heard[p] \union {outcome} ELSE heard[p]]
    /\ IF listening = {} THEN UNCHANGED <<breaker, trips, streak>>
       ELSE IF outcome = "ok" THEN Success
       ELSE Failures(Cardinality(listening))

Respond(p) ==
    /\ phase[p] = "forwarded"
    /\ \E outcome \in {"ok", "error"} :
         /\ answer' = [answer EXCEPT ![p] = outcome]
         /\ Fire(outcome)
    /\ Goto(p, "answered")

\* A list, a lookup or a provider's return was proxied; it has no listener.
RespondToGet ==
    /\ \E outcome \in {"ok", "error"} : Fire(outcome)
    /\ UNCHANGED <<phase, answer>>

\* The error callback: refused, reset or timed out without a response.
Unreachable(p) ==
    /\ phase[p] = "forwarded"
    /\ Goto(p, "answered")
    /\ answer' = [answer EXCEPT ![p] = "error"]
    /\ listening' = listening \ {p}
    /\ heard' = [heard EXCEPT ![p] = @ \union {"error"}]
    /\ Failures(1)

\* The caller hangs up: http-proxy aborts without either callback.
ClientAborts(p) ==
    /\ phase[p] = "forwarded"
    /\ Goto(p, "aborted")
    /\ UNCHANGED <<listening, breaker, trips, answer, heard, streak>>

\* Listeners and unread replies are the process's, the keys are not.
Restart ==
    /\ phase' = [p \in Post |-> IF phase[p] \in {"admitted", "forwarded"} THEN "lost" ELSE phase[p]]
    /\ listening' = {}
    /\ trips' = 0
    /\ UNCHANGED <<breaker, answer, heard, streak>>

BreakerNext ==
    \/ \E p \in Post : Check(p) \/ Forward(p) \/ Respond(p) \/ Unreachable(p) \/ ClientAborts(p)
    \/ RespondToGet \/ Trip \/ Expire \/ Restart

-----------------------------------------------------------------------------
(***************************************************************************)
(* Properties                                                              *)
(***************************************************************************)

\* The counter never claims more failures than were recorded since the last success,
\* whichever of the pending trips, successes and failures comes last.
CounterNeverOverstates == fails <= streak

(***************************************************************************)
(* What a comment says and the code does not do                            *)
(***************************************************************************)

\* routes/payments.js:26: the outcome that is tracked for a request is that of the payment
\* service's own answer to it.
OutcomesAreOwn == \A p \in Post : phase[p] = "answered" => answer[p] \in heard[p]
=============================================================================
