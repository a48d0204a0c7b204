--------------------------- MODULE ProviderHealth ---------------------------
(***************************************************************************)
(* The health of one provider for one merchant and environment             *)
(* (payments/app/routing/health.py) as the coroutines of the payment       *)
(* service see it.  Its state is split: a row of provider_health_statuses  *)
(* and a Redis key with a time to live.  Database statements block the one *)
(* event loop of the process, Redis commands are awaited, so coroutines    *)
(* interleave exactly at the Redis commands; a statement that waits for a  *)
(* row lock keeps every coroutine from running.                            *)
(*                                                                         *)
(* Time is kept as what it changes: disabled_until passes, the key expires.*)
(***************************************************************************)
EXTENDS Integers, FiniteSets

CONSTANTS
    Coroutine,     \* create() calls that try this provider, again and again
    Threshold,     \* ROUTING_FAILURE_THRESHOLD
    Nobody

ASSUME ThresholdAssumption == Threshold \in Nat /\ Threshold > 1
ASSUME NobodyAssumption == Nobody \notin Coroutine
ASSUME CoroutineAssumption == IsFiniteSet(Coroutine) /\ Coroutine # {}

VARIABLES
    health,     \* status: "none" when there is no row
    failures,   \* consecutive_failures
    until,      \* disabled_until
    key,        \* the Redis key holds "disabled"
    lock,       \* the coroutine whose transaction holds the row lock
    waiting,    \* the coroutine whose statement waits for it
    pc,         \* where a coroutine stands
    seen,       \* next_failures: the count it read, plus one
    streak,     \* failed calls recorded since the last recorded success
    late        \* history: failures recorded in a quarantine since it began

rowVars == <<health, failures, until>>
counts == <<streak, late>>
healthVars == <<rowVars, key, lock, waiting, pc, seen, counts>>

\* At a Redis command: get in is_available, setex and its reply in
\* record_failure, delete and its reply in record_success.
AtRedis == {"asking", "quarantining", "quarantined", "succeeded", "cleared"}

HealthTypeOK ==
    /\ health \in {"none", "healthy", "degraded", "unhealthy"}
    /\ failures \in Nat
    /\ until \in {"null", "future", "past"}
    /\ key \in BOOLEAN
    /\ lock \in Coroutine \union {Nobody}
    /\ waiting \in Coroutine \union {Nobody}
    /\ pc \in [Coroutine -> AtRedis \union {"idle", "calling", "failed"}]
    /\ seen \in [Coroutine -> Nat]
    /\ streak \in Nat /\ late \in Nat

HealthInit ==
    /\ health = "none" /\ failures = 0 /\ until = "null"
    /\ key = FALSE
    /\ lock = Nobody /\ waiting = Nobody
    /\ pc = [q \in Coroutine |-> "idle"]
    /\ seen = [q \in Coroutine |-> 0]
    /\ streak = 0 /\ late = 0

Goto(q, l) == pc' = [pc EXCEPT ![q] = l]

LoopRuns == waiting = Nobody

\* The statement of q needs the row while another transaction has it locked:
\* the thread of the event loop sleeps in the driver.
BlockLoop(q) == waiting' = q /\ UNCHANGED <<rowVars, key, lock, pc, seen, counts>>

LockFree(q) == lock \in {Nobody, q}

-----------------------------------------------------------------------------
\* is_available, after the Redis key was found missing.
RowAvailable ==
    \/ health = "none"
    \/ until # "future" /\ health # "unhealthy"

\* Just before the provider is called, the loop over the candidates asks again.
AskRedis(q) ==
    /\ LoopRuns
    /\ pc[q] = "idle"
    /\ ~key
    /\ Goto(q, "asking")
    /\ UNCHANGED <<rowVars, key, lock, waiting, seen, counts>>

\* Fault: the missing key decides, and the row is not asked.
AskKeyOnly(q) ==
    /\ LoopRuns
    /\ pc[q] = "asking"
    /\ Goto(q, "calling")
    /\ UNCHANGED <<rowVars, key, lock, waiting, seen, counts>>

\* The SELECT on the row, and whatever follows up to the provider's call.
AskRow(q) ==
    /\ LoopRuns
    /\ pc[q] = "asking"
    /\ Goto(q, IF RowAvailable THEN "calling" ELSE "idle")
    /\ UNCHANGED <<rowVars, key, lock, waiting, seen, counts>>

\* The provider answers, or the call times out.
ProviderAnswers(q) ==
    /\ LoopRuns
    /\ pc[q] = "calling"
    /\ \E l \in {"succeeded", "failed"} : Goto(q, l)
    /\ UNCHANGED <<rowVars, key, lock, waiting, seen, counts>>

-----------------------------------------------------------------------------
(***************************************************************************)
(* record_success and the commit of its caller                             *)
(***************************************************************************)

DeleteKey(q) ==
    /\ pc[q] = "succeeded"
    /\ key' = FALSE
    /\ Goto(q, "cleared")
    /\ UNCHANGED <<rowVars, lock, waiting, seen, counts>>

\* Fault: the upsert forgets consecutive_failures.
StoreHealthy(q) ==
    /\ LoopRuns
    /\ pc[q] = "cleared"
    /\ LockFree(q)
    /\ health' = "healthy" /\ until' = "null"
    /\ streak' = 0
    /\ Goto(q, "idle")
    /\ UNCHANGED <<failures, key, lock, waiting, seen, late>>

\* The upsert and the commit in _record_provider_success.
StoreSuccess(q) ==
    /\ LoopRuns
    /\ pc[q] = "cleared"
    /\ IF LockFree(q)
         THEN /\ health' = "healthy" /\ failures' = 0 /\ until' = "null"
              /\ streak' = 0
              /\ Goto(q, "idle")
              /\ UNCHANGED <<key, lock, waiting, seen, late>>
         ELSE BlockLoop(q)

-----------------------------------------------------------------------------
(***************************************************************************)
(* record_failure and the commit of its caller                             *)
(***************************************************************************)

\* Below the threshold nothing is awaited between the SELECT and the commit.
StoreFailure(q) ==
    /\ failures + 1 < Threshold
    /\ health' = "degraded" /\ failures' = failures + 1 /\ until' = "null"
    /\ streak' = streak + 1
    /\ Goto(q, "idle")
    /\ UNCHANGED <<key, lock, waiting, seen, late>>

\* Fault: a plain SELECT, which locks nothing.
RecordUnlocked(q) ==
    /\ LoopRuns
    /\ pc[q] = "failed"
    /\ \/ StoreFailure(q)
       \/ /\ failures + 1 >= Threshold
          /\ seen' = [seen EXCEPT ![q] = failures + 1]
          /\ Goto(q, "quarantining")
          /\ UNCHANGED <<rowVars, key, lock, waiting, counts>>

\* SELECT ... FOR UPDATE, which locks the row if there is one; at the threshold
\* it stays locked while the Redis command is awaited.
RecordFailure(q) ==
    /\ LoopRuns
    /\ pc[q] = "failed"
    /\ \/ ~LockFree(q) /\ BlockLoop(q)
       \/ LockFree(q) /\ StoreFailure(q)
       \/ /\ LockFree(q)
          /\ failures + 1 >= Threshold
          /\ lock' = IF health = "none" THEN Nobody ELSE q
          /\ seen' = [seen EXCEPT ![q] = failures + 1]
          /\ Goto(q, "quarantining")
          /\ UNCHANGED <<rowVars, key, waiting, counts>>

SetKey(q) ==
    /\ pc[q] = "quarantining"
    /\ key' = TRUE
    /\ Goto(q, "quarantined")
    /\ UNCHANGED <<rowVars, lock, waiting, seen, counts>>

\* The upsert of the count read under the lock, and the commit that frees it.
StoreQuarantine(q) ==
    /\ LoopRuns
    /\ pc[q] = "quarantined"
    /\ IF LockFree(q)
         THEN /\ health' = "unhealthy" /\ failures' = seen[q] /\ until' = "future"
              /\ streak' = streak + 1
              /\ late' = IF until = "future" THEN late + 1 ELSE 0
              /\ lock' = Nobody
              /\ Goto(q, "idle")
              /\ UNCHANGED <<key, waiting, seen>>
         ELSE BlockLoop(q)

-----------------------------------------------------------------------------
(***************************************************************************)
(* Time and failures                                                       *)
(***************************************************************************)

QuarantineElapses ==
    /\ until = "future"
    /\ until' = "past"
    /\ UNCHANGED <<health, failures, key, lock, waiting, pc, seen, counts>>

\* The key reaches its time to live, is evicted or flushed.
KeyExpires ==
    /\ key
    /\ key' = FALSE
    /\ UNCHANGED <<rowVars, lock, waiting, pc, seen, counts>>

\* A Redis command raises: the session is closed, which rolls back and unlocks.
RedisFails(q) ==
    /\ LoopRuns
    /\ pc[q] \in AtRedis
    /\ Goto(q, "idle")
    /\ lock' = IF lock = q THEN Nobody ELSE lock
    /\ UNCHANGED <<rowVars, key, waiting, seen, counts>>

\* The process is restarted; its transactions are rolled back.
Restart ==
    /\ pc' = [q \in Coroutine |-> "idle"]
    /\ lock' = Nobody /\ waiting' = Nobody
    /\ UNCHANGED <<rowVars, key, seen, counts>>

-----------------------------------------------------------------------------
Record(q) == DeleteKey(q) \/ StoreSuccess(q) \/ RecordFailure(q) \/ SetKey(q) \/ StoreQuarantine(q)

HealthNext ==
    \/ \E q \in Coroutine : \/ AskRedis(q) \/ AskRow(q) \/ ProviderAnswers(q)
                            \/ Record(q) \/ RedisFails(q)
    \/ QuarantineElapses \/ KeyExpires \/ Restart

HealthSpec == HealthInit /\ [][HealthNext]_healthVars

(***************************************************************************)
(* A coroutine that has something to record is scheduled, and Redis        *)
(* answers.  Nobody restarts the service: the container's health check     *)
(* (docker-compose.yml:251) marks it unhealthy and restarts nothing.       *)
(***************************************************************************)
FairHealthSpec == HealthSpec /\ \A q \in Coroutine : WF_healthVars(Record(q))

-----------------------------------------------------------------------------
(***************************************************************************)
(* Safety                                                                  *)
(***************************************************************************)

\* Between its SELECT and its commit a quarantining coroutine holds the row, so
\* the count it read is still the row's: no second one can have read it too.
LockInv ==
    /\ lock # Nobody => pc[lock] \in {"quarantining", "quarantined"}
    /\ \A q \in Coroutine : pc[q] \in {"quarantining", "quarantined"} =>
         /\ lock = q
         /\ seen[q] = failures + 1
         /\ failures + 1 >= Threshold

\* consecutive_failures counts every failure recorded since the last success,
\* however the coroutines that record them interleave (the comment at
\* health.py:91), and whether or not the process was restarted between.
CountIsExact == failures = streak

\* The status says what the count says: a quarantine is always earned, and an
\* earned one is lifted by nothing but a success.
QuarantineIsEarned ==
    /\ health = "unhealthy" <=> streak >= Threshold
    /\ health \in {"none", "healthy"} => streak = 0
    /\ until # "null" <=> health = "unhealthy"

\* A quarantine takes effect at once and for its whole time, be the Redis key set,
\* expired, deleted or lost: the failures recorded between its beginning and its end
\* are of calls that were under way when it began, so fewer than there are coroutines.
OvershootBounded == late < Cardinality(Coroutine)

(***************************************************************************)
(* What the documentation says and the code does not do                    *)
(***************************************************************************)

\* docs/ARCHITECTURE.md:604-606: a key that is not found and a disabled_until that has
\* passed make the provider available again.
AvailableAfterQuarantine == ~key /\ until = "past" => RowAvailable

\* docs/ARCHITECTURE.md:473, once a failure is recorded the service continues
\* with the next candidate: under FairHealthSpec the recording ends.
RecordingEnds == \A q \in Coroutine : (pc[q] = "failed") ~> (pc[q] = "idle")
=============================================================================
