------------------------ MODULE ProviderHealthProofs ------------------------
(***************************************************************************)
(* Proofs about ProviderHealth, for any number of coroutines and any       *)
(* threshold above one: the row lock makes the count exact, and the count  *)
(* makes every quarantine earned and kept.                                 *)
(***************************************************************************)
EXTENDS Routing, FiniteSetTheorems, TLAPS

\* The inductive invariant: the count is exact because nobody else writes the
\* row between a locked SELECT and its commit.
IInv == HealthTypeOK /\ LockInv /\ CountIsExact /\ QuarantineIsEarned

\* It holds before the first call: there is no row and no lock.
LEMMA InitHolds == HealthInit => IInv
<1> SUFFICES ASSUME HealthInit PROVE IInv
  OBVIOUS
<1>1. HealthTypeOK
  BY DEF HealthInit, HealthTypeOK
<1>2. LockInv
  BY NobodyAssumption DEF HealthInit, LockInv
<1>3. CountIsExact /\ QuarantineIsEarned
  BY ThresholdAssumption DEF HealthInit, CountIsExact, QuarantineIsEarned
<1> QED
  BY <1>1, <1>2, <1>3 DEF IInv

\* A step of the is_available check or of a provider's answer.
LEMMA CallSteps ==
  ASSUME IInv, NEW q \in Coroutine, AskRedis(q) \/ AskRow(q) \/ ProviderAnswers(q)
  PROVE  IInv'
<1> USE NobodyAssumption DEF IInv, rowVars, counts
<1>1. \E l \in {"asking", "calling", "idle", "succeeded", "failed"} :
        /\ pc' = [pc EXCEPT ![q] = l]
        /\ UNCHANGED <<rowVars, key, lock, waiting, seen, counts>>
  BY DEF AskRedis, AskRow, ProviderAnswers, Goto
<1>2. pc[q] \notin {"quarantining", "quarantined"}
  BY DEF AskRedis, AskRow, ProviderAnswers
<1>3. HealthTypeOK'
  BY <1>1 DEF HealthTypeOK, AtRedis
<1>4. LockInv'
  BY <1>1, <1>2 DEF HealthTypeOK, LockInv
<1>5. CountIsExact' /\ QuarantineIsEarned'
  BY <1>1 DEF CountIsExact, QuarantineIsEarned
<1> QED
  BY <1>3, <1>4, <1>5

\* A statement that waits for the lock changes nothing but who waits.
LEMMA BlockKeeps ==
  ASSUME IInv, NEW q \in Coroutine, BlockLoop(q)
  PROVE  IInv'
BY DEF BlockLoop, IInv, HealthTypeOK, LockInv, CountIsExact, QuarantineIsEarned, rowVars, counts, AtRedis

\* record_success: the lock is free, so nobody has read a count this one resets.
LEMMA SuccessSteps ==
  ASSUME IInv, NEW q \in Coroutine, DeleteKey(q) \/ StoreSuccess(q)
  PROVE  IInv'
<1> USE NobodyAssumption, ThresholdAssumption DEF IInv, rowVars, counts
<1>1. CASE DeleteKey(q)
  <2>1. HealthTypeOK'
    BY <1>1 DEF DeleteKey, Goto, HealthTypeOK, AtRedis
  <2>2. LockInv'
    BY <1>1 DEF DeleteKey, Goto, HealthTypeOK, LockInv
  <2> QED
    BY <1>1, <2>1, <2>2 DEF DeleteKey, CountIsExact, QuarantineIsEarned
<1>2. CASE StoreSuccess(q) /\ LockFree(q)
  <2>1. lock = Nobody
    BY <1>2 DEF StoreSuccess, LockFree, LockInv, HealthTypeOK
  <2>2. \A x \in Coroutine : pc[x] \notin {"quarantining", "quarantined"}
    BY <2>1 DEF LockInv
  <2>3. HealthTypeOK'
    BY <1>2 DEF StoreSuccess, Goto, HealthTypeOK, AtRedis
  <2>4. LockInv'
    BY <1>2, <2>1, <2>2 DEF StoreSuccess, Goto, HealthTypeOK, LockInv
  <2> QED
    BY <1>2, <2>3, <2>4 DEF StoreSuccess, CountIsExact, QuarantineIsEarned
<1>3. CASE StoreSuccess(q) /\ ~LockFree(q)
  BY <1>3, BlockKeeps DEF StoreSuccess
<1> QED
  BY <1>1, <1>2, <1>3

\* record_failure.
LEMMA FailureSteps ==
  ASSUME IInv, NEW q \in Coroutine, RecordFailure(q) \/ SetKey(q) \/ StoreQuarantine(q)
  PROVE  IInv'
<1> USE NobodyAssumption, ThresholdAssumption DEF IInv, rowVars, counts
<1>1. CASE RecordFailure(q) /\ LockFree(q)
  <2>1. lock = Nobody
    BY <1>1 DEF RecordFailure, LockFree, LockInv, HealthTypeOK
  <2>2. \A x \in Coroutine : pc[x] \notin {"quarantining", "quarantined"}
    BY <2>1 DEF LockInv
  <2>3. CASE StoreFailure(q)
    <3>1. HealthTypeOK'
      BY <2>3 DEF StoreFailure, Goto, HealthTypeOK, AtRedis
    <3>2. LockInv'
      BY <2>1, <2>2, <2>3 DEF StoreFailure, Goto, HealthTypeOK, LockInv
    <3> QED
      BY <2>3, <3>1, <3>2 DEF StoreFailure, HealthTypeOK, CountIsExact, QuarantineIsEarned
  <2>4. CASE /\ failures + 1 >= Threshold
             /\ lock' = IF health = "none" THEN Nobody ELSE q
             /\ seen' = [seen EXCEPT ![q] = failures + 1]
             /\ Goto(q, "quarantining")
             /\ UNCHANGED <<rowVars, key, waiting, counts>>
    <3>1. health # "none"
      BY <2>4 DEF HealthTypeOK, CountIsExact, QuarantineIsEarned
    <3>2. HealthTypeOK'
      BY <2>4, <3>1 DEF Goto, HealthTypeOK, AtRedis
    <3>3. LockInv'
      BY <2>2, <2>4, <3>1 DEF Goto, HealthTypeOK, LockInv
    <3> QED
      BY <2>4, <3>2, <3>3 DEF CountIsExact, QuarantineIsEarned
  <2> QED
    BY <1>1, <2>3, <2>4 DEF RecordFailure
<1>2. CASE RecordFailure(q) /\ ~LockFree(q)
  BY <1>2, BlockKeeps DEF RecordFailure
<1>3. CASE SetKey(q)
  <2>1. HealthTypeOK'
    BY <1>3 DEF SetKey, Goto, HealthTypeOK, AtRedis
  <2>2. LockInv'
    BY <1>3 DEF SetKey, Goto, HealthTypeOK, LockInv
  <2> QED
    BY <1>3, <2>1, <2>2 DEF SetKey, CountIsExact, QuarantineIsEarned
<1>4. CASE StoreQuarantine(q)
  <2>1. /\ lock = q
        /\ seen[q] = failures + 1
        /\ failures + 1 >= Threshold
    BY <1>4 DEF StoreQuarantine, LockInv
  <2>2. /\ health' = "unhealthy" /\ failures' = failures + 1 /\ until' = "future"
        /\ streak' = streak + 1
        /\ lock' = Nobody
        /\ pc' = [pc EXCEPT ![q] = "idle"]
        /\ late' = IF until = "future" THEN late + 1 ELSE 0
        /\ UNCHANGED <<key, waiting, seen>>
    BY <1>4, <2>1 DEF StoreQuarantine, LockFree, Goto
  <2>3. HealthTypeOK'
    BY <2>2 DEF HealthTypeOK, AtRedis
  <2>4. LockInv'
    BY <2>1, <2>2 DEF HealthTypeOK, LockInv
  <2>5. CountIsExact' /\ QuarantineIsEarned'
    BY <2>1, <2>2 DEF HealthTypeOK, CountIsExact, QuarantineIsEarned
  <2> QED
    BY <2>3, <2>4, <2>5
<1> QED
  BY <1>1, <1>2, <1>3, <1>4

\* Time, a failing Redis and a restart.
LEMMA OtherSteps ==
  ASSUME IInv,
         \/ QuarantineElapses \/ KeyExpires \/ Restart
         \/ \E q \in Coroutine : RedisFails(q)
         \/ UNCHANGED healthVars
  PROVE  IInv'
<1> USE NobodyAssumption DEF IInv, rowVars, counts
<1>1. CASE QuarantineElapses
  BY <1>1 DEF QuarantineElapses, HealthTypeOK, LockInv, CountIsExact, QuarantineIsEarned, AtRedis
<1>2. CASE KeyExpires
  BY <1>2 DEF KeyExpires, HealthTypeOK, LockInv, CountIsExact, QuarantineIsEarned, AtRedis
<1>3. CASE Restart
  BY <1>3 DEF Restart, HealthTypeOK, LockInv, CountIsExact, QuarantineIsEarned, AtRedis
<1>4. ASSUME NEW q \in Coroutine, RedisFails(q) PROVE IInv'
  <2>1. HealthTypeOK'
    BY <1>4 DEF RedisFails, Goto, HealthTypeOK, AtRedis
  <2>2. LockInv'
    BY <1>4 DEF RedisFails, Goto, HealthTypeOK, LockInv
  <2> QED
    BY <1>4, <2>1, <2>2 DEF RedisFails, CountIsExact, QuarantineIsEarned
<1>5. CASE UNCHANGED healthVars
  BY <1>5 DEF healthVars, HealthTypeOK, LockInv, CountIsExact, QuarantineIsEarned, AtRedis
<1> QED
  BY <1>1, <1>2, <1>3, <1>4, <1>5

\* The lock, the count and the quarantine stay in step in every execution.
LEMMA HealthInvariant == HealthSpec => []IInv
<1>1. IInv /\ [HealthNext]_healthVars => IInv'
  BY CallSteps, SuccessSteps, FailureSteps, OtherSteps DEF HealthNext, Record
<1> QED
  BY InitHolds, <1>1, PTL DEF HealthSpec

----------------------------------------------------------------------------
\* A behaviour of the routing side is one of this part.
LEMMA HealthPart == Spec => HealthSpec
<1>1. Init => HealthInit
  BY DEF Init
<1>2. [Next]_vars => [HealthNext]_healthVars
  BY DEF Next, vars
<1> QED
  BY <1>1, <1>2, PTL DEF Spec, HealthSpec

\* Every variable keeps its type.
THEOREM HealthTypes == Spec => []HealthTypeOK
BY HealthInvariant, HealthPart, PTL DEF IInv

\* consecutive_failures is never under- or overcounted.
THEOREM CountExact == Spec => []CountIsExact
BY HealthInvariant, HealthPart, PTL DEF IInv

\* The row is unhealthy exactly when Threshold failures in a row were recorded.
THEOREM QuarantineEarned == Spec => []QuarantineIsEarned
BY HealthInvariant, HealthPart, PTL DEF IInv

----------------------------------------------------------------------------
\* The coroutines that may still record a failure.
UnderWay == {q \in Coroutine : pc[q] \in {"calling", "failed", "quarantining", "quarantined"}}

\* In a quarantine nobody is admitted, so each failure uses up a coroutine.
LateInv ==
    /\ OvershootBounded
    /\ until = "future" => late + Cardinality(UnderWay) < Cardinality(Coroutine)

\* A set of coroutines is finite, and smaller without one of them.
LEMMA CountUnderWay ==
  ASSUME NEW S, S \subseteq Coroutine
  PROVE  /\ Cardinality(S) \in Nat /\ Cardinality(Coroutine) \in Nat
         /\ Cardinality(S) <= Cardinality(Coroutine)
         /\ \A T : T \subseteq S => Cardinality(T) <= Cardinality(S)
         /\ \A q \in S : Cardinality(S \ {q}) = Cardinality(S) - 1
BY CoroutineAssumption, FS_Subset, FS_CardinalityType, FS_RemoveElement

\* A step that begins no quarantine, admits nobody in one, and counts nothing.
LEMMA QuietKeeps ==
  ASSUME IInv, LateInv, UNCHANGED late,
         until' = "future" => until = "future" /\ UnderWay' \subseteq UnderWay
  PROVE  LateInv'
<1>1. UnderWay \subseteq Coroutine
  BY DEF UnderWay
<1>2. CASE until' # "future"
  BY <1>2 DEF LateInv, OvershootBounded
<1>3. CASE until' = "future"
  <2>1. /\ Cardinality(UnderWay') <= Cardinality(UnderWay)
        /\ Cardinality(UnderWay) \in Nat /\ Cardinality(UnderWay') \in Nat
        /\ Cardinality(Coroutine) \in Nat
    BY <1>1, <1>3, CountUnderWay
  <2> QED
    BY <1>3, <2>1 DEF LateInv, OvershootBounded, IInv, HealthTypeOK
<1> QED
  BY <1>2, <1>3

\* A quarantine that is stored uses up the coroutine that stores it.
LEMMA QuarantineCounts ==
  ASSUME IInv, LateInv, NEW q \in Coroutine, StoreQuarantine(q), LockFree(q)
  PROVE  LateInv'
<1>1. q \in UnderWay /\ UnderWay' = UnderWay \ {q}
  BY DEF StoreQuarantine, Goto, UnderWay, IInv, HealthTypeOK
<1>2. /\ Cardinality(UnderWay') = Cardinality(UnderWay) - 1
      /\ Cardinality(UnderWay) \in Nat /\ Cardinality(Coroutine) \in Nat
      /\ Cardinality(UnderWay) <= Cardinality(Coroutine)
  <2>1. UnderWay \subseteq Coroutine
    BY DEF UnderWay
  <2> QED
    BY <1>1, <2>1, CountUnderWay
<1>3. late' = IF until = "future" THEN late + 1 ELSE 0
  BY DEF StoreQuarantine
<1>4. Cardinality(UnderWay) >= 1
  <2>1. UnderWay \subseteq Coroutine /\ UnderWay \ {q} \subseteq Coroutine
    BY DEF UnderWay
  <2>2. Cardinality(UnderWay \ {q}) \in Nat
    BY <2>1, CountUnderWay
  <2> QED
    BY <1>1, <1>2, <2>2
<1>5. late' + Cardinality(UnderWay') < Cardinality(Coroutine) /\ late' < Cardinality(Coroutine)
  BY <1>2, <1>3, <1>4 DEF LateInv, IInv, HealthTypeOK
<1> QED
  BY <1>5 DEF LateInv, OvershootBounded

\* Every step keeps the excess within the coroutines.
LEMMA LateSteps ==
  ASSUME IInv, LateInv, [HealthNext]_healthVars
  PROVE  LateInv'
<1> DEFINE Quiet == UNCHANGED late /\ (until' = "future" => until = "future" /\ UnderWay' \subseteq UnderWay)
<1>1. ASSUME NEW q \in Coroutine, AskRow(q)
      PROVE  Quiet
  <2>1. until = "future" => ~RowAvailable
    BY DEF RowAvailable, IInv, QuarantineIsEarned
  <2> QED
    BY <1>1, <2>1 DEF AskRow, Goto, UnderWay, rowVars, counts, IInv, HealthTypeOK
<1>2. ASSUME NEW q \in Coroutine, RecordFailure(q)
      PROVE  Quiet
  <2>1. CASE StoreFailure(q)
    BY <2>1 DEF StoreFailure
  <2>2. CASE ~StoreFailure(q)
    BY <1>2, <2>2 DEF RecordFailure, BlockLoop, Goto, UnderWay, rowVars, counts, IInv, HealthTypeOK
  <2> QED
    BY <2>1, <2>2
<1>3. ASSUME NEW q \in Coroutine,
             \/ AskRedis(q) \/ ProviderAnswers(q) \/ DeleteKey(q) \/ SetKey(q) \/ RedisFails(q)
             \/ (StoreSuccess(q) \/ StoreQuarantine(q)) /\ ~LockFree(q)
      PROVE  Quiet
  BY <1>3 DEF AskRedis, ProviderAnswers, DeleteKey, SetKey, RedisFails, StoreSuccess, StoreQuarantine,
              BlockLoop, Goto, UnderWay, rowVars, counts, AtRedis, IInv, HealthTypeOK
<1>4. ASSUME NEW q \in Coroutine, StoreSuccess(q), LockFree(q)
      PROVE  Quiet
  BY <1>4 DEF StoreSuccess
<1>5. ASSUME QuarantineElapses \/ KeyExpires \/ Restart \/ UNCHANGED healthVars
      PROVE  Quiet
  <2>1. CASE Restart
    BY <2>1 DEF Restart, rowVars, counts, UnderWay
  <2>2. CASE QuarantineElapses
    BY <2>2 DEF QuarantineElapses, counts
  <2>3. CASE KeyExpires \/ UNCHANGED healthVars
    BY <2>3 DEF KeyExpires, healthVars, rowVars, counts, UnderWay
  <2> QED
    BY <1>5, <2>1, <2>2, <2>3
<1>6. Quiet => LateInv'
  BY QuietKeeps
<1> HIDE DEF Quiet
<1> QED
  BY <1>1, <1>2, <1>3, <1>4, <1>5, <1>6, QuarantineCounts DEF HealthNext, Record

\* While a provider is quarantined no more calls fail than were under way, whether or not
\* the status keeps it excluded afterwards (health.py:63).
THEOREM OvershootIsBounded == Spec => []OvershootBounded
<1>1. HealthInit => LateInv
  <2> SUFFICES ASSUME HealthInit PROVE LateInv
    OBVIOUS
  <2>1. Cardinality(Coroutine) \in Nat /\ Cardinality(Coroutine) # 0
    BY CoroutineAssumption, FS_CardinalityType, FS_EmptySet
  <2> QED
    BY <2>1 DEF HealthInit, LateInv, OvershootBounded
<1>2. IInv /\ LateInv /\ [HealthNext]_healthVars => LateInv'
  BY LateSteps
<1>3. LateInv => OvershootBounded
  BY DEF LateInv
<1> QED
  BY <1>1, <1>2, <1>3, HealthInvariant, HealthPart, PTL DEF HealthSpec
=============================================================================
