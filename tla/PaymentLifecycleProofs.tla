----------------------- MODULE PaymentLifecycleProofs -----------------------
(***************************************************************************)
(* Proofs about PaymentLifecycle, for any orders, calls, visits and        *)
(* providers: type correctness, the inductive invariant CheckoutInv, and   *)
(* from it that an order is charged at most once and that what is settled  *)
(* stays settled.  Once what a visit and a completed session are about is  *)
(* known (VisitInv), FINISHED means captured, and every step of the        *)
(* handlers is a step of PaymentContract or none.  The last part is about  *)
(* what is announced, logged and counted: one outcome is announced per     *)
(* order, the logs of the second database agree with the row, and a stored *)
(* checkout is the one candidate that succeeded and was counted.           *)
(***************************************************************************)
EXTENDS PaymentLifecycle, FiniteSetTheorems, TLAPS

\* Calls and visits are disjoint and each is about one order.
LEMMA ConstantTypes ==
  /\ \A r \in Request : r \in Process /\ r \notin Visit /\ OrderOf[r] \in Order
  /\ \A v \in Visit : v \in Process /\ v \notin Request /\ OrderOf[v] \in Order
  /\ \A q \in Process : q \in Request \/ q \in Visit
BY ProcessAssumption DEF Process

-----------------------------------------------------------------------------
(***************************************************************************)
(* What the helpers do to the types                                        *)
(***************************************************************************)

\* Moving a call to a control point keeps pc typed.
LEMMA GotoType ==
  ASSUME TypeOK, NEW q \in Process, NEW l \in Running \union {"idle", "done", "dead"}, Goto(q, l)
  PROVE  pc' \in [Process -> Running \union {"idle", "done", "dead"}]
BY DEF TypeOK, Goto

\* An answer is a Reply.
LEMMA AnswerType ==
  ASSUME TypeOK, NEW r \in Request,
         NEW k \in {"none", "created", "exists", "rejected", "failed", "error"},
         NEW s \in Status \union {"NONE"}, NEW u \in Provider \union {NoProvider},
         Answer(r, k, s, u)
  PROVE  reply' \in [Request -> Reply]
BY DEF TypeOK, Answer, Reply

\* The idempotent answer keeps reply and pc typed.
LEMMA ReplayType ==
  ASSUME TypeOK, NEW r \in Request, Replay(r)
  PROVE  /\ reply' \in [Request -> Reply]
         /\ pc' \in [Process -> Running \union {"idle", "done", "dead"}]
BY ConstantTypes, AnswerType, GotoType DEF Replay, TypeOK

\* An attempt row keeps the attempts typed.
LEMMA AttemptType ==
  ASSUME TypeOK, NEW r \in Request, NEW s \in AttemptStatus, Attempted(r, s)
  PROVE  attempt' \in [Order -> [Provider -> AttemptStatus]]
BY ConstantTypes DEF TypeOK, Attempted

\* Opening a session keeps the sessions typed.
LEMMA OpenSessionType ==
  ASSUME TypeOK, NEW r \in Request, OpenSession(r)
  PROVE  session' \in [Order -> [Provider -> SessionState]]
BY ConstantTypes DEF TypeOK, OpenSession, SessionState

\* A provider moving one session keeps the sessions typed.
LEMMA SessionType ==
  ASSUME TypeOK, NEW o \in Order, NEW p, NEW s \in SessionState,
         session' = [session EXCEPT ![o][p] = s]
  PROVE  session' \in [Order -> [Provider -> SessionState]]
BY DEF TypeOK

\* Moving to the next candidate keeps the loop typed.
LEMMA NextCandidateType ==
  ASSUME TypeOK, NEW r \in Request, NextCandidate(r)
  PROVE  /\ pc' \in [Process -> Running \union {"idle", "done", "dead"}]
         /\ cand' \in [Request -> Provider \union {NoProvider}]
         /\ todo' \in [Request -> SUBSET Provider]
<1>1. CASE todo[r] = {} /\ Goto(r, "failing") /\ UNCHANGED loop
  BY <1>1, ConstantTypes, GotoType DEF TypeOK, loop, Running, Creating
<1>2. ASSUME NEW p \in todo[r],
             cand' = [cand EXCEPT ![r] = p],
             todo' = [todo EXCEPT ![r] = @ \ {p}],
             Goto(r, "candidate")
      PROVE  /\ pc' \in [Process -> Running \union {"idle", "done", "dead"}]
             /\ cand' \in [Request -> Provider \union {NoProvider}]
             /\ todo' \in [Request -> SUBSET Provider]
  <2>1. p \in Provider
    BY DEF TypeOK
  <2>2. pc' \in [Process -> Running \union {"idle", "done", "dead"}]
    BY <1>2, ConstantTypes, GotoType DEF Running, Creating
  <2> QED
    BY <1>2, <2>1, <2>2 DEF TypeOK
<1> QED
  BY <1>1, <1>2 DEF NextCandidate

\* The events of the terminal statuses are three different events.
LEMMA EventType ==
  /\ WebhookEvent("PAYMENT_FINISHED") = "payment.succeeded"
  /\ WebhookEvent("PAYMENT_FAILED") = "payment.failed"
  /\ WebhookEvent("PAYMENT_CANCELLED") = "payment.cancelled"
BY DEF WebhookEvent

\* A return or a cancel keeps the row, the event and pc typed.
LEMMA FinalizeType ==
  ASSUME TypeOK, NEW v \in Visit, NEW s \in TerminalStates, Finalize(v, s)
  PROVE  /\ status' \in [Order -> Status \union {"NONE"}]
         /\ event' \in [Process -> {"none", "payment.created", "payment.succeeded",
                                    "payment.failed", "payment.cancelled"}]
         /\ pc' \in [Process -> Running \union {"idle", "done", "dead"}]
<1>1. WebhookEvent(s) \in {"payment.succeeded", "payment.failed", "payment.cancelled"}
  BY EventType DEF TerminalStates
<1>2. s \in Status
  BY DEF TerminalStates, Status
<1>3. pc' \in [Process -> Running \union {"idle", "done", "dead"}]
  BY ConstantTypes, GotoType DEF Finalize, Running
<1>4. status' \in [Order -> Status \union {"NONE"}]
  BY <1>2, ConstantTypes DEF Finalize, TypeOK
<1>5. event' = event \/ event' = [event EXCEPT ![v] = WebhookEvent(s)]
  BY DEF Finalize
<1>6. event' \in [Process -> {"none", "payment.created", "payment.succeeded",
                             "payment.failed", "payment.cancelled"}]
  BY <1>1, <1>5, ConstantTypes DEF TypeOK
<1> QED
  BY <1>3, <1>4, <1>6

\* The end of a call keeps reply and pc typed.
LEMMA FinishType ==
  ASSUME TypeOK, NEW q \in Process, Finish(q)
  PROVE  /\ reply' \in [Request -> Reply]
         /\ pc' \in [Process -> Running \union {"idle", "done", "dead"}]
<1>1. CASE q \notin Request
  BY <1>1, GotoType DEF Finish, TypeOK
<1>2. CASE q \in Request /\ event[q] = "payment.created"
  <2>1. Answer(q, "created", "PAYMENT_PENDING", cand[q])
    BY <1>2 DEF Finish
  <2>2. cand[q] \in Provider \union {NoProvider} /\ "PAYMENT_PENDING" \in Status
    BY <1>2 DEF TypeOK, Status
  <2> QED
    BY <1>2, <2>1, <2>2, AnswerType, GotoType DEF Finish
<1>3. CASE q \in Request /\ event[q] # "payment.created"
  <2>1. Answer(q, "failed", "NONE", NoProvider)
    BY <1>3 DEF Finish
  <2> QED
    BY <1>3, <2>1, AnswerType, GotoType DEF Finish
<1> QED
  BY <1>1, <1>2, <1>3

-----------------------------------------------------------------------------
(***************************************************************************)
(* Steps keep the types                                                    *)
(***************************************************************************)

\* The types survive every step; the failover loop needs that a call that is
\* creating has a candidate (CheckoutInv).
LEMMA TypeStep ==
  ASSUME TypeOK, CheckoutInv, [Next]_vars
  PROVE  TypeOK'
<1> DEFINE PcType == pc' \in [Process -> Running \union {"idle", "done", "dead"}]
<1> USE DEF row, logs, loop, hooks
<1>1. CASE UNCHANGED vars
  BY <1>1 DEF vars, TypeOK
<1>2. ASSUME NEW r \in Request, CreateStep(r) PROVE TypeOK'
  <2> USE ConstantTypes
  <2>1. CASE Submit(r)
    <3>1. CASE Replay(r)
      BY <2>1, <3>1, ReplayType DEF Submit, TypeOK
    <3>2. CASE Goto(r, "planning") /\ UNCHANGED reply
      <4>1. PcType
        BY <3>2, GotoType DEF Running
      <4> QED
        BY <2>1, <3>2, <4>1 DEF Submit, TypeOK
    <3> QED
      BY <2>1, <3>1, <3>2 DEF Submit
  <2>2. CASE Reject(r)
    BY <2>2, AnswerType, GotoType DEF Reject, TypeOK
  <2>3. CASE InsertConflict(r)
    BY <2>3, ReplayType DEF InsertConflict, TypeOK
  <2>4. CASE LogCreated(r)
    BY <2>4 DEF LogCreated, TypeOK, Goto, Running, Creating
  <2>5. ASSUME NEW p \in Provider, NEW rest \in SUBSET Provider, Insert(r, p, rest)
        PROVE TypeOK'
    BY <2>5 DEF Insert, Status, TypeOK, Goto, Running, Creating
  <2>6. CASE PassOver(r)
    <3>1. attempt' \in [Order -> [Provider -> AttemptStatus]]
      BY <2>6, AttemptType DEF PassOver, AttemptStatus
    <3> QED
      BY <2>6, <3>1, NextCandidateType DEF PassOver, TypeOK
  <2>7. CASE LogRequest(r)
    <3>1. cand[r] \in Provider
      BY <2>7 DEF LogRequest, CheckoutInv, Creating
    <3> QED
      BY <2>7, <3>1 DEF LogRequest, TypeOK, Goto, Running, Creating
  <2>8. CASE AssignProvider(r)
    BY <2>8 DEF AssignProvider, TypeOK, Goto, Running, Creating
  <2>9. CASE CheckoutOpened(r)
    <3>1. attempt' \in [Order -> [Provider -> AttemptStatus]]
      BY <2>9, AttemptType DEF CheckoutOpened, AttemptStatus
    <3>2. PcType
      BY <2>9, GotoType DEF CheckoutOpened, Running, Creating
    <3> QED
      BY <2>9, <3>1, <3>2, OpenSessionType DEF CheckoutOpened, TypeOK
  <2>10. CASE CheckoutFailed(r)
    <3>1. attempt' \in [Order -> [Provider -> AttemptStatus]]
      BY <2>10, AttemptType DEF CheckoutFailed, AttemptStatus
    <3>2. session' \in [Order -> [Provider -> SessionState]]
      BY <2>10, OpenSessionType DEF CheckoutFailed, TypeOK
    <3> QED
      BY <2>10, <3>1, <3>2, NextCandidateType DEF CheckoutFailed, TypeOK
  <2>11. CASE HardDecline(r)
    <3>1. attempt' \in [Order -> [Provider -> AttemptStatus]]
      BY <2>11, AttemptType DEF HardDecline, AttemptStatus
    <3>2. PcType
      BY <2>11, GotoType DEF HardDecline, Running, Creating
    <3> QED
      BY <2>11, <3>1, <3>2 DEF HardDecline, TypeOK
  <2>12. CASE CountUsage(r)
    BY <2>12 DEF CountUsage, TypeOK, Goto, Running, Creating
  <2>13. CASE StoreCheckout(r)
    BY <2>13 DEF StoreCheckout, TypeOK, Goto, Running
  <2>14. CASE MarkFailed(r)
    BY <2>14 DEF MarkFailed, Status, TypeOK, Goto, Running
  <2> QED
    BY <1>2, <2>1, <2>2, <2>3, <2>4, <2>5, <2>6, <2>7, <2>8, <2>9, <2>10, <2>11,
       <2>12, <2>13, <2>14 DEF CreateStep
<1>3. ASSUME NEW v \in Visit, Arrive(v) \/ VisitStep(v) PROVE TypeOK'
  <2> USE ConstantTypes
  <2>1. ASSUME NEW p \in Provider, Return(v, p) PROVE TypeOK'
    BY <2>1 DEF Return, TypeOK, Goto, Running
  <2>2. ASSUME NEW p \in Provider, Cancel(v, p) PROVE TypeOK'
    BY <2>2, FinalizeType DEF Cancel, TerminalStates, TypeOK
  <2>3. CASE VerifySession(v)
    <3>1. \E s \in TerminalStates : Finalize(v, s)
      BY <2>3 DEF VerifySession, TerminalStates
    <3> QED
      BY <2>3, <3>1, FinalizeType DEF VerifySession, TypeOK
  <2>4. CASE CaptureOrder(v)
    <3>1. \E s \in TerminalStates : Finalize(v, s)
      BY <2>4 DEF CaptureOrder, TerminalStates
    <3>2. session' \in [Order -> [Provider -> SessionState]]
      BY <2>4, SessionType DEF CaptureOrder, TypeOK, SessionState
    <3> QED
      BY <2>4, <3>1, <3>2, FinalizeType DEF CaptureOrder, TypeOK
  <2>5. CASE CaptureError(v)
    <3>1. session' \in [Order -> [Provider -> SessionState]]
      BY <2>5, SessionType DEF CaptureError, TypeOK, SessionState
    <3> QED
      BY <2>5, <3>1, GotoType DEF CaptureError, TypeOK
  <2>6. CASE LogOutcome(v)
    BY <2>6 DEF LogOutcome, TypeOK, Goto, Running
  <2> QED
    BY <1>3, <2>1, <2>2, <2>3, <2>4, <2>5, <2>6 DEF Arrive, VisitStep
<1>4. ASSUME NEW q \in Process, WebhookStep(q) PROVE TypeOK'
  <2>1. CASE Dispatch(q)
    <3>1. CASE Finish(q) /\ UNCHANGED delivery
      BY <2>1, <3>1, FinishType DEF Dispatch, TypeOK
    <3>2. CASE /\ delivery' = [delivery EXCEPT ![q] = "pending"]
               /\ Goto(q, "posting")
               /\ UNCHANGED reply
      <4>1. PcType
        BY <3>2, GotoType DEF Running
      <4> QED
        BY <2>1, <3>2, <4>1 DEF Dispatch, TypeOK
    <3> QED
      BY <2>1, <3>1, <3>2 DEF Dispatch
  <2>2. CASE RecordDelivery(q)
    <3>1. delivery' \in [Process -> {"none", "pending", "delivered", "failed"}]
      BY <2>2 DEF RecordDelivery, TypeOK
    <3> QED
      BY <2>2, <3>1, FinishType DEF RecordDelivery, TypeOK
  <2> QED
    BY <1>4, <2>1, <2>2 DEF WebhookStep
<1>5. ASSUME NEW q \in Process, Abort(q) PROVE TypeOK'
  <2>1. PcType
    BY <1>5, GotoType DEF Abort
  <2>2. reply' \in [Request -> Reply]
    BY <1>5, AnswerType DEF Abort, TypeOK
  <2> QED
    BY <1>5, <2>1, <2>2 DEF Abort, TypeOK
<1>6. ASSUME NEW o \in Order, Expire(o) PROVE TypeOK'
  BY <1>6 DEF Expire, Status, TypeOK
<1>7. ASSUME NEW o \in Order, NEW p \in Provider, Pay(o, p) PROVE TypeOK'
  BY <1>7 DEF Pay, SessionState, TypeOK
<1>8. ASSUME NEW o \in Order, NEW p \in Provider, ProviderMoves(o, p) PROVE TypeOK'
  <2>1. \E s \in SessionState : session' = [session EXCEPT ![o][p] = s]
    BY <1>8 DEF ProviderMoves, SessionState
  <2>2. session' \in [Order -> [Provider -> SessionState]]
    BY <2>1, SessionType
  <2> QED
    BY <1>8, <2>2 DEF ProviderMoves, TypeOK
<1> QED
  BY <1>1, <1>2, <1>3, <1>4, <1>5, <1>6, <1>7, <1>8 DEF Next

-----------------------------------------------------------------------------
(***************************************************************************)
(* Steps keep CheckoutInv                                                  *)
(***************************************************************************)

\* A step that neither hands out nor stores a checkout, starts no creation and
\* completes only a session the row names, keeps CheckoutInv.
LEMMA CheckoutFrame ==
  ASSUME CheckoutInv, UNCHANGED <<paymentId, checkout, cand>>,
         \A o \in Order : status'[o] = "NONE" => status[o] = "NONE",
         \A r \in Request : pc'[r] \in Creating => pc[r] \in Creating,
         \A r \in Request : event'[r] = "payment.created" => event[r] = "payment.created",
         \A r \in Request : reply'[r].url # NoProvider => reply'[r].url = checkout[OrderOf[r]],
         \A o \in Order : \A p \in Provider :
           session'[o][p] \in {"complete", "paid"} =>
             session[o][p] \in {"complete", "paid"} \/ p = checkout[o]
  PROVE  CheckoutInv'
BY DEF CheckoutInv

\* The same for a step that touches neither rows, events nor answers.
LEMMA QuietFrame ==
  ASSUME CheckoutInv, UNCHANGED <<status, paymentId, checkout, cand, event, reply>>,
         \A r \in Request : pc'[r] \in Creating => pc[r] \in Creating,
         \A o \in Order : \A p \in Provider :
           session'[o][p] \in {"complete", "paid"} =>
             session[o][p] \in {"complete", "paid"} \/ p = checkout[o]
  PROVE  CheckoutInv'
BY DEF CheckoutInv

\* An answer changes what one call knows of the checkout.
LEMMA AnswerUrl ==
  ASSUME TypeOK, NEW r \in Request, NEW k, NEW s, NEW u, Answer(r, k, s, u)
  PROVE  \A x \in Request : reply'[x].url = IF x = r THEN u ELSE reply[x].url
BY DEF TypeOK, Answer

\* A call that goes on elsewhere leaves the other calls where they are.
LEMMA GotoFrame ==
  ASSUME TypeOK, NEW q \in Process, NEW l, l \notin Creating, Goto(q, l)
  PROVE  \A r \in Request : pc'[r] \in Creating => pc[r] \in Creating
BY ConstantTypes DEF TypeOK, Goto

\* The outcome of a visit creates no row and touches no creation call.
LEMMA FinalizeFrame ==
  ASSUME TypeOK, NEW v \in Visit, NEW s \in TerminalStates, Finalize(v, s)
  PROVE  /\ \A o \in Order : status'[o] = "NONE" => status[o] = "NONE"
         /\ \A r \in Request : pc'[r] = pc[r] /\ event'[r] = event[r]
<1> USE ConstantTypes
<1>1. CASE status[OrderOf[v]] \in TerminalStates
  BY <1>1 DEF Finalize, Goto, TypeOK
<1>2. CASE status[OrderOf[v]] \notin TerminalStates
  BY <1>2 DEF Finalize, Goto, TypeOK, TerminalStates
<1> QED
  BY <1>1, <1>2

\* A capture pays a session that was complete already.
LEMMA CaptureFrame ==
  ASSUME TypeOK, NEW o \in Order, NEW p,
         IF session[o][p] = "complete" THEN session' = [session EXCEPT ![o][p] = "paid"]
                                       ELSE UNCHANGED session
  PROVE  \A x \in Order : \A y \in Provider :
           session'[x][y] \in {"complete", "paid"} => session[x][y] \in {"complete", "paid"}
<1>1. CASE session[o][p] = "complete"
  <2> SUFFICES ASSUME NEW x \in Order, NEW y \in Provider, session'[x][y] # session[x][y]
               PROVE  session[x][y] \in {"complete", "paid"}
    OBVIOUS
  <2>1. x = o /\ y = p
    BY <1>1 DEF TypeOK
  <2> QED
    BY <1>1, <2>1
<1>2. CASE session[o][p] # "complete"
  BY <1>2
<1> QED
  BY <1>1, <1>2

\* Opening a session completes none.
LEMMA OpenFrame ==
  ASSUME TypeOK, NEW r \in Request, OpenSession(r)
  PROVE  \A o \in Order : \A p \in Provider :
           session'[o][p] \in {"complete", "paid"} => session[o][p] \in {"complete", "paid"}
<1> SUFFICES ASSUME NEW o \in Order, NEW p \in Provider, session'[o][p] # session[o][p]
             PROVE  session'[o][p] = "open"
  OBVIOUS
<1> QED
  BY DEF TypeOK, OpenSession

\* What a finished creation call answers is the checkout it stored.
LEMMA FinishFrame ==
  ASSUME TypeOK, CheckoutInv, NEW q \in Process, Finish(q)
  PROVE  /\ \A r \in Request : pc'[r] \in Creating => pc[r] \in Creating
         /\ \A r \in Request : reply'[r].url # NoProvider => reply'[r].url = checkout[OrderOf[r]]
<1> USE ConstantTypes
<1>1. \A r \in Request : pc'[r] \in Creating => pc[r] \in Creating
  BY GotoFrame DEF Finish, Creating
<1>2. CASE q \notin Request
  BY <1>1, <1>2 DEF Finish, CheckoutInv
<1>3. CASE q \in Request /\ event[q] = "payment.created"
  <2>1. Answer(q, "created", "PAYMENT_PENDING", cand[q])
    BY <1>3 DEF Finish
  <2>2. \A x \in Request : reply'[x].url = IF x = q THEN cand[q] ELSE reply[x].url
    BY <1>3, <2>1, AnswerUrl
  <2> QED
    BY <1>1, <1>3, <2>2 DEF CheckoutInv
<1>4. CASE q \in Request /\ event[q] # "payment.created"
  <2>1. Answer(q, "failed", "NONE", NoProvider)
    BY <1>4 DEF Finish
  <2>2. \A x \in Request : reply'[x].url = IF x = q THEN NoProvider ELSE reply[x].url
    BY <1>4, <2>1, AnswerUrl
  <2> QED
    BY <1>1, <1>4, <2>2 DEF CheckoutInv
<1> QED
  BY <1>2, <1>3, <1>4

\* The creation handler keeps CheckoutInv.
LEMMA CreateKeepsCheckoutInv ==
  ASSUME TypeOK, CheckoutInv, NEW r \in Request, CreateStep(r)
  PROVE  CheckoutInv'
<1> USE ConstantTypes, ProviderAssumption, ProcessAssumption DEF row, logs, loop, hooks
<1>1. CASE Submit(r)
  <2>1. CASE status[OrderOf[r]] = "NONE"
    BY <1>1, <2>1, QuietFrame DEF Submit, Goto, TypeOK, Creating
  <2>2. CASE Replay(r)
    <3>1. Answer(r, "exists", status[OrderOf[r]], checkout[OrderOf[r]]) /\ Goto(r, "done")
      BY <2>2 DEF Replay
    <3>2. \A x \in Request : reply'[x].url = IF x = r THEN checkout[OrderOf[r]]
                                                       ELSE reply[x].url
      BY <3>1, AnswerUrl
    <3>3. \A x \in Request : pc'[x] \in Creating => pc[x] \in Creating
      BY <3>1, GotoFrame DEF Creating
    <3>4. \A x \in Request : reply'[x].url # NoProvider => reply'[x].url = checkout[OrderOf[x]]
      BY <3>2 DEF CheckoutInv
    <3> QED
      BY <1>1, <3>3, <3>4, CheckoutFrame DEF Submit
  <2> QED
    BY <1>1, <2>1, <2>2 DEF Submit
<1>2. CASE Reject(r)
  BY <1>2 DEF Reject, Answer, Goto, CheckoutInv, TypeOK, Creating, Reply
<1>3. CASE InsertConflict(r)
  BY <1>3 DEF InsertConflict, Replay, Answer, Goto, CheckoutInv, TypeOK, Creating, Reply
<1>4. CASE LogCreated(r)
  BY <1>4, QuietFrame DEF LogCreated, Goto, TypeOK, Creating
<1>5. ASSUME NEW p \in Provider, NEW rest \in SUBSET Provider, Insert(r, p, rest)
      PROVE CheckoutInv'
  BY <1>5 DEF Insert, Goto, CheckoutInv, TypeOK, Creating
<1>6. CASE PassOver(r)
  BY <1>6 DEF PassOver, NextCandidate, Goto, CheckoutInv, TypeOK, Creating
<1>7. CASE LogRequest(r)
  BY <1>7, QuietFrame DEF LogRequest, Goto, TypeOK, Creating
<1>8. CASE AssignProvider(r)
  BY <1>8, QuietFrame DEF AssignProvider, Goto, TypeOK, Creating
<1>9. CASE CheckoutOpened(r)
  BY <1>9, QuietFrame DEF CheckoutOpened, OpenSession, Goto, TypeOK, Creating
<1>10. CASE CheckoutFailed(r)
  <2>1. \A o \in Order : \A p \in Provider :
          session'[o][p] \in {"complete", "paid"} => session[o][p] \in {"complete", "paid"}
    BY <1>10, OpenFrame DEF CheckoutFailed
  <2>2. CASE Goto(r, "failing") /\ UNCHANGED loop
    BY <1>10, <2>1, <2>2, QuietFrame DEF CheckoutFailed, Goto, TypeOK, Creating
  <2>3. CASE /\ \E p \in todo[r] : cand' = [cand EXCEPT ![r] = p]
             /\ Goto(r, "candidate")
    <3>1. PICK p \in todo[r] : cand' = [cand EXCEPT ![r] = p]
      BY <2>3
    <3>2. /\ p \in Provider
          /\ cand'[r] \in Provider
          /\ \A x \in Request : x # r => cand'[x] = cand[x] /\ pc'[x] = pc[x]
      BY <2>3, <3>1 DEF Goto, TypeOK
    <3>3. pc[r] \in Creating /\ event[r] # "payment.created"
      BY <1>10 DEF CheckoutFailed, Creating, CheckoutInv
    <3> QED
      BY <1>10, <2>1, <3>2, <3>3 DEF CheckoutFailed, CheckoutInv
  <2> QED
    BY <1>10, <2>2, <2>3 DEF CheckoutFailed, NextCandidate
<1>11. CASE HardDecline(r)
  BY <1>11, QuietFrame DEF HardDecline, Goto, TypeOK, Creating
<1>12. CASE CountUsage(r)
  BY <1>12, QuietFrame DEF CountUsage, Goto, TypeOK, Creating
<1>13. CASE StoreCheckout(r)
  BY <1>13 DEF StoreCheckout, Goto, CheckoutInv, TypeOK, Creating
<1>14. CASE MarkFailed(r)
  BY <1>14 DEF MarkFailed, Goto, CheckoutInv, TypeOK, Creating
<1> QED
  BY <1>1, <1>2, <1>3, <1>4, <1>5, <1>6, <1>7, <1>8, <1>9, <1>10, <1>11,
     <1>12, <1>13, <1>14 DEF CreateStep

\* So does every other step.
LEMMA CheckoutStep ==
  ASSUME TypeOK, CheckoutInv, [Next]_vars
  PROVE  CheckoutInv'
<1> USE ConstantTypes DEF row, logs, loop, hooks
<1>1. CASE UNCHANGED vars
  BY <1>1, QuietFrame DEF vars
<1>2. ASSUME NEW r \in Request, CreateStep(r) PROVE CheckoutInv'
  BY <1>2, CreateKeepsCheckoutInv
<1>3. ASSUME NEW v \in Visit, Arrive(v) \/ VisitStep(v) PROVE CheckoutInv'
  <2>1. ASSUME NEW p \in Provider, Return(v, p) PROVE CheckoutInv'
    BY <2>1, QuietFrame DEF Return, Goto, TypeOK
  <2>2. ASSUME NEW p \in Provider, Cancel(v, p) PROVE CheckoutInv'
    <3>1. UNCHANGED <<paymentId, checkout, cand, reply, session>>
      BY <2>2 DEF Cancel
    <3> QED
      BY <2>2, <3>1, FinalizeFrame, CheckoutFrame DEF Cancel, TerminalStates, CheckoutInv
  <2>3. CASE VerifySession(v)
    <3>1. \E s \in TerminalStates : Finalize(v, s)
      BY <2>3 DEF VerifySession, TerminalStates
    <3>2. UNCHANGED <<paymentId, checkout, cand, reply, session>>
      BY <2>3 DEF VerifySession
    <3> QED
      BY <3>1, <3>2, FinalizeFrame, CheckoutFrame DEF CheckoutInv
  <2>4. CASE CaptureOrder(v)
    <3>1. \E s \in TerminalStates : Finalize(v, s)
      BY <2>4 DEF CaptureOrder, TerminalStates
    <3>2. \A o \in Order : \A p \in Provider :
            session'[o][p] \in {"complete", "paid"} => session[o][p] \in {"complete", "paid"}
      BY <2>4, CaptureFrame DEF CaptureOrder
    <3>3. UNCHANGED <<paymentId, checkout, cand, reply>>
      BY <2>4 DEF CaptureOrder
    <3> QED
      BY <3>1, <3>2, <3>3, FinalizeFrame, CheckoutFrame DEF CheckoutInv
  <2>5. CASE CaptureError(v)
    <3>1. \A o \in Order : \A p \in Provider :
            session'[o][p] \in {"complete", "paid"} => session[o][p] \in {"complete", "paid"}
      BY <2>5, CaptureFrame DEF CaptureError
    <3>2. \A r \in Request : pc'[r] \in Creating => pc[r] \in Creating
      BY <2>5, GotoFrame DEF CaptureError, Creating
    <3> QED
      BY <2>5, <3>1, <3>2, QuietFrame DEF CaptureError
  <2>6. CASE LogOutcome(v)
    BY <2>6, QuietFrame DEF LogOutcome, Goto, TypeOK
  <2> QED
    BY <1>3, <2>1, <2>2, <2>3, <2>4, <2>5, <2>6 DEF Arrive, VisitStep
<1>4. ASSUME NEW q \in Process, WebhookStep(q) PROVE CheckoutInv'
  <2>1. CASE Dispatch(q)
    <3>1. UNCHANGED <<status, paymentId, checkout, cand, event, session>>
      BY <2>1 DEF Dispatch
    <3>2. CASE Finish(q)
      BY <3>1, <3>2, FinishFrame, CheckoutFrame
    <3>3. CASE Goto(q, "posting") /\ UNCHANGED reply
      <4>1. \A r \in Request : pc'[r] \in Creating => pc[r] \in Creating
        BY <3>3, GotoFrame DEF Creating
      <4> QED
        BY <3>1, <3>3, <4>1, QuietFrame
    <3> QED
      BY <2>1, <3>2, <3>3 DEF Dispatch
  <2>2. CASE RecordDelivery(q)
    BY <2>2, FinishFrame, CheckoutFrame DEF RecordDelivery
  <2> QED
    BY <1>4, <2>1, <2>2 DEF WebhookStep
<1>5. ASSUME NEW q \in Process, Abort(q) PROVE CheckoutInv'
  <2>1. \A r \in Request : pc'[r] \in Creating => pc[r] \in Creating
    BY <1>5, GotoFrame DEF Abort, Creating
  <2>2. UNCHANGED <<status, paymentId, checkout, cand, event, session>>
    BY <1>5 DEF Abort
  <2>3. CASE q \notin Request
    BY <1>5, <2>1, <2>2, <2>3, QuietFrame DEF Abort
  <2>4. CASE q \in Request
    <3>1. Answer(q, "error", "NONE", NoProvider)
      BY <1>5, <2>4 DEF Abort
    <3>2. \A x \in Request : reply'[x].url = IF x = q THEN NoProvider ELSE reply[x].url
      BY <2>4, <3>1, AnswerUrl
    <3>3. \A x \in Request : reply'[x].url # NoProvider => reply'[x].url = checkout[OrderOf[x]]
      BY <3>2 DEF CheckoutInv
    <3> QED
      BY <2>1, <2>2, <3>3, CheckoutFrame
  <2> QED
    BY <2>3, <2>4
<1>6. ASSUME NEW o \in Order, Expire(o) PROVE CheckoutInv'
  BY <1>6 DEF Expire, CheckoutInv, TypeOK
<1>7. ASSUME NEW o \in Order, NEW p \in Provider, Pay(o, p) PROVE CheckoutInv'
  <2>1. p = checkout[o]
    BY <1>7, ProviderAssumption DEF Pay, Shown, CheckoutInv
  <2> QED
    BY <1>7, <2>1, QuietFrame DEF Pay, TypeOK
<1>8. ASSUME NEW o \in Order, NEW p \in Provider, ProviderMoves(o, p) PROVE CheckoutInv'
  BY <1>8, QuietFrame DEF ProviderMoves, TypeOK
<1> QED
  BY <1>1, <1>2, <1>3, <1>4, <1>5, <1>6, <1>7, <1>8 DEF Next

-----------------------------------------------------------------------------
(***************************************************************************)
(* The theorems                                                            *)
(***************************************************************************)

\* One owner per row, one checkout per order, through every interleaving,
\* crash and retry: CheckoutInv is inductive together with the types.
THEOREM CheckoutInvariant == Spec => [](TypeOK /\ CheckoutInv)
<1>1. Init => TypeOK /\ CheckoutInv
  <2> SUFFICES ASSUME Init PROVE TypeOK /\ CheckoutInv
    OBVIOUS
  <2>1. reply \in [Request -> Reply]
    BY DEF Init, Reply, NoReply
  <2>2. TypeOK
    BY <2>1 DEF Init, TypeOK, AttemptStatus, SessionState
  <2>3. \A r \in Request : pc[r] \notin Creating /\ event[r] = "none" /\ reply[r].url = NoProvider
    BY ConstantTypes DEF Init, Creating, NoReply
  <2>4. CheckoutInv
    BY <2>3 DEF Init, CheckoutInv
  <2> QED
    BY <2>2, <2>4
<1>2. TypeOK /\ CheckoutInv /\ [Next]_vars => (TypeOK /\ CheckoutInv)'
  BY TypeStep, CheckoutStep
<1> QED
  BY <1>1, <1>2, PTL DEF Spec

\* Every variable keeps its type.
THEOREM TypeCorrect == Spec => []TypeOK
BY CheckoutInvariant, PTL

\* At most one provider session of an order is ever paid.
THEOREM ChargedOnce == Spec => []AtMostOneCharge
<1>1. CheckoutInv => AtMostOneCharge
  BY DEF CheckoutInv, AtMostOneCharge
<1> QED
  BY <1>1, CheckoutInvariant, PTL

-----------------------------------------------------------------------------
(***************************************************************************)
(* What is settled                                                         *)
(***************************************************************************)

Settles ==
    \A o \in Order :
         /\ checkout[o] # NoProvider => checkout'[o] = checkout[o]
         /\ status[o] \in TerminalStates => status'[o] = status[o]

\* A return or a cancel rewrites no terminal status.
LEMMA FinalizeSettles ==
  ASSUME TypeOK, NEW v \in Visit, NEW s, Finalize(v, s), UNCHANGED checkout
  PROVE  Settles
BY DEF Finalize, Settles, TypeOK

\* No step of the creation handler replaces a checkout or leaves a terminal status:
\* who stores a checkout owns the row, and the row has none yet.
LEMMA CreateSettles ==
  ASSUME TypeOK, CheckoutInv, NEW r \in Request, CreateStep(r)
  PROVE  Settles
<1> USE ConstantTypes DEF row
<1>1. CASE StoreCheckout(r)
  <2>1. checkout[OrderOf[r]] = NoProvider
    BY <1>1 DEF StoreCheckout, CheckoutInv, Creating
  <2> QED
    BY <1>1, <2>1 DEF StoreCheckout, Settles, TypeOK
<1>2. CASE MarkFailed(r)
  BY <1>2 DEF MarkFailed, Settles, TypeOK, TerminalStates
<1>3. ASSUME NEW p \in Provider, NEW rest \in SUBSET Provider, Insert(r, p, rest)
      PROVE  Settles
  BY <1>3 DEF Insert, Settles, TypeOK, TerminalStates
<1>4. CASE UNCHANGED <<status, checkout>>
  BY <1>4 DEF Settles
<1>5. CASE Submit(r) \/ Reject(r) \/ InsertConflict(r) \/ LogCreated(r)
  BY <1>4, <1>5 DEF Submit, Reject, InsertConflict, LogCreated
<1>6. CASE PassOver(r) \/ LogRequest(r) \/ AssignProvider(r) \/ CheckoutOpened(r)
  BY <1>4, <1>6 DEF PassOver, LogRequest, AssignProvider, CheckoutOpened
<1>7. CASE CheckoutFailed(r) \/ HardDecline(r) \/ CountUsage(r)
  BY <1>4, <1>7 DEF CheckoutFailed, HardDecline, CountUsage
<1> QED
  BY <1>1, <1>2, <1>3, <1>5, <1>6, <1>7 DEF CreateStep

\* No step of anybody does.
LEMMA StepSettles ==
  ASSUME TypeOK, CheckoutInv, [Next]_vars
  PROVE  Settles
<1> USE DEF row
<1>1. CASE UNCHANGED <<status, checkout>>
  BY <1>1 DEF Settles
<1>2. ASSUME NEW r \in Request, CreateStep(r) PROVE Settles
  BY <1>2, CreateSettles
<1>3. ASSUME NEW v \in Visit, Arrive(v) \/ VisitStep(v) PROVE Settles
  <2>1. ASSUME NEW p \in Provider, Return(v, p) \/ Cancel(v, p) PROVE Settles
    BY <1>1, <2>1, FinalizeSettles DEF Return, Cancel
  <2>2. CASE VerifySession(v) \/ CaptureOrder(v)
    BY <2>2, FinalizeSettles DEF VerifySession, CaptureOrder
  <2>3. CASE CaptureError(v) \/ LogOutcome(v)
    BY <1>1, <2>3 DEF CaptureError, LogOutcome
  <2> QED
    BY <1>3, <2>1, <2>2, <2>3 DEF Arrive, VisitStep
<1>4. ASSUME NEW q \in Process, WebhookStep(q) \/ Abort(q) PROVE Settles
  BY <1>1, <1>4 DEF WebhookStep, Dispatch, RecordDelivery, Abort
<1>5. ASSUME NEW o \in Order, Expire(o) PROVE Settles
  BY <1>5 DEF Expire, Settles, TypeOK, TerminalStates
<1>6. ASSUME NEW o \in Order, NEW p \in Provider, Pay(o, p) \/ ProviderMoves(o, p)
      PROVE  Settles
  BY <1>1, <1>6 DEF Pay, ProviderMoves
<1>7. CASE UNCHANGED vars
  BY <1>1, <1>7 DEF vars
<1> QED
  BY <1>2, <1>3, <1>4, <1>5, <1>6, <1>7 DEF Next

\* A checkout handed out is never replaced and a terminal status other than
\* EXPIRED is never left, whoever races and whatever dies.
THEOREM Settled == Spec => SettledStaysSettled
<1>1. TypeOK /\ CheckoutInv /\ [Next]_vars => [Settles]_vars
  BY StepSettles
<1> QED
  BY <1>1, CheckoutInvariant, PTL DEF Spec, SettledStaysSettled, Settles

-----------------------------------------------------------------------------
(***************************************************************************)
(* The sessions, and what PaymentContract promises                         *)
(***************************************************************************)

\* A visit asks the provider whose checkout the row names, only a provider that
\* captures on return or settles later leaves a session complete and unpaid, and the
\* row of a call that is still creating is pending.
VisitInv ==
    /\ \A v \in Visit : pc[v] = "verifying" => /\ via[v] \in Provider
                                               /\ checkout[OrderOf[v]] = via[v]
    /\ \A o \in Order : \A p \in Provider :
         session[o][p] = "complete" => p \in CaptureOnReturn \union SettlesLater
    /\ \A r \in Request : pc[r] \in Creating => status[OrderOf[r]] = "PAYMENT_PENDING"

\* The page a customer holds is the one the row names.
LEMMA ShownIsStored ==
  ASSUME CheckoutInv, NEW o \in Order, NEW p \in Provider, Shown(o, p)
  PROVE  checkout[o] = p
BY ProviderAssumption DEF Shown, CheckoutInv

-----------------------------------------------------------------------------
(***************************************************************************)
(* The provider's sessions only move forward                               *)
(***************************************************************************)

\* What may happen to session p of order o in one step.
Forward(o, p) ==
    \/ session'[o][p] = session[o][p]
    \/ session[o][p] = "none" /\ session'[o][p] = "open"
    \/ session[o][p] \in {"open", "complete"} /\ session'[o][p] = "lapsed"
    \/ /\ session[o][p] = "open" /\ checkout[o] = p
       /\ session'[o][p] = "complete" => p \in CaptureOnReturn \union SettlesLater
       /\ session'[o][p] \in {"complete", "paid"}
    \/ session[o][p] = "complete" /\ session'[o][p] = "paid"

SessionsForward == \A o \in Order : \A p \in Provider : Forward(o, p)

\* Opening a session is a move forward.
LEMMA OpenForward ==
  ASSUME TypeOK, NEW r \in Request, OpenSession(r)
  PROVE  SessionsForward
<1> SUFFICES ASSUME NEW o \in Order, NEW p \in Provider, session'[o][p] # session[o][p]
             PROVE  session[o][p] = "none" /\ session'[o][p] = "open"
  BY DEF SessionsForward, Forward
<1> QED
  BY DEF TypeOK, OpenSession

\* A change of one session that is a move forward.
LEMMA ChangeForward ==
  ASSUME TypeOK, NEW o \in Order, NEW p \in Provider, NEW s,
         session' = [session EXCEPT ![o][p] = s], Forward(o, p)
  PROVE  SessionsForward
<1> SUFFICES ASSUME NEW x \in Order, NEW y \in Provider, session'[x][y] # session[x][y]
             PROVE  Forward(x, y)
  BY DEF SessionsForward, Forward
<1>1. x = o /\ y = p
  BY DEF TypeOK
<1> QED
  BY <1>1

\* Every step moves sessions forward, and completes or pays only the stored one.
LEMMA StepForward ==
  ASSUME TypeOK, CheckoutInv, [Next]_vars
  PROVE  SessionsForward
<1>1. CASE UNCHANGED session
  BY <1>1 DEF SessionsForward, Forward
<1>2. ASSUME NEW r \in Request, CreateStep(r) PROVE SessionsForward
  BY <1>1, <1>2, OpenForward
     DEF CreateStep, Submit, Reject, Insert, InsertConflict, LogCreated, PassOver, LogRequest,
         AssignProvider, CheckoutOpened, CheckoutFailed, HardDecline, CountUsage,
         StoreCheckout, MarkFailed
<1>3. ASSUME NEW v \in Visit, Arrive(v) \/ VisitStep(v) PROVE SessionsForward
  <2>1. OrderOf[v] \in Order /\ CaptureOnReturn \subseteq Provider
    BY ConstantTypes, ProviderAssumption
  <2>2. CASE UNCHANGED session
    BY <1>1, <2>2
  <2>3. CASE /\ via[v] \in CaptureOnReturn
             /\ session[OrderOf[v]][via[v]] = "complete"
             /\ session' = [session EXCEPT ![OrderOf[v]][via[v]] = "paid"]
    <3>1. Forward(OrderOf[v], via[v])
      BY <2>1, <2>3 DEF Forward, TypeOK
    <3> QED
      BY <2>1, <2>3, <3>1, ChangeForward
  <2>4. CASE CaptureOrder(v) \/ CaptureError(v)
    BY <2>2, <2>3, <2>4 DEF CaptureOrder, CaptureError
  <2>5. CASE Arrive(v) \/ VerifySession(v) \/ LogOutcome(v)
    BY <2>2, <2>5 DEF Arrive, Return, Cancel, VerifySession, LogOutcome
  <2> QED
    BY <1>3, <2>4, <2>5 DEF VisitStep
<1>4. ASSUME NEW q \in Process, WebhookStep(q) \/ Abort(q) PROVE SessionsForward
  BY <1>1, <1>4 DEF WebhookStep, Dispatch, RecordDelivery, Abort
<1>5. ASSUME NEW o \in Order, Expire(o) PROVE SessionsForward
  BY <1>1, <1>5 DEF Expire
<1>6. ASSUME NEW o \in Order, NEW p \in Provider, Pay(o, p) PROVE SessionsForward
  <2>1. checkout[o] = p
    BY <1>6, ShownIsStored DEF Pay
  <2>2. Forward(o, p)
    BY <1>6, <2>1 DEF Pay, Forward, TypeOK
  <2> QED
    BY <1>6, <2>2, ChangeForward DEF Pay
<1>7. ASSUME NEW o \in Order, NEW p \in Provider, ProviderMoves(o, p) PROVE SessionsForward
  <2>1. PICK s \in {"paid", "lapsed"} :
          /\ session' = [session EXCEPT ![o][p] = s]
          /\ session[o][p] = "complete" \/ (session[o][p] = "open" /\ s = "lapsed")
    BY <1>7 DEF ProviderMoves
  <2>2. Forward(o, p)
    BY <2>1 DEF Forward, TypeOK
  <2> QED
    BY <2>1, <2>2, ChangeForward
<1>8. CASE UNCHANGED vars
  BY <1>1, <1>8 DEF vars
<1> QED
  BY <1>2, <1>3, <1>4, <1>5, <1>6, <1>7, <1>8 DEF Next

-----------------------------------------------------------------------------
(***************************************************************************)
(* VisitInv is inductive                                                   *)
(***************************************************************************)

\* A call that goes on moves no other call.
LEMMA GotoOther ==
  ASSUME TypeOK, NEW q \in Process, NEW l, Goto(q, l), NEW v \in Process, v # q
  PROVE  pc'[v] = pc[v]
BY DEF TypeOK, Goto

\* A visit that verifies did so before, or comes from the stored checkout now.
LEMMA VisitMoves ==
  ASSUME TypeOK, CheckoutInv, [Next]_vars, NEW v \in Visit, pc'[v] = "verifying"
  PROVE  \/ pc[v] = "verifying" /\ via'[v] = via[v]
         \/ via'[v] \in Provider /\ checkout[OrderOf[v]] = via'[v]
<1> DEFINE Kept == pc[v] = "verifying" /\ via'[v] = via[v]
           Came == via'[v] \in Provider /\ checkout[OrderOf[v]] = via'[v]
<1> USE ConstantTypes DEF loop
<1>1. ASSUME NEW r \in Request, CreateStep(r) PROVE Kept
  <2>1. (\E l : Goto(r, l)) /\ UNCHANGED via
    BY <1>1 DEF CreateStep, Submit, Replay, Reject, Insert, InsertConflict, LogCreated,
                PassOver, NextCandidate, LogRequest, AssignProvider, CheckoutOpened,
                CheckoutFailed, HardDecline, CountUsage, StoreCheckout, MarkFailed
  <2> QED
    BY <2>1, GotoOther
<1>2. ASSUME NEW w \in Visit, NEW p \in Provider, Return(w, p) PROVE Kept \/ Came
  <2>1. CASE w = v
    BY <1>2, <2>1, ShownIsStored DEF Return, TypeOK
  <2>2. CASE w # v
    BY <1>2, <2>2, GotoOther DEF Return, TypeOK
  <2> QED
    BY <2>1, <2>2
<1>3. ASSUME NEW w \in Visit, NEW s, Finalize(w, s) PROVE pc[v] = "verifying" /\ w # v
  BY <1>3 DEF Finalize, Goto, TypeOK
<1>4. ASSUME NEW w \in Visit, NEW p \in Provider, Cancel(w, p) PROVE Kept
  BY <1>3, <1>4 DEF Cancel, TypeOK
<1>5. ASSUME NEW w \in Visit, VisitStep(w) PROVE Kept
  <2>1. CASE VerifySession(w) \/ CaptureOrder(w)
    BY <1>3, <2>1 DEF VerifySession, CaptureOrder
  <2>2. CASE CaptureError(w) \/ LogOutcome(w)
    BY <2>2 DEF CaptureError, LogOutcome, Goto, TypeOK
  <2> QED
    BY <1>5, <2>1, <2>2 DEF VisitStep
<1>6. ASSUME NEW q \in Process, WebhookStep(q) \/ Abort(q) PROVE Kept
  <2>1. (\E l : l # "verifying" /\ Goto(q, l)) /\ UNCHANGED via
    BY <1>6 DEF WebhookStep, Dispatch, RecordDelivery, Finish, Abort
  <2> QED
    BY <2>1 DEF Goto, TypeOK
<1>7. CASE UNCHANGED <<pc, via>>
  BY <1>7
<1>8. ASSUME NEW o \in Order, Expire(o) PROVE Kept
  BY <1>7, <1>8 DEF Expire
<1>9. ASSUME NEW o \in Order, NEW p \in Provider, Pay(o, p) \/ ProviderMoves(o, p) PROVE Kept
  BY <1>7, <1>9 DEF Pay, ProviderMoves
<1>10. CASE UNCHANGED vars
  BY <1>7, <1>10 DEF vars
<1> QED
  BY <1>1, <1>2, <1>4, <1>5, <1>6, <1>8, <1>9, <1>10 DEF Next, Arrive

\* A call that is creating was creating before, or has just inserted its row.
LEMMA CreatingMoves ==
  ASSUME TypeOK, [Next]_vars, NEW x \in Request, pc'[x] \in Creating
  PROVE  \/ pc[x] \in Creating
         \/ /\ status' = [status EXCEPT ![OrderOf[x]] = "PAYMENT_PENDING"]
            /\ status[OrderOf[x]] = "NONE"
<1> DEFINE Was == pc[x] \in Creating
           Now == /\ status' = [status EXCEPT ![OrderOf[x]] = "PAYMENT_PENDING"]
                  /\ status[OrderOf[x]] = "NONE"
<1> USE ConstantTypes
<1>1. ASSUME NEW q \in Process, NEW l, l \notin Creating, Goto(q, l) PROVE Was
  BY <1>1, GotoFrame
<1>2. ASSUME NEW r \in Request, CreateStep(r) PROVE Was \/ Now
  <2>1. CASE pc[r] \in Creating
    <3>1. \E l : Goto(r, l)
      BY <1>2 DEF CreateStep, Submit, Replay, Reject, Insert, InsertConflict, LogCreated,
                  PassOver, NextCandidate, LogRequest, AssignProvider, CheckoutOpened,
                  CheckoutFailed, HardDecline, CountUsage, StoreCheckout, MarkFailed
    <3> QED
      BY <2>1, <3>1, GotoOther
  <2>2. CASE Submit(r) \/ Reject(r) \/ InsertConflict(r)
    BY <1>1, <2>2 DEF Submit, Reject, InsertConflict, Replay, Creating
  <2>3. ASSUME NEW p \in Provider, NEW rest \in SUBSET Provider, Insert(r, p, rest)
        PROVE  Was \/ Now
    <3>1. CASE x = r
      BY <2>3, <3>1 DEF Insert
    <3>2. CASE x # r
      BY <2>3, <3>2, GotoOther DEF Insert
    <3> QED
      BY <3>1, <3>2
  <2> QED
    BY <1>2, <2>1, <2>2, <2>3
       DEF CreateStep, LogCreated, PassOver, LogRequest, AssignProvider, CheckoutOpened,
           CheckoutFailed, HardDecline, CountUsage, StoreCheckout, MarkFailed, Creating
<1>3. ASSUME NEW v \in Visit, Arrive(v) \/ VisitStep(v) PROVE Was
  <2>1. \E l : l \notin Creating /\ Goto(v, l)
    BY <1>3 DEF Arrive, VisitStep, Return, Cancel, VerifySession, CaptureOrder, CaptureError,
                LogOutcome, Finalize, Creating
  <2> QED
    BY <1>1, <2>1
<1>4. ASSUME NEW q \in Process, WebhookStep(q) \/ Abort(q) PROVE Was
  <2>1. \E l : l \notin Creating /\ Goto(q, l)
    BY <1>4 DEF WebhookStep, Dispatch, RecordDelivery, Finish, Abort, Creating
  <2> QED
    BY <1>1, <2>1
<1>5. CASE pc' = pc
  BY <1>5
<1>6. ASSUME NEW o \in Order, Expire(o) PROVE Was
  BY <1>5, <1>6 DEF Expire
<1>7. ASSUME NEW o \in Order, NEW p \in Provider, Pay(o, p) \/ ProviderMoves(o, p) PROVE Was
  BY <1>5, <1>7 DEF Pay, ProviderMoves
<1>8. CASE UNCHANGED vars
  BY <1>5, <1>8 DEF vars
<1> QED
  BY <1>2, <1>3, <1>4, <1>6, <1>7, <1>8 DEF Next

\* Who may write a status: the owner while it creates, a visit to the stored checkout,
\* or the expiry of a row nobody is creating.
LEMMA StatusMoves ==
  ASSUME TypeOK, CheckoutInv, VisitInv, [Next]_vars, NEW o \in Order, status'[o] # status[o]
  PROVE  \/ status[o] = "NONE"
         \/ \E r \in Request : OrderOf[r] = o /\ pc[r] = "failing" /\ pc'[r] = "dispatch"
         \/ checkout[o] \in Provider
         \/ ~InFlight(o)
<1> DEFINE Writer == \/ status[o] = "NONE"
                     \/ \E r \in Request : OrderOf[r] = o /\ pc[r] = "failing" /\ pc'[r] = "dispatch"
                     \/ checkout[o] \in Provider
                     \/ ~InFlight(o)
<1> USE ConstantTypes DEF row
<1>1. CASE UNCHANGED status
  BY <1>1
<1>2. ASSUME NEW r \in Request, CreateStep(r) PROVE Writer
  <2>1. CASE MarkFailed(r)
    BY <2>1 DEF MarkFailed, Goto, TypeOK
  <2>2. ASSUME NEW p \in Provider, NEW rest \in SUBSET Provider, Insert(r, p, rest) PROVE Writer
    BY <2>2 DEF Insert, TypeOK
  <2> QED
    BY <1>1, <1>2, <2>1, <2>2
       DEF CreateStep, Submit, Reject, InsertConflict, LogCreated, PassOver, LogRequest,
           AssignProvider, CheckoutOpened, CheckoutFailed, HardDecline, CountUsage, StoreCheckout
<1>3. ASSUME NEW v \in Visit, NEW s, Finalize(v, s), checkout[OrderOf[v]] \in Provider
      PROVE Writer
  BY <1>3 DEF Finalize, TypeOK
<1>4. ASSUME NEW v \in Visit, Arrive(v) \/ VisitStep(v) PROVE Writer
  <2>1. ASSUME NEW p \in Provider, Return(v, p) \/ Cancel(v, p) PROVE Writer
    BY <1>1, <1>3, <2>1, ShownIsStored DEF Return, Cancel
  <2>2. CASE VerifySession(v) \/ CaptureOrder(v)
    BY <1>3, <2>2 DEF VerifySession, CaptureOrder, VisitInv
  <2> QED
    BY <1>1, <1>4, <2>1, <2>2 DEF Arrive, VisitStep, CaptureError, LogOutcome
<1>5. ASSUME NEW q \in Process, WebhookStep(q) \/ Abort(q) PROVE Writer
  BY <1>1, <1>5 DEF WebhookStep, Dispatch, RecordDelivery, Abort
<1>6. ASSUME NEW x \in Order, Expire(x) PROVE Writer
  BY <1>6 DEF Expire, TypeOK
<1>7. ASSUME NEW x \in Order, NEW p \in Provider, Pay(x, p) \/ ProviderMoves(x, p) PROVE Writer
  BY <1>1, <1>7 DEF Pay, ProviderMoves
<1> QED
  BY <1>1, <1>2, <1>4, <1>5, <1>6, <1>7 DEF Next, vars

\* What a visit is about stays true.
LEMMA VisitStepInv ==
  ASSUME TypeOK, CheckoutInv, VisitInv, [Next]_vars
  PROVE  VisitInv'
<1> USE ConstantTypes, ProviderAssumption
<1>1. Settles /\ SessionsForward
  BY StepSettles, StepForward
<1>2. ASSUME NEW v \in Visit, pc'[v] = "verifying"
      PROVE  via'[v] \in Provider /\ checkout'[OrderOf[v]] = via'[v]
  BY <1>1, <1>2, VisitMoves DEF VisitInv, Settles
<1>3. ASSUME NEW o \in Order, NEW p \in Provider, session'[o][p] = "complete"
      PROVE  p \in CaptureOnReturn \union SettlesLater
  BY <1>1, <1>3 DEF SessionsForward, Forward, VisitInv
<1>4. ASSUME NEW r \in Request, pc'[r] \in Creating
      PROVE  status'[OrderOf[r]] = "PAYMENT_PENDING"
  <2>1. CASE pc[r] \in Creating
    <3>1. /\ paymentId[OrderOf[r]] = r /\ checkout[OrderOf[r]] = NoProvider
          /\ status[OrderOf[r]] = "PAYMENT_PENDING"
      BY <2>1 DEF CheckoutInv, VisitInv
    <3>2. \A x \in Request : OrderOf[x] = OrderOf[r] /\ pc[x] = "failing" => x = r
      BY <3>1 DEF CheckoutInv, Creating
    <3>3. InFlight(OrderOf[r])
      BY <2>1, <3>1, ProcessAssumption DEF InFlight
    <3>4. \A x \in Request : OrderOf[x] = OrderOf[r] /\ pc[x] = "failing" => pc'[x] # "dispatch"
      BY <1>4, <3>2 DEF Creating
    <3>5. OrderOf[r] \in Order /\ checkout[OrderOf[r]] \notin Provider
      BY <3>1
    <3>6. status'[OrderOf[r]] = status[OrderOf[r]]
      BY <3>1, <3>3, <3>4, <3>5, StatusMoves
    <3> QED
      BY <3>1, <3>6
  <2>2. CASE status' = [status EXCEPT ![OrderOf[r]] = "PAYMENT_PENDING"]
    BY <2>2 DEF TypeOK
  <2> QED
    BY <1>4, <2>1, <2>2, CreatingMoves
<1> QED
  BY <1>2, <1>3, <1>4 DEF VisitInv

\* The invariant of both theorems below.
THEOREM VisitInvariant == Spec => [](TypeOK /\ CheckoutInv /\ VisitInv)
<1>1. Init => VisitInv
  BY ConstantTypes DEF Init, VisitInv, Creating
<1>2. TypeOK /\ CheckoutInv /\ VisitInv /\ [Next]_vars => VisitInv'
  BY VisitStepInv
<1> QED
  BY <1>1, <1>2, CheckoutInvariant, PTL DEF Spec

-----------------------------------------------------------------------------
(***************************************************************************)
(* FINISHED means captured                                                 *)
(***************************************************************************)

\* A row becomes FINISHED only together with, or after, the stored checkout's capture.
LEMMA FinishedMoves ==
  ASSUME TypeOK, CheckoutInv, VisitInv, [Next]_vars, NEW o \in Order,
         status'[o] = "PAYMENT_FINISHED", status[o] # "PAYMENT_FINISHED"
  PROVE  /\ checkout[o] # NoProvider
         /\ checkout[o] \in SettlesLater \/ session'[o][checkout[o]] = "paid"
<1> DEFINE Good == /\ checkout[o] # NoProvider
                   /\ checkout[o] \in SettlesLater \/ session'[o][checkout[o]] = "paid"
<1> USE ConstantTypes, ProviderAssumption DEF row
<1>1. CASE UNCHANGED status
  BY <1>1
<1>2. ASSUME NEW r \in Request, CreateStep(r) PROVE Good
  <2>1. CASE MarkFailed(r)
    BY <2>1 DEF MarkFailed, TypeOK
  <2>2. ASSUME NEW p \in Provider, NEW rest \in SUBSET Provider, Insert(r, p, rest) PROVE Good
    BY <2>2 DEF Insert, TypeOK
  <2> QED
    BY <1>1, <1>2, <2>1, <2>2
       DEF CreateStep, Submit, Reject, InsertConflict, LogCreated, PassOver, LogRequest,
           AssignProvider, CheckoutOpened, CheckoutFailed, HardDecline, CountUsage, StoreCheckout
<1>3. ASSUME NEW v \in Visit, NEW s, Finalize(v, s)
      PROVE  OrderOf[v] = o /\ s = "PAYMENT_FINISHED"
  BY <1>3 DEF Finalize, TypeOK
<1>4. ASSUME NEW v \in Visit, Arrive(v) \/ VisitStep(v) PROVE Good
  <2>1. ASSUME NEW p \in Provider, Return(v, p) \/ Cancel(v, p) PROVE Good
    BY <1>1, <1>3, <2>1 DEF Return, Cancel
  <2>2. CASE VerifySession(v)
    <3>1. /\ OrderOf[v] = o
          /\ session[o][via[v]] \in {"complete", "paid"}
          /\ via[v] \notin CaptureOnReturn
          /\ UNCHANGED session
      BY <1>3, <2>2 DEF VerifySession
    <3>2. via[v] \in Provider /\ checkout[o] = via[v]
      BY <2>2, <3>1 DEF VerifySession, VisitInv
    <3> QED
      BY <3>1, <3>2 DEF VisitInv
  <2>3. CASE CaptureOrder(v)
    <3>1. /\ OrderOf[v] = o
          /\ session' = [session EXCEPT ![o][via[v]] = "paid"]
      BY <1>3, <2>3 DEF CaptureOrder
    <3>2. via[v] \in Provider /\ checkout[o] = via[v]
      BY <2>3, <3>1 DEF CaptureOrder, VisitInv
    <3> QED
      BY <3>1, <3>2 DEF TypeOK
  <2> QED
    BY <1>1, <1>4, <2>1, <2>2, <2>3 DEF Arrive, VisitStep, CaptureError, LogOutcome
<1>5. ASSUME NEW q \in Process, WebhookStep(q) \/ Abort(q) PROVE Good
  BY <1>1, <1>5 DEF WebhookStep, Dispatch, RecordDelivery, Abort
<1>6. ASSUME NEW x \in Order, Expire(x) PROVE Good
  BY <1>6 DEF Expire, TypeOK
<1>7. ASSUME NEW x \in Order, NEW p \in Provider, Pay(x, p) \/ ProviderMoves(x, p) PROVE Good
  BY <1>1, <1>7 DEF Pay, ProviderMoves
<1> QED
  BY <1>1, <1>2, <1>4, <1>5, <1>6, <1>7 DEF Next, vars

\* FINISHED is only written for money the provider of the stored checkout holds.
THEOREM FinishedCaptured == Spec => []FinishedMeansCaptured
<1>1. Init => FinishedMeansCaptured
  BY DEF Init, FinishedMeansCaptured
<1>2. ASSUME TypeOK, CheckoutInv, VisitInv, FinishedMeansCaptured, [Next]_vars
      PROVE  FinishedMeansCaptured'
  <2> SUFFICES ASSUME NEW o \in Order, status'[o] = "PAYMENT_FINISHED",
                      checkout'[o] \notin SettlesLater
               PROVE  checkout'[o] # NoProvider /\ session'[o][checkout'[o]] = "paid"
    BY DEF FinishedMeansCaptured
  <2>1. Settles /\ SessionsForward
    BY <1>2, StepSettles, StepForward
  <2>2. CASE status[o] = "PAYMENT_FINISHED"
    <3>1. checkout[o] # NoProvider /\ checkout'[o] = checkout[o]
      BY <1>2, <2>1, <2>2, ProviderAssumption DEF FinishedMeansCaptured, Settles
    <3>2. checkout[o] \in Provider /\ session[o][checkout[o]] = "paid"
      BY <1>2, <2>2, <3>1 DEF FinishedMeansCaptured, TypeOK
    <3> QED
      BY <2>1, <3>1, <3>2 DEF SessionsForward, Forward
  <2>3. CASE status[o] # "PAYMENT_FINISHED"
    BY <1>2, <2>1, <2>3, FinishedMoves DEF Settles
  <2> QED
    BY <2>2, <2>3
<1> QED
  BY <1>1, <1>2, VisitInvariant, PTL DEF Spec

-----------------------------------------------------------------------------
(***************************************************************************)
(* The refinement                                                          *)
(***************************************************************************)

\* A step that pays no session changes nothing of what the merchant was paid.
LEMMA PaidSame ==
  ASSUME SessionsForward,
         \A o \in Order : \A p \in Provider : session'[o][p] = "paid" => session[o][p] = "paid"
  PROVE  Captured' = Captured
<1>1. \A o \in Order : \A p \in Provider : session'[o][p] = "paid" <=> session[o][p] = "paid"
  BY DEF SessionsForward, Forward
<1> QED
  BY <1>1 DEF Captured

\* A step that pays the stored checkout charges exactly that.
LEMMA PaidCharge ==
  ASSUME TypeOK, CheckoutInv, NEW o \in Order, NEW p \in Provider, checkout[o] = p,
         session' = [session EXCEPT ![o][p] = "paid"]
  PROVE  Captured' = Contract!Charged(o) /\ Captured'[o] = {checkout[o]}
<1>1. \A x \in Order : x # o => session'[x] = session[x]
  BY DEF TypeOK
<1>2. \A q \in Provider : session'[o][q] = "paid" <=> q = p
  BY DEF TypeOK, CheckoutInv
<1>3. {q \in Provider : session'[o][q] = "paid"} = {p}
  BY <1>2
<1> QED
  BY <1>1, <1>3 DEF Captured, Contract!Charged

\* A visit to the stored checkout settles the payment, or charges it, or neither.
LEMMA FinalizeRefines ==
  ASSUME TypeOK, CheckoutInv, NEW v \in Visit, NEW s \in TerminalStates, Finalize(v, s),
         UNCHANGED checkout, checkout[OrderOf[v]] \in Provider,
         \/ Captured' = Captured
         \/ s = "PAYMENT_FINISHED" /\ Captured' = Contract!Charged(OrderOf[v]),
         s = "PAYMENT_FINISHED" => \/ checkout[OrderOf[v]] \in SettlesLater
                                   \/ Captured'[OrderOf[v]] = {checkout[OrderOf[v]]}
  PROVE  [Contract!Next]_Contract!vars
<1> DEFINE o == OrderOf[v]
<1> USE ConstantTypes, ProviderAssumption
<1>1. o \in Order /\ checkout[o] # NoProvider
  OBVIOUS
<1>2. CASE status[o] \in TerminalStates
  BY <1>1, <1>2 DEF Finalize, Contract!Next, Contract!Charge, Contract!vars
<1>3. CASE status[o] \notin TerminalStates
  <2>1. status[o] \in Contract!Open
    BY <1>1, <1>3 DEF TypeOK, CheckoutInv, Status, TerminalStates, Contract!Open
  <2>2. Contract!Settle(o, s)
    BY <1>1, <1>3, <2>1 DEF Finalize, Contract!Settle, Contract!Become
  <2> QED
    BY <1>1, <2>2 DEF Contract!Next, TerminalStates
<1> QED
  BY <1>2, <1>3

\* Every step of the creation handler is Create, Offer, GiveUp or none.
LEMMA CreateRefines ==
  ASSUME TypeOK, CheckoutInv, VisitInv, NEW r \in Request, CreateStep(r), SessionsForward
  PROVE  [Contract!Next]_Contract!vars
<1> DEFINE o == OrderOf[r]
<1> USE ConstantTypes DEF row
<1>1. \A x \in Order : \A p \in Provider : session'[x][p] = "paid" => session[x][p] = "paid"
  <2>1. UNCHANGED session \/ OpenSession(r)
    BY DEF CreateStep, Submit, Reject, Insert, InsertConflict, LogCreated, PassOver, LogRequest,
           AssignProvider, CheckoutOpened, CheckoutFailed, HardDecline, CountUsage,
           StoreCheckout, MarkFailed
  <2>2. CASE OpenSession(r)
    <3> SUFFICES ASSUME NEW x \in Order, NEW p \in Provider, session'[x][p] # session[x][p]
                 PROVE  session'[x][p] = "open"
      OBVIOUS
    <3> QED
      BY <2>2 DEF OpenSession, TypeOK
  <2> QED
    BY <2>1, <2>2
<1>2. Captured' = Captured
  BY <1>1, PaidSame
<1>3. CASE UNCHANGED <<status, checkout>>
  BY <1>2, <1>3 DEF Contract!vars
<1>4. ASSUME pc[r] \in Creating
      PROVE  o \in Order /\ checkout[o] = NoProvider /\ status[o] = "PAYMENT_PENDING"
                         /\ cand[r] \in Provider
  BY <1>4 DEF CheckoutInv, VisitInv
<1>5. ASSUME NEW p \in Provider, NEW rest \in SUBSET Provider, Insert(r, p, rest)
      PROVE  [Contract!Next]_Contract!vars
  <2>1. Contract!Create(o)
    BY <1>2, <1>5 DEF Insert, Contract!Create, Contract!Become
  <2> QED
    BY <2>1 DEF Contract!Next
<1>6. CASE StoreCheckout(r)
  <2>1. Contract!Offer(o, cand[r])
    BY <1>2, <1>4, <1>6 DEF StoreCheckout, Creating, Contract!Offer
  <2> QED
    BY <1>4, <1>6, <2>1 DEF StoreCheckout, Creating, Contract!Next
<1>7. CASE MarkFailed(r)
  <2>1. status' = [status EXCEPT ![o] = "PAYMENT_FAILED"]
    BY <1>4, <1>7 DEF MarkFailed, Creating
  <2>2. Contract!GiveUp(o)
    BY <1>2, <1>4, <1>7, <2>1 DEF MarkFailed, Creating, Contract!GiveUp, Contract!Become
  <2> QED
    BY <2>2 DEF Contract!Next
<1> QED
  BY <1>3, <1>5, <1>6, <1>7
     DEF CreateStep, Submit, Reject, InsertConflict, LogCreated, PassOver, LogRequest,
         AssignProvider, CheckoutOpened, CheckoutFailed, HardDecline, CountUsage

\* A visit settles or charges the stored checkout, or does neither.
LEMMA VisitRefines ==
  ASSUME TypeOK, CheckoutInv, VisitInv, NEW v \in Visit, Arrive(v) \/ VisitStep(v)
  PROVE  [Contract!Next]_Contract!vars
<1> DEFINE o == OrderOf[v]
<1> USE ConstantTypes, ProviderAssumption DEF row
<1>1. CASE UNCHANGED <<status, checkout, session>>
  BY <1>1 DEF Contract!vars, Captured
<1>2. ASSUME NEW p \in Provider, Cancel(v, p) PROVE [Contract!Next]_Contract!vars
  <2>1. checkout[o] \in Provider /\ UNCHANGED <<checkout, session>>
    BY <1>2, ShownIsStored DEF Cancel
  <2>2. Captured' = Captured
    BY <2>1 DEF Captured
  <2> QED
    BY <1>2, <2>1, <2>2, FinalizeRefines DEF Cancel, TerminalStates
<1>3. CASE VerifySession(v)
  <2>1. PICK s \in {"PAYMENT_FINISHED", "PAYMENT_FAILED"} :
          /\ Finalize(v, s)
          /\ s = "PAYMENT_FINISHED" => session[o][via[v]] \in {"complete", "paid"}
    BY <1>3 DEF VerifySession
  <2>2. /\ checkout[o] \in Provider /\ checkout[o] = via[v]
        /\ via[v] \notin CaptureOnReturn
        /\ UNCHANGED <<checkout, session>>
    BY <1>3 DEF VerifySession, VisitInv
  <2>3. Captured' = Captured
    BY <2>2 DEF Captured
  <2>4. session[o][via[v]] = "paid" => Captured[o] = {checkout[o]}
    <3>1. ASSUME session[o][via[v]] = "paid"
          PROVE  {p \in Provider : session[o][p] = "paid"} = {checkout[o]}
      BY <2>2, <3>1 DEF CheckoutInv
    <3> QED
      BY <3>1 DEF Captured
  <2>5. s = "PAYMENT_FINISHED" => checkout[o] \in SettlesLater \/ Captured'[o] = {checkout[o]}
    BY <2>1, <2>2, <2>3, <2>4 DEF VisitInv
  <2> QED
    BY <2>1, <2>2, <2>3, <2>5, FinalizeRefines DEF TerminalStates
<1>4. ASSUME pc[v] = "verifying", session' = [session EXCEPT ![o][via[v]] = "paid"]
      PROVE  /\ checkout[o] \in Provider
             /\ Captured' = Contract!Charged(o) /\ Captured'[o] = {checkout[o]}
  BY <1>4, PaidCharge DEF VisitInv
<1>5. CASE CaptureOrder(v)
  <2>1. checkout[o] \in Provider /\ UNCHANGED checkout
    BY <1>5 DEF CaptureOrder, VisitInv
  <2>2. CASE Finalize(v, "PAYMENT_FAILED") /\ UNCHANGED session
    <3>1. Captured' = Captured
      BY <2>2 DEF Captured
    <3> QED
      BY <2>1, <2>2, <3>1, FinalizeRefines DEF TerminalStates
  <2>3. CASE /\ session' = [session EXCEPT ![o][via[v]] = "paid"]
             /\ Finalize(v, "PAYMENT_FINISHED")
    BY <1>4, <1>5, <2>1, <2>3, FinalizeRefines DEF CaptureOrder, TerminalStates
  <2> QED
    BY <1>5, <2>2, <2>3 DEF CaptureOrder
<1>6. CASE CaptureError(v)
  <2>1. CASE session' = [session EXCEPT ![o][via[v]] = "paid"]
    <3>1. Contract!Charge(o)
      BY <1>4, <1>6, <2>1 DEF CaptureError, Contract!Charge
    <3> QED
      BY <3>1 DEF Contract!Next
  <2>2. CASE UNCHANGED session
    BY <1>1, <1>6, <2>2 DEF CaptureError
  <2> QED
    BY <1>6, <2>1, <2>2 DEF CaptureError
<1>7. CASE LogOutcome(v) \/ \E p \in Provider : Return(v, p)
  BY <1>1, <1>7 DEF LogOutcome, Return
<1> QED
  BY <1>2, <1>3, <1>5, <1>6, <1>7 DEF Arrive, VisitStep

\* The service, interleaved and aborted anywhere, keeps the promises of
\* PaymentContract: the detailed specification implements the abstract one.
THEOREM KeepsContract == Spec => ImplementsContract
<1>1. Init => Contract!Init
  BY DEF Init, Contract!Init, Captured
<1>2. ASSUME TypeOK, CheckoutInv, VisitInv, [Next]_vars
      PROVE  [Contract!Next]_Contract!vars
  <2> USE DEF row
  <2>1. SessionsForward
    BY <1>2, StepForward
  <2>2. CASE UNCHANGED <<status, checkout, session>>
    BY <2>2 DEF Contract!vars, Captured
  <2>3. ASSUME NEW r \in Request, CreateStep(r) PROVE [Contract!Next]_Contract!vars
    BY <1>2, <2>1, <2>3, CreateRefines
  <2>4. ASSUME NEW v \in Visit, Arrive(v) \/ VisitStep(v) PROVE [Contract!Next]_Contract!vars
    BY <1>2, <2>4, VisitRefines
  <2>5. ASSUME NEW q \in Process, WebhookStep(q) \/ Abort(q) PROVE [Contract!Next]_Contract!vars
    BY <2>2, <2>5 DEF WebhookStep, Dispatch, RecordDelivery, Abort
  <2>6. ASSUME NEW o \in Order, Expire(o) PROVE [Contract!Next]_Contract!vars
    <3>1. Captured' = Captured
      BY <2>6 DEF Expire, Captured
    <3>2. Contract!Expire(o)
      BY <2>6, <3>1 DEF Expire, Contract!Expire, Contract!Become
    <3> QED
      BY <3>2 DEF Contract!Next
  <2>7. ASSUME NEW o \in Order, NEW p \in Provider, checkout[o] = p,
               UNCHANGED <<status, checkout>>, NEW s \in {"complete", "paid", "lapsed"},
               session[o][p] # "paid", session' = [session EXCEPT ![o][p] = s]
        PROVE  [Contract!Next]_Contract!vars
    <3>1. CASE s = "paid"
      <4>1. Contract!Charge(o)
        BY <1>2, <2>7, <3>1, PaidCharge, ProviderAssumption DEF Contract!Charge
      <4> QED
        BY <4>1 DEF Contract!Next
    <3>2. CASE s # "paid"
      <4>1. \A x \in Order : \A y \in Provider : session'[x][y] = "paid" => session[x][y] = "paid"
        BY <1>2, <2>7, <3>2 DEF TypeOK
      <4> QED
        BY <2>1, <2>7, <4>1, PaidSame DEF Contract!vars
    <3> QED
      BY <3>1, <3>2
  <2>8. ASSUME NEW o \in Order, NEW p \in Provider, Pay(o, p) PROVE [Contract!Next]_Contract!vars
    BY <1>2, <2>7, <2>8, ShownIsStored DEF Pay
  <2>9. ASSUME NEW o \in Order, NEW p \in Provider, ProviderMoves(o, p)
        PROVE  [Contract!Next]_Contract!vars
    <3>1. UNCHANGED <<status, checkout>>
      BY <2>9 DEF ProviderMoves
    <3>2. CASE session[o][p] = "complete"
      <4>1. checkout[o] = p
        BY <1>2, <3>2 DEF CheckoutInv
      <4> QED
        BY <2>7, <2>9, <3>1, <3>2, <4>1 DEF ProviderMoves
    <3>3. CASE session' = [session EXCEPT ![o][p] = "lapsed"]
      <4>1. \A x \in Order : \A y \in Provider : session'[x][y] = "paid" => session[x][y] = "paid"
        BY <1>2, <3>3 DEF TypeOK
      <4> QED
        BY <2>1, <3>1, <4>1, PaidSame DEF Contract!vars
    <3> QED
      BY <2>9, <3>2, <3>3 DEF ProviderMoves
  <2> QED
    BY <1>2, <2>2, <2>3, <2>4, <2>5, <2>6, <2>8, <2>9 DEF Next, vars
<1> QED
  BY <1>1, <1>2, VisitInvariant, PTL DEF Spec, ImplementsContract, Contract!Spec

-----------------------------------------------------------------------------
(***************************************************************************)
(* What is announced, logged and counted                                   *)
(***************************************************************************)

Outcomes == {"payment.succeeded", "payment.failed", "payment.cancelled"}

\* The status an outcome tells of.
Told(e) == IF e = "payment.cancelled" THEN {"PAYMENT_CANCELLED"} ELSE {"PAYMENT_FINISHED", "PAYMENT_FAILED"}

\* An announced outcome is the row's, and a visit logs only what it has written.
EventInv ==
    /\ \A q \in Process : event[q] \in Outcomes => status[OrderOf[q]] \in Told(event[q])
    /\ \A v \in Visit : pc[v] = "logging" => event[v] \in Outcomes
    /\ OneOutcomeAnnounced

-----------------------------------------------------------------------------
(***************************************************************************)
(* One outcome                                                             *)
(***************************************************************************)

\* No event is new, and no visit begins to log.
QuietEvents ==
    /\ UNCHANGED event
    /\ \A v \in Visit : pc'[v] = "logging" => pc[v] = "logging"

\* q has an event: its page, or the outcome it has just written to an open row.
NewEvent(q, e) ==
    /\ event' = [event EXCEPT ![q] = e]
    /\ \/ e = "payment.created"
       \/ /\ e \in Outcomes
          /\ status[OrderOf[q]] \notin TerminalStates
          /\ status'[OrderOf[q]] \in Told(e)
    /\ \A v \in Visit \ {q} : pc'[v] = "logging" => pc[v] = "logging"
    /\ q \in Visit => e \in Outcomes

\* A call that goes on to anything but logging.
LEMMA GotoQuiet ==
  ASSUME TypeOK, NEW q \in Process, NEW l, l # "logging", Goto(q, l)
  PROVE  \A v \in Visit : pc'[v] = "logging" => pc[v] = "logging"
BY ConstantTypes DEF TypeOK, Goto

\* A return or a cancel announces what it has written, or nothing.
LEMMA FinalizeEvent ==
  ASSUME TypeOK, NEW v \in Visit, NEW s \in TerminalStates, Finalize(v, s)
  PROVE  QuietEvents \/ NewEvent(v, WebhookEvent(s))
<1> USE ConstantTypes
<1>1. CASE status[OrderOf[v]] \in TerminalStates
  BY <1>1, GotoQuiet DEF Finalize, QuietEvents
<1>2. CASE status[OrderOf[v]] \notin TerminalStates
  <2>1. /\ status'[OrderOf[v]] = s
        /\ event' = [event EXCEPT ![v] = WebhookEvent(s)]
        /\ pc' = [pc EXCEPT ![v] = "logging"]
    BY <1>2 DEF Finalize, Goto, TypeOK
  <2>2. WebhookEvent(s) \in Outcomes /\ s \in Told(WebhookEvent(s))
    BY EventType DEF TerminalStates, Outcomes, Told
  <2>3. \A x \in Visit \ {v} : pc'[x] = pc[x]
    BY <2>1 DEF TypeOK
  <2> QED
    BY <1>2, <2>1, <2>2, <2>3 DEF NewEvent
<1> QED
  BY <1>1, <1>2

\* A step is quiet, or one process announces.
LEMMA EventStep ==
  ASSUME TypeOK, CheckoutInv, VisitInv, [Next]_vars
  PROVE  QuietEvents \/ \E q \in Process, e \in Outcomes \union {"payment.created"} : NewEvent(q, e)
<1> DEFINE Good == QuietEvents \/ \E q \in Process, e \in Outcomes \union {"payment.created"} : NewEvent(q, e)
<1> USE ConstantTypes DEF hooks
<1>1. ASSUME NEW q \in Process, NEW l, l # "logging", Goto(q, l), UNCHANGED event PROVE Good
  BY <1>1, GotoQuiet DEF QuietEvents
<1>2. CASE UNCHANGED <<pc, event>>
  BY <1>2 DEF QuietEvents
<1>3. ASSUME NEW r \in Request, CreateStep(r) PROVE Good
  <2>1. CASE StoreCheckout(r)
    <3>1. NewEvent(r, "payment.created")
      BY <2>1, GotoQuiet DEF StoreCheckout, NewEvent
    <3> QED
      BY <3>1
  <2>2. CASE MarkFailed(r)
    <3>1. status[OrderOf[r]] = "PAYMENT_PENDING"
      BY <2>2 DEF MarkFailed, VisitInv, Creating
    <3>2. NewEvent(r, "payment.failed")
      BY <2>2, <3>1, GotoQuiet DEF MarkFailed, NewEvent, Outcomes, Told, TerminalStates, TypeOK
    <3> QED
      BY <3>2 DEF Outcomes
  <2>3. CASE (\E l : l # "logging" /\ Goto(r, l)) /\ UNCHANGED event
    BY <1>1, <2>3
  <2> QED
    BY <1>3, <2>1, <2>2, <2>3
       DEF CreateStep, Submit, Replay, Reject, Insert, InsertConflict, LogCreated, PassOver,
           NextCandidate, LogRequest, AssignProvider, CheckoutOpened, CheckoutFailed,
           HardDecline, CountUsage
<1>4. ASSUME NEW v \in Visit, NEW s \in TerminalStates, Finalize(v, s) PROVE Good
  <2>1. WebhookEvent(s) \in Outcomes
    BY EventType DEF TerminalStates, Outcomes
  <2> QED
    BY <1>4, <2>1, FinalizeEvent
<1>5. ASSUME NEW v \in Visit, Arrive(v) \/ VisitStep(v) PROVE Good
  <2>1. ASSUME NEW p \in Provider, Return(v, p) \/ Cancel(v, p) PROVE Good
    BY <1>1, <1>4, <2>1 DEF Return, Cancel, TerminalStates
  <2>2. CASE VerifySession(v) \/ CaptureOrder(v)
    BY <1>4, <2>2 DEF VerifySession, CaptureOrder, TerminalStates
  <2>3. CASE CaptureError(v) \/ LogOutcome(v)
    BY <1>1, <2>3 DEF CaptureError, LogOutcome
  <2> QED
    BY <1>5, <2>1, <2>2, <2>3 DEF Arrive, VisitStep
<1>6. ASSUME NEW q \in Process, WebhookStep(q) \/ Abort(q) PROVE Good
  <2>1. (\E l : l # "logging" /\ Goto(q, l)) /\ UNCHANGED event
    BY <1>6 DEF WebhookStep, Dispatch, RecordDelivery, Finish, Abort
  <2> QED
    BY <1>1, <2>1
<1>7. ASSUME NEW o \in Order, Expire(o) PROVE Good
  BY <1>2, <1>7 DEF Expire
<1>8. ASSUME NEW o \in Order, NEW p \in Provider, Pay(o, p) \/ ProviderMoves(o, p) PROVE Good
  BY <1>2, <1>8 DEF Pay, ProviderMoves
<1>9. CASE UNCHANGED vars
  BY <1>2, <1>9 DEF vars
<1> QED
  BY <1>3, <1>5, <1>6, <1>7, <1>8, <1>9 DEF Next

\* EventInv is inductive: whoever announces found the row open, so nobody has announced before.
LEMMA EventInvStep ==
  ASSUME TypeOK, CheckoutInv, VisitInv, EventInv, [Next]_vars
  PROVE  EventInv'
<1> USE ConstantTypes
<1>1. Settles
  BY StepSettles
<1>2. \A e \in Outcomes : Told(e) \subseteq TerminalStates
  BY DEF Outcomes, Told, TerminalStates
<1>3. ASSUME NEW q \in Process, event[q] \in Outcomes
      PROVE  status[OrderOf[q]] \in TerminalStates /\ status'[OrderOf[q]] \in Told(event[q])
  BY <1>1, <1>2, <1>3 DEF EventInv, Settles
<1>4. \A q \in Process : event[q] \notin {"none", "payment.created"} <=> event[q] \in Outcomes
  BY DEF TypeOK, Outcomes
<1>5. CASE QuietEvents
  <2>1. OneOutcomeAnnounced'
    BY <1>5 DEF QuietEvents, EventInv, OneOutcomeAnnounced
  <2> QED
    BY <1>3, <1>5, <2>1 DEF QuietEvents, EventInv
<1>6. ASSUME NEW q \in Process, NEW e \in Outcomes \union {"payment.created"}, NewEvent(q, e)
      PROVE  EventInv'
  <2>1. event'[q] = e /\ \A x \in Process \ {q} : event'[x] = event[x]
    BY <1>6 DEF NewEvent, TypeOK
  <2>2. \A x \in Process : event'[x] \in Outcomes => status'[OrderOf[x]] \in Told(event'[x])
    BY <1>3, <1>6, <2>1 DEF NewEvent, Outcomes
  <2>3. \A v \in Visit : pc'[v] = "logging" => event'[v] \in Outcomes
    BY <1>6, <2>1 DEF NewEvent, EventInv
  <2>4. OneOutcomeAnnounced'
    <3> SUFFICES ASSUME NEW q1 \in Process, NEW q2 \in Process, OrderOf[q1] = OrderOf[q2],
                        event'[q1] \notin {"none", "payment.created"},
                        event'[q2] \notin {"none", "payment.created"}
                 PROVE  q1 = q2
      BY DEF OneOutcomeAnnounced
    <3>1. CASE q1 # q /\ q2 # q
      BY <2>1, <3>1 DEF EventInv, OneOutcomeAnnounced
    <3>2. ASSUME NEW x \in Process \ {q}, event'[x] \notin {"none", "payment.created"},
                 OrderOf[x] = OrderOf[q], e # "payment.created"
          PROVE  FALSE
      BY <1>3, <1>4, <1>6, <2>1, <3>2 DEF NewEvent
    <3> QED
      BY <2>1, <3>1, <3>2
  <2> QED
    BY <2>2, <2>3, <2>4 DEF EventInv
<1> QED
  BY <1>5, <1>6, EventStep

\* The invariant of the theorems on outcomes and logs.
LEMMA EventInvariant == Spec => [](TypeOK /\ CheckoutInv /\ VisitInv /\ EventInv)
<1>1. Init => EventInv
  BY ConstantTypes DEF Init, EventInv, OneOutcomeAnnounced, Outcomes
<1>2. TypeOK /\ CheckoutInv /\ VisitInv /\ EventInv /\ [Next]_vars => EventInv'
  BY EventInvStep
<1> QED
  BY <1>1, <1>2, VisitInvariant, PTL DEF Spec

\* The merchant is announced at most one outcome per order (provider_callback.py:170).
THEOREM AnnouncedOnce == Spec => []OneOutcomeAnnounced
<1>1. EventInv => OneOutcomeAnnounced
  BY DEF EventInv
<1> QED
  BY <1>1, EventInvariant, PTL

-----------------------------------------------------------------------------
(***************************************************************************)
(* The logs                                                                *)
(***************************************************************************)

\* LogsTellTheTruth, and what a call about to reach a provider has logged.
LogInv ==
    /\ \A r \in Request : pc[r] \in {"sending", "calling"} => cand[r] \in sentLog[OrderOf[r]]
    /\ LogsTellTheTruth

\* The audit log grows by what the row says.
AuditStep ==
    \A o \in Order : \A x \in audit'[o] \ audit[o] :
        /\ status[o] # "NONE"
        /\ x = "ACCEPTED" => status[o] \in {"PAYMENT_FINISHED", "PAYMENT_FAILED"}
        /\ x = "CANCELLED" => status[o] = "PAYMENT_CANCELLED"

\* The request log keeps what it has, a session is opened only for a logged request, and a
\* call that goes to a provider has logged it.
SentStep ==
    /\ \A o \in Order : sentLog[o] \subseteq sentLog'[o]
    /\ \A o \in Order : \A p \in Provider :
         session[o][p] = "none" /\ session'[o][p] # "none" => p \in sentLog[o]
    /\ \A r \in Request : pc'[r] \in {"sending", "calling"} => cand'[r] \in sentLog'[OrderOf[r]]

\* Every step keeps or grows the audit log truthfully.
LEMMA AuditGrows ==
  ASSUME TypeOK, CheckoutInv, VisitInv, EventInv, [Next]_vars
  PROVE  AuditStep
<1> USE ConstantTypes DEF logs
<1>1. CASE UNCHANGED audit
  BY <1>1 DEF AuditStep
<1>2. ASSUME NEW r \in Request, CreateStep(r) PROVE AuditStep
  <2>1. CASE LogCreated(r)
    <3>1. status[OrderOf[r]] = "PAYMENT_PENDING"
      BY <2>1 DEF LogCreated, VisitInv, Creating
    <3>2. \A o \in Order : o # OrderOf[r] => audit'[o] = audit[o]
      BY <2>1 DEF LogCreated, TypeOK
    <3>3. audit'[OrderOf[r]] = audit[OrderOf[r]] \union {"CREATED"}
      BY <2>1 DEF LogCreated, TypeOK
    <3> QED
      BY <3>1, <3>2, <3>3 DEF AuditStep
  <2> QED
    BY <1>1, <1>2, <2>1
       DEF CreateStep, Submit, Reject, Insert, InsertConflict, PassOver, LogRequest,
           AssignProvider, CheckoutOpened, CheckoutFailed, HardDecline, CountUsage,
           StoreCheckout, MarkFailed
<1>3. ASSUME NEW v \in Visit, Arrive(v) \/ VisitStep(v) PROVE AuditStep
  <2>1. CASE LogOutcome(v)
    <3>1. event[v] \in Outcomes /\ status[OrderOf[v]] \in Told(event[v])
      BY <2>1 DEF LogOutcome, EventInv
    <3>2. \A o \in Order : o # OrderOf[v] => audit'[o] = audit[o]
      BY <2>1 DEF LogOutcome, TypeOK
    <3>3. audit'[OrderOf[v]] = audit[OrderOf[v]] \union
            {IF event[v] = "payment.cancelled" THEN "CANCELLED" ELSE "ACCEPTED"}
      BY <2>1 DEF LogOutcome, TypeOK
    <3> QED
      BY <3>1, <3>2, <3>3 DEF AuditStep, Outcomes, Told
  <2> QED
    BY <1>1, <1>3, <2>1
       DEF Arrive, VisitStep, Return, Cancel, VerifySession, CaptureOrder, CaptureError
<1>4. ASSUME NEW q \in Process, WebhookStep(q) \/ Abort(q) PROVE AuditStep
  BY <1>1, <1>4 DEF WebhookStep, Dispatch, RecordDelivery, Abort
<1>5. ASSUME NEW o \in Order, Expire(o) PROVE AuditStep
  BY <1>1, <1>5 DEF Expire
<1>6. ASSUME NEW o \in Order, NEW p \in Provider, Pay(o, p) \/ ProviderMoves(o, p) PROVE AuditStep
  BY <1>1, <1>6 DEF Pay, ProviderMoves
<1>7. CASE UNCHANGED vars
  BY <1>1, <1>7 DEF vars
<1> QED
  BY <1>2, <1>3, <1>4, <1>5, <1>6, <1>7 DEF Next

\* A step that opens no session and brings no call to a provider.
LEMMA SentQuiet ==
  ASSUME LogInv, UNCHANGED <<sentLog, cand>>,
         \A o \in Order : \A p \in Provider : session[o][p] = "none" => session'[o][p] = "none",
         \A r \in Request : pc'[r] \in {"sending", "calling"} => pc[r] \in {"sending", "calling"}
  PROVE  SentStep
BY DEF SentStep, LogInv

\* A call whose new point is not at a provider leaves the others where they are.
LEMMA GotoAway ==
  ASSUME TypeOK, NEW q \in Process, NEW l, l \notin {"sending", "calling"}, Goto(q, l)
  PROVE  \A r \in Request : pc'[r] \in {"sending", "calling"} => pc[r] \in {"sending", "calling"} /\ r # q
BY ConstantTypes DEF TypeOK, Goto

\* Every step of a creation call keeps the request log ahead of the provider.
LEMMA CreateSends ==
  ASSUME TypeOK, CheckoutInv, LogInv, NEW r \in Request, CreateStep(r)
  PROVE  SentStep
<1> USE ConstantTypes DEF logs, loop
<1>1. ASSUME NEW l, l \notin {"sending", "calling"}, Goto(r, l), UNCHANGED sentLog,
             \A x \in Request \ {r} : cand'[x] = cand[x], UNCHANGED session
      PROVE  SentStep
  BY <1>1, GotoAway DEF SentStep, LogInv
<1>2. ASSUME NEW p \in Provider, NEW rest \in SUBSET Provider, Insert(r, p, rest) PROVE SentStep
  BY <1>1, <1>2 DEF Insert, TypeOK
<1>3. CASE LogRequest(r)
  <2>1. \A x \in Request : x # r => pc'[x] = pc[x]
    BY <1>3 DEF LogRequest, Goto, TypeOK
  <2>2. \A o \in Order : sentLog[o] \subseteq sentLog'[o]
    BY <1>3 DEF LogRequest, TypeOK
  <2>3. cand[r] \in sentLog'[OrderOf[r]]
    BY <1>3 DEF LogRequest, TypeOK
  <2> QED
    BY <1>3, <2>1, <2>2, <2>3 DEF LogRequest, SentStep, LogInv
<1>4. CASE AssignProvider(r)
  <2>1. \A x \in Request : pc'[x] \in {"sending", "calling"} => pc[x] \in {"sending", "calling"}
    BY <1>4 DEF AssignProvider, Goto, TypeOK
  <2> QED
    BY <1>4, <2>1, SentQuiet DEF AssignProvider
<1>5. ASSUME pc[r] = "calling", NEW l, l \notin {"sending", "calling"}, Goto(r, l), UNCHANGED sentLog,
             \A x \in Request \ {r} : cand'[x] = cand[x], OpenSession(r)
      PROVE  SentStep
  <2>1. ASSUME NEW o \in Order, NEW p \in Provider, session[o][p] = "none", session'[o][p] # "none"
        PROVE  p \in sentLog[o]
    <3>1. o = OrderOf[r] /\ p = cand[r]
      BY <1>5, <2>1 DEF OpenSession, TypeOK
    <3> QED
      BY <1>5, <3>1 DEF LogInv
  <2> QED
    BY <1>5, <2>1, GotoAway DEF SentStep, LogInv
<1>6. ASSUME NextCandidate(r)
      PROVE  /\ \E l : l \notin {"sending", "calling"} /\ Goto(r, l)
             /\ \A x \in Request \ {r} : cand'[x] = cand[x]
  BY <1>6 DEF NextCandidate, TypeOK
<1>7. CASE CheckoutFailed(r)
  BY <1>1, <1>5, <1>6, <1>7 DEF CheckoutFailed
<1>8. CASE CheckoutOpened(r)
  BY <1>5, <1>8 DEF CheckoutOpened
<1>9. CASE PassOver(r)
  BY <1>1, <1>6, <1>9 DEF PassOver
<1>10. CASE \/ Submit(r) \/ Reject(r) \/ InsertConflict(r) \/ LogCreated(r)
            \/ HardDecline(r) \/ CountUsage(r) \/ StoreCheckout(r) \/ MarkFailed(r)
  BY <1>1, <1>10
     DEF Submit, Replay, Reject, InsertConflict, LogCreated, HardDecline, CountUsage,
         StoreCheckout, MarkFailed
<1> QED
  BY <1>2, <1>3, <1>4, <1>7, <1>8, <1>9, <1>10 DEF CreateStep

\* Every step keeps the request log ahead of the provider.
LEMMA SentFirst ==
  ASSUME TypeOK, CheckoutInv, LogInv, [Next]_vars
  PROVE  SentStep
<1> USE ConstantTypes DEF logs, loop
<1>1. CASE UNCHANGED <<sentLog, cand, session, pc>>
  BY <1>1 DEF SentStep, LogInv
<1>2. ASSUME NEW r \in Request, CreateStep(r) PROVE SentStep
  BY <1>2, CreateSends
<1>3. ASSUME NEW o \in Order, NEW p, NEW s, session[o][p] # "none", NEW q \in Process,
             session' = [session EXCEPT ![o][p] = s]
      PROVE  \A x \in Order : \A y \in Provider : session[x][y] = "none" => session'[x][y] = "none"
  BY <1>3 DEF TypeOK
<1>4. ASSUME NEW v \in Visit, Arrive(v) \/ VisitStep(v) PROVE SentStep
  <2>1. UNCHANGED <<sentLog, cand>>
    BY <1>4 DEF Arrive, VisitStep, Return, Cancel, VerifySession, CaptureOrder, CaptureError, LogOutcome
  <2>2. \E l : l \notin {"sending", "calling"} /\ Goto(v, l)
    BY <1>4 DEF Arrive, VisitStep, Return, Cancel, VerifySession, CaptureOrder, CaptureError,
                LogOutcome, Finalize
  <2>3. \/ UNCHANGED session
        \/ /\ session[OrderOf[v]][via[v]] = "complete"
           /\ session' = [session EXCEPT ![OrderOf[v]][via[v]] = "paid"]
    BY <1>4 DEF Arrive, VisitStep, Return, Cancel, VerifySession, CaptureOrder, CaptureError, LogOutcome
  <2> QED
    BY <1>3, <2>1, <2>2, <2>3, GotoAway, SentQuiet
<1>5. ASSUME NEW q \in Process, WebhookStep(q) \/ Abort(q) PROVE SentStep
  <2>1. UNCHANGED <<sentLog, cand, session>>
    BY <1>5 DEF WebhookStep, Dispatch, RecordDelivery, Abort
  <2>2. \E l : l \notin {"sending", "calling"} /\ Goto(q, l)
    BY <1>5 DEF WebhookStep, Dispatch, RecordDelivery, Finish, Abort
  <2> QED
    BY <2>1, <2>2, GotoAway, SentQuiet
<1>6. ASSUME NEW o \in Order, Expire(o) PROVE SentStep
  BY <1>1, <1>6 DEF Expire
<1>7. ASSUME NEW o \in Order, NEW p \in Provider, Pay(o, p) \/ ProviderMoves(o, p) PROVE SentStep
  <2>1. UNCHANGED <<sentLog, cand, pc>>
    BY <1>7 DEF Pay, ProviderMoves
  <2>2. session[o][p] # "none" /\ \E s : session' = [session EXCEPT ![o][p] = s]
    BY <1>7 DEF Pay, ProviderMoves
  <2>3. \A x \in Order : \A y \in Provider : session[x][y] = "none" => session'[x][y] = "none"
    BY <2>2 DEF TypeOK
  <2> QED
    BY <2>1, <2>3, SentQuiet
<1>8. CASE UNCHANGED vars
  BY <1>1, <1>8 DEF vars
<1> QED
  BY <1>2, <1>4, <1>5, <1>6, <1>7, <1>8 DEF Next

\* A row is never deleted.
LEMMA RowStays ==
  ASSUME TypeOK, [Next]_vars, NEW o \in Order, status[o] # "NONE"
  PROVE  status'[o] # "NONE"
<1> USE DEF row
<1>1. CASE UNCHANGED status
  BY <1>1
<1>2. ASSUME NEW v \in Visit, NEW s \in TerminalStates, Finalize(v, s) PROVE status'[o] # "NONE"
  BY <1>2, ConstantTypes DEF Finalize, TypeOK, TerminalStates
<1>3. ASSUME NEW x \in Order, NEW s, s # "NONE", status' = [status EXCEPT ![x] = s]
      PROVE  status'[o] # "NONE"
  BY <1>3 DEF TypeOK
<1>4. ASSUME NEW r \in Request, CreateStep(r) PROVE status'[o] # "NONE"
  <2>1. CASE MarkFailed(r)
    BY <2>1, ConstantTypes DEF MarkFailed, TypeOK
  <2>2. CASE \E p \in Provider, rest \in SUBSET Provider : Insert(r, p, rest)
    BY <1>3, <2>2, ConstantTypes DEF Insert
  <2> QED
    BY <1>1, <1>4, <2>1, <2>2
       DEF CreateStep, Submit, Reject, InsertConflict, LogCreated, PassOver, LogRequest,
           AssignProvider, CheckoutOpened, CheckoutFailed, HardDecline, CountUsage, StoreCheckout
<1>5. ASSUME NEW v \in Visit, Arrive(v) \/ VisitStep(v) PROVE status'[o] # "NONE"
  BY <1>1, <1>2, <1>5
     DEF Arrive, VisitStep, Return, Cancel, VerifySession, CaptureOrder, CaptureError, LogOutcome,
         TerminalStates
<1>6. ASSUME NEW q \in Process, WebhookStep(q) \/ Abort(q) PROVE status'[o] # "NONE"
  BY <1>1, <1>6 DEF WebhookStep, Dispatch, RecordDelivery, Abort
<1>7. ASSUME NEW x \in Order, Expire(x) PROVE status'[o] # "NONE"
  BY <1>3, <1>7 DEF Expire
<1>8. ASSUME NEW x \in Order, NEW p \in Provider, Pay(x, p) \/ ProviderMoves(x, p)
      PROVE  status'[o] # "NONE"
  BY <1>1, <1>8 DEF Pay, ProviderMoves
<1> QED
  BY <1>1, <1>4, <1>5, <1>6, <1>7, <1>8 DEF Next, vars

\* Every provider session was logged before it was requested, and the log tells of no
\* outcome the row does not have (payment_creation.py:284, provider_callback.py:199).
THEOREM LogsTrue == Spec => []LogsTellTheTruth
<1>1. Init => LogInv
  BY ConstantTypes DEF Init, LogInv, LogsTellTheTruth
<1>2. ASSUME TypeOK, CheckoutInv, VisitInv, EventInv, LogInv, [Next]_vars PROVE LogInv'
  <2>1. AuditStep /\ SentStep /\ Settles
    BY <1>2, AuditGrows, SentFirst, StepSettles
  <2>2. ASSUME NEW o \in Order, NEW p \in Provider, session'[o][p] # "none" PROVE p \in sentLog'[o]
    BY <1>2, <2>1, <2>2 DEF SentStep, LogInv, LogsTellTheTruth
  <2>3. ASSUME NEW o \in Order, audit'[o] # {} PROVE status'[o] # "NONE"
    <3>1. status[o] # "NONE"
      BY <1>2, <2>1, <2>3 DEF AuditStep, LogInv, LogsTellTheTruth
    <3> QED
      BY <1>2, <3>1, RowStays
  <2>4. ASSUME NEW o \in Order, "ACCEPTED" \in audit'[o]
        PROVE  status'[o] \in {"PAYMENT_FINISHED", "PAYMENT_FAILED"}
    <3>1. status[o] \in {"PAYMENT_FINISHED", "PAYMENT_FAILED"}
      BY <1>2, <2>1, <2>4 DEF AuditStep, LogInv, LogsTellTheTruth
    <3> QED
      BY <2>1, <3>1 DEF Settles, TerminalStates
  <2>5. ASSUME NEW o \in Order, "CANCELLED" \in audit'[o] PROVE status'[o] = "PAYMENT_CANCELLED"
    <3>1. status[o] = "PAYMENT_CANCELLED"
      BY <1>2, <2>1, <2>5 DEF AuditStep, LogInv, LogsTellTheTruth
    <3> QED
      BY <2>1, <3>1 DEF Settles, TerminalStates
  <2> QED
    BY <2>1, <2>2, <2>3, <2>4, <2>5 DEF LogInv, SentStep, LogsTellTheTruth
<1>3. LogInv => LogsTellTheTruth
  BY DEF LogInv
<1> QED
  BY <1>1, <1>2, <1>3, EventInvariant, PTL DEF Spec

-----------------------------------------------------------------------------
(***************************************************************************)
(* The winner of the failover loop                                         *)
(***************************************************************************)

\* Statuses of an attempt after which the loop goes on.
Lost == {"none", "skipped", "failed", "timeout"}

\* p is the one candidate of o that succeeded.
Wins(o, p) == attempt[o][p] = "succeeded" /\ \A q \in Provider \ {p} : attempt[o][q] \in Lost

\* What the row of an order says of its attempts.
OrderInv(o) ==
    /\ status[o] = "NONE" => \A p \in Provider : attempt[o][p] = "none"
    /\ checkout[o] # NoProvider => providerId[o] = checkout[o] /\ Wins(o, checkout[o])

\* What the control point of a call says of them.
CallInv(r) ==
    /\ pc[r] \in {"inserted", "candidate", "sending", "calling"} =>
         \A p \in Provider : attempt[OrderOf[r]][p] \in Lost
    /\ pc[r] \in {"succeeded", "counted"} => Wins(OrderOf[r], cand[r])

AttemptInv == (\A o \in Order : OrderInv(o)) /\ (\A r \in Request : CallInv(r))

\* A step that writes no attempt and brings no call into the loop.
AttemptQuiet ==
    /\ UNCHANGED <<attempt, checkout, providerId, cand>>
    /\ \A r \in Request : pc'[r] = pc[r] \/ pc'[r] \notin Creating \ {"failing"}
    /\ \A o \in Order : status'[o] = "NONE" => status[o] = "NONE"

\* A step of call r on its order, on which no other call is creating.
AttemptAlone(r) ==
    /\ \A o \in Order \ {OrderOf[r]} :
         /\ attempt'[o] = attempt[o] /\ checkout'[o] = checkout[o] /\ providerId'[o] = providerId[o]
         /\ status'[o] = "NONE" => status[o] = "NONE"
    /\ \A x \in Request \ {r} : /\ pc'[x] = pc[x] /\ cand'[x] = cand[x]
                                /\ OrderOf[x] = OrderOf[r] => pc[x] \notin Creating

\* A quiet step keeps the attempts' invariant.
LEMMA QuietKeepsAttempts ==
  ASSUME AttemptInv, AttemptQuiet
  PROVE  AttemptInv'
<1>1. \A o \in Order : OrderInv(o)'
  BY DEF AttemptInv, AttemptQuiet, OrderInv, Wins
<1>2. \A r \in Request : CallInv(r)'
  BY DEF AttemptInv, AttemptQuiet, CallInv, Wins, Creating
<1> QED
  BY <1>1, <1>2 DEF AttemptInv

\* A step of one call keeps it if it does for the call and its order.
LEMMA AloneKeepsAttempts ==
  ASSUME AttemptInv, NEW r \in Request, AttemptAlone(r), OrderInv(OrderOf[r])', CallInv(r)'
  PROVE  AttemptInv'
<1> USE ConstantTypes
<1>1. ASSUME NEW o \in Order \ {OrderOf[r]} PROVE OrderInv(o)'
  BY <1>1 DEF AttemptInv, AttemptAlone, OrderInv, Wins
<1>2. ASSUME NEW x \in Request \ {r} PROVE CallInv(x)'
  <2>1. CASE OrderOf[x] = OrderOf[r]
    BY <1>2, <2>1 DEF AttemptAlone, CallInv, Creating
  <2>2. CASE OrderOf[x] # OrderOf[r]
    BY <1>2, <2>2 DEF AttemptInv, AttemptAlone, CallInv, Wins
  <2> QED
    BY <2>1, <2>2
<1> QED
  BY <1>1, <1>2 DEF AttemptInv

\* Whoever creates is alone on its order.
LEMMA CreatingIsAlone ==
  ASSUME CheckoutInv, NEW r \in Request, NEW x \in Request \ {r}, OrderOf[x] = OrderOf[r],
         pc[r] \in Creating \/ status[OrderOf[r]] = "NONE"
  PROVE  pc[x] \notin Creating
BY ConstantTypes, ProcessAssumption DEF CheckoutInv

\* An attempt row of the current candidate touches no other attempt.
LEMMA AttemptedFrame ==
  ASSUME TypeOK, NEW r \in Request, cand[r] \in Provider, NEW s, Attempted(r, s)
  PROVE  /\ \A o \in Order \ {OrderOf[r]} : attempt'[o] = attempt[o]
         /\ attempt'[OrderOf[r]][cand[r]] = s
         /\ \A p \in Provider \ {cand[r]} : attempt'[OrderOf[r]][p] = attempt[OrderOf[r]][p]
BY ConstantTypes DEF TypeOK, Attempted

\* Going on moves r only.
LEMMA GotoFrameAlone ==
  ASSUME TypeOK, NEW r \in Request, NEW l, Goto(r, l)
  PROVE  pc'[r] = l /\ \A x \in Request \ {r} : pc'[x] = pc[x]
BY ConstantTypes DEF TypeOK, Goto

\* The next candidate is r's, and r is at "candidate" or "failing".
LEMMA NextFrame ==
  ASSUME TypeOK, NEW r \in Request, NextCandidate(r)
  PROVE  /\ pc'[r] \in {"candidate", "failing"}
         /\ \A x \in Request \ {r} : pc'[x] = pc[x] /\ cand'[x] = cand[x]
BY ConstantTypes DEF TypeOK, NextCandidate, Goto, loop

\* Every step of a creation call keeps the attempts' invariant.
LEMMA CreateKeepsAttempts ==
  ASSUME TypeOK, CheckoutInv, VisitInv, AttemptInv, NEW r \in Request, CreateStep(r)
  PROVE  AttemptInv'
<1> DEFINE o == OrderOf[r]
<1> USE ConstantTypes, ProviderAssumption DEF row, loop
<1>1. ASSUME pc[r] \in Creating
      PROVE  /\ checkout[o] = NoProvider /\ cand[r] \in Provider /\ status[o] = "PAYMENT_PENDING"
             /\ \A x \in Request \ {r} : OrderOf[x] = o => pc[x] \notin Creating
  BY <1>1, CreatingIsAlone DEF CheckoutInv, VisitInv
<1>2. ASSUME NEW p \in Provider, NEW rest \in SUBSET Provider, Insert(r, p, rest) PROVE AttemptInv'
  <2>1. \A q \in Provider : attempt[o][q] = "none"
    BY <1>2 DEF Insert, AttemptInv, OrderInv
  <2>2. checkout[o] = NoProvider
    BY <1>2 DEF Insert, CheckoutInv
  <2>3. AttemptAlone(r)
    <3>1. \A x \in Request \ {r} : pc'[x] = pc[x] /\ cand'[x] = cand[x]
      BY <1>2, GotoFrameAlone DEF Insert, TypeOK
    <3>2. \A x \in Order \ {o} : status'[x] = status[x] /\ providerId'[x] = providerId[x]
      BY <1>2 DEF Insert, TypeOK
    <3>3. \A x \in Request \ {r} : OrderOf[x] = o => pc[x] \notin Creating
      BY <1>2, CreatingIsAlone DEF Insert
    <3> QED
      BY <1>2, <3>1, <3>2, <3>3 DEF Insert, AttemptAlone
  <2>4. status'[o] = "PAYMENT_PENDING" /\ pc'[r] = "inserted"
    BY <1>2, GotoFrameAlone DEF Insert, TypeOK
  <2>5. OrderInv(o)'
    BY <1>2, <2>2, <2>4 DEF Insert, OrderInv
  <2>6. CallInv(r)'
    BY <1>2, <2>1, <2>4 DEF Insert, CallInv, Lost
  <2> QED
    BY <2>3, <2>5, <2>6, AloneKeepsAttempts
<1>3. ASSUME pc[r] \in {"candidate", "calling"}, NEW s \in Lost \union {"hard_declined", "succeeded"}, Attempted(r, s),
             UNCHANGED <<checkout, providerId, status>>,
             \A x \in Request \ {r} : pc'[x] = pc[x] /\ cand'[x] = cand[x],
             \/ s \in Lost /\ pc'[r] \in {"candidate", "failing"}
             \/ s = "succeeded" /\ pc'[r] = "succeeded" /\ cand'[r] = cand[r]
             \/ s = "hard_declined" /\ pc'[r] = "failing"
      PROVE  AttemptInv'
  <2>1. pc[r] \in Creating
    BY <1>3 DEF Creating
  <2>2. \A p \in Provider : attempt[o][p] \in Lost
    BY <1>3 DEF AttemptInv, CallInv
  <2>3. /\ \A x \in Order \ {o} : attempt'[x] = attempt[x]
        /\ attempt'[o][cand[r]] = s
        /\ \A p \in Provider \ {cand[r]} : attempt'[o][p] = attempt[o][p]
    BY <1>1, <1>3, <2>1, AttemptedFrame
  <2>4. AttemptAlone(r)
    BY <1>1, <1>3, <2>1, <2>3 DEF AttemptAlone
  <2>5. OrderInv(o)'
    BY <1>1, <1>3, <2>1 DEF OrderInv
  <2>6. CallInv(r)'
    BY <1>1, <1>3, <2>1, <2>2, <2>3 DEF CallInv, Wins
  <2> QED
    BY <2>4, <2>5, <2>6, AloneKeepsAttempts
<1>4. CASE PassOver(r)
  BY <1>3, <1>4, NextFrame DEF PassOver, Lost
<1>5. CASE CheckoutOpened(r)
  BY <1>3, <1>5, GotoFrameAlone DEF CheckoutOpened
<1>6. CASE CheckoutFailed(r)
  BY <1>3, <1>6, NextFrame DEF CheckoutFailed, Lost
<1>7. CASE HardDecline(r)
  BY <1>3, <1>7, GotoFrameAlone DEF HardDecline
<1>8. CASE AssignProvider(r)
  <2>1. pc[r] = "sending" /\ pc'[r] = "calling" /\ pc[r] \in Creating
    BY <1>8, GotoFrameAlone DEF AssignProvider, Creating
  <2>2. AttemptAlone(r)
    BY <1>1, <1>8, <2>1, GotoFrameAlone DEF AssignProvider, AttemptAlone, TypeOK
  <2>3. OrderInv(o)'
    BY <1>1, <1>8, <2>1 DEF AssignProvider, OrderInv
  <2>4. CallInv(r)'
    BY <1>8, <2>1 DEF AssignProvider, AttemptInv, CallInv
  <2> QED
    BY <2>2, <2>3, <2>4, AloneKeepsAttempts
<1>9. CASE StoreCheckout(r)
  <2>1. pc[r] = "counted" /\ pc'[r] = "dispatch" /\ pc[r] \in Creating
    BY <1>9, GotoFrameAlone DEF StoreCheckout, Creating
  <2>2. AttemptAlone(r)
    BY <1>1, <1>9, <2>1, GotoFrameAlone DEF StoreCheckout, AttemptAlone, TypeOK
  <2>3. Wins(o, cand[r])
    BY <2>1 DEF AttemptInv, CallInv
  <2>4. checkout'[o] = cand[r] /\ providerId'[o] = cand[r]
    BY <1>9 DEF StoreCheckout, TypeOK
  <2>5. OrderInv(o)'
    BY <1>1, <1>9, <2>1, <2>3, <2>4 DEF StoreCheckout, OrderInv, Wins
  <2>6. CallInv(r)'
    BY <2>1 DEF CallInv
  <2> QED
    BY <2>2, <2>5, <2>6, AloneKeepsAttempts
<1>10. CASE LogCreated(r) \/ LogRequest(r) \/ CountUsage(r)
  <2>1. /\ UNCHANGED <<attempt, checkout, providerId, status, cand>>
        /\ \A x \in Request \ {r} : pc'[x] = pc[x]
        /\ \/ pc[r] \in {"inserted", "candidate"} /\ pc'[r] \in {"candidate", "sending"}
           \/ pc[r] = "succeeded" /\ pc'[r] = "counted"
    BY <1>10, GotoFrameAlone DEF LogCreated, LogRequest, CountUsage
  <2>2. AttemptAlone(r)
    BY <1>1, <2>1 DEF AttemptAlone, Creating
  <2>3. OrderInv(o)' /\ CallInv(r)'
    BY <2>1 DEF AttemptInv, OrderInv, CallInv, Wins
  <2> QED
    BY <2>2, <2>3, AloneKeepsAttempts
<1>11. CASE Submit(r) \/ Reject(r) \/ InsertConflict(r) \/ MarkFailed(r)
  <2>1. /\ UNCHANGED <<attempt, checkout, providerId, cand>>
        /\ \E l : l \notin Creating /\ Goto(r, l)
    BY <1>11 DEF Submit, Replay, Reject, InsertConflict, MarkFailed, Creating
  <2>2. \A x \in Order : status'[x] = "NONE" => status[x] = "NONE"
    BY <1>1, <1>11 DEF Submit, Reject, InsertConflict, MarkFailed, TypeOK
  <2> QED
    BY <2>1, <2>2, GotoFrameAlone, QuietKeepsAttempts DEF AttemptQuiet
<1> QED
  BY <1>2, <1>4, <1>5, <1>6, <1>7, <1>8, <1>9, <1>10, <1>11 DEF CreateStep

\* AttemptInv is inductive, with what is known of rows and visits.
LEMMA AttemptStep ==
  ASSUME TypeOK, CheckoutInv, VisitInv, AttemptInv, [Next]_vars
  PROVE  AttemptInv'
<1> USE ConstantTypes DEF row, loop
<1>1. \A o \in Order : status'[o] = "NONE" => status[o] = "NONE"
  BY RowStays
<1>2. ASSUME NEW r \in Request, CreateStep(r) PROVE AttemptInv'
  BY <1>2, CreateKeepsAttempts
<1>3. ASSUME UNCHANGED <<attempt, checkout, providerId, cand>>, NEW q \in Process, NEW l,
             l \notin Creating, Goto(q, l)
      PROVE  AttemptInv'
  <2>1. \A r \in Request : pc'[r] = pc[r] \/ pc'[r] \notin Creating
    BY <1>3 DEF Goto, TypeOK
  <2> QED
    BY <1>1, <1>3, <2>1, QuietKeepsAttempts DEF AttemptQuiet
<1>4. ASSUME UNCHANGED <<attempt, checkout, providerId, cand, pc>> PROVE AttemptInv'
  BY <1>1, <1>4, QuietKeepsAttempts DEF AttemptQuiet
<1>5. ASSUME NEW v \in Visit, Arrive(v) \/ VisitStep(v) PROVE AttemptInv'
  <2>1. UNCHANGED <<attempt, checkout, providerId, cand>>
    BY <1>5 DEF Arrive, VisitStep, Return, Cancel, VerifySession, CaptureOrder, CaptureError, LogOutcome
  <2>2. \E l : l \notin Creating /\ Goto(v, l)
    BY <1>5 DEF Arrive, VisitStep, Return, Cancel, VerifySession, CaptureOrder, CaptureError,
                LogOutcome, Finalize, Creating
  <2> QED
    BY <1>3, <2>1, <2>2
<1>6. ASSUME NEW q \in Process, WebhookStep(q) \/ Abort(q) PROVE AttemptInv'
  <2>1. UNCHANGED <<attempt, checkout, providerId, cand>>
    BY <1>6 DEF WebhookStep, Dispatch, RecordDelivery, Abort
  <2>2. \E l : l \notin Creating /\ Goto(q, l)
    BY <1>6 DEF WebhookStep, Dispatch, RecordDelivery, Finish, Abort, Creating
  <2> QED
    BY <1>3, <2>1, <2>2
<1>7. ASSUME NEW o \in Order, Expire(o) PROVE AttemptInv'
  BY <1>4, <1>7 DEF Expire
<1>8. ASSUME NEW o \in Order, NEW p \in Provider, Pay(o, p) \/ ProviderMoves(o, p) PROVE AttemptInv'
  BY <1>4, <1>8 DEF Pay, ProviderMoves
<1>9. CASE UNCHANGED vars
  BY <1>4, <1>9 DEF vars
<1> QED
  BY <1>2, <1>5, <1>6, <1>7, <1>8, <1>9 DEF Next

-----------------------------------------------------------------------------
(***************************************************************************)
(* Usage                                                                   *)
(***************************************************************************)

\* Orders whose checkout was counted, those to be counted next, those that were won.
Counted == {o \in Order : \/ checkout[o] # NoProvider
                          \/ \E r \in Request : OrderOf[r] = o /\ pc[r] = "counted"}
Due == {o \in Order : \E r \in Request : OrderOf[r] = o /\ pc[r] = "succeeded"}
Won == {o \in Order : \E p \in Provider : attempt[o][p] = "succeeded"}

UsageInv ==
    /\ Cardinality(Counted) =< usage
    /\ usage + Cardinality(Due) =< Cardinality(Won)

\* A step that counts nothing and wins nothing.
UsageQuiet ==
    /\ usage' = usage
    /\ \A o \in Order : checkout'[o] # NoProvider => o \in Counted
    /\ \A r \in Request : \A l \in {"counted", "succeeded"} : pc'[r] = l => pc[r] = l
    /\ \A o \in Order : \A p \in Provider : attempt[o][p] = "succeeded" => attempt'[o][p] = "succeeded"

\* The sets of orders are finite.
LEMMA OrdersFinite ==
  /\ IsFiniteSet(Counted) /\ IsFiniteSet(Due) /\ IsFiniteSet(Won)
  /\ IsFiniteSet(Counted)' /\ IsFiniteSet(Due)' /\ IsFiniteSet(Won)'
  /\ {Cardinality(Counted), Cardinality(Due), Cardinality(Won)} \subseteq Nat
  /\ {Cardinality(Counted)', Cardinality(Due)', Cardinality(Won)'} \subseteq Nat
<1>1. /\ {Counted, Due, Won} \subseteq SUBSET Order
      /\ {Counted', Due', Won'} \subseteq SUBSET Order
  BY DEF Counted, Due, Won
<1>2. \A S \in SUBSET Order : IsFiniteSet(S) /\ Cardinality(S) \in Nat
  BY OrderAssumption, FS_Subset, FS_CardinalityType
<1> QED
  BY <1>1, <1>2

\* One more element, or one less.
LEMMA OneMore ==
  ASSUME NEW S, IsFiniteSet(S), NEW x
  PROVE  /\ IsFiniteSet(S \union {x}) /\ Cardinality(S \union {x}) \in Nat
         /\ Cardinality(S \union {x}) =< Cardinality(S) + 1
         /\ x \notin S => Cardinality(S \union {x}) = Cardinality(S) + 1
         /\ IsFiniteSet(S \ {x}) /\ Cardinality(S \ {x}) \in Nat
         /\ x \in S => Cardinality(S \ {x}) = Cardinality(S) - 1
<1>1. IsFiniteSet(S \union {x}) /\ IsFiniteSet(S \ {x}) /\ Cardinality(S) \in Nat
  BY FS_AddElement, FS_RemoveElement, FS_CardinalityType
<1>2. Cardinality(S \union {x}) \in Nat /\ Cardinality(S \ {x}) \in Nat
  BY <1>1, FS_CardinalityType
<1>3. Cardinality(S \union {x}) = IF x \in S THEN Cardinality(S) ELSE Cardinality(S) + 1
  BY FS_AddElement
<1>4. Cardinality(S \ {x}) = IF x \in S THEN Cardinality(S) - 1 ELSE Cardinality(S)
  BY FS_RemoveElement
<1> QED
  BY <1>1, <1>2, <1>3, <1>4

\* Only CheckoutOpened wins and only CountUsage counts.
LEMMA UsageStep ==
  ASSUME TypeOK, CheckoutInv, AttemptInv, [Next]_vars
  PROVE  UsageQuiet \/ \E r \in Request : CheckoutOpened(r) \/ CountUsage(r)
<1> DEFINE Good == UsageQuiet \/ \E r \in Request : CheckoutOpened(r) \/ CountUsage(r)
<1> USE ConstantTypes DEF row, loop
<1>1. ASSUME UNCHANGED <<usage, checkout, attempt>>, NEW q \in Process, NEW l,
             l \notin {"counted", "succeeded"}, Goto(q, l)
      PROVE  Good
  <2>1. \A r \in Request : \A k \in {"counted", "succeeded"} : pc'[r] = k => pc[r] = k
    BY <1>1 DEF Goto, TypeOK
  <2> QED
    BY <1>1, <2>1 DEF UsageQuiet, Counted
<1>2. ASSUME UNCHANGED <<usage, checkout, attempt, pc>> PROVE Good
  BY <1>2 DEF UsageQuiet, Counted
<1>3. ASSUME NEW r \in Request, CreateStep(r) PROVE Good
  <2>1. ASSUME pc[r] \in {"candidate", "calling"}, NEW s, Attempted(r, s), UNCHANGED <<usage, checkout>>,
               pc'[r] \notin {"counted", "succeeded"}, \A x \in Request \ {r} : pc'[x] = pc[x]
        PROVE  Good
    <3>1. cand[r] \in Provider
      BY <2>1 DEF CheckoutInv, Creating
    <3>2. \A p \in Provider : attempt[OrderOf[r]][p] # "succeeded"
      BY <2>1 DEF AttemptInv, CallInv, Lost
    <3>3. \A o \in Order : \A p \in Provider :
            attempt[o][p] = "succeeded" => attempt'[o][p] = "succeeded"
      BY <2>1, <3>1, <3>2, AttemptedFrame
    <3> QED
      BY <2>1, <3>3 DEF UsageQuiet, Counted
  <2>2. CASE PassOver(r) \/ CheckoutFailed(r)
    BY <2>1, <2>2, NextFrame DEF PassOver, CheckoutFailed
  <2>3. CASE HardDecline(r)
    BY <2>1, <2>3, GotoFrameAlone DEF HardDecline
  <2>4. CASE StoreCheckout(r)
    <3>1. \A o \in Order : checkout'[o] # NoProvider => o \in Counted
      BY <2>4 DEF StoreCheckout, Counted, TypeOK
    <3>2. \A x \in Request : \A k \in {"counted", "succeeded"} : pc'[x] = k => pc[x] = k
      BY <2>4 DEF StoreCheckout, Goto, TypeOK
    <3> QED
      BY <2>4, <3>1, <3>2 DEF StoreCheckout, UsageQuiet
  <2>5. CASE UNCHANGED <<usage, checkout, attempt>> /\ \E l : l \notin {"counted", "succeeded"} /\ Goto(r, l)
    BY <1>1, <2>5
  <2> QED
    BY <1>3, <2>2, <2>3, <2>4, <2>5
       DEF CreateStep, Submit, Replay, Reject, Insert, InsertConflict, LogCreated, LogRequest,
           AssignProvider, MarkFailed
<1>4. ASSUME NEW v \in Visit, Arrive(v) \/ VisitStep(v) PROVE Good
  <2>1. UNCHANGED <<usage, checkout, attempt>>
    BY <1>4 DEF Arrive, VisitStep, Return, Cancel, VerifySession, CaptureOrder, CaptureError, LogOutcome
  <2>2. \E l : l \notin {"counted", "succeeded"} /\ Goto(v, l)
    BY <1>4 DEF Arrive, VisitStep, Return, Cancel, VerifySession, CaptureOrder, CaptureError,
                LogOutcome, Finalize
  <2> QED
    BY <1>1, <2>1, <2>2
<1>5. ASSUME NEW q \in Process, WebhookStep(q) \/ Abort(q) PROVE Good
  <2>1. UNCHANGED <<usage, checkout, attempt>>
    BY <1>5 DEF WebhookStep, Dispatch, RecordDelivery, Abort
  <2>2. \E l : l \notin {"counted", "succeeded"} /\ Goto(q, l)
    BY <1>5 DEF WebhookStep, Dispatch, RecordDelivery, Finish, Abort
  <2> QED
    BY <1>1, <2>1, <2>2
<1>6. ASSUME NEW o \in Order, Expire(o) PROVE Good
  BY <1>2, <1>6 DEF Expire
<1>7. ASSUME NEW o \in Order, NEW p \in Provider, Pay(o, p) \/ ProviderMoves(o, p) PROVE Good
  BY <1>2, <1>7 DEF Pay, ProviderMoves
<1>8. CASE UNCHANGED vars
  BY <1>2, <1>8 DEF vars
<1> QED
  BY <1>3, <1>4, <1>5, <1>6, <1>7, <1>8 DEF Next

\* UsageInv is inductive: a candidate that succeeds wins its order, which then is due
\* until it is counted, once.
LEMMA UsageInvStep ==
  ASSUME TypeOK, CheckoutInv, VisitInv, AttemptInv, UsageInv, [Next]_vars
  PROVE  UsageInv'
<1> USE ConstantTypes DEF row, loop
<1>1. CASE UsageQuiet
  <2>1. Counted' \subseteq Counted /\ Due' \subseteq Due /\ Won \subseteq Won'
    BY <1>1 DEF UsageQuiet, Counted, Due, Won
  <2>2. /\ Cardinality(Counted') =< Cardinality(Counted)
        /\ Cardinality(Due') =< Cardinality(Due)
        /\ Cardinality(Won) =< Cardinality(Won')
    BY <2>1, OrdersFinite, FS_Subset
  <2> QED
    BY <1>1, <2>2, OrdersFinite DEF UsageInv, UsageQuiet, TypeOK
<1>2. ASSUME NEW r \in Request, CheckoutOpened(r) PROVE UsageInv'
  <2> DEFINE o == OrderOf[r]
  <2>1. /\ o \notin Won /\ cand[r] \in Provider
    BY <1>2 DEF CheckoutOpened, CheckoutInv, Creating, AttemptInv, CallInv, Won, Lost
  <2>2. /\ pc' = [pc EXCEPT ![r] = "succeeded"] /\ usage' = usage /\ checkout' = checkout
    BY <1>2 DEF CheckoutOpened, Goto
  <2>3. Counted' \subseteq Counted /\ Due' \subseteq Due \union {o}
    BY <2>2 DEF Counted, Due, TypeOK
  <2>4. Won \union {o} \subseteq Won'
    <3>1. /\ \A x \in Order \ {o} : attempt'[x] = attempt[x]
          /\ attempt'[o][cand[r]] = "succeeded"
      BY <1>2, <2>1, AttemptedFrame DEF CheckoutOpened
    <3> QED
      BY <2>1, <3>1 DEF Won
  <2>5. /\ Cardinality(Counted') =< Cardinality(Counted)
        /\ Cardinality(Due') =< Cardinality(Due \union {o})
        /\ Cardinality(Due \union {o}) =< Cardinality(Due) + 1
        /\ Cardinality(Won \union {o}) = Cardinality(Won) + 1
        /\ Cardinality(Won \union {o}) =< Cardinality(Won')
        /\ Cardinality(Due \union {o}) \in Nat /\ Cardinality(Won \union {o}) \in Nat
    <3>1. /\ IsFiniteSet(Due \union {o}) /\ Cardinality(Due \union {o}) \in Nat
          /\ Cardinality(Due \union {o}) =< Cardinality(Due) + 1
      BY OrdersFinite, OneMore
    <3>2. /\ IsFiniteSet(Won \union {o}) /\ Cardinality(Won \union {o}) \in Nat
          /\ Cardinality(Won \union {o}) = Cardinality(Won) + 1
      BY <2>1, OrdersFinite, OneMore
    <3>3. Cardinality(Counted') =< Cardinality(Counted)
      BY <2>3, OrdersFinite, FS_Subset
    <3>4. Cardinality(Due') =< Cardinality(Due \union {o})
      BY <2>3, <3>1, FS_Subset
    <3>5. Cardinality(Won \union {o}) =< Cardinality(Won')
      BY <2>4, OrdersFinite, FS_Subset
    <3> QED
      BY <3>1, <3>2, <3>3, <3>4, <3>5
  <2> QED
    BY <2>2, <2>5, OrdersFinite DEF UsageInv, TypeOK
<1>3. ASSUME NEW r \in Request, CountUsage(r) PROVE UsageInv'
  <2> DEFINE o == OrderOf[r]
  <2>1. /\ pc[r] = "succeeded" /\ usage' = usage + 1
        /\ pc' = [pc EXCEPT ![r] = "counted"] /\ UNCHANGED <<checkout, attempt>>
    BY <1>3 DEF CountUsage, Goto
  <2>2. \A x \in Request \ {r} : OrderOf[x] = o => pc[x] # "succeeded"
    BY <2>1, CreatingIsAlone DEF Creating
  <2>3. /\ Counted' \subseteq Counted \union {o}
        /\ Due' \subseteq Due \ {o} /\ o \in Due /\ Won' = Won
    <3>1. Counted' \subseteq Counted \union {o}
      BY <2>1 DEF Counted, TypeOK
    <3>2. Due' \subseteq Due \ {o}
      BY <2>1, <2>2 DEF Due, TypeOK
    <3> QED
      BY <2>1, <3>1, <3>2 DEF Due, Won
  <2>4. /\ IsFiniteSet(Counted \union {o}) /\ Cardinality(Counted \union {o}) \in Nat
        /\ Cardinality(Counted \union {o}) =< Cardinality(Counted) + 1
    BY OrdersFinite, OneMore
  <2>5. /\ IsFiniteSet(Due \ {o}) /\ Cardinality(Due \ {o}) \in Nat
        /\ Cardinality(Due \ {o}) = Cardinality(Due) - 1
    BY <2>3, OrdersFinite, OneMore
  <2>6. Cardinality(Counted') =< Cardinality(Counted \union {o})
    BY <2>3, <2>4, FS_Subset
  <2>7. Cardinality(Due') =< Cardinality(Due \ {o})
    BY <2>3, <2>5, FS_Subset
  <2> QED
    BY <2>1, <2>3, <2>4, <2>5, <2>6, <2>7, OrdersFinite DEF UsageInv, TypeOK
<1> QED
  BY <1>1, <1>2, <1>3, UsageStep

\* A stored checkout is the one candidate that succeeded, and usage was counted for it and
\* only for such ones (payment_creation.py:404 and 437).
THEOREM WinnerStored == Spec => []CheckoutIsTheWinner
<1>1. Init => AttemptInv /\ UsageInv
  <2>1. Init => AttemptInv
    BY ConstantTypes DEF Init, AttemptInv, OrderInv, CallInv, Lost
  <2>2. Init => Counted = {} /\ Due = {}
    BY ConstantTypes DEF Init, Counted, Due
  <2>3. Init => UsageInv
    BY <2>2, OrdersFinite, FS_EmptySet DEF Init, UsageInv
  <2> QED
    BY <2>1, <2>3
<1>2. TypeOK /\ CheckoutInv /\ VisitInv /\ AttemptInv /\ UsageInv /\ [Next]_vars
        => AttemptInv' /\ UsageInv'
  BY AttemptStep, UsageInvStep
<1>3. TypeOK /\ AttemptInv /\ UsageInv => CheckoutIsTheWinner
  <2> SUFFICES ASSUME TypeOK, AttemptInv, UsageInv PROVE CheckoutIsTheWinner
    OBVIOUS
  <2> DEFINE Stored == {o \in Order : checkout[o] # NoProvider}
  <2>1. Cardinality(Stored) =< Cardinality(Counted) /\ Cardinality(Stored) \in Nat
    <3>1. Stored \in SUBSET Counted
      BY DEF Counted
    <3> QED
      BY <3>1, OrdersFinite, FS_Subset, FS_CardinalityType
  <2>2. Cardinality(Stored) =< usage /\ usage =< Cardinality(Won)
    BY <2>1, OrdersFinite DEF UsageInv, TypeOK
  <2>3. \A o \in Order : checkout[o] # NoProvider =>
          /\ providerId[o] = checkout[o]
          /\ attempt[o][checkout[o]] = "succeeded"
          /\ \A p \in Provider \ {checkout[o]} :
               attempt[o][p] \in {"none", "skipped", "failed", "timeout"}
    BY DEF AttemptInv, OrderInv, Wins, Lost
  <2> QED
    BY <2>2, <2>3 DEF CheckoutIsTheWinner, Won
<1> QED
  BY <1>1, <1>2, <1>3, VisitInvariant, PTL DEF Spec
=============================================================================
