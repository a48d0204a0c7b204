-------------------------- MODULE PaymentLifecycle --------------------------
(***************************************************************************)
(* The life of a payment in the FastAPI service (payments/app/services):   *)
(* PaymentCreationService.create with its provider failover loop, the      *)
(* provider-return handlers of ProviderCallbackService, the webhook        *)
(* dispatch both end in, and the admin command that expires stale          *)
(* checkouts.  The providers (Stripe, PayPal), the customer's browser and  *)
(* the merchant's endpoint are the environment.                            *)
(*                                                                         *)
(* One action ends at every database commit and at every await: those are  *)
(* the points at which another coroutine, another process or a crash can   *)
(* intervene.  Routing (the order of the candidates) and provider health   *)
(* are nondeterministic here; RoutingEngine and ProviderHealth model them. *)
(***************************************************************************)
EXTENDS Naturals, FiniteSets

CONSTANTS
    Order,              \* order ids; payments.order_id is UNIQUE
    Request,            \* POST /api/v1/payments calls, retries included
    Visit,              \* GET /provider-return/... calls, reloads included
    OrderOf,            \* the order a call is about
    Provider,           \* provider aliases
    CaptureOnReturn,    \* providers whose return handler captures (PayPal)
    SettlesLater,       \* providers that may complete a session unpaid
    NoRequest, NoProvider

Process == Request \union Visit

ASSUME ProcessAssumption ==
    /\ Request \intersect Visit = {}
    /\ OrderOf \in [Process -> Order]
    /\ NoRequest \notin Request

ASSUME OrderAssumption == IsFiniteSet(Order)

ASSUME ProviderAssumption ==
    /\ CaptureOnReturn \subseteq Provider
    /\ SettlesLater \subseteq Provider \ CaptureOnReturn
    /\ NoProvider \notin Provider

VARIABLES
    status,      \* payments.status, "NONE" when there is no row
    paymentId,   \* payments.id: the call whose INSERT created the row
    providerId,  \* payments.provider_id
    checkout,    \* payments.provider_reference and provider_checkout_url
    attempt,     \* payment_routing_attempts.status, per order and provider
    usage,       \* user_subscriptions.current_period_transactions
    audit,       \* payment_logs event types of an order
    sentLog,     \* EVENT_PROVIDER_REQUEST_SENT rows, by provider
    session,     \* the checkout session at the provider
    pc,          \* where a call stands
    cand, todo,  \* the failover loop: current candidate, those after it
    via,         \* the provider a browser visit comes back from
    event,       \* the webhook event a call has to announce
    delivery,    \* its webhook_deliveries.status
    reply        \* what a creation call answered

row   == <<status, paymentId, providerId, checkout>>
logs  == <<audit, sentLog>>
loop  == <<cand, todo>>
hooks == <<event, delivery>>
vars  == <<row, attempt, usage, logs, session, pc, loop, via, hooks, reply>>

Status == {"PAYMENT_PENDING", "PAYMENT_FINISHED", "PAYMENT_FAILED",
           "PAYMENT_CANCELLED", "PAYMENT_EXPIRED"}

\* The statuses _finalize_provider_return refuses to leave (of those in use).
TerminalStates == {"PAYMENT_FINISHED", "PAYMENT_FAILED", "PAYMENT_CANCELLED"}

\* Control points of a creation call after its row is committed ...
Creating == {"inserted", "candidate", "sending", "calling", "succeeded",
             "counted", "failing"}
\* ... and of any call, while it still runs.
Running == Creating \union {"planning", "verifying", "logging", "dispatch", "posting"}

AttemptStatus == {"none", "skipped", "failed", "timeout", "hard_declined", "succeeded"}
SessionState  == {"none", "open", "complete", "paid", "lapsed"}
Reply == [kind : {"none", "created", "exists", "rejected", "failed", "error"},
          status : Status \union {"NONE"}, url : Provider \union {NoProvider}]
NoReply == [kind |-> "none", status |-> "NONE", url |-> NoProvider]

TypeOK ==
    /\ status \in [Order -> Status \union {"NONE"}]
    /\ paymentId \in [Order -> Request \union {NoRequest}]
    /\ providerId \in [Order -> Provider \union {NoProvider}]
    /\ checkout \in [Order -> Provider \union {NoProvider}]
    /\ attempt \in [Order -> [Provider -> AttemptStatus]]
    /\ usage \in Nat
    /\ audit \in [Order -> SUBSET {"CREATED", "ACCEPTED", "CANCELLED"}]
    /\ sentLog \in [Order -> SUBSET Provider]
    /\ session \in [Order -> [Provider -> SessionState]]
    /\ pc \in [Process -> Running \union {"idle", "done", "dead"}]
    /\ cand \in [Request -> Provider \union {NoProvider}]
    /\ todo \in [Request -> SUBSET Provider]
    /\ via \in [Visit -> Provider \union {NoProvider}]
    /\ event \in [Process -> {"none", "payment.created", "payment.succeeded",
                              "payment.failed", "payment.cancelled"}]
    /\ delivery \in [Process -> {"none", "pending", "delivered", "failed"}]
    /\ reply \in [Request -> Reply]

Init ==
    /\ status = [o \in Order |-> "NONE"]
    /\ paymentId = [o \in Order |-> NoRequest]
    /\ providerId = [o \in Order |-> NoProvider]
    /\ checkout = [o \in Order |-> NoProvider]
    /\ attempt = [o \in Order |-> [p \in Provider |-> "none"]]
    /\ usage = 0
    /\ audit = [o \in Order |-> {}]
    /\ sentLog = [o \in Order |-> {}]
    /\ session = [o \in Order |-> [p \in Provider |-> "none"]]
    /\ pc = [q \in Process |-> "idle"]
    /\ cand = [r \in Request |-> NoProvider]
    /\ todo = [r \in Request |-> {}]
    /\ via = [v \in Visit |-> NoProvider]
    /\ event = [q \in Process |-> "none"]
    /\ delivery = [q \in Process |-> "none"]
    /\ reply = [r \in Request |-> NoReply]

Goto(q, l) == pc' = [pc EXCEPT ![q] = l]

Answer(r, kind, st, url) ==
    reply' = [reply EXCEPT ![r] = [kind |-> kind, status |-> st, url |-> url]]

-----------------------------------------------------------------------------
(***************************************************************************)
(* PaymentCreationService.create, up to the commit of the row              *)
(***************************************************************************)

\* The idempotent answer: what the row of the order says right now.
Replay(r) ==
    /\ Goto(r, "done")
    /\ Answer(r, "exists", status[OrderOf[r]], checkout[OrderOf[r]])

\* The idempotency SELECT; the handler then awaits the routing plan.
Submit(r) ==
    /\ pc[r] = "idle"
    /\ IF status[OrderOf[r]] # "NONE"
         THEN Replay(r)
         ELSE Goto(r, "planning") /\ UNCHANGED reply
    /\ UNCHANGED <<row, attempt, usage, logs, session, loop, via, hooks>>

\* No candidate (503) or no active subscription (400): no row is written.
Reject(r) ==
    /\ pc[r] = "planning"
    /\ Goto(r, "done")
    /\ Answer(r, "rejected", "NONE", NoProvider)
    /\ UNCHANGED <<row, attempt, usage, logs, session, loop, via, hooks>>

\* Fault: no UNIQUE constraint, the second INSERT of an order goes through.
InsertAnyway(r, primary, rest) ==
    LET o == OrderOf[r] IN
    /\ pc[r] = "planning"
    /\ primary \notin rest
    /\ status' = [status EXCEPT ![o] = "PAYMENT_PENDING"]
    /\ paymentId' = [paymentId EXCEPT ![o] = r]
    /\ providerId' = [providerId EXCEPT ![o] = primary]
    /\ cand' = [cand EXCEPT ![r] = primary]
    /\ todo' = [todo EXCEPT ![r] = rest]
    /\ Goto(r, "inserted")
    /\ UNCHANGED <<checkout, attempt, usage, logs, session, via, hooks, reply>>

\* flush and commit of the row; primary is the first of the plan's candidates.
Insert(r, primary, rest) ==
    LET o == OrderOf[r] IN
    /\ pc[r] = "planning"
    /\ primary \notin rest
    /\ status[o] = "NONE"
    /\ status' = [status EXCEPT ![o] = "PAYMENT_PENDING"]
    /\ paymentId' = [paymentId EXCEPT ![o] = r]
    /\ providerId' = [providerId EXCEPT ![o] = primary]
    /\ cand' = [cand EXCEPT ![r] = primary]
    /\ todo' = [todo EXCEPT ![r] = rest]
    /\ Goto(r, "inserted")
    /\ UNCHANGED <<checkout, attempt, usage, logs, session, via, hooks, reply>>

\* IntegrityError on flush: another call inserted the order first.
InsertConflict(r) ==
    /\ pc[r] = "planning"
    /\ status[OrderOf[r]] # "NONE"
    /\ Replay(r)
    /\ UNCHANGED <<row, attempt, usage, logs, session, loop, via, hooks>>

\* The log row lives in the second database and is committed second.
LogCreated(r) ==
    /\ pc[r] = "inserted"
    /\ audit' = [audit EXCEPT ![OrderOf[r]] = @ \union {"CREATED"}]
    /\ Goto(r, "candidate")
    /\ UNCHANGED <<row, attempt, usage, sentLog, session, loop, via, hooks, reply>>

-----------------------------------------------------------------------------
(***************************************************************************)
(* The provider failover loop                                              *)
(***************************************************************************)

Attempted(r, s) ==
    attempt' = [attempt EXCEPT ![OrderOf[r]][cand[r]] = s]

\* continue: the next candidate, or the end of the loop without a checkout.
NextCandidate(r) ==
    \/ /\ todo[r] = {}
       /\ Goto(r, "failing")
       /\ UNCHANGED loop
    \/ \E p \in todo[r] :
         /\ cand' = [cand EXCEPT ![r] = p]
         /\ todo' = [todo EXCEPT ![r] = @ \ {p}]
         /\ Goto(r, "candidate")

\* Quarantined ("skipped"), no credentials ("skipped"), or a simulated
\* failure or timeout of the test mode: the provider is not called.
PassOver(r) ==
    /\ pc[r] = "candidate"
    /\ \E s \in {"skipped", "failed", "timeout"} : Attempted(r, s)
    /\ NextCandidate(r)
    /\ UNCHANGED <<row, usage, logs, session, via, hooks, reply>>

\* The request is logged, in the logs database, before it is made.
LogRequest(r) ==
    /\ pc[r] = "candidate"
    /\ sentLog' = [sentLog EXCEPT ![OrderOf[r]] = @ \union {cand[r]}]
    /\ Goto(r, "sending")
    /\ UNCHANGED <<row, attempt, usage, audit, session, loop, via, hooks, reply>>

AssignProvider(r) ==
    /\ pc[r] = "sending"
    /\ providerId' = [providerId EXCEPT ![OrderOf[r]] = cand[r]]
    /\ Goto(r, "calling")
    /\ UNCHANGED <<status, paymentId, checkout, attempt, usage, logs, session,
                   loop, via, hooks, reply>>

\* create_payment at the provider: the loop calls a candidate once per order.
OpenSession(r) ==
    session' = [session EXCEPT ![OrderOf[r]][cand[r]] =
                                 IF @ = "none" THEN "open" ELSE @]

CheckoutOpened(r) ==
    /\ pc[r] = "calling"
    /\ OpenSession(r)
    /\ Attempted(r, "succeeded")
    /\ Goto(r, "succeeded")
    /\ UNCHANGED <<row, usage, logs, loop, via, hooks, reply>>

\* A soft decline opens no session; a timeout or a network error may have
\* opened one whose URL nobody will ever learn.
CheckoutFailed(r) ==
    /\ pc[r] = "calling"
    /\ \/ Attempted(r, "failed") /\ UNCHANGED session
       \/ /\ \E s \in {"timeout", "failed"} : Attempted(r, s)
          /\ OpenSession(r)
    /\ NextCandidate(r)
    /\ UNCHANGED <<row, usage, logs, via, hooks, reply>>

\* Fault: a hard decline fails over like a soft one.
DeclineAndContinue(r) ==
    /\ pc[r] = "calling"
    /\ Attempted(r, "hard_declined")
    /\ NextCandidate(r)
    /\ UNCHANGED <<row, usage, logs, session, via, hooks, reply>>

\* The request itself is wrong: no other provider is tried.
HardDecline(r) ==
    /\ pc[r] = "calling"
    /\ Attempted(r, "hard_declined")
    /\ Goto(r, "failing")
    /\ UNCHANGED <<row, usage, logs, session, loop, via, hooks, reply>>

-----------------------------------------------------------------------------
(***************************************************************************)
(* The end of create                                                       *)
(***************************************************************************)

\* _record_provider_success: health reset and usage, in one commit.
CountUsage(r) ==
    /\ pc[r] = "succeeded"
    /\ usage' = usage + 1
    /\ Goto(r, "counted")
    /\ UNCHANGED <<row, attempt, logs, session, loop, via, hooks, reply>>

StoreCheckout(r) ==
    LET o == OrderOf[r] IN
    /\ pc[r] = "counted"
    /\ checkout' = [checkout EXCEPT ![o] = cand[r]]
    /\ providerId' = [providerId EXCEPT ![o] = cand[r]]
    /\ event' = [event EXCEPT ![r] = "payment.created"]
    /\ Goto(r, "dispatch")
    /\ UNCHANGED <<status, paymentId, attempt, usage, logs, session, loop, via,
                   delivery, reply>>

MarkFailed(r) ==
    LET o == OrderOf[r] IN
    /\ pc[r] = "failing"
    /\ status' = [status EXCEPT ![o] =
                    IF @ = "PAYMENT_PENDING" THEN "PAYMENT_FAILED" ELSE @]
    /\ event' = [event EXCEPT ![r] = "payment.failed"]
    /\ Goto(r, "dispatch")
    /\ UNCHANGED <<paymentId, providerId, checkout, attempt, usage, logs, session,
                   loop, via, delivery, reply>>

\* What a creation call answers once its event has been dispatched.
Finish(q) ==
    /\ Goto(q, "done")
    /\ IF q \notin Request
         THEN UNCHANGED reply
         ELSE IF event[q] = "payment.created"
                THEN Answer(q, "created", "PAYMENT_PENDING", cand[q])
                ELSE Answer(q, "failed", "NONE", NoProvider)

-----------------------------------------------------------------------------
(***************************************************************************)
(* WebhookDispatcher.dispatch, for the endpoint the merchant registered    *)
(***************************************************************************)

\* The delivery row is committed as pending before the POST; a merchant with
\* no active webhook for the event gets none.
Dispatch(q) ==
    /\ pc[q] = "dispatch"
    /\ \/ /\ delivery' = [delivery EXCEPT ![q] = "pending"]
          /\ Goto(q, "posting")
          /\ UNCHANGED reply
       \/ Finish(q) /\ UNCHANGED delivery
    /\ UNCHANGED <<row, attempt, usage, logs, session, loop, via, event>>

\* Answer, timeout or error of the endpoint: recorded once, never retried.
RecordDelivery(q) ==
    /\ pc[q] = "posting"
    /\ \E s \in {"delivered", "failed"} : delivery' = [delivery EXCEPT ![q] = s]
    /\ Finish(q)
    /\ UNCHANGED <<row, attempt, usage, logs, session, loop, via, event>>

-----------------------------------------------------------------------------
(***************************************************************************)
(* ProviderCallbackService                                                 *)
(***************************************************************************)

\* A customer holds the provider's page once a creation call answered its URL.
Shown(o, p) == \E r \in Request : OrderOf[r] = o /\ reply[r].url = p

WebhookEvent(s) == CASE s = "PAYMENT_FINISHED"  -> "payment.succeeded"
                     [] s = "PAYMENT_FAILED"    -> "payment.failed"
                     [] s = "PAYMENT_CANCELLED" -> "payment.cancelled"

\* Fault: no terminal states, the last visit wins.
FinalizeAlways(v, s) ==
    /\ status' = [status EXCEPT ![OrderOf[v]] = s]
    /\ event' = [event EXCEPT ![v] = WebhookEvent(s)]
    /\ Goto(v, "logging")

\* Fault: the event is announced even when the row was left alone.
FinalizeAnnounce(v, s) ==
    LET o == OrderOf[v] IN
    /\ status' = [status EXCEPT ![o] = IF @ \in TerminalStates THEN @ ELSE s]
    /\ event' = [event EXCEPT ![v] = WebhookEvent(s)]
    /\ Goto(v, IF status[o] \in TerminalStates THEN "dispatch" ELSE "logging")

\* Fault: a conditional UPDATE whose row count nobody looks at.
FinalizeIfPending(v, s) ==
    LET o == OrderOf[v] IN
    IF status[o] \in TerminalStates
      THEN Goto(v, "done") /\ UNCHANGED <<status, event>>
      ELSE /\ status' = [status EXCEPT ![o] = IF @ = "PAYMENT_PENDING" THEN s ELSE @]
           /\ event' = [event EXCEPT ![v] = WebhookEvent(s)]
           /\ Goto(v, "logging")

\* _finalize_provider_return: read, update and commit without an await.
\* EXPIRED is not among the states it refuses to leave.
Finalize(v, s) ==
    LET o == OrderOf[v] IN
    IF status[o] \in TerminalStates
      THEN Goto(v, "done") /\ UNCHANGED <<status, event>>
      ELSE /\ status' = [status EXCEPT ![o] = s]
           /\ event' = [event EXCEPT ![v] = WebhookEvent(s)]
           /\ Goto(v, "logging")

\* The browser reaches the success page; the handler asks the provider.
Return(v, p) ==
    /\ pc[v] = "idle"
    /\ Shown(OrderOf[v], p)
    /\ via' = [via EXCEPT ![v] = p]
    /\ Goto(v, "verifying")
    /\ UNCHANGED <<row, attempt, usage, logs, session, loop, hooks, reply>>

\* Fault: an open session counts as paid.
VerifyNothing(v) ==
    LET st == session[OrderOf[v]][via[v]] IN
    /\ pc[v] = "verifying"
    /\ via[v] \notin CaptureOnReturn
    /\ Finalize(v, IF st # "lapsed" THEN "PAYMENT_FINISHED" ELSE "PAYMENT_FAILED")
    /\ UNCHANGED <<paymentId, providerId, checkout, attempt, usage, logs, session,
                   loop, via, delivery, reply>>

\* handle_stripe_return: "paid" or "complete" finishes, anything else fails.
VerifySession(v) ==
    LET st == session[OrderOf[v]][via[v]] IN
    /\ pc[v] = "verifying"
    /\ via[v] \notin CaptureOnReturn
    /\ Finalize(v, IF st \in {"complete", "paid"} THEN "PAYMENT_FINISHED"
                                                  ELSE "PAYMENT_FAILED")
    /\ UNCHANGED <<paymentId, providerId, checkout, attempt, usage, logs, session,
                   loop, via, delivery, reply>>

\* handle_paypal_return: the capture is requested whatever the row says, and
\* only an approved order can be captured.
CaptureOrder(v) ==
    LET o == OrderOf[v] IN
    /\ pc[v] = "verifying"
    /\ via[v] \in CaptureOnReturn
    /\ session[o][via[v]] = "complete"
    /\ \/ /\ session' = [session EXCEPT ![o][via[v]] = "paid"]
          /\ Finalize(v, "PAYMENT_FINISHED")
       \/ /\ Finalize(v, "PAYMENT_FAILED")
          /\ UNCHANGED session
    /\ UNCHANGED <<paymentId, providerId, checkout, attempt, usage, logs,
                   loop, via, delivery, reply>>

\* The capture raises: the order is not approved or is captured already, or
\* the answer to an executed capture is lost.
CaptureError(v) ==
    LET o == OrderOf[v] IN
    /\ pc[v] = "verifying"
    /\ via[v] \in CaptureOnReturn
    /\ IF session[o][via[v]] = "complete"
         THEN session' = [session EXCEPT ![o][via[v]] = "paid"]
         ELSE UNCHANGED session
    /\ Goto(v, "dead")
    /\ UNCHANGED <<row, attempt, usage, logs, loop, via, hooks, reply>>

\* handle_stripe_cancel, handle_paypal_cancel: the provider is not asked.
Cancel(v, p) ==
    /\ pc[v] = "idle"
    /\ Shown(OrderOf[v], p)
    /\ via' = [via EXCEPT ![v] = p]
    /\ Finalize(v, "PAYMENT_CANCELLED")
    /\ UNCHANGED <<paymentId, providerId, checkout, attempt, usage, logs, session,
                   loop, delivery, reply>>

\* The log row of the outcome, in the second database, after the first commit.
LogOutcome(v) ==
    /\ pc[v] = "logging"
    /\ audit' = [audit EXCEPT ![OrderOf[v]] = @ \union
                   {IF event[v] = "payment.cancelled" THEN "CANCELLED" ELSE "ACCEPTED"}]
    /\ Goto(v, "dispatch")
    /\ UNCHANGED <<row, attempt, usage, sentLog, session, loop, via, hooks, reply>>

-----------------------------------------------------------------------------
(***************************************************************************)
(* The expiry command, failures, the customer and the providers            *)
(***************************************************************************)

InFlight(o) == paymentId[o] # NoRequest /\ pc[paymentId[o]] \in Creating \union {"dispatch", "posting"}

\* Fault: only rows that have a checkout are expired.
ExpireCheckouts(o) ==
    /\ status[o] = "PAYMENT_PENDING"
    /\ checkout[o] # NoProvider
    /\ ~InFlight(o)
    /\ status' = [status EXCEPT ![o] = "PAYMENT_EXPIRED"]
    /\ UNCHANGED <<paymentId, providerId, checkout, attempt, usage, logs, session,
                   pc, loop, via, hooks, reply>>

\* Fault: the status is not part of the query.
ExpireOld(o) ==
    /\ status[o] # "NONE"
    /\ ~InFlight(o)
    /\ status' = [status EXCEPT ![o] = "PAYMENT_EXPIRED"]
    /\ UNCHANGED <<paymentId, providerId, checkout, attempt, usage, logs, session,
                   pc, loop, via, hooks, reply>>

\* ExpireStaleCheckoutsCommand, hourly: rows pending for 24 hours.  A creation
\* call lives for seconds, so its row is not that old while it runs.
Expire(o) ==
    /\ status[o] = "PAYMENT_PENDING"
    /\ ~InFlight(o)
    /\ status' = [status EXCEPT ![o] = "PAYMENT_EXPIRED"]
    /\ UNCHANGED <<paymentId, providerId, checkout, attempt, usage, logs, session,
                   pc, loop, via, hooks, reply>>

\* A crash of the process, a database error, a provider answer that raises: the
\* call ends where it stands and nothing resumes it.
Abort(q) ==
    /\ pc[q] \in Running
    /\ Goto(q, "dead")
    /\ IF q \in Request THEN Answer(q, "error", "NONE", NoProvider) ELSE UNCHANGED reply
    /\ UNCHANGED <<row, attempt, usage, logs, session, loop, via, hooks>>

\* The customer submits the provider's page.
Pay(o, p) ==
    /\ Shown(o, p)
    /\ session[o][p] = "open"
    /\ session' = [session EXCEPT ![o][p] =
                     IF p \in CaptureOnReturn \union SettlesLater THEN "complete" ELSE "paid"]
    /\ UNCHANGED <<row, attempt, usage, logs, pc, loop, via, hooks, reply>>

\* The provider's own clock: a session lapses, a delayed payment settles or not.
ProviderMoves(o, p) ==
    /\ \/ /\ session[o][p] = "open"
          /\ session' = [session EXCEPT ![o][p] = "lapsed"]
       \/ /\ session[o][p] = "complete"
          /\ \E s \in {"paid", "lapsed"} :
               /\ s = "paid" => p \in SettlesLater
               /\ session' = [session EXCEPT ![o][p] = s]
    /\ UNCHANGED <<row, attempt, usage, logs, pc, loop, via, hooks, reply>>

-----------------------------------------------------------------------------
CreateStep(r) ==
    \/ Submit(r) \/ Reject(r) \/ InsertConflict(r) \/ LogCreated(r)
    \/ \E p \in Provider, rest \in SUBSET Provider : Insert(r, p, rest)
    \/ PassOver(r) \/ LogRequest(r) \/ AssignProvider(r)
    \/ CheckoutOpened(r) \/ CheckoutFailed(r) \/ HardDecline(r)
    \/ CountUsage(r) \/ StoreCheckout(r) \/ MarkFailed(r)

Arrive(v) == \E p \in Provider : Return(v, p) \/ Cancel(v, p)

VisitStep(v) == VerifySession(v) \/ CaptureOrder(v) \/ CaptureError(v) \/ LogOutcome(v)

WebhookStep(q) == Dispatch(q) \/ RecordDelivery(q)

Next ==
    \/ \E r \in Request : CreateStep(r)
    \/ \E v \in Visit : Arrive(v) \/ VisitStep(v)
    \/ \E q \in Process : WebhookStep(q) \/ Abort(q)
    \/ \E o \in Order : Expire(o)
    \/ \E o \in Order, p \in Provider : Pay(o, p) \/ ProviderMoves(o, p)

Spec == Init /\ [][Next]_vars

(***************************************************************************)
(* Every awaited call has a timeout (15s at a provider, 10s at a webhook), *)
(* so a call that started keeps moving; the command runs every hour.       *)
(* Nothing is assumed of customers, of providers or of new calls.          *)
(***************************************************************************)
Fairness ==
    /\ \A r \in Request : WF_vars(pc[r] # "idle" /\ CreateStep(r))
    /\ \A q \in Process : WF_vars(WebhookStep(q))
    /\ \A v \in Visit : WF_vars(VisitStep(v))
    /\ \A o \in Order : WF_vars(Expire(o))

FairSpec == Spec /\ Fairness

-----------------------------------------------------------------------------
(***************************************************************************)
(* Safety                                                                  *)
(***************************************************************************)

\* However often an order is submitted, retried, failed over and reloaded, at
\* most one provider session of the order is ever paid.
AtMostOneCharge ==
    \A o \in Order : \A p, q \in Provider :
        session[o][p] = "paid" /\ session[o][q] = "paid" => p = q

\* Why: one call owns the row, it stores a checkout once, and a page is known
\* to a customer, and a session completed, only through the stored checkout.
CheckoutInv ==
    /\ \A o \in Order : status[o] = "NONE" => /\ paymentId[o] = NoRequest
                                              /\ checkout[o] = NoProvider
    /\ \A r \in Request : pc[r] \in Creating => /\ paymentId[OrderOf[r]] = r
                                                /\ checkout[OrderOf[r]] = NoProvider
                                                /\ cand[r] \in Provider
    /\ \A r \in Request : event[r] = "payment.created" => /\ cand[r] \in Provider
                                                          /\ checkout[OrderOf[r]] = cand[r]
    /\ \A r \in Request : reply[r].url # NoProvider => reply[r].url = checkout[OrderOf[r]]
    /\ \A o \in Order : \A p \in Provider :
         session[o][p] \in {"complete", "paid"} => checkout[o] = p

\* FINISHED is only written for money the provider holds, at the provider whose
\* checkout the row names (for providers that complete a session when paid).
FinishedMeansCaptured ==
    \A o \in Order : status[o] = "PAYMENT_FINISHED" /\ checkout[o] \notin SettlesLater
        => checkout[o] # NoProvider /\ session[o][checkout[o]] = "paid"

\* A stored checkout is the one the failover loop succeeded with, no other candidate
\* succeeded or hard-declined, and usage was counted for it and only for such ones,
\* wherever a call died between its three commits.
CheckoutIsTheWinner ==
    /\ \A o \in Order : checkout[o] # NoProvider =>
         /\ providerId[o] = checkout[o]
         /\ attempt[o][checkout[o]] = "succeeded"
         /\ \A p \in Provider \ {checkout[o]} :
              attempt[o][p] \in {"none", "skipped", "failed", "timeout"}
    /\ Cardinality({o \in Order : checkout[o] # NoProvider}) =< usage
    /\ usage =< Cardinality({o \in Order : \E p \in Provider : attempt[o][p] = "succeeded"})

\* The merchant is announced at most one outcome per order, whatever number of
\* creation calls, returns, cancels and reloads race for it.
OneOutcomeAnnounced ==
    \A q1, q2 \in Process :
        /\ OrderOf[q1] = OrderOf[q2]
        /\ event[q1] \notin {"none", "payment.created"}
        /\ event[q2] \notin {"none", "payment.created"}
        => q1 = q2

\* Across the two databases: every provider session was logged before it was
\* requested, and the log never tells of an outcome the row does not have.
LogsTellTheTruth ==
    \A o \in Order :
        /\ \A p \in Provider : session[o][p] # "none" => p \in sentLog[o]
        /\ audit[o] # {} => status[o] # "NONE"
        /\ "ACCEPTED" \in audit[o] => status[o] \in {"PAYMENT_FINISHED", "PAYMENT_FAILED"}
        /\ "CANCELLED" \in audit[o] => status[o] = "PAYMENT_CANCELLED"

\* Once handed out, the checkout of an order is never replaced, and a terminal
\* status other than EXPIRED is never left.
SettledStaysSettled ==
    [][\A o \in Order :
         /\ checkout[o] # NoProvider => checkout'[o] = checkout[o]
         /\ status[o] \in TerminalStates => status'[o] = status[o]]_vars

\* The service keeps the promises of PaymentContract.
Captured == [o \in Order |-> {p \in Provider : session[o][p] = "paid"}]

Contract == INSTANCE PaymentContract WITH paid <- Captured, Deferred <- SettlesLater

\* Every step of the handlers, interleaved and aborted anywhere, is a step the
\* merchant's view of the payment allows.
ImplementsContract == Contract!Spec

(***************************************************************************)
(* Liveness, under FairSpec                                                *)
(***************************************************************************)

\* No row stays PENDING for ever, even if the call that created it died.
PendingEnds ==
    \A o \in Order : (status[o] = "PAYMENT_PENDING") ~> (status[o] # "PAYMENT_PENDING")

(***************************************************************************)
(* What the documentation says and the code does not do                    *)
(***************************************************************************)

\* payments/app/enums.py:12, CANCELLED is "before capture".
CancelledIsNeverCaptured ==
    \A o \in Order : status[o] = "PAYMENT_CANCELLED" =>
        \A p \in Provider : session[o][p] # "paid"
=============================================================================
