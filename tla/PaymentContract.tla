--------------------------- MODULE PaymentContract ---------------------------
(***************************************************************************)
(* What the payment service promises a merchant about one order: a status  *)
(* that moves as below, one checkout page that is never replaced, and no   *)
(* charge other than through that page.  PaymentLifecycle implements it.   *)
(***************************************************************************)
CONSTANTS
    Order, Provider, NoProvider,
    Deferred    \* providers whose payment may be finished before it is captured

VARIABLES
    status,     \* status[o]: the status of the order's payment, or "NONE"
    checkout,   \* checkout[o]: the provider whose page was handed out
    paid        \* paid[o]: the providers that hold the customer's money

vars == <<status, checkout, paid>>

Open == {"PAYMENT_PENDING", "PAYMENT_EXPIRED"}

Init ==
    /\ status = [o \in Order |-> "NONE"]
    /\ checkout = [o \in Order |-> NoProvider]
    /\ paid = [o \in Order |-> {}]

Become(o, s) == status' = [status EXCEPT ![o] = s]

Create(o) ==
    /\ status[o] = "NONE"
    /\ Become(o, "PAYMENT_PENDING")
    /\ UNCHANGED <<checkout, paid>>

\* Every provider failed or the request was hard-declined.
GiveUp(o) ==
    /\ status[o] = "PAYMENT_PENDING"
    /\ checkout[o] = NoProvider
    /\ Become(o, "PAYMENT_FAILED")
    /\ UNCHANGED <<checkout, paid>>

Offer(o, p) ==
    /\ status[o] = "PAYMENT_PENDING"
    /\ checkout[o] = NoProvider
    /\ checkout' = [checkout EXCEPT ![o] = p]
    /\ UNCHANGED <<status, paid>>

Expire(o) ==
    /\ status[o] = "PAYMENT_PENDING"
    /\ Become(o, "PAYMENT_EXPIRED")
    /\ UNCHANGED <<checkout, paid>>

Charged(o) == [paid EXCEPT ![o] = {checkout[o]}]

Charge(o) ==
    /\ checkout[o] # NoProvider
    /\ paid' = Charged(o)
    /\ UNCHANGED <<status, checkout>>

\* The outcome of the page, known when the customer comes back; FINISHED needs
\* the money, which the same step may collect.
Settle(o, s) ==
    /\ checkout[o] # NoProvider
    /\ status[o] \in Open
    /\ Become(o, s)
    /\ paid' = paid \/ (s = "PAYMENT_FINISHED" /\ paid' = Charged(o))
    /\ s = "PAYMENT_FINISHED" => checkout[o] \in Deferred \/ paid'[o] = {checkout[o]}
    /\ UNCHANGED checkout

Next ==
    \E o \in Order :
        \/ Create(o) \/ GiveUp(o) \/ Expire(o) \/ Charge(o)
        \/ \E p \in Provider : Offer(o, p)
        \/ \E s \in {"PAYMENT_FINISHED", "PAYMENT_FAILED", "PAYMENT_CANCELLED"} : Settle(o, s)

Spec == Init /\ [][Next]_vars
=============================================================================
