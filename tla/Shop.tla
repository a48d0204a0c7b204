-------------------------------- MODULE Shop --------------------------------
(***************************************************************************)
(* The demo store (merchant-demo/src): a cart, a checkout dialogue that    *)
(* creates a payment through the gateway, and an order list that polls the *)
(* payments it remembers.  The cart and the orders live in React state and *)
(* are copied to localStorage by an effect that runs after the render.     *)
(*                                                                         *)
(* A dialogue that is closed does not call its request back, and a poll    *)
(* that is under way when the order list is left goes on without it: the   *)
(* list only clears the timers it still holds.                             *)
(***************************************************************************)
EXTENDS Integers, Sequences, FiniteSets, SequencesExt

CONSTANTS
    Products, Price,
    Payments,     \* payments the gateway may create, each at most once
    MaxQuantity,  \* items in the cart at most
    MaxVisits, MaxFailures

PaymentStatus == {"PENDING", "FINISHED", "FAILED", "CANCELLED", "EXPIRED"}
Terminal == {"FINISHED", "FAILED"}
Visits == 1..MaxVisits

ASSUME ShopAssumption ==
    /\ Price \in [Products -> Nat]
    /\ {MaxQuantity, MaxVisits} \subseteq Nat \ {0} /\ MaxFailures \in Nat

VARIABLES
    tab,          \* "products", "orders", or "away" when the page is unloaded
    cart, cartOpen,
    orders,       \* newest first
    dialogue,     \* the items being checked out, <<>> when closed, and its phase
    calls,        \* createPayment calls under way: the items, the payment created, the dialogue's age
    leaving,      \* window.location.assign was called
    saved,        \* localStorage: the cart and the orders
    visit,        \* how often the order list has been mounted
    poll,         \* per payment and mount of the list: the chain of polls
    payment,      \* the status the payment service holds, "none" before it exists
    failures      \* failed requests so far, at most MaxFailures

shopVars == <<tab, cart, cartOpen, orders, dialogue, calls, leaving, saved, visit, poll, payment, failures>>
page == <<tab, cart, cartOpen, orders, dialogue, leaving>>

Item == [product : Products, quantity : 1..MaxQuantity]
Order == [id : Payments, status : PaymentStatus, items : Seq(Item)]
Closed == [items |-> <<>>, phase |-> "idle"]
NoCall == [pc |-> "idle", items |-> <<>>, own |-> FALSE]
NoPayment == [status |-> "none", amount |-> 0, price |-> 0]
NoPolls == [p \in Payments |-> [v \in Visits |-> "none"]]

Quantity(items) == FoldSeq(LAMBDA item, sum : sum + item.quantity, 0, items)
Total(items) == FoldSeq(LAMBDA item, sum : sum + item.quantity * Price[item.product], 0, items)
CartCount == Quantity(cart)

ShopInit ==
    /\ tab = "products" /\ cart = <<>> /\ cartOpen = FALSE /\ orders = <<>>
    /\ dialogue = Closed /\ leaving = FALSE
    /\ calls = [p \in Payments |-> NoCall]
    /\ saved = [cart |-> <<>>, orders |-> <<>>]
    /\ visit = 0 /\ poll = NoPolls
    /\ payment = [p \in Payments |-> NoPayment]
    /\ failures = 0

-----------------------------------------------------------------------------
\* The drawer and the dialogue lie over the page; once the page is being left
\* nothing more is clicked.
Free == tab # "away" /\ ~leaving /\ dialogue = Closed
OnPage == Free /\ ~cartOpen
InCart == Free /\ cartOpen
Behind == UNCHANGED <<calls, saved, visit, poll, payment, failures>>

InCartAt(x) == {i \in DOMAIN cart : cart[i].product = x}

AddToCart(x) ==
    /\ OnPage /\ tab = "products"
    /\ CartCount < MaxQuantity
    /\ cart' = IF InCartAt(x) = {} THEN Append(cart, [product |-> x, quantity |-> 1])
               ELSE [i \in DOMAIN cart |-> IF cart[i].product = x
                                           THEN [cart[i] EXCEPT !.quantity = @ + 1] ELSE cart[i]]
    /\ cartOpen' = TRUE
    /\ UNCHANGED <<tab, orders, dialogue, leaving>> /\ Behind

\* A quantity that reaches nothing takes the item out.
UpdateQuantity(x, delta) ==
    /\ InCart /\ InCartAt(x) # {}
    /\ CartCount + delta <= MaxQuantity
    /\ cart' = SelectSeq([i \in DOMAIN cart |-> IF cart[i].product = x
                                                THEN [cart[i] EXCEPT !.quantity = @ + delta] ELSE cart[i]],
                         LAMBDA item : item.quantity > 0)
    /\ UNCHANGED <<tab, cartOpen, orders, dialogue, leaving>> /\ Behind

RemoveFromCart(x) ==
    /\ InCart /\ InCartAt(x) # {}
    /\ cart' = SelectSeq(cart, LAMBDA item : item.product # x)
    /\ UNCHANGED <<tab, cartOpen, orders, dialogue, leaving>> /\ Behind

ClearCart ==
    /\ InCart /\ cart # <<>>
    /\ cart' = <<>>
    /\ UNCHANGED <<tab, cartOpen, orders, dialogue, leaving>> /\ Behind

ToggleCart ==
    /\ Free
    /\ cartOpen' = ~cartOpen
    /\ UNCHANGED <<tab, cart, orders, dialogue, leaving>> /\ Behind

CheckoutCart ==
    /\ InCart /\ cart # <<>>
    /\ dialogue' = [items |-> cart, phase |-> "idle"]
    /\ cartOpen' = FALSE
    /\ UNCHANGED <<tab, cart, orders, leaving>> /\ Behind

\* The Pay button of a product card.
BuyNow(x) ==
    /\ OnPage /\ tab = "products"
    /\ dialogue' = [items |-> <<[product |-> x, quantity |-> 1]>>, phase |-> "idle"]
    /\ UNCHANGED <<tab, cart, cartOpen, orders, leaving>> /\ Behind

-----------------------------------------------------------------------------
\* CheckoutModal.  The cross and the backdrop close it at any time.
Disowned == [p \in Payments |-> [calls[p] EXCEPT !.own = FALSE]]

CloseDialogue ==
    /\ tab # "away" /\ ~leaving /\ dialogue # Closed
    /\ dialogue' = Closed
    /\ calls' = Disowned
    /\ UNCHANGED <<tab, cart, cartOpen, orders, leaving, saved, visit, poll, payment, failures>>

\* handleConfirm: an order number of its own for every attempt.
Confirm(p) ==
    /\ tab # "away" /\ ~leaving /\ dialogue # Closed /\ dialogue.phase # "loading"
    /\ calls[p] = NoCall
    /\ dialogue' = [dialogue EXCEPT !.phase = "loading"]
    /\ calls' = [calls EXCEPT ![p] = [pc |-> "asked", items |-> dialogue.items, own |-> TRUE]]
    /\ UNCHANGED <<tab, cart, cartOpen, orders, leaving, saved, visit, poll, payment, failures>>

\* The gateway and the payment service create it.
Create(p) ==
    /\ calls[p].pc = "asked"
    /\ calls' = [calls EXCEPT ![p].pc = "created"]
    /\ payment' = [payment EXCEPT ![p] = [status |-> "PENDING", amount |-> Quantity(calls[p].items),
                                          price |-> Total(calls[p].items)]]
    /\ UNCHANGED <<page, saved, visit, poll, failures>>

Over(p) == calls' = [calls EXCEPT ![p] = [NoCall EXCEPT !.pc = "over"]]

\* The call fails, before or after the payment was created, or the answer has
\* no payment_url: the dialogue it was made from shows the error, if it is
\* still there.
CallFails(p) ==
    /\ tab # "away" /\ calls[p].pc \in {"asked", "created"}
    /\ failures < MaxFailures /\ failures' = failures + 1
    /\ dialogue' = IF calls[p].own THEN [dialogue EXCEPT !.phase = "error"] ELSE dialogue
    /\ Over(p)
    /\ UNCHANGED <<tab, cart, cartOpen, orders, leaving, saved, visit, poll, payment>>

Listed(id, list) == \E i \in DOMAIN list : list[i].id = id
Open(list) == {p \in Payments : \E i \in DOMAIN list : list[i].id = p /\ list[i].status \notin Terminal}

\* The effect of the order list after every change of the orders: every open
\* order that has no chain of this mount gets a timer.
Polled(chains, list, v) ==
    [p \in Payments |-> IF p \in Open(list) /\ chains[p][v] = "none"
                        THEN [chains[p] EXCEPT ![v] = "timer"] ELSE chains[p]]
StartPolling(chains, list) == IF tab = "orders" THEN Polled(chains, list, visit) ELSE chains

Remembered(p, items) == <<[id |-> p, status |-> "PENDING", items |-> items]>> \o orders

\* Fault: the order remembers the cart instead of what was confirmed.
RememberCart(p) ==
    /\ tab # "away" /\ calls[p].pc = "created"
    /\ orders' = Remembered(p, cart)
    /\ poll' = StartPolling(poll, orders')
    /\ cart' = <<>> /\ dialogue' = Closed /\ leaving' = TRUE
    /\ calls' = [Disowned EXCEPT ![p] = [NoCall EXCEPT !.pc = "over"]]
    /\ UNCHANGED <<tab, cartOpen, saved, visit, payment, failures>>

\* handleSuccess: the order is remembered, the cart emptied, whichever dialogue
\* is open is closed, and the customer is sent to the provider.
HandleSuccess(p) ==
    /\ tab # "away" /\ calls[p].pc = "created"
    /\ orders' = Remembered(p, calls[p].items)
    /\ poll' = StartPolling(poll, orders')
    /\ cart' = <<>> /\ dialogue' = Closed /\ leaving' = TRUE
    /\ calls' = [Disowned EXCEPT ![p] = [NoCall EXCEPT !.pc = "over"]]
    /\ UNCHANGED <<tab, cartOpen, saved, visit, payment, failures>>

-----------------------------------------------------------------------------
\* Leaving the order list clears the timers it holds; mounting it starts a new
\* set of chains.
ShowProducts ==
    /\ OnPage /\ tab = "orders"
    /\ tab' = "products"
    /\ poll' = [p \in Payments |-> IF poll[p][visit] = "timer" THEN [poll[p] EXCEPT ![visit] = "none"] ELSE poll[p]]
    /\ UNCHANGED <<cart, cartOpen, orders, dialogue, calls, leaving, saved, visit, payment, failures>>

ShowOrders ==
    /\ OnPage /\ tab = "products" /\ visit < MaxVisits
    /\ tab' = "orders"
    /\ visit' = visit + 1
    /\ poll' = Polled(poll, orders, visit + 1)
    /\ UNCHANGED <<cart, cartOpen, orders, dialogue, calls, leaving, saved, payment, failures>>

Chain(p, v, state) == poll' = [poll EXCEPT ![p][v] = state]

TimerFires(p, v) ==
    /\ tab # "away" /\ poll[p][v] = "timer"
    /\ Chain(p, v, "asking")
    /\ UNCHANGED <<page, calls, saved, visit, payment, failures>>

ShowPayment(p, v) ==
    /\ poll[p][v] = "asking"
    /\ Chain(p, v, payment[p].status)
    /\ UNCHANGED <<page, calls, saved, visit, payment, failures>>

\* Fault: a poll that fails is not tried again.
PollGivesUp(p, v) ==
    /\ tab # "away" /\ poll[p][v] = "asking"
    /\ failures < MaxFailures /\ failures' = failures + 1
    /\ Chain(p, v, "none")
    /\ UNCHANGED <<page, calls, saved, visit, payment>>

PollFails(p, v) ==
    /\ tab # "away" /\ poll[p][v] = "asking"
    /\ failures < MaxFailures /\ failures' = failures + 1
    /\ Chain(p, v, "timer")
    /\ UNCHANGED <<page, calls, saved, visit, payment>>

\* The answer is applied to the order; a chain ends only at a terminal status.
PollAnswered(p, v) ==
    /\ tab # "away" /\ poll[p][v] \in PaymentStatus
    /\ orders' = [i \in DOMAIN orders |-> IF orders[i].id = p
                                          THEN [orders[i] EXCEPT !.status = poll[p][v]] ELSE orders[i]]
    /\ poll' = StartPolling([poll EXCEPT ![p][v] = IF @ \in Terminal THEN "none" ELSE "timer"], orders')
    /\ UNCHANGED <<tab, cart, cartOpen, dialogue, calls, leaving, saved, visit, payment, failures>>

-----------------------------------------------------------------------------
\* The effects that copy the state to localStorage.
Persist ==
    /\ tab # "away" /\ saved # [cart |-> cart, orders |-> orders]
    /\ saved' = [cart |-> cart, orders |-> orders]
    /\ UNCHANGED <<page, calls, visit, poll, payment, failures>>

\* The page is unloaded, because of the redirect or a reload.
Unload ==
    /\ tab # "away"
    /\ tab' = "away" /\ leaving' = FALSE /\ cart' = <<>> /\ orders' = <<>>
    /\ cartOpen' = FALSE /\ dialogue' = Closed
    /\ calls' = [p \in Payments |-> IF calls[p] = NoCall THEN NoCall ELSE [NoCall EXCEPT !.pc = "over"]]
    /\ visit' = 0 /\ poll' = NoPolls
    /\ UNCHANGED <<saved, payment, failures>>

Load ==
    /\ tab = "away"
    /\ tab' = "products" /\ cart' = saved.cart /\ orders' = saved.orders
    /\ UNCHANGED <<cartOpen, dialogue, calls, leaving, saved, visit, poll, payment, failures>>

\* The payment service settles a payment.
Settle(p) ==
    /\ payment[p].status = "PENDING"
    /\ \E s \in PaymentStatus \ {"PENDING"} : payment' = [payment EXCEPT ![p].status = s]
    /\ UNCHANGED <<page, calls, saved, visit, poll, failures>>

Customer ==
    \/ \E x \in Products : AddToCart(x) \/ UpdateQuantity(x, 1) \/ UpdateQuantity(x, -1) \/ RemoveFromCart(x) \/ BuyNow(x)
    \/ ClearCart \/ ToggleCart \/ CheckoutCart \/ CloseDialogue \/ ShowProducts \/ ShowOrders \/ Unload \/ Load
    \/ \E p \in Payments : Confirm(p)

Polling == \E p \in Payments, v \in Visits : TimerFires(p, v) \/ ShowPayment(p, v) \/ PollFails(p, v) \/ PollAnswered(p, v)

ShopNext ==
    \/ Customer \/ Polling \/ Persist
    \/ \E p \in Payments : Create(p) \/ CallFails(p) \/ HandleSuccess(p) \/ Settle(p)

\* The browser's timers fire, and a poll is answered in the end.
ShopFairness ==
    \A p \in Payments, v \in Visits : WF_shopVars(TimerFires(p, v)) /\ WF_shopVars(ShowPayment(p, v)) /\ WF_shopVars(PollAnswered(p, v))

-----------------------------------------------------------------------------
\* Every order the shop remembers is a payment that exists, listed once, for
\* the quantity and the total the customer confirmed, however many dialogues
\* were opened and closed meanwhile.
OrderIsWhatWasCharged ==
    /\ IsInjective([i \in DOMAIN orders |-> orders[i].id])
    /\ \A i \in DOMAIN orders : LET o == orders[i] IN
           payment[o.id].status # "none" /\ payment[o.id].amount = Quantity(o.items) /\ payment[o.id].price = Total(o.items)

\* While the order list stays open, a payment that is finished or has failed is
\* shown as such, whatever polls of earlier mounts answer out of order.
Showing(p) == tab = "orders" /\ ~leaving /\ Listed(p, orders)
TerminalIsShown ==
    \A p \in Payments :
        Showing(p) /\ payment[p].status \in Terminal
            ~> ~Showing(p) \/ [id |-> p, status |-> payment[p].status] \in {[id |-> orders[i].id, status |-> orders[i].status] : i \in DOMAIN orders}
=============================================================================
