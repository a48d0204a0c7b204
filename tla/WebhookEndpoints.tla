-------------------------- MODULE WebhookEndpoints --------------------------
(***************************************************************************)
(* A merchant's webhook endpoints: the page that adds, tests and deletes   *)
(* them (saas-laravel, Pages/Webhooks/Index.jsx and WebhookController),    *)
(* and the payment service that calls them (webhook_dispatcher.py), which  *)
(* selects the endpoints once and then works through them, each with two   *)
(* transactions around its POST.  The two share the tables, where an       *)
(* endpoint takes its deliveries with it when it is deleted.               *)
(***************************************************************************)
EXTENDS Inertia, Integers, Sequences, FiniteSets

CONSTANTS
    WebhookEvents,    \* what an endpoint can be subscribed to
    Announcements,    \* calls of dispatch
    Announces,        \* the event of an announcement
    FirstEndpoints,   \* what the merchant has at first: the events of each endpoint
    MaxEndpoints,     \* bound: endpoints
    MaxHookActs,      \* bound: what the merchant does on the page
    MaxWebhookFaults  \* bound: statements that throw, and processes that die

\* What the merchant has at first fits the bound.
ASSUME EndpointAssumption ==
    /\ MaxEndpoints \in Nat
    /\ \A es \in FirstEndpoints : es \in Seq(SUBSET WebhookEvents) /\ Len(es) <= MaxEndpoints

VARIABLES
    endpoints,        \* merchant_webhooks, in the order they were created
    calls,            \* the dispatches: the step, the endpoints selected, those left, the one at work
    delivered,        \* webhook_deliveries, by announcement and endpoint
    posts,            \* how often each endpoint was sent an announcement
    hookPage,         \* the page: the endpoints it shows, its form
    hookFaults,
    missed            \* history: a statement about this delivery threw

hookTables == <<endpoints, delivered>>
dispatching == <<calls, posts, hookFaults, missed>>
hookVars == <<hookTables, dispatching, hookPage>>

Slots == 1..MaxEndpoints
There == {e \in DOMAIN endpoints : endpoints[e].there}

HookInit ==
    /\ \E es \in FirstEndpoints : endpoints = [e \in DOMAIN es |-> [there |-> TRUE, events |-> es[e]]]
    /\ calls = [a \in Announcements |-> [pc |-> "idle", asked |-> {}, left |-> {}, at |-> 0]]
    /\ delivered = [a \in Announcements |-> [e \in Slots |-> "none"]]
    /\ posts = [a \in Announcements |-> [e \in Slots |-> 0]]
    /\ hookPage = [shown |-> There, form |-> "closed"]
    /\ hookFaults = 0 /\ missed = {}

----------------------------------------------------------------------------
(* The page *)

\* A row's button waits while its own visit is under way.
Waits(kind, e) == \E r \in inbox \union answered : r.no = current /\ r.kind = kind /\ r.body.endpoint = e

OpenHookForm(open) ==
    /\ acts < MaxHookActs /\ (hookPage.form = "closed") = open
    /\ hookPage' = [hookPage EXCEPT !.form = IF open THEN "open" ELSE "closed"]
    /\ UNCHANGED <<hookTables, dispatching>>
    /\ Act

\* submit; the form waits for its own visit, or for the one that interrupted it.
SubmitEndpoint(events) ==
    /\ acts < MaxHookActs /\ hookPage.form = "open" /\ events # {}
    /\ hookPage' = [hookPage EXCEPT !.form = "sent"]
    /\ UNCHANGED <<hookTables, dispatching>>
    /\ Visit("store", [endpoint |-> 0, events |-> events])

Interrupted == [hookPage EXCEPT !.form = IF @ = "sent" THEN "open" ELSE @]

\* test, and del once it was confirmed.
AskFor(kind, e) ==
    /\ acts < MaxHookActs /\ e \in hookPage.shown /\ ~Waits(kind, e)
    /\ hookPage' = Interrupted
    /\ UNCHANGED <<hookTables, dispatching>>
    /\ Visit(kind, [endpoint |-> e, events |-> {}])

(* WebhookController; back() asks for the page anew, if it still is waiting. *)
Back(r) ==
    /\ inbox' = (inbox \ {r}) \union
                (IF current # r.no THEN {}
                 ELSE {[no |-> r.no, kind |-> "index", body |-> [r.body EXCEPT !.endpoint = 0]]})
    /\ UNCHANGED <<hookPage, dispatching, current, answered, sent, acts, broken>>

StoreEndpoint(r) ==
    /\ r.kind = "store" /\ Len(endpoints) < MaxEndpoints
    /\ endpoints' = Append(endpoints, [there |-> TRUE, events |-> r.body.events])
    /\ UNCHANGED delivered
    /\ Back(r)

\* Deliveries go with their endpoint.
DestroyEndpoint(r) ==
    /\ r.kind = "delete" /\ r.body.endpoint \in There
    /\ endpoints' = [endpoints EXCEPT ![r.body.endpoint].there = FALSE]
    /\ delivered' = [a \in Announcements |-> [delivered[a] EXCEPT ![r.body.endpoint] = "none"]]
    /\ Back(r)

\* Whatever the endpoint answers is told; nothing is stored.
PingEndpoint(r) ==
    /\ r.kind = "test" /\ r.body.endpoint \in There
    /\ UNCHANGED hookTables
    /\ Back(r)

ListEndpoints(r) ==
    /\ r.kind = "index"
    /\ UNCHANGED hookVars
    /\ ServedWith(r, [shown |-> There, stored |-> r.body.events # {}], TRUE)

\* Refused, lost, or the endpoint is gone.
HookVisitFails(r) ==
    /\ hookPage' = IF r.no = current THEN Interrupted ELSE hookPage
    /\ UNCHANGED <<hookTables, dispatching>>
    /\ Lost(r)

\* onSuccess closes the form that is open.
EndpointsArrive(a) ==
    /\ hookPage' = [shown |-> a.body.shown, form |-> IF a.body.stored THEN "closed" ELSE hookPage.form]
    /\ UNCHANGED <<hookTables, dispatching>>
    /\ Returned

----------------------------------------------------------------------------
(* The dispatcher *)

AtCall(a, pc) == calls[a].pc = pc /\ UNCHANGED <<net, hookPage, endpoints>>
Calling(a, pc) == calls' = [calls EXCEPT ![a].pc = pc]
Throws == hookFaults < MaxWebhookFaults /\ hookFaults' = hookFaults + 1

\* dispatch: the active endpoints, and of those the ones subscribed to the event.
SelectTargets(a) ==
    /\ AtCall(a, "idle")
    /\ LET targets == {e \in There : Announces[a] \in endpoints[e].events}
       IN  calls' = [calls EXCEPT ![a] = [pc |-> "next", asked |-> targets, left |-> targets, at |-> 0]]
    /\ UNCHANGED <<delivered, posts, hookFaults, missed>>

\* _fire, for one after another.
NextTarget(a) ==
    /\ AtCall(a, "next")
    /\ \/ \E e \in calls[a].left :
            calls' = [calls EXCEPT ![a] = [@ EXCEPT !.pc = "row", !.left = calls[a].left \ {e}, !.at = e]]
       \/ calls[a].left = {} /\ Calling(a, "done")
    /\ UNCHANGED <<delivered, posts, hookFaults, missed>>

AddDelivery(a) ==
    /\ AtCall(a, "row") /\ calls[a].at \in There
    /\ delivered' = [delivered EXCEPT ![a][calls[a].at] = "pending"]
    /\ Calling(a, "post")
    /\ UNCHANGED <<posts, hookFaults, missed>>

\* Fault: an exception is not caught in the loop.
AbandonsAll(a) ==
    /\ AtCall(a, "row") /\ calls[a].at \notin There
    /\ Calling(a, "done")
    /\ UNCHANGED <<delivered, posts, hookFaults, missed>>

\* The endpoint is gone and the delivery's foreign key refused: the loop goes on with the next.
EndpointIsGone(a) ==
    /\ AtCall(a, "row") /\ calls[a].at \notin There
    /\ Calling(a, "next")
    /\ UNCHANGED <<delivered, posts, hookFaults, missed>>

\* The POST, and whether the endpoint answers 2xx in time.
PostEvent(a) ==
    /\ AtCall(a, "post")
    /\ posts' = [posts EXCEPT ![a][calls[a].at] = @ + 1]
    /\ \E success \in BOOLEAN : Calling(a, IF success THEN "answered" ELSE "refused")
    /\ UNCHANGED <<delivered, hookFaults, missed>>

\* The outcome is written where there still is a delivery.
RecordDelivery(a) ==
    /\ \E pc \in {"answered", "refused"} :
         /\ AtCall(a, pc)
         /\ delivered' = [delivered EXCEPT ![a][calls[a].at] =
                            IF @ = "none" THEN @ ELSE IF pc = "answered" THEN "delivered" ELSE "failed"]
    /\ Calling(a, "next")
    /\ UNCHANGED <<posts, hookFaults, missed>>

\* A statement throws: dispatch logs it and goes on.
StatementThrows(a) ==
    /\ \E pc \in {"row", "answered", "refused"} : AtCall(a, pc)
    /\ Throws
    /\ missed' = missed \union {<<a, calls[a].at>>}
    /\ Calling(a, "next")
    /\ UNCHANGED <<delivered, posts>>

DispatcherDies(a) ==
    /\ \E pc \in {"next", "row", "post", "answered", "refused"} : AtCall(a, pc)
    /\ Throws
    /\ Calling(a, "dead")
    /\ UNCHANGED <<delivered, posts, missed>>

HookNext ==
    \/ \E open \in BOOLEAN : OpenHookForm(open)
    \/ \E events \in SUBSET WebhookEvents : SubmitEndpoint(events)
    \/ \E kind \in {"test", "delete"}, e \in Slots : AskFor(kind, e)
    \/ \E r \in inbox : StoreEndpoint(r) \/ DestroyEndpoint(r) \/ PingEndpoint(r) \/ ListEndpoints(r)
    \/ \E r \in inbox \union answered : HookVisitFails(r)
    \/ \E x \in answered : EndpointsArrive(x)
    \/ \E a \in Announcements :
         \/ SelectTargets(a) \/ NextTarget(a) \/ AddDelivery(a) \/ EndpointIsGone(a)
         \/ PostEvent(a) \/ RecordDelivery(a) \/ StatementThrows(a) \/ DispatcherDies(a)

----------------------------------------------------------------------------
\* A dispatch that comes to its end has called every endpoint it selected and that is still there,
\* once, and its delivery tells the outcome: whichever endpoints were deleted and added meanwhile,
\* and whatever became of the other calls.  No endpoint is called twice.
EveryEndpointIsTried ==
    \A a \in Announcements :
      /\ \A e \in Slots : posts[a][e] <= 1
      /\ calls[a].pc = "done" =>
           \A e \in calls[a].asked \intersect There :
             \/ posts[a][e] = 1 /\ delivered[a][e] \in {"delivered", "failed"}
             \/ <<a, e>> \in missed
=============================================================================
