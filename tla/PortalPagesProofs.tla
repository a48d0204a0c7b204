-------------------------- MODULE PortalPagesProofs --------------------------
(***************************************************************************)
(* Proofs about PortalPages: every subscribed endpoint is called, for any  *)
(* number of announcements, endpoints and faults, whatever the merchant    *)
(* adds and deletes while the payment service works through them; a list   *)
(* shows what its form asks for; what is live is what the admin sent from  *)
(* the drawer of a route; the stored logo of a merchant is a file on the   *)
(* disk, a row of an API key shows what is stored, and the one secret of a *)
(* key in force was shown.  Each inductive invariant of a page follows the *)
(* request under way from the click to the answer.  That both pages of a   *)
(* route show what is deployed is a fact about filters and sorts, which    *)
(* are described by the places of the list they pick and in which order.   *)
(***************************************************************************)
EXTENDS PortalPages, FiniteSetTheorems, TLAPS

Busy == {"row", "post", "answered", "refused"}

DispatchTypes ==
    /\ \E Events : endpoints \in Seq([there : BOOLEAN, events : Events])
    /\ Len(endpoints) <= MaxEndpoints
    /\ calls \in [Announcements -> [pc : Busy \union {"idle", "next", "done", "dead"},
                                    asked : SUBSET Nat, left : SUBSET Nat, at : Nat]]
    /\ delivered \in [Announcements -> [Slots -> {"none", "pending", "delivered", "failed"}]]
    /\ posts \in [Announcements -> [Slots -> Nat]]

\* What is left was asked for, and the one at work is neither left nor done.
CallShape(a) ==
    /\ calls[a].left \subseteq calls[a].asked
    /\ calls[a].asked \subseteq DOMAIN endpoints
    /\ calls[a].pc \in Busy => calls[a].at \in calls[a].asked \ calls[a].left
    /\ calls[a].pc = "done" => calls[a].left = {}

\* Nobody is sent the event before it is his turn, nor twice.
PostsInv(a) ==
    /\ \A e \in Slots : posts[a][e] \in {0, 1}
    /\ calls[a].pc = "idle" => \A e \in Slots : posts[a][e] = 0
    /\ \A e \in calls[a].left : posts[a][e] = 0
    /\ calls[a].pc \in {"row", "post"} => posts[a][calls[a].at] = 0
    /\ calls[a].pc \in {"answered", "refused"} => posts[a][calls[a].at] = 1

\* While its endpoint is there, the delivery of the one at work is there from its row on.
RowInv(a) ==
    calls[a].pc \in {"post", "answered", "refused"} /\ calls[a].at \in There
      => delivered[a][calls[a].at] # "none"

Tried(a, e) ==
    \/ posts[a][e] = 1 /\ delivered[a][e] \in {"delivered", "failed"}
    \/ <<a, e>> \in missed

\* Who is not left and not at work was tried, unless he is gone or the process is.
TriedInv(a) ==
    calls[a].pc # "dead" =>
      \A e \in (calls[a].asked \intersect There) \ calls[a].left :
        \/ calls[a].pc \in Busy /\ e = calls[a].at
        \/ Tried(a, e)

CallInv(a) == CallShape(a) /\ PostsInv(a) /\ RowInv(a) /\ TriedInv(a)
DispatchInv == DispatchTypes /\ \A a \in Announcements : CallInv(a)

\* What a sequence is, and that it may be one of more.
LEMMA SequenceFacts ==
  ASSUME NEW S, NEW T, S \subseteq T, NEW s \in Seq(S)
  PROVE  /\ Len(s) \in Nat /\ DOMAIN s = 1..Len(s)
         /\ \A i \in DOMAIN s : s[i] \in S
         /\ s \in Seq(T)
OBVIOUS

\* An endpoint that is or was there has a slot.
LEMMA AskedAreSlots ==
  ASSUME DispatchTypes
  PROVE  There \subseteq DOMAIN endpoints /\ DOMAIN endpoints \subseteq Slots /\ Slots \subseteq Nat
BY EndpointAssumption DEF DispatchTypes, There, Slots

\* Before anything is announced nobody was called.
LEMMA DispatchInitHolds == HookInit => DispatchInv
<1> SUFFICES ASSUME HookInit PROVE DispatchInv
  OBVIOUS
<1>1. PICK es \in FirstEndpoints : endpoints = [e \in DOMAIN es |-> [there |-> TRUE, events |-> es[e]]]
  BY DEF HookInit
<1>2. es \in Seq(SUBSET WebhookEvents) /\ Len(es) <= MaxEndpoints
  BY EndpointAssumption
<1>3. DispatchTypes
  <2> DEFINE Row == [there : BOOLEAN, events : SUBSET WebhookEvents]
  <2>1. endpoints \in Seq(Row) /\ Len(endpoints) <= MaxEndpoints
    <3>1. /\ Len(es) \in Nat /\ DOMAIN es = 1..Len(es)
          /\ \A e \in DOMAIN es : es[e] \in SUBSET WebhookEvents
      BY <1>2
    <3>2. endpoints \in [1..Len(es) -> Row]
      BY <1>1, <3>1
    <3> HIDE DEF Row
    <3> QED
      BY <1>2, <3>1, <3>2
  <2> QED
    BY <2>1 DEF HookInit, DispatchTypes, Busy
<1>4. ASSUME NEW a \in Announcements PROVE CallInv(a)
  BY DEF HookInit, CallInv, CallShape, PostsInv, RowInv, TriedInv, Busy
<1> QED
  BY <1>3, <1>4 DEF DispatchInv

\* The merchant adds an endpoint, which nobody asked for.
LEMMA AddingKeeps ==
  ASSUME DispatchInv, NEW r, StoreEndpoint(r)
  PROVE  DispatchInv'
<1> DEFINE new == [there |-> TRUE, events |-> r.body.events]
<1>1. /\ Len(endpoints) < MaxEndpoints
      /\ endpoints' = Append(endpoints, new)
      /\ UNCHANGED <<calls, delivered, posts, missed>>
  BY DEF StoreEndpoint, Back, dispatching
<1>2. PICK Events : endpoints \in Seq([there : BOOLEAN, events : Events])
  BY DEF DispatchInv, DispatchTypes
<1> DEFINE Row == [there : BOOLEAN, events : Events \union {r.body.events}]
<1>0. new \in Row /\ [there : BOOLEAN, events : Events] \subseteq Row
  OBVIOUS
<1> HIDE DEF new, Row
<1>3. /\ endpoints' \in Seq(Row) /\ Len(endpoints') = Len(endpoints) + 1
      /\ Len(endpoints) \in Nat
      /\ DOMAIN endpoints = 1..Len(endpoints) /\ DOMAIN endpoints' = 1..Len(endpoints')
      /\ \A e \in DOMAIN endpoints : endpoints'[e] = endpoints[e]
  <2>1. endpoints \in Seq(Row)
    BY <1>0, <1>2, SequenceFacts
  <2> QED
    BY <1>0, <1>1, <2>1
<1>4. /\ DOMAIN endpoints \subseteq DOMAIN endpoints'
      /\ There' \intersect DOMAIN endpoints = There
  <2>1. DOMAIN endpoints \subseteq DOMAIN endpoints'
    BY <1>3
  <2> QED
    BY <1>3, <2>1, Zenon DEF There
<1>5. DispatchTypes'
  <2>1. endpoints' \in Seq([there : BOOLEAN, events : Events \union {r.body.events}])
    BY <1>3 DEF Row
  <2>2. \E E : endpoints' \in Seq([there : BOOLEAN, events : E])
    BY <2>1, Zenon
  <2>3. Len(endpoints') <= MaxEndpoints
    BY <1>1, <1>3, EndpointAssumption
  <2> QED
    BY <1>1, <2>2, <2>3 DEF DispatchInv, DispatchTypes, Slots
<1>6. ASSUME NEW a \in Announcements PROVE CallInv(a)'
  <2>1. CallInv(a)
    BY DEF DispatchInv
  <2>2. CallShape(a)' /\ PostsInv(a)'
    BY <1>1, <1>4, <2>1 DEF CallInv, CallShape, PostsInv, Slots
  <2>3. calls[a].pc \in Busy => calls[a].at \in DOMAIN endpoints
    BY <2>1 DEF CallInv, CallShape
  <2>4. RowInv(a)'
    BY <1>1, <1>4, <2>1, <2>3 DEF CallInv, RowInv, Busy
  <2>5. TriedInv(a)'
    BY <1>1, <1>4, <2>1 DEF CallInv, CallShape, TriedInv, Tried
  <2> QED
    BY <2>2, <2>4, <2>5 DEF CallInv
<1> QED
  BY <1>5, <1>6 DEF DispatchInv

\* The merchant deletes an endpoint, which nobody misses; only its own deliveries go with it.
LEMMA DeletingKeeps ==
  ASSUME DispatchInv, NEW r, DestroyEndpoint(r)
  PROVE  DispatchInv'
<1> DEFINE k == r.body.endpoint
<1>1. /\ k \in There
      /\ endpoints' = [endpoints EXCEPT ![k].there = FALSE]
      /\ delivered' = [a \in Announcements |-> [delivered[a] EXCEPT ![k] = "none"]]
      /\ UNCHANGED <<calls, posts, missed>>
  BY DEF DestroyEndpoint, Back, dispatching
<1>2. PICK Events : endpoints \in Seq([there : BOOLEAN, events : Events])
  BY DEF DispatchInv, DispatchTypes
<1> DEFINE Row == [there : BOOLEAN, events : Events]
           gone == [endpoints[k] EXCEPT !.there = FALSE]
<1> HIDE DEF k
<1>3. /\ DOMAIN endpoints = 1..Len(endpoints) /\ Len(endpoints) \in Nat
      /\ k \in DOMAIN endpoints
      /\ endpoints[k] \in Row
  <2>1. k \in DOMAIN endpoints
    BY <1>1 DEF There
  <2>2. endpoints \in Seq(Row)
    BY <1>2
  <2> HIDE DEF Row
  <2> QED
    BY <2>1, <2>2, SequenceFacts
<1>4. gone \in Row /\ ~gone.there
  BY <1>3 DEF Row
<1>5. endpoints' = [endpoints EXCEPT ![k] = gone]
  BY <1>1
<1> HIDE DEF gone, Row
<1>6. /\ endpoints' \in Seq(Row) /\ Len(endpoints') = Len(endpoints)
      /\ DOMAIN endpoints' = DOMAIN endpoints
      /\ There' = There \ {k}
  <2>1. endpoints \in Seq(Row)
    BY <1>2 DEF Row
  <2>2. /\ endpoints' \in Seq(Row) /\ Len(endpoints') = Len(endpoints)
        /\ DOMAIN endpoints' = DOMAIN endpoints
    BY <1>3, <1>4, <1>5, <2>1
  <2>3. There' = There \ {k}
    BY <1>3, <1>4, <1>5, <2>2 DEF There
  <2> QED
    BY <2>2, <2>3
<1>7. /\ delivered' \in [Announcements -> [Slots -> {"none", "pending", "delivered", "failed"}]]
      /\ \A a \in Announcements : \A e \in Slots \ {k} : delivered'[a][e] = delivered[a][e]
  BY <1>1 DEF DispatchInv, DispatchTypes
<1>8. DispatchTypes'
  BY <1>1, <1>6, <1>7, EndpointAssumption DEF DispatchInv, DispatchTypes, Slots, Row
<1>9. ASSUME NEW a \in Announcements PROVE CallInv(a)'
  <2>1. CallInv(a) /\ There \subseteq Slots
    BY AskedAreSlots DEF DispatchInv
  <2>2. CallShape(a)' /\ PostsInv(a)'
    BY <1>1, <1>6, <2>1 DEF CallInv, CallShape, PostsInv, Slots
  <2>3. RowInv(a)'
    BY <1>1, <1>6, <1>7, <2>1 DEF CallInv, RowInv
  <2>4. TriedInv(a)'
    BY <1>1, <1>6, <1>7, <2>1 DEF CallInv, TriedInv, Tried
  <2> QED
    BY <2>2, <2>3, <2>4 DEF CallInv
<1> QED
  BY <1>8, <1>9 DEF DispatchInv

\* What one announcement's step leaves alone stays right for it.
LEMMA OthersKeep ==
  ASSUME DispatchInv, NEW a \in Announcements, NEW b \in Announcements,
         UNCHANGED endpoints, missed \subseteq missed',
         calls'[b] = calls[b], delivered'[b] = delivered[b], posts'[b] = posts[b]
  PROVE  CallInv(b)'
<1>1. CallInv(b) /\ There' = There
  BY DEF DispatchInv, There
<1>2. CallShape(b)'
  BY <1>1 DEF CallInv, CallShape
<1>3. PostsInv(b)'
  BY <1>1 DEF CallInv, PostsInv, Slots
<1>4. RowInv(b)' /\ TriedInv(b)'
  BY <1>1 DEF CallInv, RowInv, TriedInv, Tried
<1> QED
  BY <1>2, <1>3, <1>4 DEF CallInv

Calls == [pc : Busy \union {"idle", "next", "done", "dead"}, asked : SUBSET Nat, left : SUBSET Nat, at : Nat]
Deliveries == {"none", "pending", "delivered", "failed"}

\* One who is at work has a slot.
LEMMA AtSlot ==
  ASSUME DispatchInv, NEW a \in Announcements
  PROVE  /\ calls \in [Announcements -> Calls] /\ calls[a] \in Calls /\ There \subseteq Nat
         /\ calls[a].left \subseteq calls[a].asked /\ calls[a].asked \subseteq Slots
         /\ calls[a].pc \in Busy => calls[a].at \in Slots
BY AskedAreSlots DEF DispatchInv, DispatchTypes, CallInv, CallShape, Calls

\* An announcement's step writes its own call, and at most its delivery and its post at one slot.
LEMMA StepTypes ==
  ASSUME DispatchInv, NEW a \in Announcements, UNCHANGED endpoints, missed \subseteq missed',
         NEW c \in Calls, calls' = [calls EXCEPT ![a] = c],
         \/ delivered' = delivered
         \/ \E e \in Slots, d \in Deliveries : delivered' = [delivered EXCEPT ![a][e] = d],
         \/ posts' = posts
         \/ \E e \in Slots : posts' = [posts EXCEPT ![a][e] = @ + 1],
         CallInv(a)'
  PROVE  DispatchInv'
<1>1. calls' \in [Announcements -> Calls] /\ \A b \in Announcements \ {a} : calls'[b] = calls[b]
  BY DEF DispatchInv, DispatchTypes, Calls
<1>2. /\ delivered' \in [Announcements -> [Slots -> Deliveries]]
      /\ \A b \in Announcements \ {a} : delivered'[b] = delivered[b]
  <2>1. delivered \in [Announcements -> [Slots -> Deliveries]]
    BY DEF DispatchInv, DispatchTypes, Deliveries
  <2>2. CASE \E e \in Slots, d \in Deliveries : delivered' = [delivered EXCEPT ![a][e] = d]
    BY <2>1, <2>2
  <2> QED
    BY <2>1, <2>2
<1>3. /\ posts' \in [Announcements -> [Slots -> Nat]]
      /\ \A b \in Announcements \ {a} : posts'[b] = posts[b]
  <2>1. posts \in [Announcements -> [Slots -> Nat]]
    BY DEF DispatchInv, DispatchTypes
  <2>2. CASE \E e \in Slots : posts' = [posts EXCEPT ![a][e] = @ + 1]
    BY <2>1, <2>2
  <2> QED
    BY <2>1, <2>2
<1>4. DispatchTypes'
  BY <1>1, <1>2, <1>3 DEF DispatchInv, DispatchTypes, Calls, Deliveries, Slots
<1>5. ASSUME NEW b \in Announcements \ {a} PROVE CallInv(b)'
  BY <1>1, <1>2, <1>3, OthersKeep
<1> QED
  BY <1>4, <1>5 DEF DispatchInv

Moved(a, c, pc) ==
    /\ calls' = [calls EXCEPT ![a] = c] /\ calls'[a] = c
    /\ c.pc = pc /\ c.left = calls[a].left /\ c.asked = calls[a].asked /\ c.at = calls[a].at

\* A call that only goes on keeps who was asked, who is left and who is at work.
LEMMA MovedCall ==
  ASSUME DispatchInv, NEW a \in Announcements,
         NEW pc \in Busy \union {"next", "done", "dead"}, Calling(a, pc)
  PROVE  \E c \in Calls : Moved(a, c, pc)
<1> DEFINE c == [calls[a] EXCEPT !.pc = pc]
<1>1. c \in Calls /\ c.pc = pc /\ c.left = calls[a].left /\ c.asked = calls[a].asked /\ c.at = calls[a].at
  BY AtSlot DEF Calls
<1>2. calls' = [calls EXCEPT ![a] = c]
  BY DEF Calling
<1> HIDE DEF c
<1>3. calls'[a] = c
  BY <1>2, AtSlot
<1> QED
  BY <1>1, <1>2, <1>3 DEF Moved

\* The endpoints are selected, or the next of them has its turn.
LEMMA TurnSteps ==
  ASSUME DispatchInv, NEW a \in Announcements, SelectTargets(a) \/ NextTarget(a)
  PROVE  DispatchInv'
<1>1. /\ UNCHANGED <<endpoints, delivered, posts, missed>> /\ There' = There
  BY DEF SelectTargets, NextTarget, AtCall, There
<1>2. CallInv(a)
  BY DEF DispatchInv
<1>3. CASE SelectTargets(a)
  <2> DEFINE targets == {e \in There : Announces[a] \in endpoints[e].events}
             c == [pc |-> "next", asked |-> targets, left |-> targets, at |-> 0]
  <2>1. calls' = [calls EXCEPT ![a] = c] /\ calls[a].pc = "idle"
    BY <1>3 DEF SelectTargets, AtCall
  <2>2. c \in Calls /\ calls'[a] = c /\ targets \subseteq There /\ There \subseteq DOMAIN endpoints
    BY <2>1, AtSlot DEF Calls, There, DispatchInv, DispatchTypes
  <2>3. DOMAIN endpoints \subseteq Slots
    BY AskedAreSlots DEF DispatchInv
  <2> HIDE DEF targets
  <2>4. CallShape(a)'
    BY <1>1, <2>2 DEF CallShape, Busy
  <2>5. PostsInv(a)'
    BY <1>1, <1>2, <2>1, <2>2, <2>3 DEF CallInv, PostsInv, Slots
  <2>6. RowInv(a)' /\ TriedInv(a)'
    BY <1>1, <2>2 DEF RowInv, TriedInv
  <2> QED
    BY <1>1, <2>1, <2>2, <2>4, <2>5, <2>6, StepTypes DEF CallInv
<1>4. CASE NextTarget(a)
  <2>1. CASE \E e \in calls[a].left :
               calls' = [calls EXCEPT ![a] = [@ EXCEPT !.pc = "row", !.left = calls[a].left \ {e}, !.at = e]]
    <3>1. PICK e \in calls[a].left :
               calls' = [calls EXCEPT ![a] = [@ EXCEPT !.pc = "row", !.left = calls[a].left \ {e}, !.at = e]]
      BY <2>1
    <3> DEFINE c == [calls[a] EXCEPT !.pc = "row", !.left = calls[a].left \ {e}, !.at = e]
    <3>2. /\ c \in Calls /\ c.pc = "row" /\ c.left = calls[a].left \ {e} /\ c.at = e
          /\ c.asked = calls[a].asked
      <4>1. calls[a] \in Calls /\ e \in Nat /\ calls[a].left \ {e} \in SUBSET Nat
        BY AtSlot DEF Calls
      <4> QED
        BY <4>1 DEF Calls, Busy
    <3>3. calls' = [calls EXCEPT ![a] = c] /\ calls'[a] = c
      <4>1. calls' = [calls EXCEPT ![a] = c]
        BY <3>1
      <4> HIDE DEF c
      <4> QED
        BY <4>1, AtSlot
    <3> HIDE DEF c
    <3>4. calls[a].pc = "next" /\ e \in Slots
      BY <1>4, AtSlot DEF NextTarget, AtCall
    <3>5. CallShape(a)'
      BY <1>1, <1>2, <3>2, <3>3 DEF CallInv, CallShape, Busy
    <3>6. PostsInv(a)'
      BY <1>1, <1>2, <3>2, <3>3 DEF CallInv, PostsInv, Slots
    <3>7. RowInv(a)' /\ TriedInv(a)'
      BY <1>1, <1>2, <3>2, <3>3, <3>4 DEF CallInv, RowInv, TriedInv, Tried, Busy
    <3> QED
      BY <1>1, <3>2, <3>3, <3>5, <3>6, <3>7, StepTypes DEF CallInv
  <2>2. CASE calls[a].left = {} /\ Calling(a, "done")
    <3>1. PICK c \in Calls : Moved(a, c, "done")
      BY <2>2, MovedCall DEF Busy
    <3>3. calls' = [calls EXCEPT ![a] = c] /\ calls'[a] = c
      BY <3>1 DEF Moved
    <3>2. /\ c \in Calls /\ c.pc = "done" /\ c.left = {} /\ c.asked = calls[a].asked
      BY <2>2, <3>1 DEF Moved
    <3>4. calls[a].pc = "next"
      BY <1>4 DEF NextTarget, AtCall
    <3>5. CallShape(a)' /\ PostsInv(a)'
      BY <1>1, <1>2, <3>2, <3>3 DEF CallInv, CallShape, PostsInv, Busy, Slots
    <3>6. RowInv(a)' /\ TriedInv(a)'
      BY <1>1, <1>2, <2>2, <3>2, <3>3, <3>4 DEF CallInv, RowInv, TriedInv, Tried, Busy
    <3> QED
      BY <1>1, <3>2, <3>3, <3>5, <3>6, StepTypes DEF CallInv
  <2> QED
    BY <1>4, <2>1, <2>2 DEF NextTarget
<1> QED
  BY <1>3, <1>4

\* The row of the one at work is added, or its endpoint is gone.
LEMMA RowSteps ==
  ASSUME DispatchInv, NEW a \in Announcements, AddDelivery(a) \/ EndpointIsGone(a)
  PROVE  DispatchInv'
<1> DEFINE at == calls[a].at
<1>1. /\ UNCHANGED <<endpoints, posts, missed>> /\ There' = There
      /\ calls[a].pc = "row"
  BY DEF AddDelivery, EndpointIsGone, AtCall, There
<1>2. CallInv(a) /\ at \in Slots
  BY <1>1, AtSlot DEF DispatchInv, Busy
<1>3. CASE AddDelivery(a)
  <2>1. PICK c \in Calls : Moved(a, c, "post")
    BY <1>3, MovedCall DEF AddDelivery, Busy
  <2>2. /\ delivered' = [delivered EXCEPT ![a][at] = "pending"]
        /\ delivered'[a][at] = "pending"
        /\ \A e \in Slots \ {at} : delivered'[a][e] = delivered[a][e]
    BY <1>2, <1>3 DEF AddDelivery, DispatchInv, DispatchTypes
  <2>3. CallShape(a)' /\ PostsInv(a)'
    BY <1>1, <1>2, <2>1 DEF CallInv, CallShape, PostsInv, Moved, Busy, Slots
  <2>4. RowInv(a)'
    BY <2>1, <2>2 DEF RowInv, Moved
  <2>5. TriedInv(a)'
    BY <1>1, <1>2, <2>1, <2>2, AtSlot DEF CallInv, TriedInv, Tried, Moved, Busy
  <2> QED
    BY <1>1, <1>2, <2>1, <2>2, <2>3, <2>4, <2>5, StepTypes DEF CallInv, Moved, Deliveries
<1>4. CASE EndpointIsGone(a)
  <2>1. PICK c \in Calls : Moved(a, c, "next")
    BY <1>4, MovedCall DEF EndpointIsGone, Busy
  <2>2. UNCHANGED delivered /\ at \notin There
    BY <1>4 DEF EndpointIsGone
  <2>3. CallShape(a)' /\ PostsInv(a)' /\ RowInv(a)'
    BY <1>1, <1>2, <2>1 DEF CallInv, CallShape, PostsInv, RowInv, Moved, Busy, Slots
  <2>4. TriedInv(a)'
    BY <1>1, <1>2, <2>1, <2>2 DEF CallInv, TriedInv, Tried, Moved, Busy
  <2> QED
    BY <1>1, <2>1, <2>2, <2>3, <2>4, StepTypes DEF CallInv, Moved
<1> QED
  BY <1>3, <1>4

\* The one at work is sent the event, for the first time.
LEMMA PostSteps ==
  ASSUME DispatchInv, NEW a \in Announcements, PostEvent(a)
  PROVE  DispatchInv'
<1> DEFINE at == calls[a].at
<1>1. /\ UNCHANGED <<endpoints, delivered, missed>> /\ There' = There
      /\ calls[a].pc = "post"
      /\ posts' = [posts EXCEPT ![a][at] = @ + 1]
  BY DEF PostEvent, AtCall, There
<1>2. CallInv(a) /\ at \in Slots
  BY <1>1, AtSlot DEF DispatchInv, Busy
<1>3. PICK pc \in {"answered", "refused"} : Calling(a, pc)
  BY DEF PostEvent
<1>4. PICK c \in Calls : Moved(a, c, pc)
  BY <1>3, MovedCall DEF Busy
<1>5. /\ posts[a][at] = 0 /\ posts'[a][at] = 1
      /\ \A e \in Slots \ {at} : posts'[a][e] = posts[a][e]
  BY <1>1, <1>2 DEF CallInv, PostsInv, DispatchInv, DispatchTypes
<1>6. CallShape(a)' /\ RowInv(a)'
  BY <1>1, <1>2, <1>3, <1>4 DEF CallInv, CallShape, RowInv, Moved, Busy
<1>7. PostsInv(a)'
  BY <1>1, <1>2, <1>3, <1>4, <1>5, AtSlot DEF CallInv, CallShape, PostsInv, Moved, Busy, Slots
<1>8. TriedInv(a)'
  BY <1>1, <1>2, <1>3, <1>4, <1>5, AtSlot DEF CallInv, TriedInv, Tried, Moved, Busy
<1> QED
  BY <1>1, <1>2, <1>4, <1>6, <1>7, <1>8, StepTypes DEF CallInv, Moved

\* The outcome is written to the delivery, if it still is there.
LEMMA OutcomeSteps ==
  ASSUME DispatchInv, NEW a \in Announcements, RecordDelivery(a)
  PROVE  DispatchInv'
<1> DEFINE at == calls[a].at
<1>1. /\ UNCHANGED <<endpoints, posts, missed>> /\ There' = There
      /\ calls[a].pc \in {"answered", "refused"} /\ Calling(a, "next")
      /\ \E d \in {"delivered", "failed"} :
           delivered' = [delivered EXCEPT ![a][at] = IF @ = "none" THEN @ ELSE d]
  BY DEF RecordDelivery, AtCall, There
<1>2. CallInv(a) /\ at \in Slots
  BY <1>1, AtSlot DEF DispatchInv, Busy
<1>3. PICK c \in Calls : Moved(a, c, "next")
  BY <1>1, MovedCall DEF Busy
<1>4. delivered \in [Announcements -> [Slots -> Deliveries]]
  BY DEF DispatchInv, DispatchTypes, Deliveries
<1>5. PICK d \in {"delivered", "failed"} :
        delivered' = [delivered EXCEPT ![a][at] = IF @ = "none" THEN @ ELSE d]
  BY <1>1
<1>6. /\ \E x \in Deliveries : delivered' = [delivered EXCEPT ![a][at] = x]
      /\ delivered[a][at] # "none" => delivered'[a][at] \in {"delivered", "failed"}
      /\ \A e \in Slots \ {at} : delivered'[a][e] = delivered[a][e]
  <2> DEFINE x == IF delivered[a][at] = "none" THEN delivered[a][at] ELSE d
  <2>1. delivered' = [delivered EXCEPT ![a][at] = x]
    BY <1>5
  <2>2. x \in Deliveries /\ (delivered[a][at] # "none" => x \in {"delivered", "failed"})
    BY <1>2, <1>4 DEF Deliveries
  <2> HIDE DEF x
  <2> QED
    BY <1>2, <1>4, <2>1, <2>2
<1>7. CallShape(a)' /\ PostsInv(a)' /\ RowInv(a)'
  BY <1>1, <1>2, <1>3 DEF CallInv, CallShape, PostsInv, RowInv, Moved, Busy, Slots
<1>8. TriedInv(a)'
  <2>1. at \in There => posts'[a][at] = 1 /\ delivered'[a][at] \in {"delivered", "failed"}
    BY <1>1, <1>2, <1>6 DEF CallInv, PostsInv, RowInv
  <2> QED
    BY <1>1, <1>2, <1>3, <1>6, <2>1, AtSlot DEF CallInv, TriedInv, Tried, Moved, Busy
<1> QED
  BY <1>1, <1>2, <1>3, <1>6, <1>7, <1>8, StepTypes DEF CallInv, Moved

\* A statement throws, which is remembered, or the process dies, which ends the call.
LEMMA FaultSteps ==
  ASSUME DispatchInv, NEW a \in Announcements, StatementThrows(a) \/ DispatcherDies(a)
  PROVE  DispatchInv'
<1>1. /\ UNCHANGED <<endpoints, posts, delivered>> /\ There' = There
      /\ missed \subseteq missed'
  BY DEF StatementThrows, DispatcherDies, AtCall, There
<1>2. CallInv(a)
  BY DEF DispatchInv
<1>3. CASE StatementThrows(a)
  <2>1. PICK c \in Calls : Moved(a, c, "next")
    BY <1>3, MovedCall DEF StatementThrows, Busy
  <2>2. <<a, calls[a].at>> \in missed' /\ calls[a].pc \in Busy
    BY <1>3 DEF StatementThrows, AtCall, Busy
  <2>3. CallShape(a)' /\ PostsInv(a)' /\ RowInv(a)'
    BY <1>1, <1>2, <2>1, <2>2 DEF CallInv, CallShape, PostsInv, RowInv, Moved, Busy, Slots
  <2>4. TriedInv(a)'
    BY <1>1, <1>2, <2>1, <2>2 DEF CallInv, TriedInv, Tried, Moved, Busy
  <2> QED
    BY <1>1, <2>1, <2>3, <2>4, StepTypes DEF CallInv, Moved
<1>4. CASE DispatcherDies(a)
  <2>1. PICK c \in Calls : Moved(a, c, "dead")
    BY <1>4, MovedCall DEF DispatcherDies, Busy
  <2>2. CallInv(a)'
    BY <1>1, <1>2, <2>1 DEF CallInv, CallShape, PostsInv, RowInv, TriedInv, Moved, Busy, Slots
  <2> QED
    BY <1>1, <2>1, <2>2, StepTypes DEF Moved
<1> QED
  BY <1>3, <1>4

\* What a step of the page alone leaves as it is.
LEMMA StutterKeeps ==
  ASSUME DispatchInv, UNCHANGED <<endpoints, calls, delivered, posts, missed>>
  PROVE  DispatchInv'
<1>1. DispatchTypes' /\ There' = There
  BY DEF DispatchInv, DispatchTypes, There, Slots
<1>2. ASSUME NEW a \in Announcements PROVE CallInv(a)'
  BY OthersKeep
<1> QED
  BY <1>1, <1>2 DEF DispatchInv

\* Every step of the webhooks page, its controller and the dispatcher.
LEMMA HookSteps == DispatchInv /\ HookNext => DispatchInv'
<1> SUFFICES ASSUME DispatchInv, HookNext PROVE DispatchInv'
  OBVIOUS
<1>1. CASE UNCHANGED <<endpoints, calls, delivered, posts, missed>>
  BY <1>1, StutterKeeps
<1>2. CASE \E r \in inbox : StoreEndpoint(r)
  BY <1>2, AddingKeeps
<1>3. CASE \E r \in inbox : DestroyEndpoint(r)
  BY <1>3, DeletingKeeps
<1>4. CASE \E a \in Announcements :
         \/ SelectTargets(a) \/ NextTarget(a) \/ AddDelivery(a) \/ EndpointIsGone(a)
         \/ PostEvent(a) \/ RecordDelivery(a) \/ StatementThrows(a) \/ DispatcherDies(a)
  BY <1>4, TurnSteps, RowSteps, PostSteps, OutcomeSteps, FaultSteps
<1>5. ASSUME \/ \E open \in BOOLEAN : OpenHookForm(open)
             \/ \E events \in SUBSET WebhookEvents : SubmitEndpoint(events)
             \/ \E kind \in {"test", "delete"}, e \in Slots : AskFor(kind, e)
      PROVE  UNCHANGED <<endpoints, calls, delivered, posts, missed>>
  BY <1>5 DEF OpenHookForm, SubmitEndpoint, AskFor, hookTables, dispatching
<1>6. ASSUME NEW r, PingEndpoint(r) \/ ListEndpoints(r) \/ HookVisitFails(r) \/ EndpointsArrive(r)
      PROVE  UNCHANGED <<endpoints, calls, delivered, posts, missed>>
  <2>1. UNCHANGED hookTables /\ UNCHANGED dispatching
    BY <1>6 DEF PingEndpoint, ListEndpoints, HookVisitFails, EndpointsArrive, Back, hookVars
  <2> QED
    BY <2>1 DEF hookTables, dispatching
<1> QED
  BY <1>1, <1>2, <1>3, <1>4, <1>5, <1>6, Zenon DEF HookNext

\* On the other pages nothing of this moves.
LEMMA DispatchInvariant == Spec => []DispatchInv
<1>1. Init => DispatchInv
  BY DispatchInitHolds DEF Init
<1>2. DispatchInv /\ [Next]_portalVars => DispatchInv'
  <2> SUFFICES ASSUME DispatchInv, [Next]_portalVars PROVE DispatchInv'
    OBVIOUS
  <2>1. CASE HookNext
    BY <2>1, HookSteps
  <2>2. CASE UNCHANGED hookVars
    BY <2>2, StutterKeeps DEF hookVars, hookTables, dispatching
  <2> QED
    BY <2>1, <2>2 DEF Next, portalVars
<1> QED
  BY <1>1, <1>2, PTL DEF Spec

\* A dispatch that ends has called every endpoint it selected and that still is there, once, and
\* its delivery tells the outcome (webhook_dispatcher.py:53).
THEOREM EndpointsTried == Spec => []EveryEndpointIsTried
<1>1. DispatchInv => EveryEndpointIsTried
  <2> SUFFICES ASSUME DispatchInv, NEW a \in Announcements
               PROVE  /\ \A e \in Slots : posts[a][e] <= 1
                      /\ calls[a].pc = "done" =>
                           \A e \in calls[a].asked \intersect There :
                             \/ posts[a][e] = 1 /\ delivered[a][e] \in {"delivered", "failed"}
                             \/ <<a, e>> \in missed
    BY DEF EveryEndpointIsTried
  <2>1. CallInv(a)
    BY DEF DispatchInv
  <2> QED
    BY <2>1 DEF CallInv, CallShape, PostsInv, TriedInv, Tried, Busy
<1> QED
  BY <1>1, DispatchInvariant, PTL

-----------------------------------------------------------------------------
(***************************************************************************)
(* The filtered lists                                                      *)
(***************************************************************************)

\* What the answer to a visit will leave in the filters: the list is mounted anew, or asked for by
\* what the form says.
Agrees(r, form) == r.body.filter = form \/ (r.kind = "list" /\ ~r.body.keep)

ListFields == {"list", "form", "filter", "page", "rows", "open", "timer", "touched", "dialogue", "to"}

\* Visits are numbered; only the one under way is answered, unless it was lost.
Numbered ==
    /\ sent \in Nat /\ current \in 0..sent
    /\ \A r \in inbox : r.no \in 1..sent
    /\ ~dropped => \A a \in answered : a.no = current

\* Once nothing waits to be applied, the form says what was asked for last.
Asked ==
    /\ current = 0 => listPage.filter = listPage.form
    /\ \A r \in inbox \union answered : r.no = current => Agrees(r, listPage.form)

ListInv ==
    /\ ListFields \subseteq DOMAIN listPage
    /\ listPage.list.timer \in BOOLEAN
    /\ listPage.rows = PageRows(listPage.filter, listPage.page)
    /\ Numbered
    /\ ~dropped /\ ~listPage.timer /\ ~listPage.touched => Asked

LEMMA MountedFacts ==
  ASSUME NEW list, list.timer \in BOOLEAN, NEW filter, NEW no
  PROVE  LET page == ListMounted(list, filter, no)
         IN  /\ ListFields \subseteq DOMAIN page /\ page.list.timer \in BOOLEAN
             /\ page.rows = PageRows(page.filter, page.page) /\ page.filter = page.form
BY DEF ListMounted, ListFields

LEMMA ListInitHolds == ListInit /\ NetInit => ListInv
<1> SUFFICES ASSUME ListInit, NetInit PROVE ListInv
  OBVIOUS
<1>1. PICK list \in Lists : listPage = ListMounted(list, NoFilter, 1)
  BY DEF ListInit
<1>2. list.timer \in BOOLEAN
  <2>1. \A kept \in {SaasKeys, SaasPayments, SaasDeliveries, AdminKeys, AdminPayments, AdminMerchants} : kept.timer \in BOOLEAN
    <3>1. SaasKeys.timer = FALSE /\ SaasPayments.timer = FALSE /\ SaasDeliveries.timer = FALSE
      BY DEF SaasKeys, SaasPayments, SaasDeliveries
    <3>2. AdminKeys.timer = FALSE /\ AdminPayments.timer = FALSE /\ AdminMerchants.timer = TRUE
      BY DEF AdminKeys, AdminPayments, AdminMerchants
    <3> QED
      BY <3>1, <3>2
  <2> QED
    BY <2>1 DEF Lists
<1>3. inbox = {} /\ answered = {} /\ sent = 0 /\ current = 0
  BY DEF NetInit
<1> QED
  BY <1>1, <1>2, <1>3, MountedFacts DEF ListInv, Numbered, Asked

\* What is done on the list alone: the form changes with a mark, or not at all.
LEMMA ListLocalSteps ==
  ASSUME ListInv,
         \/ \E f \in Filters \union {NoFilter} : TypeFilter(f)
         \/ \E e \in ToSet(listPage.rows) :
              ToggleWorkflow(e) \/ ToggleRow(e) \/ ShowAll(e) \/ OpenAssign(e) \/ ChooseMerchant(e)
         \/ CloseAssign
  PROVE  ListInv'
<1>1. UNCHANGED <<dropped, current, inbox, answered, sent>>
  BY DEF TypeFilter, ToggleWorkflow, ToggleRow, ShowAll, OpenAssign, ChooseMerchant, CloseAssign, Unfolds,
         OnList, InDialogue, Act
<1>2. \/ \E f : listPage' = [listPage EXCEPT !.form = f, !.timer = listPage.list.timer, !.touched = ~listPage.list.timer]
      \/ \E rows : listPage' = [listPage EXCEPT !.open = rows]
      \/ \E e : listPage' = [listPage EXCEPT !.dialogue = TRUE, !.to = e]
      \/ \E e : listPage' = [listPage EXCEPT !.to = e]
      \/ listPage' = [listPage EXCEPT !.dialogue = FALSE]
  BY Zenon DEF TypeFilter, ToggleWorkflow, ToggleRow, ShowAll, OpenAssign, ChooseMerchant, CloseAssign, Unfolds,
         OnList, InDialogue
<1>3. CASE \E f : listPage' = [listPage EXCEPT !.form = f, !.timer = listPage.list.timer, !.touched = ~listPage.list.timer]
  BY <1>1, <1>3 DEF ListInv, ListFields, Numbered
<1>4. CASE \/ \E rows : listPage' = [listPage EXCEPT !.open = rows]
           \/ \E e : listPage' = [listPage EXCEPT !.dialogue = TRUE, !.to = e]
           \/ \E e : listPage' = [listPage EXCEPT !.to = e]
           \/ listPage' = [listPage EXCEPT !.dialogue = FALSE]
  <2>1. /\ ListFields \subseteq DOMAIN listPage' /\ listPage'.list = listPage.list
        /\ listPage'.form = listPage.form /\ listPage'.filter = listPage.filter
        /\ listPage'.page = listPage.page /\ listPage'.rows = listPage.rows
        /\ listPage'.timer = listPage.timer /\ listPage'.touched = listPage.touched
    BY <1>4 DEF ListInv, ListFields
  <2> QED
    BY <1>1, <2>1 DEF ListInv, Numbered, Asked
<1> QED
  BY <1>2, <1>3, <1>4

\* A visit of the list's is numbered anew, so that earlier answers find nobody.
LEMMA NewVisit ==
  ASSUME Numbered, NEW kind, NEW body, Follow(kind, body)
  PROVE  /\ Numbered' /\ current' # 0 /\ answered' = {}
         /\ inbox' = inbox \union {Request(kind, body)}
         /\ \A r \in inbox' : r.no = current' => r = Request(kind, body)
<1>1. sent' = sent + 1 /\ current' = sent + 1 /\ answered' = {} /\ inbox' = inbox \union {Request(kind, body)}
  BY DEF Follow
<1>2. Request(kind, body).no = sent + 1
  BY DEF Request
<1> QED
  BY <1>1, <1>2 DEF Numbered

LEMMA ListVisitSteps ==
  ASSUME ListInv,
         SubmitFilters \/ ResetFilters \/ FilterTimer \/ \E no \in PagesOf(listPage.filter) : FollowLink(no)
  PROVE  ListInv'
<1>1. ASSUME NEW body, NEW page, Follow("list", body), listPage' = page, UNCHANGED dropped,
             ListFields \subseteq DOMAIN page, page.list = listPage.list,
             page.filter = listPage.filter, page.page = listPage.page, page.rows = listPage.rows,
             body.filter = page.form \/ ~body.keep
      PROVE  ListInv'
  <2>1. /\ Numbered' /\ current' # 0 /\ answered' = {}
        /\ \A r \in inbox' : r.no = current' => r = Request("list", body)
    BY <1>1, NewVisit DEF ListInv
  <2>2. Request("list", body).kind = "list" /\ Request("list", body).body = body
    BY DEF Request
  <2>3. Agrees(Request("list", body), page.form)
    BY <1>1, <2>2 DEF Agrees
  <2> QED
    BY <1>1, <2>1, <2>3 DEF ListInv, Asked
<1> DEFINE Sent(by, filter, no, keep) == [by |-> by, filter |-> filter, page |-> no, keep |-> keep]
<1>2. CASE SubmitFilters
  <2>1. /\ Follow("list", Sent("form", listPage.form, 1, listPage.list.keeps))
        /\ listPage' = [listPage EXCEPT !.touched = FALSE] /\ UNCHANGED dropped
    BY <1>2 DEF SubmitFilters, AsksFor, Visit
  <2>2. /\ Sent("form", listPage.form, 1, listPage.list.keeps).filter = listPage.form
        /\ [listPage EXCEPT !.touched = FALSE].form = listPage.form
    BY DEF ListInv, ListFields
  <2> QED
    BY <1>1, <2>1, <2>2 DEF ListInv, ListFields
<1>3. CASE ResetFilters
  <2>1. /\ Follow("list", Sent("reset", NoFilter, 1, FALSE))
        /\ listPage' = [listPage EXCEPT !.form = NoFilter, !.touched = FALSE] /\ UNCHANGED dropped
    BY <1>3 DEF ResetFilters, AsksFor, Visit
  <2>2. ~Sent("reset", NoFilter, 1, FALSE).keep
    OBVIOUS
  <2>3. PICK page : page = [listPage EXCEPT !.form = NoFilter, !.touched = FALSE]
    OBVIOUS
  <2>4. /\ ListFields \subseteq DOMAIN page /\ page.list = listPage.list /\ page.filter = listPage.filter
        /\ page.page = listPage.page /\ page.rows = listPage.rows
    BY <2>3 DEF ListInv, ListFields
  <2> HIDE DEF Sent
  <2> QED
    BY <1>1, <2>1, <2>2, <2>3, <2>4
<1>4. CASE FilterTimer
  <2>1. /\ Follow("list", Sent("timer", listPage.form, 1, TRUE))
        /\ listPage' = [listPage EXCEPT !.timer = FALSE] /\ UNCHANGED dropped
    BY <1>4 DEF FilterTimer
  <2> QED
    BY <1>1, <2>1 DEF ListInv, ListFields
<1>5. CASE \E no \in PagesOf(listPage.filter) : FollowLink(no)
  <2>1. \E no, filter : Follow("list", Sent("link", filter, no, FALSE)) /\ UNCHANGED <<listPage, dropped>>
    BY <1>5 DEF FollowLink, AsksFor, Visit
  <2> QED
    BY <1>1, <2>1 DEF ListInv
<1> QED
  BY <1>2, <1>3, <1>4, <1>5

\* The dialogue's visit asks for the list as it is.
LEMMA AssignSteps ==
  ASSUME ListInv, NEW valid \in BOOLEAN, AssignProviderTo(valid)
  PROVE  ListInv'
<1> DEFINE body == [by |-> "assign", to |-> listPage.to, valid |-> valid, filter |-> listPage.filter, page |-> listPage.page]
<1>1. /\ Follow("assign", body) /\ UNCHANGED listPage
      /\ dropped' = (dropped \/ current # 0)
  BY DEF AssignProviderTo, Visit
<1>2. ~dropped' => ~dropped /\ current = 0
  BY <1>1, Zenon
<1>3. Request("assign", body).body.filter = listPage.filter
  BY DEF Request
<1> HIDE DEF body
<1>4. /\ Numbered' /\ current' # 0 /\ answered' = {}
      /\ \A r \in inbox' : r.no = current' => r = Request("assign", body)
  BY <1>1, NewVisit DEF ListInv
<1> QED
  BY <1>1, <1>2, <1>3, <1>4 DEF ListInv, Asked, Agrees

LEMMA ListServerSteps ==
  ASSUME ListInv, NEW r \in inbox, StoreProvider(r) \/ ServeRows(r)
  PROVE  ListInv'
<1>1. UNCHANGED <<listPage, dropped, current, sent>>
  BY DEF StoreProvider, ServeRows, Served, ServedWith, listVars
<1>2. PICK next : /\ inbox' \union answered' \subseteq inbox \union answered \union {next}
                  /\ inbox' \subseteq inbox \union {next} /\ next.no = r.no
                  /\ answered' = answered \/ (answered' = {next} /\ r.no = current)
                  /\ \A form : Agrees(r, form) => Agrees(next, form)
  <2>1. CASE StoreProvider(r)
    <3> DEFINE next == [no |-> r.no, kind |-> "list",
                        body |-> [by |-> IF r.body.valid THEN "assign" ELSE "refused", filter |-> r.body.filter,
                                  page |-> r.body.page, keep |-> TRUE]]
    <3>1. inbox' \subseteq inbox \union {next} /\ answered' = answered /\ r.kind = "assign"
      BY <2>1 DEF StoreProvider
    <3>2. next.no = r.no /\ next.body.filter = r.body.filter
      OBVIOUS
    <3> HIDE DEF next
    <3> QED
      BY <3>1, <3>2 DEF Agrees
  <2>2. CASE ServeRows(r)
    <3> DEFINE next == [no |-> r.no, kind |-> r.kind, body |-> r.body, ok |-> TRUE]
    <3>1. inbox' \subseteq inbox /\ answered' = IF r.no = current THEN {next} ELSE answered
      BY <2>2 DEF ServeRows, Served, ServedWith
    <3>2. next.no = r.no /\ next.body = r.body /\ next.kind = r.kind
      OBVIOUS
    <3> HIDE DEF next
    <3> QED
      BY <3>1, <3>2 DEF Agrees
  <2> QED
    BY <2>1, <2>2
<1>3. Numbered'
  BY <1>1, <1>2 DEF ListInv, Numbered
<1> QED
  BY <1>1, <1>2, <1>3 DEF ListInv, Asked

LEMMA ListLossSteps ==
  ASSUME ListInv, NEW r \in inbox \union answered, ListLost(r)
  PROVE  ListInv'
<1>1. /\ UNCHANGED <<listPage, sent>> /\ dropped'
      /\ inbox' \subseteq inbox /\ answered' = answered \ {r}
      /\ current' = IF current = r.no THEN 0 ELSE current
  BY DEF ListLost, Lost
<1>2. Numbered'
  BY <1>1 DEF ListInv, Numbered
<1> QED
  BY <1>1, <1>2 DEF ListInv

\* The answer to the visit under way says what the form says, or mounts the form anew.
LEMMA ListAnswerSteps ==
  ASSUME ListInv, NEW a \in answered, RowsArrive(a)
  PROVE  ListInv'
<1>1. UNCHANGED <<dropped, inbox, sent>> /\ current' = 0 /\ answered' = {}
  BY DEF RowsArrive, Returned
<1>2. Numbered' /\ \A r \in inbox' : r.no # current'
  BY <1>1 DEF ListInv, Numbered
<1>3. CASE ~a.body.keep
  <2>1. listPage' = ListMounted(listPage.list, a.body.filter, a.body.page)
    BY <1>3 DEF RowsArrive
  <2> QED
    BY <1>1, <1>2, <2>1, MountedFacts DEF ListInv, Asked
<1>4. CASE a.body.keep
  <2>1. \E d : listPage' = [listPage EXCEPT !.filter = a.body.filter, !.page = a.body.page,
                                           !.rows = PageRows(a.body.filter, a.body.page), !.dialogue = d]
    BY <1>4 DEF RowsArrive
  <2>2. /\ ListFields \subseteq DOMAIN listPage' /\ listPage'.list = listPage.list
        /\ listPage'.form = listPage.form /\ listPage'.filter = a.body.filter
        /\ listPage'.rows = PageRows(listPage'.filter, listPage'.page)
        /\ listPage'.timer = listPage.timer /\ listPage'.touched = listPage.touched
    BY <2>1 DEF ListInv, ListFields
  <2>3. ~dropped /\ ~listPage.timer /\ ~listPage.touched => Agrees(a, listPage.form)
    BY DEF ListInv, Asked, Numbered
  <2> QED
    BY <1>1, <1>2, <1>4, <2>2, <2>3 DEF ListInv, Asked, Agrees
<1> QED
  BY <1>3, <1>4

LEMMA ListSteps == ListInv /\ ListNext => ListInv'
BY ListLocalSteps, ListVisitSteps, AssignSteps, ListServerSteps, ListLossSteps, ListAnswerSteps DEF ListNext

\* The other pages leave the list alone, as it was mounted.
ListOrNone ==
    IF shownPage = "list" THEN ListInv
    ELSE listPage.filter = listPage.form /\ listPage.rows = PageRows(listPage.filter, listPage.page)

LEMMA ListInvariant == Spec => []ListOrNone
<1>1. Init => ListOrNone
  <2> SUFFICES ASSUME Init PROVE ListOrNone
    OBVIOUS
  <2>1. ListInv
    BY ListInitHolds DEF Init
  <2>2. listPage.filter = listPage.form
    BY DEF Init, ListInit, ListMounted
  <2> QED
    BY <2>1, <2>2 DEF ListOrNone, ListInv
<1>2. ListOrNone /\ [Next]_portalVars => ListOrNone'
  <2> SUFFICES ASSUME ListOrNone, [Next]_portalVars PROVE ListOrNone'
    OBVIOUS
  <2>1. CASE shownPage = "list" /\ ListNext /\ UNCHANGED shownPage
    BY <2>1, ListSteps DEF ListOrNone
  <2>2. CASE UNCHANGED <<shownPage, listVars>> /\ (shownPage # "list" \/ UNCHANGED net)
    <3>1. CASE shownPage # "list"
      BY <2>2, <3>1 DEF ListOrNone, listVars
    <3>2. CASE UNCHANGED net
      BY <2>2, <3>2 DEF ListOrNone, listVars, net, ListInv, Numbered, Asked
    <3> QED
      BY <2>2, <3>1, <3>2
  <2> QED
    BY <2>1, <2>2 DEF Next, portalVars
<1> QED
  BY <1>1, <1>2, PTL DEF Spec

\* A list at rest shows what its form says, for any list, filters and order of answers, unless a
\* visit was dropped (the portals' Index.jsx pages).
THEOREM RowsAreAskedFor == Spec => []ListIsWhatFormSays
<1>1. ListOrNone => ListIsWhatFormSays
  BY DEF ListOrNone, ListInv, Asked, ListIsWhatFormSays
<1> QED
  BY <1>1, ListInvariant, PTL

-----------------------------------------------------------------------------
(***************************************************************************)
(* The drawer of a route                                                   *)
(***************************************************************************)

\* One request at most is under way, unless visits were interrupted or lost.
OneRequest ==
    /\ sent \in Nat
    /\ \A r, q \in inbox : r = q
    /\ answered # {} => inbox = {}
    /\ current = 0 => inbox = {} /\ answered = {}

IsRoute(r) == {"status", "version", "nodes", "edges", "stamp", "versions"} \subseteq DOMAIN r
Live(e) == routes[e].status = "published" => e \in DOMAIN meant /\ GraphOf(routes[e]) = meant[e]
RoutesInv ==
    /\ \A e \in DOMAIN routes : IsRoute(routes[e]) /\ Live(e)
    /\ {"list", "filters"} \subseteq DOMAIN listing /\ DOMAIN listing.list \subseteq DOMAIN routes

\* The drawer is opened on a route there is.
IsDrawer(d) ==
    /\ {"open", "env", "copy", "graph", "mode"} \subseteq DOMAIN d
    /\ d.open => d.env \in DOMAIN routes

\* Who asks about a route asks about one there is, and who asks to publish a graph has saved it.
Known(r) ==
    /\ r.kind \notin {"list", "create"} => r.body.env \in DOMAIN routes
    /\ r.kind = "save to publish" => r.body.graph = GraphOf(r.body.graph)
Saved(r) == r.body.env \in DOMAIN routes /\ GraphOf(routes[r.body.env]) = r.body.graph

LiveInv ==
    ~broken =>
      /\ OneRequest /\ RoutesInv /\ IsDrawer(drawer)
      /\ \A r \in inbox : Known(r) /\ (r.kind = "publish" => Saved(r))
      /\ \A a \in answered : a.kind = "save to publish" /\ a.ok => Saved(a)

LEMMA ClosedDrawer == IsDrawer(Closed0)
BY DEF IsDrawer, Closed0

LEMMA DrawerInitHolds == NetInit /\ DrawerInit => LiveInv
<1> SUFFICES ASSUME NetInit, DrawerInit PROVE LiveInv
  OBVIOUS
<1>1. DOMAIN routes = {} /\ {"list", "filters"} \subseteq DOMAIN listing /\ listing.list = routes /\ drawer = Closed0
  BY DEF DrawerInit
<1> QED
  BY <1>1, ClosedDrawer DEF NetInit, LiveInv, RoutesInv, OneRequest

LEMMA PageOpens ==
  ASSUME LiveInv, NEW g \in StoredRoutes, OpenPage(g)
  PROVE  LiveInv'
<1>1. /\ DOMAIN routes = {} /\ DOMAIN routes' = {"test"} /\ routes'["test"] = FirstRoute(g)
      /\ UNCHANGED <<drawer, inbox, answered, sent, current, broken>>
      /\ listing' = [listing EXCEPT !.list = routes']
  BY DEF OpenPage, net
<1>2. IsRoute(FirstRoute(g)) /\ FirstRoute(g).status = "draft"
  BY DEF IsRoute, FirstRoute
<1>3. SUFFICES ASSUME ~broken, RoutesInv, OneRequest, IsDrawer(drawer) PROVE RoutesInv' /\ IsDrawer(drawer)' /\ OneRequest'
  BY <1>1 DEF LiveInv, Known, Saved
<1>4. {"list", "filters"} \subseteq DOMAIN listing' /\ listing'.list = routes'
  BY <1>1, <1>3 DEF RoutesInv
<1> QED
  BY <1>1, <1>2, <1>3, <1>4 DEF RoutesInv, Live, IsDrawer, OneRequest

----------------------------------------------------------------------------
\* What is done on the page without a request leaves the routes alone.
LEMMA DrawerKeeps ==
  ASSUME LiveInv, UNCHANGED <<routes, listing, meant, current, inbox, answered, sent, broken>>,
         ~broken => IsDrawer(drawer')
  PROVE  LiveInv'
BY DEF LiveInv, OneRequest, RoutesInv, Live, IsDrawer, Known, Saved

LEMMA RedrawKeeps ==
  ASSUME LiveInv, NEW nodes, NEW edges, Redraw(nodes, edges)
  PROVE  LiveInv'
BY DrawerKeeps DEF Redraw, Act, LiveInv, IsDrawer

LEMMA DrawingSteps ==
  ASSUME LiveInv,
         \/ \E e \in DOMAIN listing.list : OpenDrawer(e)
         \/ CloseDrawer \/ ToggleAutoFailover
         \/ \E alias \in Aliases0 : AddProvider(alias)
         \/ \E mode \in {"order", "split"} : SetMode(mode)
         \/ \E id : RemoveProvider(id) \/ ToggleEnabled(id) \/ \E w : SetWeight(id, w) \/ \E target : ReorderNode(id, target)
  PROVE  LiveInv'
<1>1. ASSUME NEW e \in DOMAIN listing.list, OpenDrawer(e) PROVE LiveInv'
  <2>1. UNCHANGED <<routes, listing, meant, current, inbox, answered, sent, broken>>
    BY <1>1 DEF OpenDrawer, Act
  <2>2. /\ {"open", "env", "copy", "graph", "mode"} \subseteq DOMAIN drawer' /\ drawer'.env = e
    BY <1>1 DEF OpenDrawer, Loaded, Closed0
  <2>3. ~broken => e \in DOMAIN routes
    BY DEF LiveInv, RoutesInv
  <2> QED
    BY <2>1, <2>2, <2>3, DrawerKeeps DEF IsDrawer
<1>2. CASE CloseDrawer
  BY <1>2, ClosedDrawer, DrawerKeeps DEF CloseDrawer, Act
<1>3. ASSUME NEW mode \in {"order", "split"}, SetMode(mode) PROVE LiveInv'
  BY <1>3, DrawerKeeps DEF SetMode, Act, LiveInv, IsDrawer
<1>4. CASE \/ ToggleAutoFailover
           \/ \E alias \in Aliases0 : AddProvider(alias)
           \/ \E id : RemoveProvider(id) \/ ToggleEnabled(id) \/ \E w : SetWeight(id, w) \/ \E target : ReorderNode(id, target)
  <2>1. \E nodes, edges : Redraw(nodes, edges)
    BY <1>4, Zenon DEF ToggleAutoFailover, AddProvider, RemoveProvider, ToggleEnabled, SetWeight, ReorderNode
  <2> QED
    BY <2>1, RedrawKeeps
<1> QED
  BY <1>1, <1>2, <1>3, <1>4

LEMMA BehindSteps ==
  ASSUME LiveInv,
         \/ NewRoute \/ NameRoute \/ WizardNext \/ WizardBack \/ SwitchSections
         \/ \E e \in Env : ChooseEnv(e)
         \/ \E text \in {"", "x"} : HandleSearch(text)
  PROVE  LiveInv'
<1>1. \A w : WizardClick(w) => UNCHANGED <<routes, listing, drawer, meant, current, inbox, answered, sent, broken>>
  BY DEF WizardClick, Act
<1>2. UNCHANGED <<routes, listing, drawer, meant, current, inbox, answered, sent, broken>>
  BY <1>1 DEF NewRoute, NameRoute, WizardNext, WizardBack, SwitchSections, ChooseEnv, HandleSearch, Act
<1> QED
  BY <1>2, DrawerKeeps DEF LiveInv

----------------------------------------------------------------------------
\* A request is made about what there is.
LEMMA AskingKeeps ==
  ASSUME LiveInv, NEW kind, NEW body, Follow(kind, body), broken' = (broken \/ current # 0),
         UNCHANGED <<routes, listing, drawer, meant>>, kind # "publish",
         ~broken => Known(Request(kind, body))
  PROVE  LiveInv'
<1> DEFINE r == Request(kind, body)
<1>1. sent' = sent + 1 /\ current' = sent + 1 /\ inbox' = inbox \union {r} /\ answered' = {} /\ r.kind = kind
  BY DEF Follow, Request
<1>2. ~broken' => ~broken /\ current = 0
  BY Zenon
<1> HIDE DEF r
<1>3. SUFFICES ASSUME ~broken, current = 0, OneRequest, RoutesInv, IsDrawer(drawer), Known(r)
               PROVE  OneRequest' /\ RoutesInv' /\ IsDrawer(drawer)' /\ (\A q \in inbox' : Known(q)' /\ q.kind # "publish")
  BY <1>1, <1>2 DEF LiveInv, r
<1>4. inbox' = {r}
  BY <1>1, <1>3 DEF OneRequest
<1>5. OneRequest'
  BY <1>1, <1>3, <1>4 DEF OneRequest
<1>6. RoutesInv' /\ IsDrawer(drawer)'
  BY <1>3 DEF RoutesInv, Live, IsDrawer
<1>7. \A q \in inbox' : Known(q)' /\ q.kind # "publish"
  BY <1>1, <1>3, <1>4 DEF Known
<1> QED
  BY <1>5, <1>6, <1>7

LEMMA SendsKeeps ==
  ASSUME LiveInv, NEW kind, NEW body, Sends(kind, body), "env" \in DOMAIN body, kind # "publish",
         kind = "save to publish" => "graph" \in DOMAIN body /\ body.graph = GraphOf(body.graph)
  PROVE  LiveInv'
<1> DEFINE b == [body EXCEPT !.env = drawer.env]
<1>1. /\ Follow(kind, b) /\ broken' = (broken \/ current # 0)
      /\ UNCHANGED <<routes, listing, drawer, meant>> /\ drawer.open
  BY DEF Sends, Visit, drawerVars
<1>2. b.env = drawer.env /\ (kind = "save to publish" => b.graph = GraphOf(b.graph))
  OBVIOUS
<1>3. Request(kind, b).kind = kind /\ Request(kind, b).body = b
  BY DEF Request
<1> HIDE DEF b
<1>4. ~broken => Known(Request(kind, b))
  BY <1>1, <1>2, <1>3 DEF Known, LiveInv, IsDrawer
<1> QED
  BY <1>1, <1>4, AskingKeeps

LEMMA DrawerVisitSteps ==
  ASSUME LiveInv,
         \/ Save \/ PublishRoute
         \/ \E v : RestoreVersion(v) \/ DeleteVersion(v) \/ RenameVersion(v, "typed")
  PROVE  LiveInv'
<1>1. CASE Save \/ PublishRoute
  <2>1. PICK body : body = [Body EXCEPT !.graph = FinalGraph]
    OBVIOUS
  <2>2. "env" \in DOMAIN body /\ "graph" \in DOMAIN body /\ body.graph = FinalGraph
    BY <2>1 DEF Body
  <2>3. FinalGraph = GraphOf(FinalGraph)
    BY DEF FinalGraph, GraphOf
  <2>4. Sends("save", body) \/ Sends("save to publish", body)
    BY <1>1, <2>1, Zenon DEF Save, PublishRoute
  <2> QED
    BY <2>2, <2>3, <2>4, SendsKeeps
<1>2. ASSUME NEW v, RestoreVersion(v) \/ DeleteVersion(v) \/ RenameVersion(v, "typed") PROVE LiveInv'
  <2>1. PICK body : body \in {[Body EXCEPT !.version = v.version], [Body EXCEPT !.version = v.version, !.name = "typed"]}
                    /\ (Sends("rollback", body) \/ Sends("delete", body) \/ Sends("rename", body))
    BY <1>2 DEF RestoreVersion, DeleteVersion, RenameVersion
  <2>2. "env" \in DOMAIN body
    BY <2>1 DEF Body
  <2> QED
    BY <2>1, <2>2, SendsKeeps
<1> QED
  BY <1>1, <1>2

LEMMA ListVisits ==
  ASSUME LiveInv,
         \/ SubmitRoute \/ ClearFilters \/ ClearFromList
         \/ \E s \in {"", "draft", "published"} : ChooseStatus(s)
         \/ \E filters \in bar.timer \union bar.left : SearchFires(filters)
  PROVE  LiveInv'
<1>1. \E kind \in {"list", "create"} : \E body :
         Follow(kind, body) /\ broken' = (broken \/ current # 0) /\ UNCHANGED <<routes, listing, drawer, meant>>
  BY DEF SubmitRoute, ClearFilters, ClearFromList, ChooseStatus, SearchFires, ApplyFilters, Visit
<1>2. PICK kind \in {"list", "create"} : \E body :
         Follow(kind, body) /\ broken' = (broken \/ current # 0) /\ UNCHANGED <<routes, listing, drawer, meant>>
  BY <1>1
<1>3. PICK body :
         Follow(kind, body) /\ broken' = (broken \/ current # 0) /\ UNCHANGED <<routes, listing, drawer, meant>>
  BY <1>2
<1>4. Known(Request(kind, body))
  BY DEF Known, Request
<1> QED
  BY <1>3, <1>4, AskingKeeps

----------------------------------------------------------------------------
\* What the service makes of a route.
LEMMA UpdatedFacts ==
  ASSUME NEW r, IsRoute(r), NEW g
  PROVE  IsRoute(Updated(r, g)) /\ Updated(r, g).status = "draft" /\ GraphOf(Updated(r, g)) = GraphOf(g)
<1> DEFINE new == [r EXCEPT !.status = "draft", !.nodes = g.nodes, !.edges = g.edges,
                                                      !.errors = ~Graph!IsValid(GraphOf(g))]
<1>1. IsRoute(new) /\ new.status = "draft" /\ new.nodes = g.nodes /\ new.edges = g.edges
  BY DEF IsRoute
<1>2. Updated(r, g) = IF new = r THEN r ELSE [new EXCEPT !.stamp = @ + 1]
  BY DEF Updated, Touched
<1> HIDE DEF new
<1>3. CASE new = r
  BY <1>1, <1>2, <1>3 DEF GraphOf
<1>4. CASE new # r
  <2>1. PICK touched : touched = [new EXCEPT !.stamp = @ + 1]
    OBVIOUS
  <2>2. IsRoute(touched) /\ touched.status = "draft" /\ touched.nodes = g.nodes /\ touched.edges = g.edges
    BY <1>1, <2>1 DEF IsRoute
  <2> QED
    BY <1>2, <1>4, <2>1, <2>2 DEF GraphOf
<1> QED
  BY <1>3, <1>4

LEMMA RefusedFacts ==
  ASSUME NEW r, IsRoute(r)
  PROVE  /\ IsRoute(Refused(r)) /\ Refused(r).status = r.status /\ GraphOf(Refused(r)) = GraphOf(r)
         /\ Refused(r).versions = r.versions
<1>1. PICK told : told = [r EXCEPT !.errors = TRUE]
  OBVIOUS
<1>2. PICK touched : touched = [told EXCEPT !.stamp = @ + 1]
  OBVIOUS
<1>3. /\ IsRoute(told) /\ told.status = r.status /\ told.nodes = r.nodes /\ told.edges = r.edges
      /\ told.versions = r.versions
  BY <1>1 DEF IsRoute
<1>4. /\ IsRoute(touched) /\ touched.status = r.status /\ touched.nodes = r.nodes /\ touched.edges = r.edges
      /\ touched.versions = r.versions
  BY <1>2, <1>3 DEF IsRoute
<1>5. Refused(r) \in {r, touched}
  BY <1>1, <1>2 DEF Refused, Touched
<1> QED
  BY <1>4, <1>5 DEF GraphOf

LEMMA SnapshotFacts ==
  ASSUME NEW r, IsRoute(r), NEW name
  PROVE  /\ IsRoute(Snapshot(r, name)) /\ Snapshot(r, name).status = r.status
         /\ GraphOf(Snapshot(r, name)) = GraphOf(r)
<1>1. \E versions : Snapshot(r, name) = [r EXCEPT !.versions = versions]
  BY Zenon DEF Snapshot
<1> QED
  BY <1>1 DEF IsRoute, GraphOf

\* One route is stored, as a draft or as it is meant.
LEMMA StoringRoute ==
  ASSUME \A e \in DOMAIN routes : IsRoute(routes[e]) /\ Live(e),
         NEW e, NEW r, StoreRoute(e, r), IsRoute(r),
         r.status = "published" => e \in DOMAIN meant' /\ GraphOf(r) = meant'[e],
         \A x \in DOMAIN meant \ {e} : x \in DOMAIN meant' /\ meant'[x] = meant[x]
  PROVE  /\ DOMAIN routes' = DOMAIN routes \union {e} /\ routes'[e] = r
         /\ \A x \in DOMAIN routes' : IsRoute(routes'[x]) /\ Live(x)'
BY DEF StoreRoute, Live

\* What a handler leaves: routes that are drafts or as they are meant, and the graph it saved.
LEMMA HandlingKeeps ==
  ASSUME NEW r, NEW ok, Handle(r, ok), Known(r), r.kind = "publish" => Saved(r),
         \A e \in DOMAIN routes : IsRoute(routes[e]) /\ Live(e)
  PROVE  /\ \A e \in DOMAIN routes' : IsRoute(routes'[e]) /\ Live(e)'
         /\ DOMAIN routes \subseteq DOMAIN routes'
         /\ r.kind = "save to publish" /\ ok => Saved(r)'
<1> DEFINE e == r.body.env
           AllLive == /\ \A x \in DOMAIN routes' : IsRoute(routes'[x]) /\ Live(x)'
                      /\ DOMAIN routes \subseteq DOMAIN routes'
<1>1. CASE UNCHANGED <<routes, meant>> /\ r.kind # "save to publish"
  BY <1>1 DEF Live
<1>2. CASE /\ r.kind \in {"save", "save to publish"} /\ UNCHANGED meant
           /\ IF ok THEN StoreRoute(e, Updated(routes[e], r.body.graph)) ELSE UNCHANGED routes
  <2>1. CASE ~ok
    BY <1>2, <2>1 DEF Live
  <2>2. CASE ok
    <3>1. e \in DOMAIN routes /\ IsRoute(routes[e])
      BY <1>2 DEF Known
    <3> DEFINE new == Updated(routes[e], r.body.graph)
    <3>2. IsRoute(new) /\ new.status = "draft" /\ GraphOf(new) = GraphOf(r.body.graph) /\ StoreRoute(e, new)
      BY <1>2, <2>2, <3>1, UpdatedFacts
    <3> HIDE DEF new
    <3>3. AllLive /\ DOMAIN routes' = DOMAIN routes \union {e} /\ routes'[e] = new
      BY <1>2, <3>2, StoringRoute
    <3> QED
      BY <3>2, <3>3 DEF Known, Saved
  <2> QED
    BY <2>1, <2>2
<1>3. CASE r.kind = "publish" /\ PublishWorkflow(r, ok)
  <2>1. CASE ~ok
    <3>1. StoreRoute(e, Refused(routes[e])) /\ UNCHANGED meant
      BY <1>3, <2>1, Zenon DEF PublishWorkflow
    <3>2. e \in DOMAIN routes /\ IsRoute(routes[e]) /\ Live(e)
      BY <1>3 DEF Saved
    <3> DEFINE new == Refused(routes[e])
    <3>3. IsRoute(new) /\ new.status = routes[e].status /\ GraphOf(new) = GraphOf(routes[e])
      BY <3>2, RefusedFacts
    <3>4. StoreRoute(e, new)
      BY <3>1
    <3> HIDE DEF new
    <3> QED
      BY <1>3, <3>1, <3>2, <3>3, <3>4, StoringRoute DEF Live
  <2>2. CASE ok
    <3>1. PICK r0 : r0 = [routes[e] EXCEPT !.status = "published", !.version = @ + 1, !.stamp = @ + 1,
                                            !.errors = FALSE]
      OBVIOUS
    <3>2. /\ StoreRoute(e, Snapshot(r0, "given"))
          /\ meant' = [x \in DOMAIN meant \union {e} |-> IF x = e THEN r.body.graph ELSE meant[x]]
      BY <1>3, <2>2, <3>1, Zenon DEF PublishWorkflow
    <3>3. IsRoute(routes[e]) /\ GraphOf(routes[e]) = r.body.graph
      BY <1>3 DEF Saved
    <3>4. IsRoute(r0) /\ GraphOf(r0) = r.body.graph
      BY <3>1, <3>3 DEF IsRoute, GraphOf
    <3> DEFINE new == Snapshot(r0, "given")
    <3>5. IsRoute(new) /\ GraphOf(new) = r.body.graph
      BY <3>4, SnapshotFacts
    <3> HIDE DEF new
    <3>6. /\ e \in DOMAIN meant' /\ meant'[e] = r.body.graph
          /\ \A x \in DOMAIN meant \ {e} : x \in DOMAIN meant' /\ meant'[x] = meant[x]
      BY <3>2
    <3>7. StoreRoute(e, new)
      BY <3>2 DEF new
    <3> QED
      BY <1>3, <3>5, <3>6, <3>7, StoringRoute
  <2> QED
    BY <2>1, <2>2
<1>4. CASE r.kind = "rollback" /\ UNCHANGED meant /\
           \E i \in OfVersion(e, r.body.version) :
                LET v == routes[e].versions[i]
                IN  StoreRoute(e, Snapshot([routes[e] EXCEPT !.status = "draft", !.version = @ + 1,
                      !.stamp = @ + 1, !.nodes = v.graph.nodes, !.edges = v.graph.edges, !.errors = v.errors], "given"))
  <2>1. PICK v : StoreRoute(e, Snapshot([routes[e] EXCEPT !.status = "draft", !.version = @ + 1,
                      !.stamp = @ + 1, !.nodes = v.graph.nodes, !.edges = v.graph.edges, !.errors = v.errors], "given"))
    BY <1>4
  <2>2. PICK r0 : r0 = [routes[e] EXCEPT !.status = "draft", !.version = @ + 1,
                      !.stamp = @ + 1, !.nodes = v.graph.nodes, !.edges = v.graph.edges, !.errors = v.errors]
    OBVIOUS
  <2>3. IsRoute(routes[e])
    BY <1>4 DEF Known
  <2>4. IsRoute(r0) /\ r0.status = "draft"
    BY <2>2, <2>3 DEF IsRoute
  <2>5. StoreRoute(e, Snapshot(r0, "given"))
    BY <2>1, <2>2
  <2> QED
    BY <1>4, <2>4, <2>5, SnapshotFacts, StoringRoute
<1>5. CASE r.kind \in {"rename", "delete"} /\ UNCHANGED meant /\ \E versions : StoreRoute(e, [routes[e] EXCEPT !.versions = versions])
  <2>1. PICK versions : StoreRoute(e, [routes[e] EXCEPT !.versions = versions])
    BY <1>5
  <2>2. PICK r0 : r0 = [routes[e] EXCEPT !.versions = versions]
    OBVIOUS
  <2>3. IsRoute(routes[e]) /\ Live(e)
    BY <1>5 DEF Known
  <2>4. IsRoute(r0) /\ r0.status = routes[e].status /\ GraphOf(r0) = GraphOf(routes[e])
    BY <2>2, <2>3 DEF IsRoute, GraphOf
  <2> QED
    BY <1>5, <2>1, <2>2, <2>3, <2>4, StoringRoute DEF Live
<1>6. CASE /\ r.kind = "create" /\ UNCHANGED meant
           /\ StoreRoute(e,
                IF e \in DOMAIN routes THEN Updated(routes[e], GraphOf(routes[e]))
                ELSE Snapshot([status |-> "draft", version |-> 1, nodes |-> <<>>, edges |-> <<>>,
                               stamp |-> 0, errors |-> FALSE, versions |-> <<>>], "given"))
  <2>1. PICK new : new = [status |-> "draft", version |-> 1, nodes |-> <<>>, edges |-> <<>>, stamp |-> 0, errors |-> FALSE,
                           versions |-> <<>>]
    OBVIOUS
  <2>2. IsRoute(new) /\ new.status = "draft"
    BY <2>1 DEF IsRoute
  <2>3. StoreRoute(e, IF e \in DOMAIN routes THEN Updated(routes[e], GraphOf(routes[e])) ELSE Snapshot(new, "given"))
    BY <1>6, <2>1
  <2>4. CASE e \in DOMAIN routes
    <3>1. StoreRoute(e, Updated(routes[e], GraphOf(routes[e])))
      BY <2>3, <2>4
    <3> QED
      BY <1>6, <2>4, <3>1, UpdatedFacts, StoringRoute
  <2>5. CASE e \notin DOMAIN routes
    <3>1. StoreRoute(e, Snapshot(new, "given"))
      BY <2>3, <2>5
    <3> QED
      BY <1>6, <2>2, <3>1, SnapshotFacts, StoringRoute
  <2> QED
    BY <2>4, <2>5
<1> QED
  <2>1. CASE r.kind = "list"
    BY <1>1, <2>1 DEF Handle
  <2>2. CASE r.kind \in {"save", "save to publish"}
    BY <1>2, <2>2 DEF Handle
  <2>3. CASE r.kind = "publish"
    BY <1>3, <2>3 DEF Handle
  <2>4. CASE r.kind = "rollback"
    BY <1>4, <2>4, Zenon DEF Handle
  <2>5. CASE r.kind = "rename"
    BY <1>5, <2>5 DEF Handle
  <2>6. CASE r.kind = "delete"
    BY <1>1, <1>5, <2>6 DEF Handle
  <2>7. CASE r.kind = "create"
    BY <1>6, <2>7, Zenon DEF Handle
  <2> QED
    BY <2>1, <2>2, <2>3, <2>4, <2>5, <2>6, <2>7, Zenon DEF Handle

LEMMA DrawerServed ==
  ASSUME LiveInv, NEW r \in inbox, ServeDrawer(r)
  PROVE  LiveInv'
<1>1. PICK ok \in BOOLEAN : Handle(r, ok) /\ Served(r, ok) /\ UNCHANGED <<listing, bar, drawer, wizard>>
  BY DEF ServeDrawer
<1> DEFINE answer == [no |-> r.no, kind |-> r.kind, body |-> r.body, ok |-> ok]
<1>2. /\ UNCHANGED <<current, sent, broken, drawer, listing>> /\ inbox' = inbox \ {r}
      /\ answered' \subseteq answered \union {answer}
  BY <1>1 DEF Served, ServedWith
<1>3. answer.kind = r.kind /\ answer.body = r.body /\ answer.ok = ok
  OBVIOUS
<1> HIDE DEF answer
<1>4. SUFFICES ASSUME ~broken PROVE LiveInv'
  BY <1>2 DEF LiveInv
<1>5. OneRequest /\ RoutesInv /\ IsDrawer(drawer) /\ Known(r) /\ (r.kind = "publish" => Saved(r))
  BY <1>4 DEF LiveInv
<1>6. inbox' = {} /\ answered = {} /\ current # 0
  BY <1>2, <1>5 DEF OneRequest
<1>7. /\ \A e \in DOMAIN routes' : IsRoute(routes'[e]) /\ Live(e)'
      /\ DOMAIN routes \subseteq DOMAIN routes'
      /\ r.kind = "save to publish" /\ ok => Saved(r)'
  BY <1>1, <1>5, HandlingKeeps DEF RoutesInv
<1>8. OneRequest' /\ RoutesInv' /\ IsDrawer(drawer)'
  BY <1>2, <1>5, <1>6, <1>7 DEF OneRequest, RoutesInv, IsDrawer
<1>9. \A a \in answered' : a.kind = "save to publish" /\ a.ok => Saved(a)'
  BY <1>2, <1>3, <1>6, <1>7 DEF Saved
<1> QED
  BY <1>6, <1>8, <1>9 DEF LiveInv

\* The list is given anew; what was saved to be published is asked for as it was saved.
LEMMA DrawerAnswered ==
  ASSUME LiveInv, NEW a \in answered, AnswerDrawer(a)
  PROVE  LiveInv'
<1>1. UNCHANGED <<routes, meant, broken>> /\ listing' = Given(a)
  BY DEF AnswerDrawer, Returned
<1>2. SUFFICES ASSUME ~broken PROVE LiveInv'
  BY <1>1 DEF LiveInv
<1>3. OneRequest /\ RoutesInv /\ IsDrawer(drawer) /\ inbox = {} /\ (a.kind = "save to publish" /\ a.ok => Saved(a))
  BY <1>2 DEF LiveInv, OneRequest
<1>4. RoutesInv'
  <2>1. {"list", "filters"} \subseteq DOMAIN Given(a) /\ DOMAIN Given(a).list \subseteq DOMAIN routes
    BY DEF Given, Matching
  <2> QED
    BY <1>1, <1>3, <2>1 DEF RoutesInv, Live
<1>5. IsDrawer(drawer)'
  <2>1. CASE drawer' = Closed0
    BY <2>1 DEF IsDrawer, Closed0
  <2>2. ASSUME NEW list, drawer' = Refreshed(drawer, list) PROVE IsDrawer(drawer)'
    BY <1>1, <1>3, <2>2 DEF IsDrawer, Refreshed, Loaded
  <2> QED
    BY <2>1, <2>2, Zenon DEF AnswerDrawer
<1>6. CASE a.kind = "save to publish" /\ a.ok
  <2> DEFINE r == Request("publish", a.body)
  <2>1. Follow("publish", a.body)
    BY <1>6 DEF AnswerDrawer
  <2>2. sent' = sent + 1 /\ current' = sent + 1 /\ inbox' = {r} /\ answered' = {}
    BY <1>3, <2>1 DEF Follow
  <2>3. r.kind = "publish" /\ r.body = a.body
    BY DEF Request
  <2> HIDE DEF r
  <2>4. OneRequest'
    <3>2. sent \in Nat
      BY <1>3 DEF OneRequest
    <3>1. current' # 0 /\ sent' \in Nat
      BY <2>2, <3>2
    <3> QED
      BY <2>2, <3>1 DEF OneRequest
  <2>5. \A q \in inbox' : Known(q)' /\ Saved(q)'
    BY <1>1, <1>3, <1>6, <2>2, <2>3 DEF Known, Saved
  <2> QED
    BY <1>4, <1>5, <2>2, <2>4, <2>5 DEF LiveInv
<1>7. CASE ~(a.kind = "save to publish" /\ a.ok)
  <2>1. inbox' = {} /\ answered' = {} /\ sent' = sent
    BY <1>3, <1>7 DEF AnswerDrawer, Returned
  <2>2. OneRequest'
    BY <1>3, <2>1 DEF OneRequest
  <2> QED
    BY <1>4, <1>5, <2>1, <2>2 DEF LiveInv
<1> QED
  BY <1>6, <1>7

LEMMA DrawerSteps == LiveInv /\ DrawerNext => LiveInv'
<1> SUFFICES ASSUME LiveInv, DrawerNext PROVE LiveInv'
  OBVIOUS
<1>1. CASE DrawerClick
  <2>1. \/ \E e \in DOMAIN listing.list : OpenDrawer(e)
        \/ CloseDrawer \/ ToggleAutoFailover
        \/ \E alias \in Aliases0 : AddProvider(alias)
        \/ \E mode \in {"order", "split"} : SetMode(mode)
        \/ \E id : RemoveProvider(id) \/ ToggleEnabled(id) \/ \E w : SetWeight(id, w) \/ \E target : ReorderNode(id, target)
        \/ Save \/ PublishRoute
        \/ \E v : RestoreVersion(v) \/ DeleteVersion(v) \/ RenameVersion(v, "typed")
    BY <1>1, Zenon DEF DrawerClick
  <2> QED
    BY <2>1, DrawingSteps, DrawerVisitSteps
<1>2. CASE PageClick
  BY <1>2, BehindSteps, ListVisits DEF PageClick
<1>3. CASE \E r \in inbox \union answered : Lost(r) /\ UNCHANGED drawerVars
  BY <1>3 DEF Lost, LiveInv
<1> QED
  BY <1>1, <1>2, <1>3, PageOpens, ListVisits, DrawerServed, DrawerAnswered DEF DrawerNext

\* On the other pages there is no route.
DrawerOrNone == IF shownPage = "drawer" THEN LiveInv ELSE DOMAIN routes = {}

LEMMA DrawerInvariant == Spec => []DrawerOrNone
<1>1. Init => DrawerOrNone
  <2> SUFFICES ASSUME Init PROVE DrawerOrNone
    OBVIOUS
  <2>1. LiveInv /\ DOMAIN routes = {}
    BY DrawerInitHolds DEF Init, DrawerInit
  <2> QED
    BY <2>1 DEF DrawerOrNone
<1>2. DrawerOrNone /\ [Next]_portalVars => DrawerOrNone'
  <2> SUFFICES ASSUME DrawerOrNone, [Next]_portalVars PROVE DrawerOrNone'
    OBVIOUS
  <2>1. CASE shownPage = "drawer" /\ DrawerNext /\ UNCHANGED shownPage
    BY <2>1, DrawerSteps DEF DrawerOrNone
  <2>2. CASE UNCHANGED <<shownPage, drawerVars>> /\ (shownPage # "drawer" \/ UNCHANGED net)
    <3>1. CASE shownPage # "drawer"
      BY <2>2, <3>1 DEF DrawerOrNone, drawerVars
    <3>2. CASE UNCHANGED net
      BY <2>2, <3>2, DrawerKeeps DEF DrawerOrNone, drawerVars, net, LiveInv
    <3> QED
      BY <2>2, <3>1, <3>2
  <2> QED
    BY <2>1, <2>2 DEF Next, portalVars
<1> QED
  BY <1>1, <1>2, PTL DEF Spec

\* As long as no visit was interrupted or lost, what is live is what was on the screen of the click
\* that made it live, in each environment, for any graphs, clicks and refusals between the save and
\* the publication (Routing/Index.jsx).
THEOREM PublishedAsSeen == Spec => []LiveIsWhatWasSent
<1>1. DrawerOrNone => LiveIsWhatWasSent
  BY DEF DrawerOrNone, LiveInv, RoutesInv, Live, LiveIsWhatWasSent
<1> QED
  BY <1>1, DrawerInvariant, PTL

-----------------------------------------------------------------------------
(***************************************************************************)
(* What the pages show of a route.  A filtered or sorted list is described *)
(* by the places of the list it was made from and by the order it takes    *)
(* them in; places and order determine the list.                           *)
(***************************************************************************)

\* R is a strict order of all of I.
Orders(R, I) ==
    /\ \A i \in I : <<i, i>> \notin R
    /\ \A i, j, k \in I : <<i, j>> \in R /\ <<j, k>> \in R => <<i, k>> \in R
    /\ \A i, j \in I : i = j \/ <<i, j>> \in R \/ <<j, i>> \in R

UpTo(R, I, i) == {j \in I : j = i \/ <<j, i>> \in R}

\* e lists the members of I in the order R.
Enumerates(e, n, I, R) ==
    /\ e \in [1..n -> I]
    /\ \A i \in I : \E k \in 1..n : e[k] = i
    /\ \A a, b \in 1..n : a < b => <<e[a], e[b]>> \in R

\* The places of a finite set are told by how many are not after them.
LEMMA RanksDiffer ==
  ASSUME NEW I, IsFiniteSet(I), NEW R, Orders(R, I)
  PROVE  /\ \A i \in I : IsFiniteSet(UpTo(R, I, i)) /\ Cardinality(UpTo(R, I, i)) \in 1..Cardinality(I)
         /\ \A i, j \in I : <<i, j>> \in R => Cardinality(UpTo(R, I, i)) < Cardinality(UpTo(R, I, j))
         /\ \A i, j \in I : Cardinality(UpTo(R, I, i)) = Cardinality(UpTo(R, I, j)) => i = j
<1>1. ASSUME NEW i \in I
      PROVE  IsFiniteSet(UpTo(R, I, i)) /\ Cardinality(UpTo(R, I, i)) \in 1..Cardinality(I)
  <2>1. UpTo(R, I, i) \in SUBSET I /\ i \in UpTo(R, I, i)
    BY DEF UpTo
  <2>2. IsFiniteSet(UpTo(R, I, i)) /\ Cardinality(UpTo(R, I, i)) <= Cardinality(I)
    BY <2>1, FS_Subset
  <2>3. Cardinality(I) \in Nat /\ Cardinality(UpTo(R, I, i)) \in Nat /\ Cardinality(UpTo(R, I, i)) # 0
    BY <2>1, <2>2, FS_CardinalityType, FS_EmptySet
  <2> QED
    BY <2>2, <2>3
<1>2. ASSUME NEW i \in I, NEW j \in I, <<i, j>> \in R
      PROVE  Cardinality(UpTo(R, I, i)) < Cardinality(UpTo(R, I, j))
  <2>1. UpTo(R, I, i) \subseteq UpTo(R, I, j)
    BY <1>2 DEF UpTo, Orders
  <2>2. j \in UpTo(R, I, j) /\ j \notin UpTo(R, I, i)
    BY <1>2 DEF UpTo, Orders
  <2>3. Cardinality(UpTo(R, I, i)) <= Cardinality(UpTo(R, I, j)) /\ Cardinality(UpTo(R, I, i)) # Cardinality(UpTo(R, I, j))
    BY <1>1, <2>1, <2>2, FS_Subset
  <2>4. Cardinality(UpTo(R, I, i)) \in Int /\ Cardinality(UpTo(R, I, j)) \in Int
    BY <1>1
  <2> QED
    BY <2>3, <2>4
<1>3. ASSUME NEW i \in I, NEW j \in I, Cardinality(UpTo(R, I, i)) = Cardinality(UpTo(R, I, j)) PROVE i = j
  <2>1. ~(<<i, j>> \in R) /\ ~(<<j, i>> \in R)
    BY <1>1, <1>2, <1>3
  <2> QED
    BY <2>1 DEF Orders
<1> QED
  BY <1>1, <1>2, <1>3

\* There is a place for every number.
LEMMA RanksExist ==
  ASSUME NEW I, IsFiniteSet(I), NEW R, Orders(R, I)
  PROVE  \A k \in 1..Cardinality(I) : \E i \in I : Cardinality(UpTo(R, I, i)) = k
<1> DEFINE rank == [i \in I |-> Cardinality(UpTo(R, I, i))]
           n == Cardinality(I)
<1>1. rank \in [I -> 1..n] /\ \A i \in I : rank[i] = Cardinality(UpTo(R, I, i))
  BY RanksDiffer
<1>2. \A i, j \in I : rank[i] = rank[j] => i = j
  BY <1>1, RanksDiffer
<1>3. n \in Nat /\ IsFiniteSet(1..n) /\ Cardinality(1..n) = n
  BY FS_CardinalityType, FS_Interval
<1> HIDE DEF rank
<1>4. rank \in Injection(I, 1..n)
  BY <1>1, <1>2 DEF Injection, IsInjective
<1>5. rank \in Surjection(I, 1..n)
  BY <1>3, <1>4, FS_Injection
<1> QED
  BY <1>1, <1>5 DEF Surjection

\* Who takes for each number the place that has it goes through them in order.
LEMMA RanksEnumerate ==
  ASSUME NEW I, IsFiniteSet(I), NEW R, Orders(R, I), NEW e \in [1..Cardinality(I) -> I],
         \A k \in 1..Cardinality(I) : Cardinality(UpTo(R, I, e[k])) = k
  PROVE  Enumerates(e, Cardinality(I), I, R)
<1>1. \A i \in I : \E k \in 1..Cardinality(I) : e[k] = i
  BY RanksDiffer
<1>2. ASSUME NEW a \in 1..Cardinality(I), NEW b \in 1..Cardinality(I), a < b PROVE <<e[a], e[b]>> \in R
  <2>1. e[a] # e[b] /\ ~(<<e[b], e[a]>> \in R)
    <3>1. Cardinality(I) \in Nat
      BY FS_CardinalityType
    <3>2. ASSUME <<e[b], e[a]>> \in R PROVE b < a
      BY <3>2, RanksDiffer
    <3> QED
      BY <1>2, <3>1, <3>2
  <2> QED
    BY <2>1 DEF Orders
<1> QED
  BY <1>1, <1>2 DEF Enumerates

\* There is one way to go through them in order.
LEMMA EnumeratedRank ==
  ASSUME NEW I, NEW R, Orders(R, I), NEW n \in Nat, NEW e, Enumerates(e, n, I, R)
  PROVE  /\ IsFiniteSet(I) /\ n = Cardinality(I)
         /\ \A k \in 1..n : Cardinality(UpTo(R, I, e[k])) = k
<1>1. /\ e \in [1..n -> I]
      /\ \A i \in I : \E k \in 1..n : e[k] = i
      /\ \A a, b \in 1..n : a < b => <<e[a], e[b]>> \in R
  BY DEF Enumerates
<1>2. \A a, b \in 1..n : e[a] = e[b] => a = b
  <2>1. \A a, b \in 1..n : a < b \/ b < a \/ a = b
    OBVIOUS
  <2> QED
    BY <1>1, <2>1 DEF Orders
<1>3. e \in Bijection(1..n, I)
  BY <1>1, <1>2 DEF Bijection, Injection, Surjection, IsInjective
<1>4. IsFiniteSet(I) /\ n = Cardinality(I)
  <2>1. ExistsBijection(1..n, I)
    BY <1>3 DEF ExistsBijection
  <2>2. n = Cardinality(I)
    BY <2>1, FS_CountingElements
  <2>3. IsFiniteSet(1..n)
    BY FS_Interval
  <2> QED
    BY <2>1, <2>2, <2>3, FS_Bijection
<1>5. ASSUME NEW k \in 1..n PROVE Cardinality(UpTo(R, I, e[k])) = k
  <2> DEFINE f == [a \in 1..k |-> e[a]]
  <2>1. k \in Nat /\ \A a \in 1..k : a \in 1..n
    OBVIOUS
  <2>2. \A a \in 1..k : e[a] \in UpTo(R, I, e[k])
    <3>1. \A a \in 1..k : a = k \/ a < k
      OBVIOUS
    <3> QED
      BY <1>1, <2>1, <3>1 DEF UpTo
  <2>3. ASSUME NEW i \in UpTo(R, I, e[k]) PROVE \E a \in 1..k : e[a] = i
    <3>1. PICK b \in 1..n : e[b] = i
      BY <1>1 DEF UpTo
    <3>2. ~(k < b)
      BY <1>1, <3>1 DEF UpTo, Orders
    <3> QED
      BY <3>1, <3>2
  <2>4. f \in [1..k -> UpTo(R, I, e[k])] /\ \A a \in 1..k : f[a] = e[a]
    BY <2>2
  <2> HIDE DEF f
  <2>5. f \in Bijection(1..k, UpTo(R, I, e[k]))
    BY <1>2, <2>1, <2>3, <2>4 DEF Bijection, Injection, Surjection, IsInjective
  <2> QED
    BY <2>1, <2>5, FS_CountingElements DEF ExistsBijection
<1> QED
  BY <1>4, <1>5

LEMMA OneEnumeration ==
  ASSUME NEW I, NEW R, Orders(R, I), NEW n \in Nat, NEW m \in Nat, NEW e, NEW f,
         Enumerates(e, n, I, R), Enumerates(f, m, I, R)
  PROVE  n = m /\ \A k \in 1..n : e[k] = f[k]
<1>1. IsFiniteSet(I) /\ n = Cardinality(I) /\ \A k \in 1..n : Cardinality(UpTo(R, I, e[k])) = k
  BY EnumeratedRank
<1>2. m = Cardinality(I) /\ \A k \in 1..m : Cardinality(UpTo(R, I, f[k])) = k
  BY EnumeratedRank
<1>3. \A k \in 1..n : e[k] \in I /\ f[k] \in I
  BY <1>1, <1>2 DEF Enumerates
<1> QED
  BY <1>1, <1>2, <1>3, RanksDiffer

----------------------------------------------------------------------------
\* t is made of what s has at the places I, in the order R of the places.
Picks(t, s, I, R) ==
    \E e : Enumerates(e, Len(t), I, R) /\ \A k \in 1..Len(t) : t[k] = s[e[k]]

Less == {p \in Nat \X Nat : p[1] < p[2]}
Before(ns) ==
    {p \in Nat \X Nat : \/ ns[p[1]].priority < ns[p[2]].priority
                        \/ ns[p[1]].priority = ns[p[2]].priority /\ p[1] < p[2]}
Prioritised(ns) == \A i \in DOMAIN ns : ns[i].priority \in Int

LEMMA LessOrders == ASSUME NEW I, I \subseteq Nat PROVE Orders(Less, I)
BY DEF Orders, Less

LEMMA BeforeOrders ==
  ASSUME NEW V, NEW ns \in Seq(V), Prioritised(ns), NEW I, I \subseteq DOMAIN ns
  PROVE  Orders(Before(ns), I)
<1> DEFINE p == [i \in DOMAIN ns |-> ns[i].priority]
<1>1. p \in [DOMAIN ns -> Int] /\ DOMAIN ns \subseteq Nat /\ \A i \in DOMAIN ns : p[i] = ns[i].priority
  BY DEF Prioritised
<1> HIDE DEF p
<1>2. \A i, j \in I : <<i, j>> \in Before(ns) <=> (p[i] < p[j] \/ (p[i] = p[j] /\ i < j))
  BY <1>1 DEF Before
<1>3. \A i \in I : i \in Nat /\ p[i] \in Int
  BY <1>1
<1> QED
  BY <1>2, <1>3 DEF Orders

LEMMA ListFacts ==
  ASSUME NEW V, NEW s \in Seq(V)
  PROVE  /\ Len(s) \in Nat /\ DOMAIN s = 1..Len(s) /\ IsFiniteSet(DOMAIN s) /\ DOMAIN s \subseteq Nat
         /\ Cardinality(DOMAIN s) = Len(s)
         /\ \A i \in DOMAIN s : s[i] \in V
<1>1. Len(s) \in Nat /\ DOMAIN s = 1..Len(s) /\ \A i \in DOMAIN s : s[i] \in V
  OBVIOUS
<1>2. IsFiniteSet(1..Len(s)) /\ Cardinality(1..Len(s)) = Len(s)
  BY <1>1, FS_Interval
<1>3. DOMAIN s \subseteq Nat
  BY <1>1
<1> QED
  BY <1>1, <1>2, <1>3, Zenon

\* The same places in the same order make the same list.
LEMMA PicksAlike ==
  ASSUME NEW V, NEW t \in Seq(V), NEW u \in Seq(V), NEW s, NEW I, NEW R, Orders(R, I),
         Picks(t, s, I, R), Picks(u, s, I, R)
  PROVE  t = u
<1>1. PICK e : Enumerates(e, Len(t), I, R) /\ \A k \in 1..Len(t) : t[k] = s[e[k]]
  BY DEF Picks
<1>2. PICK f : Enumerates(f, Len(u), I, R) /\ \A k \in 1..Len(u) : u[k] = s[f[k]]
  BY DEF Picks
<1>3. Len(t) = Len(u) /\ \A k \in 1..Len(t) : e[k] = f[k]
  BY <1>1, <1>2, OneEnumeration
<1> QED
  BY <1>1, <1>2, <1>3

\* What is chosen by its rank is a list of the places in order.
LEMMA RanksPick ==
  ASSUME NEW V, NEW s \in Seq(V), NEW I, I \subseteq DOMAIN s, NEW R, Orders(R, I), NEW at,
         NEW t, t = [k \in 1..Cardinality(I) |-> s[at[k]]],
         \A k \in 1..Cardinality(I) : at[k] \in I /\ Cardinality(UpTo(R, I, at[k])) = k
  PROVE  t \in Seq(V) /\ Picks(t, s, I, R)
<1>1. IsFiniteSet(I) /\ Cardinality(I) \in Nat
  BY ListFacts, FS_Subset, FS_CardinalityType
<1> DEFINE e == [k \in 1..Cardinality(I) |-> at[k]]
<1>2. e \in [1..Cardinality(I) -> I] /\ \A k \in 1..Cardinality(I) : e[k] = at[k]
  OBVIOUS
<1> HIDE DEF e
<1>3. Enumerates(e, Cardinality(I), I, R)
  BY <1>1, <1>2, RanksEnumerate
<1>4. t \in Seq(V) /\ Len(t) = Cardinality(I)
  <2>1. \A k \in 1..Cardinality(I) : s[at[k]] \in V
    BY ListFacts
  <2>2. t \in [1..Cardinality(I) -> V]
    BY <2>1
  <2> QED
    BY <1>1, <2>2
<1> QED
  BY <1>2, <1>3, <1>4 DEF Picks

Places(s, S) == {i \in DOMAIN s : s[i] \in S}

\* filter picks the places of what it keeps.
LEMMA OnlyPicks ==
  ASSUME NEW V, NEW s \in Seq(V), NEW S
  PROVE  Only(s, S) \in Seq(V) /\ Picks(Only(s, S), s, Places(s, S), Less)
<1> DEFINE I == Places(s, S)
           place(i) == Cardinality({j \in 1..i : s[j] \in S})
           at == [k \in 1..place(Len(s)) |-> CHOOSE i \in DOMAIN s : s[i] \in S /\ place(i) = k]
<1>1. Len(s) \in Nat /\ DOMAIN s = 1..Len(s) /\ I \subseteq DOMAIN s /\ IsFiniteSet(I) /\ Orders(Less, I)
  BY ListFacts, FS_Subset, LessOrders DEF Places
<1>2. place(Len(s)) = Cardinality(I)
  <2>1. {j \in 1..Len(s) : s[j] \in S} = I
    BY <1>1 DEF Places
  <2> QED
    BY <2>1
<1>3. ASSUME NEW i \in I PROVE place(i) = Cardinality(UpTo(Less, I, i))
  <2>1. \A j : j \in 1..i <=> j \in DOMAIN s /\ (j = i \/ <<j, i>> \in Less)
    BY <1>1, i \in Nat DEF Less
  <2>2. {j \in 1..i : s[j] \in S} = UpTo(Less, I, i)
    BY <2>1 DEF UpTo, Places
  <2> QED
    BY <2>2
<1>4. ASSUME NEW k \in 1..Cardinality(I) PROVE at[k] \in I /\ Cardinality(UpTo(Less, I, at[k])) = k
  <2>1. PICK i \in I : Cardinality(UpTo(Less, I, i)) = k
    BY <1>1, RanksExist
  <2>2. i \in DOMAIN s /\ s[i] \in S /\ place(i) = k
    BY <1>3, <2>1 DEF Places
  <2>3. at[k] = CHOOSE j \in DOMAIN s : s[j] \in S /\ place(j) = k
    BY <1>2
  <2> HIDE DEF at
  <2>4. at[k] \in DOMAIN s /\ s[at[k]] \in S /\ place(at[k]) = k
    BY <2>2, <2>3
  <2>5. at[k] \in I
    BY <2>4 DEF Places
  <2> QED
    BY <1>3, <2>4, <2>5
<1>5. Only(s, S) = [k \in 1..Cardinality(I) |-> s[at[k]]]
  BY <1>2 DEF Only
<1> HIDE DEF I, at, place
<1> QED
  BY <1>1, <1>4, <1>5, RanksPick DEF I

\* The sort goes through all places by priority.
LEMMA ByPriorityPicks ==
  ASSUME NEW V, NEW ns \in Seq(V), Prioritised(ns)
  PROVE  ByPriority(ns) \in Seq(V) /\ Picks(ByPriority(ns), ns, DOMAIN ns, Before(ns))
<1> DEFINE I == DOMAIN ns
           rank(i) == Cardinality({j \in DOMAIN ns :
                        \/ ns[j].priority < ns[i].priority
                        \/ ns[j].priority = ns[i].priority /\ j <= i})
           at == [k \in DOMAIN ns |-> CHOOSE i \in DOMAIN ns : rank(i) = k]
<1>1. /\ Len(ns) \in Nat /\ I = 1..Len(ns) /\ IsFiniteSet(I) /\ Orders(Before(ns), I)
      /\ Cardinality(I) = Len(ns) /\ I \subseteq Nat
  BY ListFacts, BeforeOrders
<1>2. ASSUME NEW i \in I PROVE rank(i) = Cardinality(UpTo(Before(ns), I, i))
  <2>1. ASSUME NEW j \in I
        PROVE  (\/ ns[j].priority < ns[i].priority
                \/ ns[j].priority = ns[i].priority /\ j <= i) <=> (j = i \/ <<j, i>> \in Before(ns))
    <3>1. ns[i].priority \in Int /\ ns[j].priority \in Int /\ i \in Nat /\ j \in Nat
      BY <1>1 DEF Prioritised
    <3>2. <<j, i>> \in Before(ns) <=> \/ ns[j].priority < ns[i].priority
                                      \/ ns[j].priority = ns[i].priority /\ j < i
      BY <3>1 DEF Before
    <3> QED
      BY <3>1, <3>2
  <2>2. {j \in DOMAIN ns : \/ ns[j].priority < ns[i].priority
                           \/ ns[j].priority = ns[i].priority /\ j <= i} = UpTo(Before(ns), I, i)
    BY <2>1 DEF UpTo
  <2> QED
    BY <2>2
<1>3. ASSUME NEW k \in 1..Cardinality(I) PROVE at[k] \in I /\ Cardinality(UpTo(Before(ns), I, at[k])) = k
  <2>1. PICK i \in I : Cardinality(UpTo(Before(ns), I, i)) = k
    BY <1>1, RanksExist
  <2>2. rank(i) = k
    BY <1>2, <2>1
  <2>3. at[k] = CHOOSE j \in DOMAIN ns : rank(j) = k
    BY <1>1
  <2> HIDE DEF at
  <2>4. at[k] \in DOMAIN ns /\ rank(at[k]) = k
    BY <2>2, <2>3
  <2> QED
    BY <1>2, <2>4
<1>4. ByPriority(ns) = [k \in 1..Cardinality(I) |-> ns[at[k]]]
  BY <1>1 DEF ByPriority
<1> HIDE DEF at, rank
<1> QED
  BY <1>1, <1>3, <1>4, RanksPick

\* A list picked from a picked list.
LEMMA PicksCompose ==
  ASSUME NEW V, NEW t \in Seq(V), NEW u \in Seq(V), NEW s, NEW I, NEW R, NEW K, NEW Q, NEW J, NEW P, NEW e,
         Enumerates(e, Len(t), I, R), \A k \in 1..Len(t) : t[k] = s[e[k]],
         K \subseteq 1..Len(t), Picks(u, t, K, Q),
         \A k \in K : e[k] \in J, \A i \in J : \E k \in K : e[k] = i,
         \A a, b \in K : <<a, b>> \in Q => <<e[a], e[b]>> \in P
  PROVE  Picks(u, s, J, P)
<1>1. PICK f : Enumerates(f, Len(u), K, Q) /\ \A k \in 1..Len(u) : u[k] = t[f[k]]
  BY DEF Picks
<1> DEFINE g == [k \in 1..Len(u) |-> e[f[k]]]
<1>2. f \in [1..Len(u) -> K] /\ (\A k \in K : \E a \in 1..Len(u) : f[a] = k)
      /\ \A a, b \in 1..Len(u) : a < b => <<f[a], f[b]>> \in Q
  BY <1>1 DEF Enumerates
<1>3. g \in [1..Len(u) -> J] /\ \A k \in 1..Len(u) : g[k] = e[f[k]]
  BY <1>2
<1> HIDE DEF g
<1>4. \A i \in J : \E a \in 1..Len(u) : g[a] = i
  BY <1>2, <1>3
<1>5. ASSUME NEW a \in 1..Len(u), NEW b \in 1..Len(u), a < b PROVE <<g[a], g[b]>> \in P
  <2>1. f[a] \in K /\ f[b] \in K /\ <<f[a], f[b]>> \in Q
    BY <1>2, <1>5
  <2>2. <<e[f[a]], e[f[b]]>> \in P
    BY <2>1
  <2> QED
    BY <1>3, <2>2
<1>6. \A k \in 1..Len(u) : u[k] = s[g[k]]
  BY <1>1, <1>2, <1>3
<1> QED
  BY <1>3, <1>4, <1>5, <1>6 DEF Picks, Enumerates

\* Filtering a picked list keeps the order it was picked in.
LEMMA OnlyOfPicks ==
  ASSUME NEW V, NEW t \in Seq(V), NEW s, NEW I, NEW R, Picks(t, s, I, R), NEW S
  PROVE  Picks(Only(t, S), s, {i \in I : s[i] \in S}, R)
<1>1. PICK e : Enumerates(e, Len(t), I, R) /\ \A k \in 1..Len(t) : t[k] = s[e[k]]
  BY DEF Picks
<1>2. Only(t, S) \in Seq(V) /\ Picks(Only(t, S), t, Places(t, S), Less)
  BY OnlyPicks
<1>3. Len(t) \in Nat /\ DOMAIN t = 1..Len(t)
  OBVIOUS
<1> DEFINE K == Places(t, S)
           J == {i \in I : s[i] \in S}
<1>4. K \subseteq 1..Len(t) /\ \A k \in 1..Len(t) : k \in K <=> s[e[k]] \in S
  BY <1>1, <1>3 DEF Places
<1>5. (\A k \in K : e[k] \in J) /\ \A i \in J : \E k \in K : e[k] = i
  BY <1>1, <1>4 DEF Enumerates
<1>6. \A a, b \in K : <<a, b>> \in Less => <<e[a], e[b]>> \in R
  BY <1>1, <1>4 DEF Enumerates, Less
<1> HIDE DEF K, J
<1>7. Picks(Only(t, S), s, J, R)
  BY <1>1, <1>2, <1>4, <1>5, <1>6, PicksCompose DEF K
<1> QED
  BY <1>7 DEF J

\* Sorting what was filtered from ns goes through its places by priority.
LEMMA SortedPicks ==
  ASSUME NEW V, NEW ns \in Seq(V), Prioritised(ns), NEW t \in Seq(V), NEW I, I \subseteq DOMAIN ns, Picks(t, ns, I, Less)
  PROVE  ByPriority(t) \in Seq(V) /\ Picks(ByPriority(t), ns, I, Before(ns))
<1>1. PICK e : Enumerates(e, Len(t), I, Less) /\ \A k \in 1..Len(t) : t[k] = ns[e[k]]
  BY DEF Picks
<1>2. Len(t) \in Nat /\ DOMAIN t = 1..Len(t) /\ DOMAIN ns \subseteq Nat
  BY ListFacts
<1>3. e \in [1..Len(t) -> I] /\ (\A i \in I : \E k \in 1..Len(t) : e[k] = i)
      /\ \A a, b \in 1..Len(t) : a < b => e[a] < e[b]
  BY <1>1 DEF Enumerates, Less
<1>4. Prioritised(t)
  BY <1>1, <1>2, <1>3 DEF Prioritised
<1>5. ByPriority(t) \in Seq(V) /\ Picks(ByPriority(t), t, 1..Len(t), Before(t))
  BY <1>2, <1>4, ByPriorityPicks
<1>6. ASSUME NEW a \in 1..Len(t), NEW b \in 1..Len(t), <<a, b>> \in Before(t) PROVE <<e[a], e[b]>> \in Before(ns)
  <2>1. /\ t[a] = ns[e[a]] /\ t[b] = ns[e[b]] /\ e[a] \in Nat /\ e[b] \in Nat
        /\ a < b => e[a] < e[b]
    BY <1>1, <1>2, <1>3
  <2>2. \/ t[a].priority < t[b].priority
        \/ t[a].priority = t[b].priority /\ a < b
    BY <1>6 DEF Before
  <2> QED
    BY <2>1, <2>2 DEF Before
<1> DEFINE K == 1..Len(t)
<1>7. /\ K \subseteq 1..Len(t) /\ (\A k \in K : e[k] \in I) /\ (\A i \in I : \E k \in K : e[k] = i)
      /\ \A a, b \in K : <<a, b>> \in Before(t) => <<e[a], e[b]>> \in Before(ns)
      /\ Picks(ByPriority(t), t, K, Before(t))
  BY <1>3, <1>5, <1>6
<1> HIDE DEF K
<1>8. Picks(ByPriority(t), ns, I, Before(ns))
  BY <1>1, <1>5, <1>7, PicksCompose
<1> QED
  BY <1>5, <1>8

\* The aliases of a picked list are picked alike.
LEMMA AliasesPick ==
  ASSUME NEW V, NEW ns \in Seq(V), NEW t \in Seq(V), NEW I, I \subseteq DOMAIN ns, NEW R, Picks(t, ns, I, R)
  PROVE  /\ Aliases(t) \in Seq({n.alias : n \in V}) /\ Aliases(ns) \in Seq({n.alias : n \in V})
         /\ DOMAIN Aliases(ns) = DOMAIN ns /\ \A i \in DOMAIN ns : Aliases(ns)[i] = ns[i].alias
         /\ Picks(Aliases(t), Aliases(ns), I, R)
<1> DEFINE W == {n.alias : n \in V}
<1>1. ASSUME NEW x \in Seq(V)
      PROVE  /\ Aliases(x) \in Seq(W) /\ Len(Aliases(x)) = Len(x) /\ DOMAIN Aliases(x) = DOMAIN x
             /\ \A i \in DOMAIN x : Aliases(x)[i] = x[i].alias
  <2>1. Len(x) \in Nat /\ DOMAIN x = 1..Len(x) /\ \A i \in 1..Len(x) : x[i].alias \in W
    OBVIOUS
  <2>2. Aliases(x) \in [1..Len(x) -> W]
    BY <2>1 DEF Aliases
  <2> HIDE DEF W
  <2>3. Aliases(x) \in Seq(W) /\ Len(Aliases(x)) = Len(x)
    BY <2>1, <2>2
  <2> QED
    BY <2>1, <2>3 DEF Aliases
<1> HIDE DEF W
<1>2. PICK e : Enumerates(e, Len(t), I, R) /\ \A k \in 1..Len(t) : t[k] = ns[e[k]]
  BY DEF Picks
<1>3. \A k \in 1..Len(t) : e[k] \in DOMAIN ns /\ k \in DOMAIN t
  BY <1>2 DEF Enumerates
<1>4. \A k \in 1..Len(t) : Aliases(t)[k] = Aliases(ns)[e[k]]
  BY <1>1, <1>2, <1>3
<1>5. Picks(Aliases(t), Aliases(ns), I, R)
  BY <1>1, <1>2, <1>4 DEF Picks
<1> QED
  BY <1>1, <1>5 DEF W

\* A picked list holds what is at its places.
LEMMA PickedElements ==
  ASSUME NEW V, NEW t \in Seq(V), NEW s, NEW I, NEW R, Picks(t, s, I, R)
  PROVE  ToSet(t) = {s[i] : i \in I}
<1>1. PICK e : Enumerates(e, Len(t), I, R) /\ \A k \in 1..Len(t) : t[k] = s[e[k]]
  BY DEF Picks
<1>2. DOMAIN t = 1..Len(t)
  OBVIOUS
<1> QED
  BY <1>1, <1>2 DEF Enumerates, ToSet

LEMMA OnlyEmpty ==
  ASSUME NEW V, NEW t \in Seq(V), NEW S
  PROVE  Only(t, S) = <<>> <=> ToSet(t) \intersect S = {}
<1>1. Only(t, S) \in Seq(V) /\ Picks(Only(t, S), t, Places(t, S), Less)
  BY OnlyPicks
<1>2. ToSet(Only(t, S)) = {t[i] : i \in Places(t, S)}
  BY <1>1, PickedElements
<1>3. Only(t, S) = <<>> <=> ToSet(Only(t, S)) = {}
  <2>1. \A x \in Seq(V) : x = <<>> <=> DOMAIN x = {}
    OBVIOUS
  <2> QED
    BY <1>1, <2>1 DEF ToSet
<1> QED
  BY <1>2, <1>3 DEF Places, ToSet
----------------------------------------------------------------------------
LEMMA NodesFacts ==
  ASSUME NEW ns, AreNodes(ns)
  PROVE  /\ ns \in Seq(ToSet(ns)) /\ Prioritised(ns) /\ DOMAIN ns \subseteq Nat
         /\ \A i \in DOMAIN ns : ns[i] \in ToSet(ns) /\ IsNode(ns[i])
<1>1. \A i \in DOMAIN ns : ns[i] \in ToSet(ns)
  BY DEF ToSet
<1>2. ns \in Seq(ToSet(ns)) /\ \A n \in ToSet(ns) : n.priority \in Int /\ IsNode(n)
  BY DEF AreNodes, IsNode
<1>3. DOMAIN ns \subseteq Nat
  BY <1>2, ListFacts
<1> QED
  BY <1>1, <1>2, <1>3 DEF Prioritised

\* Filtered, sorted and filtered again, a list picks the places of both filters by priority.
LEMMA SortedOnly ==
  ASSUME NEW ns, AreNodes(ns), NEW S, NEW T
  PROVE  LET sorted == Only(ByPriority(Only(ns, S)), T)
         IN  /\ sorted \in Seq(ToSet(ns))
             /\ Picks(sorted, ns, Places(ns, S \intersect T), Before(ns))
<1> DEFINE V == ToSet(ns)
<1>1. ns \in Seq(V) /\ Prioritised(ns)
  BY NodesFacts
<1> HIDE DEF V
<1>2. Only(ns, S) \in Seq(V) /\ Picks(Only(ns, S), ns, Places(ns, S), Less)
  BY <1>1, OnlyPicks
<1>3. Places(ns, S) \subseteq DOMAIN ns
  BY DEF Places
<1>4. ByPriority(Only(ns, S)) \in Seq(V) /\ Picks(ByPriority(Only(ns, S)), ns, Places(ns, S), Before(ns))
  BY <1>1, <1>2, <1>3, SortedPicks
<1>5. Only(ByPriority(Only(ns, S)), T) \in Seq(V)
      /\ Picks(Only(ByPriority(Only(ns, S)), T), ns, {i \in Places(ns, S) : ns[i] \in T}, Before(ns))
  BY <1>4, OnlyOfPicks, OnlyPicks
<1>6. {i \in Places(ns, S) : ns[i] \in T} = Places(ns, S \intersect T)
  BY DEF Places
<1> QED
  BY <1>5, <1>6 DEF V

Deploying(ns) == InUse(ns) \intersect Named(ns)

\* The deployed chain is that of the named providers in use, by priority.
LEMMA DeployedPicks ==
  ASSUME NEW ns, AreNodes(ns)
  PROVE  LET chain == Deployed(ns).chain
         IN  /\ chain \in Seq({n.alias : n \in ToSet(ns)})
             /\ Picks(chain, Aliases(ns), Places(ns, Deploying(ns)), Before(ns))
             /\ ToSet(chain) = {ns[i].alias : i \in Places(ns, Deploying(ns))}
<1> DEFINE V == ToSet(ns)
           W == {n.alias : n \in V}
           sorted == Only(DeployedProviders(ns), Named(ns))
           I == Places(ns, Deploying(ns))
<1>1. Deployed(ns).chain = Aliases(sorted)
  BY DEF Deployed
<1>2. sorted \in Seq(V) /\ Picks(sorted, ns, I, Before(ns))
  BY SortedOnly DEF DeployedProviders, Deploying
<1>3. ns \in Seq(V) /\ I \subseteq DOMAIN ns
  BY NodesFacts DEF Places
<1> HIDE DEF V, sorted, I
<1>4. /\ Aliases(sorted) \in Seq(W) /\ Picks(Aliases(sorted), Aliases(ns), I, Before(ns))
      /\ \A i \in I : Aliases(ns)[i] = ns[i].alias
  BY <1>2, <1>3, AliasesPick
<1> HIDE DEF W
<1>5. ToSet(Aliases(sorted)) = {Aliases(ns)[i] : i \in I}
  BY <1>4, PickedElements
<1>6. ToSet(Aliases(sorted)) = {ns[i].alias : i \in I}
  BY <1>4, <1>5
<1> QED
  BY <1>1, <1>4, <1>6 DEF V, W, I

\* A page that shows providers, all that are deployed among them, in the order of deployment, shows the chain.
LEMMA ChainIsUsed ==
  ASSUME NEW ns, AreNodes(ns), NEW t \in Seq(ToSet(ns)), NEW I, I \subseteq DOMAIN ns,
         Picks(t, ns, I, Before(ns)), Places(ns, Deploying(ns)) \subseteq I,
         \A i \in I : ns[i].alias \in ToSet(Deployed(ns).chain) => ns[i] \in Deploying(ns)
  PROVE  Only(Aliases(t), ToSet(Deployed(ns).chain)) = Deployed(ns).chain
<1> DEFINE V == ToSet(ns)
           W == {n.alias : n \in V}
           chain == Deployed(ns).chain
           D == Places(ns, Deploying(ns))
           used == Only(Aliases(t), ToSet(chain))
<1>1. ns \in Seq(V) /\ Prioritised(ns) /\ D \subseteq DOMAIN ns
  BY NodesFacts DEF Places
<1>2. chain \in Seq(W) /\ Picks(chain, Aliases(ns), D, Before(ns)) /\ ToSet(chain) = {ns[i].alias : i \in D}
  BY DeployedPicks
<1>3. D = {i \in I : ns[i].alias \in ToSet(chain)}
  BY <1>1, <1>2 DEF Places
<1> HIDE DEF V, chain, D
<1>4. Aliases(t) \in Seq(W) /\ Picks(Aliases(t), Aliases(ns), I, Before(ns)) /\ \A i \in I : Aliases(ns)[i] = ns[i].alias
  BY <1>1, AliasesPick DEF V
<1> HIDE DEF W
<1>5. used \in Seq(W) /\ Picks(used, Aliases(ns), {i \in I : Aliases(ns)[i] \in ToSet(chain)}, Before(ns))
  BY <1>4, OnlyOfPicks, OnlyPicks
<1>6. {i \in I : Aliases(ns)[i] \in ToSet(chain)} = D
  BY <1>3, <1>4
<1>7. Orders(Before(ns), D)
  BY <1>1, BeforeOrders
<1>8. used = chain
  BY <1>2, <1>5, <1>6, <1>7, PicksAlike
<1> QED
  BY <1>8 DEF chain

\* A provider of that alias is named, and in use when its alias is on one side only.
LEMMA AliasOfChain ==
  ASSUME NEW ns, AreNodes(ns), NEW i \in DOMAIN ns, ns[i] \in Providers(ns),
         ns[i].alias \in ToSet(Deployed(ns).chain), Apart(ns) \/ ns[i] \in InUse(ns)
  PROVE  ns[i] \in Deploying(ns)
<1>1. PICK j \in Places(ns, Deploying(ns)) : ns[i].alias = ns[j].alias
  <2>1. ToSet(Deployed(ns).chain) = {ns[j].alias : j \in Places(ns, Deploying(ns))}
    BY DeployedPicks
  <2> QED
    BY <2>1
<1>2. ns[j] \in InUse(ns) /\ ns[j] \in Named(ns)
  BY <1>1 DEF Places, Deploying
<1>3. ns[i] \in Named(ns)
  BY <1>1, <1>2 DEF Named
<1>4. ns[i].enabled \in BOOLEAN
  BY NodesFacts DEF IsNode
<1>5. ns[i] \in InUse(ns)
  BY <1>1, <1>2, <1>4 DEF Apart, InUse
<1> QED
  BY <1>3, <1>5 DEF Deploying

\* The merchant's card shows the chain.
LEMMA MerchantSeesChain ==
  ASSUME NEW ns, AreNodes(ns), Apart(ns)
  PROVE  Only(MerchantChain(ns), ToSet(Deployed(ns).chain)) = Deployed(ns).chain
<1> DEFINE t == ByPriority(Only(ns, Named(ns)))
           I == Places(ns, Named(ns))
<1>1. ns \in Seq(ToSet(ns)) /\ Prioritised(ns) /\ I \subseteq DOMAIN ns
  BY NodesFacts DEF Places
<1>2. Only(ns, Named(ns)) \in Seq(ToSet(ns)) /\ Picks(Only(ns, Named(ns)), ns, I, Less)
  BY <1>1, OnlyPicks
<1>3. t \in Seq(ToSet(ns)) /\ Picks(t, ns, I, Before(ns))
  BY <1>1, <1>2, SortedPicks
<1>4. Places(ns, Deploying(ns)) \subseteq I
  BY DEF Places, Deploying
<1>5. \A i \in I : ns[i].alias \in ToSet(Deployed(ns).chain) => ns[i] \in Deploying(ns)
  BY <1>1, AliasOfChain DEF Places, Named
<1>6. MerchantChain(ns) = Aliases(t)
  BY DEF MerchantChain
<1> HIDE DEF t, I
<1> QED
  BY <1>1, <1>3, <1>4, <1>5, <1>6, ChainIsUsed

\* So does the admin's list, and a drawing when its nodes are in order.
LEMMA AdminSeesChain ==
  ASSUME NEW ns, AreNodes(ns), NEW t,
         \/ t = Sorted(ns)
         \/ t = Only(ns, Providers(ns)) /\ Apart(ns) /\ \A i \in DOMAIN ns : ns[i].priority = i
  PROVE  Only(Aliases(t), ToSet(Deployed(ns).chain)) = Deployed(ns).chain
<1>1. ns \in Seq(ToSet(ns)) /\ DOMAIN ns \subseteq Nat
  BY NodesFacts
<1>2. CASE t = Sorted(ns)
  <2> DEFINE I == Places(ns, Providers(ns) \intersect InUse(ns))
  <2>1. t \in Seq(ToSet(ns)) /\ Picks(t, ns, I, Before(ns))
    BY <1>2, SortedOnly DEF Sorted
  <2>2. I \subseteq DOMAIN ns /\ Places(ns, Deploying(ns)) \subseteq I
    BY DEF Places, Deploying, InUse
  <2>3. \A i \in I : ns[i].alias \in ToSet(Deployed(ns).chain) => ns[i] \in Deploying(ns)
    BY AliasOfChain DEF Places
  <2> HIDE DEF I
  <2> QED
    BY <2>1, <2>2, <2>3, ChainIsUsed
<1>3. CASE t = Only(ns, Providers(ns)) /\ Apart(ns) /\ \A i \in DOMAIN ns : ns[i].priority = i
  <2> DEFINE I == Places(ns, Providers(ns))
  <2>1. t \in Seq(ToSet(ns)) /\ Picks(t, ns, I, Less)
    BY <1>1, <1>3, OnlyPicks
  <2>2. I \subseteq DOMAIN ns /\ Places(ns, Deploying(ns)) \subseteq I
    BY DEF Places, Deploying, InUse
  <2>3. \A i, j \in I : <<i, j>> \in Less => <<i, j>> \in Before(ns)
    BY <1>1, <1>3, <2>2 DEF Less, Before
  <2>4. Picks(t, ns, I, Before(ns))
    BY <2>1, <2>3 DEF Picks, Enumerates
  <2>5. \A i \in I : ns[i].alias \in ToSet(Deployed(ns).chain) => ns[i] \in Deploying(ns)
    BY <1>3, AliasOfChain DEF Places
  <2> HIDE DEF I
  <2> QED
    BY <2>1, <2>2, <2>4, <2>5, ChainIsUsed
<1> QED
  BY <1>2, <1>3

\* All four tell whether the providers share the payments.
LEMMA StrategyIsTold ==
  ASSUME NEW ns, AreNodes(ns), ~IsVisual(ns), Deployed(ns).chain # <<>>
  PROVE  /\ AdminBadge(ns) = Deployed(ns).strategy /\ FlowSummary(ns).kind = Deployed(ns).strategy
         /\ MerchantBadge(ns) = Deployed(ns).strategy
<1> DEFINE V == ToSet(ns)
           heavy == {n \in InUse(ns) : n.weight > 0}
<1>1. ns \in Seq(V)
  BY NodesFacts
<1>2. ASSUME NEW x \in Seq(V), ToSet(x) = InUse(ns)
      PROVE  Positive(x) = <<>> <=> heavy = {}
  <2>1. ToSet(x) \intersect {n \in ToSet(x) : n.weight > 0} = heavy
    BY <1>2
  <2> QED
    BY <2>1, OnlyEmpty DEF Positive
<1>3. ASSUME NEW S, Places(ns, S) = Places(ns, InUse(ns)), NEW x \in Seq(V), NEW R, Picks(x, ns, Places(ns, S), R)
      PROVE  ToSet(x) = InUse(ns)
  <2>1. ToSet(x) = {ns[i] : i \in Places(ns, InUse(ns))}
    BY <1>3, PickedElements
  <2> QED
    BY <2>1 DEF Places, InUse, Providers, ToSet
<1>4. Only(ns, InUse(ns)) \in Seq(V) /\ ToSet(Only(ns, InUse(ns))) = InUse(ns)
  BY <1>1, <1>3, OnlyPicks
<1>5. DeployedProviders(ns) \in Seq(V) /\ ToSet(DeployedProviders(ns)) = InUse(ns)
  <2>1. Prioritised(ns) /\ Places(ns, InUse(ns)) \subseteq DOMAIN ns
    BY NodesFacts DEF Places
  <2>2. DeployedProviders(ns) \in Seq(V) /\ Picks(DeployedProviders(ns), ns, Places(ns, InUse(ns)), Before(ns))
    BY <1>1, <2>1, OnlyPicks, SortedPicks DEF DeployedProviders
  <2> QED
    BY <1>3, <2>2
<1>6. Sorted(ns) \in Seq(V) /\ ToSet(Sorted(ns)) = InUse(ns)
  <2>1. Places(ns, Providers(ns) \intersect InUse(ns)) = Places(ns, InUse(ns))
    BY DEF Places, InUse
  <2>2. Sorted(ns) \in Seq(V) /\ Picks(Sorted(ns), ns, Places(ns, Providers(ns) \intersect InUse(ns)), Before(ns))
    BY SortedOnly DEF Sorted
  <2> QED
    BY <1>3, <2>1, <2>2
<1>7. InUse(ns) # {}
  <2>1. /\ Deployed(ns).chain \in Seq({n.alias : n \in ToSet(ns)})
        /\ ToSet(Deployed(ns).chain) = {ns[i].alias : i \in Places(ns, Deploying(ns))}
    BY DeployedPicks
  <2>2. DOMAIN Deployed(ns).chain # {}
    <3>1. \A W : \A x \in Seq(W) : x # <<>> => DOMAIN x # {}
      OBVIOUS
    <3> QED
      BY <2>1, <3>1, Zenon
  <2>3. ToSet(Deployed(ns).chain) # {}
    BY <2>2 DEF ToSet
  <2> QED
    BY <2>1, <2>3 DEF Places, Deploying
<1>8. Only(ns, InUse(ns)) # <<>> /\ Sorted(ns) # <<>>
  <2>1. ToSet(<<>>) = {}
    BY DEF ToSet
  <2> QED
    BY <1>4, <1>6, <1>7, <2>1
<1>9. ~HasType(ns, {"weighted"}) /\ ~HasType(ns, {"condition"}) /\ ~HasType(ns, {"failover"})
  BY DEF IsVisual, HasType
<1>10. MerchantBadge(ns) = IF heavy # {} THEN "weighted" ELSE "priority"
  <2>1. MerchantBadge(ns) = IF \E n \in InUse(ns) : n.weight > 0 THEN "weighted" ELSE "priority"
    BY <1>7, <1>9 DEF MerchantBadge
  <2>2. (\E n \in InUse(ns) : n.weight > 0) <=> heavy # {}
    OBVIOUS
  <2> HIDE DEF heavy
  <2> QED
    BY <2>1, <2>2
<1> HIDE DEF heavy, V
<1>11. Deployed(ns).strategy = IF heavy # {} THEN "weighted" ELSE "priority"
  BY <1>2, <1>5, <1>9 DEF Deployed
<1>12. AdminBadge(ns) = IF heavy # {} THEN "weighted" ELSE "priority"
  <2>1. AdminBadge(ns) = Split(Only(ns, InUse(ns)))
    BY <1>8, <1>9 DEF AdminBadge
  <2> QED
    BY <1>2, <1>4, <2>1 DEF Split
<1>13. FlowSummary(ns).kind = IF heavy # {} THEN "weighted" ELSE "priority"
  BY <1>2, <1>6, <1>8 DEF FlowSummary
<1> QED
  BY <1>10, <1>11, <1>12, <1>13

----------------------------------------------------------------------------
\* Lists of nodes.
LEMMA OwnList ==
  ASSUME NEW V, NEW t \in Seq(V)
  PROVE  t \in Seq(ToSet(t)) /\ ToSet(t) \subseteq V
BY DEF ToSet

LEMMA NodesByPlace ==
  ASSUME NEW n \in Nat, NEW t, t = [i \in 1..n |-> t[i]], \A i \in 1..n : IsNode(t[i])
  PROVE  AreNodes(t)
<1> DEFINE V == {t[i] : i \in 1..n}
<1>1. t \in [1..n -> V]
  OBVIOUS
<1>2. \A x \in V : IsNode(x)
  OBVIOUS
<1> HIDE DEF V
<1>3. t \in Seq(V)
  BY <1>1
<1> QED
  BY <1>2, <1>3, OwnList DEF AreNodes

LEMMA NodesAmong ==
  ASSUME NEW V, NEW t \in Seq(V), \A n \in V : IsNode(n)
  PROVE  AreNodes(t)
BY OwnList DEF AreNodes

LEMMA NoNodes == AreNodes(<<>>)
<1> DEFINE V == {}
<1>1. <<>> \in Seq(V) /\ \A n \in V : IsNode(n)
  OBVIOUS
<1> HIDE DEF V
<1> QED
  BY <1>1, NodesAmong

LEMMA OnlyNodes ==
  ASSUME NEW ns, AreNodes(ns), NEW S
  PROVE  AreNodes(Only(ns, S))
BY OnlyPicks, NodesAmong DEF AreNodes

LEMMA MoreNodes ==
  ASSUME NEW ns, AreNodes(ns), NEW n, IsNode(n)
  PROVE  AreNodes(Append(ns, n)) /\ \A i \in DOMAIN ns : AreNodes(InsertAt(ns, i, n))
<1> DEFINE V == ToSet(ns) \union {n}
<1>1. ns \in Seq(V) /\ n \in V /\ \A x \in V : IsNode(x)
  <2>1. ToSet(ns) \subseteq V
    OBVIOUS
  <2>2. ns \in Seq(ToSet(ns)) /\ \A x \in V : IsNode(x)
    BY DEF AreNodes
  <2> HIDE DEF V
  <2>3. ns \in Seq(V)
    BY <2>1, <2>2
  <2> QED
    BY <2>2, <2>3 DEF V
<1> HIDE DEF V
<1>2. Append(ns, n) \in Seq(V)
  BY <1>1
<1>3. ASSUME NEW i \in DOMAIN ns PROVE InsertAt(ns, i, n) \in Seq(V)
  <2>1. Len(ns) \in Nat /\ i \in 1..Len(ns)
    BY <1>1
  <2>2. SubSeq(ns, 1, i - 1) \in Seq(V) /\ SubSeq(ns, i, Len(ns)) \in Seq(V)
    BY <1>1, <2>1
  <2>3. <<n>> \in Seq(V)
    BY <1>1
  <2> QED
    BY <2>2, <2>3 DEF InsertAt
<1> QED
  BY <1>1, <1>2, <1>3, NodesAmong

LEMMA RenumberedNodes ==
  ASSUME NEW ns, AreNodes(ns)
  PROVE  AreNodes(Renumbered(ns))
<1>1. Len(ns) \in Nat /\ DOMAIN ns = 1..Len(ns) /\ \A i \in 1..Len(ns) : IsNode(ns[i])
  BY ListFacts, NodesFacts DEF AreNodes
<1>2. PICK t : t = Renumbered(ns)
  OBVIOUS
<1>3. t = [i \in 1..Len(ns) |-> t[i]] /\ \A i \in 1..Len(ns) : t[i] = [ns[i] EXCEPT !.priority = i]
  BY <1>1, <1>2 DEF Renumbered
<1>4. ASSUME NEW i \in 1..Len(ns) PROVE IsNode(t[i])
  <2>1. IsNode(ns[i]) /\ i \in Int
    BY <1>1
  <2> QED
    BY <1>3, <2>1 DEF IsNode
<1> QED
  BY <1>1, <1>2, <1>3, <1>4, NodesByPlace

\* A node is changed at its place.
LEMMA ChangedNode ==
  ASSUME NEW ns, AreNodes(ns), NEW t, DOMAIN t = DOMAIN ns, t = [i \in DOMAIN t |-> t[i]],
         \A i \in DOMAIN ns : IsNode(ns[i]) => IsNode(t[i])
  PROVE  AreNodes(t)
<1>1. Len(ns) \in Nat /\ DOMAIN ns = 1..Len(ns) /\ \A i \in 1..Len(ns) : IsNode(ns[i])
  BY ListFacts, NodesFacts DEF AreNodes
<1> QED
  BY <1>1, NodesByPlace

----------------------------------------------------------------------------
\* What there is of routes, in the table, on the page and under way, is made of nodes.
IsVersion(v) ==
    /\ {"version", "name", "status", "graph"} \subseteq DOMAIN v
    /\ {"nodes", "edges"} \subseteq DOMAIN v.graph /\ AreNodes(v.graph.nodes)
AreVersions(vs) == vs \in Seq(ToSet(vs)) /\ \A v \in ToSet(vs) : IsVersion(v)
FineRoute(r) == IsRoute(r) /\ AreNodes(r.nodes) /\ AreVersions(r.versions)
FineDrawer(d) ==
    /\ IsDrawer(d) /\ AreNodes(d.graph.nodes)
    /\ d.open => FineRoute(d.copy[1])
FineRequest(r) ==
    /\ AreNodes(r.body.graph.nodes)
    /\ r.kind \notin {"list", "create"} => r.body.env \in DOMAIN routes

CardsInv ==
    /\ \A e \in DOMAIN routes : FineRoute(routes[e])
    /\ {"list", "filters"} \subseteq DOMAIN listing /\ DOMAIN listing.list \subseteq DOMAIN routes
    /\ \A e \in DOMAIN listing.list : FineRoute(listing.list[e])
    /\ FineDrawer(drawer)
    /\ \A r \in inbox \union answered : FineRequest(r)

LEMMA ClosedIsFine == FineDrawer(Closed0)
BY ClosedDrawer, NoNodes DEF FineDrawer, Closed0, NoGraph

LEMMA CardsInitHolds == NetInit /\ DrawerInit => CardsInv
<1> SUFFICES ASSUME NetInit, DrawerInit PROVE CardsInv
  OBVIOUS
<1>1. DOMAIN routes = {} /\ {"list", "filters"} \subseteq DOMAIN listing /\ listing.list = routes /\ drawer = Closed0
  BY DEF DrawerInit
<1> QED
  BY <1>1, ClosedIsFine DEF NetInit, CardsInv

LEMMA OneVersion ==
  ASSUME NEW v, IsVersion(v)
  PROVE  AreVersions(<<v>>)
<1>1. PICK t : t = <<v>>
  OBVIOUS
<1>2. PICK V : V = {v}
  OBVIOUS
<1>3. t \in Seq(V)
  BY <1>1, <1>2
<1>4. t \in Seq(ToSet(t)) /\ ToSet(t) \subseteq V
  BY <1>3, OwnList
<1>5. \A x \in ToSet(t) : IsVersion(x)
  BY <1>2, <1>4
<1> QED
  BY <1>1, <1>4, <1>5 DEF AreVersions

LEMMA PageOpensFine ==
  ASSUME CardsInv, NEW g \in StoredRoutes, OpenPage(g)
  PROVE  CardsInv'
<1>1. /\ DOMAIN routes = {} /\ DOMAIN routes' = {"test"} /\ routes'["test"] = FirstRoute(g)
      /\ UNCHANGED <<drawer, inbox, answered>>
      /\ listing' = [listing EXCEPT !.list = routes']
  BY DEF OpenPage, net
<1>2. FineRoute(FirstRoute(g))
  <2>1. PICK v : v = [version |-> 1, name |-> "given", status |-> "draft", graph |-> g, errors |-> FALSE]
    OBVIOUS
  <2>2. {"nodes", "edges"} \subseteq DOMAIN g /\ AreNodes(g.nodes)
    BY RoutesAssumption
  <2>3. IsVersion(v)
    BY <2>1, <2>2 DEF IsVersion
  <2>4. FirstRoute(g).versions = <<v>> /\ FirstRoute(g).nodes = g.nodes /\ IsRoute(FirstRoute(g))
    BY <2>1 DEF FirstRoute, IsRoute
  <2> QED
    BY <2>2, <2>3, <2>4, OneVersion DEF FineRoute
<1>3. {"list", "filters"} \subseteq DOMAIN listing' /\ listing'.list = routes'
  BY <1>1 DEF CardsInv
<1> QED
  BY <1>1, <1>2, <1>3 DEF CardsInv, FineDrawer, FineRequest, IsDrawer

\* What is done on the page without a request.
LEMMA FineKeeps ==
  ASSUME CardsInv, UNCHANGED <<routes, listing>>, inbox' \union answered' \subseteq inbox \union answered,
         FineDrawer(drawer')
  PROVE  CardsInv'
BY DEF CardsInv, FineDrawer, FineRequest, IsDrawer

LEMMA FineRedraw ==
  ASSUME CardsInv, NEW nodes, AreNodes(nodes), NEW edges, Redraw(nodes, edges)
  PROVE  CardsInv'
<1>1. UNCHANGED <<routes, listing, inbox, answered>> /\ drawer' = [drawer EXCEPT !.graph = [nodes |-> nodes, edges |-> edges]]
  BY DEF Redraw, Act
<1>2. FineDrawer(drawer')
  BY <1>1 DEF CardsInv, FineDrawer, IsDrawer
<1> QED
  BY <1>1, <1>2, FineKeeps

Here == {drawer.graph.nodes[i].id : i \in DOMAIN drawer.graph.nodes}

LEMMA PlaceFacts ==
  ASSUME AreNodes(drawer.graph.nodes), NEW id \in Here
  PROVE  /\ Place(id) \in DOMAIN drawer.graph.nodes /\ drawer.graph.nodes[Place(id)].id = id
         /\ IsNode(drawer.graph.nodes[Place(id)])
BY NodesFacts DEF Place, Here

LEMMA FineEdits ==
  ASSUME CardsInv,
         \/ ToggleAutoFailover
         \/ \E alias \in Aliases0 : AddProvider(alias)
         \/ \E id \in Here : \/ RemoveProvider(id) \/ ToggleEnabled(id)
                             \/ \E w \in Shares : SetWeight(id, w)
                             \/ \E target \in Here : ReorderNode(id, target)
  PROVE  CardsInv'
<1> DEFINE ns == drawer.graph.nodes
<1>1. AreNodes(ns) /\ Len(ns) \in Nat /\ DOMAIN ns = 1..Len(ns)
  BY ListFacts DEF CardsInv, FineDrawer, AreNodes
<1>2. CASE ToggleAutoFailover
  BY <1>1, <1>2, FineRedraw DEF ToggleAutoFailover
<1>3. ASSUME NEW alias \in Aliases0, AddProvider(alias) PROVE CardsInv'
  <2>1. PICK n : n = [id |-> alias, type |-> "provider", alias |-> alias, enabled |-> TRUE,
                      weight |-> 0, priority |-> Len(ns) + 1, distribution |-> <<>>]
    OBVIOUS
  <2>2. IsNode(n)
    BY <1>1, <2>1 DEF IsNode
  <2>3. Redraw(Append(ns, n), drawer.graph.edges)
    BY <1>3, <2>1 DEF AddProvider
  <2> QED
    BY <1>1, <2>2, <2>3, MoreNodes, FineRedraw
<1>4. ASSUME NEW id \in Here, RemoveProvider(id) PROVE CardsInv'
  <2> DEFINE edges == SelectSeq(drawer.graph.edges, LAMBDA e : e.source # id /\ e.target # id)
  <2>1. Redraw(Renumbered(Only(ns, AllBut(id))), edges)
    BY <1>4 DEF RemoveProvider
  <2> HIDE DEF edges, ns
  <2> QED
    BY <1>1, <2>1, OnlyNodes, RenumberedNodes, FineRedraw
<1>5. ASSUME NEW id \in Here, ToggleEnabled(id) PROVE CardsInv'
  <2>1. PICK t : t = [ns EXCEPT ![Place(id)].enabled = ~@]
    OBVIOUS
  <2>2. Redraw(t, drawer.graph.edges)
    BY <1>5, <2>1 DEF ToggleEnabled
  <2>3. DOMAIN t = DOMAIN ns /\ t = [i \in DOMAIN t |-> t[i]]
    BY <2>1
  <2>4. ASSUME NEW i \in DOMAIN ns, IsNode(ns[i]) PROVE IsNode(t[i])
    <3>1. t[i] = ns[i] \/ t[i] = [ns[i] EXCEPT !.enabled = ~ns[i].enabled]
      BY <2>1
    <3> QED
      BY <2>4, <3>1 DEF IsNode
  <2>5. AreNodes(t)
    BY <1>1, <2>3, <2>4, ChangedNode
  <2> QED
    BY <2>2, <2>5, FineRedraw
<1>6. ASSUME NEW id \in Here, NEW w \in Shares, SetWeight(id, w) PROVE CardsInv'
  <2>1. PICK t : t = [ns EXCEPT ![Place(id)].weight = w]
    OBVIOUS
  <2>2. Redraw(t, drawer.graph.edges)
    BY <1>6, <2>1 DEF SetWeight
  <2>3. DOMAIN t = DOMAIN ns /\ t = [i \in DOMAIN t |-> t[i]]
    BY <2>1
  <2>4. ASSUME NEW i \in DOMAIN ns, IsNode(ns[i]) PROVE IsNode(t[i])
    <3>1. t[i] = ns[i] \/ t[i] = [ns[i] EXCEPT !.weight = w]
      BY <2>1
    <3> QED
      BY <2>4, <3>1, RoutesAssumption DEF IsNode
  <2>5. AreNodes(t)
    BY <1>1, <2>3, <2>4, ChangedNode
  <2> QED
    BY <2>2, <2>5, FineRedraw
<1>7. ASSUME NEW id \in Here, NEW target \in Here, ReorderNode(id, target) PROVE CardsInv'
  <2> DEFINE without == Only(ns, AllBut(id))
             idx == CHOOSE i \in DOMAIN without : without[i].id = target
  <2>1. Redraw(Renumbered(InsertAt(without, idx, ns[Place(id)])), drawer.graph.edges)
    BY <1>7, Zenon DEF ReorderNode
  <2>2. id # target
    BY <1>7 DEF ReorderNode
  <2>3. \E i \in DOMAIN without : without[i].id = target
    <3>1. PICK j \in DOMAIN ns : ns[j].id = target
      BY DEF Here
    <3>2. ns \in Seq(ToSet(ns)) /\ ns[j] \in ToSet(ns)
      BY <1>1, <3>1, NodesFacts
    <3>3. ns[j] \in AllBut(id)
      BY <2>2, <3>1, <3>2, Zenon DEF AllBut
    <3>6. j \in Places(ns, AllBut(id))
      BY <3>1, <3>3, Zenon DEF Places
    <3>4. without \in Seq(ToSet(ns)) /\ ToSet(without) = {ns[i] : i \in Places(ns, AllBut(id))}
      <4>1. without \in Seq(ToSet(ns)) /\ Picks(without, ns, Places(ns, AllBut(id)), Less)
        BY <3>2, OnlyPicks
      <4> QED
        BY <4>1, PickedElements
    <3>5. ns[j] \in ToSet(without)
      BY <3>4, <3>6
    <3> QED
      BY <3>1, <3>5 DEF ToSet
  <2>4. idx \in DOMAIN without
    BY <2>3
  <2>5. AreNodes(without) /\ IsNode(ns[Place(id)])
    BY <1>1, OnlyNodes, PlaceFacts
  <2> HIDE DEF without, idx
  <2> QED
    BY <2>1, <2>4, <2>5, MoreNodes, RenumberedNodes, FineRedraw
<1> QED
  BY <1>2, <1>3, <1>4, <1>5, <1>6, <1>7

LEMMA FineLoaded ==
  ASSUME NEW d, FineDrawer(d), NEW r, FineRoute(r)
  PROVE  FineDrawer(Loaded(d, r))
<1>1. AreNodes(GraphOf(r).nodes)
  BY DEF FineRoute, GraphOf
<1> QED
  BY <1>1 DEF FineDrawer, IsDrawer, Loaded

LEMMA FineDrawings ==
  ASSUME CardsInv,
         \/ \E e \in DOMAIN listing.list : OpenDrawer(e)
         \/ CloseDrawer
         \/ \E mode \in {"order", "split"} : SetMode(mode)
  PROVE  CardsInv'
<1>1. ASSUME NEW e \in DOMAIN listing.list, OpenDrawer(e) PROVE CardsInv'
  <2>1. PICK d : d = [Closed0 EXCEPT !.open = TRUE, !.env = e, !.copy = <<listing.list[e]>>]
    OBVIOUS
  <2>2. UNCHANGED <<routes, listing, inbox, answered>> /\ drawer' = Loaded(d, listing.list[e])
    BY <1>1, <2>1 DEF OpenDrawer, Act
  <2>3. FineRoute(listing.list[e]) /\ e \in DOMAIN routes
    BY DEF CardsInv
  <2>4. FineDrawer(d)
    BY <2>1, <2>3, NoNodes DEF FineDrawer, IsDrawer, Closed0, NoGraph
  <2> QED
    BY <2>2, <2>3, <2>4, FineLoaded, FineKeeps
<1>2. CASE CloseDrawer
  BY <1>2, ClosedIsFine, FineKeeps DEF CloseDrawer, Act
<1>3. ASSUME NEW mode \in {"order", "split"}, SetMode(mode) PROVE CardsInv'
  <2>1. UNCHANGED <<routes, listing, inbox, answered>> /\ drawer' = [drawer EXCEPT !.mode = mode]
    BY <1>3 DEF SetMode, Act
  <2>2. FineDrawer(drawer')
    BY <2>1 DEF CardsInv, FineDrawer, IsDrawer
  <2> QED
    BY <2>1, <2>2, FineKeeps
<1> QED
  BY <1>1, <1>2, <1>3

LEMMA FineBehind ==
  ASSUME CardsInv,
         \/ NewRoute \/ NameRoute \/ WizardNext \/ WizardBack \/ SwitchSections
         \/ \E e \in Env : ChooseEnv(e)
         \/ \E text \in {"", "x"} : HandleSearch(text)
  PROVE  CardsInv'
<1>1. \A w : WizardClick(w) => UNCHANGED <<routes, listing, drawer, inbox, answered>>
  BY DEF WizardClick, Act
<1>2. UNCHANGED <<routes, listing, drawer, inbox, answered>>
  BY <1>1 DEF NewRoute, NameRoute, WizardNext, WizardBack, SwitchSections, ChooseEnv, HandleSearch, Act
<1> QED
  BY <1>2, FineKeeps DEF CardsInv

LEMMA FineAsking ==
  ASSUME CardsInv, NEW kind, NEW body, Follow(kind, body), UNCHANGED <<routes, listing, drawer>>,
         AreNodes(body.graph.nodes), kind \notin {"list", "create"} => body.env \in DOMAIN routes
  PROVE  CardsInv'
<1> DEFINE r == Request(kind, body)
<1>1. inbox' = inbox \union {r} /\ answered' = {} /\ r.kind = kind /\ r.body = body
  BY DEF Follow, Request
<1> HIDE DEF r
<1>2. FineRequest(r)
  BY <1>1 DEF FineRequest
<1> QED
  BY <1>1, <1>2 DEF CardsInv, FineRequest, FineDrawer, IsDrawer

LEMMA FinalIsFine ==
  ASSUME AreNodes(drawer.graph.nodes)
  PROVE  AreNodes(FinalGraph.nodes)
<1> DEFINE ns == drawer.graph.nodes
<1>1. PICK t : t = FinalNodes
  OBVIOUS
<1>2. DOMAIN t = DOMAIN ns /\ t = [i \in DOMAIN t |-> t[i]]
      /\ \A i \in DOMAIN ns : t[i] = [ns[i] EXCEPT !.weight = IF drawer.mode = "split" THEN ns[i].weight ELSE 0]
  BY <1>1 DEF FinalNodes
<1>3. ASSUME NEW i \in DOMAIN ns, IsNode(ns[i]) PROVE IsNode(t[i])
  <2>1. PICK w \in Nat : t[i] = [ns[i] EXCEPT !.weight = w]
    <3>1. CASE drawer.mode = "split"
      <4>1. ns[i].weight \in Nat /\ t[i] = [ns[i] EXCEPT !.weight = ns[i].weight]
        BY <1>2, <1>3, <3>1 DEF IsNode
      <4> QED
        BY <4>1
    <3>2. CASE drawer.mode # "split"
      <4>1. t[i] = [ns[i] EXCEPT !.weight = 0]
        BY <1>2, <1>3, <3>2
      <4> QED
        BY <4>1
    <3> QED
      BY <3>1, <3>2
  <2> QED
    BY <2>1, <1>3 DEF IsNode
<1>4. AreNodes(t)
  BY <1>2, <1>3, ChangedNode
<1> QED
  BY <1>1, <1>4 DEF FinalGraph

LEMMA FineSends ==
  ASSUME CardsInv, NEW kind, NEW body, Sends(kind, body), {"env", "graph"} \subseteq DOMAIN body,
         AreNodes(body.graph.nodes)
  PROVE  CardsInv'
<1>1. PICK b : b = [body EXCEPT !.env = drawer.env]
  OBVIOUS
<1>2. Follow(kind, b) /\ UNCHANGED <<routes, listing, drawer>> /\ drawer.open
  BY <1>1 DEF Sends, Visit, drawerVars
<1>3. b.env = drawer.env /\ b.graph = body.graph
  BY <1>1
<1>4. drawer.env \in DOMAIN routes
  BY <1>2 DEF CardsInv, FineDrawer, IsDrawer
<1> QED
  BY <1>2, <1>3, <1>4, FineAsking

LEMMA FineVisits ==
  ASSUME CardsInv,
         \/ Save \/ PublishRoute
         \/ \E v : RestoreVersion(v) \/ DeleteVersion(v) \/ RenameVersion(v, "typed")
  PROVE  CardsInv'
<1>1. CASE Save \/ PublishRoute
  <2>1. PICK body : body = [Body EXCEPT !.graph = FinalGraph]
    OBVIOUS
  <2>2. {"env", "graph"} \subseteq DOMAIN body /\ body.graph = FinalGraph
    BY <2>1 DEF Body
  <2>3. AreNodes(FinalGraph.nodes)
    BY FinalIsFine DEF CardsInv, FineDrawer
  <2>4. Sends("save", body) \/ Sends("save to publish", body)
    BY <1>1, <2>1, Zenon DEF Save, PublishRoute
  <2> QED
    BY <2>2, <2>3, <2>4, FineSends
<1>2. ASSUME NEW v, RestoreVersion(v) \/ DeleteVersion(v) \/ RenameVersion(v, "typed") PROVE CardsInv'
  <2>1. PICK body : body \in {[Body EXCEPT !.version = v.version], [Body EXCEPT !.version = v.version, !.name = "typed"]}
                    /\ (Sends("rollback", body) \/ Sends("delete", body) \/ Sends("rename", body))
    BY <1>2 DEF RestoreVersion, DeleteVersion, RenameVersion
  <2>2. {"env", "graph"} \subseteq DOMAIN body /\ body.graph.nodes = <<>>
    <3>1. CASE body = [Body EXCEPT !.version = v.version]
      BY <3>1 DEF Body, NoGraph
    <3>2. CASE body = [Body EXCEPT !.version = v.version, !.name = "typed"]
      <4>1. PICK b : b = [Body EXCEPT !.version = v.version]
        OBVIOUS
      <4>2. body = [b EXCEPT !.name = "typed"]
        BY <3>2, <4>1
      <4> QED
        BY <4>1, <4>2 DEF Body, NoGraph
    <3> QED
      BY <2>1, <3>1, <3>2
  <2> QED
    BY <2>1, <2>2, NoNodes, FineSends
<1> QED
  BY <1>1, <1>2

LEMMA FineListVisits ==
  ASSUME CardsInv,
         \/ SubmitRoute \/ ClearFilters \/ ClearFromList
         \/ \E s \in {"", "draft", "published"} : ChooseStatus(s)
         \/ \E filters \in bar.timer \union bar.left : SearchFires(filters)
  PROVE  CardsInv'
<1> DEFINE Empty(body) == body.graph.nodes = <<>>
<1>1. \E kind \in {"list", "create"} : \E body :
         Follow(kind, body) /\ Empty(body) /\ UNCHANGED <<routes, listing, drawer>>
  <2>1. \A x : Empty([Body EXCEPT !.filters = x]) /\ Empty([Body EXCEPT !.env = x])
    BY DEF Body, NoGraph
  <2>2. Empty(Body)
    BY DEF Body, NoGraph
  <2> HIDE DEF Empty
  <2> QED
    BY <2>1, <2>2 DEF SubmitRoute, ClearFilters, ClearFromList, ChooseStatus, SearchFires, ApplyFilters, Visit
<1>2. PICK kind \in {"list", "create"} : \E body :
         Follow(kind, body) /\ Empty(body) /\ UNCHANGED <<routes, listing, drawer>>
  BY <1>1
<1>3. PICK body : Follow(kind, body) /\ Empty(body) /\ UNCHANGED <<routes, listing, drawer>>
  BY <1>2
<1> QED
  BY <1>3, NoNodes, FineAsking

----------------------------------------------------------------------------
\* What the service makes of a route is one.
LEMMA FineUpdated ==
  ASSUME NEW r, FineRoute(r), NEW g, AreNodes(g.nodes)
  PROVE  FineRoute(Updated(r, g))
<1>1. IsRoute(Updated(r, g)) /\ Updated(r, g).nodes = g.nodes
  BY UpdatedFacts DEF FineRoute, GraphOf
<1>2. Updated(r, g).versions = r.versions
  <2>1. PICK new : new = [r EXCEPT !.status = "draft", !.nodes = g.nodes, !.edges = g.edges,
                                                      !.errors = ~Graph!IsValid(GraphOf(g))]
    OBVIOUS
  <2>2. Updated(r, g) = IF new = r THEN r ELSE [new EXCEPT !.stamp = @ + 1]
    BY <2>1 DEF Updated, Touched
  <2>3. new.versions = r.versions /\ IsRoute(new)
    BY <2>1 DEF FineRoute, IsRoute
  <2> QED
    BY <2>2, <2>3 DEF IsRoute
<1> QED
  BY <1>1, <1>2 DEF FineRoute

LEMMA VersionsByPlace ==
  ASSUME NEW n \in Nat, NEW t, t = [i \in 1..n |-> t[i]], \A i \in 1..n : IsVersion(t[i])
  PROVE  AreVersions(t)
<1> DEFINE V == {t[i] : i \in 1..n}
<1>1. t \in [1..n -> V]
  OBVIOUS
<1>2. \A x \in V : IsVersion(x)
  OBVIOUS
<1> HIDE DEF V
<1>3. t \in Seq(V)
  BY <1>1
<1> QED
  BY <1>2, <1>3, OwnList DEF AreVersions

LEMMA VersionsFacts ==
  ASSUME NEW vs, AreVersions(vs)
  PROVE  Len(vs) \in Nat /\ DOMAIN vs = 1..Len(vs) /\ \A i \in DOMAIN vs : IsVersion(vs[i])
BY ListFacts DEF AreVersions, ToSet

LEMMA ChangedVersion ==
  ASSUME NEW vs, AreVersions(vs), NEW t, DOMAIN t = DOMAIN vs, t = [i \in DOMAIN t |-> t[i]],
         \A i \in DOMAIN vs : IsVersion(vs[i]) => IsVersion(t[i])
  PROVE  AreVersions(t)
BY VersionsFacts, VersionsByPlace

LEMMA MoreVersions ==
  ASSUME NEW vs, AreVersions(vs), NEW v, IsVersion(v)
  PROVE  AreVersions(Append(vs, v))
<1> DEFINE V == ToSet(vs) \union {v}
<1>1. vs \in Seq(V) /\ v \in V /\ \A x \in V : IsVersion(x)
  <2>1. ToSet(vs) \subseteq V
    OBVIOUS
  <2>2. vs \in Seq(ToSet(vs)) /\ \A x \in V : IsVersion(x)
    BY DEF AreVersions
  <2> HIDE DEF V
  <2>3. vs \in Seq(V)
    BY <2>1, <2>2
  <2> QED
    BY <2>2, <2>3 DEF V
<1> HIDE DEF V
<1>2. Append(vs, v) \in Seq(V)
  BY <1>1
<1> QED
  BY <1>1, <1>2, OwnList DEF AreVersions

LEMMA FewerVersions ==
  ASSUME NEW vs, AreVersions(vs), NEW i \in DOMAIN vs
  PROVE  AreVersions(RemoveAt(vs, i))
<1> DEFINE V == ToSet(vs)
<1>1. vs \in Seq(V) /\ \A x \in V : IsVersion(x)
  BY DEF AreVersions
<1> HIDE DEF V
<1>2. RemoveAt(vs, i) \in Seq(V)
  BY <1>1 DEF RemoveAt
<1> QED
  BY <1>1, <1>2, OwnList DEF AreVersions

LEMMA FineSnapshot ==
  ASSUME NEW r, FineRoute(r), NEW name
  PROVE  FineRoute(Snapshot(r, name))
<1> DEFINE retired == [i \in DOMAIN r.versions |->
                         IF r.status = "published" /\ r.versions[i].status = "published"
                         THEN [r.versions[i] EXCEPT !.status = "archived"] ELSE r.versions[i]]
<1>1. ASSUME NEW i \in DOMAIN r.versions, IsVersion(r.versions[i]) PROVE IsVersion(retired[i])
  <2>1. retired[i] = r.versions[i] \/ retired[i] = [r.versions[i] EXCEPT !.status = "archived"]
    OBVIOUS
  <2> HIDE DEF retired
  <2> QED
    BY <1>1, <2>1 DEF IsVersion
<1>2. DOMAIN retired = DOMAIN r.versions /\ retired = [i \in DOMAIN retired |-> retired[i]]
  OBVIOUS
<1>3. PICK v : v = [version |-> r.version, name |-> name, status |-> r.status, graph |-> GraphOf(r),
                      errors |-> r.errors]
  OBVIOUS
<1>4. IsVersion(v)
  BY <1>3 DEF IsVersion, GraphOf, FineRoute
<1>5. Snapshot(r, name) = [r EXCEPT !.versions = Append(retired, v)]
  BY <1>3, Zenon DEF Snapshot
<1> HIDE DEF retired
<1>6. AreVersions(retired)
  BY <1>1, <1>2, ChangedVersion DEF FineRoute
<1>7. AreVersions(Append(retired, v))
  BY <1>4, <1>6, MoreVersions
<1> QED
  BY <1>5, <1>7 DEF FineRoute, IsRoute

LEMMA FineStored ==
  ASSUME \A e \in DOMAIN routes : FineRoute(routes[e]), NEW e, NEW r, StoreRoute(e, r), FineRoute(r)
  PROVE  (\A x \in DOMAIN routes' : FineRoute(routes'[x])) /\ DOMAIN routes \subseteq DOMAIN routes'
BY DEF StoreRoute

LEMMA FineHandling ==
  ASSUME NEW r, NEW ok, Handle(r, ok), FineRequest(r), \A e \in DOMAIN routes : FineRoute(routes[e])
  PROVE  (\A e \in DOMAIN routes' : FineRoute(routes'[e])) /\ DOMAIN routes \subseteq DOMAIN routes'
<1> DEFINE e == r.body.env
<1>1. CASE UNCHANGED routes
  BY <1>1
<1>2. ASSUME NEW new, StoreRoute(e, new), FineRoute(new)
      PROVE  (\A x \in DOMAIN routes' : FineRoute(routes'[x])) /\ DOMAIN routes \subseteq DOMAIN routes'
  BY <1>2, FineStored
<1>3. CASE r.kind \in {"save", "save to publish"}
  <2>1. FineRoute(routes[e])
    BY <1>3 DEF FineRequest
  <2>2. UNCHANGED routes \/ StoreRoute(e, Updated(routes[e], r.body.graph))
    BY <1>3, Zenon DEF Handle
  <2> QED
    BY <1>1, <1>2, <2>1, <2>2, FineUpdated DEF FineRequest
<1>4. CASE r.kind = "publish"
  <2>1. FineRoute(routes[e])
    BY <1>4 DEF FineRequest
  <2>2. PICK r0 : r0 = [routes[e] EXCEPT !.status = "published", !.version = @ + 1, !.stamp = @ + 1, !.errors = FALSE]
    OBVIOUS
  <2>3. StoreRoute(e, Refused(routes[e])) \/ StoreRoute(e, Snapshot(r0, "given"))
    BY <1>4, <2>2, Zenon DEF Handle, PublishWorkflow
  <2>4. FineRoute(r0)
    BY <2>1, <2>2 DEF FineRoute, IsRoute
  <2>5. FineRoute(Refused(routes[e]))
    BY <2>1, RefusedFacts DEF FineRoute, GraphOf
  <2> QED
    BY <1>2, <2>3, <2>4, <2>5, FineSnapshot
<1>5. CASE r.kind = "rollback"
  <2>1. PICK i \in OfVersion(e, r.body.version) :
          LET v == routes[e].versions[i]
          IN  StoreRoute(e, Snapshot([routes[e] EXCEPT !.status = "draft", !.version = @ + 1,
                !.stamp = @ + 1, !.nodes = v.graph.nodes, !.edges = v.graph.edges, !.errors = v.errors], "given"))
    BY <1>5, Zenon DEF Handle
  <2>2. PICK v : v = routes[e].versions[i]
    OBVIOUS
  <2>3. PICK r0 : r0 = [routes[e] EXCEPT !.status = "draft", !.version = @ + 1,
                !.stamp = @ + 1, !.nodes = v.graph.nodes, !.edges = v.graph.edges, !.errors = v.errors]
    OBVIOUS
  <2>4. FineRoute(routes[e]) /\ i \in DOMAIN routes[e].versions
    BY <1>5, <2>1 DEF FineRequest, OfVersion
  <2>5. AreNodes(v.graph.nodes)
    BY <2>2, <2>4, VersionsFacts DEF FineRoute, IsVersion
  <2>6. FineRoute(r0)
    BY <2>3, <2>4, <2>5 DEF FineRoute, IsRoute
  <2>7. StoreRoute(e, Snapshot(r0, "given"))
    BY <2>1, <2>2, <2>3
  <2> QED
    BY <1>2, <2>6, <2>7, FineSnapshot
<1>6. ASSUME NEW versions, AreVersions(versions), e \in DOMAIN routes, StoreRoute(e, [routes[e] EXCEPT !.versions = versions])
      PROVE  (\A x \in DOMAIN routes' : FineRoute(routes'[x])) /\ DOMAIN routes \subseteq DOMAIN routes'
  <2>1. PICK new : new = [routes[e] EXCEPT !.versions = versions]
    OBVIOUS
  <2>2. FineRoute(routes[e])
    BY <1>6
  <2>3. FineRoute(new)
    BY <1>6, <2>1, <2>2 DEF FineRoute, IsRoute
  <2> QED
    BY <1>2, <1>6, <2>1, <2>3
<1>7. CASE r.kind = "rename"
  <2>1. FineRoute(routes[e]) /\ e \in DOMAIN routes
    BY <1>7 DEF FineRequest
  <2>2. PICK i \in OfVersion(e, r.body.version) : StoreRoute(e, [routes[e] EXCEPT !.versions[i].name = r.body.name])
    BY <1>7, Zenon DEF Handle
  <2>3. PICK vs : vs = routes[e].versions
    OBVIOUS
  <2>4. PICK t : t = [vs EXCEPT ![i].name = r.body.name]
    OBVIOUS
  <2>5. DOMAIN t = DOMAIN vs /\ t = [k \in DOMAIN t |-> t[k]]
    BY <2>4
  <2>6. ASSUME NEW k \in DOMAIN vs, IsVersion(vs[k]) PROVE IsVersion(t[k])
    <3>1. t[k] = vs[k] \/ t[k] = [vs[k] EXCEPT !.name = r.body.name]
      BY <2>4
    <3> QED
      BY <2>6, <3>1 DEF IsVersion
  <2>7. AreVersions(t)
    BY <2>1, <2>3, <2>5, <2>6, ChangedVersion DEF FineRoute
  <2>8. StoreRoute(e, [routes[e] EXCEPT !.versions = t])
    BY <2>2, <2>3, <2>4
  <2> QED
    BY <1>6, <2>1, <2>7, <2>8
<1>8. CASE r.kind = "delete"
  <2>1. FineRoute(routes[e]) /\ e \in DOMAIN routes
    BY <1>8 DEF FineRequest
  <2>2. PICK i \in OfVersion(e, r.body.version) :
          StoreRoute(e, [routes[e] EXCEPT !.versions = RemoveAt(@, i)]) \/ UNCHANGED routes
    BY <1>8, Zenon DEF Handle
  <2>3. AreVersions(RemoveAt(routes[e].versions, i))
    BY <2>1, <2>2, FewerVersions DEF FineRoute, OfVersion
  <2>4. CASE StoreRoute(e, [routes[e] EXCEPT !.versions = RemoveAt(@, i)])
    <3>1. StoreRoute(e, [routes[e] EXCEPT !.versions = RemoveAt(routes[e].versions, i)])
      BY <2>4
    <3> QED
      BY <1>6, <2>1, <2>3, <3>1
  <2> QED
    BY <1>1, <2>2, <2>4
<1>9. CASE r.kind = "create"
  <2>1. PICK new : new = [status |-> "draft", version |-> 1, nodes |-> <<>>, edges |-> <<>>, stamp |-> 0, errors |-> FALSE,
                           versions |-> <<>>]
    OBVIOUS
  <2>2. AreVersions(<<>>)
    BY OwnList DEF AreVersions, ToSet
  <2>3. FineRoute(new)
    BY <2>1, <2>2, NoNodes DEF FineRoute, IsRoute
  <2>4. StoreRoute(e, IF e \in DOMAIN routes THEN Updated(routes[e], GraphOf(routes[e])) ELSE Snapshot(new, "given"))
    BY <1>9, <2>1, Zenon DEF Handle
  <2>5. CASE e \in DOMAIN routes
    <3>1. StoreRoute(e, Updated(routes[e], GraphOf(routes[e]))) /\ AreNodes(GraphOf(routes[e]).nodes)
      BY <2>4, <2>5 DEF FineRoute, GraphOf
    <3> QED
      BY <1>2, <2>5, <3>1, FineUpdated
  <2>6. CASE e \notin DOMAIN routes
    <3>1. StoreRoute(e, Snapshot(new, "given"))
      BY <2>4, <2>6
    <3> QED
      BY <1>2, <2>3, <3>1, FineSnapshot
  <2> QED
    BY <2>5, <2>6
<1>10. CASE r.kind = "list"
  BY <1>1, <1>10 DEF Handle
<1> QED
  BY <1>3, <1>4, <1>5, <1>7, <1>8, <1>9, <1>10, Zenon DEF Handle

LEMMA FineServed ==
  ASSUME CardsInv, NEW r \in inbox, ServeDrawer(r)
  PROVE  CardsInv'
<1>1. PICK ok \in BOOLEAN : Handle(r, ok) /\ Served(r, ok) /\ UNCHANGED <<listing, bar, drawer, wizard>>
  BY DEF ServeDrawer
<1>2. PICK answer : answer = [no |-> r.no, kind |-> r.kind, body |-> r.body, ok |-> ok]
  OBVIOUS
<1>3. /\ UNCHANGED <<drawer, listing>> /\ inbox' = inbox \ {r}
      /\ answered' \subseteq answered \union {answer}
  BY <1>1, <1>2 DEF Served, ServedWith
<1>4. FineRequest(r) /\ FineRequest(answer)
  BY <1>2 DEF CardsInv, FineRequest
<1>5. (\A e \in DOMAIN routes' : FineRoute(routes'[e])) /\ DOMAIN routes \subseteq DOMAIN routes'
  BY <1>1, <1>4, FineHandling DEF CardsInv
<1> QED
  BY <1>3, <1>4, <1>5 DEF CardsInv, FineRequest, FineDrawer, IsDrawer

LEMMA FineAnswered ==
  ASSUME CardsInv, NEW a \in answered, AnswerDrawer(a)
  PROVE  CardsInv'
<1>1. UNCHANGED routes /\ listing' = Given(a)
  BY DEF AnswerDrawer
<1>2. /\ {"list", "filters"} \subseteq DOMAIN listing' /\ DOMAIN listing'.list \subseteq DOMAIN routes
      /\ \A e \in DOMAIN listing'.list : FineRoute(listing'.list[e])
  BY <1>1 DEF Given, Matching, CardsInv
<1>3. FineDrawer(drawer)'
  <2>1. CASE drawer' = Closed0
    BY <2>1, ClosedIsFine, <1>1 DEF FineDrawer, IsDrawer
  <2>2. CASE drawer' = Refreshed(drawer, listing'.list)
    <3>1. FineDrawer(drawer)
      BY DEF CardsInv
    <3>2. drawer.open => FineRoute(Editing(drawer, listing'.list))
      BY <1>2, <3>1 DEF Editing, FineDrawer
    <3>3. FineDrawer(drawer')
      BY <2>2, <3>1, <3>2, FineLoaded DEF Refreshed
    <3> QED
      BY <1>1, <3>3 DEF FineDrawer, IsDrawer
  <2> QED
    BY <2>1, <2>2, Zenon DEF AnswerDrawer
<1>4. \A r \in inbox' \union answered' : FineRequest(r)
  <2>1. CASE a.kind = "save to publish" /\ a.ok
    <3>1. PICK r : r = Request("publish", a.body)
      OBVIOUS
    <3>2. inbox' = inbox \union {r} /\ answered' = {} /\ r.kind = "publish" /\ r.body = a.body
      BY <2>1, <3>1 DEF AnswerDrawer, Follow, Request
    <3>4. FineRequest(r)
      BY <2>1, <3>2 DEF CardsInv, FineRequest
    <3> QED
      BY <3>2, <3>4 DEF CardsInv
  <2>2. CASE ~(a.kind = "save to publish" /\ a.ok)
    BY <2>2 DEF AnswerDrawer, Returned, CardsInv
  <2> QED
    BY <2>1, <2>2, Zenon DEF AnswerDrawer
<1>5. (\A r \in inbox' \union answered' : FineRequest(r)')
  BY <1>1, <1>4 DEF FineRequest
<1> QED
  BY <1>1, <1>2, <1>3, <1>5 DEF CardsInv

LEMMA FineSteps == CardsInv /\ DrawerNext => CardsInv'
<1> SUFFICES ASSUME CardsInv, DrawerNext PROVE CardsInv'
  OBVIOUS
<1>1. CASE DrawerClick
  <2>1. \/ \E e \in DOMAIN listing.list : OpenDrawer(e)
        \/ CloseDrawer \/ ToggleAutoFailover
        \/ \E alias \in Aliases0 : AddProvider(alias)
        \/ \E mode \in {"order", "split"} : SetMode(mode)
        \/ \E id \in Here : \/ RemoveProvider(id) \/ ToggleEnabled(id)
                            \/ \E w \in Shares : SetWeight(id, w)
                            \/ \E target \in Here : ReorderNode(id, target)
        \/ Save \/ PublishRoute
        \/ \E v : RestoreVersion(v) \/ DeleteVersion(v) \/ RenameVersion(v, "typed")
    <3>1. \A i \in DOMAIN drawer.graph.nodes : drawer.graph.nodes[i].id \in Here
      BY DEF Here
    <3> QED
      BY <1>1, <3>1, Zenon DEF DrawerClick
  <2> QED
    BY <2>1, FineDrawings, FineEdits, FineVisits
<1>2. CASE PageClick
  BY <1>2, FineBehind, FineListVisits DEF PageClick
<1>3. CASE \E r \in inbox \union answered : Lost(r) /\ UNCHANGED drawerVars
  <2>1. UNCHANGED <<routes, listing, drawer>> /\ inbox' \union answered' \subseteq inbox \union answered
    BY <1>3 DEF Lost, drawerVars
  <2> QED
    BY <2>1, FineKeeps DEF CardsInv
<1> QED
  BY <1>1, <1>2, <1>3, PageOpensFine, FineListVisits, FineServed, FineAnswered DEF DrawerNext

\* On the other pages there is no route.
CardsOrNone == IF shownPage = "drawer" THEN CardsInv ELSE DOMAIN routes = {}

LEMMA CardsInvariant == Spec => []CardsOrNone
<1>1. Init => CardsOrNone
  <2> SUFFICES ASSUME Init PROVE CardsOrNone
    OBVIOUS
  <2>1. CardsInv /\ DOMAIN routes = {}
    BY CardsInitHolds DEF Init, DrawerInit
  <2> QED
    BY <2>1 DEF CardsOrNone
<1>2. CardsOrNone /\ [Next]_portalVars => CardsOrNone'
  <2> SUFFICES ASSUME CardsOrNone, [Next]_portalVars PROVE CardsOrNone'
    OBVIOUS
  <2>1. CASE shownPage = "drawer" /\ DrawerNext /\ UNCHANGED shownPage
    BY <2>1, FineSteps DEF CardsOrNone
  <2>2. CASE UNCHANGED <<shownPage, drawerVars>> /\ (shownPage # "drawer" \/ UNCHANGED net)
    <3>1. CASE shownPage # "drawer"
      BY <2>2, <3>1 DEF CardsOrNone, drawerVars
    <3>2. CASE UNCHANGED net
      <4>1. UNCHANGED <<routes, listing, drawer, inbox, answered>>
        BY <2>2, <3>2 DEF drawerVars, net
      <4> QED
        BY <2>2, <4>1, FineKeeps DEF CardsOrNone, CardsInv
    <3> QED
      BY <2>2, <3>1, <3>2
  <2> QED
    BY <2>1, <2>2 DEF Next, portalVars
<1> QED
  BY <1>1, <1>2, PTL DEF Spec

\* A strip counts who is down, or not healthy, and so tells whether there is one.
LEMMA StripsTell == HealthIsTold
<1> SUFFICES ASSUME NEW rows \in [1..2 -> [status : HealthStatus, failures : 0..1]]
             PROVE  LET labels == {HealthLabel(rows[i]) : i \in DOMAIN rows}
                    IN  /\ StatusStrip(rows) > 0 <=> "down" \in labels
                        /\ SummaryStrip(rows) > 0 <=> labels # {"healthy"}
  BY DEF HealthIsTold
<1>1. DOMAIN rows = 1..2 /\ IsFiniteSet(1..2) /\ \A i \in 1..2 : rows[i].status \in HealthStatus
  <2>1. IsFiniteSet(1..2)
    <3>1. 1 \in Int /\ 2 \in Int
      OBVIOUS
    <3> QED
      BY <3>1, FS_Interval, Zenon
  <2> QED
    BY <2>1
<1>2. ASSUME NEW S \in SUBSET (1..2) PROVE Cardinality(S) > 0 <=> S # {}
  <2>1. IsFiniteSet(S) /\ Cardinality(S) \in Nat
    BY <1>1, FS_Subset, FS_CardinalityType
  <2> QED
    BY <2>1, FS_EmptySet
<1>3. \A i \in 1..2 : /\ HealthLabel(rows[i]) = "down" <=> rows[i].status = "unhealthy"
                      /\ HealthLabel(rows[i]) = "healthy" <=> rows[i].status = "healthy"
  BY <1>1 DEF HealthLabel, HealthStatus
<1>4. StatusStrip(rows) > 0 <=> \E i \in 1..2 : rows[i].status = "unhealthy"
  BY <1>1, <1>2 DEF StatusStrip
<1>5. SummaryStrip(rows) > 0 <=> \E i \in 1..2 : rows[i].status # "healthy"
  BY <1>1, <1>2 DEF SummaryStrip
<1> QED
  BY <1>1, <1>3, <1>4, <1>5

\* What both pages tell of any route (the providers' order, and of one that is not drawn in the
\* builder the badge), and of the providers' health, is what is deployed and stored
\* (RouteCard, WorkflowCard and syncRoutingConfiguration over the same nodes).
THEOREM PagesTellAlike == Spec => []PagesAgree
<1>1. CardsOrNone => ChainIsShown
  <2> SUFFICES ASSUME CardsOrNone, NEW e \in DOMAIN routes
               PROVE  LET ns == routes[e].nodes
                          Used(aliases) == Only(aliases, ToSet(Deployed(ns).chain))
                          admin == RouteCard(routes[e])
                          flow == [i \in DOMAIN admin.flow |-> admin.flow[i].alias]
                      IN  /\ Apart(ns) => Used(WorkflowCard(routes[e]).chain) = Deployed(ns).chain
                          /\ ~ShownAsDrawn(ns) \/ (Ranked(ns) /\ Apart(ns)) => Used(flow) = Deployed(ns).chain
                          /\ (~IsVisual(ns) /\ Deployed(ns).chain # <<>>) =>
                               /\ admin.badge = Deployed(ns).strategy
                               /\ admin.summary.kind = Deployed(ns).strategy
                               /\ WorkflowCard(routes[e]).badge = Deployed(ns).strategy
    BY Zenon DEF ChainIsShown
  <2> DEFINE ns == routes[e].nodes
             shown == IF ShownAsDrawn(ns) THEN Only(ns, Providers(ns)) ELSE Sorted(ns)
             flow == [i \in DOMAIN ProviderFlow(ns) |-> ProviderFlow(ns)[i].alias]
  <2>1. AreNodes(ns)
    BY DEF CardsOrNone, CardsInv, FineRoute
  <2>2. /\ WorkflowCard(routes[e]).chain = MerchantChain(ns)
        /\ WorkflowCard(routes[e]).badge = MerchantBadge(ns)
        /\ RouteCard(routes[e]).flow = ProviderFlow(ns)
        /\ RouteCard(routes[e]).badge = AdminBadge(ns)
        /\ RouteCard(routes[e]).summary = FlowSummary(ns)
    BY DEF WorkflowCard, RouteCard
  <2>3. flow = Aliases(shown)
    BY DEF ProviderFlow, Pill, Aliases
  <2>4. Apart(ns) => Only(MerchantChain(ns), ToSet(Deployed(ns).chain)) = Deployed(ns).chain
    BY <2>1, MerchantSeesChain
  <2>5. ~ShownAsDrawn(ns) \/ (Ranked(ns) /\ Apart(ns)) => Only(flow, ToSet(Deployed(ns).chain)) = Deployed(ns).chain
    BY <2>1, <2>3, AdminSeesChain DEF Ranked
  <2>6. ~IsVisual(ns) /\ Deployed(ns).chain # <<>> =>
          /\ AdminBadge(ns) = Deployed(ns).strategy /\ FlowSummary(ns).kind = Deployed(ns).strategy
          /\ MerchantBadge(ns) = Deployed(ns).strategy
    BY <2>1, StrategyIsTold
  <2> QED
    BY <2>2, <2>4, <2>5, <2>6
<1>2. CardsOrNone => PagesAgree
  BY <1>1, StripsTell DEF PagesAgree
<1> QED
  BY <1>2, CardsInvariant, PTL

-----------------------------------------------------------------------------
(***************************************************************************)
(* The merchant's account and its logo                                     *)
(***************************************************************************)

\* What is asked of, and answered about, an account that exists.
Needs(r) ==
    \/ r.kind \in {"info", "account"}
    \/ r.kind = "page" /\ r.body.ok /\ r.body.of \in {"page", "store"}
MerchantExists ==
    /\ merchant # Nothing => "logo" \in DOMAIN merchant
    /\ formPage.name = "edit" => merchant # Nothing
    /\ \A r \in inbox : Needs(r) => merchant # Nothing
    /\ \A a \in answered : a.body.ok /\ a.body.of \in {"page", "store"} => merchant # Nothing
    /\ desk # {} => merchant # Nothing

\* An update has its own choice of logo: the one that was loaded, none, or one it stored itself.
IsUpdate(w) == {"step", "loaded", "logo", "body"} \subseteq DOMAIN w
LogoChosen(w) ==
    /\ w.loaded \in 0..uploads /\ w.logo \in 0..uploads
    /\ w.step = "loaded" => w.logo = w.loaded
    /\ w.step = "deleted" => w.logo = IF w.body.data.remove THEN NoLogo ELSE w.loaded
    /\ w.step = "stored" =>
         /\ w.logo \in logos /\ w.logo # NoLogo /\ w.logo # merchant.logo
         /\ \A v \in desk : v.loaded # w.logo /\ (v.step = "stored" /\ v # w => v.logo # w.logo)

\* A logo that is gone from the disk is about to be replaced by the update that deleted it.
Replacing(w) ==
    /\ w.step \in {"deleted", "stored"} /\ (w.body.data.file \/ w.body.data.remove)
    /\ w.loaded = merchant.logo
LogoKept ==
    /\ merchant.logo \in 0..uploads
    /\ \A w \in desk : LogoChosen(w)
    /\ merchant.logo \in logos \union {NoLogo} \/ \E w \in desk : Replacing(w)

AccountInv ==
    /\ uploads \in Nat
    /\ MerchantExists
    /\ \A w \in desk : IsUpdate(w)
    /\ merchant # Nothing /\ ~torn => LogoKept

LEMMA FormInitHolds == FormInit /\ NetInit => AccountInv
<1> SUFFICES ASSUME FormInit, NetInit PROVE AccountInv
  OBVIOUS
<1>1. /\ desk = {} /\ uploads = 1 /\ inbox = {} /\ answered = {}
      /\ logos = IF merchant = Nothing THEN {} ELSE {merchant.logo} \ {NoLogo}
  BY DEF FormInit, NetInit
<1>2. merchant # Nothing => "logo" \in DOMAIN merchant /\ merchant.logo \in 0..1
  BY DEF FormInit, NoLogo
<1>3. formPage.name = "edit" => merchant # Nothing
  BY DEF FormInit, CreatePage
<1> QED
  BY <1>1, <1>2, <1>3 DEF AccountInv, MerchantExists, LogoKept

\* The page and its requests; the account stands still.
LEMMA FormPageSteps ==
  ASSUME AccountInv, UNCHANGED <<account, torn>>, MerchantExists'
  PROVE  AccountInv'
BY DEF AccountInv, LogoKept, LogoChosen, Replacing, account

LEMMA FormClickSteps ==
  ASSUME AccountInv,
         \/ VisitMerchant \/ PickLogo \/ RemoveLogo \/ SaveInfo \/ SaveStatus
         \/ \E s \in AccountStatus : ChooseAccountStatus(s) \/ \E file \in BOOLEAN : SubmitMerchant(s, file)
         \/ \E open \in BOOLEAN : ShowAddProvider(open)
         \/ \E c \in Accounts, s \in ProviderStatus, secret \in {"blank", "typed", "refused"} : AssignProvider(c, s, secret)
         \/ /\ Editable
            /\ \E c \in DOMAIN formPage.rows :
                 \/ EditCredentials(c)
                 \/ \E s \in ProviderStatus : ChangeProviderStatus(c, s) \/ ChooseInEditor(c, s)
                 \/ \E secret \in {"blank", "typed", "refused"} : SubmitCredentials(c, secret)
  PROVE  AccountInv'
<1>1. UNCHANGED <<account, torn>>
  BY DEF VisitMerchant, PickLogo, RemoveLogo, SaveInfo, SaveStatus, ChooseAccountStatus, SubmitMerchant,
         ShowAddProvider, AssignProvider, EditCredentials, ChangeProviderStatus, ChooseInEditor,
         SubmitCredentials, OnForms, SendsForm, formVars
<1>2. Editable \/ formPage' = formPage
  BY DEF VisitMerchant, PickLogo, RemoveLogo, SaveInfo, SaveStatus, ChooseAccountStatus, SubmitMerchant,
         ShowAddProvider, AssignProvider, EditCredentials, ChangeProviderStatus, ChooseInEditor,
         SubmitCredentials, OnForms, SendsForm, formVars
<1>3. CASE UNCHANGED net
  BY <1>1, <1>2, <1>3, FormPageSteps DEF net, AccountInv, MerchantExists, Editable, account
<1>4. CASE \E kind, body : Follow(kind, body) /\ (kind \in {"info", "account", "page"} => merchant # Nothing)
  <2>1. PICK kind, body : Follow(kind, body) /\ (kind \in {"info", "account", "page"} => merchant # Nothing)
    BY <1>4
  <2>2. answered' = {} /\ inbox' = inbox \union {Request(kind, body)} /\ Request(kind, body).kind = kind
    BY <2>1 DEF Follow, Request
  <2>3. \A r \in inbox' : Needs(r) => merchant # Nothing
    BY <2>1, <2>2 DEF AccountInv, MerchantExists, Needs
  <2>4. MerchantExists'
    BY <1>1, <1>2, <2>2, <2>3 DEF AccountInv, MerchantExists, Editable, account
  <2> QED
    BY <1>1, <2>4, FormPageSteps
<1>5. UNCHANGED net \/ \E kind, body : Follow(kind, body) /\ (kind \in {"info", "account", "page"} => merchant # Nothing)
  <2>1. VisitMerchant => \E kind, body : Follow(kind, body) /\ merchant # Nothing
    BY DEF VisitMerchant, Visit
  <2>2. ASSUME NEW kind, NEW c, NEW p, NEW data, SendsForm(kind, c, p, data)
        PROVE  \E body : Follow(kind, body)
    BY <2>2 DEF SendsForm, Visit
  <2>3. Editable => merchant # Nothing
    BY DEF AccountInv, MerchantExists, Editable
  <2>4. ASSUME NEW p, OnForms(p) PROVE UNCHANGED net
    BY <2>4 DEF OnForms
  <2>5. CASE PickLogo \/ RemoveLogo \/ \E s \in AccountStatus : ChooseAccountStatus(s)
    BY <2>4, <2>5, Zenon DEF PickLogo, RemoveLogo, ChooseAccountStatus
  <2>6. CASE SaveInfo \/ SaveStatus
    BY <2>2, <2>3, <2>6, Zenon DEF SaveInfo, SaveStatus
  <2>7. CASE \E s \in AccountStatus, file \in BOOLEAN : SubmitMerchant(s, file)
    <3>1. \E body : Follow("store", body)
      BY <2>2, <2>7, Zenon DEF SubmitMerchant
    <3> QED
      BY <3>1
  <2>8. CASE \E open \in BOOLEAN : ShowAddProvider(open)
    BY <2>4, <2>8, Zenon DEF ShowAddProvider
  <2>9. CASE \E c \in Accounts, s \in ProviderStatus, secret \in {"blank", "typed", "refused"} : AssignProvider(c, s, secret)
    BY <2>2, <2>3, <2>9, Zenon DEF AssignProvider
  <2>10. CASE \E c \in DOMAIN formPage.rows :
                 \/ EditCredentials(c)
                 \/ \E s \in ProviderStatus : ChangeProviderStatus(c, s) \/ ChooseInEditor(c, s)
                 \/ \E secret \in {"blank", "typed", "refused"} : SubmitCredentials(c, secret)
    BY <2>2, <2>3, <2>4, <2>10, Zenon DEF EditCredentials, ChangeProviderStatus, ChooseInEditor, SubmitCredentials
  <2> QED
    BY <2>1, <2>5, <2>6, <2>7, <2>8, <2>9, <2>10
<1> QED
  BY <1>3, <1>4, <1>5

\* Who is redirected asks for the page of an account, or of none if it was refused.
LEMMA AccountRedirects ==
  ASSUME NEW r \in inbox, NEW ok, FormRedirect(r, ok), UNCHANGED <<formPage, answered>>,
         MerchantExists, merchant # Nothing => merchant' # Nothing /\ "logo" \in DOMAIN merchant',
         ok /\ r.kind \in {"page", "store"} => merchant' # Nothing,
         merchant' # Nothing => "logo" \in DOMAIN merchant',
         desk' # {} => merchant' # Nothing
  PROVE  MerchantExists'
<1> DEFINE page == [no |-> r.no, kind |-> "page", body |-> [of |-> r.kind, account |-> r.body.account, ok |-> ok]]
<1>1. inbox' \subseteq inbox \union {page}
  BY DEF FormRedirect
<1>2. page.kind = "page" /\ page.body.of = r.kind /\ page.body.ok = ok
  OBVIOUS
<1> HIDE DEF page
<1>3. \A q \in inbox' : Needs(q) => merchant' # Nothing
  BY <1>1, <1>2 DEF MerchantExists, Needs
<1> QED
  BY <1>3 DEF MerchantExists

\* The handlers that do not touch a logo.
LEMMA AccountSteps ==
  ASSUME AccountInv, NEW r \in inbox,
         RefuseForm(r) \/ UpdateCredential(r) \/ UpsertCredential(r) \/ UpdateStatus(r)
  PROVE  AccountInv'
<1>1. /\ UNCHANGED <<logos, uploads, desk, torn, formPage, answered>>
      /\ r.kind \notin {"page", "info"}
      /\ \E ok : FormRedirect(r, ok) /\ (r.kind = "store" => ~ok)
  BY DEF RefuseForm, UpdateCredential, UpsertCredential, UpdateStatus, AtServer, account
<1>2. merchant' = merchant \/ (r.kind = "account" /\ \E s : merchant' = [merchant EXCEPT !.status = s])
  BY DEF RefuseForm, UpdateCredential, UpsertCredential, UpdateStatus, account
<1>3. merchant # Nothing => "logo" \in DOMAIN merchant' /\ merchant'.logo = merchant.logo
  BY <1>2 DEF AccountInv, MerchantExists
<1>4. /\ "logo" \in DOMAIN merchant' => merchant' # Nothing
      /\ merchant = Nothing => merchant' = Nothing
  BY <1>2 DEF Nothing, AccountInv, MerchantExists, Needs
<1>5. MerchantExists'
  BY <1>1, <1>3, <1>4, AccountRedirects DEF AccountInv, MerchantExists
<1> QED
  BY <1>1, <1>3, <1>4, <1>5 DEF AccountInv, LogoKept, LogoChosen, Replacing

\* An account is created, without a logo.
LEMMA AccountCreation ==
  ASSUME AccountInv, NEW r \in inbox, CreateMerchant(r)
  PROVE  AccountInv'
<1> DEFINE w == [no |-> r.no, kind |-> "store", step |-> "deleted", loaded |-> NoLogo, logo |-> NoLogo,
                 body |-> [of |-> "store", account |-> "any", data |-> [file |-> r.body.data.file, remove |-> FALSE]]]
<1>1. /\ UNCHANGED <<logos, uploads, torn, formPage, answered>> /\ inbox' \subseteq inbox
      /\ merchant = Nothing /\ desk = {}
      /\ desk' = {w}
      /\ "logo" \in DOMAIN merchant' /\ merchant'.logo = NoLogo /\ merchant' # Nothing
  BY DEF CreateMerchant, AtServer, AccountInv, MerchantExists, Nothing
<1>2. IsUpdate(w) /\ w.step = "deleted" /\ w.loaded = NoLogo /\ w.logo = NoLogo /\ ~w.body.data.remove
  BY DEF IsUpdate
<1> HIDE DEF w
<1>3. uploads \in Nat
  BY DEF AccountInv
<1>4. LogoKept'
  BY <1>1, <1>2, <1>3 DEF LogoKept, LogoChosen, NoLogo
<1> QED
  BY <1>1, <1>2, <1>3, <1>4 DEF AccountInv, MerchantExists

\* An update loads the account.
LEMMA UpdateLoads ==
  ASSUME AccountInv, NEW r \in inbox, LoadMerchant(r)
  PROVE  AccountInv'
<1> DEFINE w == [no |-> r.no, kind |-> "info", step |-> "loaded", loaded |-> merchant.logo,
                 logo |-> merchant.logo, body |-> r.body]
<1>1. /\ UNCHANGED <<merchant, logos, uploads, torn, formPage, answered>> /\ inbox' \subseteq inbox
      /\ merchant # Nothing
      /\ desk' = desk \union {w}
  BY DEF LoadMerchant, AtServer, AccountInv, MerchantExists, Needs
<1>2. IsUpdate(w) /\ w.step = "loaded" /\ w.loaded = merchant.logo /\ w.logo = merchant.logo
  BY DEF IsUpdate
<1> HIDE DEF w
<1>3. ASSUME LogoKept PROVE LogoKept'
  <2>1. \A v \in desk' : LogoChosen(v)'
    BY <1>1, <1>2, <1>3 DEF LogoKept, LogoChosen
  <2> QED
    BY <1>1, <1>2, <1>3, <2>1 DEF LogoKept, Replacing
<1> QED
  BY <1>1, <1>2, <1>3 DEF AccountInv, MerchantExists

\* The file of the logo that was loaded is deleted.
LEMMA LogoDeletion ==
  ASSUME AccountInv, NEW w \in desk, DeleteLogo(w)
  PROVE  AccountInv'
<1>1. /\ UNCHANGED <<merchant, uploads, torn, formPage, answered, inbox>>
      /\ merchant # Nothing /\ w.step = "loaded"
      /\ logos' = IF w.body.data.file \/ w.body.data.remove THEN logos \ {w.loaded} ELSE logos
      /\ Onto(w, [w EXCEPT !.step = "deleted", !.logo = IF w.body.data.remove THEN NoLogo ELSE @])
  BY DEF DeleteLogo, AtServer, AccountInv, MerchantExists
<1>4. PICK next : next = [w EXCEPT !.step = "deleted", !.logo = IF w.body.data.remove THEN NoLogo ELSE w.logo]
  OBVIOUS
<1>2. /\ desk' = (desk \ {w}) \union {next}
      /\ IsUpdate(next) /\ next.step = "deleted" /\ next.loaded = w.loaded /\ next.body = w.body
      /\ next.logo = IF w.body.data.remove THEN NoLogo ELSE w.logo
  BY <1>1, <1>4 DEF IsUpdate, AccountInv, Onto
<1>3. ASSUME LogoKept PROVE LogoKept'
  <2>1. LogoChosen(w) /\ uploads \in Nat
    BY <1>3 DEF LogoKept, AccountInv
  <2>2. LogoChosen(next)'
    BY <1>1, <1>2, <2>1 DEF LogoChosen, NoLogo
  <2>3. ASSUME NEW v \in desk \ {w} PROVE LogoChosen(v)'
    BY <1>1, <1>2, <1>3, <2>3 DEF LogoKept, LogoChosen
  <2>4. merchant.logo \in logos' \union {NoLogo} \/ \E v \in desk' : Replacing(v)'
    BY <1>1, <1>2, <1>3 DEF LogoKept, Replacing
  <2> QED
    BY <1>1, <1>2, <1>3, <2>2, <2>3, <2>4 DEF LogoKept
<1> QED
  BY <1>1, <1>2, <1>3 DEF AccountInv, MerchantExists

\* The new logo is stored under a number of its own.
LEMMA LogoStoring ==
  ASSUME AccountInv, NEW w \in desk, StoreLogo(w)
  PROVE  AccountInv'
<1>1. /\ UNCHANGED <<merchant, torn, formPage, answered, inbox>>
      /\ merchant # Nothing /\ w.step = "deleted" /\ w.body.data.file
      /\ uploads' = uploads + 1 /\ uploads \in Nat
      /\ logos' = logos \union {uploads'}
      /\ Onto(w, [w EXCEPT !.step = "stored", !.logo = uploads'])
  BY DEF StoreLogo, AtServer, AccountInv, MerchantExists
<1>4. PICK next : next = [w EXCEPT !.step = "stored", !.logo = uploads']
  OBVIOUS
<1>2. /\ desk' = (desk \ {w}) \union {next}
      /\ IsUpdate(next) /\ next.step = "stored" /\ next.loaded = w.loaded /\ next.body = w.body
      /\ next.logo = uploads'
  BY <1>1, <1>4 DEF IsUpdate, AccountInv, Onto
<1>3. ASSUME LogoKept PROVE LogoKept'
  <2>1. \A v \in desk : LogoChosen(v) /\ v.loaded # uploads' /\ v.logo # uploads'
    BY <1>1, <1>3 DEF LogoKept, LogoChosen
  <2>5. merchant.logo \in 0..uploads' /\ merchant.logo # uploads' /\ uploads' # NoLogo
    BY <1>1, <1>3 DEF LogoKept, NoLogo
  <2>2. LogoChosen(next)'
    <3>1. next.loaded \in 0..uploads' /\ next.logo \in 0..uploads' /\ next.loaded # uploads'
      BY <1>1, <1>2, <2>1 DEF LogoChosen
    <3>2. \A v \in desk' : v.loaded # uploads' /\ (v # next => v.logo # uploads')
      BY <1>1, <1>2, <2>1, <3>1
    <3> QED
      BY <1>1, <1>2, <2>5, <3>1, <3>2 DEF LogoChosen
  <2>3. ASSUME NEW v \in desk \ {w} PROVE LogoChosen(v)'
    BY <1>1, <1>2, <2>1, <2>3 DEF LogoChosen
  <2>4. merchant.logo \in logos' \union {NoLogo} \/ \E v \in desk' : Replacing(v)'
    BY <1>1, <1>2, <1>3 DEF LogoKept, Replacing
  <2> QED
    BY <1>1, <1>2, <2>2, <2>3, <2>4, <2>5 DEF LogoKept
<1> QED
  BY <1>1, <1>2, <1>3 DEF AccountInv, MerchantExists

\* The address is written, if it differs from the one that was loaded.
LEMMA UpdateWrites ==
  ASSUME AccountInv, NEW w \in desk, UpdateMerchant(w)
  PROVE  AccountInv'
<1>1. /\ UNCHANGED <<logos, uploads, torn, formPage, answered>>
      /\ merchant # Nothing /\ uploads \in Nat
      /\ w.step = IF w.body.data.file THEN "stored" ELSE "deleted"
      /\ merchant' = IF w.logo = w.loaded THEN merchant ELSE [merchant EXCEPT !.logo = w.logo]
      /\ desk' = desk \ {w}
      /\ FormRedirect(w, TRUE)
  BY DEF UpdateMerchant, AtServer, AccountInv, MerchantExists
<1>2. /\ "logo" \in DOMAIN merchant' /\ merchant' # Nothing
      /\ merchant'.logo = IF w.logo = w.loaded THEN merchant.logo ELSE w.logo
  BY <1>1 DEF AccountInv, MerchantExists, Nothing
<1>3. ASSUME LogoKept PROVE LogoKept'
  <2>1. LogoChosen(w) /\ merchant'.logo \in 0..uploads
    BY <1>1, <1>2, <1>3 DEF LogoKept, LogoChosen
  <2>2. ASSUME NEW v \in desk' PROVE LogoChosen(v)'
    <3>1. LogoChosen(v) /\ v \in desk /\ v # w
      BY <1>1, <1>3 DEF LogoKept
    <3>2. v.step = "stored" => v.logo # merchant'.logo
      BY <1>1, <1>2, <2>1, <3>1 DEF LogoChosen
    <3> QED
      BY <1>1, <3>1, <3>2 DEF LogoChosen
  <2>3. merchant'.logo \in logos \union {NoLogo} \/ \E v \in desk' : Replacing(v)'
    <3>1. CASE w.logo # w.loaded
      BY <1>1, <1>2, <2>1, <3>1 DEF LogoChosen
    <3>2. CASE w.logo = w.loaded
      <4>1. ~Replacing(w) \/ merchant.logo = NoLogo
        BY <1>1, <2>1, <3>2 DEF Replacing, LogoChosen
      <4> QED
        BY <1>1, <1>2, <1>3, <3>2, <4>1 DEF LogoKept, Replacing
    <3> QED
      BY <3>1, <3>2
  <2> QED
    BY <1>1, <2>1, <2>2, <2>3 DEF LogoKept
<1>4. MerchantExists'
  <2> DEFINE page == [no |-> w.no, kind |-> "page", body |-> [of |-> w.kind, account |-> w.body.account, ok |-> TRUE]]
  <2>1. inbox' \subseteq inbox \union {w, page}
    BY <1>1 DEF FormRedirect
  <2> QED
    BY <1>1, <1>2 DEF AccountInv, MerchantExists
<1> QED
  BY <1>1, <1>2, <1>3, <1>4 DEF AccountInv

\* An update fails, half-way or before it began; other requests fail or are lost.
LEMMA FormFaultSteps ==
  ASSUME AccountInv,
         \/ \E w \in desk : UpdateFails(w)
         \/ \E r \in inbox : StoreFails(r)
         \/ \E r \in inbox \union answered : FormLost(r)
  PROVE  AccountInv'
<1>1. /\ UNCHANGED <<merchant, logos, uploads, formPage>>
      /\ inbox' \subseteq inbox /\ answered' \subseteq answered /\ desk' \subseteq desk
      /\ ~torn' => ~torn /\ \A w \in desk \ desk' : w.step = "loaded"
  <2>1. CASE \E w \in desk : UpdateFails(w)
    <3>1. PICK w \in desk : UpdateFails(w)
      BY <2>1
    <3>2. torn' = (torn \/ w.step # "loaded") /\ desk' = desk \ {w}
      BY <3>1 DEF UpdateFails
    <3>3. ~torn' => ~torn /\ w.step = "loaded"
      BY <3>2, Zenon
    <3>4. \A v \in desk \ desk' : v = w
      BY <3>2
    <3>5. UNCHANGED <<merchant, logos, uploads, formPage, inbox, answered>> /\ desk' \subseteq desk
      BY <3>1, <3>2 DEF UpdateFails, FormFails
    <3> QED
      BY <3>3, <3>4, <3>5
  <2>2. CASE (\E r \in inbox : StoreFails(r)) \/ \E r \in inbox \union answered : FormLost(r)
    BY <2>2 DEF StoreFails, FormLost, FormFails, Lost, formVars, account
  <2> QED
    BY <2>1, <2>2
<1>2. ASSUME LogoKept, ~torn' PROVE LogoKept'
  BY <1>1, <1>2 DEF LogoKept, LogoChosen, Replacing
<1> QED
  BY <1>1, <1>2 DEF AccountInv, MerchantExists

\* The page is answered for, and arrives.
LEMMA FormAnswerSteps ==
  ASSUME AccountInv, (\E r \in inbox : ServeForms(r)) \/ \E a \in answered : FormAnswered(a)
  PROVE  AccountInv'
<1>1. CASE \E r \in inbox : ServeForms(r)
  <2>1. PICK r \in inbox : ServeForms(r)
    BY <1>1
  <2> DEFINE body == [of |-> r.body.of, account |-> r.body.account, ok |-> r.body.ok,
                      merchant |-> merchant, creds |-> creds]
             answer == [no |-> r.no, kind |-> r.kind, body |-> body, ok |-> TRUE]
  <2>2. /\ UNCHANGED <<account, torn, formPage>> /\ inbox' \subseteq inbox
        /\ answered' \subseteq answered \union {answer} /\ r.kind = "page"
    BY <2>1 DEF ServeForms, ServedWith, formVars
  <2>3. answer.body.of = r.body.of /\ answer.body.ok = r.body.ok
    OBVIOUS
  <2> HIDE DEF answer
  <2>4. MerchantExists'
    BY <2>2, <2>3 DEF AccountInv, MerchantExists, Needs, account
  <2> QED
    BY <2>2, <2>4, FormPageSteps
<1>2. CASE \E a \in answered : FormAnswered(a)
  <2>1. PICK a \in answered : FormAnswered(a)
    BY <1>2
  <2>2. UNCHANGED <<account, torn, inbox>> /\ answered' = {}
    BY <2>1 DEF FormAnswered, Returned
  <2>3. formPage' = formPage \/ merchant # Nothing
    BY <2>1 DEF FormAnswered, AccountInv, MerchantExists, Editable
  <2>4. MerchantExists'
    BY <2>2, <2>3 DEF AccountInv, MerchantExists, account
  <2> QED
    BY <2>2, <2>4, FormPageSteps
<1> QED
  BY <1>1, <1>2

LEMMA FormSteps == AccountInv /\ FormNext => AccountInv'
BY FormClickSteps, AccountSteps, AccountCreation, UpdateLoads, LogoDeletion, LogoStoring, UpdateWrites,
   FormFaultSteps, FormAnswerSteps DEF FormNext

\* On the other pages there is no account.
AccountOrNone == IF shownPage = "forms" THEN AccountInv ELSE merchant = Nothing

LEMMA AccountInvariant == Spec => []AccountOrNone
<1>1. Init => AccountOrNone
  BY FormInitHolds DEF Init, AccountOrNone
<1>2. AccountOrNone /\ [Next]_portalVars => AccountOrNone'
  <2> SUFFICES ASSUME AccountOrNone, [Next]_portalVars PROVE AccountOrNone'
    OBVIOUS
  <2>1. CASE shownPage = "forms" /\ FormNext /\ UNCHANGED shownPage
    BY <2>1, FormSteps DEF AccountOrNone
  <2>2. CASE UNCHANGED <<shownPage, formVars>> /\ (shownPage # "forms" \/ UNCHANGED net)
    <3>1. CASE shownPage # "forms"
      BY <2>2, <3>1 DEF AccountOrNone, formVars, account
    <3>2. CASE UNCHANGED net
      BY <2>2, <3>2 DEF AccountOrNone, formVars, account, net, AccountInv, MerchantExists, LogoKept, LogoChosen, Replacing
    <3> QED
      BY <2>2, <3>1, <3>2
  <2> QED
    BY <2>1, <2>2 DEF Next, portalVars
<1> QED
  BY <1>1, <1>2, PTL DEF Spec

\* The logo a merchant's record names is a file, once the updates are done and none failed half-way,
\* for any number of updates that overlap (MerchantService.php).
THEOREM LogoIsOnDisk == Spec => []LogoIsThere
<1>1. AccountOrNone => LogoIsThere
  BY DEF AccountOrNone, AccountInv, LogoKept, LogoIsThere
<1> QED
  BY <1>1, AccountInvariant, PTL

-----------------------------------------------------------------------------
(***************************************************************************)
(* The rows of the credentials                                             *)
(***************************************************************************)

\* Unless visits were interrupted or failed, one request at most is somewhere on its way.
OneAtATime ==
    /\ \A r, q \in inbox : r = q
    /\ \A v, w \in desk : v = w
    /\ desk # {} => inbox = {}
    /\ answered # {} => inbox = {} /\ desk = {}
    /\ current = 0 => inbox = {} /\ desk = {} /\ answered = {}

\* What a request will do to a credential.
WillUpdate(r, c) ==
    /\ r.body.account = c
    /\ r.kind = "status" \/ (r.kind = "edit" /\ r.body.data.secret # "refused")
WillAssign(r, c) == r.kind = "assign" /\ r.body.data.secret # "refused" /\ r.body.data.to = c

\* A row shows what is stored, or what the request under way will store.
AsStored(row, c) ==
    /\ row.shown = creds[c].status \/ \E r \in inbox : WillUpdate(r, c)
    /\ \A r \in inbox : WillUpdate(r, c) => row.shown = r.body.data.status
    /\ \A r \in inbox : ~WillAssign(r, c)
RowsAsStored ==
    /\ "rows" \in DOMAIN formPage /\ "name" \in DOMAIN formPage
    /\ \A c \in DOMAIN formPage.rows : c \in DOMAIN creds /\ {"shown", "editing"} \subseteq DOMAIN formPage.rows[c]
    /\ \A c \in DOMAIN formPage.rows \ unsaved : AsStored(formPage.rows[c], c)

ShownInv ==
    /\ sent \in Nat
    /\ ~broken =>
         /\ OneAtATime
         /\ formPage.name = "edit" => RowsAsStored
         /\ \A a \in answered : a.body.creds = creds

\* A visit of the user's breaks none only if none is under way.
LEMMA VisitAlone ==
  ASSUME NEW kind, NEW body, Visit(kind, body), sent \in Nat
  PROVE  /\ sent' \in Nat /\ current' # 0 /\ answered' = {}
         /\ ~broken' => ~broken /\ current = 0
         /\ inbox' = inbox \union {Request(kind, body)}
         /\ Request(kind, body).kind = kind /\ Request(kind, body).body = body
<1>1. broken' = (broken \/ current # 0) /\ Follow(kind, body)
  BY DEF Visit
<1>2. ~broken' => ~broken /\ current = 0
  BY <1>1, Zenon
<1> QED
  BY <1>1, <1>2 DEF Follow, Request

\* A page that was just asked for shows what is stored.
LEMMA NewPage ==
  ASSUME NEW m, inbox' = {}, formPage' = EditPage(m, creds'), unsaved' = {}
  PROVE  RowsAsStored'
BY DEF RowsAsStored, AsStored, EditPage, NewRow

LEMMA RowsInitHold == FormInit /\ NetInit => ShownInv
<1> SUFFICES ASSUME FormInit, NetInit PROVE ShownInv
  OBVIOUS
<1>1. sent = 0 /\ inbox = {} /\ desk = {} /\ answered = {}
  BY DEF FormInit, NetInit
<1>2. formPage.name = "edit" => formPage = EditPage(merchant, creds)
  BY DEF FormInit, CreatePage
<1>3. formPage = EditPage(merchant, creds) => RowsAsStored
  BY <1>1 DEF RowsAsStored, AsStored, EditPage, NewRow
<1> QED
  BY <1>1, <1>2, <1>3 DEF ShownInv, OneAtATime

\* What is done on the page changes what a row shows only in the editor, unsaved.
LEMMA RowLocalSteps ==
  ASSUME ShownInv,
         \/ PickLogo \/ RemoveLogo
         \/ \E s \in AccountStatus : ChooseAccountStatus(s)
         \/ \E open \in BOOLEAN : ShowAddProvider(open)
         \/ /\ Editable
            /\ \E c \in DOMAIN formPage.rows : EditCredentials(c) \/ \E s \in ProviderStatus : ChooseInEditor(c, s)
  PROVE  ShownInv'
<1>1. UNCHANGED <<account, net>> /\ Editable
  BY DEF PickLogo, RemoveLogo, ChooseAccountStatus, ShowAddProvider, EditCredentials, ChooseInEditor, OnForms
<1>2. ASSUME RowsAsStored PROVE RowsAsStored'
  <2>1. CASE UNCHANGED unsaved /\ "rows" \in DOMAIN formPage' /\ "name" \in DOMAIN formPage' /\ formPage'.rows = formPage.rows
    BY <1>1, <1>2, <2>1 DEF RowsAsStored, AsStored, account, net
  <2>2. ASSUME PickLogo \/ RemoveLogo \/ (\E s \in AccountStatus : ChooseAccountStatus(s)) \/ \E open \in BOOLEAN : ShowAddProvider(open)
        PROVE  UNCHANGED unsaved /\ "rows" \in DOMAIN formPage' /\ "name" \in DOMAIN formPage' /\ formPage'.rows = formPage.rows
    BY <1>2, <2>2 DEF RowsAsStored, PickLogo, RemoveLogo, ChooseAccountStatus, ShowAddProvider, OnForms
  <2>3. ASSUME NEW c \in DOMAIN formPage.rows, EditCredentials(c) \/ \E s \in ProviderStatus : ChooseInEditor(c, s)
        PROVE  RowsAsStored'
    <3> DEFINE Redrawn(rows) ==
                 /\ formPage' = [formPage EXCEPT !.rows = rows]
                 /\ DOMAIN rows = DOMAIN formPage.rows
                 /\ \A d \in DOMAIN rows : {"shown", "editing"} \subseteq DOMAIN rows[d]
                 /\ \A d \in DOMAIN rows \ unsaved' : d \notin unsaved /\ rows[d].shown = formPage.rows[d].shown
    <3>1. \E rows : Redrawn(rows)
      <4>1. CASE EditCredentials(c)
        <5> DEFINE rows == [formPage.rows EXCEPT ![c].editing = ~@]
        <5>1. formPage' = [formPage EXCEPT !.rows = rows] /\ UNCHANGED unsaved
          BY <4>1 DEF EditCredentials, OnForms
        <5>2. /\ DOMAIN rows = DOMAIN formPage.rows
              /\ \A d \in DOMAIN rows : {"shown", "editing"} \subseteq DOMAIN rows[d] /\ rows[d].shown = formPage.rows[d].shown
          BY <1>2 DEF RowsAsStored
        <5> HIDE DEF rows
        <5>3. Redrawn(rows)
          BY <5>1, <5>2
        <5> QED
          BY <5>3
      <4>2. ASSUME NEW s \in ProviderStatus, ChooseInEditor(c, s) PROVE \E rows : Redrawn(rows)
        <5> DEFINE rows == [formPage.rows EXCEPT ![c].shown = s]
        <5>1. formPage' = [formPage EXCEPT !.rows = rows] /\ unsaved' = unsaved \union {c}
          BY <4>2 DEF ChooseInEditor, OnForms
        <5>2. /\ DOMAIN rows = DOMAIN formPage.rows
              /\ \A d \in DOMAIN rows : /\ {"shown", "editing"} \subseteq DOMAIN rows[d]
                                        /\ d # c => rows[d].shown = formPage.rows[d].shown
          BY <1>2 DEF RowsAsStored
        <5> HIDE DEF rows
        <5>3. Redrawn(rows)
          BY <5>1, <5>2
        <5> QED
          BY <5>3
      <4> QED
        BY <2>3, <4>1, <4>2
    <3>2. PICK rows : Redrawn(rows)
      BY <3>1
    <3> QED
      BY <1>1, <1>2, <3>2 DEF RowsAsStored, AsStored, account, net
  <2> QED
    BY <2>1, <2>2, <2>3
<1>3. formPage.name = "edit"
  BY <1>1 DEF Editable
<1> QED
  BY <1>1, <1>2, <1>3 DEF ShownInv, OneAtATime, account, net

\* A request begins what it asks for on the rows that show it.
LEMMA RowAsksKeep ==
  ASSUME ShownInv, NEW kind, NEW body, Visit(kind, body), UNCHANGED account,
         formPage.name = "edit" /\ RowsAsStored =>
           /\ "rows" \in DOMAIN formPage' /\ "name" \in DOMAIN formPage'
           /\ DOMAIN formPage'.rows = DOMAIN formPage.rows
           /\ \A c \in DOMAIN formPage'.rows :
                /\ {"shown", "editing"} \subseteq DOMAIN formPage'.rows[c]
                /\ c \notin unsaved' =>
                     \/ /\ formPage'.rows[c].shown = body.data.status
                        /\ WillUpdate(Request(kind, body), c) /\ ~WillAssign(Request(kind, body), c)
                     \/ /\ formPage'.rows[c].shown = formPage.rows[c].shown /\ c \notin unsaved
                        /\ ~WillUpdate(Request(kind, body), c) /\ ~WillAssign(Request(kind, body), c),
         formPage.name # "edit" => formPage' = formPage
  PROVE  ShownInv'
<1> DEFINE r == Request(kind, body)
<1>1. /\ sent' \in Nat /\ current' # 0 /\ answered' = {}
      /\ ~broken' => ~broken /\ current = 0
      /\ inbox' = inbox \union {r}
      /\ r.body = body
  BY VisitAlone DEF ShownInv
<1> HIDE DEF r
<1>2. SUFFICES ASSUME ~broken' PROVE OneAtATime' /\ (formPage'.name = "edit" => RowsAsStored')
  BY <1>1 DEF ShownInv
<1>3. inbox = {} /\ desk = {} /\ inbox' = {r}
  BY <1>1, <1>2 DEF ShownInv, OneAtATime
<1>4. OneAtATime'
  BY <1>1, <1>3 DEF OneAtATime, account
<1>5. ASSUME formPage'.name = "edit" PROVE RowsAsStored'
  <2>1. formPage.name = "edit" /\ RowsAsStored
    BY <1>1, <1>2, <1>5 DEF ShownInv
  <2> QED
    BY <1>1, <1>3, <2>1 DEF RowsAsStored, AsStored, account, r
<1> QED
  BY <1>4, <1>5

LEMMA RowAsking ==
  ASSUME ShownInv,
         \/ VisitMerchant \/ SaveInfo \/ SaveStatus
         \/ \E s \in AccountStatus, file \in BOOLEAN : SubmitMerchant(s, file)
         \/ \E c \in Accounts, s \in ProviderStatus, secret \in {"blank", "typed", "refused"} : AssignProvider(c, s, secret)
         \/ /\ Editable
            /\ \E c \in DOMAIN formPage.rows :
                 \/ \E s \in ProviderStatus : ChangeProviderStatus(c, s)
                 \/ \E secret \in {"blank", "typed", "refused"} : SubmitCredentials(c, secret)
  PROVE  ShownInv'
<1>1. ASSUME NEW kind, NEW body, Visit(kind, body), kind \in {"page", "info", "account", "store"},
             UNCHANGED <<account, formPage, unsaved>>
      PROVE  ShownInv'
  <2>1. \A c : ~WillUpdate(Request(kind, body), c) /\ ~WillAssign(Request(kind, body), c)
    BY <1>1 DEF WillUpdate, WillAssign, Request
  <2> QED
    BY <1>1, <2>1, RowAsksKeep DEF RowsAsStored
<1>2. CASE VisitMerchant
  BY <1>1, <1>2 DEF VisitMerchant, formVars
<1>3. CASE SaveInfo \/ SaveStatus \/ \E s \in AccountStatus, file \in BOOLEAN : SubmitMerchant(s, file)
  BY <1>1, <1>3 DEF SaveInfo, SaveStatus, SubmitMerchant, SendsForm
<1>4. ASSUME NEW c \in Accounts, NEW s \in ProviderStatus, NEW secret \in {"blank", "typed", "refused"},
             AssignProvider(c, s, secret)
      PROVE  ShownInv'
  <2> DEFINE body == [of |-> "assign", account |-> "any", data |-> [to |-> c, status |-> s, secret |-> secret]]
             r == Request("assign", body)
  <2>1. /\ Visit("assign", body) /\ UNCHANGED <<account, formPage>>
        /\ unsaved' = IF secret = "refused" THEN unsaved ELSE unsaved \union (DOMAIN formPage.rows \intersect {c})
    BY <1>4 DEF AssignProvider, SendsForm
  <2>2. \A d : ~WillUpdate(r, d) /\ (WillAssign(r, d) => d = c /\ secret # "refused")
    BY DEF WillUpdate, WillAssign, Request
  <2> HIDE DEF body
  <2> QED
    BY <2>1, <2>2, RowAsksKeep DEF RowsAsStored
<1>5. ASSUME Editable, NEW c \in DOMAIN formPage.rows, NEW s \in ProviderStatus, ChangeProviderStatus(c, s)
      PROVE  ShownInv'
  <2> DEFINE body == [of |-> "status", account |-> c, data |-> [status |-> s]]
             r == Request("status", body)
             rows == [formPage.rows EXCEPT ![c].shown = s]
  <2>1. /\ Visit("status", body) /\ UNCHANGED account
        /\ unsaved' = unsaved \ {c} /\ formPage' = [formPage EXCEPT !.rows = rows]
    BY <1>5 DEF ChangeProviderStatus, SendsForm
  <2>2. /\ WillUpdate(r, c) /\ \A d : d # c => ~WillUpdate(r, d)
        /\ \A d : ~WillAssign(r, d)
        /\ body.data.status = s
    BY DEF WillUpdate, WillAssign, Request
  <2>3. RowsAsStored =>
        /\ DOMAIN rows = DOMAIN formPage.rows /\ rows[c].shown = s
        /\ \A d \in DOMAIN rows : /\ {"shown", "editing"} \subseteq DOMAIN rows[d]
                                  /\ d # c => rows[d].shown = formPage.rows[d].shown
    BY <1>5 DEF RowsAsStored
  <2> HIDE DEF body, rows
  <2>4. RowsAsStored => "rows" \in DOMAIN formPage' /\ "name" \in DOMAIN formPage' /\ formPage'.rows = rows
    BY <2>1 DEF RowsAsStored
  <2>5. formPage.name = "edit"
    BY <1>5 DEF Editable
  <2> QED
    BY <2>1, <2>2, <2>3, <2>4, <2>5, RowAsksKeep
<1>6. ASSUME Editable, NEW c \in DOMAIN formPage.rows, NEW secret \in {"blank", "typed", "refused"},
             SubmitCredentials(c, secret)
      PROVE  ShownInv'
  <2> DEFINE body == [of |-> "edit", account |-> c, data |-> [status |-> formPage.rows[c].shown, secret |-> secret]]
             r == Request("edit", body)
  <2>1. /\ Visit("edit", body) /\ UNCHANGED <<account, formPage>>
        /\ unsaved' = IF secret = "refused" THEN unsaved \union {c} ELSE unsaved \ {c}
    BY <1>6 DEF SubmitCredentials, SendsForm
  <2>2. /\ secret # "refused" => WillUpdate(r, c)
        /\ \A d : d # c => ~WillUpdate(r, d)
        /\ \A d : ~WillAssign(r, d)
        /\ body.data.status = formPage.rows[c].shown
    BY DEF WillUpdate, WillAssign, Request
  <2> HIDE DEF body
  <2> QED
    BY <2>1, <2>2, RowAsksKeep DEF RowsAsStored
<1> QED
  BY <1>2, <1>3, <1>4, <1>5, <1>6

\* Who is redirected asks for the page, alone.
LEMMA RowRedirects ==
  ASSUME NEW r, NEW ok, FormRedirect(r, ok), inbox \subseteq {r}, current # 0, desk' = {}, answered = {},
         UNCHANGED <<current, answered>>
  PROVE  OneAtATime' /\ \A q \in inbox' : \A c : ~WillUpdate(q, c) /\ ~WillAssign(q, c)
<1> DEFINE page == [no |-> r.no, kind |-> "page", body |-> [of |-> r.kind, account |-> r.body.account, ok |-> ok]]
<1>1. inbox' \subseteq {page}
  BY DEF FormRedirect
<1>2. page.kind = "page"
  OBVIOUS
<1> HIDE DEF page
<1>3. \A c : ~WillUpdate(page, c) /\ ~WillAssign(page, c)
  BY <1>2 DEF WillUpdate, WillAssign
<1> QED
  BY <1>1, <1>3 DEF OneAtATime

\* What a handler stores is what the row of that provider shows.
LEMMA RowStoring ==
  ASSUME ShownInv, NEW r \in inbox,
         \/ RefuseForm(r) \/ UpdateCredential(r) \/ UpsertCredential(r) \/ UpdateStatus(r)
         \/ CreateMerchant(r) \/ LoadMerchant(r)
  PROVE  ShownInv'
<1>1. UNCHANGED <<formPage, unsaved, current, answered, sent, broken>>
  BY DEF RefuseForm, UpdateCredential, UpsertCredential, UpdateStatus, CreateMerchant, LoadMerchant, AtServer
<1>2. SUFFICES ASSUME ~broken, OneAtATime
               PROVE  OneAtATime' /\ (formPage.name = "edit" /\ RowsAsStored => RowsAsStored') /\ answered' = {}
  BY <1>1 DEF ShownInv
<1>3. inbox = {r} /\ answered = {} /\ desk = {} /\ current # 0
  BY <1>2 DEF OneAtATime
<1>4. OneAtATime' /\ \A q \in inbox' : \A c : ~WillUpdate(q, c) /\ ~WillAssign(q, c)
  <2>1. CASE CreateMerchant(r) \/ LoadMerchant(r)
    <3>1. inbox' = {} /\ \E w : desk' = {w}
      BY <1>3, <2>1, Zenon DEF CreateMerchant, LoadMerchant
    <3> QED
      BY <1>1, <1>3, <3>1 DEF OneAtATime
  <2>2. CASE RefuseForm(r) \/ UpdateCredential(r) \/ UpsertCredential(r) \/ UpdateStatus(r)
    <3>1. desk' = desk /\ \E ok : FormRedirect(r, ok)
      BY <2>2 DEF RefuseForm, UpdateCredential, UpsertCredential, UpdateStatus, account
    <3> QED
      BY <1>1, <1>3, <3>1, RowRedirects
  <2> QED
    BY <2>1, <2>2
<1>5. ASSUME RowsAsStored, NEW c \in DOMAIN formPage.rows
      PROVE  /\ c \in DOMAIN creds'
             /\ c \notin unsaved => formPage.rows[c].shown = creds'[c].status
  <2>1. c \in DOMAIN creds /\ (c \notin unsaved => AsStored(formPage.rows[c], c))
    BY <1>5 DEF RowsAsStored
  <2>2. CASE RefuseForm(r) \/ UpdateStatus(r) \/ CreateMerchant(r) \/ LoadMerchant(r)
    <3>1. creds' = creds /\ ~WillUpdate(r, c)
      BY <2>2 DEF RefuseForm, UpdateStatus, CreateMerchant, LoadMerchant, WillUpdate, account
    <3> QED
      BY <1>3, <2>1, <3>1 DEF AsStored
  <2>3. CASE UpdateCredential(r)
    <3>1. PICK cred : creds' = [creds EXCEPT ![r.body.account] = cred] /\ cred.status = r.body.data.status
      <4> DEFINE cred == [status |-> r.body.data.status,
                          secret |-> creds[r.body.account].secret \/ (r.kind = "edit" /\ r.body.data.secret = "typed")]
      <4>1. creds' = [creds EXCEPT ![r.body.account] = cred]
        BY <2>3 DEF UpdateCredential
      <4>2. cred.status = r.body.data.status
        OBVIOUS
      <4> HIDE DEF cred
      <4> QED
        BY <4>1, <4>2
    <3>2. DOMAIN creds' = DOMAIN creds /\ creds'[c] = IF c = r.body.account THEN cred ELSE creds[c]
      BY <2>1, <3>1
    <3>3. WillUpdate(r, c) <=> c = r.body.account
      BY <2>3 DEF UpdateCredential, WillUpdate
    <3> QED
      BY <1>3, <2>1, <3>1, <3>2, <3>3 DEF AsStored
  <2>4. CASE UpsertCredential(r)
    <3>1. /\ c \in DOMAIN creds' /\ (c # r.body.data.to => creds'[c] = creds[c])
          /\ r.kind = "assign" /\ r.body.data.secret # "refused"
      BY <2>1, <2>4 DEF UpsertCredential
    <3>2. ~WillUpdate(r, c) /\ (c = r.body.data.to => WillAssign(r, c))
      BY <3>1 DEF WillUpdate, WillAssign
    <3> QED
      BY <1>3, <2>1, <3>1, <3>2 DEF AsStored
  <2> QED
    BY <2>2, <2>3, <2>4
<1>6. ASSUME RowsAsStored PROVE RowsAsStored'
  BY <1>1, <1>4, <1>5, <1>6 DEF RowsAsStored, AsStored
<1> QED
  BY <1>1, <1>3, <1>4, <1>6

\* An update of the account goes through its stages, and leaves the credentials.
LEMMA RowDeskSteps ==
  ASSUME ShownInv, NEW w \in desk, DeleteLogo(w) \/ StoreLogo(w) \/ UpdateMerchant(w)
  PROVE  ShownInv'
<1>1. UNCHANGED <<formPage, unsaved, current, answered, sent, broken, creds>>
  BY DEF DeleteLogo, StoreLogo, UpdateMerchant, AtServer
<1>2. SUFFICES ASSUME ~broken, OneAtATime
               PROVE  /\ OneAtATime' /\ answered' = {}
                      /\ formPage.name = "edit" /\ RowsAsStored => RowsAsStored'
  BY <1>1 DEF ShownInv
<1>3. desk = {w} /\ inbox = {} /\ answered = {} /\ current # 0
  BY <1>2 DEF OneAtATime
<1>4. OneAtATime' /\ \A q \in inbox' : \A c : ~WillUpdate(q, c) /\ ~WillAssign(q, c)
  <2>1. CASE DeleteLogo(w) \/ StoreLogo(w)
    <3>1. inbox' = {} /\ \E v : desk' = {v}
      <4>1. ASSUME NEW next, Onto(w, next) PROVE desk' = {next}
        BY <1>3, <4>1 DEF Onto
      <4> QED
        BY <1>3, <2>1, <4>1, Zenon DEF DeleteLogo, StoreLogo
    <3> QED
      BY <1>1, <1>3, <3>1 DEF OneAtATime
  <2>2. CASE UpdateMerchant(w)
    <3>1. desk' = {} /\ FormRedirect(w, TRUE)
      BY <1>3, <2>2 DEF UpdateMerchant
    <3> QED
      BY <1>1, <1>3, <3>1, RowRedirects
  <2> QED
    BY <2>1, <2>2
<1> QED
  BY <1>1, <1>3, <1>4 DEF RowsAsStored, AsStored

\* What fails or is lost is remembered.
LEMMA RowFaultSteps ==
  ASSUME ShownInv,
         \/ \E w \in desk : UpdateFails(w)
         \/ \E r \in inbox : StoreFails(r)
         \/ \E r \in inbox \union answered : FormLost(r)
  PROVE  ShownInv'
BY DEF ShownInv, UpdateFails, StoreFails, FormLost, FormFails, Lost

\* The page is answered for: nothing is stored until the answer arrives.
LEMMA RowServing ==
  ASSUME ShownInv, NEW r \in inbox, ServeForms(r)
  PROVE  ShownInv'
<1> DEFINE body == [of |-> r.body.of, account |-> r.body.account, ok |-> r.body.ok,
                    merchant |-> merchant, creds |-> creds]
           answer == [no |-> r.no, kind |-> r.kind, body |-> body, ok |-> TRUE]
<1>1. /\ UNCHANGED formVars /\ UNCHANGED <<current, sent, broken>>
      /\ inbox' = inbox \ {r} /\ answered' \subseteq answered \union {answer} /\ r.kind = "page"
  BY DEF ServeForms, ServedWith
<1>2. answer.body.creds = creds
  OBVIOUS
<1> HIDE DEF answer
<1>3. UNCHANGED <<formPage, unsaved, creds, desk>>
  BY <1>1 DEF formVars, account
<1>4. SUFFICES ASSUME ~broken, OneAtATime
               PROVE  /\ OneAtATime' /\ \A a \in answered' : a.body.creds = creds
                      /\ formPage.name = "edit" /\ RowsAsStored => RowsAsStored'
  BY <1>1, <1>3 DEF ShownInv
<1>5. inbox = {r} /\ answered = {} /\ desk = {} /\ current # 0
  BY <1>4 DEF OneAtATime
<1>6. OneAtATime' /\ \A a \in answered' : a.body.creds = creds
  BY <1>1, <1>2, <1>3, <1>5 DEF OneAtATime
<1>7. \A c : ~WillUpdate(r, c)
  BY <1>1 DEF WillUpdate
<1> QED
  BY <1>1, <1>3, <1>5, <1>6, <1>7 DEF RowsAsStored, AsStored

\* The answer arrives: new rows show what is stored, the others still do.
LEMMA RowArrival ==
  ASSUME ShownInv, NEW a \in answered, FormAnswered(a)
  PROVE  ShownInv'
<1>1. /\ UNCHANGED <<account, inbox, sent, broken>> /\ answered' = {} /\ current' = 0
  BY DEF FormAnswered, Returned
<1>2. SUFFICES ASSUME ~broken, OneAtATime, formPage.name = "edit" => RowsAsStored, a.body.creds = creds
               PROVE  OneAtATime' /\ (formPage'.name = "edit" => RowsAsStored')
  BY <1>1 DEF ShownInv
<1>3. inbox = {} /\ desk = {}
  BY <1>2 DEF OneAtATime
<1>4. OneAtATime'
  BY <1>1, <1>3 DEF OneAtATime, account
<1>5. CASE formPage' = EditPage(a.body.merchant, a.body.creds) /\ unsaved' = {}
  BY <1>1, <1>2, <1>3, <1>4, <1>5, NewPage DEF account
<1>6. CASE UNCHANGED <<formPage, unsaved>>
  BY <1>1, <1>2, <1>3, <1>4, <1>6 DEF RowsAsStored, AsStored, account
<1>7. CASE Editable /\ formPage' = Rerendered(a.body) /\ UNCHANGED unsaved
  <2> DEFINE rows == [c \in DOMAIN a.body.creds |->
                        IF c \in DOMAIN formPage.rows THEN formPage.rows[c] ELSE NewRow(a.body.creds[c])]
             closed == [c \in DOMAIN rows |-> IF a.body.of = "edit" /\ a.body.ok /\ a.body.account = c
                                              THEN [rows[c] EXCEPT !.editing = FALSE] ELSE rows[c]]
  <2>1. RowsAsStored
    BY <1>2, <1>7 DEF Editable
  <2>2. \A c \in DOMAIN creds : {"shown", "editing"} \subseteq DOMAIN rows[c] /\ (c \notin unsaved => rows[c].shown = creds[c].status)
    BY <1>2, <1>3, <2>1 DEF RowsAsStored, AsStored, NewRow
  <2>3. DOMAIN rows = DOMAIN creds
    BY <1>2
  <2>4. "rows" \in DOMAIN formPage' /\ "name" \in DOMAIN formPage' /\ formPage'.rows = closed
    BY <1>7, <2>1 DEF Rerendered, RowsAsStored
  <2> HIDE DEF rows
  <2>5. /\ DOMAIN closed = DOMAIN creds
        /\ \A c \in DOMAIN creds : {"shown", "editing"} \subseteq DOMAIN closed[c] /\ closed[c].shown = rows[c].shown
    BY <2>2, <2>3
  <2> HIDE DEF closed
  <2> QED
    BY <1>1, <1>3, <1>4, <1>7, <2>2, <2>4, <2>5 DEF RowsAsStored, AsStored, account
<1> QED
  BY <1>5, <1>6, <1>7 DEF FormAnswered

LEMMA ShownSteps == ShownInv /\ FormNext => ShownInv'
BY RowLocalSteps, RowAsking, RowStoring, RowDeskSteps, RowFaultSteps, RowServing, RowArrival DEF FormNext

\* On the other pages no form is shown.
FormsOrNone == IF shownPage = "forms" THEN ShownInv ELSE formPage.name # "edit"

LEMMA RowsInvariant == Spec => []FormsOrNone
<1>1. Init => FormsOrNone
  BY RowsInitHold DEF Init, FormInit, CreatePage, FormsOrNone
<1>2. FormsOrNone /\ [Next]_portalVars => FormsOrNone'
  <2> SUFFICES ASSUME FormsOrNone, [Next]_portalVars PROVE FormsOrNone'
    OBVIOUS
  <2>1. CASE shownPage = "forms" /\ FormNext /\ UNCHANGED shownPage
    BY <2>1, ShownSteps DEF FormsOrNone
  <2>2. CASE UNCHANGED <<shownPage, formVars>> /\ (shownPage # "forms" \/ UNCHANGED net)
    <3>1. CASE shownPage # "forms"
      BY <2>2, <3>1 DEF FormsOrNone, formVars
    <3>2. CASE UNCHANGED net
      BY <2>2, <3>2 DEF FormsOrNone, formVars, account, net, ShownInv, OneAtATime, RowsAsStored, AsStored
    <3> QED
      BY <2>2, <3>1, <3>2
  <2> QED
    BY <2>1, <2>2 DEF Next, portalVars
<1> QED
  BY <1>1, <1>2, PTL DEF Spec

\* Once everything is answered and nothing failed or was interrupted, the rows show the statuses
\* stored, for any number of providers and visits (Merchants/Edit.jsx).
THEOREM StoredIsShown == Spec => []ShownIsStored
<1>1. FormsOrNone => ShownIsStored
  BY DEF FormsOrNone, ShownInv, OneAtATime, RowsAsStored, AsStored, ShownIsStored, Editable
<1> QED
  BY <1>1, RowsInvariant, PTL

-----------------------------------------------------------------------------
(***************************************************************************)
(* The API keys                                                            *)
(***************************************************************************)

IsKey(row) == {"env", "status", "secret"} \subseteq DOMAIN row
KeyList(ks) == ks \in Seq({ks[i] : i \in DOMAIN ks}) /\ \A i \in DOMAIN ks : IsKey(ks[i])
ActiveIn(ks, e) == {x \in DOMAIN ks : ks[x].env = e /\ ks[x].status = "active"}

\* One request at most is under way, unless visits were interrupted or lost.
OneKeyRequest ==
    /\ sent \in Nat
    /\ \A r, q \in inbox : r = q
    /\ \A v, w \in atWork : v = w
    /\ \A a, b \in answered : a = b
    /\ atWork # {} => inbox = {}
    /\ answered # {} => inbox = {} /\ atWork = {}
    /\ current = 0 => inbox = {} /\ atWork = {} /\ answered = {}
    /\ \A r \in inbox \union atWork : r.no = current

\* The page and the requests know keys there are.
OfAKey(r) == r.kind \in {"rotate", "revoke", "delete"}
KeysKnown ==
    /\ {"name", "away", "form", "env", "rotating", "revoking", "keys", "generated"} \subseteq DOMAIN keyPage
    /\ DOMAIN keyPage.keys \subseteq DOMAIN keys
    /\ \A r \in inbox \union atWork : OfAKey(r) => r.body.key \in DOMAIN keys
    /\ \A a \in answered : DOMAIN a.body.keys \subseteq DOMAIN keys

\* What a request has read is still so when it writes.
UpToDate(w) ==
    /\ {"no", "kind", "body", "step", "loaded", "others"} \subseteq DOMAIN w
    /\ OfAKey(w) => w.loaded = keys[w.body.key].status /\ w.loaded # "deleted"
    /\ w.step = "read" => w.others = Others(w)

\* Secrets on their way to a page.
Coming == {a.body.generated : a \in answered} \union {flash : r \in {q \in inbox : q.kind = "page"}}

InForce(e) ==
    \E k \in DOMAIN keys :
      /\ ActiveIn(keys, e) = {k}
      /\ keys[k].secret # NoSecret /\ keys[k].secret \in seen \union unseen \union Coming

KeyInv ==
    ~broken =>
      /\ OneKeyRequest /\ KeyList(keys) /\ minted \in Nat
      /\ KeysKnown
      /\ \A w \in atWork : UpToDate(w)
      /\ \A e \in issued : InForce(e)

LEMMA KeyInitHolds == NetInit /\ ApiKeyInit => KeyInv
<1> SUFFICES ASSUME NetInit, ApiKeyInit PROVE KeyInv
  OBVIOUS
<1>1. inbox = {} /\ answered = {} /\ atWork = {} /\ issued = {} /\ sent = 0 /\ minted = 0
  BY DEF NetInit, ApiKeyInit
<1>2. KeyList(keys)
  <2>1. PICK row : row = [env |-> "test", status |-> "active", secret |-> NoSecret] /\ keys \in {<<>>, <<row>>}
    BY DEF ApiKeyInit
  <2>2. IsKey(row)
    BY <2>1 DEF IsKey
  <2>3. CASE keys = <<>>
    BY <2>3 DEF KeyList
  <2>4. CASE keys = <<row>>
    <3>1. <<row>> \in Seq({row}) /\ DOMAIN <<row>> = {1} /\ <<row>>[1] = row
      OBVIOUS
    <3>2. {keys[i] : i \in DOMAIN keys} = {row}
      BY <2>4, <3>1
    <3> QED
      BY <2>2, <2>4, <3>1, <3>2 DEF KeyList
  <2> QED
    BY <2>1, <2>3, <2>4
<1>3. PICK name : keyPage = Mounted(name, keys, NoSecret)
  BY DEF ApiKeyInit
<1>4. KeysKnown
  BY <1>1, <1>3 DEF KeysKnown, Mounted
<1> QED
  BY <1>1, <1>2, <1>4 DEF KeyInv, OneKeyRequest

\* What is done on the page leaves the keys and their secrets.
LEMMA KeyPageKeeps ==
  ASSUME KeyInv, UNCHANGED <<keys, minted, flash, atWork, seen, unseen, issued, current, inbox, answered, sent, broken>>,
         ~broken => KeysKnown'
  PROVE  KeyInv'
BY DEF KeyInv, OneKeyRequest, UpToDate, Others, EnvOf, InForce, Coming

LEMMA KeyLocalSteps ==
  ASSUME KeyInv,
         \/ OpenKeyForm \/ CloseKeyForm \/ PutBannerAway
         \/ \E e \in KeyEnv : ChooseKeyEnv(e)
  PROVE  KeyInv'
<1>1. \E page : OnKeyPage(page) /\ page \in {[keyPage EXCEPT !.form = TRUE], [keyPage EXCEPT !.form = FALSE],
                                            [keyPage EXCEPT !.away = TRUE]} \union {[keyPage EXCEPT !.env = e] : e \in KeyEnv}
  BY DEF OpenKeyForm, CloseKeyForm, PutBannerAway, ChooseKeyEnv
<1>2. UNCHANGED <<keys, minted, flash, atWork, seen, unseen, issued, current, inbox, answered, sent, broken>>
  BY <1>1 DEF OnKeyPage, keyStore, keyHistory, net
<1>3. KeysKnown => KeysKnown'
  <2> SUFFICES ASSUME KeysKnown PROVE KeysKnown'
    OBVIOUS
  <2>1. /\ DOMAIN keyPage' = DOMAIN keyPage /\ keyPage'.keys = keyPage.keys
    BY <1>1 DEF OnKeyPage, KeysKnown
  <2> QED
    BY <1>2, <2>1 DEF KeysKnown
<1> QED
  BY <1>2, <1>3, KeyPageKeeps DEF KeyInv

\* A visit is asked for about a key the page shows.
LEMMA AsksKeeps ==
  ASSUME KeyInv, NEW kind, NEW body, NEW page, Asks(kind, body, page),
         page = keyPage \/ \E k : page = [keyPage EXCEPT !.rotating = k] \/ page = [keyPage EXCEPT !.revoking = k],
         kind \in {"rotate", "revoke", "delete"} => body.key \in DOMAIN keyPage.keys
  PROVE  KeyInv'
<1> DEFINE r == Request(kind, body)
<1>1. /\ UNCHANGED <<keys, minted, flash, atWork, seen, unseen, issued>> /\ keyPage' = Cleared(page)
      /\ broken' = (broken \/ current # 0)
      /\ sent' = sent + 1 /\ current' = sent + 1 /\ inbox' = inbox \union {r} /\ answered' = {}
  BY DEF Asks, Visit, Follow, keyStore, keyHistory
<1>2. ~broken' => ~broken /\ current = 0
  BY <1>1, Zenon
<1>3. r.no = sent + 1 /\ r.kind = kind /\ r.body = body
  BY DEF Request
<1> HIDE DEF r
<1>4. SUFFICES ASSUME ~broken, current = 0 PROVE KeyInv'
  BY <1>2 DEF KeyInv
<1>5. OneKeyRequest /\ KeyList(keys) /\ minted \in Nat /\ KeysKnown /\ inbox = {} /\ atWork = {} /\ answered = {}
  BY <1>4 DEF KeyInv, OneKeyRequest
<1>6. inbox' = {r} /\ atWork' = {} /\ answered' = {}
  BY <1>1, <1>5
<1>7. OneKeyRequest'
  <2>1. sent \in Nat
    BY <1>5 DEF OneKeyRequest
  <2>2. current' # 0 /\ sent' \in Nat /\ r.no = current'
    BY <1>1, <1>3, <2>1
  <2> QED
    BY <1>6, <2>2 DEF OneKeyRequest
<1>8. KeysKnown'
  <2>1. DOMAIN page = DOMAIN keyPage /\ page.keys = keyPage.keys
    BY <1>5 DEF KeysKnown
  <2>2. DOMAIN Cleared(page) = DOMAIN page /\ Cleared(page).keys = page.keys
    BY <1>5, <2>1 DEF Cleared, KeysKnown
  <2> QED
    BY <1>1, <1>3, <1>5, <1>6, <2>1, <2>2 DEF KeysKnown, OfAKey
<1>9. \A e \in issued : InForce(e)'
  BY <1>1, <1>4, <1>5 DEF KeyInv, InForce, Coming
<1> QED
  BY <1>1, <1>5, <1>6, <1>7, <1>8, <1>9 DEF KeyInv

LEMMA KeyAsking ==
  ASSUME KeyInv,
         \/ SubmitKey \/ FilterKeys
         \/ \E name \in {"edit", "keys"} : GoToPage(name)
         \/ \E k \in DOMAIN keyPage.keys : RotateKey(k) \/ RevokeKey(k) \/ DeleteKey(k)
  PROVE  KeyInv'
<1>1. CASE SubmitKey
  BY <1>1, AsksKeeps DEF SubmitKey
<1>2. CASE FilterKeys
  BY <1>2, AsksKeeps DEF FilterKeys
<1>3. ASSUME NEW name \in {"edit", "keys"}, GoToPage(name) PROVE KeyInv'
  BY <1>3, AsksKeeps DEF GoToPage
<1>4. ASSUME NEW k \in DOMAIN keyPage.keys, RotateKey(k) PROVE KeyInv'
  BY <1>4, AsksKeeps DEF RotateKey
<1>5. ASSUME NEW k \in DOMAIN keyPage.keys, RevokeKey(k) PROVE KeyInv'
  BY <1>5, AsksKeeps DEF RevokeKey
<1>6. ASSUME NEW k \in DOMAIN keyPage.keys, DeleteKey(k) PROVE KeyInv'
  BY <1>6, AsksKeeps DEF DeleteKey
<1> QED
  BY <1>1, <1>2, <1>3, <1>4, <1>5, <1>6

\* A request is taken to work on, and reads.
LEMMA KeyTaking ==
  ASSUME KeyInv, NEW r \in inbox, LoadKey(r) \/ ValidateKey(r)
  PROVE  KeyInv'
<1>1. /\ UNCHANGED <<keys, minted, flash, keyPage, seen, unseen, issued, current, answered, sent, broken>>
      /\ inbox' = inbox \ {r} /\ r.kind # "page"
  BY DEF LoadKey, ValidateKey, keyHistory
<1>2. PICK w : /\ atWork' = atWork \union {w} /\ w.no = r.no /\ w.kind = r.kind /\ w.body = r.body /\ w.step = "loaded"
               /\ {"no", "kind", "body", "step", "loaded", "others"} \subseteq DOMAIN w
               /\ OfAKey(r) => w.loaded = keys[r.body.key].status /\ w.loaded # "deleted"
  <2>1. CASE LoadKey(r)
    <3> DEFINE w == [no |-> r.no, kind |-> r.kind, body |-> r.body, step |-> "loaded",
                     loaded |-> keys[r.body.key].status, others |-> {}]
    <3>1. atWork' = atWork \union {w} /\ keys[r.body.key].status # "deleted"
      BY <2>1 DEF LoadKey, Exists
    <3>2. /\ {"no", "kind", "body", "step", "loaded", "others"} \subseteq DOMAIN w
          /\ w.no = r.no /\ w.kind = r.kind /\ w.body = r.body /\ w.step = "loaded"
          /\ w.loaded = keys[r.body.key].status
      OBVIOUS
    <3> HIDE DEF w
    <3> QED
      BY <3>1, <3>2
  <2>2. CASE ValidateKey(r)
    BY <2>2 DEF ValidateKey, OfAKey
  <2> QED
    BY <2>1, <2>2
<1>3. SUFFICES ASSUME ~broken PROVE KeyInv'
  BY <1>1 DEF KeyInv
<1>4. OneKeyRequest /\ KeyList(keys) /\ minted \in Nat /\ KeysKnown /\ inbox = {r} /\ atWork = {} /\ answered = {} /\ r.no = current /\ current # 0
  BY <1>3 DEF KeyInv, OneKeyRequest
<1>5. inbox' = {} /\ atWork' = {w} /\ answered' = {}
  BY <1>1, <1>2, <1>4
<1>6. OneKeyRequest'
  <2>1. sent \in Nat
    BY <1>4 DEF OneKeyRequest
  <2> QED
    BY <1>1, <1>2, <1>4, <1>5, <2>1 DEF OneKeyRequest
<1>7. KeysKnown'
  BY <1>1, <1>2, <1>4, <1>5 DEF KeysKnown, OfAKey
<1>8. UpToDate(w)'
  BY <1>1, <1>2 DEF UpToDate, OfAKey
<1>9. \A e \in issued : InForce(e)'
  BY <1>1, <1>3, <1>4, <1>5 DEF KeyInv, InForce, Coming
<1> QED
  BY <1>1, <1>4, <1>5, <1>6, <1>7, <1>8, <1>9 DEF KeyInv

LEMMA KeyReading ==
  ASSUME KeyInv, NEW w \in atWork, ReadActiveKeys(w)
  PROVE  KeyInv'
<1>1. /\ UNCHANGED <<keys, minted, flash, keyPage, seen, unseen, issued, current, answered, sent, broken, inbox>>
      /\ atWork' = (atWork \ {w}) \union {[w EXCEPT !.step = "read", !.others = Others(w)]}
  BY DEF ReadActiveKeys, keyHistory, net
<1>2. PICK v : v = [w EXCEPT !.step = "read", !.others = Others(w)]
  OBVIOUS
<1>3. SUFFICES ASSUME ~broken PROVE KeyInv'
  BY <1>1 DEF KeyInv
<1>4. /\ OneKeyRequest /\ KeyList(keys) /\ minted \in Nat /\ KeysKnown /\ inbox = {} /\ atWork = {w} /\ answered = {}
      /\ UpToDate(w)
  BY <1>3 DEF KeyInv, OneKeyRequest
<1>5. /\ v.no = w.no /\ v.kind = w.kind /\ v.body = w.body /\ v.loaded = w.loaded /\ v.others = Others(w)
      /\ {"no", "kind", "body", "step", "loaded", "others"} \subseteq DOMAIN v
  BY <1>2, <1>4 DEF UpToDate
<1>6. atWork' = {v}
  BY <1>1, <1>2, <1>4
<1>7. UpToDate(v)'
  BY <1>1, <1>4, <1>5 DEF UpToDate, OfAKey, Others, EnvOf
<1>8. OneKeyRequest' /\ KeysKnown'
  BY <1>1, <1>4, <1>5, <1>6 DEF OneKeyRequest, KeysKnown, OfAKey
<1>9. \A e \in issued : InForce(e)'
  BY <1>1, <1>3 DEF KeyInv, InForce, Coming
<1> QED
  BY <1>1, <1>4, <1>6, <1>7, <1>8, <1>9 DEF KeyInv

----------------------------------------------------------------------------
\* Revoking leaves whose keys they are, and their secrets.
LEMMA RevokedFacts ==
  ASSUME KeyList(keys), NEW ks
  PROVE  /\ DOMAIN Revoked(ks) = DOMAIN keys
         /\ \A k \in DOMAIN keys :
              /\ IsKey(Revoked(ks)[k]) /\ Revoked(ks)[k].env = keys[k].env /\ Revoked(ks)[k].secret = keys[k].secret
              /\ k \in ks => Revoked(ks)[k].status # "active"
              /\ k \notin ks => Revoked(ks)[k] = keys[k]
<1>1. \A k \in DOMAIN keys : IsKey(keys[k])
  BY DEF KeyList
<1>2. ASSUME NEW k \in DOMAIN keys
      PROVE  LET row == [keys[k] EXCEPT !.status = "inactive"]
             IN  IsKey(row) /\ row.env = keys[k].env /\ row.secret = keys[k].secret /\ row.status = "inactive"
  BY <1>1 DEF IsKey
<1> QED
  BY <1>1, <1>2 DEF Revoked, Written

LEMMA FunctionIsSeq ==
  ASSUME NEW S, NEW n \in Nat, NEW f \in [1..n -> S]
  PROVE  f \in Seq(S) /\ Len(f) = n
OBVIOUS

LEMMA AppendFacts ==
  ASSUME NEW S, NEW s \in Seq(S), NEW x \in S
  PROVE  /\ Append(s, x) \in Seq(S)
         /\ Len(s) \in Nat /\ DOMAIN s = 1..Len(s) /\ DOMAIN Append(s, x) = 1..(Len(s) + 1)
         /\ \A i \in 1..Len(s) : Append(s, x)[i] = s[i]
         /\ Append(s, x)[Len(s) + 1] = x
OBVIOUS

LEMMA KeyListOf ==
  ASSUME NEW n \in Nat, NEW f, f = [i \in 1..n |-> f[i]], \A i \in 1..n : IsKey(f[i])
  PROVE  KeyList(f)
<1> DEFINE R == {f[i] : i \in DOMAIN f}
<1>1. f \in [1..n -> R] /\ DOMAIN f = 1..n
  OBVIOUS
<1> HIDE DEF R
<1>2. f \in Seq(R)
  BY <1>1, FunctionIsSeq
<1> QED
  BY <1>1, <1>2 DEF KeyList, R

LEMMA KeyListFacts ==
  ASSUME NEW ks, KeyList(ks)
  PROVE  Len(ks) \in Nat /\ DOMAIN ks = 1..Len(ks) /\ ks = [i \in 1..Len(ks) |-> ks[i]]
<1> DEFINE R == {ks[i] : i \in DOMAIN ks}
<1>1. ks \in Seq(R)
  BY DEF KeyList
<1> HIDE DEF R
<1> QED
  BY <1>1, SequenceFacts

\* The key that is issued is the one in force, and the keys of other environments stay as they are.
LEMMA IssuedIsActive ==
  ASSUME NEW old, NEW new, NEW e, NEW n \in DOMAIN new,
         DOMAIN old \subseteq DOMAIN new,
         new[n].env = e /\ new[n].status = "active",
         n \in DOMAIN old => old[n].env = e,
         \A k \in DOMAIN new \ {n} :
           /\ k \in DOMAIN old /\ new[k].env = old[k].env
           /\ old[k].env = e => new[k].status # "active"
           /\ old[k].env # e => new[k] = old[k]
  PROVE  /\ ActiveIn(new, e) = {n}
         /\ \A d : d # e => ActiveIn(new, d) = ActiveIn(old, d) /\ \A k \in ActiveIn(old, d) : new[k] = old[k]
BY DEF ActiveIn

\* A key request redirects to the page it came from.
LEMMA KeyRedirects ==
  ASSUME KeyInv, ~broken, NEW w \in atWork, NEW secret, Redirects(w, secret), KeyList(keys'), minted' \in Nat,
         DOMAIN keys \subseteq DOMAIN keys',
         \A e \in issued' :
           \E k \in DOMAIN keys' :
             /\ ActiveIn(keys', e) = {k} /\ keys'[k].secret # NoSecret
             /\ keys'[k].secret \in seen \union unseen \union {secret}
  PROVE  KeyInv'
<1> DEFINE page == [no |-> w.no, kind |-> "page", body |-> [page |-> w.body.page, remount |-> FALSE, of |-> w.kind]]
<1>1. OneKeyRequest /\ KeysKnown /\ inbox = {} /\ atWork = {w} /\ answered = {} /\ w.no = current /\ current # 0 /\ sent \in Nat
  BY DEF KeyInv, OneKeyRequest
<1>2. /\ UNCHANGED <<keyPage, seen, unseen, current, answered, sent, broken>> /\ flash' = secret
      /\ atWork' = {} /\ inbox' = {page}
  BY <1>1 DEF Redirects
<1>3. page.no = w.no /\ page.kind = "page"
  OBVIOUS
<1> HIDE DEF page
<1>4. OneKeyRequest'
  BY <1>1, <1>2, <1>3 DEF OneKeyRequest
<1>5. KeysKnown'
  BY <1>1, <1>2, <1>3 DEF KeysKnown, OfAKey
<1>6. Coming' = {secret}
  BY <1>1, <1>2, <1>3 DEF Coming
<1> QED
  BY <1>2, <1>4, <1>5, <1>6 DEF KeyInv, InForce

\* An environment whose keys are not touched keeps its key in force.
LEMMA OthersInForce ==
  ASSUME KeyInv, ~broken, NEW w \in atWork, NEW d \in issued, NEW secret,
         DOMAIN keys \subseteq DOMAIN keys',
         ActiveIn(keys', d) = ActiveIn(keys, d), \A k \in ActiveIn(keys, d) : keys'[k] = keys[k]
  PROVE  \E k \in DOMAIN keys' :
           /\ ActiveIn(keys', d) = {k} /\ keys'[k].secret # NoSecret
           /\ keys'[k].secret \in seen \union unseen \union {secret}
<1>1. inbox = {} /\ answered = {}
  BY DEF KeyInv, OneKeyRequest
<1>2. Coming = {}
  BY <1>1 DEF Coming
<1>3. PICK k \in DOMAIN keys :
        ActiveIn(keys, d) = {k} /\ keys[k].secret # NoSecret /\ keys[k].secret \in seen \union unseen \union Coming
  BY DEF KeyInv, InForce
<1>4. keys'[k] = keys[k] /\ k \in DOMAIN keys' /\ ActiveIn(keys', d) = {k}
  BY <1>3
<1> QED
  BY <1>2, <1>3, <1>4

\* A key is issued for an environment, and nothing else changes.
LEMMA IssuingKeeps ==
  ASSUME KeyInv, ~broken, NEW w \in atWork, NEW e, NEW n \in DOMAIN keys',
         KeyList(keys'), DOMAIN keys \subseteq DOMAIN keys',
         keys'[n].env = e /\ keys'[n].status = "active" /\ keys'[n].secret = minted',
         n \in DOMAIN keys => keys[n].env = e,
         \A k \in DOMAIN keys' \ {n} :
           /\ k \in DOMAIN keys /\ keys'[k].env = keys[k].env
           /\ keys[k].env = e => keys'[k].status # "active"
           /\ keys[k].env # e => keys'[k] = keys[k],
         minted' = minted + 1, issued' = issued \union {e}, Redirects(w, minted')
  PROVE  KeyInv'
<1>1. minted \in Nat
  BY DEF KeyInv
<1>2. minted' \in Nat /\ minted' # NoSecret
  BY <1>1 DEF NoSecret
<1>3. /\ ActiveIn(keys', e) = {n}
      /\ \A d : d # e => ActiveIn(keys', d) = ActiveIn(keys, d) /\ \A k \in ActiveIn(keys, d) : keys'[k] = keys[k]
  BY IssuedIsActive
<1>4. ASSUME NEW d \in issued'
      PROVE  \E k \in DOMAIN keys' :
               /\ ActiveIn(keys', d) = {k} /\ keys'[k].secret # NoSecret
               /\ keys'[k].secret \in seen \union unseen \union {minted'}
  <2>1. CASE d = e
    BY <1>2, <1>3, <2>1
  <2>2. CASE d # e
    BY <1>3, <2>2, OthersInForce
  <2> QED
    BY <2>1, <2>2
<1> QED
  BY <1>2, <1>4, KeyRedirects

LEMMA KeyCreation ==
  ASSUME KeyInv, NEW w \in atWork, CommitCreation(w)
  PROVE  KeyInv'
<1>1. SUFFICES ASSUME ~broken PROVE KeyInv'
  BY DEF CommitCreation, Redirects, KeyInv
<1>2. KeyList(keys) /\ UpToDate(w) /\ w.others = Others(w) /\ w.kind = "create"
  BY <1>1 DEF KeyInv, UpToDate, CommitCreation
<1> DEFINE e == w.body.env
           others == w.others
           old == Revoked(others)
           n == Len(keys) + 1
<1>3. others = {k \in DOMAIN keys : keys[k].env = e /\ keys[k].status = "active"}
  BY <1>2 DEF Others, EnvOf
<1>4. PICK row : /\ row.env = e /\ row.status = "active" /\ row.secret = minted' /\ IsKey(row)
                 /\ keys' = Append(old, row)
  <2> DEFINE row == [env |-> w.body.env, status |-> "active", secret |-> minted']
  <2>1. row.env = e /\ row.status = "active" /\ row.secret = minted' /\ IsKey(row)
    BY DEF IsKey
  <2>2. keys' = Append(old, row)
    BY DEF CommitCreation
  <2> HIDE DEF row
  <2> QED
    BY <2>1, <2>2
<1>5. Len(keys) \in Nat /\ DOMAIN keys = 1..Len(keys)
  BY <1>2, KeyListFacts
<1>6. /\ DOMAIN old = DOMAIN keys
      /\ \A k \in DOMAIN keys :
           /\ IsKey(old[k]) /\ old[k].env = keys[k].env
           /\ k \in others => old[k].status # "active"
           /\ k \notin others => old[k] = keys[k]
  BY <1>2, RevokedFacts
<1>7. old = [k \in 1..Len(keys) |-> old[k]]
  BY <1>5 DEF Revoked
<1> HIDE DEF old, others
<1> DEFINE R == {old[i] : i \in DOMAIN old} \union {row}
<1>8. old \in [1..Len(keys) -> R] /\ row \in R
  BY <1>5, <1>6, <1>7
<1> HIDE DEF R
<1>9. old \in Seq(R) /\ Len(old) = Len(keys)
  BY <1>5, <1>8, FunctionIsSeq
<1>10. /\ DOMAIN keys' = 1..n /\ keys' \in Seq(R)
       /\ \A i \in 1..Len(keys) : keys'[i] = old[i]
       /\ keys'[n] = row
  BY <1>4, <1>8, <1>9, AppendFacts
<1>11. \A i \in 1..n : i \in 1..Len(keys) \/ i = n
  BY <1>5
<1>12. KeyList(keys')
  <2>1. \A i \in 1..n : IsKey(keys'[i])
    BY <1>4, <1>5, <1>6, <1>10, <1>11
  <2>2. keys' = [i \in 1..n |-> keys'[i]] /\ n \in Nat
    <3>1. Len(keys') = n
      BY <1>5, <1>10, SequenceFacts
    <3>2. \A s \in Seq(R) : s = [i \in 1..Len(s) |-> s[i]]
      OBVIOUS
    <3> QED
      BY <1>5, <1>10, <3>1, <3>2
  <2> QED
    BY <2>1, <2>2, KeyListOf
<1>13. n \notin DOMAIN keys /\ DOMAIN keys \subseteq DOMAIN keys' /\ n \in DOMAIN keys'
  BY <1>5, <1>10
<1>14. \A k \in DOMAIN keys' \ {n} :
           /\ k \in DOMAIN keys /\ keys'[k].env = keys[k].env
           /\ keys[k].env = e => keys'[k].status # "active"
           /\ keys[k].env # e => keys'[k] = keys[k]
  BY <1>3, <1>5, <1>6, <1>10, <1>11
<1>15. minted' = minted + 1 /\ issued' = issued \union {e} /\ Redirects(w, minted')
  BY DEF CommitCreation
<1> HIDE DEF n, e
<1> QED
  BY <1>1, <1>4, <1>10, <1>12, <1>13, <1>14, <1>15, IssuingKeeps

LEMMA KeyRotation ==
  ASSUME KeyInv, NEW w \in atWork, CommitRotation(w)
  PROVE  KeyInv'
<1>1. SUFFICES ASSUME ~broken PROVE KeyInv'
  BY DEF CommitRotation, Redirects, KeyInv
<1>2. KeyList(keys) /\ UpToDate(w) /\ w.others = Others(w) /\ w.kind = "rotate" /\ KeysKnown /\ OfAKey(w)
  BY <1>1 DEF KeyInv, UpToDate, CommitRotation, OfAKey
<1> DEFINE n == w.body.key
           e == keys[n].env
           others == w.others
           old == Revoked(others)
<1>3. n \in DOMAIN keys /\ w.loaded = keys[n].status /\ w.loaded # "deleted"
  BY <1>2 DEF KeysKnown, UpToDate
<1>4. others = {k \in DOMAIN keys : keys[k].env = e /\ keys[k].status = "active" /\ k # n}
  BY <1>2 DEF Others, EnvOf
<1>5. PICK row : /\ row.env = e /\ row.status = "active" /\ row.secret = minted' /\ IsKey(row)
                 /\ keys' = [old EXCEPT ![n] = row]
  <2>1. PICK row : row = [keys[n] EXCEPT !.secret = minted', !.status = IF w.loaded = "active" THEN @ ELSE "active"]
    OBVIOUS
  <2>2. IsKey(keys[n])
    BY <1>2, <1>3 DEF KeyList
  <2>3. row.env = e /\ row.status = "active" /\ row.secret = minted' /\ IsKey(row)
    BY <1>3, <2>1, <2>2 DEF IsKey
  <2>4. keys' = [old EXCEPT ![n] = row]
    BY <1>3, <2>1 DEF CommitRotation, Written
  <2> QED
    BY <2>3, <2>4
<1>6. Len(keys) \in Nat /\ DOMAIN keys = 1..Len(keys)
  BY <1>2, KeyListFacts
<1>7. /\ DOMAIN old = DOMAIN keys
      /\ \A k \in DOMAIN keys :
           /\ IsKey(old[k]) /\ old[k].env = keys[k].env
           /\ k \in others => old[k].status # "active"
           /\ k \notin others => old[k] = keys[k]
  BY <1>2, RevokedFacts
<1> HIDE DEF old, others
<1>8. DOMAIN keys' = DOMAIN keys /\ keys'[n] = row /\ \A k \in DOMAIN keys \ {n} : keys'[k] = old[k]
  BY <1>3, <1>5, <1>7
<1>9. KeyList(keys')
  <2>1. \A i \in 1..Len(keys) : IsKey(keys'[i])
    BY <1>5, <1>6, <1>7, <1>8
  <2>2. keys' = [i \in 1..Len(keys) |-> keys'[i]]
    BY <1>5, <1>6, <1>7
  <2> QED
    BY <1>6, <2>1, <2>2, KeyListOf
<1>10. \A k \in DOMAIN keys' \ {n} :
           /\ k \in DOMAIN keys /\ keys'[k].env = keys[k].env
           /\ keys[k].env = e => keys'[k].status # "active"
           /\ keys[k].env # e => keys'[k] = keys[k]
  BY <1>4, <1>7, <1>8
<1>11. minted' = minted + 1 /\ issued' = issued \union {e} /\ Redirects(w, minted')
  BY <1>2 DEF CommitRotation, EnvOf
<1>12. n \in DOMAIN keys' /\ DOMAIN keys \subseteq DOMAIN keys' /\ keys[n].env = e
  BY <1>3, <1>8
<1> HIDE DEF n, e
<1> QED
  BY <1>1, <1>5, <1>8, <1>9, <1>10, <1>11, <1>12, IssuingKeeps

LEMMA KeyRevocation ==
  ASSUME KeyInv, NEW w \in atWork, CommitRevocation(w)
  PROVE  KeyInv'
<1>1. SUFFICES ASSUME ~broken PROVE KeyInv'
  BY DEF CommitRevocation, Redirects, KeyInv
<1>2. KeyList(keys) /\ UpToDate(w) /\ w.kind = "revoke" /\ KeysKnown /\ OfAKey(w) /\ minted \in Nat
  BY <1>1 DEF KeyInv, UpToDate, CommitRevocation, OfAKey
<1> DEFINE n == w.body.key
           e == keys[n].env
           old == Revoked({n})
<1>3. n \in DOMAIN keys
  BY <1>2 DEF KeysKnown
<1>4. keys' \in {keys, old} /\ issued' = issued \ {e} /\ minted' = minted /\ Redirects(w, NoSecret)
  BY <1>2 DEF CommitRevocation, EnvOf
<1>5. Len(keys) \in Nat /\ DOMAIN keys = 1..Len(keys)
  BY <1>2, KeyListFacts
<1>6. /\ DOMAIN old = DOMAIN keys
      /\ \A k \in DOMAIN keys : IsKey(old[k]) /\ old[k].env = keys[k].env /\ (k \notin {n} => old[k] = keys[k])
  BY <1>2, RevokedFacts
<1>7. old = [k \in 1..Len(keys) |-> old[k]]
  BY <1>5 DEF Revoked
<1> HIDE DEF old
<1>8. KeyList(old)
  BY <1>5, <1>6, <1>7, KeyListOf
<1>9. /\ KeyList(keys') /\ DOMAIN keys' = DOMAIN keys
      /\ \A k \in DOMAIN keys : keys'[k].env = keys[k].env /\ (k # n => keys'[k] = keys[k])
  BY <1>2, <1>4, <1>6, <1>8
<1>10. ASSUME NEW d \in issued'
       PROVE  \E k \in DOMAIN keys' :
                /\ ActiveIn(keys', d) = {k} /\ keys'[k].secret # NoSecret
                /\ keys'[k].secret \in seen \union unseen \union {NoSecret}
  <2>1. d \in issued /\ d # keys[n].env
    BY <1>4
  <2>2. ActiveIn(keys', d) = ActiveIn(keys, d) /\ \A k \in ActiveIn(keys, d) : keys'[k] = keys[k]
    BY <1>3, <1>9, <2>1 DEF ActiveIn
  <2> QED
    BY <1>1, <1>9, <2>1, <2>2, OthersInForce
<1> QED
  BY <1>1, <1>2, <1>4, <1>9, <1>10, KeyRedirects

LEMMA KeyDeletion ==
  ASSUME KeyInv, NEW w \in atWork, CommitDeletion(w)
  PROVE  KeyInv'
<1>1. SUFFICES ASSUME ~broken PROVE KeyInv'
  BY DEF CommitDeletion, Redirects, KeyInv
<1>2. KeyList(keys) /\ UpToDate(w) /\ w.loaded = "inactive" /\ KeysKnown /\ OfAKey(w) /\ minted \in Nat
  BY <1>1 DEF KeyInv, UpToDate, CommitDeletion, OfAKey
<1> DEFINE n == w.body.key
<1>3. n \in DOMAIN keys /\ keys[n].status = "inactive"
  BY <1>2 DEF KeysKnown, UpToDate
<1>4. keys' = [keys EXCEPT ![n].status = "deleted"] /\ issued' = issued /\ minted' = minted /\ Redirects(w, NoSecret)
  BY DEF CommitDeletion
<1>5. Len(keys) \in Nat /\ DOMAIN keys = 1..Len(keys) /\ keys = [i \in 1..Len(keys) |-> keys[i]]
  BY <1>2, KeyListFacts
<1>6. PICK row : row = [keys[n] EXCEPT !.status = "deleted"]
  OBVIOUS
<1>7. IsKey(row) /\ row.env = keys[n].env /\ row.status = "deleted"
  BY <1>2, <1>3, <1>6 DEF KeyList, IsKey
<1>8. keys' = [keys EXCEPT ![n] = row]
  BY <1>4, <1>6
<1>9. /\ DOMAIN keys' = DOMAIN keys /\ keys'[n] = row /\ \A k \in DOMAIN keys \ {n} : keys'[k] = keys[k]
      /\ keys' = [i \in 1..Len(keys) |-> keys'[i]]
  BY <1>3, <1>5, <1>8
<1>10. KeyList(keys')
  <2>1. \A i \in 1..Len(keys) : IsKey(keys'[i])
    BY <1>2, <1>5, <1>7, <1>9 DEF KeyList
  <2> QED
    BY <1>5, <1>9, <2>1, KeyListOf
<1>11. ASSUME NEW d \in issued'
       PROVE  \E k \in DOMAIN keys' :
                /\ ActiveIn(keys', d) = {k} /\ keys'[k].secret # NoSecret
                /\ keys'[k].secret \in seen \union unseen \union {NoSecret}
  <2>1. d \in issued
    BY <1>4
  <2>2. n \notin ActiveIn(keys, d) /\ n \notin ActiveIn(keys', d)
    BY <1>3, <1>7, <1>9 DEF ActiveIn
  <2>3. ActiveIn(keys', d) = ActiveIn(keys, d) /\ \A k \in ActiveIn(keys, d) : keys'[k] = keys[k]
    BY <1>3, <1>9, <2>2 DEF ActiveIn
  <2> QED
    BY <1>1, <1>9, <2>1, <2>3, OthersInForce
<1> HIDE DEF n
<1> QED
  BY <1>1, <1>2, <1>4, <1>9, <1>10, <1>11, KeyRedirects

\* The page's request is served, and takes the secret along.
LEMMA KeyServing ==
  ASSUME KeyInv, NEW r \in inbox, ServeKeyPage(r)
  PROVE  KeyInv'
<1>1. SUFFICES ASSUME ~broken PROVE KeyInv'
  BY DEF ServeKeyPage, ServedWith, KeyInv
<1>2. /\ OneKeyRequest /\ KeyList(keys) /\ minted \in Nat /\ KeysKnown
      /\ inbox = {r} /\ atWork = {} /\ answered = {} /\ r.no = current /\ current # 0 /\ sent \in Nat
      /\ \A e \in issued : InForce(e)
  BY <1>1 DEF KeyInv, OneKeyRequest
<1> DEFINE body == [page |-> r.body.page, remount |-> r.body.remount, of |-> r.body.of,
                    keys |-> keys, generated |-> flash]
           a == [no |-> r.no, kind |-> r.kind, body |-> body, ok |-> TRUE]
<1>3. /\ UNCHANGED <<keys, minted, atWork, keyPage, keyHistory, current, sent, broken>>
      /\ inbox' = {} /\ answered' = {a} /\ r.kind = "page"
  BY <1>2 DEF ServeKeyPage, ServedWith
<1>4. body.keys = keys /\ body.generated = flash /\ a.body = body
  OBVIOUS
<1> HIDE DEF a, body
<1>5. OneKeyRequest'
  BY <1>2, <1>3 DEF OneKeyRequest
<1>6. KeysKnown'
  BY <1>2, <1>3, <1>4 DEF KeysKnown, OfAKey
<1>7. Coming = {flash} /\ Coming' = {flash}
  BY <1>2, <1>3, <1>4 DEF Coming
<1> QED
  BY <1>2, <1>3, <1>5, <1>6, <1>7 DEF KeyInv, InForce, keyHistory

\* The page gets its answer, with the secret if there is one.
LEMMA KeyAnswered ==
  ASSUME KeyInv, NEW a \in answered, KeyAnswer(a)
  PROVE  KeyInv'
<1>1. SUFFICES ASSUME ~broken PROVE KeyInv'
  BY DEF KeyAnswer, Returned, KeyInv
<1>2. /\ OneKeyRequest /\ KeyList(keys) /\ minted \in Nat /\ KeysKnown
      /\ inbox = {} /\ atWork = {} /\ answered = {a} /\ sent \in Nat
      /\ \A e \in issued : InForce(e)
  BY <1>1 DEF KeyInv, OneKeyRequest
<1> DEFINE b == a.body
<1>3. /\ UNCHANGED <<keys, minted, atWork, issued, inbox, sent>> /\ answered' = {} /\ current' = 0
      /\ keyPage' = (IF b.remount THEN Mounted(b.page, b.keys, b.generated) ELSE Kept(b))
      /\ seen' = seen \union BannerShows(keyPage')
      /\ unseen' = IF keyPage'.away THEN unseen \union {b.generated} ELSE unseen
  BY <1>2 DEF KeyAnswer, Returned, keyStore
<1>4. /\ {"name", "away", "form", "env", "rotating", "revoking", "keys", "generated"} \subseteq DOMAIN keyPage'
      /\ keyPage'.keys = b.keys /\ keyPage'.generated = b.generated
  <2>1. CASE b.remount
    BY <1>3, <2>1 DEF Mounted
  <2>2. CASE ~b.remount
    <3>1. PICK page : page = [keyPage EXCEPT !.keys = b.keys, !.generated = b.generated, !.rotating = 0, !.revoking = 0]
      OBVIOUS
    <3>2. /\ {"name", "away", "form", "env", "rotating", "revoking", "keys", "generated"} \subseteq DOMAIN page
          /\ page.keys = b.keys /\ page.generated = b.generated
      BY <1>2, <3>1 DEF KeysKnown
    <3>3. \E away : keyPage' \in {page, [page EXCEPT !.form = FALSE, !.away = away]}
      BY <1>3, <2>2, <3>1 DEF Kept
    <3> QED
      BY <3>2, <3>3
  <2> QED
    BY <2>1, <2>2
<1>5. KeysKnown'
  BY <1>2, <1>3, <1>4 DEF KeysKnown, OfAKey
<1>6. Coming = {b.generated}
  BY <1>2 DEF Coming
<1>7. ASSUME NEW e \in issued PROVE InForce(e)'
  <2>1. PICK k \in DOMAIN keys :
          ActiveIn(keys, e) = {k} /\ keys[k].secret # NoSecret /\ keys[k].secret \in seen \union unseen \union Coming
    BY <1>2 DEF InForce
  <2>2. keys[k].secret = b.generated => keys[k].secret \in seen' \union unseen'
    BY <1>3, <1>4, <2>1 DEF BannerShows
  <2>3. keys[k].secret \in seen' \union unseen'
    BY <1>3, <1>6, <2>1, <2>2
  <2> QED
    BY <1>3, <2>1, <2>3 DEF InForce
<1>8. OneKeyRequest'
  BY <1>2, <1>3 DEF OneKeyRequest
<1> QED
  BY <1>2, <1>3, <1>5, <1>7, <1>8 DEF KeyInv

LEMMA KeySteps ==
  ASSUME KeyInv, ApiKeyNext
  PROVE  KeyInv'
<1>1. ASSUME \/ OpenKeyForm \/ CloseKeyForm \/ PutBannerAway
             \/ \E e \in KeyEnv : ChooseKeyEnv(e)
      PROVE  KeyInv'
  BY <1>1, KeyLocalSteps
<1>2. ASSUME \/ SubmitKey \/ FilterKeys
             \/ \E name \in {"edit", "keys"} : GoToPage(name)
             \/ \E k \in DOMAIN keyPage.keys : RotateKey(k) \/ RevokeKey(k) \/ DeleteKey(k)
      PROVE  KeyInv'
  BY <1>2, KeyAsking
<1>3. ASSUME NEW r \in inbox, LoadKey(r) \/ KeyNotFound(r) \/ ValidateKey(r) \/ ServeKeyPage(r)
      PROVE  KeyInv'
  <2>1. CASE KeyNotFound(r)
    BY <2>1 DEF KeyNotFound, Fails, KeyInv
  <2> QED
    BY <1>3, <2>1, KeyTaking, KeyServing
<1>4. ASSUME NEW w \in atWork,
             \/ ReadActiveKeys(w) \/ CommitCreation(w) \/ CommitRotation(w)
             \/ CommitRevocation(w) \/ CommitDeletion(w) \/ RequestFails(w)
      PROVE  KeyInv'
  <2>1. CASE RequestFails(w)
    BY <2>1 DEF RequestFails, Fails, KeyInv
  <2> QED
    BY <1>4, <2>1, KeyReading, KeyCreation, KeyRotation, KeyRevocation, KeyDeletion
<1>5. ASSUME NEW r \in inbox \union answered, KeyVisitLost(r) PROVE KeyInv'
  BY <1>5 DEF KeyVisitLost, Lost, KeyInv
<1>6. ASSUME NEW a \in answered, KeyAnswer(a) PROVE KeyInv'
  BY <1>6, KeyAnswered
<1> QED
  BY <1>1, <1>2, <1>3, <1>4, <1>5, <1>6, Zenon DEF ApiKeyNext

\* The keys belong to their page, and no other page issues one.
KeysOrNone == IF shownPage = "keys" THEN KeyInv ELSE issued = {}

\* An environment whose last key was issued and not revoked has one key in force, and its secret was
\* shown or arrived while the banner was put away, unless a visit was interrupted or failed.
THEOREM IssuedKeyIsKnown == Spec => []KeyInForceIsKnown
<1>1. Init => KeysOrNone
  <2> SUFFICES ASSUME Init PROVE KeysOrNone
    OBVIOUS
  <2>1. NetInit /\ ApiKeyInit
    BY DEF Init
  <2> QED
    BY <2>1, KeyInitHolds DEF KeysOrNone, ApiKeyInit
<1>2. KeysOrNone /\ [Next]_portalVars => KeysOrNone'
  <2> SUFFICES ASSUME KeysOrNone, [Next]_portalVars PROVE KeysOrNone'
    OBVIOUS
  <2>1. CASE UNCHANGED portalVars
    <3>1. UNCHANGED <<keys, minted, flash, atWork, seen, unseen, issued, current, inbox, answered, sent, broken, keyPage, shownPage>>
      BY <2>1 DEF portalVars, net, apiKeyVars, keyStore, keyHistory
    <3>2. (shownPage = "keys") => KeyInv'
      <4>1. (shownPage = "keys" /\ ~broken) => KeysKnown'
        BY <3>1 DEF KeysOrNone, KeyInv, KeysKnown, OfAKey
      <4> QED
        BY <3>1, <4>1, KeyPageKeeps DEF KeysOrNone
    <3> QED
      BY <3>1, <3>2 DEF KeysOrNone
  <2>2. CASE shownPage = "keys" /\ ApiKeyNext /\ UNCHANGED shownPage
    BY <2>2, KeySteps DEF KeysOrNone
  <2>3. CASE shownPage # "keys" /\ UNCHANGED <<apiKeyVars, shownPage>>
    BY <2>3 DEF KeysOrNone, apiKeyVars, keyHistory
  <2> QED
    BY <2>1, <2>2, <2>3 DEF Next
<1>3. KeysOrNone => KeyInForceIsKnown
  <2> SUFFICES ASSUME KeysOrNone, current = 0, ~broken, NEW e \in issued
               PROVE  \E k \in DOMAIN keys :
                        /\ {x \in DOMAIN keys : keys[x].env = e /\ keys[x].status = "active"} = {k}
                        /\ keys[k].secret \in seen \union unseen
    BY DEF KeyInForceIsKnown
  <2>1. InForce(e) /\ Coming = {}
    BY DEF KeysOrNone, KeyInv, OneKeyRequest, Coming
  <2> QED
    BY <2>1 DEF InForce, ActiveIn
<1> QED
  BY <1>1, <1>2, <1>3, PTL DEF Spec
=============================================================================
