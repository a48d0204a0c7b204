------------------------------- MODULE Inertia -------------------------------
(***************************************************************************)
(* Inertia's router, as the Laravel portals' pages use it (external: the   *)
(* pages only call router.get, put, post, delete and reload).  At most one *)
(* visit is under way in a page: a new one interrupts it, and then its     *)
(* onFinish is called at once and its onSuccess and onError never,         *)
(* whatever becomes of its request.  Neither is called for a request that  *)
(* fails or whose answer is no Inertia page.                               *)
(***************************************************************************)
EXTENDS Naturals

CONSTANT MaxActs  \* bound: what the user does on a page, clicks that send a visit among it

ASSUME MaxActsAssumption == MaxActs \in Nat

VARIABLES
    current,      \* the number of the visit under way, 0 for none
    inbox,        \* requests the server has not worked on
    answered,     \* the answer to the visit under way, before it arrives
    sent,         \* the visits so far
    acts,         \* what the user did so far
    broken        \* history: a visit was interrupted or never answered

net == <<current, inbox, answered, sent, acts, broken>>

NetInit ==
    /\ current = 0 /\ inbox = {} /\ answered = {}
    /\ sent = 0 /\ acts = 0 /\ broken = FALSE

\* Something done on the page that sends nothing.
Act ==
    /\ acts < MaxActs
    /\ acts' = acts + 1
    /\ UNCHANGED <<current, inbox, answered, sent, broken>>

Request(kind, body) == [no |-> sent + 1, kind |-> kind, body |-> body]

\* The page sends a visit of its own accord: from a callback or a timer.
Follow(kind, body) ==
    /\ sent' = sent + 1
    /\ current' = sent + 1
    /\ inbox' = inbox \union {Request(kind, body)}
    /\ answered' = {}

Visit(kind, body) ==
    /\ acts < MaxActs
    /\ acts' = acts + 1
    /\ broken' = (broken \/ current # 0)
    /\ Follow(kind, body)

\* The user goes to another page.
Leave ==
    /\ acts < MaxActs
    /\ acts' = acts + 1
    /\ broken' = (broken \/ current # 0)
    /\ current' = 0
    /\ answered' = {}
    /\ UNCHANGED <<inbox, sent>>

\* The server has worked on r; an interrupted visit's answer finds nobody.
ServedWith(r, body, ok) ==
    /\ inbox' = inbox \ {r}
    /\ answered' = IF r.no = current
                   THEN {[no |-> r.no, kind |-> r.kind, body |-> body, ok |-> ok]}
                   ELSE answered
    /\ UNCHANGED <<current, sent, acts, broken>>

Served(r, ok) == ServedWith(r, r.body, ok)

\* The request or its answer is lost, or the answer is an error page.
Lost(r) ==
    /\ inbox' = inbox \ {r}
    /\ answered' = answered \ {r}
    /\ current' = IF current = r.no THEN 0 ELSE current
    /\ broken' = TRUE
    /\ UNCHANGED <<sent, acts>>

\* The answer's callback is called.
Returned ==
    /\ current' = 0
    /\ answered' = {}
    /\ UNCHANGED <<inbox, sent, acts, broken>>
=============================================================================
