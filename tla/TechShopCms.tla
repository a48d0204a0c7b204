---------------------------- MODULE TechShopCms ----------------------------
(***************************************************************************)
(* The TechShop CMS (techshop-cms/server.js): completed-payment webhooks   *)
(* are merged into payments.json and appended to payment-events.jsonl.     *)
(* The handlers run on one event loop and interleave at every await; the   *)
(* list is read, changed in memory and written back as a whole.            *)
(*                                                                         *)
(* fs.writeFile truncates the file when it opens it and writes afterwards: *)
(* in between the file is empty, and a write onto what another handler has *)
(* written since may leave the tail of the longer text behind it.          *)
(*                                                                         *)
(* handleRequest returns handleWebhook's promise without awaiting it, so a *)
(* webhook that throws is an unhandled rejection: the process ends, and    *)
(* the handlers under way with it.                                         *)
(***************************************************************************)
EXTENDS Naturals, Sequences, SequencesExt

CONSTANTS
    Deliveries,   \* POSTs to /webhooks/payments/completed
    Deletions,    \* DELETEs of /api/payments/first
    PaymentOf,    \* the payment a delivery is about
    Past,         \* the deliveries, of distinct payments, handled before the process started
    MaxRecords    \* 500: payments.slice(0, 500)

ASSUME RecordsAssumption ==
    /\ MaxRecords \in Nat \ {0}
    /\ Past \in Seq(Deliveries) /\ Len(Past) <= MaxRecords
    /\ \A i, j \in DOMAIN Past : PaymentOf[Past[i]] = PaymentOf[Past[j]] => i = j

VARIABLES
    file,         \* payments.json: what its text is, and the list
    events,       \* the deliveries in payment-events.jsonl
    handler,      \* per request: where it stands and the list it will write
    reply         \* the answer it was given

cmsVars == <<file, events, handler, reply>>

Handlers == Deliveries \cup Deletions
Record == [payment : {PaymentOf[d] : d \in Deliveries}, delivery : Deliveries]
Empty == [text |-> "empty", records |-> <<>>]
Garbled == [text |-> "garbled", records |-> <<>>]
Json(list) == [text |-> "json", records |-> list]

\* ensureDataFiles keeps the list that is there.
CmsInit ==
    LET done(h) == \E i \in DOMAIN Past : Past[i] = h IN
    /\ file = Json([i \in DOMAIN Past |-> [payment |-> PaymentOf[Past[i]], delivery |-> Past[i]]])
    /\ events = Past
    /\ handler = [h \in Handlers |-> [pc |-> IF done(h) THEN "end" ELSE "idle", list |-> <<>>]]
    /\ reply = [h \in Handlers |-> IF done(h) THEN "stored" ELSE "none"]

-----------------------------------------------------------------------------
At(h, pc) == handler[h].pc = pc
Go(h, pc) == handler' = [handler EXCEPT ![h].pc = pc]
Reply(h, answer) ==
    /\ reply' = [reply EXCEPT ![h] = answer]
    /\ handler' = [handler EXCEPT ![h] = [pc |-> "end", list |-> <<>>]]

\* The process ends and is started again: the handlers under way are gone, h's
\* among them, and the files stay.
Ends(h) ==
    /\ handler' = [g \in Handlers |-> IF At(g, "idle") /\ g # h THEN handler[g] ELSE [pc |-> "end", list |-> <<>>]]
    /\ UNCHANGED reply

\* readBody: a body too large or cut off throws.
CutOff(d) == Ends(d)

\* verifyWebhookSignature: headers missing, a timestamp outside the window, or
\* another's signature.
Unsigned(d) == Reply(d, "refused")

\* The body is no JSON, a test ping, or normalizePaymentPayload finds errors.
NotAPayment(d) == Reply(d, "refused")

Receive(d) ==
    /\ At(d, "idle")
    /\ \/ CutOff(d) \/ Unsigned(d) \/ NotAPayment(d)
       \/ Go(d, "read") /\ UNCHANGED reply
    /\ UNCHANGED <<file, events>>

RequestDeletion(x) ==
    /\ At(x, "idle")
    /\ \/ Reply(x, "refused")
       \/ Go(x, "read") /\ UNCHANGED reply
    /\ UNCHANGED <<file, events>>

Capped(list) == SubSeq(list, 1, IF Len(list) < MaxRecords THEN Len(list) ELSE MaxRecords)

\* Fault: a repeated payment is listed again.
ListedFirst(list, d) == Capped(<<[payment |-> PaymentOf[d], delivery |-> d]>> \o list)

\* storePayment: a known payment is updated in its place, a new one comes first.
Merged(list, d) ==
    LET stored == [payment |-> PaymentOf[d], delivery |-> d]
        known == {i \in DOMAIN list : list[i].payment = PaymentOf[d]}
    IN  Capped(IF known = {} THEN <<stored>> \o list
               ELSE [list EXCEPT ![CHOOSE i \in known : \A j \in known : i <= j] = stored])

\* deleteFirstPayment
Shifted(list) == IF list = <<>> THEN list ELSE Tail(list)

Changed(h) == IF h \in Deletions THEN Shifted(file.records) ELSE Merged(file.records, h)

\* readJson: a list that does not parse fails a deletion and throws in a webhook.
Read(h) ==
    /\ At(h, "read")
    /\ \/ /\ file.text = "json"
          /\ handler' = [handler EXCEPT ![h] = [pc |-> "open", list |-> Changed(h)]]
          /\ UNCHANGED reply
       \/ file.text # "json" /\ h \in Deletions /\ Reply(h, "error")
       \/ file.text # "json" /\ h \in Deliveries /\ Ends(h)
    /\ UNCHANGED <<file, events>>

Truncate(h) ==
    /\ At(h, "open")
    /\ file' = Empty
    /\ Go(h, "write")
    /\ UNCHANGED <<events, reply>>

\* Onto an empty file the text is written whole; onto another's it may be garbled.
Write(h) ==
    /\ At(h, "write")
    /\ file' \in {Json(handler[h].list)} \cup IF file = Empty THEN {} ELSE {Garbled}
    /\ IF h \in Deletions THEN Reply(h, "removed") ELSE Go(h, "append") /\ UNCHANGED reply
    /\ UNCHANGED events

LogEvent(d) ==
    /\ At(d, "append")
    /\ events' = Append(events, d)
    /\ Go(d, "forward")
    /\ UNCHANGED <<file, reply>>

\* forwardPayment: not configured, done, or failed: 202 and "stored" in every case.
Forward(d) ==
    /\ At(d, "forward")
    /\ Reply(d, "stored")
    /\ UNCHANGED <<file, events>>

\* The process is stopped from outside.
CmsRestart ==
    /\ \E h \in Handlers : handler[h].pc \notin {"idle", "end"} /\ Ends(h)
    /\ UNCHANGED <<file, events>>

CmsNext ==
    \/ \E d \in Deliveries : Receive(d) \/ LogEvent(d) \/ Forward(d)
    \/ \E x \in Deletions : RequestDeletion(x)
    \/ \E h \in Handlers : Read(h) \/ Truncate(h) \/ Write(h)
    \/ CmsRestart

-----------------------------------------------------------------------------
\* However webhooks, deletions and restarts overlap, the list never holds two
\* records of one payment, nor more than its limit.  It does not say that a record
\* is kept: overlapping writes may lose one, and a torn file loses them all.
RecordsAreUnique ==
    /\ IsInjective([i \in DOMAIN file.records |-> file.records[i].payment])
    /\ Len(file.records) <= MaxRecords
=============================================================================
