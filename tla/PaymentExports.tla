--------------------------- MODULE PaymentExports ---------------------------
(***************************************************************************)
(* The exports of the merchants' payments: the admin's page                *)
(* (Pages/Admin/Payments/Merchants.jsx), which asks for them and polls     *)
(* while one is under way, PaymentController::exportMerchants and          *)
(* MerchantPaymentsExportJob on a Redis queue.                             *)
(*                                                                         *)
(* A reservation lasts 90 seconds (queue.php, retry_after) and an attempt  *)
(* up to 300, so a second worker may start an attempt while the first one  *)
(* is still at work.  Payloads of the queue that are equal count as one.   *)
(***************************************************************************)
EXTENDS Inertia, Integers, FiniteSets

CONSTANTS
    MaxExports,   \* bound: exports asked for; the page lists the latest eight
    Workers,      \* Horizon's processes for the queue
    MaxPolls,     \* bound: polls under way at once
    MaxClicks,    \* bound: what the admin does on the page
    MaxFaults     \* bound: attempts that throw, die or are overtaken, and requests that fail

VARIABLES
    files,        \* admin_export_files: status, and the attempt whose file the row names
    disk,         \* the files that were written, as export and attempt
    tokens,       \* the queue: payloads with their number of attempts, and where they are
    running,      \* the attempts under way, with the step they are at
    orphans,      \* exports whose row was stored and whose job was not
    doubled,      \* history: exports of which an attempt put back a payload that was taken from it
    board,        \* the page: the exports as shown, and the visit that asked for one
    polls,        \* how many polls are under way, and their answers; equal ones count as one
    faults        \* faults so far

queue == <<files, disk, tokens, running, orphans, doubled>>
view == <<board, polls>>
exportVars == <<queue, view, faults>>

Tries == 3
Active == {"queued", "running"}
Ended == {"completed", "failed"}
Nobody == <<>>

Statuses == [e \in DOMAIN files |-> files[e].status]

ExportInit ==
    /\ files = Nobody /\ disk = {} /\ tokens = {} /\ running = {} /\ orphans = {} /\ doubled = {}
    /\ board = [shown |-> Nobody, asking |-> 0] /\ polls = [asked |-> 0, answers |-> {}]
    /\ faults = 0

Fault == faults < MaxFaults /\ faults' = faults + 1

----------------------------------------------------------------------------
(***************************************************************************)
(* The page.  A page that is left shows nothing, and is not modelled; nor  *)
(* are the filters themselves: an export takes those of the form.          *)
(***************************************************************************)
\* applyFilters, clearFilters, updateTrendStatus.
AskList ==
    /\ acts < MaxClicks
    /\ UNCHANGED exportVars
    /\ Visit("list", Nobody)

\* startExport: the buttons wait until the visit is finished, however it is.
StartExport ==
    /\ acts < MaxClicks
    /\ board.asking = 0 \/ board.asking # current
    /\ board' = [board EXCEPT !.asking = sent + 1]
    /\ UNCHANGED <<queue, polls, faults>>
    /\ Visit("export", Nobody)

\* The filtered list is a new page; an export's answer keeps the state of the old one.
BoardAnswered(a) ==
    /\ board' = [shown |-> a.body, asking |-> IF a.kind = "list" THEN 0 ELSE board.asking]
    /\ UNCHANGED <<queue, polls, faults>>
    /\ Returned

NewPoll ==
    /\ polls.asked + Cardinality(polls.answers) < MaxPolls
    /\ polls' = [polls EXCEPT !.asked = @ + 1]
    /\ UNCHANGED <<queue, board, faults, net>>

\* Fault: the timer is cleared once an export is running.
PollWhileQueued ==
    /\ \E e \in DOMAIN board.shown : board.shown[e] = "queued"
    /\ NewPoll

\* Every five seconds, while an export is shown under way.
PollTick ==
    /\ \E e \in DOMAIN board.shown : board.shown[e] \in Active
    /\ NewPoll

PollServed ==
    /\ polls.asked > 0
    /\ polls' = [asked |-> polls.asked - 1, answers |-> polls.answers \union {Statuses}]
    /\ UNCHANGED <<queue, board, faults, net>>

BoardRefreshed(shown) ==
    /\ board' = [board EXCEPT !.shown = shown]
    /\ polls' = [polls EXCEPT !.answers = @ \ {shown}]
    /\ UNCHANGED <<queue, faults, net>>

\* On its way there or back: a poll changes nothing on the server.
PollLost ==
    /\ Fault
    /\ polls.asked > 0
    /\ polls' = [polls EXCEPT !.asked = @ - 1]
    /\ UNCHANGED <<queue, board, net>>

VisitLost(r) ==
    /\ Fault
    /\ UNCHANGED <<queue, view>>
    /\ Lost(r)

----------------------------------------------------------------------------
\* The server.
ServeList(r) ==
    /\ r.kind = "list"
    /\ UNCHANGED exportVars
    /\ ServedWith(r, Statuses, TRUE)

Stored(e) == [x \in DOMAIN files \union {e} |->
                IF x = e THEN [status |-> "queued", attempt |-> 0] ELSE files[x]]
NextExport == Cardinality(DOMAIN files) + 1

\* exportMerchants, and the list it redirects to.
ExportMerchants(r) ==
    /\ r.kind = "export" /\ NextExport <= MaxExports
    /\ files' = Stored(NextExport)
    /\ tokens' = tokens \union {[id |-> NextExport, attempts |-> 0, at |-> "ready"]}
    /\ UNCHANGED <<disk, running, orphans, doubled, view, faults>>
    /\ ServedWith(r, [e \in DOMAIN files' |-> files'[e].status], TRUE)

\* Redis is down: the row stays, and the answer is an error page.
DispatchFails(r) ==
    /\ r.kind = "export" /\ NextExport <= MaxExports
    /\ Fault
    /\ files' = Stored(NextExport)
    /\ orphans' = orphans \union {NextExport}
    /\ UNCHANGED <<disk, tokens, running, doubled, view>>
    /\ Lost(r)

----------------------------------------------------------------------------
\* The queue and its workers.
Reserved(w) == [id |-> w.id, attempts |-> w.attempt, at |-> "reserved"]
FreeWorker == Cardinality(running) < Workers

\* A worker takes a payload that is ready, was delayed long enough or was reserved too long ago:
\* by an attempt that died or, if it is overtaken, by one that is still at work.
UnderWay(t) == t.at = "reserved" /\ \E w \in running : t = Reserved(w)
Available(t) == ~UnderWay(t) /\ UNCHANGED faults
Overtaken(t) == UnderWay(t) /\ Fault

\* The worker takes a payload, and handle() marks the row.
StartAttempt(t) ==
    /\ FreeWorker /\ t.attempts < Tries
    /\ LET w == [id |-> t.id, attempt |-> t.attempts + 1, step |-> "started", loaded |-> ""]
       IN  /\ running' = running \union {w}
           /\ tokens' = (tokens \ {t}) \union {Reserved(w)}
    /\ files' = [files EXCEPT ![t.id].status = "running"]
    /\ UNCHANGED <<disk, orphans, doubled, view, net>>

\* A payload that was tried often enough fails without being tried.
RefuseAttempt(t) ==
    /\ FreeWorker /\ t.attempts >= Tries
    /\ tokens' = tokens \ {t}
    /\ files' = [files EXCEPT ![t.id].status = "failed"]
    /\ UNCHANGED <<disk, running, orphans, doubled, view, net>>

Goes(w, step, loaded) ==
    running' = (running \ {w}) \union {[w EXCEPT !.step = step, !.loaded = loaded]}

\* The file is written to the end, and the model is loaded anew: nobody reads the file before.
Generate(w) ==
    /\ w.step = "started"
    /\ Goes(w, "written", files[w.id].status)
    /\ disk' = disk \union {<<w.id, w.attempt>>}
    /\ UNCHANGED <<files, tokens, orphans, doubled, view, faults, net>>

\* Fault: the row is completed before the file is written.
CompleteFirst(w) ==
    /\ w.step \in {"started", "written"}
    /\ Goes(w, IF w.step = "started" THEN "started" ELSE "completed", "")
    /\ files' = [files EXCEPT ![w.id] = [status |-> "completed", attempt |-> w.attempt]]
    /\ UNCHANGED <<disk, tokens, orphans, doubled, view, faults, net>>

\* The update writes what differs from what was loaded.
Complete(w) ==
    /\ w.step = "written"
    /\ Goes(w, "completed", "")
    /\ files' = [files EXCEPT ![w.id] =
                   [status |-> IF w.loaded = "completed" THEN @.status ELSE "completed", attempt |-> w.attempt]]
    /\ UNCHANGED <<disk, tokens, orphans, doubled, view, faults, net>>

\* The mail is sent; the reservation is deleted when it is still this attempt's.
MailSent(w) ==
    /\ w.step = "completed"
    /\ running' = running \ {w}
    /\ tokens' = tokens \ {Reserved(w)}
    /\ UNCHANGED <<files, disk, orphans, doubled, view, faults, net>>

\* failed(), after the last attempt; before it, the payload is released to be tried again.
GivesUp(w) ==
    /\ w.attempt >= Tries
    /\ tokens' = tokens \ {Reserved(w)}
    /\ files' = [files EXCEPT ![w.id].status = "failed"]
    /\ UNCHANGED doubled
Releases(w) ==
    /\ w.attempt < Tries
    /\ tokens' = (tokens \ {Reserved(w)}) \union {[Reserved(w) EXCEPT !.at = "delayed"]}
    /\ doubled' = IF Reserved(w) \in tokens THEN doubled ELSE doubled \union {w.id}
    /\ UNCHANGED files

\* The generation, a query or the mail throws.
AttemptThrows(w) ==
    /\ Fault
    /\ running' = running \ {w}
    /\ GivesUp(w) \/ Releases(w)
    /\ UNCHANGED <<disk, orphans, view, net>>

\* The worker is killed: by its own timeout, which gives up a last attempt, or from outside.
WorkerDies(w) ==
    /\ Fault
    /\ running' = running \ {w}
    /\ GivesUp(w) \/ UNCHANGED <<tokens, files, doubled>>
    /\ UNCHANGED <<disk, orphans, view, net>>

----------------------------------------------------------------------------
WorkerNext ==
    \/ \E t \in tokens : Available(t) /\ (StartAttempt(t) \/ RefuseAttempt(t))
    \/ \E w \in running : Generate(w) \/ Complete(w) \/ MailSent(w)

Answered == \E shown \in polls.answers : BoardRefreshed(shown)
PollNext == PollTick \/ PollServed \/ Answered

ExportNext ==
    \/ AskList \/ StartExport
    \/ \E a \in answered : BoardAnswered(a)
    \/ \E r \in inbox : ServeList(r) \/ ExportMerchants(r) \/ DispatchFails(r)
    \/ \E r \in inbox \union answered : VisitLost(r)
    \/ WorkerNext \/ PollNext
    \/ PollLost
    \/ \E w \in running : AttemptThrows(w) \/ WorkerDies(w)
    \/ \E t \in tokens : Overtaken(t) /\ (StartAttempt(t) \/ RefuseAttempt(t))

\* The workers and the page's timer go on, and an answer that was sent arrives; nothing makes the
\* user do anything.  A job has only so many attempts, so none can keep the others waiting.
ExportFairness ==
    /\ WF_<<exportVars, net>>(WorkerNext)
    /\ WF_<<exportVars, net>>(PollNext)
    /\ WF_<<exportVars, net>>(Answered)

----------------------------------------------------------------------------
\* An export that is shown under way, and whose job was stored, is in the end shown completed or
\* failed: through attempts that throw, die or overlap, the third of them too, and polls that are
\* lost or answered out of order.  Excepted are an export that a late answer, from before it was
\* asked for, takes off the page, and one of which an attempt that was overtaken throws: the
\* payload it puts back makes two, and the last attempt of the two to start may find itself with
\* none, and leave the row "running".
ExportEndIsShown ==
    \A e \in 1..MaxExports :
      (e \in DOMAIN board.shown /\ board.shown[e] \in Active /\ e \notin orphans)
        ~> (e \in DOMAIN board.shown /\ e \notin doubled => board.shown[e] \in Ended)

\* A row that offers a download names a file that was written to the end, whichever of the attempts
\* that overlap came last.
DownloadIsThere ==
    \A e \in DOMAIN files : files[e].status = "completed" => <<e, files[e].attempt>> \in disk
=============================================================================
