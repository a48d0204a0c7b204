---------------------------- MODULE WebPagesProofs ----------------------------
(***************************************************************************)
(* Proofs about WebPages, for any number of occasions, mailboxes, tries,   *)
(* routes, drags and webhooks: no mail is sent twice by attempts that      *)
(* record what they did, a layout the page called saved is the one that is *)
(* placed, the store's list has one record of a payment, an export that    *)
(* offers a download has its file, and what the shop remembers was charged *)
(* as the customer confirmed it.                                           *)
(***************************************************************************)
EXTENDS WebPages, TLAPS, SequenceTheorems

----------------------------------------------------------------------------
(* E-mails *)

MailRows == [status : {"none", "pending", "sent", "failed"}, attempts : Nat]
Jobs == [at : {"none", "queued", "sending", "sent", "recorded", "gone"}, tries : Nat, struck : BOOLEAN]

MailTypes ==
    /\ mails \in [Mails -> MailRows]
    /\ mailJobs \in [Mails -> Jobs]
    /\ mailed \in [Mails -> Nat]
    /\ "mail" \in DOMAIN scan

\* A delivery about to be dispatched has no job, and where there is none nothing was mailed.
FirstDispatch(m) ==
    /\ mails[m].status = "none" => mailJobs[m].at = "none"
    /\ m \in scan.mail => mails[m].status # "none" /\ mailJobs[m].at = "none"
    /\ mailJobs[m].at = "none" => mailed[m] = 0

\* A mail that is out and not torn is recorded, or about to be.
OutIsRecorded(m) ==
    m \notin torn =>
      /\ mailed[m] <= 1
      /\ mailJobs[m].at = "sending" => mailed[m] = 0
      /\ mailJobs[m].at # "sent" /\ mailed[m] # 0 => mails[m].status = "sent"

MailInv ==
    /\ MailTypes
    /\ \A m \in Mails : FirstDispatch(m) /\ OutIsRecorded(m)

LEMMA MailInitHolds == MailInit => MailInv
<1> SUFFICES ASSUME MailInit PROVE MailInv
  OBVIOUS
<1>1. /\ mails = [m \in Mails |-> Absent] /\ mailed = [m \in Mails |-> 0]
      /\ mailJobs = [m \in Mails |-> [at |-> "none", tries |-> 0, struck |-> FALSE]]
  BY Zenon DEF MailInit
<1>2. scan.mail = {} /\ "mail" \in DOMAIN scan
  BY DEF MailInit
<1>3. MailTypes
  <2>1. Absent \in MailRows /\ [at |-> "none", tries |-> 0, struck |-> FALSE] \in Jobs
    BY DEF Absent, MailRows, Jobs
  <2> QED
    BY <1>1, <1>2, <2>1 DEF MailTypes
<1>4. \A m \in Mails : FirstDispatch(m) /\ OutIsRecorded(m)
  BY <1>1, <1>2 DEF FirstDispatch, OutIsRecorded, Absent
<1> QED
  BY <1>3, <1>4 DEF MailInv

\* Settings and the clock do not touch the deliveries.
LEMMA SettingSteps ==
  ASSUME MailInv,
         \/ \E o \in Occasions : Occur(o)
         \/ OpenNotifications \/ SaveNotifications \/ UpdateMerchantSettings \/ ShowSettings
         \/ SaveFails \/ UpdateGlobalSettings
  PROVE  MailInv'
<1>1. UNCHANGED <<scan, mails, jobVars>>
  BY DEF Occur, OpenNotifications, SaveNotifications, UpdateMerchantSettings, ShowSettings, SaveFails,
         UpdateGlobalSettings
<1> QED
  BY <1>1 DEF MailInv, MailTypes, FirstDispatch, OutIsRecorded, jobVars

\* The steps of a scan that neither create nor dispatch leave no delivery to dispatch that was
\* not there.
LEMMA QuietScanSteps ==
  ASSUME MailInv,
         \/ StartScan \/ ScanOccasion \/ EnsureSetting \/ EnsureRecipient \/ EnsurePreferences
         \/ ReadSetting \/ ReadPreference \/ ReadRecipients \/ EndOccasion \/ EndScan \/ ScanFails
         \/ MutexExpires
  PROVE  MailInv'
<1>1. UNCHANGED <<mails, jobVars>>
  BY DEF StartScan, ScanOccasion, EnsureSetting, EnsureRecipient, EnsurePreferences, ReadSetting,
         ReadPreference, ReadRecipients, EndOccasion, EndScan, ScanFails, MutexExpires, Scanning
<1>2. "mail" \in DOMAIN scan
  BY DEF MailInv, MailTypes
<1>3. scan'.mail \in {scan.mail, {}} /\ "mail" \in DOMAIN scan'
  <2>1. CASE ScanFails \/ ReadRecipients \/ MutexExpires \/ StartScan \/ EndScan
    BY <1>2, <2>1 DEF StartScan, ReadRecipients, EndScan, ScanFails, MutexExpires, Scanning
  <2>2. CASE ScanOccasion
    BY <1>2, <2>2 DEF ScanOccasion, Scanning
  <2>3. CASE EnsureSetting \/ EnsureRecipient \/ EnsurePreferences
    BY <1>2, <2>3 DEF EnsureSetting, EnsureRecipient, EnsurePreferences, Scanning, ScanAt
  <2>4. CASE ReadSetting \/ ReadPreference \/ EndOccasion
    BY <1>2, <2>4 DEF ReadSetting, ReadPreference, EndOccasion, Scanning, ScanAt, Skipped
  <2> QED
    BY <2>1, <2>2, <2>3, <2>4
<1> QED
  BY <1>1, <1>3 DEF MailInv, MailTypes, FirstDispatch, OutIsRecorded, jobVars

\* A delivery is created once, and dispatched at most once.
LEMMA DeliverySteps ==
  ASSUME MailInv, CreateDelivery \/ DispatchMail
  PROVE  MailInv'
<1> USE DEF MailInv
<1>1. CASE CreateDelivery
  <2>1. PICK o \in scan.occasion, b \in scan.left :
          /\ Scanning("create", [scan EXCEPT !.left = @ \ {b},
                                             !.pc = IF mails[<<o, b>>] = Absent THEN "dispatch" ELSE @,
                                             !.mail = IF mails[<<o, b>>] = Absent THEN {<<o, b>>} ELSE {}])
          /\ mails' = [mails EXCEPT ![<<o, b>>].status = IF @ = "none" THEN "pending" ELSE @]
    BY <1>1 DEF CreateDelivery
  <2> DEFINE d == <<o, b>>
  <2>2. /\ scan'.mail = IF mails[d] = Absent THEN {d} ELSE {}
        /\ "mail" \in DOMAIN scan'
        /\ UNCHANGED jobVars
    BY <2>1 DEF Scanning, MailTypes
  <2>3. MailTypes'
    <3>1. mails' \in [Mails -> MailRows]
      BY <2>1 DEF MailTypes, MailRows
    <3> QED
      BY <2>2, <3>1 DEF MailTypes, jobVars
  <2>4. ASSUME NEW m \in Mails PROVE FirstDispatch(m)' /\ OutIsRecorded(m)'
    <3>1. CASE m # d
      BY <2>1, <2>2, <3>1 DEF MailTypes, FirstDispatch, OutIsRecorded, jobVars
    <3>2. CASE m = d
      <4>1. mails'[m].status = IF mails[m].status = "none" THEN "pending" ELSE mails[m].status
        BY <2>1, <3>2 DEF MailTypes
      <4>2. m \in scan'.mail => mails[m].status = "none"
        BY <2>2, <3>2 DEF Absent
      <4> QED
        BY <2>2, <4>1, <4>2 DEF FirstDispatch, OutIsRecorded, jobVars
    <3> QED
      BY <3>1, <3>2
  <2> QED
    BY <2>3, <2>4
<1>2. CASE DispatchMail
  <2>1. /\ scan'.mail = {} /\ "mail" \in DOMAIN scan'
        /\ UNCHANGED <<mails, mailed, torn>>
    BY <1>2 DEF DispatchMail, MailTypes
  <2>2. \A m \in Mails : mailJobs'[m] = IF m \in scan.mail THEN [mailJobs[m] EXCEPT !.at = "queued"] ELSE mailJobs[m]
    BY <1>2 DEF DispatchMail
  <2>3. MailTypes'
    <3>1. \A m \in Mails : [mailJobs[m] EXCEPT !.at = "queued"] \in Jobs
      BY DEF MailTypes, Jobs
    <3>2. mailJobs' \in [Mails -> Jobs]
      BY <1>2, <3>1 DEF DispatchMail, MailTypes
    <3> QED
      BY <2>1, <3>2 DEF MailTypes
  <2>4. ASSUME NEW m \in Mails PROVE FirstDispatch(m)' /\ OutIsRecorded(m)'
    <3>1. CASE m \in scan.mail
      BY <2>1, <2>2, <3>1 DEF MailTypes, FirstDispatch, OutIsRecorded
    <3>2. CASE m \notin scan.mail
      BY <2>1, <2>2, <3>2 DEF FirstDispatch, OutIsRecorded
    <3> QED
      BY <3>1, <3>2
  <2> QED
    BY <2>3, <2>4
<1> QED
  BY <1>1, <1>2

\* A step of a job, or the death of its worker.
LEMMA JobSteps ==
  ASSUME MailInv, NEW m \in Mails, MailWork(m) \/ MailerDies(m)
  PROVE  MailInv'
<1> USE DEF MailInv
<1>1. UNCHANGED scan
  BY DEF MailWork, MailerDies, GiveUp, StartMail, SendMail, MailThrows, RecordSent, RecordThrows, DeleteJob, Job
<1>2. \E j \in Jobs : mailJobs' = [mailJobs EXCEPT ![m] = j]
  <2>1. mailJobs[m] \in Jobs /\ mailJobs \in [Mails -> Jobs]
    BY DEF MailTypes
  <2>2. CASE GiveUp(m) \/ SendMail(m) \/ MailThrows(m) \/ RecordSent(m) \/ DeleteJob(m)
    <3>1. PICK at \in {"queued", "sending", "sent", "recorded", "gone"} :
            mailJobs' = [mailJobs EXCEPT ![m].at = at]
      BY <2>2 DEF GiveUp, SendMail, MailThrows, RecordSent, DeleteJob, Job, Again
    <3>2. [mailJobs[m] EXCEPT !.at = at] \in Jobs
      BY <2>1 DEF Jobs
    <3> QED
      BY <3>1, <3>2
  <2>3. CASE MailerDies(m)
    <3>1. [mailJobs[m] EXCEPT !.at = "queued", !.struck = TRUE] \in Jobs
      BY <2>1 DEF Jobs
    <3> QED
      BY <2>3, <3>1 DEF MailerDies
  <2>4. CASE RecordThrows(m)
    <3>1. PICK told \in BOOLEAN : mailJobs' = [mailJobs EXCEPT ![m].at = Again(m), ![m].struck = ~told]
      BY <2>4 DEF RecordThrows
    <3>2. [mailJobs[m] EXCEPT !.at = Again(m), !.struck = ~told] \in Jobs
      BY <2>1 DEF Jobs, Again
    <3> QED
      BY <3>1, <3>2
  <2>5. CASE StartMail(m)
    <3>1. PICK at \in {"sending", "gone"} :
            mailJobs' = [mailJobs EXCEPT ![m] = [at |-> at, tries |-> @.tries + 1, struck |-> FALSE]]
      BY <2>5 DEF StartMail
    <3>2. [at |-> at, tries |-> mailJobs[m].tries + 1, struck |-> FALSE] \in Jobs
      BY <2>1 DEF Jobs
    <3> QED
      BY <3>1, <3>2
  <2> QED
    BY <2>2, <2>3, <2>4, <2>5 DEF MailWork
<1>6. \E r \in MailRows : mails' = [mails EXCEPT ![m] = r]
  <2>1. mails[m] \in MailRows /\ mails = [mails EXCEPT ![m] = mails[m]]
    BY DEF MailTypes
  <2>2. \A status \in {"sent", "failed"} : [mails[m] EXCEPT !.status = status] \in MailRows
    BY <2>1 DEF MailRows
  <2>3. CASE GiveUp(m) \/ SendMail(m) \/ DeleteJob(m) \/ MailerDies(m)
    BY <2>1, <2>3 DEF GiveUp, SendMail, DeleteJob, MailerDies
  <2>4. CASE MailThrows(m) \/ RecordSent(m)
    BY <2>2, <2>4 DEF MailThrows, RecordSent
  <2>5. CASE RecordThrows(m)
    BY <2>1, <2>2, <2>5 DEF RecordThrows
  <2>6. CASE StartMail(m)
    <3>1. mails' = [mails EXCEPT ![m] = IF mails[m].status = "sent" THEN mails[m] ELSE Tried(mails[m])]
      BY <2>6 DEF StartMail
    <3>2. Tried(mails[m]) \in MailRows
      BY <2>1 DEF MailRows, Tried
    <3> QED
      BY <2>1, <3>1, <3>2
  <2> QED
    BY <2>3, <2>4, <2>5, <2>6 DEF MailWork
<1>7. MailTypes'
  <2>1. mailed' = mailed \/ mailed' = [mailed EXCEPT ![m] = @ + 1]
    BY DEF MailWork, MailerDies, GiveUp, StartMail, SendMail, MailThrows, RecordSent, RecordThrows, DeleteJob
  <2>2. mailed' \in [Mails -> Nat]
    BY <2>1 DEF MailTypes
  <2> QED
    BY <1>1, <1>2, <1>6, <2>2 DEF MailTypes
<1>3. ASSUME NEW n \in Mails, n # m PROVE FirstDispatch(n)' /\ OutIsRecorded(n)'
  <2>1. mails'[n] = mails[n] /\ mailJobs'[n] = mailJobs[n] /\ mailed'[n] = mailed[n] /\ (n \in torn' <=> n \in torn)
    BY <1>3 DEF MailWork, MailerDies, GiveUp, StartMail, SendMail, MailThrows, RecordSent, RecordThrows, DeleteJob,
                Job, MailTypes
  <2> QED
    BY <1>1, <2>1 DEF FirstDispatch, OutIsRecorded
<1>4. /\ mailJobs[m] \in Jobs /\ mails[m] \in MailRows /\ mailed[m] \in Nat
      /\ DOMAIN mailJobs = Mails /\ DOMAIN mails = Mails /\ DOMAIN mailed = Mails
      /\ FirstDispatch(m) /\ OutIsRecorded(m)
  BY DEF MailTypes
<1>5. FirstDispatch(m)' /\ OutIsRecorded(m)'
  <2>1. CASE GiveUp(m) \/ DeleteJob(m)
    <3>1. mailJobs[m].at \in {"queued", "recorded"} /\ mailJobs'[m].at = "gone" /\ UNCHANGED <<mails, mailed, torn>>
      BY <1>4, <2>1 DEF GiveUp, DeleteJob, Job, Jobs
    <3> QED
      BY <1>1, <1>4, <3>1 DEF FirstDispatch, OutIsRecorded
  <2>2. CASE StartMail(m)
    <3>1. /\ mailJobs[m].at = "queued"
          /\ mailJobs'[m].at = IF mails[m].status = "sent" \/ mails[m].attempts >= admin.tries THEN "gone" ELSE "sending"
          /\ UNCHANGED <<mailed, torn>>
      BY <1>4, <2>2 DEF StartMail
    <3>2. /\ mails[m].status = "sent" => mails'[m] = mails[m]
          /\ mails[m].status # "none" => mails'[m].status # "none"
      BY <1>4, <2>2 DEF StartMail, MailRows, Tried
    <3> QED
      BY <1>1, <1>4, <3>1, <3>2 DEF FirstDispatch, OutIsRecorded
  <2>3. CASE SendMail(m)
    <3>1. /\ mailJobs[m].at = "sending" /\ mailJobs'[m].at = "sent" /\ UNCHANGED <<mails, torn>>
          /\ mailed'[m] = mailed[m] + 1
      BY <1>4, <2>3 DEF SendMail, Job, Jobs
    <3> QED
      BY <1>1, <1>4, <3>1 DEF FirstDispatch, OutIsRecorded
  <2>4. CASE MailThrows(m)
    <3>1. /\ mailJobs[m].at = "sending" /\ mailJobs'[m].at \in {"queued", "gone"} /\ UNCHANGED <<mailed, torn>>
          /\ mails'[m].status = "failed"
      BY <1>4, <2>4 DEF MailThrows, Job, Again, Jobs, MailRows
    <3> QED
      BY <1>1, <1>4, <3>1 DEF FirstDispatch, OutIsRecorded
  <2>5. CASE RecordSent(m)
    <3>1. /\ mailJobs[m].at = "sent" /\ mailJobs'[m].at = "recorded" /\ UNCHANGED <<mailed, torn>>
          /\ mails'[m].status = "sent"
      BY <1>4, <2>5 DEF RecordSent, Job, Jobs, MailRows
    <3> QED
      BY <1>1, <1>4, <3>1 DEF FirstDispatch, OutIsRecorded
  <2>6. CASE RecordThrows(m)
    <3>1. mailJobs[m].at = "sent" /\ m \in torn' /\ UNCHANGED mailed
      BY <2>6 DEF RecordThrows
    <3>2. PICK told \in BOOLEAN :
            /\ mails' = IF told THEN [mails EXCEPT ![m].status = "failed"] ELSE mails
            /\ mailJobs' = [mailJobs EXCEPT ![m] = [@ EXCEPT !.at = Again(m), !.struck = ~told]]
      BY <2>6 DEF RecordThrows
    <3>3. mailJobs'[m].at \in {"queued", "gone"}
      BY <1>4, <3>2 DEF Again, Jobs
    <3>4. mails'[m].status \in {mails[m].status, "failed"}
      BY <1>4, <3>2 DEF MailRows
    <3> QED
      BY <1>1, <1>4, <3>1, <3>3, <3>4 DEF FirstDispatch, OutIsRecorded
  <2>7. CASE MailerDies(m)
    <3>1. /\ mailJobs[m].at \in {"sending", "sent", "recorded"} /\ UNCHANGED <<mails, mailed>>
          /\ torn' = IF mailJobs[m].at = "sent" THEN torn \union {m} ELSE torn
      BY <2>7 DEF MailerDies
    <3>2. mailJobs'[m].at = "queued"
      BY <1>4, <2>7 DEF MailerDies, Jobs
    <3> QED
      BY <1>1, <1>4, <3>1, <3>2 DEF FirstDispatch, OutIsRecorded
  <2> QED
    BY <2>1, <2>2, <2>3, <2>4, <2>5, <2>6, <2>7 DEF MailWork
<1> QED
  BY <1>3, <1>5, <1>7

LEMMA MailSteps ==
  ASSUME MailInv, MailsNext
  PROVE  MailInv'
BY SettingSteps, QuietScanSteps, DeliverySteps, JobSteps DEF MailsNext, ScanNext

LEMMA MailInvariant == Spec => []MailInv
<1>1. Init => MailInv
  BY MailInitHolds DEF Init
<1>2. MailInv /\ [Next]_webVars => MailInv'
  <2> SUFFICES ASSUME MailInv, [Next]_webVars PROVE MailInv'
    OBVIOUS
  <2>1. CASE MailsNext
    BY <2>1, MailSteps
  <2>2. CASE UNCHANGED mailVars
    BY <2>2 DEF mailVars, jobVars, MailInv, MailTypes, FirstDispatch, OutIsRecorded
  <2> QED
    BY <2>1, <2>2 DEF Next, webVars, pageVars
<1> QED
  BY <1>1, <1>2, PTL DEF Spec

\* A merchant is mailed once about an occasion in each mailbox, unless an attempt that mailed it
\* did not get to record it (SendEmailNotificationJob.php:54).
THEOREM MailedAtMostOnce == Spec => []MailedOnce
<1>1. MailInv => MailedOnce
  BY DEF MailInv, MailTypes, OutIsRecorded, MailedOnce
<1> QED
  BY <1>1, MailInvariant, PTL

----------------------------------------------------------------------------
(* The merchant's canvas *)

\* A save that overtook none stores the places on the page, once; what was kept is stored.
Keeping ==
    /\ kept = "sent" =>
         /\ canvas.pending # Nowhere
         /\ \A q, r \in Saves : q = r
         /\ \A r \in Saves : r.body = canvas.pending
         /\ \A a \in answered : a.kind = "layout" => Saves = {} /\ layout = canvas.pending
    /\ kept = "yes" => Saves = {} /\ layout = canvas.places

CanvasInv ==
    /\ DOMAIN canvas = {"open", "places", "dirty", "word", "pending", "timers"}
    /\ canvas.pending # Nowhere => canvas.pending = canvas.places
    /\ canvas.dirty => canvas.pending # Nowhere
    /\ \A r \in inbox : r.kind # "layout" => r.body = Nowhere
    /\ Keeping

LEMMA CanvasInitHolds == NetInit /\ CanvasInit => CanvasInv
<1> SUFFICES ASSUME NetInit, CanvasInit PROVE CanvasInv
  OBVIOUS
<1>1. kept = "no" /\ canvas = ClosedCanvas /\ inbox = {}
  BY DEF NetInit, CanvasInit
<1> QED
  BY <1>1 DEF CanvasInv, Keeping, ClosedCanvas, Nowhere

\* A node is dragged: where all are is to be saved.
LEMMA DragSteps ==
  ASSUME CanvasInv, NEW id \in DOMAIN canvas.places, NEW spot, DragNode(id, spot)
  PROVE  CanvasInv'
<1> DEFINE places == [canvas.places EXCEPT ![id] = spot]
<1>1. /\ DOMAIN canvas' = DOMAIN canvas
      /\ canvas'.pending = places /\ canvas'.places = places
      /\ inbox' = inbox /\ kept' = "no"
  BY DEF DragNode, Act, CanvasInv
<1>2. places # Nowhere
  BY DEF Nowhere
<1> QED
  BY <1>1, <1>2 DEF CanvasInv, Keeping

\* A page is opened or left, or a save begins.
LEMMA PageSteps ==
  ASSUME CanvasInv, OpenCanvas \/ LeaveCanvas \/ SaveLayout \/ ResetLayout
  PROVE  CanvasInv'
<1> USE DEF CanvasInv
<1>1. CASE OpenCanvas \/ LeaveCanvas
  <2>1. /\ DOMAIN canvas' = DOMAIN canvas /\ canvas'.pending = Nowhere /\ ~canvas'.dirty
        /\ inbox' = inbox /\ kept' = "no"
    <3>1. CASE OpenCanvas
      BY <3>1 DEF OpenCanvas, Act, ClosedCanvas
    <3>2. CASE LeaveCanvas
      BY <3>2 DEF LeaveCanvas, Leave, ClosedCanvas
    <3> QED
      BY <1>1, <3>1, <3>2
  <2> QED
    BY <2>1 DEF Keeping
<1>2. ASSUME NEW kind, NEW body, Visit(kind, body)
      PROVE  /\ answered' = {}
             /\ \E r : r.kind = kind /\ r.body = body /\ inbox' = inbox \union {r}
  BY <1>2 DEF Visit, Follow, Request
<1>3. CASE SaveLayout
  <2>1. /\ DOMAIN canvas' = DOMAIN canvas /\ canvas'.pending = canvas.pending /\ canvas'.places = canvas.places
        /\ canvas'.dirty = canvas.dirty /\ canvas.pending # Nowhere
        /\ kept' = (IF Saves = {} THEN "sent" ELSE "no")
    BY <1>3 DEF SaveLayout
  <2>2. PICK r : r.kind = "layout" /\ r.body = canvas.pending /\ inbox' = inbox \union {r} /\ answered' = {}
    BY <1>2, <1>3 DEF SaveLayout
  <2>3. Saves' = Saves \union {r}
    BY <2>2 DEF Saves
  <2> QED
    BY <2>1, <2>2, <2>3 DEF Keeping
<1>4. CASE ResetLayout
  <2>1. UNCHANGED <<canvas, layout, kept>>
    BY <1>4 DEF ResetLayout, canvasVars
  <2>2. PICK r : r.kind = "reset" /\ r.body = Nowhere /\ inbox' = inbox \union {r} /\ answered' = {}
    BY <1>2, <1>4 DEF ResetLayout
  <2>3. Saves' = Saves
    BY <2>2 DEF Saves
  <2> QED
    BY <2>1, <2>2, <2>3 DEF Keeping
<1> QED
  BY <1>1, <1>3, <1>4

\* The server stores a layout that is not empty, and the answer is shown.
LEMMA AnswerSteps ==
  ASSUME CanvasInv,
         \/ \E r \in inbox : ServeLayout(r)
         \/ \E a \in answered : LayoutSaved(a) \/ ResetRefused(a)
         \/ \E r \in inbox \union answered : CanvasLost(r)
  PROVE  CanvasInv'
<1> USE DEF CanvasInv
<1>1. ASSUME NEW r \in inbox, ServeLayout(r) PROVE CanvasInv'
  <2>1. /\ layout' = IF r.body # Nowhere THEN r.body ELSE layout
        /\ UNCHANGED <<canvas, kept>>
        /\ inbox' = inbox \ {r}
    BY <1>1 DEF ServeLayout, Served, ServedWith
  <2>2. \E a : a.kind = r.kind /\ answered' \in {{a}, answered}
    BY <1>1 DEF ServeLayout, Served, ServedWith
  <2>3. Saves' = Saves \ {r}
    BY <2>1 DEF Saves
  <2>4. CASE r.kind = "layout"
    <3>1. r \in Saves
      BY <2>4 DEF Saves
    <3> QED
      BY <2>1, <2>2, <2>3, <3>1 DEF Keeping
  <2>5. CASE r.kind # "layout"
    <3>1. Saves' = Saves /\ layout' = layout
      BY <2>1, <2>3, <2>5 DEF Saves
    <3> QED
      BY <2>1, <2>2, <2>5, <3>1 DEF Keeping
  <2> QED
    BY <2>4, <2>5
<1>2. ASSUME NEW a \in answered, LayoutSaved(a) PROVE CanvasInv'
  <2>1. /\ DOMAIN canvas' = DOMAIN canvas /\ canvas'.pending = canvas.pending /\ canvas'.places = canvas.places
        /\ ~canvas'.dirty /\ a.kind = "layout" /\ kept' = (IF kept = "sent" THEN "yes" ELSE "no")
        /\ UNCHANGED <<inbox, layout>>
    BY <1>2 DEF LayoutSaved, Returned
  <2>2. Saves' = Saves
    BY <2>1 DEF Saves
  <2> QED
    BY <2>1, <2>2 DEF Keeping
<1>3. ASSUME NEW a \in answered, ResetRefused(a) PROVE CanvasInv'
  <2>1. UNCHANGED <<canvas, layout, kept, inbox, Saves>> /\ answered' = {}
    BY <1>3 DEF ResetRefused, Returned, canvasVars, Saves
  <2> QED
    BY <2>1 DEF Keeping
<1>4. ASSUME NEW r \in inbox \union answered, CanvasLost(r) PROVE CanvasInv'
  <2>1. UNCHANGED <<canvas, layout, kept>> /\ inbox' \subseteq inbox /\ answered' \subseteq answered
    BY <1>4 DEF CanvasLost, Lost, canvasVars
  <2>2. Saves' \subseteq Saves
    BY <2>1 DEF Saves
  <2> QED
    BY <2>1, <2>2 DEF Keeping
<1> QED
  BY <1>1, <1>2, <1>3, <1>4

\* The admin changes the route or its layout, or the button's word fades.
LEMMA AsideSteps ==
  ASSUME CanvasInv, AdminSaves \/ AdminMoves \/ WordFades
  PROVE  CanvasInv'
<1> USE DEF CanvasInv
<1>1. CASE AdminSaves
  <2>1. UNCHANGED <<layout, canvas, kept, inbox, answered, Saves>>
    BY <1>1 DEF AdminSaves, Redrawn, net, Saves
  <2> QED
    BY <2>1 DEF Keeping
<1>2. CASE AdminMoves
  <2>1. canvas' = canvas /\ kept' = "no" /\ inbox' = inbox
    BY <1>2 DEF AdminMoves, net
  <2> QED
    BY <2>1 DEF Keeping
<1>3. CASE WordFades
  <2>1. /\ DOMAIN canvas' = DOMAIN canvas /\ canvas'.pending = canvas.pending /\ canvas'.places = canvas.places
        /\ canvas'.dirty = canvas.dirty
        /\ UNCHANGED <<layout, kept, inbox, answered, Saves>>
    BY <1>3 DEF WordFades, net, Saves
  <2> QED
    BY <2>1 DEF Keeping
<1> QED
  BY <1>1, <1>2, <1>3

LEMMA CanvasSteps ==
  ASSUME CanvasInv, CanvasNext
  PROVE  CanvasInv'
BY DragSteps, PageSteps, AnswerSteps, AsideSteps DEF CanvasNext

\* In the other programs' behaviours no canvas is opened.
OnCanvas == IF program = "canvas" THEN CanvasInv ELSE kept = "no"

LEMMA CanvasInvariant == Spec => []OnCanvas
<1>1. Init => OnCanvas
  BY CanvasInitHolds DEF Init, OnCanvas, CanvasInit
<1>2. OnCanvas /\ [Next]_webVars => OnCanvas'
  <2> SUFFICES ASSUME OnCanvas, [Next]_webVars PROVE OnCanvas'
    OBVIOUS
  <2>1. UNCHANGED program
    BY DEF Next, webVars
  <2>2. CASE program = "canvas" /\ CanvasNext
    BY <2>1, <2>2, CanvasSteps DEF OnCanvas
  <2>3. CASE program # "canvas" /\ UNCHANGED canvasVars
    BY <2>1, <2>3 DEF OnCanvas, canvasVars
  <2>4. CASE UNCHANGED <<net, canvasVars>>
    <3>1. UNCHANGED <<layout, canvas, kept, inbox, answered, Saves>>
      BY <2>4 DEF net, canvasVars, Saves
    <3> QED
      BY <2>1, <3>1 DEF OnCanvas, CanvasInv, Keeping
  <2> QED
    BY <2>2, <2>3, <2>4 DEF Next, webVars, pageVars
<1> QED
  BY <1>1, <1>2, PTL DEF Spec

\* Once a save is answered, opening the page again places the nodes where they were left, however the route
\* is redrawn and whatever visits are interrupted (Builder.jsx:483): unless a node is dragged or the admin
\* writes the layout after the save was sent, or an interrupted save was still on its way.
THEOREM LayoutRestored == Spec => []RestoredAsLeft
<1>1. OnCanvas => RestoredAsLeft
  <2> SUFFICES ASSUME OnCanvas, kept = "yes",
                      NEW id \in DOMAIN canvas.places \intersect NodeIds(route.graph)
               PROVE  Placed(route.graph)[id] = canvas.places[id]
    BY DEF RestoredAsLeft
  <2>1. layout = canvas.places
    BY DEF OnCanvas, CanvasInv, Keeping
  <2> QED
    BY <2>1 DEF Placed
<1> QED
  BY <1>1, CanvasInvariant, PTL

----------------------------------------------------------------------------
(* The records of the content service *)

\* The records of a list are of different payments.
Distinct(list) == \A i, j \in DOMAIN list : list[i].payment = list[j].payment => i = j
OneEach(list) == list \in Seq(Record) /\ Distinct(list) /\ Len(list) <= MaxRecords

LEMMA FunctionIsSeq ==
  ASSUME NEW S, NEW n \in Nat, NEW f \in [1..n -> S]
  PROVE  f \in Seq(S) /\ Len(f) = n
OBVIOUS

LEMMA CappedKeeps ==
  ASSUME NEW S, NEW list \in Seq(S), Distinct(list)
  PROVE  Capped(list) \in Seq(S) /\ Distinct(Capped(list)) /\ Len(Capped(list)) <= MaxRecords
<1> DEFINE n == IF Len(list) < MaxRecords THEN Len(list) ELSE MaxRecords
<1>1. n \in Nat /\ n <= Len(list) /\ n <= MaxRecords
  BY LenProperties, RecordsAssumption
<1>2. \A i \in 1..n : list[i] \in S
  BY <1>1, ElementOfSeq
<1> HIDE DEF n
<1>3. /\ SubSeq(list, 1, n) \in Seq(S)
      /\ Len(SubSeq(list, 1, n)) = n
      /\ \A i \in 1..n : SubSeq(list, 1, n)[i] = list[i]
  BY <1>1, <1>2, SubSeqProperties
<1>4. /\ DOMAIN SubSeq(list, 1, n) = 1..n
      /\ 1..n \subseteq DOMAIN list
  BY <1>1, <1>3, LenProperties
<1>5. Distinct(SubSeq(list, 1, n))
  BY <1>3, <1>4 DEF Distinct
<1>6. Capped(list) = SubSeq(list, 1, n)
  BY DEF Capped, n
<1> QED
  BY <1>1, <1>3, <1>5, <1>6

LEMMA ShiftedKeeps ==
  ASSUME NEW S, NEW list \in Seq(S), Distinct(list), Len(list) <= MaxRecords
  PROVE  Shifted(list) \in Seq(S) /\ Distinct(Shifted(list)) /\ Len(Shifted(list)) <= MaxRecords
<1>1. CASE list = <<>>
  BY <1>1 DEF Shifted
<1>2. CASE list # <<>>
  <2>1. /\ Tail(list) \in Seq(S) /\ Len(Tail(list)) = Len(list) - 1
        /\ \A i \in 1..Len(Tail(list)) : Tail(list)[i] = list[i + 1]
    BY <1>2, HeadTailProperties
  <2>2. Len(list) \in Nat /\ DOMAIN list = 1..Len(list) /\ DOMAIN Tail(list) = 1..Len(list) - 1
    BY <2>1, LenProperties
  <2>3. Distinct(Tail(list))
    <3> SUFFICES ASSUME NEW i \in DOMAIN Tail(list), NEW j \in DOMAIN Tail(list),
                        Tail(list)[i].payment = Tail(list)[j].payment
                 PROVE  i = j
      BY DEF Distinct
    <3>1. i + 1 \in DOMAIN list /\ j + 1 \in DOMAIN list /\ i \in Nat /\ j \in Nat
      BY <2>2
    <3>2. list[i + 1].payment = list[j + 1].payment
      BY <2>1, <2>2
    <3> QED
      BY <3>1, <3>2 DEF Distinct
  <2> QED
    BY <1>2, <2>1, <2>2, <2>3, RecordsAssumption DEF Shifted
<1> QED
  BY <1>1, <1>2

\* A record is put first, when no other is of its payment.
LEMMA FirstKeeps ==
  ASSUME NEW S, NEW list \in Seq(S), Distinct(list), NEW r \in S,
         \A i \in DOMAIN list : list[i].payment # r.payment
  PROVE  <<r>> \o list \in Seq(S) /\ Distinct(<<r>> \o list)
<1>1. <<r>> \in Seq(S) /\ Len(<<r>>) = 1 /\ <<r>>[1] = r
  OBVIOUS
<1>2. Len(list) \in Nat /\ DOMAIN list = 1..Len(list)
  BY LenProperties
<1> DEFINE longer == <<r>> \o list
<1>3. /\ longer \in Seq(S) /\ Len(longer) = 1 + Len(list)
      /\ \A i \in 1..1 + Len(list) : longer[i] = IF i <= 1 THEN <<r>>[i] ELSE list[i - 1]
  BY <1>1, ConcatProperties
<1>4. DOMAIN longer = 1..1 + Len(list)
  BY <1>3, LenProperties
<1> HIDE DEF longer
<1>5. ASSUME NEW i \in DOMAIN longer PROVE longer[i] = IF i = 1 THEN r ELSE list[i - 1]
  BY <1>1, <1>2, <1>3, <1>4
<1>6. ASSUME NEW i \in DOMAIN longer, i # 1 PROVE i - 1 \in DOMAIN list
  BY <1>2, <1>4, <1>6
<1>7. Distinct(longer)
  <2> SUFFICES ASSUME NEW i \in DOMAIN longer, NEW j \in DOMAIN longer,
                      longer[i].payment = longer[j].payment
               PROVE  i = j
    BY DEF Distinct
  <2>1. CASE i = 1 \/ j = 1
    BY <1>5, <1>6, <2>1
  <2>2. CASE i # 1 /\ j # 1
    <3>1. i - 1 \in DOMAIN list /\ j - 1 \in DOMAIN list /\ list[i - 1].payment = list[j - 1].payment
      BY <1>5, <1>6, <2>2
    <3>2. i \in Nat /\ j \in Nat
      BY <1>2, <1>4
    <3> QED
      BY <3>1, <3>2 DEF Distinct
  <2> QED
    BY <2>1, <2>2
<1> QED
  BY <1>3, <1>7 DEF longer

\* A record takes the place of the one of its payment.
LEMMA InPlaceKeeps ==
  ASSUME NEW S, NEW list \in Seq(S), Distinct(list), NEW r \in S, NEW k \in DOMAIN list,
         list[k].payment = r.payment
  PROVE  [list EXCEPT ![k] = r] \in Seq(S) /\ Distinct([list EXCEPT ![k] = r])
<1>1. Len(list) \in Nat /\ DOMAIN list = 1..Len(list)
  BY LenProperties
<1>2. [list EXCEPT ![k] = r] \in Seq(S)
  BY <1>1, ExceptSeq
<1>3. Distinct([list EXCEPT ![k] = r])
  BY DEF Distinct
<1> QED
  BY <1>2, <1>3

LEMMA MergedKeeps ==
  ASSUME NEW list, OneEach(list), NEW d \in Deliveries
  PROVE  OneEach(Merged(list, d))
<1> DEFINE stored == [payment |-> PaymentOf[d], delivery |-> d]
           known == {i \in DOMAIN list : list[i].payment = PaymentOf[d]}
           k == CHOOSE i \in known : \A j \in known : i <= j
<1>1. stored \in Record
  BY DEF Record
<1>2. stored.payment = PaymentOf[d]
  OBVIOUS
<1>3. CASE known = {}
  <2>1. \A i \in DOMAIN list : list[i].payment # stored.payment
    BY <1>2, <1>3
  <2>2. <<stored>> \o list \in Seq(Record) /\ Distinct(<<stored>> \o list)
    <3> HIDE DEF stored
    <3> QED
      BY <1>1, <2>1, FirstKeeps DEF OneEach
  <2>3. Merged(list, d) = Capped(<<stored>> \o list)
    BY <1>3 DEF Merged
  <2> QED
    BY <2>2, <2>3, CappedKeeps DEF OneEach
<1>4. CASE known # {}
  <2>1. \E i \in known : \A j \in known : i <= j
    <3>1. PICK i \in known : TRUE
      BY <1>4
    <3>2. \A j \in known : j = i
      BY DEF OneEach, Distinct
    <3>3. i \in Nat
      BY LenProperties DEF OneEach
    <3> QED
      BY <3>1, <3>2, <3>3
  <2>2. k \in known
    BY <2>1
  <2>3. [list EXCEPT ![k] = stored] \in Seq(Record) /\ Distinct([list EXCEPT ![k] = stored])
    <3>1. k \in DOMAIN list /\ list[k].payment = stored.payment
      BY <1>2, <2>2
    <3> HIDE DEF stored, k
    <3> QED
      BY <1>1, <3>1, InPlaceKeeps DEF OneEach
  <2>4. Merged(list, d) = Capped([list EXCEPT ![k] = stored])
    BY <1>4 DEF Merged
  <2> QED
    BY <2>3, <2>4, CappedKeeps DEF OneEach
<1> QED
  BY <1>3, <1>4

\* What is in the file, and what a handler is about to write, has a payment's record at most once.
Pcs == {"idle", "read", "open", "write", "append", "forward", "end"}
Lists == {list \in Seq(Record) : OneEach(list)}

CmsInv ==
    /\ file \in [text : {"json", "empty", "garbled"}, records : Lists]
    /\ handler \in [Handlers -> [pc : Pcs, list : Lists]]

LEMMA NothingListed == <<>> \in Lists
BY RecordsAssumption DEF Lists, OneEach, Distinct

LEMMA CmsInitHolds == CmsInit => CmsInv
<1> SUFFICES ASSUME CmsInit PROVE CmsInv
  OBVIOUS
<1> DEFINE listed == [i \in DOMAIN Past |-> [payment |-> PaymentOf[Past[i]], delivery |-> Past[i]]]
<1>1. Len(Past) \in Nat /\ DOMAIN Past = 1..Len(Past) /\ \A i \in DOMAIN Past : Past[i] \in Deliveries
  BY LenProperties, ElementOfSeq, RecordsAssumption
<1>2. listed \in [1..Len(Past) -> Record]
  BY <1>1 DEF Record
<1>3. listed \in Seq(Record) /\ Len(listed) = Len(Past)
  <2> HIDE DEF listed
  <2> QED
    BY <1>1, <1>2, FunctionIsSeq
<1>4. Distinct(listed)
  BY RecordsAssumption DEF Distinct
<1>5. listed \in Lists
  BY <1>3, <1>4, RecordsAssumption DEF OneEach, Lists
<1>6. file \in [text : {"json", "empty", "garbled"}, records : Lists]
  <2>1. file = [text |-> "json", records |-> listed]
    BY DEF CmsInit, Json
  <2> HIDE DEF listed
  <2> QED
    BY <1>5, <2>1
<1>7. handler \in [Handlers -> [pc : Pcs, list : Lists]]
  BY NothingListed DEF CmsInit, Pcs
<1> QED
  BY <1>6, <1>7 DEF CmsInv

\* A handler goes on with its list, or is done, or is gone with the process.
LEMMA HandlerSteps ==
  ASSUME CmsInv, NEW h \in Handlers,
         \/ \E pc \in Pcs : Go(h, pc)
         \/ \E answer : Reply(h, answer)
         \/ Ends(h)
  PROVE  handler' \in [Handlers -> [pc : Pcs, list : Lists]]
<1> USE NothingListed DEF CmsInv, Pcs
<1>1. CASE \E pc \in Pcs : Go(h, pc)
  BY <1>1 DEF Go
<1>2. CASE \E answer : Reply(h, answer)
  BY <1>2 DEF Reply
<1>3. CASE Ends(h)
  BY <1>3 DEF Ends
<1> QED
  BY <1>1, <1>2, <1>3

LEMMA ReadSteps ==
  ASSUME CmsInv, NEW h \in Handlers, Read(h)
  PROVE  CmsInv'
<1>1. UNCHANGED file
  BY DEF Read
<1>2. Changed(h) \in Lists
  <2>1. OneEach(file.records)
    BY DEF CmsInv, Lists
  <2>2. CASE h \in Deletions
    BY <2>1, <2>2, ShiftedKeeps DEF Changed, OneEach, Lists
  <2>3. CASE h \notin Deletions
    BY <2>1, <2>3, MergedKeeps DEF Changed, OneEach, Lists, Handlers
  <2> QED
    BY <2>2, <2>3
<1>3. handler' \in [Handlers -> [pc : Pcs, list : Lists]]
  <2>1. CASE handler' = [handler EXCEPT ![h] = [pc |-> "open", list |-> Changed(h)]]
    BY <1>2, <2>1 DEF CmsInv, Pcs
  <2>2. CASE Reply(h, "error") \/ Ends(h)
    BY <2>2, HandlerSteps
  <2> QED
    BY <2>1, <2>2 DEF Read
<1> QED
  BY <1>1, <1>3 DEF CmsInv

LEMMA FileSteps ==
  ASSUME CmsInv, NEW h \in Handlers, Truncate(h) \/ Write(h)
  PROVE  CmsInv'
<1>1. Go(h, "write") \/ Go(h, "append") \/ Reply(h, "removed")
  BY DEF Truncate, Write
<1>2. handler' \in [Handlers -> [pc : Pcs, list : Lists]]
  BY <1>1, HandlerSteps DEF Pcs
<1>3. handler[h].list \in Lists
  BY DEF CmsInv
<1>4. file' \in {Empty, Garbled, Json(handler[h].list)}
  BY DEF Truncate, Write
<1>5. file' \in [text : {"json", "empty", "garbled"}, records : Lists]
  BY <1>3, <1>4, NothingListed DEF Empty, Garbled, Json
<1> QED
  BY <1>2, <1>5 DEF CmsInv

\* The steps that do not touch the file.
LEMMA RequestSteps ==
  ASSUME CmsInv,
         \/ \E d \in Deliveries : Receive(d) \/ LogEvent(d) \/ Forward(d)
         \/ \E x \in Deletions : RequestDeletion(x)
         \/ CmsRestart
  PROVE  CmsInv'
<1>1. UNCHANGED file
  BY DEF Receive, LogEvent, Forward, RequestDeletion, CmsRestart
<1>2. PICK h \in Handlers : (\E pc \in Pcs : Go(h, pc)) \/ (\E answer : Reply(h, answer)) \/ Ends(h)
  <2>1. ASSUME NEW d \in Deliveries, Receive(d) \/ LogEvent(d) \/ Forward(d)
        PROVE  (\E pc \in Pcs : Go(d, pc)) \/ (\E answer : Reply(d, answer)) \/ Ends(d)
    <3>1. \/ Go(d, "read") \/ Go(d, "forward")
          \/ Reply(d, "refused") \/ Reply(d, "stored")
          \/ Ends(d)
      BY <2>1 DEF Receive, CutOff, Unsigned, NotAPayment, LogEvent, Forward
    <3> QED
      BY <3>1, Zenon DEF Pcs
  <2>2. ASSUME NEW x \in Deletions, RequestDeletion(x)
        PROVE  (\E pc \in Pcs : Go(x, pc)) \/ (\E answer : Reply(x, answer))
    <3>1. Go(x, "read") \/ Reply(x, "refused")
      BY <2>2 DEF RequestDeletion
    <3> QED
      BY <3>1, Zenon DEF Pcs
  <2>3. CASE CmsRestart
    BY <2>3 DEF CmsRestart
  <2> QED
    BY <2>1, <2>2, <2>3 DEF Handlers
<1>3. handler' \in [Handlers -> [pc : Pcs, list : Lists]]
  BY <1>2, HandlerSteps
<1> QED
  BY <1>1, <1>3 DEF CmsInv

LEMMA CmsInvariant == Spec => []CmsInv
<1>1. Init => CmsInv
  BY CmsInitHolds DEF Init
<1>2. CmsInv /\ [Next]_webVars => CmsInv'
  <2> SUFFICES ASSUME CmsInv, [Next]_webVars PROVE CmsInv'
    OBVIOUS
  <2>1. CASE CmsNext
    BY <2>1, RequestSteps, ReadSteps, FileSteps DEF CmsNext
  <2>2. CASE UNCHANGED cmsVars
    BY <2>2 DEF cmsVars, CmsInv
  <2> QED
    BY <2>1, <2>2 DEF Next, webVars
<1> QED
  BY <1>1, <1>2, PTL DEF Spec

\* However webhooks, deletions and restarts overlap, payments.json holds one record of a payment and
\* no more than its limit (server.js:216).
THEOREM RecordsUnique == Spec => []RecordsAreUnique
<1>1. CmsInv => RecordsAreUnique
  <2> SUFFICES ASSUME CmsInv PROVE RecordsAreUnique
    OBVIOUS
  <2>1. Distinct(file.records) /\ Len(file.records) <= MaxRecords
    BY DEF CmsInv, Lists, OneEach
  <2>2. IsInjective([i \in DOMAIN file.records |-> file.records[i].payment])
    BY <2>1 DEF Distinct, IsInjective
  <2> QED
    BY <2>1, <2>2 DEF RecordsAreUnique
<1> QED
  BY <1>1, CmsInvariant, PTL

----------------------------------------------------------------------------
(* The exports *)

\* An attempt past its writing has left a file, and a row that offers a download names one.
ExportRow == [status : {"queued", "running", "completed", "failed"}, attempt : Nat]

DownloadInv ==
    /\ files \in [DOMAIN files -> ExportRow]
    /\ \A t \in tokens : t.attempts \in Nat
    /\ \A w \in running :
         /\ w.attempt \in Nat
         /\ w.step # "started" => <<w.id, w.attempt>> \in disk
    /\ DownloadIsThere

LEMMA ExportInitHolds == ExportInit => DownloadInv
BY DEF ExportInit, DownloadInv, DownloadIsThere, Nobody

LEMMA RowStored ==
  ASSUME DownloadInv, NEW e, files' = Stored(e), UNCHANGED <<disk, running>>,
         \A t \in tokens' : t.attempts \in Nat
  PROVE  DownloadInv'
<1>1. files' \in [DOMAIN files' -> ExportRow]
  BY DEF DownloadInv, Stored, ExportRow
<1>2. DownloadIsThere'
  BY DEF DownloadInv, DownloadIsThere, Stored
<1> QED
  BY <1>1, <1>2 DEF DownloadInv

\* A row gets a status that offers nothing.
LEMMA RowMarked ==
  ASSUME DownloadInv, NEW e, NEW s \in {"running", "failed"}, files' = [files EXCEPT ![e].status = s],
         disk' = disk
  PROVE  files' \in [DOMAIN files' -> ExportRow] /\ DownloadIsThere'
<1>1. files' \in [DOMAIN files' -> ExportRow]
  BY DEF DownloadInv, ExportRow
<1>2. DownloadIsThere'
  BY DEF DownloadInv, DownloadIsThere, ExportRow
<1> QED
  BY <1>1, <1>2

\* The page's steps and the list's touch nothing of the exports.
LEMMA ExportPageSteps ==
  ASSUME DownloadInv,
         \/ AskList \/ StartExport \/ PollNext
         \/ \E a \in answered : BoardAnswered(a)
         \/ \E r \in inbox : ServeList(r)
         \/ \E r \in inbox \union answered : VisitLost(r)
         \/ PollLost
  PROVE  DownloadInv'
<1>1. PollNext \/ PollLost => UNCHANGED queue
  BY DEF PollNext, PollTick, NewPoll, PollServed, Answered, BoardRefreshed, PollLost
<1>2. ~(PollNext \/ PollLost) => UNCHANGED queue
  BY DEF AskList, StartExport, BoardAnswered, ServeList, VisitLost, exportVars
<1> QED
  BY <1>1, <1>2 DEF queue, DownloadInv, DownloadIsThere

LEMMA ExportRequestSteps ==
  ASSUME DownloadInv, NEW r, ExportMerchants(r) \/ DispatchFails(r)
  PROVE  DownloadInv'
<1>1. files' = Stored(NextExport) /\ UNCHANGED <<disk, running>>
  BY DEF ExportMerchants, DispatchFails
<1>2. \A t \in tokens' : t.attempts \in Nat
  <2> DEFINE token == [id |-> NextExport, attempts |-> 0, at |-> "ready"]
  <2>1. tokens' \subseteq tokens \union {token} /\ token.attempts = 0
    BY DEF ExportMerchants, DispatchFails
  <2> QED
    BY <2>1 DEF DownloadInv
<1> QED
  BY <1>1, <1>2, RowStored

\* A worker takes a payload.
LEMMA TokenSteps ==
  ASSUME DownloadInv, NEW t \in tokens, StartAttempt(t) \/ RefuseAttempt(t)
  PROVE  DownloadInv'
<1> USE DEF DownloadInv
<1>1. CASE StartAttempt(t)
  <2> DEFINE w == [id |-> t.id, attempt |-> t.attempts + 1, step |-> "started", loaded |-> ""]
  <2>1. /\ running' = running \union {w} /\ disk' = disk
        /\ tokens' = (tokens \ {t}) \union {Reserved(w)}
        /\ files' = [files EXCEPT ![t.id].status = "running"]
    BY <1>1, Zenon DEF StartAttempt
  <2>4. w.attempt = t.attempts + 1 /\ w.attempt \in Nat /\ w.step = "started" /\ Reserved(w).attempts = w.attempt
    BY DEF Reserved
  <2> HIDE DEF w
  <2>2. \A u \in tokens' : u.attempts \in Nat
    BY <2>1, <2>4
  <2>3. files' \in [DOMAIN files' -> ExportRow] /\ DownloadIsThere'
    BY <2>1, RowMarked
  <2> QED
    BY <2>1, <2>2, <2>3, <2>4
<1>2. CASE RefuseAttempt(t)
  <2>1. UNCHANGED <<disk, running>> /\ files' = [files EXCEPT ![t.id].status = "failed"] /\ tokens' \subseteq tokens
    BY <1>2 DEF RefuseAttempt
  <2>2. files' \in [DOMAIN files' -> ExportRow] /\ DownloadIsThere'
    BY <2>1, RowMarked
  <2> QED
    BY <2>1, <2>2
<1> QED
  BY <1>1, <1>2

\* An attempt goes on: it writes its file before it names it in the row.
LEMMA AttemptSteps ==
  ASSUME DownloadInv, NEW w \in running, Generate(w) \/ Complete(w) \/ MailSent(w)
  PROVE  DownloadInv'
<1> USE DEF DownloadInv
<1>1. CASE Generate(w)
  <2> DEFINE v == [w EXCEPT !.step = "written", !.loaded = files[w.id].status]
  <2>1. /\ disk' = disk \union {<<w.id, w.attempt>>} /\ UNCHANGED <<files, tokens>>
        /\ running' = (running \ {w}) \union {v}
    BY <1>1 DEF Generate, Goes
  <2>2. v.id = w.id /\ v.attempt = w.attempt
    OBVIOUS
  <2> QED
    BY <2>1, <2>2 DEF DownloadIsThere
<1>2. CASE Complete(w)
  <2> DEFINE v == [w EXCEPT !.step = "completed", !.loaded = ""]
  <2>1. /\ UNCHANGED <<disk, tokens>> /\ w.step = "written"
        /\ running' = (running \ {w}) \union {v}
        /\ files' = [files EXCEPT ![w.id] =
                   [status |-> IF w.loaded = "completed" THEN @.status ELSE "completed", attempt |-> w.attempt]]
    BY <1>2 DEF Complete, Goes
  <2>2. v.id = w.id /\ v.attempt = w.attempt
    OBVIOUS
  <2>3. <<w.id, w.attempt>> \in disk
    BY <2>1
  <2>4. files' \in [DOMAIN files' -> ExportRow]
    BY <2>1 DEF ExportRow
  <2>5. DownloadIsThere'
    <3> SUFFICES ASSUME NEW e \in DOMAIN files', files'[e].status = "completed"
                 PROVE  <<e, files'[e].attempt>> \in disk'
      BY DEF DownloadIsThere
    <3>1. CASE e = w.id
      BY <2>1, <2>3, <3>1
    <3>2. CASE e # w.id
      BY <2>1, <3>2 DEF DownloadIsThere
    <3> QED
      BY <3>1, <3>2
  <2> QED
    BY <2>1, <2>2, <2>3, <2>4, <2>5
<1>3. CASE MailSent(w)
  BY <1>3 DEF MailSent, DownloadIsThere
<1> QED
  BY <1>1, <1>2, <1>3

\* An attempt ends before its time: its file stays, and its row offers no other.
LEMMA FailedAttemptSteps ==
  ASSUME DownloadInv, NEW w \in running, AttemptThrows(w) \/ WorkerDies(w)
  PROVE  DownloadInv'
<1> USE DEF DownloadInv
<1>1. running' \subseteq running /\ disk' = disk
  BY DEF AttemptThrows, WorkerDies
<1>2. \A t \in tokens' : t.attempts \in Nat
  BY DEF AttemptThrows, WorkerDies, GivesUp, Releases, Reserved
<1>3. files' = files \/ files' = [files EXCEPT ![w.id].status = "failed"]
  BY DEF AttemptThrows, WorkerDies, GivesUp, Releases
<1>4. files' \in [DOMAIN files' -> ExportRow] /\ DownloadIsThere'
  BY <1>1, <1>3, RowMarked DEF DownloadIsThere
<1> QED
  BY <1>1, <1>2, <1>4

LEMMA ExportInvariant == Spec => []DownloadInv
<1>1. Init => DownloadInv
  BY ExportInitHolds DEF Init
<1>2. DownloadInv /\ [Next]_webVars => DownloadInv'
  <2> SUFFICES ASSUME DownloadInv, [Next]_webVars PROVE DownloadInv'
    OBVIOUS
  <2>1. CASE ExportNext
    BY <2>1, ExportPageSteps, ExportRequestSteps, TokenSteps, AttemptSteps, FailedAttemptSteps DEF ExportNext, WorkerNext
  <2>2. CASE UNCHANGED exportVars
    BY <2>2 DEF exportVars, queue, DownloadInv, DownloadIsThere
  <2> QED
    BY <2>1, <2>2 DEF Next, webVars, pageVars
<1> QED
  BY <1>1, <1>2, PTL DEF Spec

\* A row that offers a download names a file that was written to the end, for any number of
\* workers, attempts that overlap and faults (MerchantPaymentsExportJob.php:64).
THEOREM FileIsThere == Spec => []DownloadIsThere
<1>1. DownloadInv => DownloadIsThere
  BY DEF DownloadInv
<1> QED
  BY <1>1, ExportInvariant, PTL

----------------------------------------------------------------------------
(* The shop *)

ChargedFor(paid, items) ==
    /\ paid.status # "none"
    /\ paid.amount = Quantity(items) /\ paid.price = Total(items)

\* A list of orders: payments whose calls are over, each once and charged for.
InOrder(list, made, paid) ==
    /\ list \in Seq({list[i] : i \in DOMAIN list})
    /\ \A i, j \in DOMAIN list : list[i].id = list[j].id => i = j
    /\ \A i \in DOMAIN list :
         /\ list[i].id \in Payments
         /\ made[list[i].id].pc = "over"
         /\ ChargedFor(paid[list[i].id], list[i].items)

IsCall(call) == {"pc", "items", "own"} \subseteq DOMAIN call

ShopInv ==
    /\ DOMAIN payment = Payments /\ DOMAIN calls = Payments
    /\ \A p \in Payments : IsCall(calls[p])
    /\ \A p \in Payments : calls[p].pc = "created" => ChargedFor(payment[p], calls[p].items)
    /\ InOrder(orders, calls, payment) /\ InOrder(saved.orders, calls, payment)

LEMMA RestIsKept ==
  ASSUME NEW call, IsCall(call)
  PROVE  LET disowned == [call EXCEPT !.own = FALSE]
         IN  IsCall(disowned) /\ disowned.pc = call.pc /\ disowned.items = call.items
BY DEF IsCall

LEMMA NoCallIsCall ==
  LET over == [NoCall EXCEPT !.pc = "over"]
  IN  IsCall(NoCall) /\ NoCall.pc = "idle" /\ IsCall(over) /\ over.pc = "over"
BY DEF IsCall, NoCall

LEMMA NothingInOrder == \A made, paid : InOrder(<<>>, made, paid)
BY DEF InOrder

LEMMA ShopInitHolds == ShopInit => ShopInv
<1> SUFFICES ASSUME ShopInit PROVE ShopInv
  OBVIOUS
<1>1. orders = <<>> /\ saved.orders = <<>>
  BY DEF ShopInit
<1>2. /\ calls = [p \in Payments |-> NoCall] /\ DOMAIN payment = Payments
      /\ NoCall.pc = "idle" /\ IsCall(NoCall)
  BY NoCallIsCall DEF ShopInit
<1> QED
  BY <1>1, <1>2, NothingInOrder DEF ShopInv

\* What is listed stays in order while no call that is over begins again and no charge changes.
LEMMA StillInOrder ==
  ASSUME NEW list, NEW made, NEW paid, InOrder(list, made, paid), NEW made2, NEW paid2,
         \A p \in Payments : made[p].pc = "over" => made2[p].pc = "over",
         \A p \in Payments : made[p].pc = "over" /\ paid[p].status # "none" =>
             /\ paid2[p].status # "none"
             /\ paid2[p].amount = paid[p].amount /\ paid2[p].price = paid[p].price
  PROVE  InOrder(list, made2, paid2)
BY DEF InOrder, ChargedFor

\* The cart, the dialogue and the timers.
LEMMA ShopPageSteps ==
  ASSUME ShopInv,
         \/ \E x \in Products : AddToCart(x) \/ UpdateQuantity(x, 1) \/ UpdateQuantity(x, -1) \/ RemoveFromCart(x) \/ BuyNow(x)
         \/ ClearCart \/ ToggleCart \/ CheckoutCart \/ ShowProducts \/ ShowOrders
         \/ \E p \in Payments, v \in Visits : TimerFires(p, v) \/ ShowPayment(p, v) \/ PollFails(p, v)
  PROVE  ShopInv'
<1>1. UNCHANGED <<orders, calls, saved, payment>>
  BY DEF AddToCart, UpdateQuantity, RemoveFromCart, BuyNow, ClearCart, ToggleCart, CheckoutCart, ShowProducts,
         ShowOrders, TimerFires, ShowPayment, PollFails, Behind, page
<1> QED
  BY <1>1 DEF ShopInv

\* A call is begun, disowned, or over without an order.
LEMMA CallSteps ==
  ASSUME ShopInv, CloseDialogue \/ \E p \in Payments : Confirm(p) \/ CallFails(p)
  PROVE  ShopInv'
<1> USE DEF ShopInv
<1>1. UNCHANGED <<orders, saved, payment>>
  BY DEF CloseDialogue, Confirm, CallFails
<1> DEFINE Kept(made) ==
             /\ DOMAIN made = Payments
             /\ \A p \in Payments :
                  /\ IsCall(made[p])
                  /\ calls[p].pc = "over" => made[p].pc = "over"
                  /\ made[p].pc = "created" => calls[p].pc = "created" /\ made[p].items = calls[p].items
<1>2. Kept(calls')
  <2>1. CASE CloseDialogue
    <3>1. calls' = [p \in Payments |-> [calls[p] EXCEPT !.own = FALSE]]
      BY <2>1 DEF CloseDialogue, Disowned
    <3> QED
      BY <3>1, RestIsKept
  <2>2. ASSUME NEW p \in Payments, Confirm(p) PROVE Kept(calls')
    <3>1. PICK call \in {[pc |-> "asked", items |-> dialogue.items, own |-> TRUE]} : calls' = [calls EXCEPT ![p] = call]
      BY <2>2 DEF Confirm
    <3>2. calls[p].pc # "over" /\ IsCall(call) /\ call.pc # "created"
      BY <2>2, <3>1, NoCallIsCall DEF Confirm, IsCall
    <3> QED
      BY <3>1, <3>2
  <2>3. ASSUME NEW p \in Payments, CallFails(p) PROVE Kept(calls')
    BY <2>3, NoCallIsCall DEF CallFails, Over
  <2> QED
    BY <2>1, <2>2, <2>3
<1>3. InOrder(orders, calls', payment) /\ InOrder(saved.orders, calls', payment)
  BY <1>2, StillInOrder
<1> QED
  BY <1>1, <1>2, <1>3

\* The payment is created for what was asked; it was listed nowhere.
LEMMA CreateStep ==
  ASSUME ShopInv, NEW p \in Payments, Create(p)
  PROVE  ShopInv'
<1> USE DEF ShopInv
<1> DEFINE new == [status |-> "PENDING", amount |-> Quantity(calls[p].items), price |-> Total(calls[p].items)]
<1>1. /\ UNCHANGED <<orders, saved>>
      /\ calls[p].pc = "asked"
      /\ calls' = [calls EXCEPT ![p].pc = "created"]
      /\ payment' = [payment EXCEPT ![p] = new]
  BY DEF Create, page
<1>2. ChargedFor(new, calls[p].items)
  BY DEF ChargedFor
<1> HIDE DEF new
<1>3. /\ DOMAIN payment' = Payments /\ DOMAIN calls' = Payments
      /\ payment'[p] = new /\ calls'[p].items = calls[p].items /\ IsCall(calls'[p])
      /\ \A q \in Payments \ {p} : payment'[q] = payment[q] /\ calls'[q] = calls[q]
  BY <1>1 DEF IsCall
<1>4. InOrder(orders, calls', payment') /\ InOrder(saved.orders, calls', payment')
  BY <1>1, <1>3, StillInOrder
<1> QED
  BY <1>1, <1>2, <1>3, <1>4

\* A payment is settled: what was charged stays.
LEMMA SettleStep ==
  ASSUME ShopInv, NEW p \in Payments, Settle(p)
  PROVE  ShopInv'
<1> USE DEF ShopInv
<1>1. UNCHANGED <<orders, saved, calls>>
  BY DEF Settle, page
<1>2. PICK s \in PaymentStatus : payment' = [payment EXCEPT ![p].status = s]
  BY DEF Settle
<1>3. /\ DOMAIN payment' = Payments
      /\ \A q \in Payments : /\ payment'[q].amount = payment[q].amount /\ payment'[q].price = payment[q].price
                             /\ payment[q].status # "none" => payment'[q].status # "none"
  BY <1>2 DEF PaymentStatus
<1>4. InOrder(orders, calls, payment') /\ InOrder(saved.orders, calls, payment')
  BY <1>3, StillInOrder
<1> QED
  BY <1>1, <1>3, <1>4 DEF ChargedFor

\* The order of a call that succeeds comes first: its payment was in no list.
LEMMA SuccessStep ==
  ASSUME ShopInv, NEW p \in Payments, HandleSuccess(p)
  PROVE  ShopInv'
<1> USE DEF ShopInv
<1> DEFINE order == [id |-> p, status |-> "PENDING", items |-> calls[p].items]
<1>1. /\ UNCHANGED <<saved, payment>>
      /\ calls[p].pc = "created"
      /\ orders' = <<order>> \o orders
      /\ calls' = [Disowned EXCEPT ![p] = [NoCall EXCEPT !.pc = "over"]]
  BY DEF HandleSuccess, Remembered
<1>2. /\ DOMAIN calls' = Payments /\ calls'[p].pc = "over" /\ IsCall(calls'[p])
      /\ \A q \in Payments \ {p} :
           IsCall(calls'[q]) /\ calls'[q].pc = calls[q].pc /\ calls'[q].items = calls[q].items
  <2>1. /\ DOMAIN Disowned = Payments
        /\ \A q \in Payments :
             IsCall(Disowned[q]) /\ Disowned[q].pc = calls[q].pc /\ Disowned[q].items = calls[q].items
    BY RestIsKept DEF Disowned
  <2>2. DOMAIN calls' = Payments /\ calls'[p] = [NoCall EXCEPT !.pc = "over"]
    BY <1>1, <2>1
  <2>3. \A q \in Payments \ {p} : calls'[q] = Disowned[q]
    BY <1>1, <2>1
  <2> QED
    BY <2>1, <2>2, <2>3, NoCallIsCall
<1>3. InOrder(orders, calls', payment) /\ InOrder(saved.orders, calls', payment)
  BY <1>2, StillInOrder
<1>4. ChargedFor(payment[p], order.items) /\ order.id = p
  BY <1>1
<1>5. \A i \in DOMAIN orders : orders[i].id # p
  BY <1>1 DEF InOrder
<1> HIDE DEF order
<1>6. InOrder(<<order>> \o orders, calls', payment)
  <2> DEFINE S == {order} \union {orders[i] : i \in DOMAIN orders}
             longer == <<order>> \o orders
  <2>1. orders \in Seq(S) /\ <<order>> \in Seq(S) /\ Len(<<order>>) = 1 /\ <<order>>[1] = order
    <3>1. orders \in Seq({orders[i] : i \in DOMAIN orders})
      BY DEF InOrder
    <3> QED
      BY <3>1, SeqMonotonic
  <2> HIDE DEF S
  <2>2. /\ longer \in Seq(S) /\ Len(longer) = 1 + Len(orders) /\ Len(orders) \in Nat
        /\ DOMAIN orders = 1..Len(orders)
        /\ \A i \in 1..1 + Len(orders) : longer[i] = IF i <= 1 THEN <<order>>[i] ELSE orders[i - 1]
    BY <2>1, ConcatProperties, LenProperties
  <2>3. DOMAIN longer = 1..1 + Len(orders)
    BY <2>2, LenProperties
  <2> HIDE DEF longer
  <2>4. ASSUME NEW i \in DOMAIN longer PROVE longer[i] = IF i = 1 THEN order ELSE orders[i - 1]
    BY <2>1, <2>2, <2>3
  <2>5. ASSUME NEW i \in DOMAIN longer, i # 1 PROVE i - 1 \in DOMAIN orders
    BY <2>2, <2>3, <2>5
  <2>6. longer \in Seq({longer[i] : i \in DOMAIN longer})
    <3> DEFINE R == {longer[i] : i \in DOMAIN longer}
    <3>1. longer \in [1..1 + Len(orders) -> R]
      BY <2>2, <2>3, LenProperties
    <3> HIDE DEF R
    <3>2. longer \in Seq(R)
      BY <2>2, <3>1, FunctionIsSeq
    <3> QED
      BY <3>2 DEF R
  <2>7. \A i, j \in DOMAIN longer : longer[i].id = longer[j].id => i = j
    <3> SUFFICES ASSUME NEW i \in DOMAIN longer, NEW j \in DOMAIN longer, longer[i].id = longer[j].id
                 PROVE  i = j
      OBVIOUS
    <3>1. CASE i = 1 \/ j = 1
      BY <1>4, <1>5, <2>4, <2>5, <3>1
    <3>2. CASE i # 1 /\ j # 1
      <4>1. i - 1 \in DOMAIN orders /\ j - 1 \in DOMAIN orders /\ orders[i - 1].id = orders[j - 1].id
        BY <2>4, <2>5, <3>2
      <4>2. i \in Nat /\ j \in Nat
        BY <2>2, <2>3
      <4>3. i - 1 = j - 1
        BY <4>1 DEF InOrder
      <4> QED
        BY <4>2, <4>3
    <3> QED
      BY <3>1, <3>2
  <2>8. ASSUME NEW i \in DOMAIN longer
        PROVE  /\ longer[i].id \in Payments
               /\ calls'[longer[i].id].pc = "over"
               /\ ChargedFor(payment[longer[i].id], longer[i].items)
    <3>1. CASE i = 1
      BY <1>2, <1>4, <2>4, <3>1
    <3>2. CASE i # 1
      BY <1>3, <2>4, <2>5, <3>2 DEF InOrder
    <3> QED
      BY <3>1, <3>2
  <2>9. InOrder(longer, calls', payment)
    BY <2>6, <2>7, <2>8 DEF InOrder
  <2> QED
    BY <2>9 DEF longer
<1> QED
  BY <1>1, <1>2, <1>3, <1>6

\* An answer changes what is shown of an order, and nothing else of it.
LEMMA PollStep ==
  ASSUME ShopInv, NEW p \in Payments, NEW v \in Visits, PollAnswered(p, v)
  PROVE  ShopInv'
<1> USE DEF ShopInv
<1> DEFINE shown == [i \in DOMAIN orders |-> IF orders[i].id = p THEN [orders[i] EXCEPT !.status = poll[p][v]] ELSE orders[i]]
<1>1. UNCHANGED <<saved, calls, payment>> /\ orders' = shown
  BY DEF PollAnswered
<1>2. /\ DOMAIN shown = DOMAIN orders
      /\ \A i \in DOMAIN orders : shown[i].id = orders[i].id /\ shown[i].items = orders[i].items
      /\ shown = [i \in DOMAIN shown |-> shown[i]]
  OBVIOUS
<1> HIDE DEF shown
<1>3. InOrder(shown, calls, payment)
  <2>1. Len(orders) \in Nat /\ DOMAIN shown = 1..Len(orders)
    BY <1>2, LenProperties DEF InOrder
  <2>2. shown \in [1..Len(orders) -> {shown[i] : i \in DOMAIN shown}]
    BY <1>2, <2>1
  <2>3. shown \in Seq({shown[i] : i \in DOMAIN shown})
    BY <2>1, <2>2, FunctionIsSeq
  <2> QED
    BY <1>2, <2>3 DEF InOrder
<1> QED
  BY <1>1, <1>3

\* The state is copied to localStorage, lost with the page, and read again.
LEMMA StorageSteps ==
  ASSUME ShopInv, Persist \/ Unload \/ Load
  PROVE  ShopInv'
<1> USE DEF ShopInv
<1>1. CASE Persist
  BY <1>1 DEF Persist, page
<1>2. CASE Load
  BY <1>2 DEF Load
<1>3. CASE Unload
  <2>1. UNCHANGED <<saved, payment>> /\ orders' = <<>>
    BY <1>3 DEF Unload
  <2>2. /\ DOMAIN calls' = Payments
        /\ \A p \in Payments : /\ IsCall(calls'[p]) /\ calls'[p].pc # "created"
                               /\ calls[p].pc = "over" => calls'[p].pc = "over"
    BY <1>3, NoCallIsCall DEF Unload
  <2>3. InOrder(saved.orders, calls', payment)
    BY <2>2, StillInOrder
  <2> QED
    BY <2>1, <2>2, <2>3, NothingInOrder
<1> QED
  BY <1>1, <1>2, <1>3

LEMMA ShopInvariant == Spec => []ShopInv
<1>1. Init => ShopInv
  BY ShopInitHolds DEF Init
<1>2. ShopInv /\ [Next]_webVars => ShopInv'
  <2> SUFFICES ASSUME ShopInv, [Next]_webVars PROVE ShopInv'
    OBVIOUS
  <2>1. CASE ShopNext
    BY <2>1, ShopPageSteps, CallSteps, CreateStep, SettleStep, SuccessStep, PollStep, StorageSteps
       DEF ShopNext, Customer, Polling
  <2>2. CASE UNCHANGED shopVars
    BY <2>2 DEF shopVars, ShopInv
  <2> QED
    BY <2>1, <2>2 DEF Next, webVars
<1> QED
  BY <1>1, <1>2, PTL DEF Spec

\* Every order the shop remembers is a payment that was created for what the customer confirmed, and
\* is listed once, for any cart, dialogues, reloads and answers (CheckoutModal.jsx).
THEOREM ChargedAsConfirmed == Spec => []OrderIsWhatWasCharged
<1>1. ShopInv => OrderIsWhatWasCharged
  <2> SUFFICES ASSUME ShopInv PROVE OrderIsWhatWasCharged
    OBVIOUS
  <2>1. IsInjective([i \in DOMAIN orders |-> orders[i].id])
    BY DEF ShopInv, InOrder, IsInjective
  <2> QED
    BY <2>1 DEF ShopInv, InOrder, ChargedFor, OrderIsWhatWasCharged
<1> QED
  BY <1>1, ShopInvariant, PTL
=============================================================================
