------------------------- MODULE EmailNotifications -------------------------
(***************************************************************************)
(* The e-mails a merchant asks for: the scan of recent events, which runs  *)
(* every five minutes (EmailNotificationService), one job per e-mail       *)
(* (SendEmailNotificationJob), the merchant's page of settings             *)
(* (Pages/Notifications/Index.jsx) and the admin's defaults.  One          *)
(* merchant; the environment and the least amount are part of what makes   *)
(* an event occur, and a template's wording is left out.                   *)
(***************************************************************************)
EXTENDS Integers, FiniteSets

CONSTANTS
    Events,         \* the types of events a merchant can tick
    Sendable,       \* those of them that are ever sent
    Occasions,      \* payments and attempts, each with one event
    EventOf,        \* the event of an occasion
    Mailboxes, Own, \* addresses, and that of the merchant's account
    Limits,         \* what the admin may choose for the two limits
    MaxSaves,       \* bound: saves by the merchant and by the admin
    MaxScanFaults   \* bound: scans that fail or are killed

VARIABLES
    happened,       \* occasions: not yet, within the last fourteen days, or before
    merchant,       \* the merchant's rows: setting, recipients, preferences
    admin,          \* the admin's settings, with the defaults merged in
    scan,           \* the scan: its step, and what it has read
    mails,          \* email_notification_deliveries, by occasion and recipient
    mailJobs,       \* their jobs
    mailed,         \* how often each was mailed
    noteForm,       \* the merchant's page, and the request it has under way
    saves, scanFaults,
    torn            \* history: mailed by an attempt that did not record it

mailVars == <<happened, merchant, admin, scan, mails, mailJobs, mailed, noteForm, saves, scanFaults, torn>>
settingVars == <<happened, merchant, admin, noteForm, saves>>
jobVars == <<mailJobs, mailed, torn>>

Mails == Occasions \X Mailboxes
MailTries == 3
Absent == [status |-> "none", attempts |-> 0]

\* What the form holds matters once it is sent.
OpenForm == [pc |-> "open", enabled |-> TRUE, recipients |-> {}, events |-> {}]

MailInit ==
    /\ happened = [o \in Occasions |-> "not yet"]
    /\ merchant = [setting |-> "none", recipients |-> {}, prefs |-> [e \in Events |-> "none"]]
    /\ admin = [enabled |-> TRUE, most |-> 2, tries |-> 3, events |-> Sendable]
    /\ scan = [pc |-> "idle", mutex |-> FALSE, todo |-> {}, occasion |-> {}, left |-> {}, mail |-> {}]
    /\ mails = [m \in Mails |-> Absent]
    /\ mailJobs = [m \in Mails |-> [at |-> "none", tries |-> 0, struck |-> FALSE]]
    /\ mailed = [m \in Mails |-> 0]
    /\ noteForm = OpenForm
    /\ saves = 0 /\ scanFaults = 0 /\ torn = {}

\* A payment ends, stays pending too long, or an attempt times out; fourteen days pass.
Occur(o) ==
    /\ happened[o] # "long ago"
    /\ happened' = [happened EXCEPT ![o] = IF @ = "not yet" THEN "recent" ELSE "long ago"]
    /\ UNCHANGED <<merchant, admin, scan, mails, jobVars, noteForm, saves, scanFaults>>

----------------------------------------------------------------------------
(* Settings *)

\* ensureMerchantDefaults: rows are added where there are none.
WithSetting(m) == [m EXCEPT !.setting = IF @ = "none" THEN "on" ELSE @]
WithRecipient(m) == [m EXCEPT !.recipients = IF @ = {} THEN {Own} ELSE @]
WithPreferences(m) ==
    [m EXCEPT !.prefs = [e \in Events |->
        IF @[e] # "none" THEN @[e] ELSE IF e \in admin.events THEN "on" ELSE "off"]]
WithDefaults(m) == WithPreferences(WithRecipient(WithSetting(m)))

\* index: the page shows the rows, and its form starts from them.
OpenNotifications ==
    /\ noteForm.pc = "open"
    /\ merchant' = WithDefaults(merchant)
    /\ UNCHANGED <<happened, admin, noteForm, scan, mails, jobVars, saves, scanFaults>>

\* submit: whatever the boxes and fields were changed to, by setData; the button for another
\* recipient is disabled at the limit, and that for saving while the request runs.
SaveNotifications ==
    /\ noteForm.pc = "open"
    /\ saves < MaxSaves /\ saves' = saves + 1
    /\ \E enabled \in BOOLEAN, recipients \in SUBSET Mailboxes, events \in SUBSET Events :
         noteForm' = [pc |-> "saving", enabled |-> enabled, recipients |-> recipients, events |-> events]
    /\ UNCHANGED <<happened, merchant, admin, scan, mails, jobVars, scanFaults>>

\* updateMerchantSettings: one transaction, which keeps as many recipients as the limit allows.
UpdateMerchantSettings ==
    /\ noteForm.pc = "saving"
    /\ \E kept \in SUBSET noteForm.recipients :
         /\ kept = noteForm.recipients \/ Cardinality(kept) = admin.most
         /\ Cardinality(kept) <= admin.most
         /\ merchant' = [setting |-> IF noteForm.enabled THEN "on" ELSE "off", recipients |-> kept,
                         prefs |-> [e \in Events |-> IF e \in noteForm.events THEN "on" ELSE "off"]]
    /\ noteForm' = [OpenForm EXCEPT !.pc = "back"]
    /\ UNCHANGED <<happened, admin, scan, mails, jobVars, saves, scanFaults>>

\* back() shows the page anew.
ShowSettings ==
    /\ noteForm.pc = "back"
    /\ merchant' = WithDefaults(merchant)
    /\ noteForm' = OpenForm
    /\ UNCHANGED <<happened, admin, scan, mails, jobVars, saves, scanFaults>>

\* A request that is refused or lost, before or after the rows were stored.
SaveFails ==
    /\ noteForm.pc \in {"saving", "back"}
    /\ noteForm' = OpenForm
    /\ UNCHANGED <<happened, merchant, admin, scan, mails, jobVars, saves, scanFaults>>

\* updateSettings: array_replace_recursive, so that no default event is ever taken back.
UpdateGlobalSettings ==
    /\ saves < MaxSaves /\ saves' = saves + 1
    /\ \E enabled \in BOOLEAN, most, tries \in Limits, ticked \in SUBSET Events :
         admin' = [enabled |-> enabled, most |-> most, tries |-> tries, events |-> admin.events \union ticked]
    /\ UNCHANGED <<happened, merchant, scan, mails, jobVars, noteForm, scanFaults>>

----------------------------------------------------------------------------
(* The scan: each step is a statement of its own, and a save may come between two. *)

Scanning(pc, next) == scan.pc = pc /\ scan' = next /\ UNCHANGED <<happened, admin, noteForm, saves, scanFaults, jobVars>>
Skipped == [scan EXCEPT !.pc = "scanning"]
ScanAt(pc) == [scan EXCEPT !.pc = pc]

\* withoutOverlapping: the mutex is kept for a day if the scheduler is killed.
StartScan ==
    /\ ~scan.mutex
    /\ Scanning("idle", [scan EXCEPT !.pc = "scanning", !.mutex = TRUE,
                                     !.todo = {o \in Occasions : happened[o] = "recent"}])
    /\ UNCHANGED <<merchant, mails>>

\* queueForPayment, one occasion after another.
ScanOccasion ==
    /\ \E o \in scan.todo :
         Scanning("scanning", [scan EXCEPT !.pc = IF EventOf[o] \in Sendable /\ admin.enabled THEN "setting" ELSE @,
                                           !.todo = @ \ {o}, !.occasion = {o}])
    /\ UNCHANGED <<merchant, mails>>

EnsureSetting ==
    /\ Scanning("setting", ScanAt(IF merchant.recipients = {} THEN "recipient" ELSE "preferences"))
    /\ merchant' = WithSetting(merchant)
    /\ UNCHANGED mails

\* It was read that there are none; by now there may be.
EnsureRecipient ==
    /\ Scanning("recipient", ScanAt("preferences"))
    /\ merchant' = [merchant EXCEPT !.recipients = @ \union {Own}]
    /\ UNCHANGED mails

EnsurePreferences ==
    /\ Scanning("preferences", ScanAt("enabled"))
    /\ merchant' = WithPreferences(merchant)
    /\ UNCHANGED mails

ReadSetting ==
    /\ Scanning("enabled", IF merchant.setting = "on" THEN ScanAt("ticked") ELSE Skipped)
    /\ UNCHANGED <<merchant, mails>>

ReadPreference ==
    /\ Scanning("ticked", IF \E o \in scan.occasion : merchant.prefs[EventOf[o]] = "on"
                          THEN ScanAt("recipients") ELSE Skipped)
    /\ UNCHANGED <<merchant, mails>>

ReadRecipients ==
    /\ Scanning("recipients", [scan EXCEPT !.pc = "create", !.left = merchant.recipients])
    /\ UNCHANGED <<merchant, mails>>

\* firstOrCreate, by the key made of the event, the occasion and the recipient.
CreateDelivery ==
    /\ \E o \in scan.occasion, b \in scan.left :
         /\ Scanning("create", [scan EXCEPT !.left = @ \ {b},
                                            !.pc = IF mails[<<o, b>>] = Absent THEN "dispatch" ELSE @,
                                            !.mail = IF mails[<<o, b>>] = Absent THEN {<<o, b>>} ELSE {}])
         /\ mails' = [mails EXCEPT ![<<o, b>>].status = IF @ = "none" THEN "pending" ELSE @]
    /\ UNCHANGED merchant

\* Only a row just created is dispatched.
DispatchMail ==
    /\ scan.pc = "dispatch"
    /\ scan' = [scan EXCEPT !.pc = "create", !.mail = {}]
    /\ mailJobs' = [m \in Mails |-> IF m \in scan.mail THEN [mailJobs[m] EXCEPT !.at = "queued"] ELSE mailJobs[m]]
    /\ UNCHANGED <<settingVars, scanFaults, mails, mailed, torn>>

EndOccasion == scan.left = {} /\ Scanning("create", Skipped) /\ UNCHANGED <<merchant, mails>>

EndScan ==
    /\ scan.todo = {}
    /\ Scanning("scanning", [scan EXCEPT !.pc = "idle", !.mutex = FALSE, !.occasion = {}])
    /\ UNCHANGED <<merchant, mails>>

\* The command throws, or its scheduler is killed with it and the mutex stays.
ScanFails ==
    /\ scan.pc # "idle"
    /\ scanFaults < MaxScanFaults /\ scanFaults' = scanFaults + 1
    /\ \E mutex \in BOOLEAN :
         scan' = [scan EXCEPT !.pc = "idle", !.mutex = mutex, !.todo = {}, !.occasion = {}, !.left = {}, !.mail = {}]
    /\ UNCHANGED <<settingVars, mails, jobVars>>

MutexExpires ==
    /\ scan.mutex
    /\ Scanning("idle", [scan EXCEPT !.mutex = FALSE])
    /\ UNCHANGED <<merchant, mails>>

ScanNext ==
    \/ StartScan \/ ScanOccasion \/ EnsureSetting \/ EnsureRecipient \/ EnsurePreferences
    \/ ReadSetting \/ ReadPreference \/ ReadRecipients \/ CreateDelivery \/ DispatchMail
    \/ EndOccasion \/ EndScan \/ ScanFails \/ MutexExpires

----------------------------------------------------------------------------
(* The job *)

Job(m, pc, next) ==
    /\ mailJobs[m].at = pc /\ mailJobs' = [mailJobs EXCEPT ![m].at = next]
    /\ UNCHANGED <<settingVars, scan, scanFaults>>
Again(m) == IF mailJobs[m].tries < MailTries THEN "queued" ELSE "gone"

\* A worker takes the job; one that was taken three times is given up without a trace in the row.
GiveUp(m) ==
    /\ mailJobs[m].tries = MailTries
    /\ Job(m, "queued", "gone")
    /\ UNCHANGED <<mails, mailed, torn>>

\* The attempts that a row counts are limited by the admin's setting.
Tried(row) ==
    IF row.attempts >= admin.tries THEN [row EXCEPT !.status = "failed"] ELSE [row EXCEPT !.attempts = @ + 1]

\* Fault: what was sent is not asked.
TakeAnyMail(m) ==
    /\ mailJobs[m].at = "queued" /\ mailJobs[m].tries < MailTries
    /\ mailJobs' = [mailJobs EXCEPT ![m] =
         [at |-> IF mails[m].attempts >= admin.tries THEN "gone" ELSE "sending", tries |-> @.tries + 1, struck |-> FALSE]]
    /\ mails' = [mails EXCEPT ![m] = Tried(@)]
    /\ UNCHANGED <<settingVars, scan, scanFaults, mailed, torn>>

\* handle, up to the increment.
StartMail(m) ==
    /\ mailJobs[m].at = "queued" /\ mailJobs[m].tries < MailTries
    /\ LET row == mails[m] IN
       /\ mailJobs' = [mailJobs EXCEPT ![m] =
            [at |-> IF row.status = "sent" \/ row.attempts >= admin.tries THEN "gone" ELSE "sending",
             tries |-> @.tries + 1, struck |-> FALSE]]
       /\ mails' = [mails EXCEPT ![m] = IF row.status = "sent" THEN row ELSE Tried(row)]
    /\ UNCHANGED <<settingVars, scan, scanFaults, mailed, torn>>

SendMail(m) ==
    /\ Job(m, "sending", "sent")
    /\ mailed' = [mailed EXCEPT ![m] = @ + 1]
    /\ UNCHANGED <<mails, torn>>

\* Fault: the exception is left to the queue.
ThrowOnly(m) == Job(m, "sending", Again(m)) /\ UNCHANGED <<mails, mailed, torn>>

\* The template or the mailer throws: the row says so, and the job is released.
MailThrows(m) ==
    /\ Job(m, "sending", Again(m))
    /\ mails' = [mails EXCEPT ![m].status = "failed"]
    /\ UNCHANGED <<mailed, torn>>

RecordSent(m) ==
    /\ Job(m, "sent", "recorded")
    /\ mails' = [mails EXCEPT ![m].status = "sent"]
    /\ UNCHANGED <<mailed, torn>>

\* The mail is out and its record throws, and the record of the failure may throw too.
RecordThrows(m) ==
    /\ mailJobs[m].at = "sent"
    /\ \E told \in BOOLEAN :
         /\ mails' = IF told THEN [mails EXCEPT ![m].status = "failed"] ELSE mails
         /\ mailJobs' = [mailJobs EXCEPT ![m].at = Again(m), ![m].struck = ~told]
    /\ torn' = torn \union {m}
    /\ UNCHANGED <<settingVars, scan, scanFaults, mailed>>

DeleteJob(m) == Job(m, "recorded", "gone") /\ UNCHANGED <<mails, mailed, torn>>

\* The worker dies or is stopped by the timeout: after retry_after the job is taken again.
MailerDies(m) ==
    /\ mailJobs[m].at \in {"sending", "sent", "recorded"}
    /\ mailJobs' = [mailJobs EXCEPT ![m].at = "queued", ![m].struck = TRUE]
    /\ torn' = IF mailJobs[m].at = "sent" THEN torn \union {m} ELSE torn
    /\ UNCHANGED <<settingVars, scan, scanFaults, mails, mailed>>

MailWork(m) ==
    GiveUp(m) \/ StartMail(m) \/ SendMail(m) \/ MailThrows(m) \/ RecordSent(m) \/ RecordThrows(m) \/ DeleteJob(m)

MailsNext ==
    \/ (\E o \in Occasions : Occur(o)) \/ OpenNotifications \/ SaveNotifications
    \/ UpdateMerchantSettings \/ ShowSettings \/ SaveFails \/ UpdateGlobalSettings
    \/ ScanNext
    \/ \E m \in Mails : MailWork(m) \/ MailerDies(m)

\* The queue's workers go on; each job is tried at most three times.
MailFairness == WF_mailVars(\E m \in Mails : MailWork(m))

----------------------------------------------------------------------------
\* A merchant gets a mail about an occasion once in each mailbox, however often its job is
\* taken, its worker dies or the scan is repeated; unless an attempt mailed it and did not
\* get to record it.
MailedOnce == \A m \in Mails : mailed[m] <= 1 \/ m \in torn

\* A job that was dispatched is in the end over, and its row says that the mail was sent or
\* that it failed, unless the last attempt was cut short.
MailEnds ==
    \A m \in Mails :
      mailJobs[m].at = "queued" ~>
        mailJobs[m].at = "gone" /\ (mails[m].status \in {"sent", "failed"} \/ mailJobs[m].struck)
=============================================================================
