---------------------------- MODULE MerchantForms ----------------------------
(***************************************************************************)
(* A merchant's account in the admin portal: the page that creates it      *)
(* (Pages/Admin/Merchants/Create.jsx), the page that changes it            *)
(* (Merchants/Edit.jsx) with a row for each provider assigned to it, and   *)
(* MerchantController and MerchantService behind both.                     *)
(*                                                                         *)
(* A row copies its status when it is mounted and never looks at its       *)
(* credential's again.  Text that is only typed and sent is an input of    *)
(* the action that sends it; a secret is left blank, accepted or refused.  *)
(***************************************************************************)
EXTENDS Inertia, Integers, FiniteSets

CONSTANTS
    Accounts,        \* pairs of a provider and an environment
    ProviderStatus,  \* statuses of a credential; "pending" is the form's first choice
    AccountStatus,   \* statuses of a merchant
    MaxFormVisits,   \* bound: visits the admin asks for,
    MaxInfoVisits    \* and those up to and including one that saves the account itself

VARIABLES
    merchant,     \* users: the account's status and its logo's number, 0 for none
    creds,        \* merchant_provider_credentials: status, and whether a secret is stored
    logos,        \* the files in merchant-logos
    uploads,      \* logos uploaded so far
    desk,         \* updates of the merchant that PHP is working on
    formPage,     \* the page with its local state
    unsaved,      \* history: accounts whose row was set apart from what is stored
    torn          \* history: an update failed after it had deleted a file

account == <<merchant, creds, logos, uploads, desk>>
formVars == <<account, formPage, unsaved, torn>>

NoLogo == 0
Nothing == [none |-> TRUE]

NewRow(cred) == [shown |-> cred.status, editing |-> FALSE]

\* The page has no AlertTriangle, which it shows beside the status "suspended".
Crashes(status) == status = "suspended"

EditPage(m, cs) ==
    [name |-> "edit", crashed |-> Crashes(m.status), rows |-> [c \in DOMAIN cs |-> NewRow(cs[c])],
     add |-> FALSE, file |-> FALSE, remove |-> FALSE, logo |-> m.logo, status |-> m.status]
CreatePage == [name |-> "create", crashed |-> FALSE]

FormInit ==
    /\ merchant \in {Nothing, [status |-> "pending", logo |-> NoLogo], [status |-> "pending", logo |-> 1]}
    /\ \E cs \in SUBSET Accounts :
         /\ merchant = Nothing => cs = {}
         /\ creds = [c \in cs |-> [status |-> "pending", secret |-> TRUE]]
    /\ uploads = 1 /\ logos = IF merchant = Nothing THEN {} ELSE {merchant.logo} \ {NoLogo}
    /\ formPage = IF merchant = Nothing THEN CreatePage ELSE EditPage(merchant, creds)
    /\ desk = {} /\ unsaved = {} /\ torn = FALSE

----------------------------------------------------------------------------
(***************************************************************************)
(* What the admin does.  A form waits while its own visit is under way; a  *)
(* visit of another form interrupts it.                                    *)
(***************************************************************************)
Form(kind, c) == [kind |-> kind, account |-> c]
FormsUnderWay ==
    {Form(r.body.of, r.body.account) : r \in {x \in inbox \union desk \union answered : x.no = current}}

Editable == formPage.name = "edit" /\ ~formPage.crashed

OnForms(page) ==
    /\ Editable
    /\ formPage' = page
    /\ UNCHANGED <<account, torn, net>>

SendsForm(kind, c, page, data) ==
    /\ acts < IF kind = "info" THEN MaxInfoVisits ELSE MaxFormVisits
    /\ formPage.crashed = FALSE /\ Form(kind, c) \notin FormsUnderWay
    /\ formPage' = page
    /\ UNCHANGED <<account, torn>>
    /\ Visit(kind, [of |-> kind, account |-> c, data |-> data])

\* Fault: the selector shows the choice and waits for a save.
ChooseAndWait(c, s) ==
    /\ Editable /\ Form("status", c) \notin FormsUnderWay
    /\ UNCHANGED unsaved
    /\ OnForms([formPage EXCEPT !.rows[c].shown = s])

\* The row's selector, handleChange.
ChangeProviderStatus(c, s) ==
    /\ Editable
    /\ unsaved' = unsaved \ {c}
    /\ SendsForm("status", c, [formPage EXCEPT !.rows[c].shown = s], [status |-> s])

\* Opens the editor, and closes it: its data stay.
EditCredentials(c) ==
    /\ UNCHANGED unsaved
    /\ OnForms([formPage EXCEPT !.rows[c].editing = ~@])

\* The editor's selector shows its choice in the row, and saves nothing.
ChooseInEditor(c, s) ==
    /\ Editable /\ formPage.rows[c].editing /\ Form("edit", c) \notin FormsUnderWay
    /\ unsaved' = unsaved \union {c}
    /\ OnForms([formPage EXCEPT !.rows[c].shown = s])

SubmitCredentials(c, secret) ==
    /\ Editable /\ formPage.rows[c].editing
    /\ unsaved' = IF secret = "refused" THEN unsaved \union {c} ELSE unsaved \ {c}
    /\ SendsForm("edit", c, formPage, [status |-> formPage.rows[c].shown, secret |-> secret])

ShowAddProvider(open) ==
    /\ Editable /\ formPage.add # open
    /\ UNCHANGED unsaved
    /\ OnForms([formPage EXCEPT !.add = open])

\* A provider that is assigned already is assigned anew; its row is not told.
AssignProvider(c, s, secret) ==
    /\ Editable /\ formPage.add
    /\ unsaved' = IF secret = "refused" THEN unsaved ELSE unsaved \union (DOMAIN formPage.rows \intersect {c})
    /\ SendsForm("assign", "any", formPage, [to |-> c, status |-> s, secret |-> secret])

PickLogo ==
    /\ UNCHANGED unsaved
    /\ OnForms([formPage EXCEPT !.file = TRUE, !.remove = FALSE])

RemoveLogo ==
    /\ Editable /\ formPage.logo # NoLogo
    /\ UNCHANGED unsaved
    /\ OnForms([formPage EXCEPT !.file = FALSE, !.remove = TRUE])

SaveInfo ==
    /\ Editable
    /\ UNCHANGED unsaved
    /\ SendsForm("info", "any", formPage, [file |-> formPage.file, remove |-> formPage.remove])

ChooseAccountStatus(s) ==
    /\ Editable /\ s # formPage.status
    /\ UNCHANGED unsaved
    /\ OnForms([formPage EXCEPT !.status = s, !.crashed = Crashes(s)])

SaveStatus ==
    /\ Editable
    /\ UNCHANGED unsaved
    /\ SendsForm("account", "any", formPage, [status |-> formPage.status])

SubmitMerchant(s, file) ==
    /\ formPage.name = "create"
    /\ UNCHANGED unsaved
    /\ SendsForm("store", "any", formPage, [status |-> s, file |-> file])

\* The page is asked for anew, by the browser or from the list of merchants.
VisitMerchant ==
    /\ merchant # Nothing /\ acts < MaxFormVisits
    /\ UNCHANGED <<formVars>>
    /\ Visit("page", [of |-> "page", account |-> "any", ok |-> TRUE])

----------------------------------------------------------------------------
(***************************************************************************)
(* MerchantController and MerchantService.  Every request ends in a        *)
(* redirect to the page, with the errors if there are any; the browser     *)
(* follows it if it still waits.                                           *)
(***************************************************************************)
FormRedirect(r, ok) ==
    inbox' = IF current # r.no THEN inbox \ {r}
             ELSE (inbox \ {r}) \union
                  {[no |-> r.no, kind |-> "page", body |-> [of |-> r.kind, account |-> r.body.account, ok |-> ok]]}

AtServer == UNCHANGED <<formPage, unsaved, current, answered, sent, acts, broken>>

\* A malformed secret, or a mailbox that has an account already.
RefuseForm(r) ==
    /\ \/ r.kind \in {"edit", "assign"} /\ r.body.data.secret = "refused"
       \/ r.kind = "store" /\ merchant # Nothing
    /\ FormRedirect(r, FALSE)
    /\ AtServer /\ UNCHANGED <<account, torn>>

\* updateProviderCredential: a blank secret keeps the stored one, a status alone sends none.
UpdateCredential(r) ==
    /\ r.kind = "status" \/ (r.kind = "edit" /\ r.body.data.secret # "refused")
    /\ creds' = [creds EXCEPT ![r.body.account] =
                   [status |-> r.body.data.status,
                    secret |-> @.secret \/ (r.kind = "edit" /\ r.body.data.secret = "typed")]]
    /\ FormRedirect(r, TRUE)
    /\ AtServer /\ UNCHANGED <<merchant, logos, uploads, desk, torn>>

\* assignProvider: a blank secret is stored as none.
UpsertCredential(r) ==
    /\ r.kind = "assign" /\ r.body.data.secret # "refused"
    /\ LET d == r.body.data
           cred == [status |-> d.status, secret |-> d.secret = "typed"]
       IN  creds' = [c \in DOMAIN creds \union {d.to} |-> IF c = d.to THEN cred ELSE creds[c]]
    /\ FormRedirect(r, TRUE)
    /\ AtServer /\ UNCHANGED <<merchant, logos, uploads, desk, torn>>

UpdateStatus(r) ==
    /\ r.kind = "account"
    /\ merchant' = [merchant EXCEPT !.status = r.body.data.status]
    /\ FormRedirect(r, TRUE)
    /\ AtServer /\ UNCHANGED <<creds, logos, uploads, desk, torn>>

\* create: the account first, then its logo; update: the route loads the merchant.
CreateMerchant(r) ==
    /\ r.kind = "store" /\ merchant = Nothing
    /\ merchant' = [status |-> r.body.data.status, logo |-> NoLogo]
    /\ desk' = desk \union {[no |-> r.no, kind |-> "store", step |-> "deleted", loaded |-> NoLogo, logo |-> NoLogo,
                             body |-> [of |-> "store", account |-> "any",
                                       data |-> [file |-> r.body.data.file, remove |-> FALSE]]]}
    /\ inbox' = inbox \ {r}
    /\ AtServer /\ UNCHANGED <<creds, logos, uploads, torn>>

LoadMerchant(r) ==
    /\ r.kind = "info"
    /\ desk' = desk \union {[no |-> r.no, kind |-> "info", step |-> "loaded", loaded |-> merchant.logo,
                             logo |-> merchant.logo, body |-> r.body]}
    /\ inbox' = inbox \ {r}
    /\ AtServer /\ UNCHANGED <<merchant, creds, logos, uploads, torn>>

Onto(w, next) == desk' = (desk \ {w}) \union {next}

\* deleteLocalLogo of the logo that was loaded.
DeleteLogo(w) ==
    /\ w.step = "loaded"
    /\ logos' = IF w.body.data.file \/ w.body.data.remove THEN logos \ {w.loaded} ELSE logos
    /\ Onto(w, [w EXCEPT !.step = "deleted", !.logo = IF w.body.data.remove THEN NoLogo ELSE @])
    /\ AtServer /\ UNCHANGED <<merchant, creds, uploads, inbox, torn>>

StoreLogo(w) ==
    /\ w.step = "deleted" /\ w.body.data.file
    /\ uploads' = uploads + 1
    /\ logos' = logos \union {uploads'}
    /\ Onto(w, [w EXCEPT !.step = "stored", !.logo = uploads'])
    /\ AtServer /\ UNCHANGED <<merchant, creds, inbox, torn>>

\* Fault: the address is written whether it changed or not.
UpdateEveryColumn(w) ==
    /\ w.step = IF w.body.data.file THEN "stored" ELSE "deleted"
    /\ merchant' = [merchant EXCEPT !.logo = w.logo]
    /\ desk' = desk \ {w}
    /\ FormRedirect(w, TRUE)
    /\ AtServer /\ UNCHANGED <<creds, logos, uploads, torn>>

\* Eloquent writes the address if it differs from the one that was loaded.
UpdateMerchant(w) ==
    /\ w.step = IF w.body.data.file THEN "stored" ELSE "deleted"
    /\ merchant' = IF w.logo = w.loaded THEN merchant ELSE [merchant EXCEPT !.logo = w.logo]
    /\ desk' = desk \ {w}
    /\ FormRedirect(w, TRUE)
    /\ AtServer /\ UNCHANGED <<creds, logos, uploads, torn>>

FormFails(r) ==
    /\ current' = IF current = r.no THEN 0 ELSE current
    /\ broken' = TRUE
    /\ UNCHANGED <<formPage, unsaved, merchant, creds, logos, uploads, answered, sent, acts>>

\* The mailbox is taken, the disk or the database fails: an error page.
UpdateFails(w) ==
    /\ desk' = desk \ {w}
    /\ torn' = (torn \/ w.step # "loaded")
    /\ FormFails(w) /\ UNCHANGED inbox

StoreFails(r) ==
    /\ r.kind # "page"
    /\ inbox' = inbox \ {r}
    /\ FormFails(r) /\ UNCHANGED <<desk, torn>>

ServeForms(r) ==
    /\ r.kind = "page"
    /\ UNCHANGED formVars
    /\ ServedWith(r, [of |-> r.body.of, account |-> r.body.account, ok |-> r.body.ok,
                      merchant |-> merchant, creds |-> creds], TRUE)

FormLost(r) == UNCHANGED formVars /\ Lost(r)

\* A row already there keeps what it shows; a form that was accepted closes, or forgets its file.
Rerendered(b) ==
    LET rows == [c \in DOMAIN b.creds |-> IF c \in DOMAIN formPage.rows THEN formPage.rows[c] ELSE NewRow(b.creds[c])]
    IN  [formPage EXCEPT
           !.rows = [c \in DOMAIN rows |-> IF b.of = "edit" /\ b.ok /\ b.account = c
                                           THEN [rows[c] EXCEPT !.editing = FALSE] ELSE rows[c]],
           !.add = @ /\ ~(b.of = "assign" /\ b.ok),
           !.file = @ /\ b.of # "info",
           !.logo = b.merchant.logo]

FormAnswered(a) ==
    LET b == a.body
        anew == b.ok /\ b.of \in {"page", "store"}
    IN  /\ formPage' = IF anew THEN EditPage(b.merchant, b.creds)
                       ELSE IF Editable THEN Rerendered(b) ELSE formPage
        /\ unsaved' = IF anew THEN {} ELSE unsaved
        /\ UNCHANGED <<account, torn>>
        /\ Returned

----------------------------------------------------------------------------
FormNext ==
    \/ VisitMerchant \/ PickLogo \/ RemoveLogo \/ SaveInfo \/ SaveStatus
    \/ \E s \in AccountStatus : ChooseAccountStatus(s) \/ \E file \in BOOLEAN : SubmitMerchant(s, file)
    \/ \E open \in BOOLEAN : ShowAddProvider(open)
    \/ \E c \in Accounts, s \in ProviderStatus, secret \in {"blank", "typed", "refused"} : AssignProvider(c, s, secret)
    \/ /\ Editable
       /\ \E c \in DOMAIN formPage.rows :
            \/ EditCredentials(c)
            \/ \E s \in ProviderStatus : ChangeProviderStatus(c, s) \/ ChooseInEditor(c, s)
            \/ \E secret \in {"blank", "typed", "refused"} : SubmitCredentials(c, secret)
    \/ \E r \in inbox :
         \/ RefuseForm(r) \/ UpdateCredential(r) \/ UpsertCredential(r) \/ UpdateStatus(r)
         \/ CreateMerchant(r) \/ LoadMerchant(r) \/ StoreFails(r) \/ ServeForms(r)
    \/ \E w \in desk : DeleteLogo(w) \/ StoreLogo(w) \/ UpdateMerchant(w) \/ UpdateFails(w)
    \/ \E r \in inbox \union answered : FormLost(r)
    \/ \E a \in answered : FormAnswered(a)

----------------------------------------------------------------------------
\* Unless visits were interrupted or failed: once everything is answered, the status each provider's
\* row shows is the status stored, except where a choice was left unsaved in the editor or the
\* provider was assigned anew (handleChange does not wait for its answer to show the choice).
ShownIsStored ==
    current = 0 /\ ~broken /\ Editable =>
        \A c \in DOMAIN formPage.rows \ unsaved : formPage.rows[c].shown = creds[c].status

\* The logo a merchant's record names is a file on the disk, whatever updates overlapped, once they
\* are done and none failed half-way (MerchantService::update deletes first and saves last).
LogoIsThere ==
    merchant # Nothing /\ ~torn /\ desk = {} => merchant.logo \in logos \union {NoLogo}
=============================================================================
