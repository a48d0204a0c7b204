----------------------------- MODULE ApiKeyPages -----------------------------
(***************************************************************************)
(* The API keys of a merchant in the admin portal: the keys section of the *)
(* merchant's page (Pages/Admin/Merchants/Edit.jsx), the list of keys      *)
(* (Pages/Admin/ApiKeys/Index.jsx) and ApiKeyService behind both.          *)
(*                                                                         *)
(* A new secret is shown once: it is flashed into the session, and the     *)
(* page the request redirects to gets it as the prop generatedKey.         *)
(***************************************************************************)
EXTENDS Inertia, Integers, Sequences, FiniteSets

CONSTANTS
    KeyEnv,       \* environments
    MaxKeys,      \* bound: keys of the merchant
    MaxKeyVisits  \* bound: visits the admin asks for

VARIABLES
    keys,         \* merchant_api_keys: environment, status, and the secret whose hash it is
    minted,       \* secrets generated so far
    flash,        \* generated_api_key in the session, 0 for none
    atWork,       \* key requests PHP is working on
    keyPage,      \* the page: its name, its local state and its props
    seen,         \* history: the secrets a banner showed
    unseen,       \* history: the secrets that arrived while the banner was put away
    issued        \* history: the environments whose last key was issued and not revoked

keyStore == <<keys, minted, flash, atWork>>
keyHistory == <<seen, unseen, issued>>
apiKeyVars == <<keyStore, keyPage, keyHistory>>

NoSecret == 0

\* A page as it is mounted: the list opens its banner only if it has something to show.
Mounted(name, ks, secret) ==
    [name |-> name, away |-> name = "keys" /\ secret = NoSecret, form |-> FALSE,
     env |-> "test", rotating |-> 0, revoking |-> 0, keys |-> ks, generated |-> secret]

BannerShows(page) == IF page.away \/ page.generated = NoSecret THEN {} ELSE {page.generated}

ApiKeyInit ==
    /\ keys \in {<<>>, <<[env |-> "test", status |-> "active", secret |-> NoSecret]>>}
    /\ minted = 0 /\ flash = NoSecret /\ atWork = {}
    /\ \E name \in {"edit", "keys"} : keyPage = Mounted(name, keys, NoSecret)
    /\ seen = {} /\ unseen = {} /\ issued = {}

----------------------------------------------------------------------------
(***************************************************************************)
(* What the admin does.  A visit that interrupts another one calls the     *)
(* other's onFinish, and only then goes on.                                *)
(***************************************************************************)
OnKeyPage(change) ==
    /\ keyPage' = change
    /\ UNCHANGED <<keyStore, keyHistory, net>>

\* The dialogue of the list, the form of the merchant's page.
OpenKeyForm == ~keyPage.form /\ OnKeyPage([keyPage EXCEPT !.form = TRUE])
CloseKeyForm == keyPage.form /\ OnKeyPage([keyPage EXCEPT !.form = FALSE])
ChooseKeyEnv(e) ==
    keyPage.form /\ e # keyPage.env /\ OnKeyPage([keyPage EXCEPT !.env = e])

PutBannerAway ==
    /\ BannerShows(keyPage) # {}
    /\ OnKeyPage([keyPage EXCEPT !.away = TRUE])

KeysUnderWay == {r.kind : r \in {x \in inbox \union atWork \union answered : x.no = current}}

\* A button's id is set first; onFinish of the visit that is interrupted clears it again.
Cleared(page) == [page EXCEPT !.rotating = IF "rotate" \in KeysUnderWay THEN 0 ELSE @,
                              !.revoking = IF "revoke" \in KeysUnderWay THEN 0 ELSE @]

Asks(kind, body, page) ==
    /\ acts < MaxKeyVisits
    /\ keyPage' = Cleared(page)
    /\ UNCHANGED <<keyStore, keyHistory>>
    /\ Visit(kind, body)

SubmitKey ==
    /\ keyPage.form /\ "create" \notin KeysUnderWay
    /\ Asks("create", [page |-> keyPage.name, env |-> keyPage.env], keyPage)

\* The list offers to rotate revoked keys too, and has no button that waits.
RotateKey(k) ==
    /\ keyPage.name = "edit" => keyPage.keys[k].status = "active" /\ keyPage.rotating # k
    /\ Asks("rotate", [page |-> keyPage.name, key |-> k],
            IF keyPage.name = "edit" THEN [keyPage EXCEPT !.rotating = k] ELSE keyPage)

RevokeKey(k) ==
    /\ keyPage.keys[k].status = "active" /\ keyPage.revoking # k
    /\ Asks("revoke", [page |-> keyPage.name, key |-> k],
            IF keyPage.name = "edit" THEN [keyPage EXCEPT !.revoking = k] ELSE keyPage)

DeleteKey(k) ==
    /\ keyPage.name = "keys" /\ keyPage.keys[k].status = "inactive"
    /\ Asks("delete", [page |-> "keys", key |-> k], keyPage)

\* To the other page, or to the same one: filtered as it is, or reset and mounted anew.
GoToPage(name) == Asks("page", [page |-> name, remount |-> TRUE, of |-> "page"], keyPage)
FilterKeys ==
    /\ keyPage.name = "keys"
    /\ Asks("page", [page |-> "keys", remount |-> FALSE, of |-> "page"], keyPage)

----------------------------------------------------------------------------
(***************************************************************************)
(* ApiKeyController and ApiKeyService.  The route loads the key, a         *)
(* transaction reads the other active keys of the environment, and the     *)
(* updates write the columns that differ from what was loaded.             *)
(***************************************************************************)
Exists(k) == keys[k].status # "deleted"

Fails(no) ==
    /\ current' = IF current = no THEN 0 ELSE current
    /\ broken' = TRUE
    /\ keyPage' = IF current = no THEN Cleared(keyPage) ELSE keyPage
    /\ UNCHANGED <<answered, sent, acts>>

LoadKey(r) ==
    /\ r.kind \in {"rotate", "revoke", "delete"} /\ Exists(r.body.key)
    /\ inbox' = inbox \ {r}
    /\ atWork' = atWork \union {[no |-> r.no, kind |-> r.kind, body |-> r.body, step |-> "loaded",
                                 loaded |-> keys[r.body.key].status, others |-> {}]}
    /\ UNCHANGED <<keys, minted, flash, keyPage, keyHistory, current, answered, sent, acts, broken>>

KeyNotFound(r) ==
    /\ r.kind \in {"rotate", "revoke", "delete"} /\ ~Exists(r.body.key)
    /\ inbox' = inbox \ {r}
    /\ Fails(r.no)
    /\ UNCHANGED <<keyStore, keyHistory>>

ValidateKey(r) ==
    /\ r.kind = "create"
    /\ inbox' = inbox \ {r}
    /\ atWork' = atWork \union {[no |-> r.no, kind |-> r.kind, body |-> r.body, step |-> "loaded",
                                 loaded |-> "active", others |-> {}]}
    /\ UNCHANGED <<keys, minted, flash, keyPage, keyHistory, current, answered, sent, acts, broken>>

EnvOf(w) == IF w.kind = "create" THEN w.body.env ELSE keys[w.body.key].env
Others(w) ==
    {k \in DOMAIN keys : keys[k].env = EnvOf(w) /\ keys[k].status = "active"
                          /\ (w.kind = "rotate" => k # w.body.key)}

\* Fault: only a rotation looks for other keys.
ReadForRotation(w) ==
    /\ w.step = "loaded" /\ w.kind \in {"create", "rotate"}
    /\ atWork' = (atWork \ {w}) \union
                 {[w EXCEPT !.step = "read", !.others = IF w.kind = "rotate" THEN Others(w) ELSE {}]}
    /\ UNCHANGED <<keys, minted, flash, keyPage, keyHistory, net>>

\* revokeActiveKeysForEnvironment, as far as it reads.
ReadActiveKeys(w) ==
    /\ w.step = "loaded" /\ w.kind \in {"create", "rotate"}
    /\ atWork' = (atWork \ {w}) \union {[w EXCEPT !.step = "read", !.others = Others(w)]}
    /\ UNCHANGED <<keys, minted, flash, keyPage, keyHistory, net>>

\* The session keeps the flash for the page the browser is redirected to, if it still is waiting.
Redirects(w, secret) ==
    /\ flash' = secret
    /\ atWork' = atWork \ {w}
    /\ inbox' = IF current # w.no THEN inbox
                ELSE inbox \union {[no |-> w.no, kind |-> "page",
                                    body |-> [page |-> w.body.page, remount |-> FALSE, of |-> w.kind]]}
    /\ UNCHANGED <<keyPage, seen, unseen, current, answered, sent, acts, broken>>

Written(k, row) == IF keys[k].status = "deleted" THEN keys[k] ELSE row
Revoked(ks) ==
    [k \in DOMAIN keys |-> IF k \in ks THEN Written(k, [keys[k] EXCEPT !.status = "inactive"]) ELSE keys[k]]

CommitCreation(w) ==
    /\ w.step = "read" /\ w.kind = "create" /\ Len(keys) < MaxKeys
    /\ minted' = minted + 1
    /\ keys' = Append(Revoked(w.others), [env |-> w.body.env, status |-> "active", secret |-> minted'])
    /\ issued' = issued \union {w.body.env}
    /\ Redirects(w, minted')

CommitRotation(w) ==
    /\ w.step = "read" /\ w.kind = "rotate"
    /\ minted' = minted + 1
    /\ LET k == w.body.key
           row == [keys[k] EXCEPT !.secret = minted', !.status = IF w.loaded = "active" THEN @ ELSE "active"]
       IN  keys' = [Revoked(w.others) EXCEPT ![k] = Written(k, row)]
    /\ issued' = issued \union {EnvOf(w)}
    /\ Redirects(w, minted')

CommitRevocation(w) ==
    /\ w.kind = "revoke"
    /\ keys' = IF w.loaded = "active" THEN Revoked({w.body.key}) ELSE keys
    /\ issued' = issued \ {EnvOf(w)}
    /\ UNCHANGED minted
    /\ Redirects(w, NoSecret)

CommitDeletion(w) ==
    /\ w.kind = "delete" /\ w.loaded = "inactive"
    /\ keys' = [keys EXCEPT ![w.body.key].status = "deleted"]
    /\ UNCHANGED <<minted, issued>>
    /\ Redirects(w, NoSecret)

\* An active key is not deleted; a query or the worker may fail, and the transaction with it.
RequestFails(w) ==
    /\ atWork' = atWork \ {w}
    /\ Fails(w.no)
    /\ UNCHANGED <<keys, minted, flash, keyHistory, inbox>>

\* The page's request takes the flash with it, whoever left it there.
ServeKeyPage(r) ==
    /\ r.kind = "page"
    /\ flash' = NoSecret
    /\ UNCHANGED <<keys, minted, atWork, keyPage, keyHistory>>
    /\ ServedWith(r, [page |-> r.body.page, remount |-> r.body.remount, of |-> r.body.of,
                      keys |-> keys, generated |-> flash], TRUE)

KeyVisitLost(r) ==
    /\ UNCHANGED <<keyStore, keyHistory>>
    /\ keyPage' = IF current = r.no THEN Cleared(keyPage) ELSE keyPage
    /\ Lost(r)

\* The page is mounted, or keeps its state and calls onSuccess and onFinish.
Kept(b) ==
    LET page == [keyPage EXCEPT !.keys = b.keys, !.generated = b.generated, !.rotating = 0, !.revoking = 0]
    IN  IF b.of # "create" THEN page
        ELSE [page EXCEPT !.form = FALSE, !.away = IF b.page = "keys" THEN FALSE ELSE @]

KeyAnswer(a) ==
    LET b == a.body IN
    /\ keyPage' = IF b.remount THEN Mounted(b.page, b.keys, b.generated) ELSE Kept(b)
    /\ seen' = seen \union BannerShows(keyPage')
    /\ unseen' = IF keyPage'.away THEN unseen \union {b.generated} ELSE unseen
    /\ UNCHANGED <<keyStore, issued>>
    /\ Returned

----------------------------------------------------------------------------
ApiKeyNext ==
    \/ OpenKeyForm \/ CloseKeyForm \/ PutBannerAway \/ SubmitKey \/ FilterKeys
    \/ \E e \in KeyEnv : ChooseKeyEnv(e)
    \/ \E name \in {"edit", "keys"} : GoToPage(name)
    \/ \E k \in DOMAIN keyPage.keys :
         /\ keyPage.keys[k].status # "deleted"
         /\ RotateKey(k) \/ RevokeKey(k) \/ DeleteKey(k)
    \/ \E r \in inbox : LoadKey(r) \/ KeyNotFound(r) \/ ValidateKey(r) \/ ServeKeyPage(r)
    \/ \E w \in atWork :
         \/ ReadActiveKeys(w) \/ CommitCreation(w) \/ CommitRotation(w)
         \/ CommitRevocation(w) \/ CommitDeletion(w) \/ RequestFails(w)
    \/ \E r \in inbox \union answered : KeyVisitLost(r)
    \/ \E a \in answered : KeyAnswer(a)

----------------------------------------------------------------------------
\* Unless visits were interrupted or failed: an environment whose last key was issued and not
\* revoked has one key in force, and its secret was shown to the admin or arrived while the
\* banner was put away.
KeyInForceIsKnown ==
    current = 0 /\ ~broken =>
        \A e \in issued : \E k \in DOMAIN keys :
            /\ {x \in DOMAIN keys : keys[x].env = e /\ keys[x].status = "active"} = {k}
            /\ keys[k].secret \in seen \union unseen
=============================================================================
