# Verification of the PayFlow payment platform

This directory holds TLA+ models of the platform's own logic, the TLC instances that check them, and proofs
that TLAPS checks. File names below are relative to the repository. PROJECT.json maps every definition to the
lines it models.

## 1. The system

| Component | State it keeps | Operations | Talks to |
|---|---|---|---|
| Payment creation (`payments/app/services/payment_creation.py`) | `payments`, `payment_routing_attempts`, usage in `user_subscriptions`; `payment_logs` in a second database | `create`: idempotency lookup, plan, insert, failover loop, checkout or failure | routing, health, Stripe and PayPal, webhooks |
| Provider returns (`services/provider_callback.py`) | the same payment row and logs | Stripe return and cancel, PayPal return (captures) and cancel | providers, webhooks |
| Webhook dispatch (`services/webhook_dispatcher.py`) | `webhook_deliveries` | `dispatch`: the endpoints one after another, each with a pending row, one POST, the outcome | the merchants' endpoints; the SaaS portal lists, adds, tests and deletes them |
| Stale expiry (`admin-laravel/.../ExpireStaleCheckoutsCommand.php`) | the payment row, from another process | `handle`, hourly, `withoutOverlapping` | payments database |
| Provider health (`payments/app/routing/health.py`) | `provider_health_statuses` and a Redis key | `is_available`, `record_success`, `record_failure` | creation, routing |
| Routing engine (`payments/app/routing/engine.py`) | none; reads rules, connections, configuration | `plan` | health, creation |
| Routing administration (`admin-laravel/.../RoutingWorkflowService.php`, `Pages/Admin/Routing/`) | `routing_workflows`, their versions, `provider_routing_configurations`; in the browser a canvas or a drawer's copy | create, save, publish, roll back, simulate, delete a version | the routing engine reads what it publishes |
| Circuit breaker and proxy (`gateway-verification/app/services/circuitBreaker.js`, `routes/payments.js`) | two Redis keys; listeners on one http-proxy emitter | check, forward, record, open | payment service |
| Access-profile cache (`gateway-verification/app/services/gatewayAccess.js`, `saas-laravel/.../GatewayAccessProfileService.php`) | entry, negative marker and lock in Redis; a row of `gateway_access_profiles` | look up, synchronise, invalidate | admin and SaaS portals |
| E-mail notifications (`saas-laravel/.../EmailNotificationService.php`, `SendEmailNotificationJob.php`) | settings, preferences, recipients, deliveries, the queue | scan, queue, send with retries, save settings | reads payments |
| Payment exports (`admin-laravel/.../MerchantPaymentsExportJob.php`, `Pages/Admin/Payments/Merchants.jsx`) | export rows, files, the queue; the page's list | start, generate, poll, download | Redis queue |
| Merchants and keys (`admin-laravel/.../MerchantService.php`, `ApiKeyService.php`, their pages) | merchants, logos, provider credentials, API keys | create, change, assign, rotate, revoke | gateway |
| Lists of both portals (`Pages/.../Index.jsx`, `Logs.jsx`) | filters in the form and in the URL | filter, reset, turn the page | their controllers |
| Merchant's canvas (`saas-laravel/.../Pages/Routing/Builder.jsx`) | positions in the browser and in the row | drag, save layout, restore | routing administration |
| Demo store (`merchant-demo/src`) | cart and orders in React state and in localStorage | buy, remember, poll | gateway |
| TechShop CMS (`techshop-cms/server.js`) | a JSON file of payments and an event log | store a webhook, delete the first | receives webhooks |
| Dashboards, analytics, subscriptions, public site, containers | reports and single writes | - | - |

How they interact: a request passes the gateway (cache, breaker), `create` writes the row, asks the engine for
an order of providers (the engine asks health about each), calls them one by one, stores the checkout of the
first that answers, and announces `payment.created`. The customer pays at the provider and the browser comes
back through the gateway: the handler asks the provider and settles the row. The expiry command and the mail
scanner look at the same rows from other processes, the store polls them. The portals change what the others
read: routes, keys, credentials, endpoints. Their pages go through Inertia, whose router has one visit under
way at most: a new one interrupts it, and its callbacks never run, though its request may still take effect.

### What is hard here, and what makes each part correct

* **Creation and returns.** Two databases committed one after the other; awaits between commits; several
  calls, tabs and a cron job on one row; a provider that times out may have opened a session. Correct: an
  order is charged at most once and through the page that was handed out; a settled payment stays settled;
  one outcome is announced; usage is counted for accepted payments only; the logs agree with the row; no
  payment stays pending for ever.
* **Webhook endpoints.** The list is read once and worked through for seconds each, while endpoints are
  deleted and statements fail. Correct: every endpoint that is still there is called once and its outcome
  recorded.
* **Health.** The row lock is held across an await, and a blocked statement stops the event loop; row and
  Redis key change separately. Correct: no failure lost, a quarantine earned, and in one no failures but those of
  calls that were under way. That it ends with its 300 seconds, as documented, is not so (section 3).
* **Routing administration.** Requests decide on copies loaded earlier; "Make it live" is two requests; four
  programs read the same nodes, each with sorting and filtering of its own, and two simulate them. Correct:
  one published version, the configuration in force is its and was validated, the page publishes what it
  showed, what the pages tell agrees, the panel's simulation is at least as strict as the server's.
* **Routing engine.** Orderings and conversions. Correct: every healthy provider exactly once. That weights decide,
  as documented, is not so (section 3).
* **Gateway.** One emitter for all requests, decisions after replies; a table, an entry, a marker and a lock
  written by three programs, each command of which may fail. Correct: the counter does not overstate, what the
  cache answers is recent, a refusal had a reason. That a request's outcome is that of its own answer, as a comment
  says, is not so (section 3).
* **Mails and exports.** A row, a job and an effect outside are recorded in steps of their own; jobs are
  retried and may overlap; a page polls. Correct: one mail per mailbox and occasion unless an attempt was torn
  apart, every job comes to an end that is shown, a download is there.
* **Pages.** Timers, debounced filters, interrupted visits, state copied from props once. Correct: what is
  shown is what is stored, a list is what its form says, a saved layout is restored, the one key in force was
  shown to somebody.
* **Store and CMS.** Dialogues that are closed do not cancel their request; polls go on after unmounting; two
  webhooks rewrite one file and a crash leaves half of it. Correct: a remembered order is the payment that was
  confirmed, its end is shown, the file has one record per payment.

PROJECT.json lists every hazard at its line, with the properties that cover it or the reason none does.

## 2. The modules

One action ends at every database commit and every await (or, in the portals, at every statement or
transaction, or at every request where only the page's order of requests matters): there another coroutine,
process, visit or crash can intervene. The payment service is one uvicorn process, so between awaits a
coroutine is alone in it, not in the database.

A definition whose comment starts with "Fault:" is a plausible bug: PROJECT.json pairs each checked property
with one, under which TLC finds it violated. They are part of no specification.

### Payment service

**PaymentContract** is what a merchant may rely on: the status, the checkout page and the money, with
`Create`, `Offer`, `GiveUp`, `Charge`, `Settle`, `Expire`.

**PaymentLifecycle** is the code behind it. A creation call goes `planning` (idempotency lookup found
nothing), `inserted`, `candidate`, `sending`, `calling`, then `succeeded`, `counted` or `failing`, then
`dispatch` and `posting`; a visit goes `verifying`, `logging`, `dispatch`, `posting`. `Replay` is the
idempotent answer, `InsertConflict` the UNIQUE constraint, `PassOver`, `CheckoutOpened`, `CheckoutFailed` and
`HardDecline` the outcomes of one candidate. `Finalize` is `_finalize_provider_return`. `Abort` ends a call
at any control point: a crash, a database error, an exception. The environment is `Pay`, `ProviderMoves` and
the visits.

| Module state | Code |
|---|---|
| `status`, `providerId`, `checkout` | columns of `payments` |
| `paymentId` | `payments.id`: whose INSERT created the row |
| `attempt` | `payment_routing_attempts.status` |
| `audit`, `sentLog` | event types in `payment_logs` (the second database) |
| `session` | the checkout at Stripe or PayPal: `complete` is approved or completed and not yet paid |
| `pc`, `cand`, `todo`, `via` | where a coroutine stands, the failover loop, the provider of a visit |
| `event`, `delivery`, `reply` | the announcement, its delivery row, the HTTP answer |

**ProviderHealth** models health.py for one provider of one merchant: the row, the Redis key, the lock, and
`waiting`, the coroutine whose blocking statement keeps all others from running (`LoopRuns`). `streak` and `late` are
histories: the failures since the last success, and those recorded in the quarantine under way.

**RoutingEngine** is `plan` as a state machine (connected providers, one awaited health question each, the
decision) with its orderings as operators over recursive functions (`Within` is a list comprehension, `Named` the
loop over aliases with its set of seen ones, `Cursor` the running sum of weights, `Total`, `Weighted`), and the
conversions `DecodedList`, `DecodedWeights`,
`DecodedConditions` of JSONB columns declared as Text. PaymentLifecycle leaves the order of candidates and
their availability open; RoutingEngine and ProviderHealth say what they are.

**WebhookEndpoints** has what one dispatch does behind PaymentLifecycle's `Dispatch` and `RecordDelivery`
when there are several endpoints: `SelectTargets`, and for each `AddDelivery`, `PostEvent`, `RecordDelivery`,
with statements that throw, a process that dies, and the portal's page that adds, tests and deletes endpoints
meanwhile (a deleted one takes its deliveries with it, `EndpointIsGone`).

### Gateway

**CircuitBreaker** models the breaker, the POST route and the shared emitter. Commands of one Redis
connection are executed in the order they were sent, so they take effect where they are sent; `trips` counts
INCR replies at or over the threshold that were not acted on yet.

**GatewayCache** has the truth (`key`, `plan`), the table row, the Redis entry, marker and lock with the tick
at which each expires, requests (`ReadMarker` to `Unlock`), the SaaS synchronisations (`FindKey` to
`Commit`, which write only columns that differ from the row they loaded, `Dirty`), and the admin's changes
with `Forget` and `MarkForgotten`. `held` is a history of when a table last held each value.

**Gateway** composes the two: they share no state, so a behaviour is one of one `part`.

### Routing administration

**RoutingContract** says what the payment service may see of a publication: a configuration that changes only
to a validated graph with another number. **RoutingWorkflow** is the service: the row, its numbered
versions by primary key, the configuration, and for each request the `copy` route-model binding loaded.
Eloquent writes only attributes that differ from that copy (`Dirty`, `Updated`).

**WorkflowGraph** has what is computed of a graph: validation, and the simulations of the browser
(`ClientSimulate`) and of the server (`ServerSimulate`), as recursive functions with the steps' limits of the
code. A condition is a field, an operator and a value; the operator "in" is left out. A value has what each
program makes of it: the text and the number in JavaScript, the text and the number in PHP. They part: the server
passes over an empty value and reads 0 in a text that is no number, the panel compares both, and a checkbox is
"true" for the one and "1" for the other. `ReadAlike` says what holds of every text but the word Infinity: both have
the same text, and a number JavaScript reads is the one PHP reads. **WorkflowEditor** is the visual builder over it:
the canvas, the edited nodes, conditions and edges, the buttons and their timers, the visits they send and the
answers. Its histories are `unsaved` (edited, or a roll back asked for, since the canvas was saved or loaded) and
`overtaken` (a save or roll back of an interrupted visit was on its way then).

**RouteCards** has what three programs make of the nodes of a route: the configuration (`Deployed`), the admin's
card (`RouteCard`, `AdminBadge`) and the merchant's (`WorkflowCard`, `MerchantBadge`), and both strips of
provider health. Their filters are `Only`, their sorts `ByPriority`, a stable one: what is in a list, and in
which order, is told by ranks. **RouteDrawer** is the admin's page of routes: list and filters with their
debounce, wizard, drawer. A refused publication leaves the route as it was, with its `errors` (`Refused`).

**Routing** composes ProviderHealth, RoutingEngine, RoutingWorkflow and WorkflowEditor. What they share, the
availability the engine is told and the configuration it reads, is read whole at one step of the reader, so
that each keeps its own variables, and a behaviour is one of one `part`. Its operations keep the part in their
names where the code has the same word twice: `PublishWorkflow` and `RollbackWorkflow` are the service's,
`Publish` and `Rollback` the builder's buttons.

### The other pages

**Inertia** is the router (external): `Visit`, interruption, `Lost`. The pages' modules extend it.

| Module | Pages and code behind them |
|---|---|
| ApiKeyPages | the keys of a merchant and the list of keys; `ApiKeyService` statement by statement, and the banner that shows a secret once |
| MerchantForms | creating and editing a merchant, a row per provider; `MerchantService::update` in its steps around the logo's file, several at once |
| ListPages | six filtered, paginated lists; a debounced one with a dialogue |
| MerchantCanvas | the merchant's drawing of a route: ranks, columns, drags, the saved layout; the admin, who meanwhile stores another graph (`AdminSaves`) or the layout of the other canvas (`AdminMoves`: the column is the same) |
| PaymentExports | the export page with its polls, several under way and answered in any order; the queue with payloads that are ready, delayed or reserved, reservations that time out (`Overtaken`), attempts that overlap, throw or die, up to the third |
| EmailNotifications | the scan, one job per mail with throws, deaths and three tries, the settings page, the admin's defaults |
| Shop | cart, checkout dialogue, order list with a chain of polls per payment and mount, localStorage |
| TechShopCms | handlers interleaving at each await of `fs`, a crash between truncating and writing, a restart |

**PortalPages** composes RouteDrawer, ApiKeyPages, MerchantForms, ListPages and WebhookEndpoints (one page is
shown, `shownPage`; they meet in the router), **WebPages** composes Shop, TechShopCms, MerchantCanvas,
PaymentExports and EmailNotifications (`program`). Each of these parts has state of its own, so a behaviour of
the composition is one of one part, and one run explores them all.

The MC modules fix instances. The Proofs modules hold the theorems.

## 3. The runs

| Run | Instance | States | Shows |
|---|---|---|---|
| payment_lifecycle | a call and its retry, two visits, one order, two providers, aborts anywhere | 182512 | `AtMostOneCharge`, `FinishedMeansCaptured`, `CheckoutIsTheWinner`, `OneOutcomeAnnounced`, `LogsTellTheTruth`, `SettledStaysSettled`; PaymentContract is implemented |
| payment_live | the same with one visit and a provider that settles later | 138440 | `PendingEnds` |
| routing | three coroutines, threshold 2; three providers, five rule lists, three chains, three weightings; two requests, three graphs (two valid), three version rows; three acts on a canvas that is empty, a branch on the price or the checkbox, or a cycle, with two nodes to drop | 637330 | `CountIsExact`, `QuarantineIsEarned`, `OvershootBounded`, over Redis failures and restarts; `CandidatesAreFiltered`; `OnePublished`, `ConfigNamesPublished`, `ConfigIsValid`, `PublishedIsKept`, RoutingContract is implemented; `PanelIsStricter`, `CanvasIsStored` |
| gateway | three POSTs with threshold 2; two requests, two synchronisations, one change, one queued job, ticks up to 4 | 5445316 | `CounterNeverOverstates`, `AnswersAreFresh`, `RefusalsAreEarned` |
| portal_pages | two to four visits or acts on each page, three for a merchant's data and logo; two environments, three merchants on pages of two, three endpoints and one announcement | 3421962 | `LiveIsWhatWasSent`, `PagesAgree`, `KeyInForceIsKnown`, `ShownIsStored`, `LogoIsThere`, `ListIsWhatFormSays`, `EveryEndpointIsTried` |
| web_pages | one product, one payment and two mounts of the list; four webhooks of three payments and a file of two; eight graphs of five nodes; one export, two workers, two polls and three faults; one mail | 731153 | `OrderIsWhatWasCharged`, `TerminalIsShown`, `RecordsAreUnique`, `RestoredAsLeft`, `DownloadIsThere`, `ExportEndIsShown`, `MailedOnce`, `MailEnds` |

Why the bounds are enough:

* properties of one order do not depend on other orders (only `usage` is shared); a duplicate needs two calls,
  a race of outcomes two visits, a failover two providers;
* two coroutines deadlock or overshoot, a third records between them; two requests race for a publication, and
  three version rows allow a creation that died before its snapshot, a number used again, and a publication;
* three posts are two that trip and one pending or after a restart; two requests and two synchronisations are
  enough for each to fall between the other's reads and writes; ticks go to 4 because the bound to be exceeded
  (`AuthTtl + Latency`) is 3;
* pages are limited by the visits or acts they may make (`MaxActs`, `MaxKeyVisits`, `MaxFormVisits`,
  `MaxListVisits`, `MaxHookActs`): two overlap or interrupt, a third sees what they left. A merchant's data are sent
  three times (`MaxInfoVisits`): the first stores a logo, two more overlap over it;
* graphs of five nodes have a column of three, a node nothing reaches and edges listed against the ranks;
* mails to different mailboxes or about different occasions do not depend on each other, so one is enough
  (which recipients a limit leaves out is therefore not exercised); exports do not depend on each other either,
  and three faults use up the three attempts of one (`RefuseAttempt`, `GivesUp` and the status failed are reached); two
  polls are answered out of order;
* a file limited to two records and four webhooks of three payments, two of one: a duplicate, a record pushed
  out, and one that comes back.

Bounds inside guards are `MaxVersions`, `MaxTime`, `MaxChanges`, `MaxJobs`, `MaxSteps` (the simulators' own) and
the `Max...` of the pages; they are constants, named where they are used.

`CHECK_DEADLOCK FALSE` is set where the system may stop: calls and visits are made once, a plan ends, a page
may be left alone.

Symmetry is used between calls, between visits, coroutines, requests, valid graphs and synchronisations, never
with a liveness property.

### Fairness

* `payment_live`: weak fairness of the steps of a call that started (a provider call has a timeout of 15s, a
  webhook of 10s, and every branch that follows is taken or raises) and of `Expire` (hourly). Nothing is assumed
  of customers, providers, merchants or new calls.
* `recording_ends`: weak fairness of recording: the event loop schedules what is ready and Redis answers.
* `web_pages`: `ShopFairness` (timers fire, polls are answered or fail), `ExportFairness` (workers take jobs and
  go on, the page's timer fires, its polls are served, and an answer that was sent arrives), `MailFairness`
  (workers go on). Workers may die and attempts throw, within `MaxFaults`; a job has three tries, so no fault
  can be repeated for ever.

### Where the code disagrees with its documentation

Each of these runs checks one statement of a comment or document, and TLC shows a behaviour of the code
that violates it.

| Run | Statement | What happens |
|---|---|---|
| cancelled_capture | CANCELLED is before capture (payments/app/enums.py:12) | a customer pays, then opens the cancel URL; the provider is not asked. Or PayPal's capture runs for a cancelled row |
| recording_ends | after a recorded failure the next candidate is tried (docs/ARCHITECTURE.md:473) | a statement that waits for the row lock blocks the event loop, and with it the coroutine that holds the lock and awaits Redis |
| available_after_quarantine | a provider is available when neither the Redis key nor `disabled_until` says otherwise (docs/ARCHITECTURE.md:604-606) | two failures put the provider into quarantine; both the key and `disabled_until` pass, and the status still excludes it (health.py:53). Only a success changes the status, and a provider that is not called has none |
| outcomes_own | the outcome tracked is the actual status the payment service returned (gateway-verification/app/routes/payments.js:26) | two POSTs register their listeners on the one proxy; the answer to the first fires both, and the second request's own answer is heard by nobody |
| weights_decide | weighted routing distributes by weights and a hash (docs/ARCHITECTURE.md:351) | the weights arrive parsed, `str()` of them is not JSON (engine.py:113), and `_weighted_order` is given none: the order is that of the list |
| gateway_forgotten | a revoked key is rejected on the very next request (gateway-verification/app/routes/internal.js:33) | a request that selected the row before the invalidation stores the profile after it |

Further observations made while modelling; they have no run of their own.

Payments and routing:

* a late return or cancel rewrites an expired payment: EXPIRED is not among the terminal states
  (provider_callback.py:170; docs/ARCHITECTURE.md:324 calls it final), and an expired payment may be paid;
* a Stripe session that is complete and unpaid finishes the payment (provider_callback.py:71); `SettlesLater` is
  the exception in `FinishedMeansCaptured` for it;
* a retry during creation is answered without a checkout URL (payment_creation.py:56; ARCHITECTURE.md:629);
* `str()` of a parsed JSONB value is not JSON, so not only the weights but a configured chain and a rule's
  conditions are empty, too (engine.py:196; ARCHITECTURE.md:350);
* the breaker may open on a reply older than the last success (circuitBreaker.js:14);
* a log row or a webhook is lost when the process dies after the outcome's commit (provider_callback.py:199);
* a delivery interrupted by a crash stays pending for ever, and the webhooks page counts it as failed;
* the webhooks page documents `payment.cancelled`, which its form cannot subscribe to.

Routing pages:

* a route in order mode is refused by validation when it is made live; the failover switch is ignored there;
* the admin's summary lists a drawn route's providers in the order of the array, the merchant's by priority, with
  paused ones; `PagesAgree` says how far they agree;
* a provider drawn twice, once in use and once paused, is on the merchant's card twice and deployed once, which
  `PagesAgree` excepts (`Apart`);
* a degraded provider raises the alarm on the merchant's strip only;
* the panel's simulation and the server's part where a condition has no value (the server passes over it), a text is
  no number (0 for the server), or the checkbox is asked for ("true" and "1"); `PanelIsStricter` says that they part
  nowhere else, and that a typed value never meets a condition in the panel alone. The providers they name for
  a split may differ, since each hashes something else;
* a save or a roll back whose visit was interrupted may reach the server after a later one, or after the builder was
  opened again, and replace what the page shows as stored (`overtaken` in `CanvasIsStored`);
* a publication of a graph saved between its validation and its update stores the other graph in its version row;
  the configuration is the validated one (RoutingWorkflowService.php:79);
* a second visit between the save and the publication of "Make it live" may publish something else;
* the admin's builder and the merchant's page write the same `canvas_layout`: whoever is last replaces the other's;
* the wizard, used where a route exists, renames it and makes a published one a draft;
* Clear does not cancel a debounced filter, and a late answer closes whichever drawer is open;
* the merchant's "reset layout" is always refused ({} does not pass `required`), and a drag during a save is
  marked saved by its answer.

Accounts and keys:

* after the banner was put away once, secrets of later keys are not shown until the page is mounted again;
* a rotation that overlaps a creation works on the key loaded before its transaction; `KeyInForceIsKnown` holds
  without interruptions;
* an update that fails between deleting the old logo and saving the row leaves a record that names no file;
* choosing "suspended" needs an icon Merchants/Edit.jsx does not import (line 895), so the page fails to render;
* a provider's row never takes over a status from new props; an unsaved choice survives Cancel;
* paging in three of the lists drops the filters or springs back (`ListPages` has each list's behaviour).

Mails, exports, store and CMS:

* an export that takes longer than the reservation of 90 seconds runs several times at once and may be shown
  failed and completed in turn; a failing mail after completion turns a finished export into a failed one;
* an attempt that was overtaken and throws puts its payload back a second time; the last attempt of the two to start
  may then find itself without one and leave the row "running" (`doubled` in `ExportEndIsShown`);
* an answer of a poll from before an export was asked for takes it off the page, and nothing brings it back;
* an export whose dispatch fails, and a mail whose worker dies between recording and queueing, wait for ever;
* the scan reads settings, preferences and recipients in three queries, so a save in between may mail a new
  recipient an event nothing asked for; events that are listed and not sendable are never mailed;
* closing the dialogue does not cancel its request: the order is remembered, and paid or not, later;
* CANCELLED and EXPIRED payments are polled for ever; two tabs overwrite each other's localStorage;
* an empty or broken `payments.json`, read by a webhook, ends the CMS process, though README.md:138 of the CMS
  promises a stored record; of two concurrent webhooks one record may be lost from the list, and a crash after
  the list is written and before the event is appended loses it from the log (server.js:234-235); a mail is sent
  again when its worker dies before recording it.

## 4. The proofs

The theorems hold for every value of the constants, from the named assumptions of the modules: calls and visits
are disjoint and each is about an order (`ProcessAssumption`), orders and coroutines are finitely many
(`OrderAssumption`, `CoroutineAssumption`: they are counted, and there is a coroutine), the provider sets are
sets of providers (`ProviderAssumption`), valid graphs are graphs (`GraphAssumption`), a health threshold
exceeds one, a breaker's is positive and the posts are finitely many (`ThresholdAssumption`, `PostAssumption`),
times to live are positive (`TtlAssumption`), plans are not statuses (`PlanAssumption`), an endpoint list is a
sequence (`EndpointAssumption`), bounds are numbers, the store's file holds at first one record of a payment
(`RecordsAssumption`), a shop's cart starts as one it can have and prices are numbers (`ShopAssumption`),
provider names are distinct (the column is unique, `NamesAssumption`), weights are natural numbers and rules are
rules (`WeightsAssumption`, `RulesAssumption`), the graphs and nodes a canvas may start with or be given are
well formed (`DrawingAssumption`), as are the routes a page may start with (`RoutesAssumption`), texts are read
as `ReadAlike` says (`TextAssumption`), and what stands for nothing is nothing else (`NobodyAssumption`,
`NaNAssumption`).

| Theorem | Says |
|---|---|
| PaymentLifecycleProofs!CheckoutInvariant, TypeCorrect | `[](TypeOK /\ CheckoutInv)` |
| PaymentLifecycleProofs!ChargedOnce, Settled | `[]AtMostOneCharge`, `SettledStaysSettled` |
| PaymentLifecycleProofs!FinishedCaptured | `[]FinishedMeansCaptured` |
| PaymentLifecycleProofs!KeepsContract | PaymentLifecycle implements PaymentContract |
| PaymentLifecycleProofs!AnnouncedOnce, LogsTrue, WinnerStored | `[]OneOutcomeAnnounced`, `[]LogsTellTheTruth`, `[]CheckoutIsTheWinner` |
| ProviderHealthProofs!HealthTypes, CountExact, QuarantineEarned, OvershootIsBounded | the types, `CountIsExact`, `QuarantineIsEarned`, `OvershootBounded` |
| RoutingWorkflowProofs!WorkflowInvariant | the inductive invariant |
| RoutingWorkflowProofs!PublishedOnce, ConfigNamed, ConfigValidated, PublishedKept | `OnePublished`, `ConfigNamesPublished`, `ConfigIsValid`, `PublishedIsKept` |
| RoutingWorkflowProofs!DeploysByContract | RoutingWorkflow implements RoutingContract |
| GatewayProofs!GatewayTypes, CounterHonest | the types, `CounterNeverOverstates` |
| GatewayProofs!FreshAnswers, EarnedRefusals | `AnswersAreFresh`, `RefusalsAreEarned` |
| RoutingEngineProofs!RoutingTypes, FilteredAreTried | the types, `CandidatesAreFiltered` |
| WorkflowEditorProofs!StoredAsDrawn, SimulatedStrictly | `CanvasIsStored`, `PanelIsStricter` |
| WebPagesProofs!MailedAtMostOnce, LayoutRestored, RecordsUnique | `MailedOnce`, `RestoredAsLeft`, `RecordsAreUnique` |
| WebPagesProofs!FileIsThere, ChargedAsConfirmed | `DownloadIsThere`, `OrderIsWhatWasCharged` |
| PortalPagesProofs!EndpointsTried, RowsAreAskedFor | `EveryEndpointIsTried`, `ListIsWhatFormSays` |
| PortalPagesProofs!PublishedAsSeen, LogoIsOnDisk | `LiveIsWhatWasSent`, `LogoIsThere` |
| PortalPagesProofs!StoredIsShown, IssuedKeyIsKnown | `ShownIsStored`, `KeyInForceIsKnown` |
| PortalPagesProofs!PagesTellAlike | `PagesAgree` |

Every safety property a passing run checks is proved.

*Payments.* `AtMostOneCharge` is not inductive: nothing in it says why a second session cannot be paid.
`CheckoutInv` does: the row has one owner, only the owner stores a checkout, it does so once, a customer knows
a page only from an answer, which is the stored checkout, so a session is completed only there. It is
inductive together with the types, and the types need it (a call in the loop has a candidate).
`SettledStaysSettled` follows step by step: who stores a checkout owns a row that has none. For the refinement
`VisitInv` adds that a verifying visit asks the provider the row names, that complete means approved or
settling later, and that the row of a creating call is pending. The refinement mapping takes `status` and
`checkout` as they are and `paid` as the providers whose session is paid; `StepForward` says that sessions
only move forward, so a step either pays the stored checkout (`Charge`, or part of `Settle`) or nothing.

*Outcomes, logs, usage.* `EventInv` adds that an announced outcome is what the row says; since a settled row
stays settled, whoever announces found it open, so nobody had announced before (`EventInvStep`). With it the
logs follow: a visit logs what it announced, a call reaches a provider only over `sending`, which logged the
request (`LogInv`). For `CheckoutIsTheWinner`, `AttemptInv` says that a call in the loop has lost every attempt so
far and one past it has won exactly one; `CreatingIsAlone` lets a step be judged on its own order. `UsageInv`
counts: orders counted are at most `usage`, and `usage` with those due to be counted is at most the orders won;
each step moves at most one order from won to due to counted.

*Health.* The inductive invariant is `HealthTypeOK /\ LockInv /\ CountIsExact /\ QuarantineIsEarned`. Without
`LockInv`, the count read at the SELECT could be stale when it is written. For `OvershootBounded`, `LateInv`: in a
quarantine nobody is admitted, so the failures recorded in it and the coroutines still under way are together
fewer than all coroutines, the one whose failure began it having been used up.

*Routing.* What holds of a part's own specification holds of the composition, which lets no other step touch its
variables (`WorkflowPart`, `EnginePart`). The inductive invariant is the conjunction of `WorkflowTypeOK`,
`RequestInv` (what a stale copy can still say), `OnePublished`, `ConfigNamesPublished` and `ConfigIsValid`.
`OnlyPublishDeploys` and `PublishSteps` reduce both action properties to what a publication does.

*Gateway.* Breaker: every failure that was recorded and is not counted any more was forgotten by a later
success, and replies to INCR not acted on yet are counted by `trips`. Cache: what a request or a synchronisation
has read is at least as new as its start, which is at most `Latency` old when it writes; what it writes expires
a time to live later; so `held` bounds the age of what an entry says, whoever wrote it, and `refused` that of a
marker.

*Mails.* A mail that went out and is not torn is recorded, or its one attempt is about to record it, and who
starts an attempt of a recorded mail leaves it at once. *Layout.* `Keeping`: a save that overtook none is the only one
on its way, and it or what is stored has the places on the page, until its answer says so; requests of interrupted
visits are in the invariant too, since they may still be served.
*Records.* `Distinct` of the file alone is not inductive, since a handler writes what it made of an older list;
`CmsInv` has it of every handler's list too: each was merged, or cut, from a list that was read whole, and what
a torn write leaves does not parse, so it is read by nobody.
*Endpoints.* Of the endpoints selected, one that is not left to do and not at work was tried; none is sent the
event before its turn, so none is sent it twice.

*Routing engine.* What the orderings compute is proved by induction on their lists. The library's induction
theorems that take an operator cannot be instantiated, but the one about a set of numbers can: `NatSet` says that
a set which holds 0 and with every number its successor holds all of them, `Recursion` and `BoundedRecursion`
that a recursive function has the values its equation says. `WithinKeeps` and `NamedSelects` then describe the
two loops, `OrderPermutes` and `WeightedPermutes` show that every ordering is a permutation, and with
`RoutingInv` (`AskedInv`: what was filtered are asked providers, each once; `PlanInv`: a decided plan permutes
them) the plan loses and invents nobody.

*Editor.* `SavedInv`: nothing that would replace the stored graph is on its way when the canvas is known to be
saved, and while it is being saved the one request under way, an interrupted visit's or not, carries the canvas;
`overtaken` is the case in which that cannot be said. `GraphsInv`: every graph drawn, stored, kept or on its way is
made of conditions whose texts are read as `ReadAlike` says. Both simulators follow edges by the same rule and
decide conditions differently: `PanelHolds` and `PanelMatches` show, operator by operator, that on a typed value
the panel finds no condition met that the server does not. The two walks are recursive functions, compared by
induction over their steps (`WalkSteps`, `ForkBegins`, `ForkKeeps`): they are equal until a first node where the
decisions differ, and what follows never joins them again in the same place.

*Drawer, keys, merchants, lists.* The properties of drawer, keys, statuses and lists fail when a visit is
interrupted (a second visit may be served before the first), so they are stated for as long as none was, and
their invariants say what one visit at a time brings: answers that come late, refusals, edits and clicks in
between. `LiveInv`: who asks to publish a graph has saved it, and nothing was stored since. `KeyInv`: a request
of the service works on keys as they are, and the secret of an environment's last key is seen, unseen or coming
(in a flash message or an answer). `ShownInv`: a row shows what is stored, or the update that will store it is
under way, and none that assigns is. `ListInv`: the number of the visit under way ties the form to what was
asked. `AccountInv` needs no such condition: a logo missing on the disk is about to be replaced by the update
that deleted it, which loaded the record that still names it.

*Pages of a route.* Three programs filter before they sort, sort before they filter, or filter twice. A list is
described by the places it takes from the nodes and an order of them (`Picks`); both are unique for a finite set of
places in a strict order (`OneEnumeration`), so lists that pick the same places in the same order are equal
(`PicksAlike`). `OnlyPicks`, `ByPriorityPicks` and `PicksCompose` say what a filter, a sort and one after the other
pick, so `MerchantSeesChain` and `AdminSeesChain` compare sets of places. They need that a node has a priority that
is a number, which `CardsInv` says of every route that is stored, listed, drawn, on its way or kept as a version.

*Exports and store.* `DownloadInv`: an attempt that is past its writing has left its file under its own
number, and no step takes one away, so overlapping attempts cannot. `ShopInv`: a call that was answered was
charged for the items it took with it, and each payment's call is over once its order is listed, in the state
and in localStorage.

Model-checked only: liveness (`PendingEnds`, `TerminalIsShown`, `ExportEndIsShown`, `MailEnds`) and ENABLED,
outside this prover's reach.

## 5. What the models leave out

* PaymentLifecycle: one webhook endpoint per merchant (WebhookEndpoints has several); `provider_status`; the
  update of the log row in payment_creation.py:451-474 is part of `StoreCheckout`; the order of candidates; a
  pending row is not expired while its creation runs (the time to live is 24 hours); pool sizes.
* Routing: the parts are explored one at a time; a plan made while failures are recorded sees one answer per
  question, as in `Ask`.
* ProviderHealth: `timeout_count`; `Threshold = 1`; several processes (the container starts one worker).
* RoutingWorkflow: one merchant and environment (the UI sends the environment it loaded); names, canvas
  layout, `validation_errors`, audit log; `validateWorkflow` is the predicate `Valid` (WorkflowGraph has it in full).
* CircuitBreaker: Redis outages; times (the open key may expire at any moment).
* GatewayCache: one key and one merchant; profile columns other than status and plan.
* RoutingEngine: a rule's conditions are met, unmet or blank; the hash is a token; log lines.
* Pages: wording, colours, sorting that no property is about, folds on the webhooks page, the filters of an
  export, the templates of mails; requests of the routing pages are one step at the server (RoutingWorkflow
  interleaves their statements).
* Not modelled at all: credential lookup, payment queries, request schemas and session plumbing, the RabbitMQ
  client (nothing publishes), dashboards, analytics, subscriptions, a payment's page, layouts, translations, the
  activity feed, the public site: reports, single writes or presentation. nginx, containers and CI: deployment.

## 6. Plan

Done: the payment service with its contract and all proofs of it; health; the routing engine; routing
administration with its contract, editor and pages; the gateway; the pages of both portals; exports, mails,
store and CMS; and proofs of all their safety properties.

Next, most important first:

1. An abstract specification of the exports (an export ends once, with a file or without), to say exactly how
   overlapping attempts break it.
2. A composition of ProviderHealth and RoutingEngine in which both move: a plan made while failures are recorded.
3. Subscriptions, once they are more than single writes.
