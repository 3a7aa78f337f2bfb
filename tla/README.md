# Verification of dengdeng

dengdeng is a gateway that resells access to upstream AI models. One Go process
(`backend/`, Gin + GORM on SQLite or PostgreSQL) authenticates API keys,
pre-authorises money and quota for each call, takes concurrency slots, picks an
upstream account, relays the call and settles its cost. Around that core it
sells balance (orders and refunds over five payment providers), pays referral
commission, signs users in, refreshes upstream credentials, makes backups and
updates itself. Two browser applications use its HTTP API: the console
(`frontend/src`, Vue), in which users and administrators run the site, and the
workbench (`frontend/workbench`, React), a canvas on which images, texts, videos
and sounds are generated with a key of the site.

This directory holds TLA+ models of the parts where money, slots or work can be
lost to interleaving, failure or order, the TLC configurations that check them
on small instances, and TLAPS proofs of the most important results for every
instance. `PROJECT.json` maps every definition to the lines it models and lists
the runs, the mutants that show each property can fail, the hazards and the
findings.

## What the checks found

Two runs expect a violation: each checks one sentence of the repository's own
comments or documents and finds a trace of the code against it.

| Run | What happens |
| --- | --- |
| `order_refund_stale` | `FinalizeRefund` applies the answer about an earlier, failed refund to a second refund that has begun since, and returns its hold. The guard (`status = REFUNDING`) cannot tell the two apart. |
| `canvas_switch` | Creating a canvas from an open canvas navigates from one `:id` to another without unmounting the page: the autosave effect of that commit stores the nodes on the screen under the new id, and a restore of the first canvas that is still under way shows its nodes there. |

Further disagreements met while modelling, which no run is spent on. They are
excluded by name from the properties below, or need a case the bounds leave out.

*Backend.* `ProcessRefund` takes every error of the provider call for a rejection
(`payment.go:506`): if the call timed out after it was accepted, credit and money
are both returned. The reconciler marks an order `FAILED` on an answer that need
not be final (Stripe's `requires_payment_method`) and never asks again
(`payment.go:799`). A call that costs more than its estimate and the balance
empties the balance, the comment says it goes negative; the rest is unpaid but is
part of the commission base (`billing.go:15`, `180`). An administrator's call
settles commission, the comment says it does not (`billing.go:206`). The answer to
a query of a payout has no package, and `applyTransferResult` erases with it the
package the recipient confirms with (`referral_cash.go:577`). A comment of the
scheduler (`scheduler.go:119`) has failures update the snapshot before the next
request is selected: a pick that read the rows before the failure was written, and
installs them after, forgets it until the next load; and `Release` wakes the queue
before the failure is reported (`gateway.go:1154`), so the first to wake may be
given the account that has just failed. `RowsSeenInTime` claims what is true, that
both end with the TTL.

*Console.* `Known` in `Console.tla` names them by view and handler. Twice: a
creation sent again by a second press (proxies, redeem codes, silences, the
rotation of a key, the import of accounts). Overwritten: the skill library sends
its whole selection at each toggle. Incomplete: a user saved before his rates have
arrived loses them. Closed, filled, replaced, misdirected: an answer that reaches
another opening of the form than the one it was asked from; in the keys view the
secret of one key is so shown in another's setup, in the users view the second
request of a save goes to whom the form is now about. Leaks: an answer sets the
timer of a view that has been left. Besides: a list answered out of order shows
older rows in nearly every view (`crossed`); a failed poll of the updates view
stops its polling for good (`PollsStopped`); a 401 that answers a request with an
old token clears the new token; edits typed while a settings save is in flight are
overwritten by its answer.

*Workbench session.* Choosing a key while another is still connecting lets the
last answer win, not the last choice (`crossed`). Signing in as another account in
another tab shows that account's balance while the old account's key pays
(`switched`). "Session expired" answers of `middleware/auth.go:38` do not match
the expression with which `refresh` recognises them, so the page offers a retry
that cannot help. A key without image models still sends images, for the default
model. One failed poll abandons a video the provider goes on making.

*Canvas.* Retrying one failed image while its siblings are still generated aborts
them, and they spin for ever. Generating again after `runningNodeId` moved leaves
the first result loading, and as there is one `runningNodeId` a run may be
impossible to stop. Stopping an image edit resets the batch it started from
although its items still arrive. A reference that cannot be read rejects outside
the `try`: the request and the stop button stay. `clearCanvas` and undo do not
reset the reference picker, uploads and edits of a deleted node still connect to
it: edges to nodes that are gone. An asset removed beside an open canvas, and a
sweep asked for before an undo, collect images only the undo history holds
(`excused`). A double undo before its timeout loses an entry, an undo within 180
ms of an edit loses the edit. A result that arrives while the mouse is down on a
node that is then not moved is saved only with the next change (`skipped`).

Everything else that is checked holds.

## Inventory

For each part: its state, its operations, how it meets the others, what is hard,
and what makes it correct. "M" marks what is modelled now, "P" what the plan
below has left, "-" what is out of scope.

**Gateway: pre-authorisation and settlement (M).** `gateway/gateway.go`,
`service/billing.go`. State: `users.balance_micro`, `balance_held_micro`,
`remaining_requests`, `access_expires_at`; `api_keys.quota_*`,
`daily_quota_*`; the sum of today's `usage_logs`; the goroutine's own view of
its call (`authedKey`). A call goes through `authenticate`, `relay`,
`reserveRequestQuota`, `reserveUsageBudget`, the attempt loop, and ends in
`BillingService.Record` or in deferred releases. The same rows are written by
orders and refunds, redeem codes, administrators, key edits and `store.Open`.
Hard: calls run in parallel, every step is a transaction of its own, decisions
are made on copies read earlier, releases may fail, the process may die.
Correct: nothing is reserved twice, released twice or left held; one means of
payment per call; what is billed is what is paid; limits hold in sum.

**Client concurrency limiter (M).** `service/concurrency_limiter.go`. State:
active calls by user and by key, queue length, a notify channel. Operations:
`Acquire` (with timer and cancellation), `Release`, `signal`. The gateway
acquires before it reserves a budget. Hard: wake-ups lost between the unlock of
`Release` and the lock of `signal`; a timer that fires together with a wake-up.
Correct: counters equal what is held, limits hold, nobody waits for ever.

**Payment orders and refunds (M).** `service/payment.go`. State:
`payment_orders`, `payment_ledger_entries`, the buyer's balance, and what
handlers remember while a provider call is out. Operations: `CreateOrder`,
`VerifyOrder`, `CancelOrder`, `RequestRefund`, `ProcessRefund`,
`FinalizeRefund`, `HandleWebhook`, `ExpirePending`, `ReconcilePending`. Hard:
callbacks twice, late, out of order or never; handlers that apply an answer to
an order that moved on; provider calls that fail after they took effect;
crashes. Correct: credited once, only against a matching payment; the ledger
agrees; refunded credit cannot be spent; a payment is noticed without callback.

**Payment provider adapters (M as an environment).** `payment/provider/*.go`:
which answers `Query`, `Cancel`, `Refund`, `QueryRefund` and callbacks can give.
Signatures and encodings are not modelled.

**Relay attempt loop, failure classes, protocol adapters (M, partly -).** The
loop of `relay` over the groups of a route and their accounts: what ends an
attempt, what failure cools what, and the point after which no fail-over may
happen. In `UsageBudget` it is one step. Hard: many exits, each of which must
give the slot back. Correct: an account's slots are the calls it was given; no
call is sent to one account twice; every call ends. Protocol conversion is a pure
function on payloads and out of scope.

**Account scheduler (M).** `service/scheduler.go`: a snapshot of each group's
rows, in-flight counts, cooldowns of accounts, circuits of models, a queue with
a notify channel, and the goroutine's own `pick`. It reads `upstream_accounts`,
which its reports and administrators write. Hard: the snapshot is rebuilt from a
read made outside the lock, by several calls at once; a queued call captures its
channel once. Correct: what was written a TTL ago is obeyed, slots and queue are
exact, nobody waits for ever.

**Referral commission and cash payout (M).** `service/referral_cash.go`,
`settleReferralCommission`. State: `referral_commissions`,
`referral_cash_accounts` (pending, available, locked, paid),
`referral_payout_accounts`, `referral_payouts`, and what a goroutine remembers
while a transfer call is out. Operations: accrual (in the gateway's settlement),
`ReleaseMatured`, `SavePayoutAccount`, `ReviewPayoutAccount`, `RequestPayout`,
`ApprovePayout`, `RejectPayout`, `dispatchPayout`, `QueryPayout`,
`HandleWxPayWebhook`, `ReconcileOpenPayouts` every 30 seconds. Hard: a crash
between request, claim and submission; submissions that fail after they took
effect; results late, repeated and in any order; accounts edited meanwhile.
Correct: commission is conserved, a bill is submitted once and to whom it was
promised, it is settled as its transfer ended, and it is settled.

**Redeem codes (M in effect, P in single use).** `UserHandler.Redeem`.

**Upstream credentials (P).** `oauth/oauth.go`: refresh under a per-account
lock with tokens that rotate.

**Console authentication (P).** `handler/auth*.go`: one-time codes, lock-out,
OAuth login states. **Backups and updater (P).** `service/backup.go`,
`service/update.go`: records left by a crash, retention, the request file.
**Monitoring, alerts, notifications (P).** Trigger, run, deliver at most once.

**Settings, policies, prices, catalogue (-).** Read and written whole; their
values appear as constants or choices. **Persistence (partly M).** Only the
clearing of stale holds at start. **HTTP server, middleware, configuration,
encryption, importer, deployment scripts (-).** Parsing, pure functions, shell.

**Console views (M).** `frontend/src/views`, `api/client.ts`. State of a view:
its rows, page and filters, open forms, busy flags, timers. Operations: one
handler per button, mount and timer. They share nothing but the server: `request`
has neither time-out nor cancellation, so answers come in any order, also after
the form or the view they were asked for has gone. Hard: a second press, an answer
that finds another row in the form, a poll that dies. Correct: rows show the
changes that were answered, flags are up exactly while something is to lower them,
answers reach only the form they were asked from, waiting ends.

**Canvas workbench (M).** `workbench/src/pages/canvas`, `lib/canvas`,
`stores/canvas`, `services/image-storage.ts`. State: nodes, connections, groups,
batches; the registry of generation requests and the one running node; the undo
history with its timers; the projects in memory and in IndexedDB; stored images.
Operations: every editing handler; generate, retry, stop, edit an image; autosave,
undo, open, switch, delete; uploads and the collection of images nothing refers
to. Hard: a result is written by id into a document that was edited, undone or
reloaded meanwhile; sweeps read, wait and delete; the store is written late.
Correct: the document stays well-formed, every live run can be stopped, what is
shown as generated was generated, no image in use is collected.

**Workbench session and model requests (M).** `workbench/src/dengdeng`,
`stores/use-config-store.ts`, `services/api/image.ts`, `video.ts`, `audio.ts`.
State: account, keys, the chosen key, the credential and model catalogue; requests
with their abort signal. Operations: refresh, select a key or a model, reload,
sign in or edit keys elsewhere; image, edit, streamed text, polled video, sound.
Hard: five awaits during which everything may change; streams cut anywhere; polls.
Correct: the key shown is the key that pays, a request keeps its credential, a
stopped request sends nothing more, the page comes to rest.

**Front-end parts not modelled (-).** See "Not modelled".

## Modules

| Module | Models | Extends / uses |
| --- | --- | --- |
| `Holds` | sums over a set of relays or orders, the clipped SQL subtraction | |
| `UsageBudget` | a call from authentication to settlement, and who else writes the rows | `Holds` |
| `ConcurrencyLimiter` | `Acquire`, queue, `Release`, `signal` | |
| `Scheduler` | snapshots, selection, queue and reports of the account scheduler | |
| `Relay` | the attempt loop of a call over that scheduler | `Scheduler` |
| `CreditAccount` | what the recharge subsystem promises (abstract) | `Holds` |
| `PaymentOrder` | orders, handlers, provider, reconciler | `Holds`; `INSTANCE CreditAccount` |
| `ReferralPayout` | commission, payout accounts, payouts, handlers, transfer service, reconciler | `Holds` |
| `CanvasGraph` | the document a canvas edits: nodes, connections, groups, clipboard | |
| `CanvasGeneration` | generation, retry, stop and edit of results on that document | `CanvasGraph`; `INSTANCE CanvasGraph` |
| `CanvasProject` | load, edit, undo, save and clean up: page, stores, IndexedDB, images | |
| `ConsoleViews` | the handlers of 26 console views as records | |
| `Console` | the machine that runs one view | `ConsoleViews` |
| `ImageSize`, `StreamText` | pure: the size sent for an image, the reading of a streamed text | |
| `KeySession` | the workbench's session, keys, credential and model configuration | |
| `ModelRequests` | image, text, video and sound requests over that session | `KeySession`, `ImageSize`, `StreamText` |
| `MC*` | instances for TLC | the module they name |
| `HoldsProofs` | lemmas about sums | `Holds` |
| `UsageBudgetProofs`, `PaymentOrderProofs`, `ReferralPayoutProofs`, `ConcurrencyLimiterProofs`, `RelayProofs`, `CanvasGenerationProofs` | theorems | the module they name, the first three `HoldsProofs` |
| `WorkbenchProofs` | theorems | `CanvasProject`, `KeySession`, `ModelRequests` |

Common conventions. An action is one database transaction or statement, or one
critical section, or one run of JavaScript between two awaits, or one answer of
the outside world; a goroutine's program counter is `pc` (or `job`/`reply`), its
locals are functions on goroutines. A refusal that changes nothing is not a step.
Ghost variables are named as such where they are declared. A definition whose
comment calls it a slip (or a mutant) is a plausible bug, used only by the mutant
runs.

`Holds` deserves a word: the sum of `f` over a set is written as the number of
elements of a union of disjoint sets, so that the finite-set lemmas of the
library prove facts about sums without induction (which the provers at hand
cannot do).

### UsageBudget and the code

| State | Code |
| --- | --- |
| `balance`, `held`, `remaining`, `access` | columns of `users`; `access` is "`access_expires_at` is in the future" |
| `quota`, `daily`, `used`, `keyHeld`, `dayHeld` | columns of `api_keys` |
| `usedToday` | `SUM(cost_micro)` of today's `usage_logs` of the key |
| `pc`, `rkey`, `pass`, `ticket`, `est`, `res*` | the goroutine: where in `relay` it is, its `authedKey` (`AccessActive`, `RequestReserved`, `Budget`) |
| `deposited`, `charged`, `logged`, `granted`, `spent`, `lost`, `leak*` | ghosts: what came in, what was billed, and what faults lost |

| Action | Code |
| --- | --- |
| `Authenticate` | `authenticateWithOptions`: key limits, entitlement |
| `TakeRequest`, `MissRequest`, `Recheck*`, `SkipRequest` | `reserveRequestQuota` and what `relay` does without a card |
| `ReserveBudget`, `RefuseBudget` | `reserveUsageBudget`, one transaction that locks the key row first |
| `Abandon` | every exit of the attempt loop without a recorded success |
| `Settle` | `BillingService.Record`, one transaction |
| `ReleaseBudget`, `ReleaseFails`, `RefundRequest`, `RefundFails` | the deferred calls, in their order |
| `AddBalance` ... `SetKeyLimits`, `DayRollover`, `CrashRestart` | the other writers, midnight, and `store.Open` after a crash |

A call that is not billable writes none of these rows and is left out. An
estimate of zero reserves nothing, as in the code.

### ConcurrencyLimiter and the code

`users`, `keys`, `waiters` are the fields. `notify` is represented by who parked
on the current channel: `Signal` wakes exactly those. `Available` ... `Park` are
the branches of one critical section; `Retry` and `StopWaiting` the branches of
the `select`; `Dequeue` the deferred function. A call carries the limits it read.

### Scheduler, Relay and the code

| State | Code |
| --- | --- |
| `row`, `changed` | `upstream_accounts`: from when on the account may be picked (`cooldown_until`, or `Disabled` for any status but active); a ghost, when it was last written |
| `snap` | `groups[g]`: `loadedAt` and the entries' cooldowns |
| `inFlight`, `waiting` | the fields |
| `circuit` | what `modelFailures` says of the model asked for: closed, blocked, or due for a probe |
| `stage`, `group`, `tried`, `attempts`, `unavailable`, `account`, `result`, `verdict` | the goroutine: where it is in `relay`, `PickForSessionWait` or `pick`, and its locals |
| `started`, `hand` | the clock reading of `pick` and the rows or snapshot it holds |
| `queued`, `woken` | whether the call is in the queue, and whether the channel it captured has been closed |

A `pick` is `Look` (a fresh snapshot, or not), `Load` (the rows, with the lock
released), `Install` (unless a later one is there) and one of `Choose`,
`NoneRoutable`, `AllBusy`. It keeps the pointer it got: once another call replaces
the snapshot, this one goes by the old. `Enter` ... `StopWaiting` are the select of
`PickForSessionWait`. In `Relay`, `Fail` and `Finish` are the two places an attempt
gives its slot back; `Signal`, `ReportFailure`, `Write` and
`ReportFailureForModel` what follows a failure; `Succeed`, `ReportSuccess`,
`Repair` what precedes the answer to the client. `Advance` and `GiveUp` follow a
pick without an account. Which of several routable accounts is best is any of
them; a circuit recovers at any tick. A failure cools the account for `Cooldown`,
any positive time. `RowsSeenInTime` leaves one row open: that of an account which a
call used after the pick began and is about to write (`Rewriting`); between the
report in memory and the write to the row the snapshot of another group may know
less than the row of before.

### PaymentOrder and the code

A handler is a request goroutine or the reconciler. `BeginX` is what it reads or
claims before it calls the provider, a `Provider...` action is the call and its
answer, `ApplyX` is what it does with it. `asked` is the number it read from the
order (a trade number known or not, or which refund). Callbacks (`Webhook`) need
no memory and are one step; `notices` is the set of callbacks that exist, and as
they are never removed each may arrive any number of times, in any order, or never.
`Expire`, `TimePasses` and `Restart` complete the world. `PAID` is set and left
in one transaction and therefore no state. The order's clock is `fresh` (before
`ExpiresAt`), `due` (within 24 hours after it) or `late`.

The provider is external. What it answers is taken from the adapters: an open
payment is `pending` or `failed` (Stripe, WeChat), a closed one `failed`; a
refund call opens a refund, repeats itself where its number is derived from the
order, is rejected, or (`Uncertain`) fails although it took effect. A provider
has at most one live refund of an order.

### ReferralPayout and the code

| State | Code |
| --- | --- |
| `phase` | `referral_commissions.status`, with "pending and `available_at` has passed" as a phase of its own, `due` |
| `pending`, `available`, `locked`, `paid` | columns of `referral_cash_accounts` |
| `verified`, `openID` | `referral_payout_accounts`; pending and disabled accounts are both "not verified" |
| `status`, `minor`, `micro`, `package` | `referral_payouts`: status, `amount_minor`, `commission_micro`, whether `package_info` is set |
| `ledger` | `payment_ledger_entries` by event key |
| `job`, `payout`, `reply`, `sentTo` | the goroutine: which call is out, for which payout, its answer, the OpenID it read |
| `transfer`, `recipient` | the provider's side; `promised` is a ghost |

| Action | Code |
| --- | --- |
| `Accrue`, `Mature`, `Release` | `settleReferralCommission`, time, `releaseMaturedReferralCommissions` |
| `RequestPayout`, `ApprovePayout`, `RejectPayout` | one transaction each; the request releases what is due first, as the code does |
| `SavePayoutAccount`, `ReviewPayoutAccount` | by the user or an administrator |
| `BeginDispatch`, `Provider...`, `ApplySubmit` | `dispatchPayout`: claim, call, answer |
| `BeginQuery`, `Provider...`, `ApplyQuery` | `QueryPayout` |
| `Webhook` | `HandleWxPayWebhook` |

The request goroutine that dispatches after its own request or approval, and the
reconciler that finds the payout `QUEUED`, take the same `BeginDispatch`. Both
conversions between micro units and cents are modelled with their rounding. The
limits are positive; the code's "0 is unlimited" is not an instance. The
provider's states are the ones `transferState` names; one it does not name would
become `STATUS_UNCERTAIN`, which is queried like the others. A submission that
failed without an effect has none later. All payouts fall on one UTC day.

A transaction is atomic, which is what SQLite gives. On PostgreSQL's default
isolation two reads of `RequestPayout` (the day's total over all users) and one
of `SavePayoutAccount` (the open payouts) lock no row they compete for: the
daily limit and the recipient of a payout requested in the same moment are then
not protected. This is listed as a hazard and in the plan.

### CanvasGraph, CanvasGeneration and the code

A node keeps its type, the group it names, whether it has content, and `gen`: its
`metadata.status`, the marks of its items (`images`, `texts`), the primary item,
the item its content came from (`shown`) and the run that made the batch. Geometry
is a choice: a handler that looks for what is under the pointer takes any node its
filter admits. `jobs` are uploads and image edits under way with the node they
captured; `entry` is one undo entry.

| State | Code |
| --- | --- |
| `nodes`, `conns`, `picker`, `clipboard` | `nodes`, `connections`, `referencePickerNodeId`, `clipboardRef` |
| `runs` | the calls of `handleGenerateNode`, `handleRetryNode`, `maskEditImageNode`, `generateAngleNode`; a stage is what the call awaits |
| `requests`, `running`, `confirm` | `generationRequestsRef`, `runningNodeId`, the stop dialog |

| Action | Code |
| --- | --- |
| `Generate`, `Start`, `ImageArrives`, `Text...`, `Item...`, `Media...` | `handleGenerateNode` from the click to its `finally` |
| `Retry`, `RetryStarts`, `RetryStreams`, `RetrySucceeds`, `RetryFails` | `handleRetryNode` |
| `EditImage`, `ImageEdited`, `ImageEditFails` | the mask and angle edits |
| `AskStop`, `ConfirmStop`, `Canceled`, `ItemCanceled` | `confirmStopGeneration` and the rejected awaits |
| the actions of `CanvasGraph` | the handler of the same name |

`ImplementsGraph` shows that a generation changes the document only as `AddResult`,
`Rewrite` and `ExtractImage` of the graph allow. `Rewrite` may spend an edit, because
the buttons of a batch (`SetBatchPrimary`, `DeleteBatchImage`) are steps of the user;
an earlier form left `edits` alone, which two edits per behaviour did not show and
the proof of the refinement did. `AddResult` takes a root that was a
node at some time: `setNodes` maps over what is there, and a run may outlive its
root. `Upstream` follows connections backwards as a function of the number of
steps, so that proofs can read it; a retry takes any configuration it reaches.

### CanvasProject and the code

A document is reduced to the project it was made in, a revision and the images it
refers to. React runs the effects of a commit before any timer, so autosave and the
restart of the history timer are part of the action that changed the state.
`restores` holds what each `restore()` under way has read; `timer` and `applied`
are the 180 ms and 0 ms timers of the history; `store`, `disk` and `saveDue` the
zustand store, IndexedDB and the 400 ms write; `sweeps` the calls of
`cleanupImages`, with the roots they were given and read. `Crash` is the browser
stopping, or a reload, at any moment.

### Console, ConsoleViews and the code

`ConsoleViews` is the code's structure as data: for each handler of the 26 views
where it is called, what it sends, the flag it raises and those that keep it away,
what an answer or an error does, and the request that follows. `Console` gives the
records their meaning: `Enter`, `Leave`, `OpenForm`, `CloseForm`, `Press`, `Turn`
(page, filter, order), `Answer` (success or failure, any order), `Tick`, `EndJob`.
Rows are the set of changes of this visit that a list shows. Settings, ledger,
silences, logs and audit, which have lists of their own, are treated as views.
A wallet that lists a pending order waits for it (`adopt`), asks about it once before
its timer is armed (`WalletFirst`), and drops it by its button (`Drop`). Collapsed: the
two requests of a wallet's list.

### KeySession, ModelRequests and the code

`token` and `stored` are the shared `localStorage`; `session` and `config` the two
zustand stores; `calls` the asynchronous calls of the session, each with its stage
and the answer on its way. An account, key or other tab may change at any time
(`SignIn`, `Toggle`, `ChooseElsewhere`). A request of `asks` is a sequence of
awaits that an abort may end at any one. `StreamText` is a bounded check against a
reference: `Consume` over any chunks must give `Answer` of the events delivered.
`ImageSize` likewise: `RequestSize` against `SizeHonest`, which says what a size
should be without the arithmetic.

## Runs

| Run | Instance | States | Shows |
| --- | --- | --- | --- |
| `budget_core` | 2 relays, customer with keys k1 (quota 4, daily 3) and k2 (of a subscribed group), administrator; 3 calls, 1 edit, 1 fault | 519 000 | holds, cards and limits; commission follows payment |
| `budget_stress` | the same, 2 calls, cost above estimate, deducted or overwritten balances, edited key limits | 161 000 | holds drain under all of that |
| `limiter` | 3 calls at a time, 4 in all, user limit 1 or 2, one key limited to 1, queue 1 or 2 | 191 000 | slots and queue, wake-ups |
| `order_core` | 1 order, 2 request handlers + reconciler, every act of the payer, 2 refunds, lost answers, 1 crash | 448 000 | the order's life and its refinement |
| `scheduler` | 2 calls, 2 groups that share an account with 1 slot, 2 attempts, queue 0 or 1, TTL 1, cooldown 2, one account that fails and is edited once | 858 000 | slots and queue, no stale row past its TTL, calls end |
| `payout` | 1 user, 2 payouts in turn, 1 request handler + reconciler, 1 change of account, 1 crash | 200 000 | commission, submission, settlement |
| `canvas_editor` | 4 nodes, 2 generation calls of up to 2 items, 2 steps of the user among calls and edits; a loaded group with a half-failed batch, or a configuration | 57 700 | document, registry of requests, honest results |
| `canvas_project` | 2 projects, 1 image, 3 revisions, history of 2, 1 sweep at a time | 3 078 000 | what is stored is what is shown; no image in use is collected |
| `console` | 26 views, 2 requests in flight and a poll, 2 changes, 2 openings | 539 000 | rows, flags, forms, waiting |
| `workbench` | 2 accounts, 3 keys, 3 acts, 2 session calls and 1 request at once, 2 polls, every listed size, 6 streams | 477 000 | credential, requests, rest |

and the two runs above that expect a violation.

Why the bounds are enough for what they look at. Two relays, because every
conflict between calls is pairwise on one row (`HoldsConserved` and the other
theorems hold for any number); three calls so that a third meets what two left
behind. Amounts 0, 1, 2 against balances of 2 and limits of 3 and 4 make each
comparison come out both ways and hit equality. One edit and one fault, at any
point. Three limiter goroutines, so that two can wait for one. Two calls at the
scheduler: one holds what the other waits for, or reads the rows while the other
replaces the snapshot or reports; the groups overlap in one account, so that a
failure is seen from the other group; a TTL of one tick is the shortest in which
a read can begin before and end after it, and with two attempts the loop comes
round. Two request
handlers, because the interesting pairs are two checks of one refund or a check
against a new refund; two refunds, so that numbers can be confused. In `payout`
one user suffices, as all but the daily limit is per user, and two handlers,
because a payout is claimed by one and then asked about by any; the second
payout can only follow a first that was returned, since the daily limit of 5
refuses 3 + 3 (one payout paid beside another that is open is left to the
theorem `CashConserved`).
On the canvas two runs suffice for a run to be replaced, stopped or outlived by
another, and two items for a batch to be half done; four nodes let a child of a
child or a pasted pair appear. In `canvas_project` one image is enough, as sweeps
treat images independently, and three revisions fill a history of two and cut it.
In `console` the interesting cases are pairs: an answer against the handler, form
or list that came after it; a third opening is needed where a form is opened by
the answer of another (`keys`), and monitoring, which polls, gets one change. In
`workbench` the variety of sizes and streams is tried only by the last act on a
quiet page (`Varied`), since a size is computed and a stream read without looking
at anything else, and a request that ended forgets what no property reads
(`Over`). `MaxPolls` is 2 where the code has 120.
The bounds (`MaxCalls`, `MaxEdits`, `MaxFaults`, `MaxRefunds`, `MaxSaves`,
`MaxRestarts`, `MaxNodes`, `MaxSteps`, `MaxPieces`, `MaxRev`, `MaxSweeps`,
`MaxRuns`, `MaxChanges`, `MaxOpens`, `MaxActs`, `MaxTime`, and `Depth`, `MaxPolls`
and `MaxAttempts`, which are limits of the code itself) appear in guards and nowhere else.

`CHECK_DEADLOCK FALSE` is set where the system may really stop: no call need
arrive (`limiter`, `scheduler`), orders and payouts may be finished for good (`order_*`,
`payout`), a canvas or a workbench waits for its user, whose acts are bounded
(`canvas_*`, `workbench`). In `budget_*` midnight always comes again, and a view
of the console can always be left and entered.

### Hypotheses

`HeldCovered` and `CommissionFollowsPayment` are checked and proved under
`WithinEstimates`: no call costs more than its estimate and nobody lowers a
balance. Without it they are false (a debit is clipped at zero, `billing.go:180`);
`budget_stress`, where it does not hold, therefore checks other properties.
`KeyLimitsRespected` assumes `FixedLimits`: a lowered limit cannot undo what was
spent. `RefundReachable` excludes restarts: after a crash between the hold and
the storing of the refund number an order stays `REFUNDING` and no operation
accepts it. `RefundedCreditWithdrawn` does not hold of the code
(`order_refund_stale`); the theorem `RefundsLostAstray` says which steps can break it.
`SessionSound` excludes connections that overlap and an account changed in another
tab, `ShowsOwnChanges` lists that were overtaken,
`KeysKept` the images named `excused`, `ScreenSaved` the answers named `skipped`,
`OnlyKnownMishaps` the table `Known`; `LoadingServed` and `SuccessShown` speak of
documents only generations have changed (`Untouched`), `OwedItemsLoading` of all.

### Fairness

- `UsageBudget`: weak fairness of each relay. A goroutine in `relay` is
  scheduled; upstream calls have timeouts; attempts are bounded; deferred
  functions run.
- `ConcurrencyLimiter`: weak fairness of all steps but `StopWaiting`. No timer is
  relied on: `NobodyStuck` says the wake-ups alone suffice.
- `Relay`: weak fairness of each call's own steps (`CallStep`): `forward` has its
  timeouts, and the ticker of the select fires whatever happens, which is what a
  queued call that missed its wake-up lives on. The queue's timer, a client that
  hangs up and the end of a cooldown are not relied on.
- `PaymentOrder`: weak fairness of the reconciler's provider calls and of what it
  does with the answer (each call has a timeout); strong fairness of visiting
  each open order, because the pass visits every open order every 15 seconds, and
  of being answered by a provider asked again and again. Neither callbacks nor
  users are fair. A pass takes the 100 oldest open orders; fewer are assumed open.
- `ReferralPayout`: the same of its reconciler, whose pass is every 30 seconds
  and gives each payout 15. `EndedIsSettled` promises nothing for a transfer that
  never came to exist: no operation ends such a payout.
- `CanvasGeneration`: weak fairness of what an aborted run does by itself (an
  aborted fetch rejects) and of the write of a stored result. Nothing is assumed of
  providers, so nothing is promised of runs nobody stops.
- `Console`: weak fairness of the oldest answer and of the timer, strong fairness
  of a poll that succeeds: the browser ends every request, timers fire, and polls
  do not fail for ever. It is asked of the views with a timer only, the ones that
  wait. The user is not fair.
- `ModelRequests`: weak fairness of `Progress`, one step of whatever the page waits
  for. The acts of the user are bounded, a video by its polls.

## Proofs

`tlapm` checks every obligation of the eight proof modules. The assumptions are
the named `ASSUME`s of the modules (finite sets, types of the constants); TLC
evaluates them in the runs. Four of them say more. `CanvasesAssumption`: a document
that is loaded was saved by a canvas, so it is sound itself (`CanvasProject` is
about what is stored; a document edited by hand or by an older release is not
covered). `GraphAssumption`: whatever the graph leaves open of a node (`Settled`,
`Interrupted`) stays in its type. `GenerationAssumption` gives these the meaning generations give
them, and numbers runs and items from 1. `LoadedAssumption`: a page that loads a
document has made none of its batches, and `resetInterruptedGeneration` leaves nothing
loading. `GeneratedCanvases` is no assumption but a hypothesis of one claim, that what is
loaded was left by generations (a node that succeeded has its content, what it shows is
its primary item); `MCCanvas` has it of the runs' documents. The rest are types: `PollsAssumption` lets
a video be polled at least once (120 times in the code).

*Sums* (`HoldsProofs`). `Total` of a changed function: changing one value by `d`
changes the sum by `d`; a part that excludes the changed index keeps its sum;
the sum over two disjoint sets
is the sum of their sums. All from disjoint unions and cardinalities.

*UsageBudget*. `TypeCorrect` and `MeansOfPayment` are inductive together (the
second needs the stage of a relay to know what it holds). `HoldsConserved` is
one proof per column: an action changes `held[u]` and one relay's reservation by
the same amount. The interesting case is a clipped subtraction, which is exact
because the sum is at least each of its members. `CardsConserved` is the same for
cards. `NoDoubleUse` and `ChargedIsPaid` add: a settlement's cost is at most its
estimate, which is at most its own hold, which is at most what is held, which is
covered. So the debit never clips either, and the two invariants are proved with
the conservation of holds as strengthening. `KeysWithinLimits` needs in addition
that the clipped `quota_used_micro` equals the logged cost.

*PaymentOrder*. `TypeCorrect` carries `NumbersKnown`: refund numbers in the
database and in handlers name refunds that exist, which an `Append` and a status
change preserve. `Implements` maps each action to `Credit`, `Hold`, `GiveBack`,
`Repay` or `Spend` of the account, or to a stutter. `BalancesExact` and
`LedgerAgrees` follow by the same case analysis. `CreditsBacked` is not inductive:
a report on its way must itself be backed. The strengthening `Evidence` says that
a callback or an answer "paid" exists only for an order paid in the right amount,
that an answer "done" was given about a refund that is done, and that paid orders
and done refunds stay so.

`PendingWithinLimits`: `CreateOrder` reads what is open and inserts in one
transaction, and no other step opens an order (`OnlyCheckoutOpens`), so the sums
only grow where they were compared. `RefundsLostAstray` has no hypothesis: refund
calls of unknown outcome and further refunds are in it. If the credit of an order
becomes spendable while a refund of it stands, a handler just acted on something
that is no longer so (`Astray`): it took its own call for failed, it called the
provider after its hold had been given back, or it applied the failure of an earlier
refund. So no callback, expiry, cancellation, settlement, spending or crash does it.
The strengthening `RefundsTold` says that only the last refund of an order stands
(`LastStands`) and that a refund a handler heard to have failed has failed (`Told`);
`order_refund_stale` shows the third way taken.

*ConcurrencyLimiter*. That a counter is within the largest limit a holder was
admitted under is not inductive: that holder may leave. The strengthening
(`Ranked`) says for every L that at most L of those who hold a slot came in under a
limit of L or less; whoever leaves, the largest limit of those who stay covers
them. The same for the queue. `WakeupsAreKept`: only a release makes room, and
whoever released is about to signal; an edit of the limits makes no room for a
call that already waits, since it compares with the limits it arrived with.

`BalancesExact` is proved where it belongs, of the abstract account: each of its
steps moves one order in or out of what is credited to its buyer, and the balance
by that order's amount (`AccountBacked`). The service inherits it by `Implements`.

`RefundsReachable` is inductive with `TypeOK` alone. An order without a refund
number is `REFUNDING` only while a request processes it. Whoever learns something
about the order (`ReachableLearn`) does not bring a second order there, and the
request that leaves does so by applying its own answer, after which the order is
refunded, credited again, or has a number (`ReachableApplied`: an answer "pending"
comes with one). A crash is the one way to lose the request, hence the hypothesis.

*Relay*. `RelayInv` joins five parts. `SlotInv` is what is wanted: an account's
counter is the number of calls that hold it, and within its slots. A slot is given
back by whoever holds it (`HasAccount`), and a pick takes one in the critical
section in which it found it free. `TriedInv` (attempts are the accounts tried,
less than `MaxAttempts` while picking) and `RouteInv` (the current group is not
closed) are needed for the types: without them the counters have no bound.
`RowsSeenInTime` is not inductive: it speaks of a pick, whose rows come from a
read of its own or from a snapshot that another call's read made.
`RowInv` says along the whole way what an old row means: rows not written since a
snapshot's `loadedAt`, or since the read that is still in a call's hand, agree with
it (`Agrees`), where a cooldown set in memory counts before it is in the row; and
a pick that uses a snapshot uses one younger than the TTL. It holds through
`Install` because a read that began earlier never replaces a later one, and through
a report because entry and row are written with the account still marked as being
rewritten.

*ReferralPayout*. One inductive invariant, `Inv`. `CashExact` is not inductive by
itself: a result applied to a payout that was never claimed would move commission
that nobody locked. `Sent` says that handlers and transfers belong only to payouts
that were submitted or are settled. `TypeOK` (no negative column) needs
`CashExact`: what matures is part of what is pending, what is settled part of
what is locked. The sums change by the lemmas of `HoldsProofs`: one payout's cost
moves from one column to another, and a release moves a whole set (`PartUnion`).
For the rest, three lemmas list what any step can do to one payout
(`PayoutChanges`), one handler and one transfer; from them `SubmittedOnce`,
`PaidAsPromised` (strengthened by `Promise`: an open payout's user still has the
OpenID, and a handler carries it) and `SettledAsTransferred` (strengthened by
`Evidence`: an answer that ends a transfer is still true when it is applied)
follow without looking at the actions again. `DailyLimitKept` uses that a
request is the only step that adds to the day's set.

`NothingLost` and `AccountsAgree` join the parts of `Conservation` and
`AccountsExact` proved above.

*CanvasProject*. Two invariants over `TypeOK`. `DocumentsInv` adds `Mounted` (what
a page that shows no project, or has not loaded one, holds) and `Owned` (every
document in the history and in a restore is of the project on the route): without
the second a restore or an undo could store a foreign document, which is what
happens in `canvas_switch`. `HistoryInv` adds `KeysInv` and `OrderInv`.
`KeysPresent` alone is not inductive: a sweep that has read its roots may delete
what came into use since, unless it was read too or is excused (`SweepsSpare`),
what is uploaded must be new to every sweep (`UploadsNew`), and only stored images
have an owner (`KeysOwned`). Order needs that revisions are bounded by `revs`,
that past, last and future are one line (`SidesInOrder`), and that a commit whose
timer is set is ahead of it (`TimerAhead`). The sequence lemmas (`Front`, `Append`,
`Newest`) are proved once. `ProjectsAreSound` and `HistoryIsSafe` state the two
invariants of the run.

*KeySession*. `SessionSound` is about a page at rest and about a lone choice; in
between, one connection overwrites parts of what another wrote. `SessionInv` says
what each part depends on. `ListedPays` ties the listed models to the key that pays
and the key shown, in every state and not only at rest; `RestLists` then says that a
page at rest lists some. Both hold because a connection that no other overlaps
(`AloneIsOnly`) shows its key, busy and without models, from the moment it reads the
secret (`AloneShows`, which needs `Keyed`), so its answer completes a page that
nobody else changed. `NothingPays` covers the time between a choice and its
connection; `ChannelPays` and `NothingYet` say what the configuration holds before
and after the first credential, and `ImageListed` needs both, since the image model
is kept when the new key offers it. `OneAccount` must speak of calls in flight: an
answer still on its way is applied later, so it must already be of the account that
is signed in. All of it is proved of `RequestsSpec`, hence beside any number of
requests, for any accounts, keys and number of calls at once; `crossed` and
`switched` are the stated exceptions.

*ModelRequests*. `RequestInv` is about one request, since requests share only the
session, which they read once (the key is copied at the click). `StageCounts` fixes
at each await how much has been sent and polled, without which the count of what
was sent after a stop, and the claim that a video is given up only after `MaxPolls`
polls, could not be compared with anything; `StageKinds` says of which kind a
request at an await is, so that only a video polls; `NotEnded` says that a request
in progress has no outcome. `OneCredential`, `StopsForGood` and `VideoHonest`, the
parts of `RequestsSound`, are then kept by each step. That the model asked for is
offered by the key is where `SessionInv` (`ImageListed`) is used. TLC checked the whole
invariant on the instance of `workbench` first.

*CanvasGraph and CanvasGeneration*. `EditorKeepsDocument` is about the editor on its
own, where a generation is whatever `AddResult`, `Rewrite` and `ExtractImage` allow;
`GenerationsKeepDocument` is about the calls as the code makes them. The lemmas on
`SoundDocument` come first and are about any document: adding a node, deleting some,
connecting what may be connected, and changing nodes without changing what
connections and groups depend on (`Reshaped`).

`DocumentSound` is not inductive, since much of what the editor writes back was taken
from an earlier document. `GraphInv` adds, for each such thing, what it must still
be. The undo entry is a sound document over the ids given out so far. The clipboard
is one too (`SoundClipboard`), but the group a copied node names may be missing, as
groups are copied only when selected. An id never changes its sort: a node that is a
group, here or in the undo entry, is a group wherever it occurs (`SortsFixed`); so an
upload that comes back after an undo, or the node the reference picker belongs to,
finds a node of the sort it left, or none (`Held`). `CanvasInv` adds the calls: origin
and target are ids that are not groups' (`RunsPlaced`), hence what a call writes,
however late, keeps connections legal; a generation that still reads its references
writes to the node it began on, and what resolves a retry's source registers under
its target alone (`StagesFit`); and the registry. `RegistryExact` is inductive only
with these: a call clears the entries that bear its own number, and `StagesFit` says
under which nodes those are.

`Implements` is the refinement, from `CanvasInv` alone. `Plain` maps the document to
one without generations, and each step of the canvas to a step of the editor or to
none (`PlainStep`). An editing action needs one lemma: `Plain` commutes with each
way it puts, removes, pastes or restores nodes (`PlainPut`, `PlainEqual` and the
lemmas on what may be joined), so it is the editor's action of the same name. For
the actions of the calls two facts per handler suffice: which nodes it may touch
(`Touches`) and that a node it changes keeps its group or leaves it and becomes no
group (`Rewritten`); `RewriteMaps` turns these into `Rewrite`, `ResultMaps` into
`AddResult`.

`ResultsAreHonest` has three parts. `OwedItemsLoading` is not inductive: an undo puts
an earlier document back, so what calls still owe must be loading there too. `OwedInv`
says it of the document and of the undo entry (`OwedNow`), and with it that the batches
of calls to come occur nowhere (`Unborn`), that a retry still resolving was asked about
an item the batch's call no longer owes, and no other generation began on the child a
live one writes into (`PairsFit`), that a stopped call is registered nowhere
(`StopsClean`), and what each stage has left to do (`TasksFit`). `LoadingServed`, before the first edit,
follows from `Tended`: a node that loads has a call that works on it or was replaced
there; every step of a call keeps it because a call that ends settles its node
(`Moves`, `Settles`). `SuccessShown` follows from `Shown`: a node that succeeded shows
what it has (`NodeShown`), and what a call knows of its origin and its target is still
so (`SourceFits`, `ResultFits`), which no other live call can disturb (`Steady`).
`HonestInv` joins the last two, and says that no upload is under way before the first
edit.

Only model-checked: `HoldsDrain`, `NobodyStuck`, `PaidIsSettled`, `EndedIsSettled`,
`CallEnds`, `AbortedEnds`, `WaitingEnds`, `WorkbenchSettles` (liveness under fairness
is out of the prover's reach, as is `ENABLED`); `AnswersExact`, which compares the
reading of a stream with a reference, an induction over its chunks, and the size
of an image with one, arithmetic with square roots and rounding; `ConsoleSound`, whose steps are
those of a table of records, so that a proof would go through its 115 handlers one
by one where TLC tries each.

## Abstractions worth knowing

- Database statements of payment handlers succeed; a crash between two of them is
  modelled. In `UsageBudget` each statement whose failure matters has its own
  failing action.
- Credit and price of an order are one number; all orders fall on one UTC day.
- The reconciler loads each order when it visits it. The code loads the batch
  first; its conditional updates make the difference invisible but for the
  queries it may ask in vain.
- Costs and estimates are any members of a set. That an estimate bounds the cost
  is a hypothesis (`Overrun = FALSE`), not a claim.
- A refund's hold takes no account of `balance_held_micro`; the composition of
  orders and calls on one balance is planned.

- Canvas nodes keep no geometry, prompt or payload; the clipboard and undo entries
  are whole documents. An undo entry of `CanvasGraph` is any earlier moment,
  `CanvasProject` says which there are.
- `SetBatchPrimary` takes an item that succeeded, where the code asks for one with
  content. The two differ while a second retry runs on an item whose first has
  succeeded, which the code would still let one show.
- `CanvasProject` runs the 0 ms timeout of an undo before the next undo, and
  removes assets from the asset page only (both named as bounds there).
- The workbench's models are image models; those of video, text and sound are
  resolved the same way. The console's other tabs write token and key, not the
  stored configuration.

## Not modelled

*Backend:* of the scheduler, which routable account is best (session and lineage
bindings, priority, score, latency), quota windows, several models and the
eviction of its caches; a panic inside `forward`, which would keep the slot as
`Release` is not deferred; protocol conversion (pure), settings and catalogue (read and written
whole), migrations, parsing, encryption, deployment scripts; the parts of the plan
below. Hazards of these that no property covers are the RPM windows
(`gateway.go:409`) and platform quotas (`gateway.go:448`), which count or sum what
is not in flight; the 100 oldest orders of a pass (`payment.go:779`); the refresh
token rotated before its row is written (`oauth.go:348`); the payout whose
submission never arrived (`referral_cash.go:655`); the backup record a crash
leaves in `creating` (`backup.go:224`); the reset code whose update's rows are not
counted (`auth.go:597`).

*Front ends:* templates, styles, texts, geometry, zoom and selection rectangles;
the pages that only show what one or two requests answered (dashboard, overview,
model plaza, channel status, legal, home), login and profile; the legacy image
studio under `/studio/legacy`; dialogs that compute one image (crop, mask, split),
export to files, the prompt library; Gemini requests and plugin scripts, which a
session of the site never configures. About 11 000 lines of the workbench (the
agent panel, the image, video and assets pages, their dialogs and settings) cannot
be reached from the routes of `workbench/src/main.tsx` at this commit and are left
out, as are the 1 365 lines of API types and the translations. What is mapped is
therefore a small share of all front-end lines, most of which are markup.

## Plan

In this order; each step has its runs and, where marked, theorems.

1. `Scheduler`: session and lineage bindings, quota windows, several models.
2. `Relay` composed with the limiter and the budget; RPM windows and platform
   quotas join here.
3. `Wallet`: `PaymentOrder` and `UsageBudget` on one balance, with holds.
4. `OneTimeCode` (redeem, reset, registration, OAuth states and exchange codes)
   and `TokenRefresh`.
5. `Backup`, the update request file, alerts and notifications.
6. A bounded reconciliation batch in `PaymentOrder` and `ReferralPayout`, and the
   latter with PostgreSQL's default isolation.
7. Proofs: `ConsoleSound`, handler by handler.

## Running

    tlc -workers 2 -config budget_core.cfg MCUsageBudget
    tlapm PaymentOrderProofs.tla

`PROJECT.json` names the module of every configuration.
