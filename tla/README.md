# PartnerIQ backend: verification project

PartnerIQ is an affiliate-marketing SaaS backend (NestJS, `src/src`). Organizations run partner
programs; tracking links bring clicks, clicks become conversions, conversions earn commissions,
commissions are posted to a ledger account per affiliate, and payout batches pay the accounts out.
Around that core sit fraud review, billing with its limits and trials, provider webhooks, partner
deals, gamification, automations, demo bookings and the usual identity and administration modules.

This directory holds the TLA+ models kept beside that code, the TLC runs that check them and the
proofs TLAPS checks.

## How the program runs, and what an action is

The backend is a Node process, and several nodes may run. All domain state lives in the arrays of
`dbStore` (`src/src/database/store.ts`), which a node loads when it starts: an entity is a proxy,
assigning a property starts an asynchronous write to the database, and `awaitPersist(entity)` waits
for the last one. A failed write is logged and swallowed. Handlers of one node interleave only at
`await`, and the awaits that matter are the ones on real I/O: a database write, Redis (fraud
velocity), an HTTP call, a notification. Awaits on in-memory helpers such as
`LedgerService.getAccount` resume in the same turn of the event loop. An action of a model is one
uninterrupted stretch of a handler between two real I/O waits; a handler that changes state on both
sides of such a wait is several actions, with a variable that says where its call stands. A restart,
where a module has one, throws away the calls under way and what was set on an object behind its
proxy. Two nodes stand in `LimitLock` only: what the others model happens within one.

## Inventory

Paths are relative to `src/src/modules` unless they start with `src/`. The column "hard" says what
interleavings, failures and orders of calls can do. The hazards of the modelled parts stand in
PROJECT.json with their lines; those without a property are listed at the end of this file.

### The money

| Component | State | Operations | Interacts with | Hard | Correct when |
|---|---|---|---|---|---|
| Ledger (`ledger`) | one EARNED account per affiliate, transactions, entries | `getAccount`, `recordTransaction` | commissions, payouts, fraud | some callers move the balance themselves and pass `skipBalanceMutation` | balance, reservations and entries add up |
| Payouts (`payouts`) | batches, items | create, process, cancel a batch; retry an item | ledger, fraud, webhooks | a cancellation or review inside `processBatch`, repeated calls | every reservation is settled once |
| Admin payouts (`admin/admin-payouts.service.ts`) | the same items | approve, hold, retry, cancel one item | payouts | acts on an item behind its batch's back | see Payouts |
| Instant payout (`affiliates/affiliate-portal.controller.ts`) | commissions and batches in the database | `requestInstantPayout` | commissions, payouts | the database changes, memory does not | earnings are paid once |
| Fraud reviews (`fraud`) | assessments, reviews, holds | assess, resolve and assign a review | conversions, payouts, commissions, notifications | reviews resolved before their hold, reopened, escalated | what is held can be released |
| Conversions (`conversions`) | conversions, attributions | create, manual create, approve, reject, refund | fraud, commissions, ledger | a decision during the fraud check, refunds cut into pieces | one commission; refunds never exceed the amount |
| Conversion intake (`conversions`, `integrations`) | idempotency records, external ids, refund ids, provider events | create, refund, provider webhooks | conversions | duplicates, reordering, retries during the call, restarts | an event of the outside world takes effect once |
| Partner deals (`partner-deals`) | deals, their CRM copies | approve, sync, move, CRM reports | conversions, the CRM | exports that overlap or fail, the CRM id that comes late | a won deal is paid once |
| Commissions (`commissions`, `admin/admin.service.ts`) | rules, commissions, disputes | calculate, approve, reject, adjust, raise retroactively, overwrite | ledger, conversions | one record and three ways to post it | records and ledger agree |
| Gamification (`gamification`) | summaries, tiers, milestones, rewards | count, evaluate, reward, reconcile, assign, lock | commissions, ledger, notifications | evaluations that overlap, grace dates, restarts between achievement and reward | rewarded once; falls as announced |

### Billing

| Component | State | Operations | Interacts with | Hard | Correct when |
|---|---|---|---|---|---|
| Checkout (`billing`) | subscriptions, coupons and their redemptions, payments, idempotency records | checkout, verify, payment webhooks, expiry | the payment provider | retries, reservations that expire, two reports of a payment | within the coupon's limit; nothing for nothing; paid means active |
| Trials and governing subscription (`billing/services/subscription.service.ts`, `trial*.ts`) | the subscriptions of a customer's organizations | start, extend, end a trial, upgrade, downgrade, pay, read | checkout, limits | the job works on a list it read before its waits; two rules say which subscription counts | a paid subscription stays and governs; trials end |
| Limits (`billing/services/subscription-limit.service.ts`, `limit-lock.service.ts`) | locks, counted resources | check, create under a lock | affiliates, add-ons | two requests for the last slot; a database lock that times out; two nodes | usage stays within the limit |
| Add-ons (`billing/services/addon.service.ts`) | purchases, capacity | buy, activate, fail, reduce, cancel | limits | an unpaid purchase that is cancelled; a reduction beside a check | capacity granted is capacity paid for |
| Affiliates and invitations (`affiliates`) | affiliates, memberships, invitations, applications | invite, accept, complete, withdraw, apply, approve, create | limits | an invitation withdrawn during its acceptance; a team joined during the creation | who was admitted is in, once; who was not is out; nobody is an affiliate and on a team |

### Around them

| Component | State | Operations | Interacts with | Hard | Correct when |
|---|---|---|---|---|---|
| Store (`src/src/database/store.ts`) | arrays, one pending write per entity | push, assign, delete, `awaitPersist`, load at start | everything | every assignment starts a write of its own on a pooled connection and `awaitPersist` waits for the last only; the caller of `push` keeps the raw object; a delete waits for nothing | what was confirmed is what a restart reads |
| Automations (`automations`) | executions, scheduled steps | handle an event, run a step | affiliates, tracking | events that overlap, goals reached during an action | one execution at a time |
| Organizations (`organizations`) | organizations | create, start and complete the wizard, delete | memberships, trials, limits | several tabs, three unique indexes, a look-up that finds less than an index refuses | one unfinished organization; welcomed once; never refused for nothing |
| Memberships (`memberships`, `auth/auth.service.ts`) | invitations, memberships | invite, revoke, accept, remove; what `getMe` repairs | store, limits | an acceptance waits for writes, `getMe` replaces the list of memberships, restarts | who is told that he joined is a member |
| Demo bookings (`demo-bookings`) | bookings | create, move, cancel, set a status | the calendar | the slot is taken after the calendar call | demonstrations do not overlap |

### Not modelled

| Component | State | Why not |
|---|---|---|
| Tracking (`tracking`), programs, organization coupons | clicks, identities, records | rows are appended and read; no step changes what another decided on |
| Fraud scoring (`fraud/signals`) | signals, rules, counters | its decision is chosen freely where it is used |
| E-mail (`email-design`), webhooks (`webhooks`), notifications, audit | logs | nothing reads them back |
| Authentication, sessions, security | users, sessions | an area around libraries for passwords and OAuth, for a review of its own |
| Plans, invoices, administration, content, analytics | documents, screens | catalogue, documents and views of what is modelled |

How they meet: everything shares the store. Conversions call fraud, then commissions, then the
ledger, in one chain of calls, and gamification after that; payouts read and write the accounts that
chain fills; fraud reviews call back into both. The integrations and the deals call the conversions'
own service. Modules publish to webhooks, notifications and automations and never learn whether these
succeed. Billing is asked before anything is created, under the lock of the account and resource.

## Modules

| Module | What it is |
|---|---|
| `Payouts` | payout batches, items and accounts, with merchants, fraud analysts, super admins and the affiliates' own income acting |
| `BatchLifecycle` | what a client may rely on about a batch; `Payouts` implements it |
| `InstantPayout` | payouts asked for by the affiliate, on the rows of the database, beside the batches |
| `Conversions` | conversions, commissions and the ledger entries of each commission |
| `CommissionAccount` | what an affiliate may rely on about a commission; `Conversions` implements it while only the API and analysts act |
| `Intake` | how clients and a payment provider report payments and refunds |
| `PartnerDeals` | one deal, its copy in the CRM and the conversion that pays for it |
| `Rewards` | tiers and milestones of one affiliate |
| `Checkout` | checkout calls, coupon reservations, payments and the two ways they are reported |
| `Subscriptions` | the subscriptions of one customer: trials, payments, upgrades, the job, the two rules of choice |
| `LimitLock` | "check the limit, then create": the chain on a node and the named lock between nodes |
| `Capacity` | who takes a slot of the affiliate allowance, who may not because of a team or a closed program, and the add-ons that enlarge the allowance |
| `Store` | one row in memory, its writes in flight and the database |
| `Automations` | the executions of one workflow for one affiliate |
| `Bookings` | demonstrations and the slots they take |
| `Onboarding` | the organizations one customer founds, completes and deletes |
| `Members` | invitations to one team and the memberships that come of them |
| `MCCheckout`, `MCConversionParts` | instances of one module for TLC |
| `MCOrganization`, `MCEarnings`, `MCOperations`, `MCBackground` | instances of several modules that share no state, for TLC |
| `PayoutsProofs`, `CheckoutProofs`, `CapacityProofs`, `SubscriptionsProofs` | theorems about one module |
| `EarningsProofs` | theorems about `Conversions` and `Rewards` |
| `BackgroundProofs` | theorems about `LimitLock`, `Automations` and `Store` |
| `OperationsProofs` | theorems about `Intake`, `PartnerDeals`, `InstantPayout` and `Bookings` |
| `TeamProofs` | theorems about `Onboarding` and `Members` |

In all of them an operator whose name has an underscore (`Reserve_KeepsBalance`) is the operator
before the underscore with a plausible slip in it. No action uses it; put in place of the original
it makes some property fail, which is how we know that the property looks at that code.

An MC module that holds several modules has a variable `part`, chosen at the start: a behaviour is
about one of them, and the others rest in their initial states. Nothing is lost by that, because the
modules' variables do not meet; what two of them share is either modelled in one (the slots and the
add-ons in `Capacity`) or abstracted in each (a conversion is a status in `Intake`, its commission is
in `Conversions`). Where `part` also restricts who acts, the module says so.

### Payouts

`batch`, `item`, `amount` are the statuses of batches and items and the net amount of an item;
`balance` is the available balance of an affiliate's EARNED account; `review[b]` the reviews of a
batch, oldest first. `run[b]` is where a `processBatch` call stands: it sets PROCESSING, then waits
for the fraud assessment ("assessing"); when the assessment flags the batch it has opened a review
and waits for its notifications ("flagged"), and only then puts the batch on HELD. If the assessment
fails the batch goes back to DRAFT. `disbursed` and `returned` count what happened to an item's money
(PAYOUT_COMPLETED entries, amounts given back). `net` is what commissions posted to the account.

The actions are `CreateBatch`, `ProcessBatch`, `FraudCheckFails`, `FraudCheckFlags`, `HoldBatch`,
`DisburseBatch`, `CancelBatch` and `RetryFailedItem` (PayoutsService), `ResolveApproved`,
`ResolveRejected`, `ResolveEscalated`, `AssignReview` (FraudService), `ApprovePayout`, `HoldPayout`,
`RetryPayout`, `CancelPayout` (AdminPayoutsService), and `PostCommission` and `SetAffiliateStatus` for
the rest of the program.

### InstantPayout

`held[k]` is the status of a commission in memory and `row[k]` the one in its row; `unsaved` are the
commissions with a write under way, `posting` those whose handler waits for it before it posts to
`account`. A request reads the rows it can pay under their locks (`Select`), and commits or rolls back;
nothing of it reaches memory but its item, until `RestartPayouts` loads the rows. `DraftBatch` is
`createBatch`, which looks at the account only. `Earn`, `Post`, `RejectCommission`,
`ApproveCommission` and `Touch` are what the rest of the program does to commissions, `CancelInstant`
a cancellation of an instant batch that a restart brought into memory. A commission is one unit.

### Conversions

One affiliate in one program. `conversion`, `refunded` and `refunds` are status, refunded amount and
length of the refund history; `call[c]` is where the handler that creates `c` stands
("assessing" in the fraud check, "review" and "block" while its notifications go out, "writing" for
a manual conversion whose row is being written). A commission `<<c, n>>` is the n-th recorded for
`c`; every lookup in the code finds the first. Between recording it and posting its earning there is
a database write: `due[k]` is what will be posted. `credited` and `debited` add up the ledger entries
that refer to the commission.

Who acts is the constant `Operators`. The API (`CreateConversion`, `RefundConversion`) always does;
"merchant" approves, rejects and enters conversions; "analyst" resolves reviews and suspends the
affiliate; "desk" approves, rejects and adjusts commissions and raises them after a tier upgrade;
"admin" overwrites statuses and recalculates amounts. The split is not for speed only: the desk and
the admins write records without the matching ledger entries, or entries without the records, so the
agreement of the two is a property of the code without them.

### Intake and PartnerDeals

In `Intake` a request is one message, which may be sent again; what identifies it are constants: the
order it is about, its click, its Idempotency-Key, its refund id. A conversion stores another click than
its request names when it is credited to an attribution (`Attributed`, `StoredClicks`); attributions come
and end by `TrackClick` and `AttributionExpires`. `Call` is the prologue of
`createConversion` or all of `refundConversion`; `EvaluationEnds`, `CreationEnds` and `CreationFails`
resume a creation. `Deliver` records a provider's event and `Bridge` makes the call for it;
`Redeliver` and `RetryOperation` are what can be done to a recorded event. `effects[r]` counts how
often a request took effect on what is there now. `Restart` loses the calls under way and forgets what
was noted behind the proxy of an event; as their rows tell, it may set a decided conversion back to
PENDING, or lose one that is still checked.

`PartnerDeals` has one deal and handlers that approve, export, move and close it while the CRM reports
stages. An export waits twice, for the contact and the company and for the CRM deal; winning waits for
`createConversion`, of which the module keeps the external ids (`wonAs`) and the idempotency records
(`keyedAs`).

### Onboarding and Members

In `Onboarding` an organization is `org[o]` in memory and `orgRow[o]` in the database, with its status,
the key of the wizard's form, its slug, the onboarding lock and whether it was deleted. A tab makes one
call at a time: `Enter` answers with what there is or goes on, `ReserveOrganization` checks the limit under the
account's lock, `Found` inserts the row or, when one of the three unique indexes refuses it,
`Duplicate` and `LookUp` look for what to answer with. `Complete`, `Welcome` and `Saved` are
`completeOnboarding` around the start of the trial; `Welcome` is also the seeding of an organization
that is created without the wizard. `welcomed` counts.

In `Members` invitations and memberships have a copy in memory and a row each. An acceptance waits for
its audit entry ("accepting"), then sets the invitation and the membership (`JoinTeam`) and waits for
their writes (`Joined`). `told` are the people whose acceptance was answered. `MissMembership`,
`RestoreOwner` and `PurgeStale` are what `getMe` does; after `PurgeStale` the list of memberships is
`detached`, and what is pushed from then on is `adrift`: nothing writes it.

### Rewards

`approved` and `counted` are the two sources of the metric: the conversions themselves and the
LIFETIME summary once there is one. An evaluation (of a request or of the reconciliation job) goes
through the milestones in order and then looks at the tier; it gives up the processor only for the
notifications of a reward, where `evaluation[c]` says it waits. The four downgrade modes are constants
of the tiers; a grace period is "ahead" or "past". Admins assign, lock and change tiers.

### Checkout and Subscriptions

A request is one purchase; sending it for the n-th time is the call `<<r, n>>`, which also names the
pending subscription and the provider order this call creates. `checkout` waits once, for the order:
`RefuseCheckout`, `ReplayCheckout` or `OpenCheckout`, then `OrderCreated` or `OrderFails`. The
customer and the provider are `FailPayment`, `Authorize` and `Capture`. `verify` waits for the
provider's answer (`FetchPayment`), and, when the payment is new, for its write (`VerifyFetched`,
`VerifyWritten`). The webhook handler is `HandlePaymentCaptured` and `HandlePaymentFailed`, events in
any order. `ReadSubscription` is `current()`, whose read expires stale checkouts;
`ReservationTimesOut` and the choice of stale checkouts are the clock; `OpenOrCloseCoupon` is the
admin or the validity window. Of a coupon's eligibility rules the two limits are kept, the others are
the Boolean `open`; prices, taxes and invoices are left out; payments are one-time orders (the
default).

`Subscriptions` starts where a payment is made. A row is a record: organization, rank of the plan,
where it comes from, whether the customer's other organizations share it, status, and whether its
trial date is ahead or past; a row that was superseded (`rowStatus` INACTIVE) is EXPIRED. `Governs` is the choice of `current()` and `Entitles` that of
`resolveEntitlement`; both are sets, because the program prefers the row modified last among equals.
`Job` is one turn of the trial job: `agenda` is what it listed and has not come to, `due` those that
were past when it began. Statuses written by administrators, Razorpay subscriptions with their
cancellation, and the notices the job sends are left out.

### LimitLock and Capacity

`LimitLock` is `withLock`: `chain[n]` is the chain of promises of a node, `named` the holder of the
database's lock. A request that waits too long, or meets a failing database, goes on without it
(`GiveUp`). `Count` and `Create` are the recount and the creation; a node counts `known`, what it has
in memory. A request settles with its lock released (`Release`), or with `RELEASE_LOCK` failed and its
connection back in the pool (`ReleaseFails`): the lock is then `leaked` on that node, whose requests get
it again while those of the other time out, until the connection ends (`ConnectionEnds`). `Restart`
loses a node's chain and loads `rows`.

`Capacity` takes that lock as given on one node and follows who uses it. Its calls are the handlers
that end in `AffiliatesService.create`: an accepted or completed invitation, an approved application,
an affiliate added by hand. `create` reads the database while it holds the lock, to see whether the
slot is reserved and again after the check. Behind the check it may still refuse: an active member of a
team (`Ineligible`, in `Admit`), or an archived program, after which the record stays without a
membership (`EnrollNow`). What was saved before, an APPROVED application for instance, is not undone.
`seat` is where a person stands with the team of some organization: `AskForSeat` and `TakeSeat` are the
two sides of the wait in the handlers that make members, `LeaveTeam`, `SuspendTeam` and `ReopenTeam` what
becomes of a seat; `SetProgram` pauses, archives and restores. Slots are taken without the lock by bulk
and resent invitations and by reactivation. Add-on purchases are opened, paid, failed, reduced and cancelled, and
make up the limit together with the plan.

### Store, Automations, Bookings

In `Store` the content of the row is a number that grows with every assignment. `flying` are the
writes under way, which are built from memory when their turn comes and land in any order; `pending`
is the promise `awaitPersist` would wait for, `confirmed` what it has told its callers.

In `Automations` an event ends the executions whose goal is reached and starts one if none is active;
`runStep` carries an execution from node to node and waits in actions and delays.

In `Bookings` a request is checked, then waits for the calendar, and is in memory only then; customers
move and cancel by their token, which checks, admins without.

## Properties and what they exclude

Some properties hold of everything but what is in a history variable. Each of these names one way in
which the code gives the property up, found by stating the property without it and reading TLC's
counterexample:

| History variable | What happened | What is lost then |
|---|---|---|
| `raced` (Payouts) | the batch was cancelled while PROCESSING, or a second time | the call pays what the cancellation handed back; a second cancellation hands back again |
| `touched` (Payouts) | a super admin or `retryFailedItem` acted on one item | the batch pays or hands back the item whatever its status |
| `early` (Payouts) | the review was resolved before the hold it was opened for | the batch stays HELD with no open review |
| `reset` (InstantPayout) | a write from memory changed a row that was PROCESSING | the commission can be asked for again |
| `early` (Conversions) | the conversion was decided on, refunded or rejected before its commission was there | a second commission, or one nothing claws back |
| `handled` (Conversions) | the desk or an admin acted on it | records and ledger part |
| `unearned` (Conversions) | it was approved while the affiliate was inactive | no commission; approving it again is refused |
| `rejections` (Conversions) | how often it was rejected | a rejection debits the whole commission, refunds before it included |
| `reopened` (Intake) | a key was used while its first call was unanswered, or its record is gone | two requests take effect under one key |
| `cut`, `unverified` (Intake) | a restart came between an event and its call; its signature failed the first time | the event is a duplicate from then on and has no effect |
| `early` (Intake) | a refund was handled before its payment | it is refused and not tried again |
| `renamed` (PartnerDeals) | the deal got its CRM id after it was won | won again under the other id, it pays twice |
| `twinned` (PartnerDeals) | two exports overlapped, or the CRM's answer was lost | two CRM deals |
| `unpaid` (PartnerDeals) | automatic conversion was off, or createConversion refused | a won deal without conversion |
| `outlived` (Rewards) | the grace date survived a recovery, a lock or an assignment | the next fall comes at once |
| `below`, `fallen` (Rewards) | how long evaluations have found it below; how often it fell | (measures, not exceptions) |
| `lost` (Rewards) | a restart cut off the second part of a reward | the achievement stays unpaid |
| `late` (Checkout) | the customer paid after the reservation was released | the coupon's limit |
| `overlapped` (Checkout) | the request was sent again while a call waited for its order | two orders under one key |
| `upgraded` (Subscriptions) | a trial became ACTIVE by an upgrade and nothing was paid | two live subscriptions |
| `strained` (Capacity) | slots were taken or capacity lost without the lock, beyond the limit or during a check | the limit, until usage is back within it |
| `repeated` (Capacity) | create was called for a person by a path that does not look, or twice at a time | two memberships |
| `crossed` (Capacity) | an invitation was withdrawn during its acceptance | it is joined all the same |
| `overlapped` (Capacity) | a seat on a team was asked for, or held without counting, while the record was made | affiliate and member at a time |
| `revived` (Capacity) | a purchase that granted nothing was cancelled to the end of its period | it grants capacity |
| `bypassed`, `revived` (Store) | an assignment behind the proxy; one after the removal | the row differs from memory at rest |
| `landed`, `confirmed` (Store) | the write that landed last; what awaitPersist said | (measures) |
| `overrun` (Automations) | the execution ran on after its goal was reached | two active executions |
| `overlapped` (Onboarding) | two calls completed the organization at a time | it is welcomed by each |
| `severed` (Onboarding) | a restart came before the completion, or the seeding, was saved | it is welcomed again, or not at all |
| `dismissed` (Members) | he was removed since he last joined | (a measure: an answer that comes later tells him nothing) |
| `unlisted` (Members) | he joined while the list of memberships was detached | his membership, in the next restart |
| `leaned` (Members) | he was answered for a membership that another call was still writing | his membership, if a restart comes before that write |
| `hurried`, `forced` (Bookings) | another booking was placed during the calendar call; an admin placed it | overlapping demonstrations |

## Runs

Twelve runs. The instance column says why the bounds are large enough.

| Run | Shows | Instance |
|---|---|---|
| `organization_safety` | with everybody acting: reservations settled once, no money created or lost, held batches releasable; what is paid at once is paid once; a customer's organizations are founded and welcomed once, and who is told that he joined did | batches: two affiliates, so that an item can go its own way in its batch; two reviews, so that one can be resolved while another is opened; amounts of one unit, since amounts are only moved. At once: two requests for two commissions. Founding: two tabs and two organizations under one name. Team: one person who founded the team, with two invitations, two calls and three seats: the third is needed when a membership was removed and made again while a call still writes the first |
| `payouts_lifecycle` | Payouts implements `BatchLifecycle` with its liveness | one batch: the lifecycle is per batch |
| `conversions_safety` | records, refunds and ledger agree; one commission; approved conversions have and get their money | one conversion: handlers of different conversions share the affiliate's status only. Three refunds and rejections; price 4 with commissions of 1 and 3, so that shares round both ways. `MaxCommissions` is 3 and two is the most that is reached. In the part "office" the desk and the admins write at will, cut shorter by `Short` |
| `earnings` | Conversions implements `CommissionAccount`; rewards are paid once, grace periods are given, the tier follows the metric | conversions: the API and analysts. Rewards: two requests and the job evaluate at the same time; three tiers, of which the highest has a grace period and the others are left with the next run; two milestones, one with a reward in two parts; two changes by hand, restarts included |
| `conversions_two_commissions` | finding | |
| `checkout_limits` | the coupon's limit, one live subscription, nothing unpaid is given | three purchases of two organizations under one billing account compete for two redemptions: the third is needed to overrun the limit after a reservation was released |
| `checkout_retries` | one order per key, one discount per purchase, and a captured payment activates in the end | one purchase sent twice with a key, whose first payment may fail |
| `background` | the lock, the store, the automations and the subscriptions, on which the others rely | three requests on two nodes for one unit, with a crash: the third is served after a hand-over; three assignments and writes of one row; three events, as many as start, overtake and find an execution; two organizations, two plans and three subscriptions, two in the part "trials" with the job and an extension. In the part "sales" there is no job, so `TrialLapses` is about "trials" |
| `store_confirmed`, `subscription_governs` | findings | |
| `operations` | what is reported takes effect once; who is enrolled stays within the allowance and off the teams; demonstrations stay apart | two orders, two keys, clicks and refund ids shared in every way that can clash, two attributions, one of another click of the same customer, each message sent twice; a deal with two handlers; two people, one invited and one applying, with two handlers for one slot ("people", and "addons" with an order of two add-ons); one person enrolled by two handlers beside a seat and a program that closes ("teams"): the rule is about each person alone, and a refusal by the limit is had in "people"; three bookings of two customers at times that touch and overlap |
| `instant_payout` | finding | |

All counters that could grow for ever are bounded by constants that stand in the guards or, for what
only an instance bounds, in its MC module: `MaxNet`, `MaxReviews`, `MaxReturns` (Payouts),
`MaxCommissions`, `MaxCalls`, `MaxPosted` (Conversions), `Tries` (Checkout), `MaxSends`,
`MaxMessages` (Intake), `MaxCrmDeals`, `MaxConversions` (PartnerDeals), `MaxQuantity`,
`MaxMemberships` (Capacity), `MaxWelcomes` (Onboarding), `MaxCrashes` (LimitLock), `MaxAssigned`, `MaxStarted` (Store),
`MaxExecutions` (Automations), `MaxRows`, `MaxExtensions` (Subscriptions), `MaxApproved`, `MaxChanges`
(Rewards), `MaxChanged` (InstantPayout). Larger instances were run by hand once: `Rewards` with three
changes has 490,000 states. Deadlock is not checked: every one of these systems may come to rest, with
all batches final, all bounds used up or all purchases sent.

### Fairness

- `Payouts` and `Conversions`: weak fairness of the steps that resume a waiting handler, and of nothing
  a person decides. The event loop justifies it: a database write that fails is logged by the store and
  its promise resolves, a fraud signal or a notification that fails is caught by the assessment, so no
  await in these handlers stays open.
- `Checkout` adds that the provider repeats a webhook until it is accepted. Nobody need pay, verify,
  retry, resolve a review or process a batch.
- `LockSpec`: weak fairness of every request's steps. `GET_LOCK` has a time-out, the work under the
  lock ends or throws, and the chain goes on after either.
- `SubscriptionsSpec`: weak fairness of the job. A timer starts it each minute, a `finally` resets
  `isProcessing`, and the notifications it waits for are caught.
- `RewardsSpec`: weak fairness of the reconciliation job, which comes every six hours, of its waits,
  since a notification that fails is caught, and of the clock.

`Store`, `Automations`, `Intake`, `PartnerDeals`, `Capacity`, `InstantPayout`, `Bookings`, `Onboarding`
and `Members` make no promise about the future and have no fairness: a write may stay under way, and a
person may never come back.

## Proofs

Checked by TLAPS for every value of the constants that the modules' assumptions allow.

**PayoutsProofs.** `TypeCorrect`, `OneCall`, `Settlement`, `Release`, `Final`, `Refinement`,
`Conservation`. The inductive invariant `Inv` adds three facts to the properties: a batch that is not drafted yet has no
items and no call (`NotDraftedYet`); a batch that is CANCELLED while its call still runs was raced
(`CancelledInFlight`), which keeps `DisburseBatch` from breaking `ReservationSettled`; and a
call that waits for its notifications has an open review or an early one (`FlaggedHasReview`), which
is what `HoldBatch` needs for `HeldCanBeReleased`. `Refinement` maps every step to a step of
`BatchLifecycle` or a stutter; that `Begin` finds no call running is `OneProcessingCall`.

`Conservation` is about a sum over the batches that hold money of an affiliate. The sum is
`SumFunctionOnSet` of the community modules, a recursive function whose recursion goes over subsets;
what it comes to is proved from the well-founded order of the subsets of a finite set
(`SubsetInduction`): the sums over two sets agree where both are (`Coherent`), so each is an element
and the sum of the rest (`SumUnfolds`), whichever element is taken out (`SumSplits`). Three lemmas say
what a handler does to the sum of one affiliate: nothing, a batch draws the balance (`OneDraws`), or
hands its part back (`OneGivesBack`). This needs that the set of batches is finite, which
`PayoutsAssumption` says.

**EarningsProofs, conversions.** `TypeCorrect`, `AtMostOne`, `FullRefund`, `ApprovedEarns`,
`EarnsForApproved`, `LedgerAgreement`, `DriftIsBounded`, `AccountRefined`. `Sound(c)` relates the place
of the creating handler, the commissions recorded and the history variables: without it
`FraudCheckAllows` could be thought to run on a conversion that has its commission already.
`Balanced(c)` is `LedgerAgrees` by the number of rejections, together with what the record says of an
untouched first commission; the refund step needs that the reversed part never passes the amount,
which the cap in `refundConversion` gives. The same invariant holds the rounding: what refunds reversed
is within half a unit for each refund of the exact share (`WithinHalves`). `RoundBounds` says that one
rounding is off by half a unit at most, and `RefundWithinHalf` that the cap does no harm: where it
bites, the exact share is larger than what it leaves, and no share is larger than the commission.

`AccountRefined` is the safety part of the refinement of `CommissionAccount`, under the same condition
as the run: `Operators` within the fraud analysts. `Kept(k)` says of every recorded commission, not of
the first alone, that what is credited or due is its amount and what is debited is what was reversed.
Every handler is one of three things to the entries of one commission (`Recording`, `Posting`,
`Clawing`) and nothing to the others, and each is a step of the account (`EntriesStep`).

**CheckoutProofs.** `TypeCorrect`, `OnlyPaid`, `OneLive`, `OneDiscount`, `CouponLimit`, `OneOrder`.
The invariant is in parts, each inductive beside `TypeOK`. `Captured` says that what remembers a
captured payment (the status verify fetched, the provider's event) is right; `Discounts` says that a
discount stands for a CONSUMED redemption, which stays so; `Limit` says that what is attached to a
subscription was reserved, so that a late redemption is the only way beyond the limit, and its step
from a valid quote to a reservation is a lemma on cardinalities; `Keys` says that the reply to a
finished call is on record, so that without overlap the next call finds it; `OneLiveSubscription` is
inductive as it stands.

**CapacityProofs.** `CapacityTypeCorrect`, `StaysWithinCapacity`, `OneMembershipEach`,
`GrantedWasPaid`, `AffiliatesNotOnTeams`, `WithdrawnIsOut`. One invariant per property. `LimitInv` is
the argument about the lock: one call at most is between check and creation, and as long as nothing
strained the account it is within its limit together with the person that call is about. `MemberInv`,
`PaidInv` and `WithdrawnInv` say what a call under way knows about its person, its order or its
invitation. `TeamInv` is `NotBoth` with its two halves: who has a record, or is about to get one, has no
seat, has asked for none and will get none back from a suspended organization, unless the two overlapped.

**SubscriptionsProofs.** `SubscriptionsTypeCorrect`, `OnePaidSubscription`, `PaidEntitles`,
`PaidIsKept`. Beside the types the invariant has that a row which is ACTIVE or came from a checkout is
shared by the customer's organizations: that is why paying one supersedes every other paid one.

**EarningsProofs, rewards.** `RewardsTypeCorrect`, `RewardsOnce`, `GraceGiven`. An achievement has its
bonus, or exactly one evaluation that waits to post it (`BonusOnce`, `BonusComes`); above the tier it holds the
affiliate was promoted no more often than it fell (`Risen`); a grace date that runs is that of the
spell that runs (`GraceRuns`). A turn of an evaluation is described once (`Turn`), with a lemma that a
finite set of tiers has a greatest member.

**BackgroundProofs.** `LockTypeCorrect`, `MutualExclusion`, `NodeLimit`, `NamedLockOneHolder` for the
lock: a request that is past the queue is the head of its node's chain, what it counted is still
true when it creates, and a lock that leaked can be had by requests of that node only. `AutomationsTypeCorrect`, `SingleExecution` for the automations: an execution is
in the hands of one event at most and does not wait while it is. `StoreTypeCorrect`, `Confirmation`,
`Agreement` for the store: the argument is about age, since a write at least as new as the one a
handler waits for carries at least what the handler saw.

**OperationsProofs.** For `Intake`, `OrderPaidOnce`, `KeyTakesEffectOnce` and `NoEventUnhandled`: an
order whose payment took effect has its conversion (`OrdersKnown`; a click is used once because a payment is refused while a conversion has it), a request that took effect under a
key is on record or still being answered unless the key was opened again (`KeysKnown`), and an event
that was taken up is noted or in a handler's hands (`EventsKnown`). For `PartnerDeals`, `DealPaysOnce`
and `OneCopy`: a deal that was not renamed won under its one id, and only then (`ConversionsKnown`);
without a twin one handler exports while there is no copy, and afterwards the deal knows the copy
(`ExportsAlone`). For `InstantPayout`, `PaidByOne`: the rows of a paid request stay PROCESSING unless a
write from memory reset them, so none is read again (`Reservations`). For `Bookings`, `NoOverlap`: a
call that was not hurried still has its slot free when the calendar answers (`CallsApart`). The type
invariants are `IntakeTypeCorrect`, `DealsTypeCorrect`, `InstantTypeCorrect`, `BookingsTypeCorrect`.

**TeamProofs.** For `Onboarding`, `UnfinishedIsOne`, `WelcomesAreOnce`, `NobodyIsLockedOut`. The lock
is in the row of an unfinished organization and the index keeps two rows from having it
(`LocksHeld`). A call that was refused as a duplicate has in its way an organization that is unfinished
or deleted, or that bears its form (`WayIsKnown`), and remembers which (`InItsWay`); a finished one
holds no lock, because completing sets the status and clears the lock in one write, and one that bears
the form is the answer. Without overlap one call at most is at an organization (`OneGreets`), so its welcomes can be counted. That a free slug is found is
the pigeon-hole principle: fewer organizations than numbers (`SlugIsFree`).

For `Members`, `WhoIsToldIsMember`: an acceptance under way is for an invitation that was sent
(`Accepted`); a call that waits for its writes waits for a membership of the person it is about, who
has one unless he was removed (`Awaited`); whoever was told has a membership that is in its row, with
the exceptions the property names (`Recorded`); and only a detached list leaves memberships unwritten
(`Drifting`). The proof found what two seats in a run could not: a call whose membership was removed while it waited, and made again
by another call, is answered for a membership that is not written. The run has had three seats since,
and `leaned` has that case.

The type invariants are `OnboardingTypeCorrect`, `MembersTypeCorrect`.

Proved and not in a run: the type invariants of the modules above, `OneProcessingCall`, `FinalStatus`,
`RefundedInFull`, `EarnsWhenApproved`, `OneAtATime`, `LockHeldOnce`, `PaidIsEntitled`,
`OneLiveSubscription`, `OneMembership`, `OneUnfinished`, and the safety parts of the two refinements.

Model-checked only is what rests on fairness, which is beyond the prover: `ApprovedIsCredited`,
`CapturedIsActivated`, `EveryoneServed`, `TrialLapses`, `TierFollows` and the liveness part of the two
refinements. Every other property of a passing run is a theorem.

The assumptions on constants are those the modules state: bounds are natural numbers, reserved values
lie outside the sets they are kept from, and sets are finite where something of theirs is counted or
added up.

## Findings

Each is the counterexample of a run; the texts they contradict are quoted in PROJECT.json.

1. `conversions_two_commissions`: a conversion the merchant approves while its fraud check waits earns
   a commission there and another when the check allows it.
2. `store_confirmed`: `awaitPersist` confirms a change whose write failed, or was overtaken by an older
   one, as durable.
3. `subscription_governs`: an ended trial of a larger plan is returned as the customer's subscription
   although a checkout of a smaller plan is paid.
4. `instant_payout`: an instant payout and a drafted batch pay the same earning.

### Seen while modelling and not made a run

No document promises anything about these, or one does and a run would show the same trace as a
history variable above already describes. They are for whoever works on the code next.

Payouts and instant payouts:
- An item that is held, retried by `retryFailedItem` and then met by `processBatch` is disbursed twice.
  A second `cancelBatch` hands the balances back again (both are `touched` and `raced` above).
- `requestInstantPayout` does not filter the environment, so TEST commissions are paid from it, and
  runs at the default isolation although its comment says serializable.
- The instant batch is PROCESSING and not in memory until a restart, so nothing completes it; cancelled
  after a restart it hands back an amount that was never debited. A later write of the commission from
  memory resets the row it reserved.
- `admin/admin-payouts.service.ts:999` cancels an item and leaves its reservation; `:962` puts an item
  in PROCESSING, where no worker looks. An affiliate suspended after the draft is still paid.

Conversions, commissions, fraud:
- `rejectConversion` after a refund debits more than is left of the commission; `rejectCommission`
  posts no debit, and `approveCommission` credits again.
- `adjustCommission` and a retroactive raise are posted as ADJUSTMENT, a debit; the raise leaves
  `commissionAmount` as it was, so the next upgrade posts it again.
- An ESCALATED review rejects its conversion at once, while it stays open.
- A restart after a commission is recorded and before it is posted leaves it without credit.

Intake, deals, store:
- Two payments that name one click both make a conversion when the first was credited to another click of
  the customer (`conversions.service.ts:872`, `:828`).
- An event whose signature failed is stored; delivered again it is a DUPLICATE and never processed.
  `retryOperation` only marks an event PROCESSED, although `integrations.controller.ts:324` promises a
  retry.
- `event.metadata` and the status in `createConversion` are set on the object behind the proxy, so
  they are not written.
- A CRM failure after a deal was won overwrites CLOSED_WON with SYNC_ERROR.

Billing:
- A payment that `verify` fetches before its capture leaves an AUTHORIZED row, after which the capture
  webhook finds the payment known and does nothing.
- A retry with a key is refused when its own reservation fills the coupon, because the price is quoted
  before the key is looked up. Reservations that expired are released only after a quote has passed, so
  abandoned checkouts can hold a coupon at its limit.
- Two nodes pass the limit together when both give up the named lock, against the comment at
  `subscription-limit.service.ts:223`. Bulk invitations are not counted against each other.
- `affiliates.service.ts:213` says that an invited partner is never blocked while accepting; an
  invitation whose terms are accepted reserves the slot no more, so its completion can be refused.
  `completeAffiliateInvitation` can make a second membership.
- A connection whose `RELEASE_LOCK` failed goes back to the pool with the lock (`limit-lock.service.ts:106`),
  and every other node works without it until that connection ends.
- An application saved APPROVED stays so when the affiliate is refused, by the limit, for a seat on a team
  or for an archived program (`affiliates.service.ts:2127`). In the last case the record is there without
  a membership, and takes a slot (`:303`).
- Cancelling an add-on purchase that was never paid grants its capacity to the end of the period. A
  failed attempt marks the purchases of an order FAILED, and a later payment of the order skips them.
- The trial job ends a row that was paid while it waited for another's notification, and does not
  notify those whose trial a read has ended. `extendTrial` turns a paid row into a trial; an upgrade
  makes a trial ACTIVE with nothing paid; `pendingPlanId` of a downgrade is never read; `getTrialStatus`
  anchors a trial without looking at `trialUsed`; `startTrial` takes over a pending checkout.

Organizations and memberships:
- A deleted organization keeps its lock, its form's key and its slug in the unique indexes while every
  look-up leaves it out, so its owner cannot use the wizard again (`organization-settings.service.ts:225`).
- A creation sent again while its first call runs is refused by the limit when that call takes the last
  place: its key is looked up before it waits for the account's lock, the limit is checked after
  (`organizations.service.ts:79`).
- Completions that overlap, or a restart before the completion is saved, welcome the customer again,
  although the comment at `organizations.service.ts:628` says that they are guarded.
- `getMe` replaces the list of memberships by what `filter()` returns, which starts no writes
  (`auth.service.ts:2034`). Two calls of it at a time make two OWNER memberships, and it makes one again
  for a founder who was removed.

Gamification:
- Only `createConversion` tells gamification that a conversion was approved, so with a LIFETIME summary
  approvals by hand never count. Creating a link makes such a summary with zero and can drop a tier.
  `recordClosedWonDeal` has no caller.
- The "next period" of a deferred fall is the next six-hourly run, so an assignment by hand without a
  lock is undone then. A repeatable milestone skips the iterations a metric jumps over. The second part
  of a MULTI_REWARD is lost in a restart. `lockTier` takes the first tier row whatever its program.
- A promotion reached again after a fall is rewarded again, because its key holds the time.

Automations and bookings:
- `processScheduledSteps` has no caller: an execution that waits in a delay stays there.
- Calendar updates are fired and forgotten, so two moves may land out of order; a booking whose event
  failed gets none later. Moves and statuses by admins check no collision.

## What could come next

- The creating handlers of `Conversions` and the batches of `Payouts` over `Store`: what a restart
  leaves when it comes between the writes of one handler (`payouts.service.ts:875`, `:905`,
  `commissions.service.ts:501`). The two meet in the account, which each module has in part.
- Razorpay subscriptions beside orders in `Checkout`, with cancellation at the end of a period; the
  idempotency records of add-on purchases (`addon.service.ts:546`).
- Repeatable milestones and the other kinds of reward in `Rewards`; `processScheduledSteps` in
  `Automations`, when something calls it.
- The other limited resources, when one of them is created by more than a check and a push.

## Not modelled, and why

- E-mail dispatch, webhook delivery: what they do is recorded in a log that nothing in the program
  reads to decide anything. An e-mail is sent again when its event is repeated, a failed webhook is not
  tried again (`system-email-dispatch.service.ts:55`, `webhooks.service.ts:125`); there is no promise
  beside that to check.
- Authentication and sessions: passwords, tokens and OAuth exchanges are work of libraries, and the
  questions they raise belong to a review of their own.
- Of memberships and organizations: roles, access to programs, settings, the import of a customer's
  website. Registration through an invitation adds the account to the steps `Members` has.
- Tracking: clicks, identities and touches are appended. Which touch an attribution model picks is left
  open: `Intake` takes any attribution that is there.
- Fraud scoring: signals and weights end in one of a few decisions, and every model that uses a
  decision takes any of them.
- Notifications, audit, realtime: they append and broadcast, and a failure never fails the caller.
- Administration, analytics, content, plans, invoices: forms, catalogues, documents and reports over
  what other modules keep. Those admin operations that reach the core are in `Conversions` and
  `Payouts`.
- `src/src/database/schema.ts`, `blogs/constants` and most of the long controllers are table
  declarations, data and argument checks.
- Currency conversion, taxes, proration: arithmetic that no decision of the modelled handlers depends
  on. Media storage, search, exports, templates: rendering and input/output.
