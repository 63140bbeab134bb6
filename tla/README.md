# LatteLink order platform: TLA+ models and proofs

LatteLink lets a coffee shop's customers order ahead from a phone. The platform is
a set of Fastify services over one Postgres database, with Stripe for payments and
Redis to announce order events, a mobile app, and dashboards. This directory models
the parts that keep state, alone and where they meet: orders and their money,
checkouts, discount codes, loyalty, notifications, event streams, accounts, menus,
and the app's own checkout and session. It checks them with TLC, and proves the
safety of each with TLAPS. Everything is translated from the code
under `src/`; a line number below is a line of that code.

Contents: [inventory](#inventory), [modules](#modules), [how the code is
modelled](#how-the-code-is-modelled), [runs](#runs),
[findings](#findings), [proofs](#proofs), [what is not covered](#what-is-not-covered),
[plan](#plan).

## Inventory

| component | state it keeps | operations | what is hard | what makes it correct |
|---|---|---|---|---|
| order lifecycle (`orders/src/lifecycle.ts`) | none: pure functions on an order's status and timeline | `canTransitionOrderStatus`, `transitionOrderStatus`, `advanceOrderLifecycleToStatus` | several steps at once, terminal states | a stored timeline is a path of the lifecycle |
| order settlement (`orders/src/service.ts`, `fulfillment.ts`) | `orders` row: JSON copy, payment id, charge and refund snapshots; the cached fulfilment mode | cancel, reconcile charge and refund, staff advance, time-based advance on reads | handlers read the whole row, await three services, and write the whole row without a version check; retries, redeliveries, crashes between writes | paid means captured and points applied; canceled after paid means refunded and undone; captured payments settle; refunded orders end |
| order creation (`createOrder`) | order rows, `orders_create_idempotency` | create, supersede an unpaid order, withdraw one whose discount is refused | the idempotency record is written last | a quote makes one order, an order has what its quote promised |
| quotes (`buildQuote`) | discount codes' amounts | quote; create and update a code | caps, rounding, fields that are updated one by one | a quote adds up and is never negative |
| discount codes (`orders/src/repository.ts`, migration 0034) | codes with limits, one redemption per order | reserve, redeem, release, edit | count and insert are separate statements | limit and once-per-customer hold under any interleaving |
| checkout drafts (`orders/src/service.ts`, migration 0037) | `order_checkout_drafts`, `discount_code_redemptions` | create (sweeping older drafts), open a session, expire, confirm, promote | a draft expires or is swept while it is being paid; three confirmations of one payment at once | an order exists only after capture, once, and every captured payment gets one |
| payments: Stripe (`payments/src/routes.ts`) | PaymentIntents, webhook events, refunds | session, finalize, refund, webhook | Stripe redelivers and reorders; refund keys hash the reason | an event is saved after it was applied |
| payments: Stripe Connect | a location's account and payment profile | link, refresh, charge, refund | Stripe is called between the read and the write of the profile | a charge is made once, and where a refund reaches it |
| payment reconciler (`workers/payment-reconciler`) | none | lists stale intents, recovers or cancels | decides on an answer that may be stale | never cancels what was paid without refund |
| loyalty (`loyalty/src/routes.ts`) | balances, ledger, idempotency records | apply a mutation | three writes, absolute balance | each key applied once, balance is the ledger's sum |
| notifications (`notifications`, `workers/notifications-dispatch`) | push tokens, dispatch marks, outbox | enqueue, dispatch with backoff | mark before insert, batches without a claim | one row per device and status, pushed once if nothing fails, and the queue drains |
| event bus, order streams (`packages/event-bus`, `gateway/src/routes.ts`) | Redis subscriptions and their handlers, leases, open streams | publish; open a stream, join the bus, poll, clean up | fetch, then subscribe; clean-up from several callbacks at once; reconnects | leases are the open streams; the last status is shown |
| identity: customers (`identity`) | accounts, sessions, passkeys, challenges | three ways to sign in, refresh, sign out, delete the account | rotation under concurrent use; find, then create | a token or challenge is used once; what was ended stays ended |
| identity: operators | operators, owner invites, sessions | provision, invite, accept, edit, delete | rows written back whole; creation in two statements, deletion in three | one owner, one store account, no way back in |
| catalog: menus; menu-sync worker | categories, items | import, edit, add, delete; fetch with retries and dead letters | overlapping transactions, lost answers | a menu is one import's; the source is stored in the end |
| catalog: store hours | none | parse, is open, opens next | midnight, week's end, change of the clocks | opens when it says |
| catalog: onboarding and launch | `catalog_onboarding_progress`, the client's status | staff's updates, readiness check, approval | check and write in different requests; status written twice | live only after approval |
| mobile app: session | session in memory and in the secure store | start-up, sign in, refresh, sign out, delete the account | lost answers, kills, callbacks overtaken by a sign-out | holds the token the service accepts; signed out stays out |
| mobile app: checkout | bag, kept checkout, attempts, payment sheet | pay, retry, leave, change the bag | an outcome the app did not hear | one bag is paid once; who tries again gets somewhere |
| settings, authentication, proxying, dashboards, infra | see [what is not covered](#what-is-not-covered) | | | |

The components interact by HTTP calls between services (payments calls orders to
reconcile and confirm; orders calls payments to refund, loyalty to mutate the
ledger, notifications to enqueue), by the shared tables (the reconciler reads
`orders`, `order_checkout_drafts` and the intents), by Stripe's webhooks, and by
Redis messages to the gateway and to notifications. No call takes part in another's
transaction: this is where the hard behaviours come from. `PROJECT.json` lists every
component with its status, and every hazard with its line and the properties aimed
at it.

## Modules

| module | models | state and actions in the code |
|---|---|---|
| `OrderLifecycle` | `lifecycle.ts` | operators for transitions; an order is its status and the statuses of its timeline |
| `OrderHistory` | what `docs/order-lifecycle.md` promises of one stored order | abstract specification |
| `OrderPayments` | one order from creation, its handlers, Stripe, the reconciler | `order`, `paymentId`, `refundSnapshot` are columns of the row, `discount` the redemption, `ledger` the loyalty idempotency keys applied, `intent`/`refundedBy`/`events` Stripe; a handler is a slot with `pc`, `job` and `snap`, the copy of the row it read |
| `OrderPaymentsInvariant` | the inductive invariant of `OrderPayments` | |
| `OrderCreation` | `createOrder` of one customer, until the order can be paid | `orders`, `created` are tables, a request is a slot of `creating`; the order's later life is one step |
| `OrderPricing` | `buildQuote`, and creation and updates of a code's amounts | `code` is a row, `quote` the last answer |
| `DiscountTerms` | a code's terms and redemptions | |
| `DiscountLimits` | what a code promises: one atomic reservation | abstract specification |
| `DiscountReservation` | `reserveDiscountForOrder` and its neighbours on Postgres | one action per statement; `lock` is `FOR UPDATE` on the code's row |
| `CheckoutLife` | what a customer may rely on | abstract specification |
| `Checkout` | one customer's drafts, intents and orders | `draft`, `redemption`, `order`, `paymentId`, `listed` are tables, `intent` and `events` Stripe; handlers as in `OrderPayments`, but they keep only the checkout they work on and the drafts they listed |
| `StripeConnect` | one location's Connect requests, the profile, charges and refunds | `profile` is the catalog's row, `expressAccounts` and `charges` are Stripe's |
| `LoyaltyLedger` | one customer's loyalty account | `entries`, `balance`, `records` are the three tables a mutation writes |
| `NotificationOutbox` | the pushes of one order | `devices`, `marked`, `outbox` are tables, `pushed` what Expo delivered; enqueueing handlers and batches are slots |
| `OrderStreams` | the event bus and the streams of one gateway process | `commands`, `channels`, `relayed` are the subscriber's connection, `current` its handlers, `stream` the requests, `openStreams` the leases |
| `CustomerAccounts` | one customer's accounts, passkey and sessions | tables, and Apple's grant; requests are slots |
| `OperatorTeam` | the team of one location | `operators` (with `access`, its row in `operator_location_access`), `invites`, `signedIn` are tables; requests are slots |
| `MenuImports` | menu-sync's loop, the catalog's transaction, staff's edits | `categories`, `items` are tables with the import each row came with; `sync` is the worker |
| `StoreHours` | `store-hours.ts` on a store's clock | operators; `said` is the last answer |
| `LaunchApproval` | a client's progress, updates, readiness and approval | `progress` is a row, `clientStatus` the second one written |
| `AppSession` | `session.tsx` and `sessionStore.ts`, 401 answers | `held` is memory, `stored` the device; each asynchronous function has its own place |
| `MobileCheckout` | `checkout.tsx`, `cart.tsx`, `checkout.ts`, `flow.tsx` | `attempt` is a call of `handleStripeCheckout`, `retry` the checkout kept, `checkouts` the services' side |
| `MC...` | instances for TLC: values of functions, symmetry, components side by side | |
| `OrderPaymentsProofs` | theorems on `OrderLifecycle`, `OrderPayments` | |
| `DiscountReservationProofs`, `CheckoutProofs` | theorems on `DiscountReservation`, `Checkout` | |
| `AccountProofs` | theorems on `AppSession`, `CustomerAccounts`, `OperatorTeam` | |
| `PurchaseProofs` | theorems on `OrderPricing`, `OrderCreation`, `LoyaltyLedger`, `MobileCheckout` | |
| `StoreProofs` | theorems on `StripeConnect`, `LaunchApproval`, `StoreHours` | |
| `DeliveryProofs` | theorems on `NotificationOutbox`, `OrderStreams`, `MenuImports`, and on `MCDelivery`, their composition | |
| `ServicesProofs` | theorems on `MCServices`: the composition, and a discount held for open drafts only | |

`OrderLifecycle` is extended by `OrderHistory` and `OrderPayments`; `OrderPayments`,
`DiscountReservation` and `Checkout` each instantiate the abstract specification
beside them. `Checkout` ends where `OrderPayments` begins: an order it promotes is
PAID, and only whether it is over matters there. `MobileCheckout` meets services
that behave as `CheckoutLife` says, `AppSession` tokens that behave as in
`CustomerAccounts`.

`MCServices` and `MCDelivery` put components that share no state **side by side**: a
variable `part` is drawn at the start and says which of them moves, and the others
stay in their first state. A run of `MCServices` is thus the union of eleven
independent state spaces, not their product, and its properties speak of one
component each. Nothing is claimed of how the parts would interact, because they do
not; `TypesOK` is the type invariant of the part that moves. That each part moves there
as it does in its own module is a theorem (`EachServiceAlone`, `EachDeliveryAlone`), so
what is proved of a component for every value of its constants holds in the composition.

Operators named after another one (`CancelableCompleted` of `Cancelable`, and so
on) with a comment that starts "Mutant:" are plausible mistakes. Each is what one
property of one run would catch, and none is used by a specification.

## How the code is modelled

- One action is one effect: a read of a row, a write to one store, a call that
  changes another service. Between two effects of a request anything else may
  happen. Reads that decide only what the same request does next are part of the
  effect before them.
- A request that dies, is refused by an upstream or times out stops where it is
  (`FailRequest`), at any effect. Nothing it did is undone. A refused loyalty
  mutation is such a failure.
- Stripe: an intent succeeds, or is declined and can be tried again; events arrive
  in any order, as often as they are not accepted, also twice at a time. An event
  is forgotten once its handler has saved it.
- Loyalty and refunds are taken at their contract in `OrderPayments` and
  `Checkout`: an idempotency key is applied once. `LoyaltyLedger` shows where the
  loyalty service keeps it, and where not: see below.
- Of PostgreSQL what the code relies on is modelled: a statement is one step, a
  transaction's rows are seen by others when it commits, a row that another
  transaction has locked is waited for, a deadlock ends one of the two.
- A request of a client may be answered late or not at all, while the service goes on.
- Time is only a choice: a draft may lapse at any time, a time-based read may find
  any later target, an intent may be stale.
- Names, amounts, wording and notifications are left out; amounts are compared for
  equality in the code, and a mismatch is an early return without an effect.

## Runs

Every run uses small sets of model values. `MaxFailures`, `MaxDeclines` and the other
`Max...Deaths` and `Max...Faults` count rare events, and the other `Max...` count rows
that are ever made. A request has at most ten effects, so two slots show every overlap
of two requests at every pair of effects; what a third would add is covered by the
proofs where there are any, which are for any number.

| run | shows | bounds |
|---|---|---|
| `serial` | one request at a time, while the fulfilment mode is changed and handlers act on the mode they have cached: the stored order implements `OrderHistory`, captured payments settle, and refunded orders end | 1 slot, both modes, 2 deaths, 1 decline, 2 cancel reasons |
| `overlap` | what holds of row, money and points when two requests overwrite each other's copies, the mode changes and a refund may come before the charge; that a captured payment the order does not know yet is still to be delivered | 2 slots, both modes, 1 death, 1 decline, 2 cancel reasons |
| `lost_cancel`, `lost_payment`, `declined` | counterexamples, see the findings | |
| `discounts` | limit, once per customer, refinement of `DiscountLimits` while the terms change; nobody waits for the lock for ever | 2 requests, 3 orders, 2 customers |
| `checkouts` | drafts, intents and orders agree and refine `CheckoutLife`, so that no confirmation brings an order back that is over; a captured payment is in an order or still to be delivered | 2 slots, 2 checkouts of one cart, 1 death |
| `two_orders` | counterexample, see the findings | 1 slot, 2 carts |
| `services` | the safety of eleven components side by side | next table |
| `delivery` | what must happen in the end, in four components side by side | next table |
| `stream_terminal`, `try_again` | counterexamples, see the findings | |

| component | run | properties | bounds |
|---|---|---|---|
| `LoyaltyLedger` | `services` | `LedgerIsExact`: a key is applied once, the balance is what the ledger is worth | 3 mutations of 2 keys, 2 slots, 1 death |
| `OrderCreation` | `services` | `CreatedWhole`: one order for a quote, one active order, and a payable order holds its discount | 2 carts, 2 slots, 2 orders, 1 death |
| `CustomerAccounts` | `services` | `CredentialsUsedOnce`, `EndingsAreFinal` | 2 slots, 4 rows |
| `OperatorTeam` | `services` | `OneOwnerOneStoreAccount`, `NoWayBackIn` | 1 slot and sign-ins beside it, 2 e-mail addresses, 3 rows |
| `OrderPricing` | `services` | `QuoteAddsUp` | prices, percentages, caps and taxes that round up, down and exactly, negative lines, codes above 100 % |
| `StoreHours` | `services` | `OpensWhenSaid` | every moment of a week of half hours, one change of the clocks, hours before and past midnight, week's end |
| `AppSession` | `services` | `DeviceFollowsSession` | 4 tokens, 2 faults |
| `MobileCheckout` | `services` | `PaidOncePerBag` | 2 attempts at once, 2 bags' contents, 2 checkouts, 1 fault |
| `StripeConnect` | `services` | `ChargesStayReachable` | 2 slots, 2 accounts, 1 sale |
| `LaunchApproval` | `services` | `LaunchIsApproved` | 1 staff update and 1 approval at once, 1 claim, 2 facts |
| `Checkout` | `services` | `ReservedOnlyOpen`: an expired draft gave its redemption back | 1 slot, 2 checkouts of 2 carts, no deaths |
| `NotificationOutbox` | `delivery` | `NotifiedOnce`, `OutboxDrains` | 2 statuses, 1 device, 2 handlers, 2 batches of 1, 1 fault |
| `OrderStreams` | `delivery` | `CapacityHonoured`, `KeepsPolling`: a list is never left without its polls, `LastIsShown` | 2 streams of each kind, room for 1, with and without Redis, 1 fault |
| `MenuImports` | `delivery` | `MenuIsOneImport`, `SourceIsStored` | 3 answers of the source, 2 imports at once, 1 retry, 1 edit of the source, 1 fault |
| `Checkout` | `delivery` | `PaidBecomesOrder`: a captured payment becomes an order | 2 slots, 1 checkout, 1 death |

A few properties hold only as long as nothing overlaps or dies, because the code has
neither a lock nor a transaction there. A history variable remembers whether it did
(`disturbed`, `crowded`, `mingled`, `tangled`, `crossed`, `wandered`, `entwined`,
`upset`, `scanty`), the property says so, and the model goes on all the same, for the
parts of the property that always hold. What happens otherwise is in
[findings](#findings), under "met on the way".

Symmetry is used in safety runs only (`overlap`, `checkouts`, `services`), over slots,
and over the checkouts of one cart: their ids are random and never compared.

**Fairness.** A request in flight goes on (weak fairness of its steps): an event
loop runs what is ready. Stripe redelivers an event until it is accepted, so a
webhook that could be handled again and again is handled in the end (strong
fairness, because a slot may be taken by other requests in between). Customers,
staff and the reconciler need never act. Deaths are finite; without that, no
retry scheme terminates. In particular a loyalty refusal is taken to be a passing
one: a customer whose points were spent on another order in the meantime is
refused at every redelivery, and `PaidBecomesOrder` says nothing of them. PostgreSQL
gives a lock to each that waits for it (strong fairness in `DiscountReservation`).
The dispatch worker asks for batches again and again, and backoffs run out
(`OutboxFairness`). The gateway's timers fire, Redis and the orders service answer
(`StreamsFairness`). The menu worker's loop and the catalog's transactions go on
(`MenuFairness`; in `delivery` only when menus are the part that moves, as the loop never
rests). In `try_again` the customer keeps trying (`PersistentSpec`), so that
it is the app, not her, that gets nowhere.

**Deadlock** is checked in `discounts`, where some request can always move. Orders and
checkouts do end and counters reach their bounds, so the other runs do not check it.

## Findings

- `lost_cancel`: `updateOrder` (repository.ts:1326) overwrites the row with a copy
  read earlier. A status update or webhook in flight undoes a cancellation, which
  `docs/order-lifecycle.md:36` rules out.
- `lost_payment`: `cancelOrder` (service.ts:1824) decides on the status it read.
  A payment that settles meanwhile is canceled without a refund, against
  `docs/order-lifecycle.md:111`. The captured payment is not lost from Stripe, but
  nothing in the code returns it.
- `declined`: a declined attempt releases the discount code (service.ts:2014), the
  next attempt succeeds, and the order is paid at the discount without a redemption
  that counts. `service.test.ts:425` says it is redeemed on payment success.
- `two_orders`: a customer whose first payment sheet is still open may begin a
  second checkout; both may be paid, and both become active orders, although a new
  checkout is refused while an order is active (service.ts:294).
- `stream_terminal`: the stream of one order fetches (routes.ts:3113 of the gateway),
  subscribes (3249), and then stops polling for good (3261). An update in between
  reaches it by neither way; if it was the last one, the stream stays open on the old
  status, though `gateway.test.ts:3006` has it close after a terminal update. The app
  polls beside it, the gateway's lease is kept.
- `try_again`: the app reuses a checkout by the copy it kept when it was created
  (`checkout.ts:144`), whose status is never read again. An expired one is refused at
  every try, with "Checkout expired. Please try again." (service.ts:1095), until the
  bag is changed.

Met on the way, without a document that says otherwise:

- A request that dies between expiring a draft and releasing its discount
  (service.ts:1050), or two requests that reserve for one draft (repository.ts:1657),
  leave a redemption RESERVED for good on an EXPIRED draft; and a draft that is paid
  after it expired has the discount without a counted redemption. `services` therefore
  checks `ReservedOnlyOpen` for one request at a time and without deaths.
- Loyalty: a mutation that dies after its ledger entry is applied again by the retry,
  and two at once lose one's points, since the balance is written as a value
  (loyalty routes.ts:795).
- `createOrder`: a request that dies before it records its order makes the retry
  create another one and cancel the first. There are never two active ones.
- Accounts: a sign-in or a refresh that overlaps the deletion of the account leaves a
  live session of an account that is gone (identity repository.ts:1815).
- Accounts: a sign-in with Apple whose e-mail is another account's is given a session,
  but none of its row is updated (identity repository.ts:1536), so the refresh token of
  this sign-in is lost. An account that has no older one cannot be deleted: it is
  answered 409 (routes.ts:1344) until a sign-in that brings the token in.
- Operators: `createOperatorUser` inserts the account and lets it into the location in
  two statements (identity repository.ts:2285). The account of a request that dies in
  between can sign in, for its `location_id` stands in for the missing row, but the
  location does not list it, so a second owner or store account can be made beside it.
  A later request with its e-mail finds and completes it. `OneOwnerOneStoreAccount`
  counts the accounts that are listed, or that a request is about to list; two requests
  at once each find no store account and make one, hence its `tangled`.
- A refresh of the app in flight while she signs out brings the session back on the
  device.
- Two updates make a percentage above 100: the value first, then the type
  (repository.ts:1542). The subtotal caps what it takes off.
- Connect: two requests at once each make an account, and the last to write the
  profile wins, though the owner may have onboarded, and customers paid on, the other
  (payments routes.ts:2763).
- Launch: the status of the client and that of its progress differ once two updates
  overlap or one dies; two admins could take a client live whose approval one of them
  has just taken back. `LaunchIsApproved` has one admin.
- Menus: two overlapping imports mix if one of them found no item to delete, and so
  none to lock. Deadlocks of imports are broken by PostgreSQL and retried.
- A list of orders may end on an old status: an event published late overwrites it,
  and the polls that follow find nothing new to send. `LastIsShown` says that the last
  status was shown, not that it stays.

## Proofs

The theorems are for every value of the constants: any number of slots, checkouts,
carts, orders, customers and requests, any bounds on deaths, faults and declines.
They assume only the named assumptions of the modules (`ConfigurationOK`, `CodeOK`,
`RequestsOK`, `CheckoutOK`, `TeamOK` and so on, beside the constants): shapes of the
constants; that there is something to work on where the code is configured with it
(carts, e-mail addresses, statuses, claims, mutations, of which there are finitely
many); and that a cancellation reason is none of the model's own marks. Four
theorems have a hypothesis of their own, and say so: `LaunchOnlyApproved` is for one
admin, as the run is, `HeldForOpenOnly` for one request at a time that does not
die (`OneByOne`), and `SerialKeepsHistory` and `SerialRefundIsRemembered` for one slot,
the latter without refunds of what is not PAID yet, as the run `serial` is.

Every invariant below was checked by TLC on a small instance before it was proved.
Where the argument is by induction on data, a least counterexample takes its place:
the set of the naturals where a claim fails has a least element, which the library's
theorem on well-founded relations gives without a parameter.

**Order settlement** (`OrderPaymentsProofs`). The safety
properties are not inductive: a handler writes back a row it read long ago.
`OrderPaymentsInvariant` asks of every copy in flight what it asks of the stored
row, which works because the facts behind a row (capture, payment id, applied
keys, refund) are never taken back; the rest says which of these facts a handler
has established by each of its steps. From it follow `TypeOK`,
`TimelineWellFormed`, `PaidIsSettled`, `CanceledAfterPaidIsUndone` and
`PointsUndoneOnlyAfterRefund` for any overlap, and, with at most one slot, that the
order implements `OrderHistory`. The latter does not hold with two: that is
`lost_cancel`.

What the liveness of the settlement rests on is proved as safety. A captured payment
whose order still waits for it has its event at Stripe: `PaymentIsRemembered`, for any
overlap, by an invariant of its own (`PaymentIInv`) on top of the other one: once a copy in
flight is past PENDING_PAYMENT so is the order, and so it is when a handler is about to
have the charge's event saved; no write takes it back (`OutcomePastPending`). With
one slot the same holds of a refund whose order the kitchen still has
(`RefundIsRemembered`, `RefundIInv`); two requests can write the order back to life after
the event was saved.

**Discount codes** (`DiscountReservationProofs`). A request between lock and commit
holds the lock, and what it has counted and checked still holds when it inserts,
because meanwhile no redemption becomes active and the terms do not change. Hence
the limit, once per customer, and the refinement of `DiscountLimits`. The holder of the
lock is at work, so whoever waits, waits for one that can go on (`SomeoneGoesOn`).
`TermsHonoured` is the limit and once per customer together, each with a theorem of its own.

**Checkouts** (`CheckoutProofs`). `Trusts` says what a request counts on at each
step: its checkout, a captured payment once it confirms, the points on the ledger
before it promotes. `Grows` says that none of this goes away, so that one lemma
deals with all the other requests and only the one that moves needs a proof.
`MoneyFirst` (no intent without a draft, no event without a capture) is what makes
a late payment map to a payment of an open or expired checkout. From it follow
`TypeOK`, `OrderIsSettled`, `ConvertedHasOrder`, `OrderStaysOver` and the
refinement of `CheckoutLife`; and, since an event is saved after its order was written and
no order goes away, `PaymentIsRemembered`. `HeldForOpenOnly` adds, for one request at a time,
who will release a redemption that is RESERVED: its draft is open, or the request
that expired it is at that very step.

**The app's session** (`AccountProofs`, `App...`). One token is valid, and at every
await of start-up, signing in, refreshing and leaving the invariant says where it is:
in the answer on its way, in memory, on the device; and which of these functions
exclude each other. Hence `DeviceFollowsSession`.

**Accounts** (`Accounts...`). Every request in flight is tied to the rows it has read:
a refresh to the session it is to replace, a deletion to what it has deleted so far, a
passkey sign-in to the challenge it answers. Sessions and challenges are sequences that
only grow, so that what was ended keeps its place: `EndedStaysEnded` is an action
property, proved from this invariant. While requests do not overlap, nothing of a
deleted account remains; `mingled` is a conjunct's hypothesis, as in the property.

**The team** (`Team...`). A write that is not disturbed sees the rows that its guard
has looked at; `tangled` is set by whatever overlaps it. An account is listed only by the
statement after the one that makes it, and a request may die between them; so the
invariant bounds the listed owners and store accounts, and says of a request that has yet
to list one that none is listed but that with its e-mail (`TeamReady`). `OneOwner` adds
the accounts such requests hold (`Counted`). The deletion of an operator is three statements too, so
the invariant says, for each it may stop after, who can still sign in.

**Quotes** (`Pricing...`). A code's row stays well formed whatever its updates leave in
it, so a quote is a matter of arithmetic: `HalfUp` is a quotient within half of what it
rounds (from the law of quotients and remainders), the points and the code are each the
least of what is asked and what is left. `QuoteAddsUp` follows for all prices, negative
lines included, and all rates and rows of a code.

**Order creation** (`Creation...`). While requests do not overlap, the one that is served
finds no active order but the one it has in hand, which is unpaid, and none is recorded
yet for its quote (`NoneBeside`, `Recorded`); every unpaid order holds its discount, but
for the one that is just being made or superseded (`HoldsDiscount`). The first of these
survives deaths, the others do not, as the finding on `createOrder` shows.

**Loyalty** (`Ledger...`). `LedgerIsExact` sums over the mutations. That the community
module's sum is the function it recurs with, that this function exists, and that one
entry more is worth what it brings, are lemmas, each by a least counterexample. The
invariant says how far the request that is served has come: entry written, balance
saved, key recorded (`LedgerSays`). That the balance comes from entries of the ledger
and is never negative holds with overlaps too, since whatever a request has read or
saves is the worth of some entries (`Backed`), and no entry is ever taken back.

**The app's checkout** (`Phone...`). While the customer stays with her bag, one attempt
is under way, it works on a checkout of this bag, and a checkout of the bag that was
paid is the one that is kept for a retry or worked on. So a second one is not paid.

**Connect** (`Connect...`). While requests do not overlap, the one in flight works on the
account that the profile names, or on a new one while the profile's may be replaced,
as there is none or it is gone (`WorksOnProfile`); so no account but the profile's is
onboarded and in reach, and none but it was charged on (`OneInUse`).

**Launch** (`Launch...`). An approval in flight has read facts that held when it read
them; the client goes live only by it. With one admin nobody takes the approval back in
between, however staff write; with any number this needs that nothing overlaps
(`LaunchApprovedOfAny`).

**Notifications** (`Outbox...`). Each status was claimed by one handler, and each row
made by it, for one device; a batch at work holds rows it was given, and knows which it
has sent. A push counts against a fault or against the row's last delivery.

**Streams** (`Streams...`). Leases are counted; the invariant has the set of streams that
hold one, and the counter is its size, through opening, joining, failing and a clean-up
that several callbacks begin. `KeepsPolling` is inductive beside it, once it is split into what
each stream owes (`Polled`): a command stays on its way until it is the next, and only the
stream it was sent for moves by its answer; a subscription that fails, or that joins
another stream's Set, sets the timer of a list.

**Menus** (`Menu...`). What an import has deleted stays there, locked, until it commits,
and no two have deleted the same; with a category it has deleted all items in it, those
added by staff meanwhile too (`CascadeIsComplete`); so every item keeps its category
however imports, edits and failures interleave. Until imports overlap of which one found
no item to lock, who replaces the menu has deleted all of it and is alone
(`OneReplaces`): that gives `MenuIsOneImport`. Who waits for a row waits for an import that
has deleted some already, who waits for a key for one that is about to commit; if all
waited, two of the former would wait for each other, and PostgreSQL refuses one of them:
`SomeImportGoesOn`.

**Store hours** (`StoreHours`). The answer outlives the moment it was given, so the
invariant keeps that moment and the day whose opening is named: the store was closed then,
and no listed day opens earlier after the time its clock showed (`Answers`). Below that lie
lemmas on the calendar: a time of the clock is a day and a time of that day, by quotient and
remainder with a day length that is any positive number; `isOpenForHours` says what the
hours say, each as the opening days that reach into the time asked for; of the fortnight
`buildNextOpenAt` searches, the first opening is the first of all, since hours list a day of
every week; and the guesses `toDateInTimeZone` corrects reach a moment at which the clock
shows the time asked for after two corrections, and stay there, unless the change skips or
repeats it. Then the clock at any moment between the answer and the opening shows a time
between the two, or one before or after the change that no opening or closing falls in: so
`OpensWhenSaid` holds for any hours, offsets and length of a day and a change of the clocks
of any size, forwards or back.

**The compositions** (`ServicesProofs`, end of `DeliveryProofs`). A step of the composed
module is a step of one part and of none of the others, and the instances of `Checkout`
there and in the proofs have the same steps, definition by definition. So the specification
of the composition implies that of every part; the types of all parts (`TypesOK`) and
`ReservedOnlyOpen`, for the two checkouts of the run, follow from the theorems on the parts.
In `MCDelivery` the fairness of the menus is in their own part only, so of them the
invariant is taken over, not the specification.

Only model-checked: the liveness properties, since liveness under fairness is out of
the prover's reach (`CapturedPaymentSettles`, `RefundedOrderEnds`, `RequestsAnswered`,
`OutboxDrains`, `LastIsShown`, `PaidBecomesOrder`, `SourceIsStored`). Every other property
of a passing run is stated by a theorem.

Proved, and in no run: some safety that lies below a property the runs check. TLC checked
each as an invariant, or action property, before it was proved; a run that has the stronger
property finds out sooner. These are `RefundIsRemembered` (below `RefundedOrderEnds` in
`serial`), `SomeoneGoesOn` (below `RequestsAnswered` in `discounts`, and its check for
deadlock), `SomeImportGoesOn` (below `SourceIsStored` in `delivery`) and `OrderStaysOver`
(below `KeepsPromise` in `checkouts`). The type invariant of
`Checkout` is checked in `services` and `delivery`, as a part of `TypesOK`.

## What is not covered

- Refunded amounts: any refund on the Stripe dashboard counts as full, as in the
  code; a partial refund therefore cancels an order, which no property judges.
- Activity, dates and eligibility of a discount code, which a reservation does not
  check again.
- In `Checkout`, a checkout id is drawn from a finite pool; when it is used up
  (`OutOfIds`) the request is dropped.
- Settings: app configuration, store settings, featured cards, uploads, edits of an
  item's other columns. Each is one statement that writes what the request says.
- `getMenu`'s two reads, between which an import may commit; the platform's own PUT of
  a payment profile; operators of several locations and the rotation of their sessions;
  the platform's admins.
- The gateway's authentication, proxying and rate limits, and the services'
  configuration and start-up: stateless, or the library's.
- Clover: its OAuth routes and adapter are not on the path of orders any more.
- E-mail, Apple, push and media clients are pure I/O. Dashboards and the web site
  appear as the requests they send; what screens draw is left out.

## Plan

Order of work, the most important behaviour first. Done: the modules above, and the
theorems on the safety of every component and of the compositions. Left:

1. The action properties and steps that the theorems do not state yet: that each
   component's history variable is set by overlaps only, and what a request that
   overlaps may still rely on (the ledger's balance is an example).
2. An abstract specification for the outbox (each push delivered, at least once, unless
   it is given up) and for the accounts (a session lives until it is ended).
3. Rotation of operator sessions, with the dashboard's own copy of them.
4. Partial refunds, should the code come to tell them from full ones.

Layout: each component has its module, an abstract specification beside it where
one is worth stating, an `MC` module that instantiates it, and its theorems in a
`...Proofs` module.
