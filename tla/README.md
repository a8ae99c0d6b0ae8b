# A formal model of the food-rescue backend

This directory is a TLA+ development of the NestJS backend in `../src`: food
businesses list surplus food, charities and farmers claim it, drivers collect it,
and standing "connections" between a kitchen and a charity produce a prompted
listing every day. Around that core stand the accounts of the businesses, the
subscriptions they pay with, the portal in which large ones manage their people and
sites, the contracts those are billed by, and the push
notifications. The modules are translated from the TypeScript services and the Prisma
schema; where the code and its comments disagree the modules follow the code.

Paths below are relative to `src/src/modules/` unless they start with `src/`.

* [1. The system](#1-the-system)
* [2. What is hard about it](#2-what-is-hard-about-it)
* [3. Modules](#3-modules)
* [4. Runs, bounds, fairness](#4-runs-bounds-fairness)
* [5. Proofs](#5-proofs)
* [6. Where the code does not keep what it says](#6-where-the-code-does-not-keep-what-it-says)
* [7. What is left out](#7-what-is-left-out)
* [8. Plan](#8-plan)

## 1. The system

One PostgreSQL database behind Prisma, one Redis (cache, presence, BullMQ queues),
HTTP handlers that may run concurrently in any number of processes, and BullMQ
workers. Nothing is shared in memory. All coordination goes through rows: a handler
typically *reads and checks* with one query and *writes by id* with a later one, and
only `claimListing` and `cancelClaim` take a row lock (`SELECT ... FOR UPDATE`).

| Component | State | Operations | Talks to |
|---|---|---|---|
| Listings (`foodlisting/`) | `food_listings`, `food_items` | create, cancel, expire (delayed job + five-minute sweep) | claims, connection days |
| Claims (`claims/`) | `food_claims`, `claim_items`, rating counts | claim full/partial, confirm, mark collected, cancel, rate, feedback | listings (lock), days, pickups |
| Drivers (`drivers/`) | `driver_pickups`; Redis keys and sets for presence | accept, assign, respond, trip status, complete; go live/offline, location, list | claims, days |
| Connections (`connections/`) | `connections` | invite, accept, decline, pause, resume, end, update; hourly expiry of invitations | notifications |
| Daily collections (`connections/connection.daily.service.ts`) | `connection_days`, plus the listing it publishes | open + prompt, surplus, no surplus, release (charity, business), reassign; sweeps every minute | listings, claims, notifications |
| Notifications (`notifications/`) | `notification_records`, `device_tokens`; BullMQ jobs | register, unregister, send, dispatch, fan out, send batches, finalise, recover stuck records | push gateways |
| Subscriptions, billing, Stripe webhook (`subscriptions/`, `billing/`) | `org_subscriptions`, `payments`, `stripe_webhook_events`, `organisations.freeTrialUsedAt` | trial, checkout, change plan, cancel, resume, drop a scheduled change; events; trial job; entitlement checks | Stripe |
| Enterprise portal (`enterprise/`) | `enterprise_invitations`, `org_memberships`, `user_scopes`, structure tables, the stamps on listings and claims | issue/resend/revoke/accept, user administration, scopes, structure | e-mail, sites, accounts |
| Enterprise billing (`enterprise/`) | `enterprise_contracts`, `enterprise_invoices`, the status of the subscription | provision, create and update a contract, raise, pay and cancel an invoice; daily jobs: bill what is due, mark overdue, expire contracts and invitations | e-mail, portal, subscriptions |
| Sites (`sites/`) | `sites`, `site_access` | create, update, delete, assign managers and staff | portal roles and scopes, plan limits |
| Accounts (`auth/`) | `users`, codes in Redis, roles in the token | register, verify, log in | portal |
| HTTP cache (`src/src/infra/http-cache`) | version keys and responses in Redis | read, write, invalidate | every write handler |
| Organisations, search, impact, admin, uploads, live updates | rows or Redis keys of their own | CRUD, queries, I/O | |

What makes each correct, in short: *listings and claims* - food is neither lost nor
handed out twice, and the status of a listing says what is left; *drivers* - one
driver per claim, nobody driven without consent, a delivery closes its claim;
*days* - asked once, answered once, reserved food goes to its charity or back to
everyone, silence is reported; *connections* - the transition table of
`connection.rules.ts`, no overlapping windows, invitations end; *subscriptions* - the
row follows Stripe, access ends when the subscription does, a change that was
scheduled lands; *portal* - one use of one link per invitation, an Enterprise keeps a
Super Admin, what a member sees is widened only by somebody who sees that
much, and the guard, the user list and the report filters agree on how far that is; *enterprise billing* -
no month is billed twice, or before it begins; *notifications* - every record is finished, with
the status its devices deserve, and no telephone rings twice.

## 2. What is hard about it

* **Read, then write by id.** Between the two anything may commit. Where the lock of
  the listing row is held on both sides the result is safe (this is proved); where a
  bare `update({ where: { id } })` follows an earlier check it is not, and section 6
  lists what happens.
* **Failures in the middle.** Handlers that write several rows without a transaction
  (repairs, reminders, prompts) can stop anywhere; repairs and sweeps have to finish
  the job.
* **Sweeps racing people.** The sweeps work through lists loaded at their start.
* **Mark, then notify.** Prompts and reminders set a mark first and take it back if
  queueing fails, but queueing may fail after the notification record exists.
* **Two ledgers.** What is paid for is decided at Stripe and copied into a row by
  events that arrive later, again, or not at all, while handlers write both sides; every
  call of Stripe and every row write may be the last a request makes.
* **Rules kept in several places.** A member's reach follows from roles, grants, site
  access and groups, which separate services change, and three functions compute it.
* **Queues.** A job may be taken twice, fail after half of its work, be lost, or be
  counted twice; what is sent cannot be taken back.
* **Time.** Prompt, list-by, cut-off, start and end of a window come in an order that
  depends on the schedule: with a lead time under an hour the list-by time is over
  when the prompt is sent.

Every hazard, with its line, is listed under `hazards` in `PROJECT.json` with the
property that watches it, or the reason there is none.

## 3. Modules

`X_Y` is always a mutant `Y` of definition `X`: the same operator with a plausible
bug. No specification uses them; they are there to check that the properties notice.

| Module | Models | State |
|---|---|---|
| `MarketStore` | the tables that claims, pickups and days share | `listing`, `stock`, `claim`, `pickup`, `day`, `ratingCount`, `lock` |
| `ListingClaims` | `claims.service.ts`, `food.listing.service.ts`, `listing.worker.ts` | `req[s]`: what the handler in slot `s` read and still has to write |
| `DriverPickups` | the pickup half of `driver.location.service.ts` and the repairs in `getMyClaims`/`getOrgListings` | `dreq[s]` |
| `Collections` | `ListingClaims` and `DriverPickups` on the same tables | both, at most `MaxInFlight` handlers at a time |
| `DriverPresence` | the Redis half of `driver.location.service.ts`, one command per step | `live`, `siteSet`, `off`, `call` |
| `ConnectionDays` | `connection.daily.service.ts`, `connection.notifier.ts` (prompt), the sweeps, the recovery of stuck records | `now`, `collecting`, `info`, `window`, `creq[s]` |
| `Marketplace` | `ListingClaims` and `ConnectionDays` on the same tables | both |
| `ConnectionStatus` | *abstract*: what `ALLOWED_TRANSITIONS` of `connection.rules.ts` promises | `status` |
| `ConnectionSchedule` | `connection.schedule.ts` as operators over minutes: validation, the weekdays, local time to instants, the days that are due, overlap | none |
| `ConnectionLifecycle` | `connection.service.ts` and the invitation job | `status`, `charity`, `schedule`, `overdue`; `req[s]`. Implements `ConnectionStatus` unless a handler is overtaken |
| `Subscriptions` | `billing.service.ts`, `stripe-webhook.service.ts`, the trial job, the entitlement and site limit of `subscription-access.service.ts`, and what they use of Stripe | `row`, `trialUsed`, `sites`; `stripe`, `events`; `call[s]`; history: `missed` |
| `Directory` | the tables of the portal and the scope rules (`enterprise-scope.service.ts`, `enterprise.constants.ts`, the reach the user list shows) | `users`, `member`, `grants`, `access`, `sites`, `groups`, `place`, `history`, `invites`, `codes`, `claims` (tokens), `call[s]` |
| `ActivationLink` | *abstract*: what the activation links of `Invites` promise whoever opens one (`Openers`) | `state`, `sent`, `opened` |
| `EnterpriseInvitations` | `enterprise-invitation.service.ts` and the job that expires invitations; implements `ActivationLink` | |
| `EnterpriseUsers` | `enterprise-user.service.ts` | |
| `EnterpriseStructure` | `enterprise-structure.service.ts`, and the stamp a listing or a claim gets | |
| `SiteAccess` | `sites.service.ts` | |
| `Accounts` | the portal's half of `auth.service.ts` | |
| `EnterpriseBilling` | `enterprise-billing.service.ts`, `enterprise.worker.ts` | `contract`, `invoices` (by the start of the period), `subscription`, `today` |
| `EnterprisePortal` | `Directory` and the five modules below it, together | `left`, `mix`: bounds |
| `Notifications` | `notification.service.ts`, `.producer.ts`, `.worker.ts`, the gateways | `rows`; `owner`, `active`; `fcmReady`; `jobs`; `sending`; `old`, `stale`; history: `fate`, `repeated`, `slipped` |
| `MC...` | instances for TLC | |
| `..._proofs` | theorems about the module of that name, and their proofs; those of `ConnectionSchedule` are with `ConnectionLifecycle`, which extends it, and those of `Marketplace` with `ConnectionDays`, which it extends | |

How code becomes actions:

* A handler is two actions. `...Read` has the handler's checks as guards and stores in
  its slot what it will use later without looking again; `...Write` is everything the
  handler (or its transaction) writes, including the connection day that is settled
  with a claim or an expiry. What the handler does *not* re-check is not a guard of
  the second action.
* A transaction that holds the row lock first takes `lock[l]`; an `UPDATE` of a locked
  row waits (`RowFree`). A transaction no one can see half of (`createListing`) is one
  action, and so is `cancelClaim`, whose reads all come after its lock.
* A handler can die between its actions (`Crash`, `DriverCrash`, `Die`): nothing more
  is written and its lock is released.
* Redis commands of one call are separate steps (`DriverPresence`).
* The clock of `ConnectionDays` has just the instants its schedule distinguishes;
  `Schedule[d]` gives prompt, list-by, cut-off, start and end of the window. Listings
  of ordinary businesses become `due` at any moment.
* `ClaimColumns` is the set of columns of `food_claims`. `cancelClaim`'s first
  statement names `listing_id`, which is not one of them, so on the repository's
  schema the query fails and `CancelClaim` changes nothing; with the column added it
  does what follows the query (`CancelLocked`), and the run that is about cancellation
  says so.
* `PushFailures` says how queueing a notification may fail: `"before"` or `"after"`
  the record is written.
* A call of Stripe is a step of its own, between the reads and the writes of its
  handler. What it changes there is told by an event, which carries the object as it
  was then; events stay in `events` until they are acknowledged. `releaseSchedule` is two
  steps (`ReleaseAtStripe`, whose error is swallowed as in the code, and `ClearPending`)
  and so is the making of a schedule (`CreateSchedule`, `SetPhases`). `Die` is a request
  that stops, or whose next statement fails.
* An event is lost in two ways, and neither needs a process to stop. `Lost`: its marker
  cannot be written, for whatever reason, and `handleEvent` answers that it is a
  duplicate. `MarkerStays`: the handler fails and the marker cannot be deleted either, or
  the process stops. `HandlerFails` is the `catch` that works. `missed` remembers whose
  row is behind for such a reason; the next event about the subscription itself makes up
  for it (`Catches`).
* Stripe is external, and modelled only as far as the code relies on it: one
  subscription per completed session, renewals, failed and recovered payments, the end
  of a subscription, schedules of two phases, and its refusal to schedule a change
  twice or to set the cancel flag of a scheduled subscription.
* A request of the portal is two steps like any handler; `left` counts the requests a
  behaviour still makes and `mix` names the services it makes them of. `claims` is the
  token a person holds, which keeps the roles of the login.
* The jobs of `Notifications` are a function from the job's contents to where it is;
  an interrupted job starts over (`Restarted`). `sendBatch` leaves Expo's devices without
  an answer when a response has too few tickets. `finalizeIfComplete` is followed by the
  error of a provider that is not configured, if one of the job's devices needed it; then
  BullMQ repeats the job (`AttemptFails`) and in the end `onFailed` marks the row, unless
  that statement fails. `stuck` takes rows of today and yesterday; `DaysPass` makes a row
  older than that. `fate`, `repeated` and `slipped` are history variables: no action is
  enabled or changes the other variables because of them.
* `assignExistingSiteAdmin` writes access, scope and role in three statements outside a
  transaction, and is three steps (`AssignExisting`, `GrantExisting`, `RoleExisting`).

## 4. Runs, bounds, fairness

`tlc -config <run>.cfg <module>.tla`. States and times are of two workers on a laptop.

| Run | Module | Shows | Distinct states |
|---|---|---|---|
| `claims_concurrent` | `MCListingClaims` | two requests and an expiry job interleave: `OneClaimPerSite`, `HeadOfficeClaimIsLast`, `StockConserved`, `ListingTotalsAgree`, `StatusMatchesStock`, `ClaimsOnlyOnOpenListings` | 910,372 |
| `collections_serial` | `MCCollections` | one handler at a time, cancellation working, up to three pickups: `OneDriverPerClaim`, `CompletionSettlesClaim`, `CollectedIsFinal`, `StockConserved`, `DueListingsClose` | 91,472 |
| `collections_concurrent` | `MCCollections` | two handlers at a time that may die: `AssignmentNeedsConsent`, `DeliveriesSettle` | 117,397 |
| `presence` | `DriverPresence` | three calls and expiring keys: `OfflineNotListed`, `StaleMembersPruned` | 58,680 |
| `days` | `MCConnectionDays` | one handler at a time on two days, failing prompts and reminders, a pause: `PromptAtMostOnce`, `ReservationsKnown`, `ReleasedForGood`, `SilenceIsTold` | 71,652 |
| `days_crash` | `MCConnectionDays` | two handlers at a time that may die, one day, stuck pushes, the donor withdraws the listing: `ReservedFoodIsFreed`, `AnswersStand` | 101,270 |
| `market_concurrent` | `MCMarketplace` | claims on listings of days, two handlers at a time that may die, days already prompted: `ReservationRespected`, `CollectedMeansClaimed` | 1,309,099 |
| `connections` | `MCConnectionLifecycle` | one handler at a time on three connections: `FollowsContract` (refinement of `ConnectionStatus`), `InvitationsEnd` | 115,369 |
| `subscriptions` | `MCSubscriptions` | two checkout sessions, requests, the trial job and the webhook, one handler at a time; handlers fail, requests stop between any two statements, Stripe's errors are met or swallowed, events are repeated and lost: `RowMirrorsStripe`, `StaleEventsIgnored`, `EndedLosesAccess`, `LocalTrialsEnd`, `ScheduledChangeLands` | 302,259 |
| `portal` | `MCEnterprisePortal` | three people, two sites, a group and a contract from fourteen starts, one handler at a time: `ScreensAgree`, `LinksWork` (refinement of `ActivationLink`), `SuperAdminRemains`, `NoWidening`, `PeriodsInSequence`, `NotBilledEarly` | 1,091,787 |
| `notifications` | `MCNotifications` | one record for up to two devices, Firebase configured or not, batches of one or two, one or two workers, one trouble: `SettledHonestly`, `PushedOnce`, `RowsSettle` | 899,050 |
| `cancel_claim_query` | `MCListingClaims` | *counterexample*: `CancelTakesEffect`, a cancellation never takes effect | found after 384 |

Why "one handler at a time" appears: with two, the code does not keep those properties.
Section 6 gives, for each, the change that shows what two handlers at a time do; section
5 proves of most of the safety properties among them, for any number of handlers, that
nothing but a handler overtaken between its check and its write breaks them. The properties of `claims_concurrent`,
`collections_concurrent`, `market_concurrent`, `presence` and `notifications` hold with
handlers interleaved, and so do those of `days_crash`, whose two handlers are one
request and one sweep.

**Bounds.** One listing is enough for what goes wrong on a row; two items tell the
weight of a listing from that of its items; two sites and a head-office user are the
cases of the duplicate-claim check; a listing of two kilograms can be partly claimed.
`MaxClaims`, `MaxPickups`, `MaxQty`, `MaxLines`, `EndOfTime`, `MaxPush`, `MaxBusy`
and `MaxInFlight` are the bounds on rows, weights, the clock and handlers.
`collections_concurrent` has one pickup row per claim: with four rows
`DeliveriesSettle` is not true of the code (section 6, `RepairsSeeDelivery`). Two days in
`days` and `market_concurrent` are two connections of one kitchen: one prompted long before
its list-by time, one after it (lead time under an hour); reassignment needs both.
In `market_concurrent` the clock stops at the end of the first window.
Three connections and two schedules that do not overlap are needed for an
invitation that may and one that may not be made.

`days_crash` puts `ListingClaims` beside the days as one environment action,
`WithdrawListing` of `MCConnectionDays`, so that the sweep meets a listing that is gone.
`collections_serial` gives `ClaimColumns` the missing column (`MCMappedColumns`): only
there does cancellation work. All other runs use the columns of the migrations.

`subscriptions`: two sessions are a subscription and the one that replaces it, two
plans an upgrade and a downgrade, one schedule per subscription is one change waiting
while another is made. `MaxSteps` is the number of billing requests, of Stripe's own steps
and of the errors nobody repeats (a lost event, a release or phases that Stripe refuses)
together, five: check out, schedule a change, lose a payment, end, check out again.
`MaxEvents`, two, stops Stripe from acting before what it said has arrived; repetitions
and failures that are repeated come on top of it. `InOrder` makes it deliver in the order
of what happened and repeat a failed event before the next: an assumption the code makes
of Stripe without saying so, under which the row is right in the end. `Mortal` is every
handler but the webhook's, whose end is `HandlerFails` or `MarkerStays`. `RowMirrorsStripe`,
`EndedLosesAccess` and `ScheduledChangeLands` leave out a subscription of which an event
was lost until the next one makes up for it; `RowMirrorsStripeAfterAll` (section 6) does
not. `Sitecap` is beyond the allowance of the smaller plan. All seeded plans are
priced per organisation, so the quantity is 1.

`portal`: the starts are seven situations an Enterprise is in - just provisioned, run
by an owner from before the portal had roles (also with one site and no group yet),
with administrators of a group and a site, with a viewer limited to a site, with an
address nobody has registered, and with two invitations for it - each with the services
a behaviour mixes and two to five requests. `MaxScopes` 1 scope per request;
`InvitedRoles`, `InvitedSites` what people are invited to: a site outside the group
whose administrator invites. Three people are a caller,
a target and a bystander; two sites are one within and one outside a reach; the group
stands for the three dimensions, whose code is one function with the dimension as a
parameter. Requests are counted, and services chosen, per start because the product of
all services is too large; services that write each other's tables meet two or three at
a time. The billing start has three requests and the jobs besides: `EndOfTime`, 2, is
three months, enough for a contract to be billed, run out and be billed again;
`Frequencies` leaves out ANNUAL, a period as far beyond the clock as QUARTERLY is.
`Largest` is 9999, as the code pads numbers. `BackBilling`, FALSE, says that
administrators do not bill by hand a period they had left out: if they do, periods
overlap (section 6). A job that finds nothing to do takes no step. What a contract says
and the access that follows from it are two statements of one handler in the code, and
one step here: nobody reads both, but a process that stops between them leaves access
behind the contract, which the model does not show.

`notifications`: `Settings` picks size of a batch and of the worker pool together with
the kinds of trouble met (a dispatch, a failing statement, a stop, a lost job, half an
hour, devices that come and go); `MaxTroubles` is one of them per behaviour. Not counted
are the days that pass and what providers answer, or leave out of their answer, which is
free in every wave. Two extra waves and three attempts are
the code's constants; `MAX_RECORDED_FAILURES_BEFORE_STOP`, five in the code, is one
here, so that two devices are enough to reach the stop. With two devices a batch of one makes two
batches whose counters meet. `LossPoints` is `"queued"`: a job lost later is not
recovered (section 6). `RecoverLimit` stands for the 30 rows of a repair.

**Deadlock** is not checked: when every bounded row is used and nothing is due the
system has nothing left to do.

**Fairness.** Weak or strong fairness is assumed only of what the code schedules:

* a handler that was started is finished (`Terminate`, `DriverFinish`, `RequestStep`,
  `SweepStep`): strong, because it may have to wait for a row lock again and again,
  and because BullMQ retries and users repeat what died; a handler may still crash
  any finite number of times;
* the expiry sweep (every five minutes) and the connection sweeps (every minute) keep
  starting (`ExpireRead`, `SweepStart`): repeated jobs in `listing.queue.service.ts`
  and `connection.queue.service.ts`;
* the clock goes on (`Tick`), invitations lapse;
* somebody keeps opening a list of claims, or of live drivers (`MyClaimsRead`,
  `OrgListingsRead`, `ListMembers`): the repairs live in these reads. This is an
  assumption about users, not about the scheduler, and is what the code relies on;
* for `CancelTakesEffect` only: the claimant keeps asking to cancel;
* a handler of `Subscriptions` goes on, a webhook call that was started is finished,
  Stripe repeats an event until it is acknowledged, the trial job runs every hour
  (`Proceed`, `StampTrial`, `Receive`, `Repetition`, `SweepStart`).
  Strong, because a statement may fail any finite number of times and because a handler
  waits for its turn; nothing is assumed of customers or of what Stripe decides;
* jobs of `Notifications` are run, a request that wrote its row queues it unless its
  process stops, and the repair runs every two minutes (`NotificationsFairness`):
  weak. That providers answer is part of running a job; what they answer is free.

No fairness is assumed of requests in general, of drivers or of a business's answer.

## 5. Proofs

`tlapm <module>.tla`. Everything below is proved for all values of the constants
that satisfy the assumptions of the modules (finite sets of slots, items and days;
bounds are naturals; `Null` is no organisation, site, listing, slot, plan or session; `Receiver`
and `Schedule` are functions on the days).

Several theorems have the form `Spec /\ [][NotOvertaken]_vars => ...`. Handlers of the
code check with one query and write with a later one, and nothing keeps another handler
from writing in between; where one does, the property fails (section 6). `NotOvertaken`
says of a step that what another handler in progress has checked, and will write without
checking again, stays true if it was true before. It
bounds neither the number of handlers nor the order of their steps, and handlers that stop
or fail anywhere are included. So these theorems say which overlaps are
dangerous - each conjunct of the predicate is one check that a lock, a constraint or a
condition in the `where` of the update would have to protect - and that no sequence of
other overlaps, repetitions and failures does harm.

| Theorem | States |
|---|---|
| `ListingClaims_proofs!ClaimsTypeCorrect` | `ClaimsSpec => []ClaimsTypeOK` |
| `ListingClaims_proofs!ClaimsAreOnOpenListings` | `ClaimsSpec => ClaimsOnlyOnOpenListings` |
| `ListingClaims_proofs!ListingTotalsAgreeHolds` | `ClaimsSpec => []ListingTotalsAgree` |
| `ListingClaims_proofs!StockConservedHolds`, `OneClaimPerSiteHolds`, `HeadOfficeClaimIsLastHolds`, `StatusMatchesStockHolds` | the invariants of those names, if `food_claims` has no column `listing_id` |
| `ListingClaims_proofs!StockConservedUnlessRevived`, `OneClaimPerSiteUnlessRevived` | `ClaimsSpec /\ [][NoRevival]_claimsVars => []StockConserved` and `[]OneClaimPerSite`, with or without that column |
| `ListingClaims_proofs!StatusMatchesStockUnlessRevived` | `StatusMatchesStock` likewise, if `MaxLines <= 1` |
| `ListingClaims_proofs!NoOverdrawByOneLine` | `ClaimsSpec => []NoOverdraw`, if `MaxLines <= 1` |
| `Collections_proofs!CollectionsTypeCorrect` | `Spec => []TypeOK` |
| `Collections_proofs!AssignmentIsAnswered` | `Spec => AssignmentNeedsConsent` |
| `Collections_proofs!OneDriverUnlessOvertaken`, `CompletionSettlesUnlessOvertaken`, `CollectedIsFinalUnlessOvertaken` | `Spec /\ [][NotOvertaken]_vars => []OneDriverPerClaim`, `[]CompletionSettlesClaim`, `CollectedIsFinal` |
| `Collections_proofs!CollectionsTotalsAgree` | `Spec => []ListingTotalsAgree` |
| `Collections_proofs!CollectionsStockConserved`, `CollectionsOneClaimPerSite` | `Spec /\ [][CancelsUndisturbed]_vars => []StockConserved` and `[]OneClaimPerSite`, where `CancelsUndisturbed` is `NotOvertaken` if there is a column `listing_id`, and nothing if there is none |
| `Collections_proofs!CollectionsStatusMatchesStock` | `[]StatusMatchesStock` likewise, if `MaxLines <= 1` |
| `DriverPresence_proofs!PresenceTypeCorrect`, `OfflineNeverListed` | `PresenceSpec => []PresenceTypeOK`, `[]OfflineNotListed` |
| `ConnectionDays_proofs!DaysTypeCorrect` | `DaysSpec => []DaysTypeOK` |
| `ConnectionDays_proofs!AnswersStandHolds` | `DaysSpec => AnswersStand` |
| `ConnectionDays_proofs!PromptedAtMostOnce` | `DaysSpec => []PromptAtMostOnce`, if `"after" \notin PushFailures` |
| `ConnectionDays_proofs!ReservationsKnownUnlessOvertaken`, `ReleasedForGoodUnlessOvertaken` | `DaysSpec /\ [][NotOvertaken]_allVars => []ReservationsKnown`, `ReleasedForGood` |
| `ConnectionDays_proofs!ReservationIsRespected` | `Spec => ReservationRespected` of `Marketplace`, and `PromptedSpec` likewise |
| `ConnectionDays_proofs!CollectedDaysAreClaimed` | `Spec => CollectedMeansClaimed` of `Marketplace`, and `PromptedSpec` likewise, if `food_claims` has no column `listing_id` |
| `ConnectionLifecycle_proofs!LifecycleTypeCorrect` | `Spec => []LifecycleTypeOK` |
| `ConnectionLifecycle_proofs!FollowsContractUnlessOvertaken` | `Spec /\ [][NotOvertaken]_vars => FollowsContract`, the refinement of `ConnectionStatus` |
| `ConnectionLifecycle_proofs!LocalTimeIsRight` | `instantForLocalTime` finds a local time whenever the clocks show it |
| `ConnectionLifecycle_proofs!ResolvedInOrder` | the instants of a day are in order; the end of the window only if neither end is a time the clocks skip |
| `ConnectionLifecycle_proofs!DueDaysMissNone` | looking at yesterday, today and tomorrow misses no day whose prompt is due, if lead time and end of a window past midnight leave room for the change of offset in 24 hours |
| `ConnectionLifecycle_proofs!OverlapMeansTogether`, `OverlapPastMidnight`, `SkippedHourSwapsWindow` | `schedulesOverlap` is exact for windows that end before midnight, and is wrong both ways for others; a window may end before it starts (section 6) |
| `Subscriptions_proofs!SubscriptionsInvariant`, `SubscriptionsTypeCorrect` | `Spec => []SubsInv`, `[]SubscriptionsTypeOK` |
| `Subscriptions_proofs!StaleEventsIgnoredUnlessOvertaken` | `Spec /\ [][NotOvertaken]_vars => StaleEventsIgnored` |
| `EnterprisePortal_proofs!DirectoryConsistent` | `PortalSpec /\ [][NotOvertaken]_portal => []DirectoryInv` |
| `EnterprisePortal_proofs!ReachIsShown`, `NobodyWidens`, `SuperAdminIsKept` | `[]ScreensAgree`, `NoWidening`, `SuperAdminRemains` likewise |
| `EnterprisePortal_proofs!LinksKeepTheirPromise` | `LinksWork`, the refinement of `ActivationLink`, likewise |
| `EnterprisePortal_proofs!BillingConsistent`, `BilledWhenDue` | `PortalSpec /\ [][NotOvertaken /\ BillingNotOvertaken]_portal => []BillingInv`, `NotBilledEarly` |
| `EnterprisePortal_proofs!PeriodsFollow` | `[]PeriodsInSequence` likewise, if `BackBilling = FALSE` |
| `Notifications_proofs!NotificationsInvariant` | `NotificationsSpec => []FanOutInv` |
| `Notifications_proofs!NobodyIsPushedTwice`, `RowsTellTheTruth` | `NotificationsSpec => []PushedOnce`, `[]SettledHonestly` |

The arguments:

* **Claims.** Type correctness comes first (`TypeInv`). `LockInv` adds what the lock
  means: a slot that is in the middle of a claim holds the row of its listing, and no
  two slots hold one row; so what that slot read of the listing is still true when it
  writes. `SiteInv` adds that no live claim of the pair exists while such a slot is
  between its check and its insert; with it the insert cannot create a second one.
  The column matters for one reason only: once `cancelClaim` works, `confirmClaim` can
  write CONFIRMED over a claim cancelled since it was read, which revives it while its
  food is on offer again. `NoRevival` says that a step does not do this. In either schema
  every claim and every kilogram stays accounted for as long as no step does
  (`...UnlessRevived`); without the column no claim is ever cancelled, and with it no
  confirmation that nobody overtakes revives one.
* **Sums.** `Kg` is a fold of the community modules, a recursive function on the subsets
  of its index set. What it computes is proved without induction over data: of the
  subsets for which a statement fails a smallest one is taken (`Smallest`: inclusion is well
  founded on the subsets of a finite set; used in `SumRecursion`, `SumRemove`, `SumEqual`, `SumPlus`, `SumNat`). The lemma that
  carries the rest is `SumRemove`: any element may be added last, so a claim can be put
  among the others or taken out. `ListingTotalsAgree` needs `LeftInv` besides: what
  `claimListing` computed from the row it read is still the difference it is about to
  make (`LockedRow`: nobody writes the weights of a listing while its row is held), since
  it stores one number and decrements the others. `StockConserved` follows the claims
  that hold food of a listing (`Holding`), which gain one claim or lose one with the same
  weights that the shelf loses or gains.
* **Claims of one line.** `TakesInv` says that a claim takes something and that a request
  holding the row lock takes no more of any item than there is. It is what the check of
  each line against the remainder establishes when there is one line, and fails with two
  for one item (section 6). From it nothing goes below zero, and what `cancelClaim` gives
  back is positive and never makes more than was listed, so that ACTIVE, which it writes
  when the total is reached, means that nothing is taken.
* **Days.** `PromptInv` says that a day whose `promptedAt` is empty has no push and no
  record, and that for a day whose `promptedAt` is set there is at most one: pushed
  already, or about to be by exactly one handler. `promptedAt` is therefore a lock, as
  long as it is not cleared with a record left behind - hence the assumption.
  `AnswersStand` needs no more than types: it is the guards of the sweeps, checked for
  each of the actions that write a day, that carry it. `StandInv` has
  two parts: the tables agree (`TablesAgree`: a published day has a listing that is
  reserved for its charity and was never released, no two days have the same, and a
  reserved listing on offer has such a day), and what each handler in progress has checked
  is still true when it writes by id (`Stands`). `NotOvertaken` asks no more than that a
  step does not break the second part for a handler other than its own; that a handler's
  own reads establish it, and that its writes then leave the tables in order, is proved.
  `OneSurplusPerDay` and `ToldOnlyOfSilence`, which fail exactly by being overtaken, are
  left to section 6.
* **Reserved food on the market.** `MarketInv` puts the invariants of claims and days
  together and adds `Granted`: the row still grants the listing to whoever is in the
  middle of claiming it, because a release or a reassignment waits for the row lock that
  claim holds (`RowFree`). No bound on the handlers in progress is needed. For
  `CollectedMeansClaimed` it takes `CollectionsSpent`: of a listing that a collection
  found claimed nothing is left, and nothing will be until it writes. Only a cancelled
  claim could put some back, which is why the column matters here too.
* **Claims and pickups.** That a driver is asked follows from `ConsentInv`, whoever
  overtakes whom: a handler about to complete a pickup, or to write a status other than
  ACCEPTED or CANCELLED, has read that it was answered, and no step takes an answer back.
  The others need `TurnInv`: what a confirmation or a driver's request has read is still so
  (`Confirms`, `Holds`), and there is never anything for the repairs to do. `NotOvertaken`
  keeps the first for the handlers that do not take the step. That food adds up next to the drivers
  is `DriversMoveNoFood`: their handlers write no listing, weight or lock, and a claim only
  to collect it; `NoneRevivedInTurn` and `NoneRevivedByDrivers` exclude that this was a
  cancelled claim.
* **Presence.** `OfflineInv` adds that a driver who was told to be offline has no `goLive`
  on its way: it is the only call with a command that adds a member to a set.
* **Schedules.** A zone is one change of offset of any size at any instant, which is all
  that two passes of a guess can meet. The rest is linear arithmetic over minutes.
* **Connections.** `ReadStillTrue` says of every handler in progress that the status it
  is going to write is still one the transition table allows. From it each write maps to a
  step of `ConnectionStatus`; `NotOvertaken` keeps it for the handlers that wait.
* **Subscriptions.** `SubsInv` needs no assumption about the handlers in progress: the
  row names an offer whenever it has a status (`GoodRow`), a schedule is made of the
  subscription it belongs to (`GoodCall`), an event of a change tells of a subscription
  that has not ended (`GoodEvent`; `mapStatus` has no answer for the rest), and a handler
  that found a row and will set its status still finds one (`FoundRow`), since rows are
  never deleted. For `StaleEventsIgnored` it takes `Aligned`: the schedule the row names is
  one of its own subscription - a release is matched with the row by its schedule, not by
  its subscription - and an answer of `resolveSubscriptionRow` holds until it is used. Two
  overlaps break it, and they are all that `NotOvertaken` excludes: the row moves to
  another subscription while `onSubscriptionChanged` has that answer in hand, or between
  `changePlan` and the store of its downgrade. Nothing is assumed of the order in which
  Stripe delivers, of what fails and of what is lost. `RowMirrorsStripe` is
  model-checked only: it rests on the order of events and on one handler at a time.
* **Portal.** `DirectoryInv` collects what the services assume of each other's tables:
  portal roles belong to members, operators to sites that exist, a placed site to a group
  that exists, and invitations name sites that exist. `Good(call[s])` says that what a
  request has checked is still so: that somebody else is Super Admin, that a grant is
  within the reach of whoever gives it, that an invitation may still be sent, revoked or
  accepted with the link that was read. `NotOvertaken` says that no other request makes
  this untrue. `ScreensAgree` is then a statement about tables
  alone: three functions of the code, computed from such rows, agree. `BillingInv` says
  that an invoice ends after it begins, and of a request about to bill that its period is
  billed already or not before the next, and begun unless it was named;
  `PeriodsInSequence` is part of it unless `BackBilling`, since the code lets the anchor
  go back.
* **Notifications.** `FanOutInv` follows a record from the request to its last wave. For
  a record whose jobs were not interrupted and whose devices all have a configured provider
  (`Served`), no device is in the hands of two jobs, a job
  knows how often its devices were tried and what became of them, and the counters of the
  row are the cardinalities of two sets of devices for which no job answers any more:
  some that have the push, and some that refused it, were tried in every wave or were
  given up when the waves stopped. When the counters reach the number of devices the
  fan-out chose, these two sets are all of them (cardinalities of finite sets), so the
  status computed from the counters is the truth. It needs nothing of the number of
  devices, batches, workers or attempts. A device that Expo's answer leaves out is in no
  job and in neither set, so that the counters do not reach the number of devices and the
  row is finished by its age, if at all. It is not true of interrupted jobs, nor of those
  BullMQ repeats because one provider is not configured: both count devices twice, and the
  properties except those records as well.

Some of these belong to no run: types, the invariants `DirectoryInv`, `BillingInv`,
`SubsInv` and `FanOutInv`, `NoOverdraw`, and the theorems about `ConnectionSchedule`,
which has no state.

Model-checked only: the liveness properties, since fairness and `ENABLED` are outside
the prover, and `RowMirrorsStripe`. Every other safety property of a passing run is
proved for every value of the constants, some under a condition the table gives.

## 6. Where the code does not keep what it says

One run, `cancel_claim_query`, ends in a counterexample: `cancelClaim` joins on
`fc.listing_id` while the column is `listingId`, so the transaction always fails
(`claims.service.ts:519`).

The other properties below are stated in the modules but belong to no run, because the
code does not keep them. Each is shown by a configuration derived from one of the runs:
take its `.cfg`, change the constants named, and put the property in place of its
properties (*inv* as INVARIANT, else as PROPERTY). After a repair of the line the
derived configuration should pass.

| From run, with | Property | What happens | Where |
|---|---|---|---|
| `claims_concurrent` | `CollectedIsFinal` | CONFIRMED is written over COLLECTED | `claims.service.ts:465` |
| `claims_concurrent` | `FullyClaimedStaysClaimed` | CANCELLED is written over CLAIMED, with a live claim | `food.listing.service.ts:784` |
| `claims_concurrent` | `NoOverdraw` (inv) | two lines for one item take more than remains (with one line it cannot happen: `NoOverdrawByOneLine`) | `claims.service.ts:123` |
| `claims_concurrent` | `RatingsBounded` (inv) | one collection is rated twice | `claims.service.ts:817` |
| `collections_concurrent`, `ClaimColumns <- MCMappedColumns` | `StockConserved` (inv) | with the query above repaired: a claim cancelled while `completePickup` uploads a photo becomes COLLECTED, and its food is on offer too | `driver.location.service.ts:407` |
| `collections_concurrent`, `Drivers = {d1, d2}`, `MaxPickups = 2` | `OneDriverPerClaim` (inv) | two drivers get a current pickup for one claim | `driver.location.service.ts:182` |
| the same | `NoDriverForClosedClaim` | a driver accepts a claim that is collected | `driver.location.service.ts:168` |
| `collections_concurrent`, `MaxPickups = 4` | `RepairsSeeDelivery` (inv) | neither list loads the finished pickup, so the claim stays open | `claims.service.ts:1105` |
| `presence` | `OfflineNotLive` (inv) | an offline driver is live again | `driver.location.service.ts:155` |
| `presence` | `LiveDriversListed` (inv) | a live driver is not in the site's set | `driver.location.service.ts:141` |
| `days`, `MaxBusy = 2`, `Requests = {r1, r2}`, `Listings = {l1, l2}` | `OneSurplusPerDay` | one day publishes two listings and forgets the first | `connection.daily.service.ts:193` |
| `days`, `MaxBusy = 2`, `Requests = {r1, r2}` | `ReservationsKnown` (inv) | NO_SURPLUS over PUBLISHED: no sweep ever frees the listing | `connection.daily.service.ts:241` |
| the same | `ReleasedForGood` | a released listing is reserved again | `connection.daily.service.ts:849` |
| `days`, `PushFailures = {"after"}` | `PromptAtMostOnce` (inv) | queueing fails after the record exists: sent by the retry and by the recovery | `connection.notifier.ts:193` |
| `days`, `MayDie = TRUE` | `PromptNotSwallowed` (inv) | the process dies after `promptedAt` is set: nobody is prompted | `connection.notifier.ts:180` |
| the same | `SilenceIsTold` | the process dies after the mark: the charity is never told | `connection.daily.service.ts:524` |
| `days`, `MaxBusy = 2` | `ToldOnlyOfSilence` | the charity is told nothing is coming although the business has just answered | `connection.daily.service.ts:558` |
| `days` | `RemindedBeforeRelease` | the reminder at cut-off is always shadowed by the release | `connection.daily.service.ts:454` |
| `market_concurrent` | `ClaimedNotReleased` | a listing the charity has claimed is marked as released by it | `connection.daily.service.ts:358` |
| `market_concurrent` | `LedgerFinal` | ... and RELEASED is written over the COLLECTED of its day | `connection.daily.service.ts:368` |
| `connections`, `MaxBusy = 2`, `Slots = {s1, s2}` | `TerminalStays` | PAUSED or ACTIVE is written over ENDED | `connection.service.ts:264` |
| `connections` | `NoOverlap` (inv) | `update` moves a connection onto the window of another | `connection.service.ts:319` |
| `subscriptions` | `PlanMirrorsStripe` (inv) | an upgrade is made before the event of the checkout arrives: that event writes the plan of the checkout over it | `stripe-webhook.service.ts:165` |
| `subscriptions`, `MaxSteps = 6` | `OneLiveSubscription` (inv) | two sessions opened before either is completed: two subscriptions bill the organisation, and the row knows one | `billing.service.ts:967` |
| the same | `OneTrial` | two trial sessions: the second trial begins although the first has been used | `billing.service.ts:74` |
| `subscriptions`, `InOrder = FALSE` | `RowMirrorsStripe` (inv) | an invoice paid late sets a cancelled subscription to ACTIVE | `stripe-webhook.service.ts:296` |
| `subscriptions` | `RowMirrorsStripeAfterAll` (inv) | a marker that cannot be written, for whatever reason, is taken for a duplicate; one that cannot be deleted after a failure, or that a stopped process leaves, makes Stripe's repetition one: the event is lost, and with the last one of a subscription its end | `stripe-webhook.service.ts:79`, `:119` |
| `subscriptions` | `ScheduledChangeShown` (inv) | Stripe fails to release a schedule: the row forgets the change, the customer reads "You stay on ...", and Stripe makes the change | `billing.service.ts:944` |
| `subscriptions` | `AttachedIsKnown` (inv) | the schedule is made and its phases are refused, or the row is not written: nothing knows the schedule, and until it has run out by itself Stripe refuses another downgrade and the cancellation | `billing.service.ts:528` |
| `subscriptions`, `MaxBusy = 2`, `Slots = {h1, h2}` | `SitesWithinPlan` | two sites are counted before either is inserted | `subscription-access.service.ts:180` |
| `portal`, `MaxBusy = 2`, `Slots = {h1, h2}`, `Starts <- MCRaces` | `SuperAdminRemains` | two Super Admins demote each other | `enterprise-user.service.ts:928` |
| the same | `NoWidening` | a group administrator's site leaves the group between the check of the reach and the write, which puts it back: the administrator hands out a site they no longer reach | `enterprise-structure.service.ts:600` |
| the same | `HistoryResolves` (inv) | a group is deleted while a listing is stamped with it | `enterprise-structure.service.ts:526`, `:554` |
| the same | `LinksWork` | resending or revoking overwrites ACCEPTED, and the invitation can be used, or found, again | `enterprise-invitation.service.ts:262`, `:305` |
| `portal` | `SuperAdminStays` | making an owner without a portal role manager of a site gives a scoped role; removing somebody from their last site, or deleting it, deactivates them: also the last Super Admin | `sites.service.ts:592`, `:800`, `:853` |
| `portal` | `InvitesWithinReach` | "Nobody may hand out access they do not themselves hold": `siteAdminForSiteId` of an invitation is compared with nobody's reach, so a group administrator makes somebody administrator of a site of another group | `enterprise-user.service.ts:144` |
| `portal` | `ScopesNeverWiden` | removing the last scope of a view-only administrator shows them the whole Enterprise, also when a group administrator does it | `enterprise-user.service.ts:865` |
| `portal`, `Starts <- MCBilled` | `AccessFollowsDeal` (inv) | billing finds the contract over and sets it EXPIRED without touching access; the daily job then no longer sees it | `enterprise-billing.service.ts:212` |
| the same, `BackBilling = TRUE` | `NextPeriodOpen` (inv) | billing an earlier period moves the anchor back onto one that is billed: every later run is refused as "already invoiced" | `enterprise-billing.service.ts:256` |
| the same | `PeriodsInSequence` (inv) | ... and periods of different lengths overlap | `enterprise-billing.service.ts:256` |
| `portal`, `Starts <- MCBilled`, `Largest = 1` | `NumbersLast` (inv) | numbers are compared as text: after 9999 invoices in a year every further one is refused | `enterprise-billing.service.ts:438` |
| `portal`, `Starts <- MCBilled`, `MaxBusy = 2`, `Slots = {h1, h2}` | `NotBilledEarly` | two runs find one invoice due: the second reads the anchor the first has moved, and bills the next period | `enterprise-billing.service.ts:289` |
| the same | `SettledInvoicesStay` | an invoice is cancelled while it is marked as paid | `enterprise-billing.service.ts:350`, `:374` |
| `notifications` | `WavesGiven` (inv) | half an hour is counted from the creation of a record, not from when it was due: a scheduled or delayed record settles in its first wave | `notification.worker.ts:408` |
| `notifications` | `HonestWithoutProvider` (inv) | Firebase is not configured: the job throws after it has counted Expo's devices, BullMQ repeats it, the counters reach the number of devices, and the row is `sent` although a device was never reached; "failing here loses nothing" | `notification.worker.ts:389` |
| the same | `TriedOnceWithoutProvider` (inv) | ... and Expo's devices, whose push was taken, ring again with every attempt | `notification.worker.ts:389` |
| the same | `ProcessedRowsSettle` | an answer of Expo with fewer tickets than tokens leaves devices in none of `sent`, `failed` and `retryable`: the counters never reach the number of devices, and the row stays `processing` | `expo.gateway.ts:107` |
| `notifications`, `LossPoints = {"queued", "processing"}` | `RowsSettle` | a job lost after the record left `queued` is never found again | `notification.worker.ts:63` |
| `notifications`, `People = {u, v}` | `ReadByAddressee` (inv) | a device that changed hands since the batch was made gets the former owner's push | `notification.worker.ts:257` |

Smaller things the modelling brought up, all in the models as the code has them:

* `schedulesOverlap`, "whether two schedules on the same site would collect at the same
  time" (`connection.schedule.ts:362`), tests for a common weekday before it splits a
  window that runs past midnight: Monday 11pm-1am collects together with Tuesday
  0:30-2am and may be agreed beside it, and is refused beside Monday 0:30-2am, with
  which it never collects (`OverlapPastMidnight`);
* on the night the clocks skip an hour a window that starts in it ends before it starts
  (`SkippedHourSwapsWindow`), and a lead time of the full 24 hours may prompt up to an
  hour late, which is why `DueDaysMissNone` leaves room;
* an invitation whose status is EXPIRED is accepted as long as its link's time is not
  over, and a second invitation accepted by one account is refused by the unique
  `acceptedUserId`, an error nobody handles;
* an account may become a member of two organisations; tokens keep the roles of the
  login until they expire;
* `updateSite` and `createSite` put a site into an inactive group, which `assignSites`
  refuses; adding a site administrator as staff demotes them; `resendInviteForUser`
  refuses members who have no pending invitation;
* a row that is still queued when the day after it was due is over stays queued, as the
  comment at `notification.worker.ts:58` says (`RowsSettle` excepts it);
* five recorded failures stop the waves of a record (`notification-status.ts:29`), so of
  many devices those whose turn comes later are tried once;
  `retryAllFailed` queues jobs of finished records, which then do nothing; the 30 rows
  a repair takes may all be rows that are scheduled for later.

## 7. What is left out

In the modelled parts: rounding of weights (they are integers here), averages of
ratings (the count is kept), the activity log, caches of responses, photos, the text
of notifications, `restaurantCharitySupport` and `uniqueClaimantCount`; a crash between
two Redis commands of one call; edits of the schedule of a day that is already open
(`alignPromptedWindow`); more than one site or one occurrence per connection and day;
two connection workers (BullMQ's concurrency here is one); labels of schedules, and zones
with more than one change of offset near a day. `Marketplace` leaves ratings
out. `Subscriptions` leaves out payment rows, cards (they come and go unseen), prices,
seats and the platform administrator's way past the site limit; sites are counted, not
told apart, deactivated ones included as in the code. `EnterprisePortal` leaves out
requests that stop: after the checks nothing has been written, but a failure between the
statements of the few that write outside a transaction, such as `assignExistingSiteAdmin`
and `removeAccess`, is not modelled. It also leaves out names, codes, contacts, `updateInOrg`, the activation of a profile, seats and the audit
log; the three dimensions of the structure are one. `EnterpriseBilling` leaves out amounts,
tax, the sites counted, days of the month (periods are whole months), numbers of other
organisations and of new years, and of provisioning everything but its first
invitation. `Notifications` leaves out filters
by app and platform, the cooldown of broadcasts and draining the queue, and takes a
delayed job at any time.

Not modelled: search by place, impact figures, e-mail, uploads, live updates,
administration screens, reports and the sites of charities - queries and I/O without an
order that matters; password reset and login counters - single keys. The HTTP cache has
hazards of its own and is in the plan.
`PROJECT.json` lists every part.

## 8. Plan

The order is that of importance. Modules marked x exist.

1. x `MarketStore`, `ListingClaims`, `DriverPickups`, `Collections`
2. x `DriverPresence`
3. x `ConnectionDays`, `Marketplace`
4. x `ConnectionStatus` (abstract), `ConnectionLifecycle`
5. x `Subscriptions`: billing, webhook, trial job and site limit on one row
6. x `ActivationLink` (abstract), `Directory` with invitations, users, structure, sites
   and accounts, `EnterprisePortal`
7. x `Notifications`
8. x `EnterpriseBilling`: contracts, invoices and their numbers, the daily jobs
9. `HttpCache`: version keys, invalidation that gives up, responses written after it
10. x `ConnectionSchedule`: the date arithmetic as operators (windows over midnight,
    prompt on the day before), proved against what they are for

To be proved next: what of `RowMirrorsStripe` follows from the order of events and from
`NotOvertaken` without a bound on the handlers, and the two-provider rows of
`Notifications` after a repair of `notification.worker.ts:389`.
