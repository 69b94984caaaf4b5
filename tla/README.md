# A formal model of dove-be

dove-be is a NestJS backend for work orders on a factory floor, sold by subscription: TypeORM over
PostgreSQL, Stripe for billing, JWT for sessions, a response cache, an e-mail service. This directory
holds TLA+ modules that model its stateful core, TLC configurations that check them on small instances,
and proofs that TLAPS checks for every value of the constants.

Paths below are relative to the repository; `subscriptions/` stands for `src/modules/subscriptions/`,
and so on for the other modules under `src/modules/`.

## 1. The system

| Component | State | Operations that change it | Interacts with |
|---|---|---|---|
| Webhook ledger (`subscriptions/webhook.service.ts`, `webhooks.controller.ts`) | `webhook_events`: status, attempts, updatedAt | `shouldProcessEvent`, `markEventCompleted`, `markEventFailed`; the controller runs the handler after it has answered | Stripe delivers events to it; it calls the handlers of Subscriptions |
| Subscriptions (`subscriptions/subscriptions.service.ts`, `stripe.service.ts`) | `subscriptions`, `transactions`, billing columns of `companies`; Stripe's customers, sessions and subscriptions | `startFreeTrial`, `createCheckoutSession`, `cancelSubscription`, `changePlan`; handlers for checkout, payment succeeded and failed, deletion | API requests, the ledger, Stripe |
| Registration and verification (`auth/auth.service.ts`, `verification-code.service.ts`) | `users`, `companies`, `verification_codes` | `register`, `verifyEmail`, `resendVerificationEmail`, `login`; `createCode`, `verifyCode` | the e-mail service; JWT |
| Guards (`auth/guards/`) | none | none: they read the token; those that would read the subscription are on no route | every route |
| Invitations (`invitations/`) | `invitations`, `users` | create, accept (the one transaction of the code), resend, revoke | e-mail, JWT |
| Work orders, time segments (`work-orders/`, `time-segments/`) | `work_order`, `time_segments` | create, update, close, delete; create, update, end | the cache; a segment names an order that nothing holds in place |
| Schedule (`schedule/`, `src/utils/`) | `schedule_files`, `schedule_data`, column mappings | save configuration, import in chunks, column mappings, edit a row, sync | pure normalisation functions |
| Departments (`departments/`) | departments, filters, OEE settings with effective intervals | create, update, delete; create and archive an OEE setting | cache |
| Response cache (`src/common/interceptors/cache.interceptor.ts`) | key to response, with expiry, in memory | fill on GET; the eviction after a write removes nothing | the annotated routes of departments, users, segments, operators, equipment, locations, companies |
| Users (`users/`) | `users`, `users.preferences` | update, delete, set and delete a preference (read-modify-write) | cache, sessions |
| Plans, locations, companies, catalogues, settings | one row each | CRUD, by `DBService` or by column updates | cache |
| Database schema (`src/database/entities/`) | the tables' references | deletes cascade, null a column, or are refused | every route that deletes a row |
| Mailer, filters, configuration, API documentation | none | I/O and formatting | |

The hard behaviour has one cause. Almost no method opens a transaction, so each `await` is a statement
of its own: other requests run between two of them, and an error or a crash leaves the earlier ones done.
Stripe delivers at least once and in any order. `save()` of a loaded entity writes every column that
differs from the row, and so undoes what others wrote since the load. Work continues after the response
(`setImmediate` in the webhook, an un-awaited promise in `register`), where no handler catches a rejection.

What makes each component correct:

- *Webhook ledger*: one handler run per event until a failure or a stale lock; COMPLETED only after a run;
  no 200 for an unrecorded event; a PROCESSING row settles.
- *Subscriptions*: at most one active subscription; ended ones stay ended; canceled here means canceled at
  Stripe; company, transactions and rows agree; one trial; one customer.
- *Accounts*: one live code; the cooldown; a verified address has spent its own code; a registered user is
  sent one; one account for each address.
- *Invitations*: an invitation is accepted once, by the invited address, for the inviting company, and not
  after it was revoked.
- *Segments*: the end of a segment and its duration are set once and together.
- *Schedule*: one active file and one default mapping; an import leaves every listed row or says it failed,
  its statistics account for the rows it added, and no date of the sheet is lost to a mapping.
- *OEE settings*: one is in force on a day. *Cache*: an answer that is served was true
  not longer ago than its time to live.
  *Preferences, rows of catalogues*: no update is lost. *Sessions*: a token's claims expire.
- *Schema*: deleting a row takes no record of the floor's work along.

## 2. Plan

Modules in order; all exist.

1. `EventLease` (abstract), `WebhookEvents`.
2. `Subscriptions`, then `Billing`, which composes it with `WebhookEvents`.
3. `Accounts`; `login` and `refreshTokens` are in `Sessions` (6).
4. `Membership` (abstract), `Invitations`.
5. `ScheduleColumns` (the normalisation functions as operators), then `Schedule`: files, mappings, the import
   in chunks, over them.
6. `ResponseCache`, and the services around which it stands: `Departments`, `Users` with `Sessions` over it,
   `Production` (work orders with time segments), `Catalogue` (the services that keep rows and no protocol).
7. `References`: what the schema lets a delete do. `Api` composes it with the modules of step 6.
8. Proofs, each in a module named after the one it is about: `WebhookEventsProofs`, `SubscriptionsProofs`,
   `BillingProofs`, `AccountsProofs`, `InvitationsProofs`, `ScheduleProofs`, `SessionsProofs`, `ApiProofs`. Every
   safety property of a passing run has its theorem (§5). What may follow: the serial half of `Subscriptions` inside
   `Billing`.

## 3. The modules

**Conventions.** One action per `await`. The first action of an operation is its first read together with
the checks that follow it; a request refused by those checks changes nothing and is not a step. A failing
database call is taken to have had no effect. Two reads with no step of the same operation that writes
between them may be joined when the second one's result is not used by a property. Definitions marked
*(Mutant)* are plausible wrong versions of the definition after them, and no specification uses them.

**`WebhookEvents`.** `row`, `stale` are the `webhook_events` rows (`stale`: updatedAt over five minutes
ago, and every write except a no-op `save` clears it). `pc`, `ev`, `seen` are the deliveries: the await each
one is at, its event, the `processingAttempts` it has loaded. `acked` is what Stripe knows. `ran`,
`granted`, `reopened`, `dropped` are history variables that only properties read. `Lookup`, `Insert`,
`SaveRetry` are `shouldProcessEvent`; `Deliver` and `Respond` are `handleStripeWebhook`; `HandlerReturns`,
`HandlerThrows`, `MarkCompleted`, `MarkFailed`, `MarkCompletedFails` are `processEventAsync`. `Crash(S)`
kills the deliveries one process serves, any subset since there may be several processes; it also stands for
the unhandled rejection when `markEventFailed` throws. The controller's request checks (raw body, signature)
are left out: a refused request does not reach the ledger.

**`EventLease`.** What the ledger promises: an event is new, leased (its handler may run once) or open (it was
reopened and may run again). `WebhookEvents` implements it with `phase` computed from `row` and `reopened`.

**`Subscriptions`.** One company; companies share no row. `subs` is a sequence in order of `createdAt`, so
`getCurrentSubscription` is its last ACTIVE element. `stripe` and `customers` are Stripe's side: a session is
opened, paid, canceled by us or by Stripe. `loc[p]` is the await of process `p` with the entity it loaded,
status included, so that `SaveLoaded` overwrites as TypeORM does. Events may be handled any number of
times once Stripe may have emitted them. `Throws` ends an operation at any await. Left out: plans, prices,
tiers, limits and dates, and with them the trial's expiry (no code ends a trial row; the guards compare
dates). The `plan` relation that `changePlan` loads has a column of its own that nothing fills (`References`), so
that what is stored is `planId`.

**`Billing`.** `WebhookEvents` and `Subscriptions` by INSTANCE: a granted delivery runs its handler await by
await, its last step is the ledger's `HandlerReturns` and its error the ledger's `HandlerThrows`; a crash
takes the ledger's deliveries and their handlers together. The initial state is one the program reaches: every
checkout session is open and none is paid. `EventsAssumption` says of Stripe that it reports a session's completion
by one event, which it may deliver any number of times.

**`Accounts`.** `codes` is the `verification_codes` table in order of `createdAt`; `companies`, `account`,
`verified` are the company and user rows; `mailed` the codes that were sent. `CreateCodeLast`,
`CreateCodeDeactivate`, `CreateCodeInsert` are `createCode`, run by `Resend` and, in the background, by a
registration; when the cooldown refuses the background call nothing catches the rejection and the process
ends (third disjunct of `CreateCodeLast`). The clock counts in units of the cooldown. Left out: passwords,
the code's digits (two codes of a user that coincide), tokens and `login` (`Sessions`), and the removal of users.

**`Invitations`.** `invs` is the `invitations` table, `users` the company of each address's users row, `home`
and `admin` the company and manager of each location, `links` the links that were mailed. `pc`, `arg` are the
requests: the await each one is at, and what it works on. `Create*` and `Mail` are `createInvitation`, called by
the controller or by `LocationsService` (`LocationCreate`, `LocationRead`, `LocationUpdate`), which ignores its
outcome. `Accept*` is `accept`: what its transaction writes appears in `AcceptCommit`, and until then the unique
index on the address (`HoldsEmail`) and the lock on the invitation's row (`HoldsRow`) keep others waiting;
`Finish` before the commit is the rollback. `findByToken` looks the invitation up by the link's address, so
`AcceptFind` may take any pending invitation to it; `resend` signs its link without an address, and TypeORM drops
a condition on `undefined`, so that link may find any pending invitation at all. The token column is never
compared and is left out. `Resend*` and `Revoke*` are `resend` and `revoke`. `Register` and `RemoveUser` are the
other writers of users rows. Also left out: roles, names, and the failing insert of a token that already exists.

**`Membership`.** What invitations promise: an address is in one company at a time, enters its own or one that has
invited it, and leaves. `Invitations` implements it with `invited` computed from `invs` and `member` as `users`.

**`ScheduleColumns`.** `utils/schedule-normalizer.ts` and `utils/column-mapping.ts` as operators: headers, which
are words and the style that writes them, become field names (`NormalizeColumnName`,
`GenerateNormalizationRules`), rows of a sheet become records (`TransformToScheduleData`, with its fallback on
the sheet's own headers) and those without a work order are dropped (`Records`). Four of the fifteen fields are
kept: the id, two dates that have a fallback, and one field that has none.

**`Schedule`.** One company (every query names it). `files`, `maps`, `rows`, `sync` are its `schedule_files`, column
mappings, `schedule_data` and sync state; `pc`, `arg` the requests. `Config*` are `saveConfig`, `Mapping*`
`createColumnMapping` and `updateColumnMapping`, `Import*` `importSchedule`: the mapping saved with new rules, a count
and an upsert for each chunk, the use of the mapping, the stamp on the file. `ImportUpsert` is the SQL statement: a
row written twice in one refuses it, and a column no record of the chunk defines is not set. In `MappingRead` a PUT
has the mapping of its route and that of its body: the DTO lets an `id` through (`schedule-mapping.dto.ts:55-60`),
`Object.assign` gives it to the loaded mapping (`schedule.service.ts:422`), and `save` writes that row or a new one,
while the loaded mapping decided whether the others are demoted. `Edit` is `updateScheduleData`, one step since rows
are never deleted. `crossed` and `renamed` are history: what was written twice at once, by two requests or by an
update of the default that names another mapping, and the work orders an edit renamed. Left out: reads, statistics
other than the counts, and the file's settings, which are data.

**`ResponseCache`.** `CacheInterceptor`, which stands around every route: `Get`, `Read` and `Fill` are a GET that
misses, and `Reread` is a handler that reads its row once more for the answer, and throws without it. `Evict` follows a
handler that succeeded, and changes nothing: `app.module.ts:67-70` configures no store, so that it is Keyv's, a JavaScript
`Map`, whose `keys()` (`cache.interceptor.ts:173`) is an iterator and no array. Node 20, which the Dockerfile names, has no
`filter` on iterators, and lines 181-182 log the error; where iterators have one, its result has no `length`, and `mdel` is
never called. What takes a stored answer away is its time to live: an entry bears the end of its life (`Entry`), `Tick` is
the clock, `Served` says whether a GET finds it, and `Get` drops it when its time is over. `Restart` is the loss of the
process and its memory, `Fail` an error at any await. A key is its kind and what its placeholders stand for; an answer
is a set of one value, empty when the handler throws. All routes have the one life `Ttl`. The modules below EXTEND it, give
its keys and views and put their handlers between its steps; `evicts` are the keys a route names. A request with
`disableCache` passes the interceptor by, and is left out: for the others it differs in nothing.

**`Departments`.** `depts` with whether their filter settings were stored (a step of its own after the row), and
`oee`, the OEE settings with their intervals. `OeeRead`, `OeeClose`, `OeeInsert` are `createOeeSetting`, three
statements: the second saves the whole row that the first loaded. `irregular` is history.

**`Users`.** The rows of users: `UserUpdate`, `UserRemove`, and the preferences, a JSON column that `PrefRead` loads
and `PrefWrite` stores as a whole. **`Sessions`** EXTENDS it with tokens, on the same clock: `Login` and `Refresh` read
the user's row, `Issue` signs what they have read (`generateTokens` first reads an administrator's company). `Accepted` is
`JwtAuthGuard`, which checks a signature and an expiry and no row. `Refresh` takes the tokens the code's secret
accepts. `held` is history: when a row last had a profile.

**`Production`.** `orders` and `segments` in order of their ids. A work order's id is a number while its number is a
string; `update`, `close` and `delete` take a UUID, look the order up by number and, except for the delete, write
by id. A segment names an order's id that need not exist (`References`). `SegmentRead` to `Reread` are
`updateTimeSegment` and `endSegment`. `rivals` is history.

**`Catalogue`.** Eight services that differ in three ways and have no protocol: whether their answers are cached,
whether a change updates columns, looks the row up first or saves all of what was loaded (`DBService.update`), and
whether a removal deletes the row, stamps it or clears a flag. `Catalogues` says which is which, and the actions
are guarded by it. `resource` is chosen in `Init`. Columns are abstracted to a label (a plan's unique code, a
location's unique code) and a flag; `mixed` is history.

**`References`.** Every entity is a `Table`: the columns that store references, and the join columns of its
relations with what a delete does to them. The column of a property is named by `custom-naming.strategy.ts`
in snake case, and a relation's column as its decorator writes it. Where these differ the relation has a second
column, with the foreign key, that no code fills, and the stored reference has none. `present` are the tables
whose row is there; `RowDelete` is PostgreSQL's: rows that cascade go along (`Gone`), references are nulled
(`Severed`), or the statement is refused. The schema is the one TypeORM synchronises from the entities
(`DB_SYNC`); the migrations make tables under other names (§6).

**`Api`.** All of these behind the one interceptor. Their tables and keys are disjoint, so a behaviour's requests are
those of one service, `part`, and the state space is the sum and not the product of theirs. `shown` is history: when
the database last showed an answer that is stored, or that a GET has read and will store.

**Abstractions all modules share.** A row id is never reused; reads are of committed state (PostgreSQL's read
committed); soft-deleted rows do not appear.

## 4. What the runs check

| Run | Instance | What it shows |
|---|---|---|
| `ledger` | 2 events, 3 deliveries, 1 fault | the invariants, the finality of COMPLETED, the refinement of `EventLease`, and that a PROCESSING row settles |
| `ledger_once` | 1 event, no fault | **violated**: an event is processed twice after its lock grew stale (`webhooks.controller.ts:36` says once) |
| `subscriptions_serial` | 1 process, 2 Stripe subscriptions, 7 operations | what holds when operations do not overlap but fail, repeat and come late |
| `subscriptions_concurrent` | 3 processes, 2 Stripe subscriptions, 5 operations | what holds in every interleaving |
| `trial_once` | 2 processes | **violated**: two concurrent requests both start the "one-time" trial |
| `billing` | 1 Stripe subscription, 4 event types, 3 deliveries, 1 cancellation request, 1 fault | the ledger and the handlers together |
| `accounts` | 2 addresses, 2 requests at a time, 4 requests, 1 fault | codes, cooldown, verification, and that a registered user is sent a code |
| `latest_code` | 1 address, 3 requests | **violated**: overlapping `createCode` calls leave two valid codes (the feature's `spec.md:44`) |
| `invitations` | 1 address, 2 companies, 1 location, 2 requests at a time, 4 requests, 1 fault | acceptance and its transaction, live invitations, revocation, the refinement of `Membership`, and that every request ends |
| `schedule` | 3 sheets (2 to 4 rows), chunks of 2, 2 files, 2 mappings, 2 requests at a time, 3 requests, 1 fault | one active file and one default mapping, imports that store what they say, no date lost to a mapping |
| `api` | each service: 2 requests at a time, 3 requests, 1 fault, 2 or 3 rows; a clock to 2 | the age of what the cache serves, settings in force, the claims of sessions, lost updates, what a delete takes along |
| `api_evicts` | 1 request at a time, 2 requests, no fault | **violated**: after a write of a route that names its key an answer is still served (`cache.decorator.ts:77-78` says it is removed) |

**Bounds.** Three deliveries are two racing for one event with a third that retries or that concerns another event; an
interleaving hazard of this ledger needs two actors and one that reopens. One fault puts an error or a crash at every
await of every operation. Seven serial operations are enough for trial, two checkouts, a cancellation and late events
of each; five concurrent ones give every pair and triple of operations their races. Two Stripe subscriptions are an
old and a new one. In `accounts`, codes live for two units and the cooldown is one, so an old code can be live when
the next may be made, and both limits are crossed by the clock. In `invitations`, one address is what accepts,
invitations and a registration compete for, two companies are two inviters, and four requests are an invitation, its
acceptance and a resend, revocation or second acceptance that races it. In `schedule`, one sheet lists a work order
twice across chunks, one in a chunk, and one spells its columns in other ways; three requests are two that race and a
third that meets what they left. In `api`, three requests are a GET and two writes, which is what a lost update, an
overlapping interval or an answer stored after two later writes takes; OEE settings have three dates, so that one can
come between two; an access token lives for two units of the clock and a refresh token for three, so that the one
expires while the other is valid; an answer lives for one, so that on a clock to 2 a GET can be slow, its answer
served and then expired. `MCInit` leaves out equipment, whose routes do what those of operators do. `References`
starts from each table's row with all it refers to, directly or not, which is the least a delete of one of them needs
to be refused or to cascade. `CHECK_DEADLOCK FALSE`: with all requests spent and all faults used the system rests.
`MCSubscriptionsConcurrent`, `MCBilling` and `MCSchedule` use symmetry (processes; deliveries; requests and file
names), with invariants only.

**Serial and concurrent.** `AtMostOneActive`, `EndedStaysEnded`, `ActiveCompanyHasRow` and
`SessionsBillCustomerOnFile` do not hold when operations overlap: the code has no lock or transaction that would make
them. `subscriptions_serial` states what the code does guarantee, with errors at any await; `subscriptions_concurrent`
states what survives overlap. `schedule` and `api` do both in one run: `crossed`, `irregular`, `tangled`, `rivals` and
`mixed` record which rows two requests touched at once, and the properties speak of the others, errors and restarts
included.

**Fairness.** `ledger`, `accounts` and `invitations` assume weak fairness of each request's own steps: the event loop resumes a
settled await and every await settles (drivers and the HTTP client time out, which is the failing
branch). In `invitations` weak fairness also says that the database grants
a lock that is free: a step that waits for another's transaction is enabled once that transaction ends.
Nothing is assumed of Stripe, users, the clock or faults. `ProcessingSettles` exempts events whose
process died, and `RegisteredUserIsMailed` users one of whose requests failed: the code has no job that
takes such work up again (`getFailedEvents` has no caller).

**Behaviour the models show that no property calls wrong**: no document of the repository claims otherwise,
unless it is named here.

*Ledger and billing.* An event whose process dies between the ledger's insert and the answer is answered
"duplicate" to Stripe's retry and never processed; a company can have two ACTIVE rows after overlapping operations; an
ACTIVE row whose Stripe subscription has ended, when `customer.subscription.deleted` is handled before the
checkout; an old Stripe subscription that a new checkout expires here and never cancels there; a row that
stays ACTIVE after Stripe has canceled it and the local save failed, since a second cancellation is refused;
past-due companies never become active again through a payment.

*Accounts, sessions, invitations.* A lost registration race leaves a company without users. Login checks neither
`isVerified` nor `isActive`. `refreshTokens` verifies with the access token's secret, so that refresh tokens are
refused and access tokens accepted. `logout` stores nothing, while the summary of its route
(`src/swagger/auth.swagger.ts:49`) speaks of an invalidated refresh token. A resent link accepts whichever pending
invitation the database returns first; a resend reopens an accepted or revoked invitation; an acceptance that overlaps
a revocation overwrites it. A location whose manager already has a pending invitation of the company, for another
location or for none, gets no invitation for it: `createInvitation` looks for one by address and company, and
`LocationsService` drops the refusal, while `conductor/archive/location_dynamic_shifts_20260222/spec.md:35-36` says
"Verify if a pending invitation already exists for that email and location. If neither exists, trigger a
LOCATION_ADMIN invitation for that email and location."

*Cache.* No route with `@CacheEvict` removes a stored answer (`api_evicts`), so that after any write readers are given the old
answer until its life is over; and a GET that read before a write may store what it read afterwards, and begin that life
then. What `AnswersExpire` leaves is a bound on the age. Were entries removed, the keys would still miss some: a placeholder is
`{{word}}` only, so `users:me:{{user.id}}` and `companies:current:{{user.companyId}}` are one key for all callers, and the named
`companies:current:{{id}}` and `time-segments:work-order:{{dto.work_order_id}}` match no stored answer. The keys of lists
name no company. No route names `operators:active` or `equipment:active`, and writes of preferences name no key.

*Rows.* `DBService.update` saves all of what it loaded: it takes back columns another request changed, and revives a
row deleted meanwhile. A deleted plan's code cannot be used again. A work order is found by number and written by id:
an update and a close have no effect, and the close still answers success. An `endTime` before the `startTime` gives a
negative duration. OEE settings entered out of order, or twice for one date, overlap; a crash between the close and
the insert leaves no setting in force. The bodies of the settings' routes are not validated
(`settings.controller.ts:52,99`): a POST that names an id overwrites the row of that id
(`settings.service.ts:50-54,106-110`). This is not modelled: `ItemCreate` always adds a row.

*Schedule.* A PUT to the default mapping whose body has the id of another mapping saves that one as a second default,
without any overlap; `OneCurrent` exempts it, as it exempts overlaps. Saving the configuration of files A, B and A
again leaves B active. The documented mapping with `sourceColumn` is never read. The snake-case alternates of the
default mapping cannot match, since headers were made camel case before. A row keeps an old due date if no record of
its chunk has one. A work order listed twice in one chunk fails the import after earlier chunks were stored. The sync
state never leaves `pending`.

*Schema.* 18 entities (segments, work orders, subscriptions, transactions among them) name join columns
in camel case: their foreign keys are on columns nothing fills. So the `onDelete` of `time-segment.entity.ts:89` never
happens, segments stay with the id of a deleted order, and the relations `workOrder`, `operator`, `plan` and
`location` load as null. Status history and downtime refer by the filled column, and make the deletion of an
order or a user fail with a database error that no handler names.

## 5. What is proved

`WebhookEventsProofs` proves, for every set of events and deliveries and every number of faults:
`TypeCorrect`, `LeaseIsExclusive`, `CompletionIsEarned`, `AckIsBacked`, `AttemptsBounded`,
`CompletionIsFinal` and `LedgerImplementsLease`. The only assumption is `MaxFaults \in Nat`.

The properties are not inductive. `IInv` conjoins `TypeOK` with

- `LeaseInv`: an event that was never reopened has a fresh lock and a row that is not failed, has run at most
  once and has at most one owner; while a delivery is before the handler or in it the event has not run, no
  delivery is about to save a retry, and the row of every delivery let through is PROCESSING;
- `RecordInv`: a delivery past `shouldProcessEvent`, and an acknowledged event, have a row;
- `CompletionInv`: a delivery about to mark its event completed has run the handler;
- `AttemptsInv`: what a retry has loaded and not yet saved is at most the number of grants before it.

One lemma per conjunct shows that each action preserves it, `StepIInv` joins them, and the theorems follow with
PTL. The refinement shows that each step is a lease, an opening, a finish or a stutter, from `IInv` of the
first state.

`AccountsProofs` proves, for every set of users and requests, every clock and every number of faults,
`AccountsTypeCorrect`, `NewestCodeOnly`, `CooldownKept` and `VerificationEarned`, from
`ConstantsAssumption`: the bounds are natural numbers and `Users` is not empty (an idle request's `arg` names
some user). What makes them inductive:

- `RefInv`: the company, code and account a request refers to exist; a code past `verifyCode`'s read is the
  caller's own, and before the user is saved it is used;
- `CreateInv`, for a user none of whose `createCode` calls have overlapped: at most one call is inside it
  (`Single`); after its first statement every code of the user has cooled down (`Cooled`), and after its second
  every one is used (`Spent`).

`createCode` looks at the newest code only. `NewestCooled` shows that this covers all of them, because the codes
are already spaced; it needs a last element of a set of positions (`LastPosition`, by well-foundedness of
the naturals). The steps are grouped by what they do to the invariant: `QuietStep` for those that touch no
`createCode`, `EnterStep`, `AdvanceStep` and `InsertStep` for its stages, and `Grows`, which no step breaks,
carries what `RefInv` and `VerifiedByOwnCode` say from one state to the next.

`InvitationsProofs` proves, for every set of addresses, companies, locations and requests,
`InvitationsTypeCorrect`, `AcceptanceIsAtomic` and `InvitationsImplementMembership`, from `ConstantsAssumption`
(the words that stand for an absent value are no address, company or location; bounds are natural numbers).
What makes them inductive:

- `RefInv`: the invitation a request works on exists, and what the request carries is its address and company;
- `KeyInv`: from its insert to its commit, an acceptance is the only one of its address, and the address has no
  user. This is what the unique index gives, and without it a commit could move a user that exists.

`Grows` (no step takes an invitation away or changes whose it is) carries `RefInv` across the steps of other
requests. The refinement maps a commit to `Enter`, an insert to `Invite`, a resend or a revocation to a stutter.
`OneInvitationAtATime` and `RevokedStaysRevoked` speak of addresses that no two requests work on at once. For
those `OverlapInv` keeps what a request has read: one request per address (`Apart`), no live invitation before its
insert (`Checked`), a pending one until its commit (`Opened`). `LiveShrinks`, that only an insert or a resend makes
an invitation live, leaves the insert as the one case to argue.

`SubscriptionsProofs` proves, for every finite set of processes, every set of Stripe subscriptions and any number of
operations, `SubscriptionsTypeCorrect`, `CancellationReachesStripe` and `BooksAreKept`: what survives overlap. An
operation saves what it loaded some awaits ago; `Knows` says what still holds of it then, and it lasts because
a row keeps its Stripe id, Stripe keeps what is canceled and a used trial stays used (`Lasting`). For instance, an
operation that will store "canceled" has seen the subscription end at Stripe (`Ended`), so it may do so whatever others
wrote. The second half assumes `MaxConcurrent = 1`, which is what the serial run gives TLC, and not that nothing
fails: `OneActiveSubscription`, `ActiveIsBacked`, `CheckoutsBillCustomerOnFile`, `EndedSubscriptionStaysEnded`.
`SerialInv` adds to `IInv` that all processes but one are idle (`Alone`), that the one sees rows and company as
they are (`RowsInv`), and customers likewise (`CustomersInv`: no session exists before the company has a customer).

`BillingProofs` proves, for every set of events, deliveries and company requests, `BillingKeepsLedger` (what
drives the ledger here is a behaviour of `WebhookEvents`), `OneRowForACheckout` and `CompletedCheckoutIsRecorded`, from
`EventsAssumption`. The invariant relates the components: the ledger leases an unopened event to one delivery
(`LedgerInv`); a delivery runs the handler of its event (`HandlersInv`); until that handler's insert there is no row
(`RowsInv`); and a row that says COMPLETED, or a delivery about to say so, has its payment on the books (`BooksInv`).
`LedgerInv` is proved again from the ledger's actions: the prover cannot use a theorem through INSTANCE.

`ScheduleProofs` proves, for every set of requests, sheets, column names, mappings, values, and every chunk size,
`ScheduleTypes`, `OneCurrentFileAndMapping`, `StoredDatesAreThere`, `ImportsAreStored` and `ReportsCoverInserts`, from
`ConstantsAssumption` (the values are not the absent one; an uploaded sheet has a row; the alternatives in a mapping are
counted; chunks are not empty).

- `FilesInv`, `MapsInv`: as long as no two requests were at once between the statement that demotes and the one that
  writes, and no update of the default named another mapping, nothing is current when the second runs, or only what it writes. The rows play no part, nor do they here.
- `StoredDatesAreThere` rests on the normalisation functions alone: `Rescues`, whatever the company's mapping and
  rules say, a record takes the sheet's date under its own name when they lead to none. Then no upsert takes it away.
- `BatchInv`: imports have numbers of their own, and a row bears the number of the import that wrote it last.
- `StatsOK`: what an import counted before each chunk (`existing`) and what it added (`fresh`) are weighed against the number of its
  records that have a row now (`ImportsInv`). An upsert adds a row for each record of the chunk that had none, which
  the count just before it has told, unless another import came between, and then the count only exceeds what was added. The
  lemmas are about cardinalities of sets of work orders: a chunk, the ones known before, a list without repetitions.
- `StoredOK`: of the records in chunks done each has a row, and the row holds the last one of its work order unless
  an edit (`renamed`) or another import came after it.
- `UsesInv`, for the type of `uses`: a mapping's counter and the requests that are on their way to add to it
  together never exceed the requests begun.

In `Schedule` the picks and the choice of records are `Picked` and `SelectInSeq` rather than `SelectSeq`, which the library
defines by a local recursion the prover cannot open.

`SessionsProofs` proves `TokensTellTheRecentPast` (`ClaimsExpire`) for every set of users and profiles, any lives of the
two tokens and any number of refreshes: `held[u][p]`, when u's row last had profile p, never goes back, so that it
stays at or after the instant at which a token's claims were read (`Backed`), from the read (`Signing`) to the
token's expiry (`Signed`).

`ApiProofs` proves four theorems for every number of requests, rows, dates and labels, from the assumptions of the
services' modules (there is a name, a profile and a label for each owner; some order and some segment can exist).

- `SettingsFollowEachOther` (`OneSettingInForce`). `OeeInv`: the settings of a department entered one at a time and in
  the order of their dates follow each other, each ended by the day the next begins (`InOrder`); one request at a time
  is between the close and the insert (`OneAtATime`); and the copy it will save is the row (`Prepared`).
- `AnswersDoNotOutlive` (`AnswersExpire`). `Timed`: an entry's life began when its answer was read, and the database has shown
  the answer since then (`shown`); a GET that has read and not yet stored holds an answer that was shown when it read it,
  or later. Every step of every service moves the answers `Onward` only: one that is stored stays, or was on its way, and
  one that is newly read is what the view shows after the step (`TimedStays`). With it go the types of rows and
  arguments (`Typed`), since a view is of one answer only in well-formed tables (`ViewsSmall`). No step takes an answer
  back, so the life of the entry is all there is to use.
- `NothingIsLost` (`NothingLost`, an action property). `WritesInv`: whoever holds a copy that he will write back is alone
  with it, and it differs from the row in what he was asked to change (`PrefsInv`, `EndsInv`, `SavesInv`), or the history
  names the row; of a catalogue whose rows are saved whole none is changed otherwise; and what a record refers to is
  there, with no reference null but one of the invitations (`RowsInv`). That last part is about `References`, where `Row`
  and `Gone` are functions defined by recursion over the schema. A function on the naturals that starts with s and goes
  on with F exists (`RunExists`); growing subsets of a finite set stop growing by its cardinality (`Settles`); so `Row`
  is closed under the references (`RowIsClosed`), and `Gone` is the least set that has the row and follows the cascades
  (`GoneIs`). What the 46 tables refer to is looked up once, in `SoundTables`. Induction is over sets of naturals
  (`AllNumbers`, from the well-foundedness of <), as the library's own takes an operator.
- `ApiTypes` (`TypeOK`), from `Typed`, `Timed` and `RowsInv`.

`CompletionIsEarned`, `AttemptsBounded` and `BillingKeepsLedger` are proved and are no run's property: TLC checked the first two
before they were proved, and the proofs say more.

Only model-checked:

- `ProcessingSettles`, `RegisteredUserIsMailed`, `RequestsEnd`: liveness, for which the prover has no rule. The properties
  of violated runs are false.

## 6. Not modelled

- *Guards*: `RolesGuard` and the access guards compare the token with constants of the route; `SubscriptionGuard` and
  `FeatureGuard` are applied to no route. `JwtAuthGuard` is `Accepted` of `Sessions`.
- *Operations that store nothing*: `verifyPassword`, `logout`, the billing portal, histories and statistics, the
  connectors of the schedule that return a placeholder.
- *Services with routes that only read*: work order statuses, conditional rules, part numbers, process steps. Logs are
  only appended.
- *Operations without a caller*: `endAllActiveForWorkOrder`, `getFailedEvents`, `getEventHistory`.
- *Query parameters*: `DBService`'s filters, sorting and pagination change no state.
- *Migrations*: they make and alter the tables of an earlier schema (`user_profiles`, `work_orders`), which no entity
  has; `References` models what TypeORM makes of the entities. Columns that refer to nothing are data.
- *Mailer, filters, validation pipes, DTOs, configuration, API documentation*: I/O, formatting or declarations. The
  outcome of sending an e-mail is in `Accounts` and `Invitations`.
- *Plans, prices, tiers, limits, dates of subscriptions, passwords, roles, names*: data no modelled step decides by,
  except as the sections above say.
