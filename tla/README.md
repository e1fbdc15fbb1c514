# A verification development for the hyperlocal platform

The platform lets users book local service providers. It is seven TypeScript
packages: an API gateway, five services with a PostgreSQL database each, and a
shared package. This directory holds TLA+ models of the parts that carry state
under concurrency, TLC configurations that check them on small instances, and
TLAPS proofs of the main results for every instance.

    cd tla
    tlc -config BookingPayments.cfg MCBookingPayments.tla     # one run
    tlapm BookingPayments_proofs.tla                          # some of the proofs

Contents: 1 the system, 2 the modules, 3 the runs, 4 fairness, 5 the proofs,
6 what was found, 7 what is not modelled, 8 what is left.

## 1. The system

| component | state it keeps | operations that change it | talks to |
|---|---|---|---|
| booking service (`apps/bookingservice`) | tables `bookings`, `payment_webhook_events`, `booking_otps`, `booking_reviews` | create, cancel by user / provider, Razorpay webhooks, assign a person, confirm arrival, mark complete, verify completion, review | Razorpay (calls and webhooks), provider service (HTTP quote and open intervals), notification queue |
| auth service (`apps/authservice`) | identities, verifications | signup, logins, send and verify codes, refresh | publishes the signup event and notifications |
| user service (`apps/userservice`) | users, addresses, favourites | signup consumer, profile, addresses with one default, favourites | consumes the signup event, retry queues, dead letter queue |
| provider service (`apps/providerservice`) | providers, offerings, availability, service persons, links | signup consumer, CRUD, quotes, open intervals | as above; answers the booking service |
| notification service (`apps/notificationservice`) | notifications and read flags | queue consumer, channels in-app and e-mail, mark read | consumes `notification.events` |
| shared (`packages/shared`) | the RabbitMQ connection, counters of the rate limiter | connect, create channel, limit | linked into every service |
| API gateway (`apps/api-gateway`) | counters of its rate limiter | authenticate, forward | HTTP proxy |

How they interact: the gateway checks a token and forwards the caller's id in
`x-user-id`. A signup is published on `auth.events` and consumed by the user
and the provider service. The booking service asks the provider service for a
price and for open hours; Razorpay calls the booking service directly.
Notifications are published and forgotten.

What is hard, and what makes each part correct:

* **Bookings.** There are no transactions: a handler is a sequence of awaits,
  and what keeps concurrent handlers apart is the `where status = ...` of each
  update and three unique indexes (idempotency key, webhook event, reviewed
  booking). Handlers act on rows read before an await. Razorpay redelivers
  webhooks, in any order. Every update catches its errors and answers null, so
  a failed statement looks like a row someone else has moved. Correct means:
  one order per key, nothing served unpaid, refunds on a row were made, one
  cancel wins, finished rows stay finished, no step of a job without its code.
* **Signup.** Identity, event and profile are stored by three processes. A
  consumer inserts, sends a retry copy and acknowledges in separate steps, and
  its channel may close between any two; messages are then delivered again while
  an insert is still under way. Correct means: no event is lost, none makes a
  profile the service should refuse, failures are ridden out, poison messages end
  in the dead letter queue, and a profile is of an identity that is stored whole.
* **Accounts.** A signup writes an identity, a row for each contact and an event
  in separate statements; a request for a code finds a row and then writes it.
  Correct means: a contact has one identity, no event precedes what it announces,
  only a code that reached its owner verifies a contact, and the code last sent is
  the one that counts.
* **Addresses.** "Unset the others, then set this one" in two statements.
  Correct means: two defaults, or a deleted one, only by requests that overlap,
  and the address asked for is the default in the end.
* **Service persons.** The list of offerings is validated, then written as
  delete and insert. Correct means: no offering of another provider, no part of
  an accepted list.
* **Notifications.** Acknowledged whatever the channels answer, and delivered
  again when the consumer's channel closes. Correct means: none skipped, none
  doubled but by a close, the queue drained again and again.
* **Slots.** Intervals minus bookings, cut into slots, while rows come and go.
  Correct means: a slot offered is free and open, none that is free is withheld,
  and only a race can double one.

The hazards of each part, with the line where they bite and the property that
covers them or the reason why none does, are listed in `PROJECT.json`.

## 2. The modules

| module | models | extends / instantiates |
|---|---|---|
| `BookingTable` | the status column and the conditional updates all handlers share | |
| `BookingPayments` | creation, Razorpay, webhooks, cancels | extends `BookingTable` |
| `BookingFulfilment` | assignment, codes, arrival, completion, review | extends `BookingTable` |
| `BookingService` | both on one table | extends both, instantiates the next |
| `BookingLifecycle` | the abstract promise: the life of a booking | |
| `Slots` | open hours, the bookings of a date, slots, bookings made from them | extends `BookingTable` |
| `SignupEvent` | the signups and which were announced, shared by the next two | |
| `Signup` | the signup event, its two consumers, retry and dead letter queues | extends `SignupEvent` |
| `Auth` | signup requests, verification codes | extends `SignupEvent` |
| `Onboarding` | from a signup request to a profile | extends both |
| `Notifications` | queue, consumer, channels, in-app rows | |
| `Accounts` | a code from the request that draws it to the one that enters it | extends `Auth` and `Notifications` |
| `Addresses` | a user's addresses and the default among them | |
| `ServicePersons` | offerings, service persons and their links | |
| `..._proofs` | theorems about the module of that name; those of `Notifications` are in `Accounts_proofs`, those of `Onboarding` in `Signup_proofs`, those of `Addresses` and `ServicePersons` in `Profiles_proofs` | the module, `TLAPS` |
| `MC...` | small instances for TLC | |

`BookingService` extends both booking modules, so what would have one name in
both is named for the job in `BookingFulfilment` (`JobsInit`, `JobsNext`,
`JobsSpec`, `JobsTypeOK`); for the same reason the specifications around an account
are `AuthSpec`, `NoteSpec`, `AddressSpec` and `StaffSpec`.

**Rows.** A row is named by the Razorpay order stored in it; the column is
unique and never rewritten. `status[o] = "NO_ROW"` means no such row. The
columns a module writes are in its own variables (`booking`, `assigned`).

**Conditional updates.** `Matched` and `Unmatched` of `BookingTable` are
`updateMany where status in from` followed by a read in the same `try`. With
`"db"` in `Faults` a statement may fail: nothing is written, or the row is
written and only the read fails. The caller sees null in both cases, so the
handlers get `updated = FALSE` for three different reasons, as in the code.

**Requests.** Each request is a process with a `pc`, run once. One await of the
handler is one step, with what it assigned before the next await; a step ends
at the await whose answer another process can change. A request may die at any
await (`CreateDies`, `CancelDies`, `HookDies`, `TaskDies`): the instance stops,
or an exception leaves the handler. A delivery may also stop between its last write
and its answer (`AnswerOrStop`), and a signup between its event and its answer
(`SignupClose`, `SignupDies`), where what was written stays. Instances of the service share nothing but
the database, so their number does not appear.

| code | action |
|---|---|
| `BookingService.create`: lookup of the key | `CreateLookup` |
| ... `createRazorpayOrder` | `CreateOrder` |
| ... insert, unique index on the key | `CreateInsert` |
| ... P2002: answer with the row of the key | `CreateConflict` |
| ... the answer reaches the client | `CreateRespond` |
| Razorpay checkout (external) | `PaymentCaptured`, `PaymentDeclined` |
| `handleRazorpay`: delivery, `createStrict`, processing, 500 | `Deliver`, `HookClaim`, `HookCaptured` / `HookFailed`, each with `AnswerOrStop`, `HookDies` |
| `cancelByUser`, `cancelByProvider`: read and checks, refund, update and notifications | `CancelRead`, `CancelRefund`, `CancelUpdate` |
| the hours before the slot, `computeUserCancelRefund` | `refundPct`, `TimePasses` |
| `assignServicePerson` | `AssignRead`, `AssignWrite`, `Issue` |
| `markComplete` | `MarkCompleteRead`, `MarkCompleteWrite`, `Issue` |
| `confirmArrival`, `verifyCompletion` | `VerifyCode`, `UseCode`, `VerifiedWrite` |
| codes run out after 15 minutes | `OtpExpires` |
| `BookingReviewService.create` | `ReviewRead`, `ReviewWrite` |
| `publishUserSignedUpEvent` and the exchange | `Announce` |
| `startUserSignedUpConsumer`, `startProviderSignedUpConsumer`: declare, bind, consume | `Start` |
| ... `parseMessage` throws: nack; foreign account type: ack; else the handler | `DeliverMalformed`, `DeliverForeign`, `DeliverWanted` |
| ... `createUser`, `createProvider` | `Insert`; when it throws, `Retry` or `GiveUp`; then `Ack` |
| RabbitMQ: time to live of a retry queue (external) | `TtlExpires` |
| the channel closes or the instance stops; the insert of a handler that is gone | `ChannelCloses`, `LateInsert` |
| `getOpenIntervalsForDate` of the provider service, the call to it | `GetOpenIntervals` |
| `getAvailableSlots`: `findBookingsByProviderAndDate` | `ReadBookings` |
| ... `subtractBookedFromRange`, the while loop | `SubtractBooked`, `Answer` |
| `create` with a slot that was offered, or any other | `BookOffered`, `BookOther` |
| what the other booking modules do to a row | `RowMoves` |
| `signup`: lookups, identity, verification rows, event | `SignupCheck`, `SignupInsert`, `SignupRecord`, `SignupPublish`, the close of its channel and the answer `SignupClose`, `SignupDies` |
| `sendVerification`: checks, query, update or insert, notification | `SendCheck`, `SendFind`, `SendWrite`, `SendPublish` / `SendUnpublished`, `SendDies` |
| `verify`: row and comparison, `markVerified` | `VerifyFind`, `VerifyMark`, `VerifyDies` |
| `startNotificationConsumer` | `Start` |
| ... `parsePayload` throws: nack; else the channels, then ack | `DeliverInvalid`, `Deliver`, `Send`, `Ack` |
| ... channel closes, sends of a handler that is gone | `ChannelCloses`, `LateSend` |
| `markAsRead`, `markAllAsRead` | the same names |
| `createAddress`, `saveCurrentLocation`, `updateAddress`, `setDefaultAddress`, `deleteAddress` | `CreateAddress`, `UpdateAddress`, `SetDefault`, `DeleteAddress`, then `UnsetDefault`, `InsertAddress`, `WriteAddress`, `SetAsDefault`, `SoftDelete` |
| service persons: `create`, `update` with a list | `CreatePerson`, `InsertPerson`; `UpdatePerson`, `ClearLinks`; `CreateLinks` |
| offerings: `create`, `delete` | `CreateOffering`, `DeleteOffering` |

**Each module and its environment.** `BookingPayments` lets the job move a row
by `FulfilmentStep`, `BookingFulfilment` lets payments move it by
`PaymentStep`. That the real handlers of the other module do no more than that
is checked by run `BookingService` and proved in `BookingService_proofs`, so what
is checked, and proved, of each module holds of the service. In the same way
`Auth` lets a published code arrive at any time; in `Accounts` the queue, the
consumer and the channels decide when, and `AccountsSpec => AuthSpec` is proved.
`Signup` takes events from anywhere; in `Onboarding` an event comes of the statement
of a signup that publishes it, and that it implements `Auth` and `Signup` is proved.
`Slots` lets a row take any step of payments or the job (`RowMoves`); that the
service takes no other is `RowsMoveAsSlotsAssumes`.

**Queues.** A queue of `Signup` is a bag of messages, a function to their
number. The three retry queues are one: a message carries its retry count, and
their delays differ in length only. A message is an identity, its retry count
and whether it has the field `payload`; which of these the publisher sends is the
constant `Envelopes`. The two consumers share only the event, so a behaviour
is that of one of them, chosen by `Init`, and no product of the two is explored.
The prefetch of 10 is left out: the runs never have ten copies. A queue deleted
under its consumer, and a broker that forgets a durable message, are left out.

**Who calls.** The provider's endpoints compare `booking.providerId`, the id of
a `Provider` row, with the caller's `x-user-id`, which the gateway fills with
the id of an identity. As deployed the two are different ids, so these endpoints
refuse the provider; the models take callers whose id is the one on the row,
as the service's own tests do.

**Slots.** A time is a number of milliseconds from midnight, and a minute and a
day have any positive length, so the arithmetic of the loops is kept and checked at
small values. The loop over the bookings runs without an await; that its turns
are steps of their own here gives the proof its loop invariant and adds no
behaviour, as the request shares nothing with others between them.

**Accounts.** An identity is named by its signup and a code by the request that
drew it. A row of `identity_verifications` keeps a contact either as it was
typed (signup) or in the normal form (requests for codes): both forms are in
`Row`, because a user who types capitals has two rows and `markVerified` writes
both. A code that expires is a step that may come at any time.

**Addresses.** The transaction of `setAsDefault` is one step: its first
statement locks every row of the user that is not deleted. The other two-statement
writes are two steps. `setter`, `deleters`, `wantedBy` and `earlier` are history
variables the properties read; so are `before` of `Auth`, `finished` of
`ServicePersons`, `routed` and `tried` of `Notifications`, and `live`, `existing`
and `askOf` of `Slots`. No guard reads one.

**Notifications.** A notification is one message. The list `channels` that would
take precedence over `channel` is set by no publisher and left out. A channel
that fails is caught and the message acknowledged all the same: an attempt is
carried out or not, and `tried` says only that it ended. As published, the
notifications of the booking service carry no `emailTo`, so none of them is ever
mailed.

**Abstractions.** A quote is one price `Amount`. Time is the share a user gets
back now (100, 50, 0 percent). A code is a position in a sequence. What a
notification says is left out; that it was published for a booking is kept where
a property needs it. Reads that change nothing, and requests refused before
they change anything, are left out.

## 3. The runs

| run | states | question |
|---|---|---|
| `BookingPayments` | 1.4 million | one booking, two cancels, two deliveries at a time, every fault, one crash: are row, payment and refund consistent? |
| `BookingCreate` | 1.6 million | two creates with one key or none, two orders, two deliveries at a time and one that dies: one order per key, nothing paid without a row, nothing answered 200 and forgotten? |
| `WebhookRedelivery` | 27 thousand | bodies without an id, two crashes: is a captured payment confirmed in the end? |
| `BookingFulfilment` | 240 thousand | two assignments, two arrivals, a completion, a verification, two reviews, failing statements, cancels: can the job be cheated or doubled, and is its dead end one? |
| `BookingService` | 370 thousand | one request of every kind on one table: does the service implement both modules and the lifecycle? |
| `Onboarding` | 130 thousand | two providers and an admin sign up with one e-mail, and either consumer takes their events, malformed ones too, through two failures and a closing: is a profile of a stored identity, is an event lost, misused or left circling? |
| `Slots` | 1.7 million | two requests for slots, three bookings with and without asking, two schedules, moves of every row meanwhile: is a slot offered free, none withheld, none doubled but by a race? |
| `Accounts` | 300 thousand | two signups with one e-mail, two codes and an entry; the consumer with three messages and two closings; a code followed through both; three address requests; two persons, three offerings and two requests |
| `WebhookClaimLost`, `DoubleRefund`, `ProviderCancel`, `SignupAsPublished` | | expected violations, see 6 |

Bounds, and why they suffice. Every safety property relates one booking and at
most two requests, or two requests and the orders they hold; two requests of a
kind and one booking (two in `BookingCreate`) contain each such pair. A third
request meets only states of the row that two already produce. `Amount = 101`
is odd so that half of it is rounded. Two concurrent deliveries make one
duplicate; since a delivery returns to idle and events are never used up, the
number of redeliveries is not bounded. `MaxCrashes` bounds the deliveries that
die, `MaxCodes` the codes per booking and kind: two are needed for a newest and
an older active code. Requests run once and then rest, hence
`CHECK_DEADLOCK FALSE`. `BookingCreate` books slots less than twelve hours away (`LateSpec`): the share
a user gets back is a question of `BookingPayments`. Symmetry is used for sets of interchangeable requests,
orders and persons, in runs of invariants and action properties only, never for
liveness.

`Onboarding` runs with one retry queue instead of three: the count starts, moves and
reaches its limit, two failures exhaust it, and a closing duplicates a copy and the
original. Its theorems hold for any number. The consumers are run with both
envelopes: with the bare event alone, as published, nothing but
`DeliverMalformed` would ever happen. `MCInit` follows the event from a state the
specification reaches: both providers have found the e-mail free, one has its
identity and no row for its contacts yet, and the admin has signed up, either before
the consumer's first start, when its event was lost, or after, when it waits in the
queue. So an event that overtakes the answer of its signup, a race for one contact and
an account of another type in the users table all lie ahead; what the auth service
does before that is explored by `Accounts`.

`Slots` runs on a day of six minutes of two milliseconds with slots of two
minutes: the open interval holds two slots exactly, the other bookings lie across
midnight, across a cut and across the end of the day, and the millisecond by
which the day of the query falls short can be seen. Three rows are two booked
from answers and one that stands between them.

`Accounts` holds parts that share nothing: the auth service, the notification
service, a code on its way through both, the addresses of a user, a provider's
staff. `part`, chosen by `MCInit`, says which one moves, so no product of them is
explored. The part that follows a code starts in a state the other two
reach: one user has signed up, the other was refused, one request for a code has
died, and the consumer has lost its channel once. Two sends make a race for one
row, two closings a message delivered three times, and three address requests a
race of two and a third that must come after both.

Each property is paired in `PROJECT.json` with a mutant of the code it must
catch: a status missing from a where clause, a unique index dropped, an
exception swallowed, a 500 turned into a 200. The mutant operators stand in the
modules before the definition they mutate and are used by nothing else.

## 4. Fairness

`FairSpec` of `BookingPayments` assumes fairness of webhooks only. Razorpay
redelivers an event until a delivery of it is answered 200: strong fairness of
`Deliver` for each event not yet acknowledged. It is strong because the bound
on simultaneous deliveries is the model's; in the service a duplicate never
keeps another delivery out. A handler that is not cut short ends: weak fairness
of the handler's steps. Nothing is assumed of clients, payments, cancels or
crashes. What a booking waits for beyond that (a provider who assigns, a user
who pays) is up to people, so there is no other liveness to state.

`FairSpec` of `Signup`, and with it `MCSpec` of `Onboarding`, assumes that a
consumer without a channel starts again (the timers of its close and catch
handlers) and that broker and consumer do not both stand still while a message can
be moved: one weak fairness condition for all of them, since each message moves
only so often. Failures and closings are
bounded, so the property is of times in which they end. No signup has to end: what
is published is settled, and nothing need be.

`FairNotes`, `FairAccounts` and their instance `MCSpec` assume that what broker
and consumer do of themselves (`Work`: start again, take a message, hear from a
channel, acknowledge) does not stand still for ever while it can go on. The
timers of both handlers start the consumer again, and a send ends, well or not.
Nothing is assumed of publishers, readers or closings; `EventuallyServed` says
that the consumer has caught up again and again.

## 5. The proofs

Eight modules hold the proofs. Each theorem is of a whole specification, for any
values of the constants that meet the named assumptions; TLC evaluates these in
every run, and every property was model-checked before it was proved.

`BookingPayments_proofs` proves eleven theorems of `Spec`, for any sets of orders,
keys, requests and deliveries, any price of at least 100 paise, any faults and
any number of crashes. Assumptions are those the module names: `FaultAssumption`,
`KeyAssumption`, `AmountAssumption` (the check in `create`), `OrderAssumption`,
`IdAssumption`, `CrashAssumption`; TLC evaluates them in every run.

The invariants that the runs check are not inductive. They are strengthened and
proved in this order, each from those before it:

1. `TypeInv`: types, and a delivery that is not idle carries an emitted event
   (`TypeCorrect`). The refund arithmetic is in it: what is due is a whole
   number of paise within the price.
2. `OrdersOfRows`: rows have orders, and the order a request is about to insert
   is on no row. Without it an insert could overwrite a row (`InsertIsFresh`).
3. `KeysOfRows`: one row per key, and every request past the insert goes by the
   row of its key. It gives `OneOrderPerKey` (`CreateIsIdempotent`).
4. `RowSteps`: what any step may do to one row, the lemma `EveryRowStep`. It
   gives the action property `FinalRowsKept` (`FinalRowsStay`).
5. `PaymentInv`: events of captured payments are of paid orders, paid orders
   have rows, served rows have payments (`NothingServedUnpaid`,
   `EveryPaymentFindsItsRow`).
6. `ProcessedIsClaimed`: a delivery past the claim has its event in the table
   (`ProcessedOnce`).
7. `ConfirmationIsTrue` is inductive given 1, 2 and 4 (`ConfirmationHolds`).
8. `AnswerInv`: an event that was claimed or answered is accounted for, and a row is
   `PAYMENT_FAILED` only by an event of a declined attempt. A delivery past the
   claim accounts for its event until it ends, and then the row does: that it does
   so for ever after is `AccountedStays`, which needs 4 (`AnswersAreHandled`).
9. `RefundInv` with `CancelsUnderWay`: a cancel about to refund has a recorded
   payment, and a cancel that refunded has that much refunded when it reaches
   its update (`RefundsAreReal`, `CancelHasOneWinner`).

`Signup_proofs` proves four theorems of `Signup` for any signups, contacts, number
of retry queues, failures and closings. `NothingLost` is inductive once
split by identity (`SafeStays`: a copy that leaves one place comes to the next,
or has made the row). `RowsAreDue` and `DeadOnlyAfterRetries` need `CopyInv`:
every copy is of an event that came, a handler's copy is wanted, and a copy of
an event nothing conflicts with was tried at most once for each failure. It
rests on `CopiesAfterWork`: each copy after a step was there before it or is the
retry of one. Four more theorems are of `OnboardingSpec`: it implements `AuthSpec`
and `Spec` of `Signup` step by step (`OnboardingSteps`), so what is proved of
either holds of both together; and where the two meet, `OnRecord` joins the
event to the identity. `ProfileIsOfIdentity` follows from it, `RowsAreDue` and
`AnnouncedIsStored`, and `DeadNeedsOtherAccount` from it, `DeadOnlyAfterRetries` and
`OneIdentityPerContact`: an account of the same type with the same e-mail would
have been refused.

`BookingFulfilment_proofs` proves six theorems from `FulInv`: the types, what
the tables hold together (an arrival code is out only when someone is assigned, a
review only when the booking is completed), `TaskInv`, what each request under
way has found or done, and that of two requests with one operation and one
booking one at most was told that it moved the row (`OneTold`). None of these is
inductive alone. A request that waits goes by facts another one could undo, so the
centre of the proof is `Kept`: a status does not go back, codes stay used,
someone stays assigned, a review stays. `OthersKeep` derives from it that a step of
one request keeps what all others rely on, and each action is left with its own
request. The theorems are types, `ServedByProof`, `OneTaskAdvances`,
`ReviewIsOfCompletedBooking`, `ArrivedPersonKept` and `DeadEndStays`. For the last,
no step leaves a code of a dead booking active that was not (`DeadCodes`), moves its
status (`DeadStatus`) or brings a request to where it would (`DeadTasks`).

`BookingService_proofs` proves three refinements and a theorem about rows: the
service implements `BookingPayments` (`PaymentsOfService`), `BookingFulfilment`
(`FulfilmentOfService`) and the promise (`ServiceKeepsPromise`). Two lemmas say
what each group of handlers writes of what the others see: `PaymentsWrite` (one
row takes one of `PaymentSteps`, and is confirmed only when paid; or an order is
paid once) and `FulfilmentWrites` (one row takes one of `FulfilmentSteps` with
the code it needs; or a code is given). The invariant joins those of both modules
with `AssignedIsPaid`: a code of arrival can be given only for a booking that is
paid, since it is drawn after an assignment, and that after the payment. With the
refinements every theorem of the two modules is one of the service.
`RowsMoveAsSlotsAssumes` follows from the same two lemmas.

`Slots_proofs` proves four theorems. What a booking leaves of an interval is
described by lemmas about `Parts` (intervals, within the interval, apart from the
booking, and covering all the rest) and `Cut` (of one length, disjoint, filling the
interval up to less than one length). `Subtracting` is the loop invariant: the free
intervals lie in the open one, are apart from each other and from the bookings
subtracted so far, and cover all of the open interval that these do not.
`OfferedIsFree` follows, and with `StretchInOnePiece` (a stretch that meets no
booking lies in one free interval) `NothingWithheld`. `OverlapOnlyByRace` relates
two rows by what the tables held when each answer was read (`RowsRead`,
`BookedFromAnswer`).

`Auth_proofs` proves five theorems of `AuthSpec`. `SignupInv` says how far a signup
has come in the tables and gives `AnnouncedIsStored`, which holds whether or not the
signup ends well; `OneIdentityPerContact` is inductive by itself.
`DrawnFor` says that a code in a row, and the row a verification is about to mark,
are of the same claim; it gives `VerifiedByOwner`. `LastCodeInv` says that a code in
the row is the latest or is `Contested` by a request for the same contact that had not
ended when it began; it stays contested (`ContestedStays`), which gives
`LastCodeCounts`.

`Accounts_proofs` proves six theorems of `NoteSpec` and `AccountsSpec`. For the
consumer, a notification is in the queue at most once and not also in hand
(`InOnePlace`), and what was carried out plus what still may be is bounded by the
deliveries, one more than the closings (`CarriedOnce`). `NothingSkipped` is
inductive by itself. Composed, `ComposedInv` adds that a code note on its way is
one of a published code; `StepMaps` shows each step of `AccountsSpec` to be one of
`AuthSpec` or a stutter, so that `ReadersVerify` follows a contact back to a mail
or a row in the app its owner could read.

`Profiles_proofs` proves, of `AddressSpec`, types and three theorems. `Targets` and
`History` say what the request under way is about and which requests had ended
when another began. `DefaultRaces` strengthens `TwoDefaultsNeedRace` to requests that have unset
the others and not yet written; `DeleteRaces` does the same for those about to
write an address deleted since. `Wanted` says that the request wanted last is
still on its way, or its address is the default.

Of `StaffSpec` it proves types, `LinksWithinProvider` (`Checked`: a list
under way is of the person's provider) and `ListIsKept` (`AloneWrites`: what the
links of a person are at each point of a request that runs `Alone`).

Only model-checked: `WebhookStillConfirms`, `Settled` and `EventuallyServed`,
which are liveness under fairness and out of the reach of the prover. Every other
property of a passing run is proved. Type invariants are proved of every module and
checked by a run in `BookingPayments` alone, where they hold the refund arithmetic.

## 6. What was found

Four statements of the documents, three of `src/apps/bookingservice/README.md`
and one of `src/apps/providerservice/FEATURES.md`, are not what the code does;
each is an expected violation with its counterexample.

* `WebhookClaimLost`: "If the frontend fails after payment, the webhook still
  confirms the booking." The claim of an event is never taken back. A handler
  that dies between it and the update of the row loses the event: the redelivery is dropped as a duplicate.
  `WebhookRedelivery` shows that a crash loses a payment by the claim alone: without an
  id in the body, and so without deduplication, redelivery repairs every one. It is
  run without declined attempts and failing statements, the other two ways in which
  a payment is not confirmed (see below).
* `DoubleRefund`: "No double cancel / double refund". The refund precedes the
  conditional update. No double cancel is true and proved (`OneCancelWins`);
  two refunds of half the price are possible.
* `ProviderCancel`: "Provider cancels: Full refund." A payment whose webhook has
  not been handled yet is not refunded, then or later.
* `SignupAsPublished`: "Provider service consumes the event ... and creates a
  Provider record." The auth service publishes the bare event, both consumers
  want it in the field `payload`, and every signup goes to the dead letter queues.

Beyond these, things a reader of the code should know, which no document
promises otherwise: a declined attempt whose event is handled before the capture
of a later attempt leaves the paid booking `PAYMENT_FAILED`; a failing statement
in `updatePaymentCaptured` is answered 200 (`AnsweredIsHandled` says that these
two, and a handler that dies after its claim, are all that can keep an answered
payment off its row); a booking marked complete whose code
was never sent, or has expired, cannot be completed by any call, then or later
(`DeadEndStays`); a signup can be answered with an error, or never, although its event
is published and its profile made, because `publishUserSignedUpEvent` closes its
channel after the event and nothing catches an error of that
(`AnnouncedIsStored` and `ProfileIsOfIdentity` are about the tables for this reason,
not about the answer); a signup of a user who has an account as a provider or an admin with
the same e-mail ends in the dead letter queue of the user service, and nothing
but that and failures does (`DeadNeedsOtherAccount`); a cancel that
loses to an arrival has already refunded; `create` does not look whether the
slot is free, and `OverlapOnlyByRace` says exactly when two bookings of offered
slots overlap; two concurrent requests can leave two default addresses, and an
update that loses to a delete makes a deleted address the default; a closing of the
consumer's channel can show a notification twice; two concurrent requests for a
code can leave the user with a code that is not the one in the row.

## 7. What is not modelled

* Generated code: the Prisma clients under `src/generated`, which are most of the
  lines of `apps/*`, and what they do to statements beyond the unique indexes,
  cascades and conditional updates above. The share of lines that the models stand
  for is small for this reason; it is the hand-written services that are modelled.
* Values: password hashes, tokens and their refresh (the auth service stores no
  session), signature checks, validation, paging, HTTP and JSON formats, what a
  mail says.
* Queries and search: they write nothing.
* The API gateway and the rate limiters: counters in memory that guard routes and
  no state of a service. The connection of `packages/shared` is seen by consumers
  as a channel that closes.
* Favourites, profiles and avatars, and the other columns of an offering or a
  service person: rows written by one statement each, the last of which wins. For
  favourites the unique index refuses the second of two.
* Schedules and days off are read by `Slots` as any rows at any time; their editing
  is not a model of its own.
* Two draws of six digits that agree by chance.

## 8. What is left

The liveness properties could be stated of the composed service, where a payment
also waits for nothing but webhooks. Slots and payments could be one specification
over the table, in which the row of a slot is the row that is paid; what it would
need of the two, that each moves rows as the other assumes, is proved.
