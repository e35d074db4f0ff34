# Formal specification of the NodeX intercity ride platform

TLA+ models of the platform's backend (`src/apps/api/src/main.ts`, `src/apps/worker/src`,
`src/packages/validation/src/index.ts`) and of the parts of its web apps that keep state, the TLC runs that check them on small instances and
proofs, checked by TLAPS, of what matters most for any number of seats, bookings, payments and requests.
`main.ts` without a path is `src/apps/api/src/main.ts`; paths below are under `src/`.

The files:

| file | what it is |
|---|---|
| `SeatAllocation.tla` | abstract: what the booking service promises about the seats of one trip |
| `SeatHolds.tla`, `MCSeatHolds.tla` | seats, holds, bookings, the Redis lock, the booking worker |
| `SeatHolds_proofs.tla`, `SeatOwnership_proofs.tla` | theorems about `SeatHolds`, that it implements `SeatAllocation` among them |
| `ParcelLifecycle.tla` | the parcel status table and the routes that apply it |
| `TripOperations.tla` | `SeatHolds` + `ParcelLifecycle` + boarding, start, completion, cancellation, expiry |
| `TripSupply.tla`, `MCTripOperations.tla` | `TripOperations` + draft, edit, publish, unpublish, block, cancel, and the trip's vehicle: the whole trip, which is what the runs and the theorems are about |
| `TripSupply_proofs.tla` | theorems about `TripSupply` |
| `OneTimeCodes.tla`, `MCOneTimeCodes.tla` | boarding codes, start PINs, parcel hand-over and pickup codes |
| `Payments.tla`, `MCPayments.tla`, `Payments_proofs.tla` | payments, webhooks, cash, refunds, earnings, payouts, ledger; theorems about them |
| `DriverVerification.tla`, `Vehicles.tla`, `Uploads.tla` | a driver's application and its decisions; a driver's vehicles, plates and their review; the files they and parcels are given |
| `Sessions.tla`, `Profiles.tla`, `UsersPanel.tla` | sign-in, refresh rotation, logout of one Telegram user; the profile and the panels that change it; the panel in which admins look users up |
| `Catalogue.tla`, `Search.tla`, `BookingPage.tla` | cities and routes and a trip on them; search page by page; the page on which a client chooses seats |
| `Conversations.tla`, `SupportTickets.tla`, `TicketDesk.tla` | the chat of a booking; the status of a support ticket; who works on it and who is shown what of it |
| `BookingDesk.tla` | a booking as client, driver and admin see and cancel it while its trip goes on |
| `Reviews.tla`, `Safety.tla`, `TripLocations.tla`, `TripShares.tla` | reviews of a user and the rating; safety reports, blocks, trusted contacts; the points of a trip; links to a trip |
| `Waitlist.tla`, `Favourites.tla`, `Rewards.tla` | the waitlist of a route and its matching; favourite drivers and their alerts; rewards, referral and milestone of a driver |
| `MCServices.tla` | the modules of the last seven rows and `OneTimeCodes`, side by side |
| `Accounts_proofs.tla`, `Services_proofs.tla` | their invariants and theorems |
| `Notifications.tla`, `Restrictions.tla`, `PassengerCodes.tla`, `MCJobs.tla` | notifications and their delivery job; account restrictions and the job that ends them; how a passenger learns a code; these three beside `Payments` |
| `Jobs_proofs.tla` | the theorem about `Notifications` |
| `<module>_<question>.cfg`, `Services.cfg`, `Jobs.cfg` | one TLC run each |
| `PROJECT.json` | components, runs, mutants, hazards, findings, theorems, and the source lines of every definition |

## 1. The system

An API process (NestJS, with all routes registered in one file) and a worker process
(BullMQ repeated jobs) share a PostgreSQL database through Prisma; Redis holds a lock per trip and
the job queues. Several API processes may run. Most routes that change something are one
`prisma.$transaction`, READ COMMITTED, at most five seconds long; the others are statements of their own. Three consistency devices are
used, often within one handler: conditional `updateMany` statements (a compare-and-set on a status
or a version), unique idempotency keys, and the Redis lock. Everything else is read-then-write: a
handler reads rows, decides in JavaScript and updates by id.

### Components

| component | state | operations | talks to |
|---|---|---|---|
| Seat inventory, holds, bookings | `TripSeat`, `SeatHold`, `SeatHoldItem`, `Booking`, `BookingSeat`, `Trip.availableSeatCount`, Redis `booking:trip:<id>` | seat map, hold, confirm, release, cancel (client, driver, admin), expiry on read and by the worker | Trip row, payments (a payment confirms a booking), operations |
| Trip operations | `Trip.status/version`, `Booking.status`, `TripStartPin`, `BoardingCode`, `TripLocationPoint` | start boarding, board, verify PIN, client no-show, start, complete, cancel, driver no-show, worker expiry; send and show a position | seats and bookings (shared rows), parcels (start and cancel cascade), codes, rewards |
| Parcel delivery | `ParcelOrder.status/version` | create, submit, accept, reject, hand over, ready, deliver, cancel, lost, damaged, dispute, expiry | trip (start and cancel), codes |
| One-time codes | `BoardingCode`, `TripStartPin`, `ParcelHandoverCode`, `ParcelPickupCode` | create or replace, attempt, expire | operations, parcels |
| Payments, refunds, ledger, payouts | `Payment`, `PaymentIntent`, `PaymentWebhookEvent`, `CashSettlement`, `PaymentRefund`, `PlatformFee`, `DriverEarning`, `DriverPayout`, `FinancialLedgerEntry` | intent, webhook, cash declaration and confirmation, refund request and processing, payout, expiry of unpaid payments | bookings and holds |
| Trip supply and publication | `Trip`, `TripStop`, `ReturnRouteRelation`, price, block fields, `City`, `Route` | draft, edit, publish, unpublish, block, cancel, return draft; create and change cities and routes | seat inventory, operations, vehicles, waitlist, favourites |
| Authentication, sessions, profiles | `AuthSession` with its refresh-token hash, `User`, `UserRole`, `UserPreference`, client and driver profile | login with Telegram's launch data, refresh rotation, revoke one, revoke all; change the profile and the preferences | everything |
| Driver and vehicle verification | `DriverVerificationApplication`, `DriverProfile.verificationStatus`, `Vehicle`, documents and photos | edit, upload, remove, submit, withdraw, start review, ask for changes, approve, reject, suspend, archive | trip supply |
| Chat, notifications, support | `Conversation`, `ChatMessage`, `Notification`, `NotificationDelivery`, `SupportTicket`, `OutboxEvent` | open, send, edit, delete, read, report, announce, deliver, reply, change the status | operations |
| Reviews, reliability, trust and safety | `Review`, `RatingAggregate`, `ReliabilityProfile`, `SafetyReport`, `UserBlock`, `TrustedContact`, `TripShare`, `AccountRestriction` | post, edit, report, restrict, revoke, expire, block, share | bookings |
| Rewards, anti-fraud, waitlist, favourites | `RewardTransaction`, `Referral`, `FraudEvaluation`, `WaitlistEntry`, `WaitlistMatch`, `FavoriteDriver`, `SavedRoute` | evaluate at completion, review, match, withdraw, follow, alert | trips, bookings |
| Search, routes, maps | none that decides anything (`SearchEvent` is not read) | search, lookup, ETA | trips |
| Web applications and bots | the fields of their pages, the refresh cookie | booking page, profile panels, users panel; the rest presents answers or a fixed demonstration | API |
| Configuration, logging, contracts, generated clients | none | none | everything |

### What is hard

* **Stale reads.** Between the read of a handler and its writes any other request or worker may
  commit. `cancelBooking` (`main.ts:5462`), `startBoardingTrip` (`:3705`), `boardBooking` (`:3727`)
  and the no-show-driver route (`:11237`) write by id what they decided from an old row.
* **Five tables, one fact.** Who owns a seat is written in `TripSeat`, `BookingSeat`, `SeatHold`,
  `Booking` and `Trip.availableSeatCount`, by statements with different filters.
* **Two clocks.** A hold lapses by its own expiry date, is found by the next hold request, by the
  seat map and by the worker, and may be confirmed at the same instant. The Redis lock has a TTL of
  its own.
* **A failed unlock.** `withBookingLock` swallows the failure of the unlock command (`:3128`).
* **The worker's batch.** All jobs list rows first and then treat them one by one, and may be killed
  on the way.
* **Read outside, write inside.** The supply, vehicle and verification routes read the row before their
  transaction and update it by id; a decision is compared with a version only if the client sends one.
* **Indexes that never apply.** The unique indexes of `Review` and `UserBlock` contain columns that
  are NULL in every row the code writes, so that find-then-create is all there is.
* **Answers in flight.** A refresh replaces the token at once; its answer may be lost or overtaken. So may the only
  answer that ever holds a boarding code or a PIN, since the database has its hash. Panels show whatever answer came last.
* **No transaction at all.** Profile and preferences are written row by row; a shared trip is looked up, recorded and shown in three
  statements; positions are shown by three queries; each page of a search is a query of its own.
* **Exceptions roll back.** A counter written before a `throw` in the same transaction is not
  written at all (`:3775`).
* **Retries.** A hold request is retried with its idempotency key, an operation is retried in its
  target status, a webhook is delivered twice.

`hazards` in `PROJECT.json` lists them line by line with the property that watches each.

### What makes each component correct

* Seats: no seat is owned twice; the five tables agree; a hold ends once and keeps its seats until
  it does; seats and lock come free in the end; all of it together is `SeatAllocation`.
* Operations: the trip follows its table from the status it really has; the seat map agrees with
  the bookings through the journey; nobody travels unverified; nobody has a live booking on a trip
  that an operation called off; a trip that was cancelled sells no seat again.
* Parcels: none travels before its trip was started; a cancelled trip leaves none active.
* Codes: used once, attempts limited, a parcel changes hands once.
* Payments: a payment is captured once, with its amount, its earning and its ledger transaction
  together; refunds never exceed what was paid; the ledger owes the driver what is not paid out; an
  earning goes into one payout; a requested refund is carried out and no online payment stays open.
* Supply: a passenger who was sold a seat keeps it, whatever happens to the offer; no trip is on sale
  or under way with an archived vehicle.
* Verification: an approval means that the profile has it, that the application was complete and that the
  admin saw what was approved; two usable vehicles never have one plate; the primary vehicle is usable.
* Sessions: one account for one Telegram user; a session that was logged out never comes back; the
  browser is not signed out by its own refresh. Profiles: what the user chose is what is stored and what is shown.
* Chat, support, notifications: a message is sent once and counted as read exactly if it was; the
  history of a ticket explains its status; what is announced reaches Telegram once, and does.
* Reviews, restrictions, safety: a booking counts once in a rating, with its last review; a restriction
  runs out, and its effect too; a report is filed once and its settlement has a date.
* Positions, links: a point is stored only during the trip and not too often; a link that is revoked shows nothing.
* Files: a document has one version that can be had, and what is under review has it; photos stay within their limit.
* Catalogue, search, booking page: a trip on sale connects two cities one can search for; a search read to its end shows
  every trip once; the seats a page asks for are those it shows, and are accepted.
* Waitlist, favourites, rewards: who waits is matched once and told so; who withdrew, or follows no more, is left alone; a trip, a
  referral and a milestone are rewarded once, as their evaluation says.

## 2. How the code is modelled

**Transactions.** A request is a `Begin` step that reads into `tx[r]` (the values the handler keeps in
variables) and a `Commit` step that writes; any step of anybody may come between. In `Commit` the
condition of an `updateMany` is evaluated on the current rows, and an unconditional update uses
what was read. `Abort` ends a request without writing, for a thrown error, a crash, a broken
deadlock or the five-second limit. A handler whose early return precedes all writes is not a step. A
hold request claims the expired holds before anything else, so these rows are locked until it ends:
`tx.expired`, `LockedBy` and `Unlocked` say who waits for whom. Other row locks are taken by the
final writes, which are one step.

**`Isolated`** names operations assumed to overlap no other. `{}` is the code as it is. It is used
to state what holds *if* an operation ran alone, and so to tell the races apart from the rest.

**Payments.** A webhook or a cash confirmation reads the intent or the settlement before its
transaction, which then writes that row by id and reads the payment. The row stays locked until the
end, so these requests have three steps: `WebhookBegin`/`CashBegin`, `WriteAndRead` (the write that takes
the lock and the read of `markPaymentSucceeded`) and the commit. `LockedRow` makes a second one, and the
worker's expiry of the same intent, wait. Every request may carry an idempotency key of its own,
which is what lets two of them overlap; a request with a used key is answered from what is stored. The
worker's job runs one at a time (`concurrency: 1`) and its list of refunds includes the payments as
they were when it was read: `batch.seen`. The booking routes are single steps here
(`ConfirmHold`, `EndHold`, `CancelBooking`), because `SeatHolds` has their interleavings. `Amount` is at least 2:
the fee is rounded up, so that 1 is all fee and leaves no earning. Statuses that nothing writes
(`REQUIRES_ACTION`, `AUTHORIZED`, `FAILED` of a payment and so on) are absent. `take: 50` of the worker's
queries is not a bound of the model.

**Supply.** `TripSupply` extends `TripOperations`, so that edits, publications and blocks interleave with the
bookings and the journey of the same trip, whose tables they share. `OnSale` is the rest of the filter of the
booking routes' query, which `SeatHolds` has no need of; what a trip off sale still allows is `OffSaleStep`.
The capacity stays the same; a new departure may be before or after now. `MaxVersion` bounds the
supply routes (`Trip.version`). A trip begins as the draft of `POST /trips` or as published for the first time.
`POST /trips/:tripId/cancel` closes neither bookings nor parcels, and publishing, blocking and unblocking may take the trip out of
CANCELLED, EXPIRED or IN_PROGRESS. Two history variables let the properties say what is left of the past then: `started`, that the trip was
IN_PROGRESS, and `calledOff`, that `cancelTripOperational` or no-show-driver closed its bookings. `cancelled` is `Trip.cancelledAt`, which no route clears.
`OperationSets` bounds which operations and supply routes occur together.
The driver's own operations on a trip find it only while its vehicle is approved (`DriverFindsTrip`).

**The services.** Each module of `MCServices` has requests that read (`Begin`) and write later, as above, in
`<component>Tx`. Routes of one statement, or whose reads nothing depends on, are single steps. Where
the code promises something only while requests do not overlap, `<component>Alone`, chosen in the initial
state, says so: one run shows what holds for the sequences *and* what holds for the races, and no
assumption is put into the specification.

* `DriverVerification`: `page` is what the admin's page showed and `sent` whether the decision carries the
  version of it, which admin-web never does. REJECTED and WITHDRAWN applications are never submitted again.
* `Vehicles`: `PlateFree` is the query for duplicates as well as the partial unique index on plates.
  `suspendedAt` is left out, since every update to APPROVED clears it. `AssetsBegin` and `ChangeAssets` are the routes that add and
  remove documents and photos; what becomes of their rows is in `Uploads`.
* `Sessions`: a refresh token is the number of refreshes of its session; `AnswerLost` and the order of
  `AnswerArrives` are the network. `RevokeSession` (`DELETE /me/sessions/:sessionId`) also revokes a session that has expired, and leaves the
  browser its cookie. A token that was replaced belongs to no session and nothing is revoked for it.
  `LaunchData` is what an app may be launched with: `validateTelegramInitData` lets data of this user pass that is unchanged, fresh and
  not from the future.
* `Profiles`: a save is a list of rows, of which any number may be written before it fails; the panel shows the user of any
  answer, and sends back all it shows. The client's and the driver's panel are one form. The display name is left out: every
  login takes it from Telegram again.
* `UsersPanel`: a search finds the one user it names. A sign-in only adds roles.
* `Catalogue`: a trip copies the cities of its route when it is drafted; what publication looks at was read before its transaction.
  `closed` and `rerouted` say that an admin switched a row off, or moved it, since a publication had read it.
* `Search`: `GET` of one page is one step, and everything that may happen to a trip between two pages another
  (`MaxChanges`). The order of equal keys is the database's, hence any, until `stableTripSort` makes it one.
* `BookingPage`: `cabinSeats` and `sevenSeatPreview` are the two cabins the page has, `SEAT_MAP_LAYOUTS` the drawings. A seat is clicked
  only if its button is enabled. What a request must satisfy, `AcceptedByApi`, is taken from the API's code and not from the page's.
* `TripLocations`: `recordedAt` is the sender's, so points arrive in any order of it. ACCURACY and the other fields are left out.
* `TripShares`: a view is found, recorded and shown in three steps; it may fail between them.
* `Uploads`: `owner` is an application or a vehicle. The storage service is absent; that a file is announced is an event of the client.
* `Favourites`: a publication reads the trip, then locks it and reads the followers; `unwanted` counts alerts to who had left before.
* `Conversations`: `clientMessageId` is unique in its conversation and `receipt` the receipt of the other
  side. `withheld` are the messages that were deleted or hidden, of which `serializeMessage` shows no text. The chat stays open after a cancellation (`bookingChatEligible` is asked when it is opened).
  `Notifications` has the rest of `alerts`.
* `TicketDesk`: a page is read table by table (Prisma reads an include with one query per table), so an assignment may come
  between the ticket and its participants. `createdAt` of an assignment is given by `clock` when it begins and visible when it
  commits; `newestAssigned` is the row with the latest. `internal` tells the pages of admins and agents from the requester's.
* `BookingDesk`: pages are read table by table, too: the booking first, then its cancellations or its trip. The routes that write the
  booking by id (`cancelBooking`, `boardBooking`, no-show, the four trip operations) read it first and may overlap; with
  `bookingAlone` they do not. The trip's version lets one of two trip operations through. `HoldEnds`, `DriverMissing` and
  `TripExpires` are single steps, since their interleavings are in `SeatHolds` and `TripOperations`.
  `driverDecideBooking` APPROVED answers a CONFIRMED booking and refuses any other.
  `/trips/:tripId/history` is registered twice; the first (`main.ts:6327`, for drivers) answers, the second (`:10853`) is never reached.
* `SupportTickets`: REOPEN is in the table but no request reaches it; a reply that overlaps a CLOSE revives the ticket,
  hence `ticketAlone` in `ClosedIsFinal`.
* `Reviews`: a review is named by its idempotency key; `counted` is what the aggregate was computed from.
  A report hides the review, revives a deleted one to UNDER_REVIEW, and does not recompute. `entity` is the booking or the parcel, which ends
  and leaves the window for reviews, or is moved out of COMPLETED by a late payment intent; POST asks for an eligible one, PATCH does not.
* `Safety`: nothing but the creation of a report is a transaction. Nothing outside these routes reads `UserBlock`.
* `Waitlist`: a trip that is published is matched with the entries read before (`Assignments`: which trip serves whom
  depends on seats and price). EXPIRED is never written; a MATCHED entry never waits again.
* `Rewards`: `QualifyBegin` reads what `completeTripOperation` evaluates of the trip and the referral, `QualifyMilestone` counts for the milestone and
  `QualifyCommit` writes. The upsert of the one milestone definition (`main.ts:3957`) locks its row until the transaction ends, so that
  completions count one after the other (`DefinitionFree`); only a review comes in between. The unique index on the source aborts a completion
  that lost the race. A passenger's rewards are the same without the bonus. The sums of `GET /rewards/me` and `/driver/rewards`
  (`main.ts:6926-6967`) are left out: they add up the newest 100 rows of one user, not all there are.

**The jobs.** `PassengerCodes` has the answers on their way to the passenger: a code's plain text is in one answer only, which may be
lost or overtaken, and the code of the start of boarding in none. `Notifications` and `Restrictions` have one action per write, because neither the delivery nor the
application of a restriction is a transaction. The API counts RESTRICTION_APPLIED events, which are never removed,
and the job counts the restrictions that are ACTIVE: so the level falls only by the job.

**Side by side.** `MCServices` and `MCJobs` put components that share no state into one run:
`part`, chosen in the initial state, says which one is there. In `MCServices` the variables of the others are `Absent`.
The reachable states are the sum of the components', not their product.

**Data.** A booking is named by its idempotency key (unique with the trip), so a retry with the key is
the same booking. `SeatHold.version` is left out: every write that bumps it leaves ACTIVE as well.
Clients, prices, events, the outbox and audit rows are left out. `take: 100` of the expiry
query is not a bound of the model. `Trip.version` in the booking code changes exactly with
`availableSeatCount`, which `BookingStep` says.

**Correspondence.** `map` in `PROJECT.json` names the lines of each definition. In short:

| code | model |
|---|---|
| `withBookingLock` | `LockAcquired`, `ReleaseLock`, `LockTtlElapses` |
| `expireSeatHolds`, `releaseActiveSeatHold` | `UnlockedHolds`, `ReleaseActiveSeatHolds`, `FreedSeats`, `ReleasedRows` |
| `POST /bookings/holds` | `HoldBegin`, `HoldCommit`, `HoldReplay` |
| `POST /bookings/holds/:id/confirm`, `DELETE /bookings/holds/:id`, `cancelBooking` | `Confirm…`, `Release…`, `Cancel…` `Begin/Commit` |
| `GET /trips/public/:id/seats` | `ListSeats` |
| `expireActiveSeatHolds` (worker) | `WorkerScan`, `WorkerExpire`, `WorkerCrash` |
| `evaluateTripTransition`, `transitionTripStatus` | `MayTransition`, `TransitionTrip` |
| `startBoardingTrip`, `boardBooking`, `verifyTripStartPinForBooking`, `markClientNoShow`, `startTripOperation`, `completeTripOperation`, `cancelTripOperational`, no-show-driver | the action pair of that name in `TripOperations` |
| `operationsWorker` | `WorkerFindsStaleTrip`, `WorkerExpiresTrip`, `WorkerExpiresParcel`, `WorkerExpiresCodes` |
| `evaluateParcelTransition`, `transitionParcel`, `cancelActiveParcelsForTrip` | `ParcelLifecycle` |
| `createBoardingCode`, `createTripStartPin`, `createParcelCode`, `boardingCodeCanAttempt`, `driverParcelAction` | `OneTimeCodes` |
| `POST /payments/intents`, `/payments/mock/webhook`, `/driver/payments/cash-confirmations`, `/payments/:id/refunds` | `Intent…`, `Webhook…`, `Cash…`, `Refund…` `Begin/Commit` |
| `markPaymentSucceeded`, `ledgerPost` | `WriteAndRead`, `MarkPaymentSucceeded`, `ConfirmPaidBooking`, `LedgerPost` |
| `POST`, `PATCH /trips`, `.../publish`, `/unpublish`, `/cancel`, `/admin/trips/:tripId/block`, `/unblock` | `CreateTrip`, `Edit…`, `Publish…`, `Unpublish…`, `SupplyCancel…`, `Block…`, `Unblock…` `Begin/Commit` |
| `DELETE /vehicles/:vehicleId` | `ArchiveTripVehicle…` in `TripSupply`, `ArchiveVehicle` in `Vehicles` |
| the verification routes of drivers and admins | `EditApplication`, `CompleteDocument`, `SubmitApplication`, `AdminDecision` … |
| `adminVehicleDecision` | `VehicleActions`, `VehicleDecision` |
| `POST /auth/telegram`, `/auth/refresh`, `/auth/logout`, `/auth/logout-all`, `DELETE /me/sessions/:sessionId` | `Login`, `Refresh`, `RefreshRejected`, `Logout`, `LogoutAll`, `RevokeSession` |
| `createOrGetConversation`, the message routes | `OpenConversation`, `SendMessage`, `ReadMessages`, `EditMessage` … |
| `POST /support/tickets/:ticketId/messages`, the admin's status and reply | `UserReply`, `TicketStatus`, `AgentReply` |
| `POST /support/tickets`, `/admin/support/tickets/:ticketId/assign`, `/internal-notes`, the pages of a ticket | `OpenTicket`, `AssignBegin`, `AssignCommit`, `AddInternalNote`, `OpenPage`, `OpenAdminPage`, `ShowPage` |
| `GET /bookings/:bookingId`, `.../operation-status`, the driver's and the admin's, with the cancellations and operations that write it | `BookingDesk` |
| `POST /reviews`, `recomputeRatingAggregate` | `PostBegin`, `Recompute`, `CountedPublished` |
| `evaluateWaitlistMatchesForTrip`, the waitlist routes | `WaitingEntries`, `MatchCommit`, `CreateEntry`, `CancelEntry` |
| the rewards of `completeTripOperation`, `POST /admin/rewards/:rewardId/review` | `QualifyBegin`, `QualifyMilestone`, `QualifyCommit`, `ReviewReward` |
| `GET /bookings/:id/boarding-code`, `/start-pin`, `.../regenerate` | `GetCode`, `RegenerateCode`, `ShowCodeToDriver` |
| `PATCH /me`, `/me/preferences`, the two auth panels | `Profiles` |
| `GET /admin/users`, `users-panel.tsx` | `AdminUsers`, `LoadUsers`, `ShowUsers`, `SelectUser` |
| admin's cities and routes, `POST /trips`, `validateTripPublication` | `Catalogue` |
| `searchPublicTrips`, `stableTripSort` | `Search` |
| `book/page.tsx`, `cabin-selector.tsx`, `seat-map-layouts.ts` | `toggleSeat`, `changeType`, `requestSeatHold`; `resolveVisualStatus`, `EnabledSeats`; `layout` |
| `POST /trips/:tripId/location`, `.../latest` | `RecordBegin`, `RecordCommit`, `LatestBegin`, `LatestShown` |
| `/trip-shares`, `/public/trip-shares/:token` | `CreateShare`, `RevokeShare`, `ViewBegin`, `RecordAccess`, `ShowTrip` |
| `addAsset`, document and photo routes, `/parcels/:id/photos` | `AssetsBegin`, `ChangeAssets` in `Vehicles`; `Uploads` |
| favourites, saved routes, `notifyFavoriteDriversForTrip`, `createReturnTripDraft` | `Favourites` |
| `POST /safety/reports`, blocks and contacts | `ReportCreated`, `StatusWritten`, `BlockCreated`, `ContactCreated` … |
| `ensureNotification`, `communicationWorker` | `ensureNotification`, `ListDeliveries`, `Deliver`, `DeliveryCompleted` |
| `POST /admin/users/:userId/restrictions`, `trustSafetyWorker` | `CreateRestriction`, `RecordApplied`, `RecomputeReliability`; `ListRestrictions`, `ExpireRestriction`, `UpsertReliability` |
| `POST /admin/finance/payouts`, `.../:payoutId/status` | `PayoutCreate`, `PayoutStatus` |
| `expireStaleOnlinePayments`, `financeWorker` | `ExpirePayment`, `RefundsList`, `RefundProcess`, `WorkerCrash`, `EarningsAvailable` |
| `calculateBps`, `transitionIntentStatus`, `assertRefundAllowed` | `calculateBps`, `MayMoveIntent`, `Refundable` |

`driverDecideBooking` APPROVED changes nothing without the status `PENDING_CONFIRMATION`, which nothing produces, and
REJECTED calls `cancelBooking` as DRIVER, so that `CancelBegin` covers it; `BookingDesk` has both. A driver who
has the right code or PIN boards a passenger in `TripOperations`; how codes and attempts work is
`OneTimeCodes`. There `Versioned` tells a parcel (whose row has a version) from a booking (which is
updated by id).

## 3. The runs

`Symmetry` permutes bookings, requests, seats, payouts and, in `Services`, whatever `a…`, `k…` and `r…` stand for, which
no definition tells apart; runs with liveness properties go without. `CHECK_DEADLOCK FALSE` because the model really stops when every booking key is
used up and no request is open: that is the bound, not the system.

### Runs that pass

* **`SeatHolds_cancel_alone`** — two seats (a booking can take one or both), three bookings (a
  seat can pass to a second and third owner), two requests in flight, `Isolated = {"cancel"}`.
  `SeatOwnership`, `NoDoubleBooking`, `AvailabilityCount`, `BookingFollowsHold`, `HeldUntilHoldEnds` and the refinement `ImplementsAllocation`. Hold, retry, confirm, release and the
  three expiries overlap freely; a cancellation runs alone. `SeatHolds_double_cancel`
  below and the first case seen beside the runs show that this assumption is needed.
* **`SeatHolds_concurrent`** — nothing isolated, clients and admins cancel; one seat, two bookings, two
  requests, `FairSpec`. `TypeOK`, `HoldMatchesRows`, `ReadSeatsStayFree`, `HoldEndsOnce` hold all the
  same; these four are also proved, for any number of seats. `SeatNotHeldForever` and `LockReleased` need
  fairness: weak for time (the hold's expiry, the lock's TTL), for the end of a request (it commits or
  is aborted within five seconds) and for the repeated worker job, and strong for the expiry of one hold:
  the job is repeated for ever and every repetition lists the hold again, so it would have to be
  killed before the same hold each time. No request is assumed to come.
* **`TripOperations_one_at_a_time`** — every operation isolated: all *sequences* of operations. Two seats and two bookings (what the
  start's comparison of counts needs: one passenger who boards and one who does not), with one of three sets of operations
  (`JourneyOfferVehicle`): all trip operations; or the routes that edit, publish, unpublish, cancel, block and unblock the trip, with its cancellation as an
  operation and its expiry; or publication and block with the review and the archive of the vehicle, and boarding. Supply routes begin up to `MaxVersion = 3`,
  which is enough to publish, sell, cancel and publish again. All together are more states than a run can have, and are covered by the theorems. `TripStateAgrees` (`SupplyTypeOK`, `SeatMapAgrees`): until the trip is
  cancelled. `PassengersFollowTrip`: nobody has a live booking on a trip that was `calledOff`, not even when it is blocked, unblocked or published
  afterwards, and `PassengersVerified`. It does *not* say that a cancelled trip has no passengers: the supply route leaves them on it (section 3, below).
  `SupplyKeepsPromises` (`SoldSeatsStayTaken`, `ArchivedVehicleIsIdle`). `EndedTripIsNotSold`: which steps lead out of CANCELLED (publish, block) and of EXPIRED
  (block, cancel), and that a trip that was ever cancelled takes no new hold.
* **`TripOperations_concurrent`** — one seat, one booking, one parcel, two requests, nothing isolated. Two sets of
  operations (`BlockedOrExpired`): start boarding, start, complete, cancel and the admin's block, which begins before boarding (`MaxVersion = 1`) and commits at any time, under way too; or start boarding and the
  worker's expiry. The other operations and supply routes overlapping these are left to the theorems, which have them all.
  `OperationsFollowTable`: the version
  compared by `transitionTripStatus` keeps two operations and the worker from moving the trip along
  an arrow that its status does not have. `ParcelsTravelWithTrip`: parcel routes, parcel expiry, trip
  operations and the block interleave, and no parcel is in transit, ready or delivered unless its trip was started; a block may have taken the trip away since.
* **`Services`** — twenty-one components; each property is named for a promise and made of named parts:

  | property | parts | instance |
  |---|---|---|
  | `DriversHold` | `ProfileFollowsApplication`, `ReviewedIsComplete`, `ApprovedAsSeen` | two sections, two requests |
  | `VehiclesHold` | `UsablePlatesDiffer`, `PrimaryIsUsable`, `ArchivedForGood` | two vehicles, two plates, two requests |
  | `RatingsHold` | `OneReviewPerAuthor`, `PostedOnce`, `RatingIsCurrent`, `RatedAfterTravel` | two authors, two keys, two ratings |
  | `MessagesHold` | `SentOnce`, `ReceiptsFollowReading`, `DeletedStaysHidden` | one message (a second adds an order only), two requests |
  | `TicketsHold` | support: `HistoryLeadsToStatus`, `ClosedIsFinal` | one ticket, two requests |
  | | desk: `AssigneeTakesPart`, `PageIsConsistent` | two agents, two assignments (a reassignment), two requests |
  | | bookings: `CancellationExplained`, `PagesKeepUp` | one booking, three roles, two requests; a role asks again once (`MaxCancellations`) |
  | `UserIsKnown` | sessions: `OneAccount`, `LoggedOutForGood`, `CookieIsCurrent` | two sessions, three tokens each, two requests |
  | | profiles: `ChoicesKept` | two languages, two themes, two sets of details, two saves |
  | | users panel: `DetailIsListed` | two users, two requests |
  | `PublicationReaches` | catalogue: `TripCanBeFound`, `RouteIsListed` | two cities, two routes, one trip |
  | | waitlist: `CancelledEntryStays`, `MatchesAreAnnounced`, `OneMatchPerEntry` | two entries, two trips, two requests |
  | | favourites: `FavouritesAreWanted` | two trips, two publications at once |
  | `RewardsHold` | `RewardedOnce`, `EvaluationAgrees`, `MilestoneHasBonus` | two trips, two requests, target 1 (reached, lost and reached again) |
  | `TravellersAreSafe` | safety: `ReportedOnce`, `ResolvedIfSettled`, `LimitsKept` | two contacts allowed, two requests |
  | | locations: `PointsAreSpaced`, `TrackedWhileUnderway` | three instants, an interval of two, three points |
  | | shares: `SharesEnd` | two links, two views each, two viewers |
  | `CodesHold` | `CodesTypeOK` (which bounds `attemptsCount`), `ChangesHandsOnce` | three codes of a parcel (two replacements), two attempts |
  | `FilesHold` | `DocumentsHold`, `PhotosWithinLimit` | three files, one photo allowed, two requests |
  | `ClientFindsSeats` | search: `PagesCover`, `PagesAreOrdered` | three trips, pages of one, one change; departures 20 and 36 are in and out of the night window |
  | | booking page: `RequestIsAccepted`, `FreeSeatsAreDrawn` | both cabins, all clicks, the page's own data |

  Two requests in flight are what a race needs in each of them: no transaction here has more than one read
  before its writes, so that a third request could only repeat what the second one does to the first.
* **`Payments_capture`** — two payments of one booking (the second after the first expired, or both at
  once), one refund, two payouts, two requests in flight. `PaymentStateAgrees` (`PaymentsTypeOK`, `LatePaymentTakesNoSeat`),
  `CapturedOnce`, `LedgerOwesUnpaidEarnings`, `EarningClaimedOnce`. Two requests are what it takes to have a webhook overlap
  another one or the expiry; two payouts, to have one ask for the other's earnings. `LatePaymentTakesNoSeat` is what is kept of
  the seats although an intent, or a capture, may come after the hold has ended.
* **`Jobs`** — what the repeated jobs finish in the end, with requests coming and workers being killed. Payments (one
  payment, two refunds, no payout): `RefundsCarriedOut`, `OnlinePaymentResolved`. Notifications (two keys):
  `AnnouncedOnce` and `DeliveredInTheEnd`. Restrictions (two of one
  account): `RestrictionsRunOut` (`ExpiryNotRepeated`, `RestrictionExpires`, `LevelFollowsRestrictions`). A passenger's code or
  PIN, with at most `MaxMishaps = 3` answers lost, codes replaced or lapsed early: `PassengerGetsCode`. Its fairness is weak: the passenger
  asks again, an answer comes in the end, codes lapse (`NewestLapses`) and the passenger shows the driver what it knows.
  Weak fairness for the end of a request and for the beginning of a job, which is queued every 60 s
  (`apps/worker/src/main.ts:485-510`); strong fairness for the steps of a job: it is repeated for ever and lists what is
  left, so it would have to be killed at the same place each time. No request, and no death of a worker, is assumed.

### Runs that find a violation

Each checks one sentence of the documentation against the code.

| run | property | what happens |
|---|---|---|
| `SeatHolds_double_cancel` | `AvailabilityCount` | two overlapping cancellations of one booking both add its seats to `availableSeatCount` |
| `TripOperations_start_unresolved` | `StartResolvesPassengers` | the start compares how many bookings are BOARDING with how many have an OCCUPIED seat; a booking confirmed during boarding is neither |
| `TripOperations_no_show_parcels` | `ParcelsCancelledWithTrip` | no-show-driver cancels the trip without its parcels |
| `OneTimeCodes_never_locked` | `ExhaustedCodeLocked` | the exception of a wrong attempt rolls back the counter and the lock |
| `Payments_over_refund` | `RefundsWithinPaid` | two refunds requested before the worker runs both fit what is refundable, and the worker carries out both |

Seen while modelling, checked with TLC on the side, and not a run of its own:

* a cancellation that read a booking in HOLD commits after the hold expired and another booking took the
  seat, and frees the other's seat (`main.ts:5498`, against `booking-seat-holds.md:15`): with
  `Isolated = {}`, `HeldUntilHoldEnds` of `SeatHolds` fails;
* two overlapping requests both board with one boarding code (`main.ts:3780`, against "single-use" in
  `docs/api/trip-operations.md:29`);
* a captured payment books `BookingSeat` and confirms the hold but leaves `TripSeat` HELD and
  `availableSeatCount` as it was (`main.ts:9520`, against `booking-seat-holds.md:15`);
* a webhook FAILED that read the intent before a SUCCEEDED one committed overwrites its status afterwards, and
  a cash settlement CONFIRMED is overwritten by a DISPUTED in the same way (the captured payment stays);
* a payment the worker expires between the read of `markPaymentSucceeded` and its write ends SUCCEEDED
  (after a webhook for an intent that is final already, which the worker does not lock);
* two intents with different keys create two payments of one booking; an intent that read the booking
  before its hold expired makes the booking PAYMENT_PENDING or CONFIRMED again (`main.ts:9617`); after a CASH
  intent the booking is CONFIRMED, so that confirming the hold does nothing and the hold then expires;
* no-show-driver sets CANCELLED from every status, COMPLETED included (`main.ts:11252`);
* the operations worker sets EXPIRED by id although the trip may be boarding by then
  (`worker/src/main.ts:138`);
* `startBoardingTrip` turns a booking that was cancelled in the meantime back into BOARDING
  (`main.ts:3712`);
* a trip that is published again gets its whole capacity as `availableSeatCount`, although seats are booked
  (`main.ts:6220`, against `docs/runbooks/booking-seat-holds-troubleshooting.md:13`);
* an edit that overlaps a publication edits a published trip (`main.ts:6125`, against
  `docs/architecture/trip-supply.md:18`);
* `POST /trips/:tripId/cancel` (`main.ts:6288-6325`) leaves the live bookings and the parcels on the cancelled trip; `publish` takes it back to
  PUBLISHED (`:6183` asks for nothing but a status other than PUBLISHED) with these bookings on it, which may then board and travel; `cancelledAt` stays, so that no
  booking route accepts it. An expired trip is published no more while its departure is past (`:5678`), but a block and an unblock take it to
  UNPUBLISHED, from where an edit of the departure leads on;
* `block` (`:6756`) and `publish` (`:6213`) take a trip out of IN_PROGRESS as well, whose parcels stay IN_TRANSIT and whose bookings stay IN_PROGRESS;
* a decision about a driver's application that overlaps another takes it along an arrow that its status does not
  have (against `docs/architecture/driver-verification.md:7-15`);
* two posts of one author that overlap create two reviews, since the unique index contains NULLs, and two
  transactions that recompute one rating each miss the other's review;
* a reply that overlaps the closing of a ticket takes it back to IN_PROGRESS;
* two publications that overlap match one waitlist entry twice; a referral that is registered again goes from
  REWARDED back to REGISTERED; a review of a reward does not touch the progress of the milestone, which is what was counted before
  until the next completion;
* two additions that overlap exceed the limit of trusted contacts by one;
* the job may set EXPIRED what was revoked since it was listed (`apps/worker/src/main.ts:310`);
* two uploads of one document that overlap both stay current; a photo of a parcel may be added in any status of it;
* two position reports that overlap are both stored, closer than the interval; the history that gives
  all its points to whoever once booked it (`main.ts:10853`) is registered second under its path and never reached;
* a view of a shared trip that overlaps its revocation still shows it.

Read in the code while modelling, part of the models and contradicted by no document:

* every login overwrites the display name and the user's language with Telegram's (`serializeUser` prefers the preference, so
  the language survives); saving a profile panel switches `notificationsEnabled` on again, and the driver's panel resets marketing consent;
  an answer that arrives after a logout shows the user again; launch data may be sent again while it is fresh;
* a first favourite that is posted with `notificationsEnabled: false` is created enabled;
* of two price limits only the upper one is applied (`main.ts:2877`);
* the second step of the booking page does not look at the seats again, so seats that were changed there may not fit the request;
* PATCH of a route does not require two different cities; switching a city or a route off leaves its published trips on sale; `GET /routes`
  lists routes of cities that are switched off;
* the request for a boarding code answers without a plain code while one is active, and the start of boarding makes every code active without
  showing it: the passenger has to ask for a new one. A PIN has no route for that and can only lapse;
* the notification of a chat message keeps its text when the message is deleted; a deleted message may still be edited and reported;
* a payment intent takes a COMPLETED booking out of COMPLETED: POST of a review is then refused and PATCH is not;
* a review that is reported keeps counting until something else of that user is written.

`EndedTripIsNotSold`, `PassengersFollowTrip`, `ParcelsTravelWithTrip`, `OperationsFollowTable` and the parts that begin with an `…Alone` are worded so
that they say what is true beside these.

Every property of a passing run has a mutant: a changed definition, kept beside the right one
and marked `(mutant)`, with which TLC finds the property violated.

## 4. The proofs

Every theorem is about a specification that TLC runs, for every value of the constants that the
assumptions of its modules allow.

| theorem | module | statement |
|---|---|---|
| `TypeCorrect` | `SeatHolds_proofs` | `Spec => []TypeOK` |
| `HoldsMatchRows` | `SeatHolds_proofs` | `Spec => []HoldMatchesRows` |
| `ChosenSeatsStayFree` | `SeatHolds_proofs` | `Spec => []ReadSeatsStayFree` |
| `HoldsEndOnce` | `SeatHolds_proofs` | `Spec => HoldEndsOnce` |
| `NobodyDoubleBooked` | `SeatOwnership_proofs` | `Spec => []NoDoubleBooking`, if `"cancel" \in Isolated` |
| `SeatMapIsRight` | `SeatOwnership_proofs` | `Spec => []SeatOwnership`, if `"cancel" \in Isolated` |
| `CountIsRight` | `SeatOwnership_proofs` | `Spec => []AvailabilityCount`, if `"cancel" \in Isolated` |
| `HeldSeatsStayHeld` | `SeatOwnership_proofs` | `Spec => HeldUntilHoldEnds`, if `"cancel" \in Isolated` |
| `BookingsFollowHolds` | `SeatOwnership_proofs` | `Spec => BookingFollowsHold`, if `"cancel" \in Isolated` |
| `SeatHoldsImplementAllocation` | `SeatOwnership_proofs` | `Spec => ImplementsAllocation`, if `"cancel" \in Isolated` |
| `OperationsKeepTable` | `TripSupply_proofs` | `SupplySpec => OperationsFollowTable` |
| `ParcelsFollowTrip` | `TripSupply_proofs` | `SupplySpec => []ParcelsTravelWithTrip` |
| `StateAgreesAlone` | `TripSupply_proofs` | `SupplySpec => []TripStateAgrees`, if `OneAtATime` and `SuppliedAlone` |
| `PassengersFollowAlone` | `TripSupply_proofs` | `SupplySpec => []PassengersFollowTrip`, if `OneAtATime` and `SuppliedAlone` |
| `EndedTripIsNotSoldAlone` | `TripSupply_proofs` | `SupplySpec => EndedTripIsNotSold`, if `OneAtATime` and `SuppliedAlone` |
| `SupplyKeepsItsWord` | `TripSupply_proofs` | `SupplySpec => []SupplyKeepsPromises`, if `OneAtATime` and `SuppliedAlone` |
| `PaymentsTypeCorrect` | `Payments_proofs` | `Spec => []PaymentsTypeOK` |
| `PaymentsCapturedOnce` | `Payments_proofs` | `Spec => []CapturedOnce` |
| `EarningsClaimedOnce` | `Payments_proofs` | `Spec => EarningClaimedOnce` |
| `LatePaymentsTakeNoSeat` | `Payments_proofs` | `Spec => []LatePaymentTakesNoSeat` |
| `PaymentStatesAgree` | `Payments_proofs` | `Spec => []PaymentStateAgrees` |
| `LedgerOwesDriver` | `Payments_proofs` | `Spec => []LedgerOwesUnpaidEarnings` |
| `AnnouncementsMadeOnce` | `Jobs_proofs` | `JobsSpec => AnnouncedOnce` |
| `DriversAreVetted`, `VehiclesAreReviewed`, `RatingsAreTrue`, `MessagesAreAccounted`, `TicketsAreConsistent`, `UsersAreKnown`, `PublicationsReach`, `RewardsAreConsistent`, `TravellersStaySafe`, `FilesAreKept` | `Services_proofs` | `ServicesSpec => []DriversHold`, and so on in the order of the table of section 3 |
| `ClientsFindSeats` | `Services_proofs` | `ServicesSpec => []ClientFindsSeats` |
| `CodesMoveOnce` | `Services_proofs` | `ServicesSpec => []CodesHold`, if `Versioned`, as in the run |

Assumptions on the constants are those of the modules: sets whose sizes are compared or counted are finite (seats, payments,
payouts, trips of a search, requests where a limit counts them), the values that stand for "none" are not members, actors are the three roles,
the amount is at least 2, bounds are natural numbers. `OperationSets` and `MaxVersion` may be anything: with all operations and no bound the theorems are about all there is. TLC evaluates each of them on a run.

### Seats

The first four theorems hold for every `Isolated`, so for the booking routes and their worker as they are; the payment routes, which write
`Booking`, `SeatHold` and `BookingSeat` as well (a captured payment, an intent), are left out here (section 3, seen beside the runs, and `Payments`). The others about seats say what
the code would guarantee if a cancellation overlapped no other request, and `SeatHolds_double_cancel` and
the stale cancellation of section 3 show that they fail without that.

Of the invariants only `TypeOK` is inductive, since a commit writes rows chosen by its begin. The inductive
invariant `HoldInv` is the conjunction of `TypeOK` and

* `LockedWhileHolding` — a hold request in flight owns the lock, so there is at most one;
* `TxOK` — what a request has read still means something: claimed holds are still ACTIVE, only hold
  requests claim, the booking of a confirm or release still has the items that were read, its hold exists;
* `RowsOK` — `HoldMatchesRows`, row by row;
* `Started` — a booking exists exactly when its hold does (a cancellation looks at the booking and
  writes the hold);
* `ChosenFree` — a chosen seat is AVAILABLE, or HELD by a hold the same request has claimed.

The argument that carries it: a row that a hold request has claimed is locked, so a commit of another
request does not touch it (`UnclaimedBooking`), and therefore neither ends a claimed hold nor
books a chosen seat. Each operation has a lemma (`HoldCommitKeeps`, `ConfirmCommitKeeps`, ...); releases
and expiries share `ReleaseKeeps`, steps that leave the tables alone `IdleKeeps`, begins `BeginKeeps`.

`OwnInv` adds `SeatsOK` (`TripSeat` says what the owner's row says, and only then), `NoDoubleBooking` and
`CancelOK` (what a cancellation has read is still so, because nobody else is in flight). A hold request
then takes free seats only: a chosen seat is AVAILABLE, hence nobody's, or held by a claimed hold, which is its
only owner and is expired by the same commit. The count follows from the cardinality theorems of finite sets.
`HeldSeatsStayHeld` is an action property of `OwnInv`: whoever writes a HELD seat ends the hold that is its owner. For
`BookingsFollowHolds` two more facts are invariant: a booking's status is the one its hold gives it
(`BookingMatchesHold`), and a cancellation in flight has read a booking that is still living (`CancelsLiving`).

The refinement maps a seat's owner to the one booking with a live row for it, and a booking's phase to the
state of its hold (`OwnerIsRead`, `PhaseIsRead`). Expiry and release map to `GiveBack`, hold to `Hold`, confirm to
`Book`; a cancellation maps to `GiveBack`, to `Cancel` or, for a booking that is over, to a stutter.

### The journey of a trip, and its supply

All six theorems are about `SupplySpec`, with every supply route in it. `OperationsKeepTable` and `ParcelsFollowTrip` hold whatever overlaps. Their
invariant, `JourneyInv`, is about versions: an operation in
flight that has read version *v* of the trip has read the status the trip has as long as the version is *v* (`TripRead`).
`TripRowStep` says that every step, of whatever route, writes the status only together with a new version, and writes BOARDING, IN_PROGRESS or COMPLETED only
along the table: the supply routes write the other statuses, from whichever they like (an unblock in flight has read DRAFT or UNPUBLISHED as its target,
`Unblocked`). So the compare-and-set of `transitionTripStatus` finds the status it was decided on. A parcel moves to
IN_TRANSIT in the step that starts the trip or, when the start is retried, on a trip that read as IN_PROGRESS and hence was `started`; and what has been started
stays so, wherever the trip is taken.

The other four are about sequences: `OneAtATime` says that the booking routes and the trip operations are in `Isolated`, `SuppliedAlone`
the same of the supply routes. The races seen beside the runs (section 3) are why. `AloneInv` has

* `TripTyped`, and `RowsInv` (types, `RowsFollow`: which seat rows a booking, its hold and its status go with, `OneOwner`, `Verified`);
* `Serial` — at most one isolated request is in flight, and `Reading`: what it has read is what the tables still say;
* `SeatMapRight \/ Closed` — the seat map is what the rows of living bookings say, or an operation has emptied it and no booking lives. It is the
  disjunction that is inductive, since a trip the supply route has cancelled keeps its bookings and its seat map.

`SupplyInv` adds that the map is right unless the trip was cancelled, what the trip remembers of its end (`EndKept`: a trip that was called off is `Closed` for good,
since it was cancelled and therefore takes no hold that could live), what publication, archiving, unblocking and a hold have read
(`SupplyRead`) and `ArchivedVehicleIsIdle`. `OpStep` states once how any step of bookings, operations or worker changes
trip and seats, so that the steps of `TripSupply` are a case each beside it.

### Payments

`Payments_proofs` rests on the invariant `CaptureInv`: `PaymentsTypeOK`, `CapturedOnce`, `RefundsOfCaptured`
(what a refund, or a refund request in flight, names is captured, so that processing it does not
*make* a payment captured) and `ClaimedEarnings` (an earning in a payout is ON_HOLD or PAID, so that PAID
never gives an earning to a payment that has none). The heart is `MarkKeeps`: whatever
`markPaymentSucceeded` read, it either leaves the payment alone or finds no earning, hence a
payment that is not captured and a ledger key that is not used. That a second capture is stopped by the
*unique* earning of a payment and not by the status it read is what makes it safe against stale reads.
`ClaimKept` gives the action property.

`LatePaymentTakesNoSeat` follows from `SeatsAsHeld`: while the hold is ACTIVE both tables say HELD, and `ConfirmPaidBooking` books only rows that are
still HELD, so a payment that is captured after the hold has ended finds none.

`LedgerOwesUnpaidEarnings` is about a sum, which `SumFunction` of the community modules takes by a fold over the payouts. The library's
induction theorems have an operator as a parameter, which the provers cannot instantiate; `NatSetInduction` and
`FiniteSetInduction` are the same statements with a *set* in place of the predicate, from the least element of a well-founded relation
(`WFMin`, `NatLessThanWellFounded`). With them the fold has a solution for every finite set (`SumStepExists`), and changing one
summand changes the sum by the difference (`SumChanges`). `LedgerInv` then says that a payout's gross is what its earnings are
worth (`PayoutsOK`: the admin was shown it, and the earnings it claimed are nobody else's), that an earning is PAID exactly if its payout was posted (`EarningsOK`),
and that what was posted for payouts adds up to the PAID earnings (`PaidAsPosted`). The hard step is a payout
that is paid again after it was called FAILED: `LedgerPost` finds its key used and posts nothing, and there is nothing to post, since the other statuses are
written in the payout's row only and no other payout can have taken the earnings (`PayoutPaidBalances`, `PayoutUnpaidBalances`).

### Notifications

`NotificationsInv` says that a delivery that is listed is PENDING, that what was sent has one attempt and at most one event, and that no two deliveries
are under way between the update and its event (`DeliveriesFollow`); `ArchivedIsSeen`, that what is archived is not UNREAD. A worker that is
killed forgets its list and no more, and the next list holds PENDING deliveries only.

### Services

`ServicesInv` says of the part that is there that its own inductive invariant holds; `ServicesKeepInvariants` proves it once and the
theorems read their property off it. An invariant of a part says, besides the types,

* what holds whatever overlaps: a unique index or a key that is used up carries `SentOnce`, `RewardedOnce` and `UsablePlatesDiffer`,
  a condition in the write itself the codes;
* what each request in flight has read, and that nothing since has made it untrue — or, of a part with an `…Alone`, that nobody else is
  in flight and what it has read is still so (`OneDecides`, `TokenFlows`, `ProfilesAlone`, `DeskInOrder`, `CancelledOnce`);
* of limits that are counted before they are written, that what there is and what requests in flight may add are together bounded,
  by cardinality (`UploadsInv`, `LocationsInv`, `SafetyInv`).

Several need more than the property says. `DeskInv`: a page that has read the ticket names an assignee who takes part *already*, because
an assignment makes the participant in the transaction that names them, and no participant ever leaves. `BookingInv`: what a request has read of a booking
is at most as far as the trip is now, since trips only advance, so that a page's trip, read later, is as far as its booking; and a booking that reads as
cancelled had its cancellation written by the same commit.

The search (`SearchInv`) counts places: `Place(t)` is how many matching trips come before *t*. The order is total, so that a sorted result has
every trip at its place (`SortedByPlace`), and the page read next is the trips of the next places (`PageOfPlaces`). A change of one trip moves every
other by a place at most (`ChangeShifts`), so that one trip at most slips over the place up to which pages were read, in either
direction: those missed, and those that are repeated or will be, are no more than the changes (`Missed`, `Repeated`). Without a change, what was found is
what stands at the places read.

The booking page (`PageInv`): the seats chosen are free, each is there once, and there are no more passengers than free seats. `filter` is written as a recursive
function, because `SelectSeq` has no definition the provers can use; `FilterKeeps` says for sequences of any length that
it leaves the members to keep, each once if each was there once, by `NatSetInduction` over the keys that were looked at. No layout lacks a
free seat (`LayoutHasFreeSeats`), so that what is shown as selected is what is asked for.

### Only model-checked

* Liveness: `SeatNotHeldForever`, `LockReleased` of `SeatHolds_concurrent`; `RefundsCarriedOut`, `OnlinePaymentResolved`, `DeliveredInTheEnd`,
  `RestrictionsRunOut` and `PassengerGetsCode` of `Jobs` (fairness and ENABLED are outside the prover).
* What the runs that expect a violation refute.

Every other property of a passing run is the conclusion of a theorem above: with the conditions given there, which are those of the runs.

## 5. Not modelled, and the plan

Not modelled and not planned: the pages of the web apps that present an answer or a fixed demonstration, the bots, route lookup,
ETA and prices (stateless queries), the UI components, generated clients and contracts, configuration, logging, storage and map adapters,
the catalogue of vehicle makes, seeds and acceptance scripts of the database, audit and analytics rows, which nothing reads to decide.

Left out of modelled components:

* bookings and operations: the completion summary; `take` limits of lists;
* parcels: editing a draft, issue reports, payments of parcels;
* finance: reconciliation runs, analytics;
* supply: stops, templates and recurrences, regions and pickup points, a change of the capacity; nothing in the code keeps
  two trips of one vehicle from covering the same time;
* chat and support: attachments, service-level events;
* trust and safety: moderation cases and appeals, emergency actions (`:9058`), assignment of reports, incidents;
* rewards and waitlist: draws and their tickets; the sums shown of the newest 100 rewards;
* sessions: access tokens, which are not stored and live until they lapse, and the guards of routes by role;
* booking page: preferences, comments, pickup and schedule, which are independent fields of the request.

Of stale bookings in `startBoardingTrip` (`:3712`), `BookingDesk` says what is kept all the same; of an intent for a booking whose hold is over
(`:9617`), `LatePaymentTakesNoSeat`: the status of the booking is wrong then, its seats are not. One boarding code used twice (`:3780`) and
a captured payment beside the seat map (`:9520`) are what the code does (section 3, seen beside the runs). That a second publication writes the whole capacity (`:6220`) is outside
`SupplyKeepsPromises`, which is about the seats themselves.

The plan, most important first; 1 to 8 are done:

1. `SeatAllocation`, `SeatHolds`, its proofs; `ParcelLifecycle`, `TripOperations`; `OneTimeCodes`.
2. `Payments` and its proofs.
3. `TripSupply` with bookings and operations.
4. `DriverVerification`, `Vehicles`, `Sessions`, `Conversations`, `SupportTickets`, `Reviews`, `Safety`, `Waitlist`, `Rewards`.
5. `Notifications`, `Restrictions`, `PassengerCodes` and the jobs.
6. `TripLocations`, `TripShares`, `Profiles`, `Favourites`, `Uploads`, `Search`, `BookingPage`, `Catalogue`, `UsersPanel`,
   `TicketDesk`, `BookingDesk`.
7. Proofs: the seats, the journey of a trip, its supply, the services.
8. Proofs: the ledger, late payments, notifications, the search and the booking page.
9. Composition of `Payments` with `SeatHolds`, in place of the single steps of the booking routes.
