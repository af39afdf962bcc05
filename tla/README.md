# Concert reservation service: TLA+ verification

Models, model-checking runs and machine-checked proofs for the NestJS service
in `src/src`: a migration seeds concerts and seats, users wait for a token,
reserve a seat of a concert for five minutes, charge a balance and pay with it. The models are written from the
code; where the documents of `src/docs` or the tests say something else, a run
shows the difference (see *Disagreements*).

## 1. Inventory of the system

One Node.js process (or several, for the lock managers), one Redis, one
PostgreSQL at its default isolation, READ COMMITTED. Within a process
concurrency is that of `await`: between two awaits a handler is not
interrupted. TypeORM's `save` of a loaded entity is a write of absolute values.

| Component | State | Operations | Interacts with |
|---|---|---|---|
| Wait lock (`redis-wait-lock.manager.ts`) | sorted set of request ids by `Date.now()`, lock key with TTL, a channel per request | `withLockBySrc` | Redis; used by payment and balance, per user |
| No-wait lock (`redis-nowait-lock.manager.ts`) | lock key with TTL | `withLockBySrc` | Redis; used by `reserveSeat`, per seat |
| Reservation (`reservation.facade.ts`, `reservation.service.ts`, `seat.service.ts`) | tables Seats and Reservations | `reserveSeat`, `expireReservation`, `getAvailableSeats` | no-wait lock, scheduler, transaction and pool of TypeORM |
| Scheduler (`scheduler.service.ts`) | cron jobs in memory, lost on restart | add and delete a job | calls `expireReservation` |
| Payment (`payment.facade.ts`) | none of its own | `processPayment` | reservations, wait lock, balance |
| Balance (`balance.facade.ts`, `balance.service.ts`) | `Users.balance` | charge, decrease, get | wait lock (decrease only) |
| Waiting room (`queue.facade.ts`, `queue.service.ts`, `jwt.service.ts`) | Redis counter per concert; the tokens clients hold | `createToken`, `getQueueStatus`, the token check of `reserveSeat` | concerts, users, Redis; `reserveSeat` asks for a token with status APPROVED |
| Connection pool (of the data source in `orm.config.ts`) | connections in use | take, wait, give back | every query; transactions keep theirs |
| Deployment (`docker-compose.yml`, `seed-setup.ts`, `main.ts`) | tables, the record of the migration, the container | migrate, seed, start, stop | the application serves only after it |
| Concerts, users (`concert.service.ts`, `user.service.ts`) | rows that do not change | look-ups; `validateUserById` is not awaited | all facades |
| Events, HTTP, configuration, logging | nothing that changes | formatting, logging | |

What is hard in each, and what makes it correct:

- **Wait lock.** The head of the queue is looked at once and SUBSCRIBE is not
  awaited; GET and DEL of the release are two commands; scores are
  milliseconds that tie; the five commands of `finally` are skipped after the
  first that fails; crashes leave queue entries without a TTL. Correct means:
  operations do not overlap, a lock is released by its owner, requests are
  served in order, nobody is refused or forgotten.
- **Reservation.** Two checks are started and not awaited, and their rejection
  ends the process; the seat row is looked for and created in two statements,
  outside of the transaction and without a constraint; the seat is marked on
  another connection than the reservation is inserted on; the expiry job is
  scheduled before COMMIT, lives in memory, takes no lock and writes two rows.
  Correct means: one row per seat, one reservation per seat, a pending
  reservation has its seat and its five minutes, an answer is true, and an
  unpaid seat comes back.
- **Payment.** Money, reservation and expiry job are read and written in
  separate statements that do not look at each other. Correct means: what is
  completed was paid, what is paid stays sold, no seat is sold twice.
- **Balance.** Charge reads and writes without the lock decrease takes.
  Correct means: no update is lost, no user ever owes.
- **Waiting room.** Positions come from a counter that is incremented before it
  is known that the call will succeed; cycles are a rounding; a poll compares
  the turn with a clock it read before two queries, and polls of one client may
  overlap; expiry is rounded to
  seconds. Correct means: no position twice, a full and exact share for every
  cycle, nobody told too early, or told and then, asking again, told the
  contrary, no token that lapses in the queue, everybody who polls told, and a token that opens
  `reserveSeat` when its turn has come.
- **Connection pool.** `reserveSeat` asks for a second connection while its
  transaction holds one. Correct would mean: transactions do not wait for each
  other, and every request is answered. They can (`server_dry`); what is left
  is that only as many seats being reserved at once as there are connections
  bring it about, and that nothing less stops the server.
- **Deployment.** Thousands of statements, and containers that stop between any
  two of them. Correct means: the application only serves when every concert
  has every seat, and starting again always helps.

## 2. Modules

```
Mutex <── implemented by ── WaitLock   (MCWaitLock, WaitLockProofs)
  ^  ^                          ^ EXTENDS
  |  |                      LockedWallet ── implements ──> Wallet
  |  |                          (MCLockedWallet, LockedWalletProofs)
  |  ├── implemented by ── NoWaitLock
  |  |                        ^ EXTENDS
  |  └── implemented by ── Booking      (MCBooking,   BookingProofs)
  |                           ^ EXTENDS ── Server   (MCServer, ServerProofs)
  | INSTANCE                  ^ EXTENDS
Wallet (MCWallet, WalletProofs) <── EXTENDS ── Payment (MCPayment, PaymentProofs)

WaitingRoom (WaitingRoomProofs) <── EXTENDS ── Service ── EXTENDS ──> Deployment
                                    (MCService, ServiceProofs)
```

| Module | What it models | Correspondence |
|---|---|---|
| `Mutex` | what an `ILockManager` promises for one resource: operations one at a time, each at most once | `phase` of each call |
| `WaitLock` | `RedisLockManager.withLockBySrc` | one action per Redis command; `pc` is the command a request awaits, `queue`, `lock`, `woken` are Redis, `stamp` the score |
| `NoWaitLock` | `RedisNoWaitLockManager.withLockBySrc` | `lock` is the key per seat, `at` the position of each call |
| `Booking` | `reserveSeat`, the expiry jobs, the un-awaited availability check, what `getAvailableSeats` lists | one action per statement; `seat` and `res` are the tables, `left` the time to `payment_deadline`, `expiry` the scheduler's job and how far it is, `check` the query nobody awaits, `answer` what the client is told on release |
| `Server` | `Booking` on the process's pool of database connections | `conn` is the set of requests whose transaction holds a connection; an action of `Booking` that needs another waits until one is free, `PoolDry` is when all wait for each other |
| `Wallet` | `decreaseBalance` and `chargeBalance` on one user, with the promise of the lock | `move` is the statement each call awaits, `seen` the balance it read, `phase` what `Mutex` knows of a call |
| `LockedWallet` | `decreaseBalance` with the commands of its lock, on several instances: the requests of `WaitLock` are the uses of `Wallet` | a request at "operate" is in BalanceService's transaction; `UsePhase` says what `phase` of `Wallet` is |
| `Payment` | `processPayment` on the reservations of `Booking` and the wallet of `Wallet`, charges among its calls, one process for all of them, and the look-up of unknown users that ends it | `pay` is the position, `recheck` the availability check that is not awaited |
| `WaitingRoom` | `createToken`, `getQueueStatus`, the token check of `reserveSeat` | `counter` is Redis, `token` what each client holds, `now` the clock each poll under way has read, `told` the statuses a client was told, in whatever order; `heard`, a history variable, the polls begun by who had been told to be available. The server is stateless between calls, so several polls of one client (`PollOf`) may be under way, and answers overtake each other |
| `Deployment` | `docker compose up`: the migration of `seed-setup.ts`, then the application | `db` is what is committed, `draft` what the migration's transaction sees, `phase` what the container is at |
| `Service` | the waiting room while, and only while, the deployed application serves | process and container die together; counters and tokens outlast them |

Conventions. A failing command is an action of its own: it spends a fault and
either executes the command or does not. A crash ends every handler and timer
of the process and leaves Redis and committed rows. An operator introduced by
"Mutant of X" is X with a plausible bug; no specification uses it. PROJECT.json
pairs every checked property with a mutant under which the same run fails.

Things a reader may stumble over:

- `ReadSeat`: the second check of `reserveSeat` (`checkSeatStatue`, line 67) is
  not awaited either. When the seat is taken the handler does not stop, but its
  rejection ends the process before the following INSERT can be committed,
  because nothing in the repository handles `unhandledRejection`; the model
  therefore lets the process die.
- A request's availability query may return when the request itself has
  already taken the seat; it then finds the seat taken and ends the process.
- A SUBSCRIBE, or the connection made for it, that fails is awaited by nobody
  (`redis-wait-lock.manager.ts:104`, `redis.repository.ts:69`): its rejection
  ends the process, and so is the `Crash` of the instance in `WaitLock`.
- `MarkSeat` is `findOne` and `save` of `seat.service.ts:48-58` in one, in
  requests and in jobs: the columns a seat's row is loaded and saved with never
  change but for its status, which is overwritten whatever it was.
- `Booking` takes every token as valid, as if the waiting room let requests in.
- `verifyConcert` and `getConcertById` compare a promise with null and so never
  throw: for an unknown concert `verifyConcert` does nothing at all, and
  `getConcertById` returns null, which `createToken` notices only when it has
  taken a position.
- `getAvailableSeats` only reads; `Booking` has it as the set `Offered` of what
  it may list in a state. `reserveSeat` never sees seat numbers outside of
  1..50, which the request's DTO refuses.
- In `Server` a transaction that waits for its second connection keeps the
  first one and its lock. `getOrCreateSeat` and `updateSeatStatus` are each one
  statement there, as in `Booking`: under the lock their two differ in nothing
  that is looked at, and neither holds a connection from one to the next.
- In `WaitingRoom` a createToken that fails is asked again by its client, with a new
  position if INCR had been executed. `ExpiresAt` is in seconds, `Second` ticks
  each, as is `exp` in a token; the second argument of `generateToken` has no
  effect since the payload has an `exp`.
- `Deployment` takes the migration as one transaction with its record, which
  is TypeORM's default; `migrate:up` uses `orm.config.ts` without synchronizing.
  The `UNIQUE (concert_id, seat_number)` of `seed-setup.ts:31` is not a
  constraint `Booking` can rely on: `synchronize: true` drops it when the
  application starts, as the entity does not name it, and
  `docs/step15.md:46` lists the table with its primary key only.
- In `Payment` a client pays only for a reservation it was told of, when the
  answer was `reserved` and had been sent; nothing keeps two clients from
  paying for the same one, and the model lets them.
- In `Wallet`, and so in `Payment`, the user's lock is the abstract `Mutex`.
  `LockedWallet` has the commands of the lock manager instead, and implements
  `Wallet` (`ImplementsWallet`): a call that dies in the queue asks for ever,
  one whose SET NX is refused is refused, and one whose release fails after the
  operation has ended has ended like any other. `WaitLock` sees of an operation
  only that it ends; `LockedWallet!Settled` ends it when its transaction has.

## 3. Specifications and their assumptions

| Name | Assumption | Where it comes from |
|---|---|---|
| `OutlivesTTL = FALSE` | an operation ends before its lock's TTL | the TTL is passed in seconds and amounts to hours |
| `OutlivesDeadline` | TRUE: a transaction may still be open when its five minutes are over; FALSE: it ends before. Liveness needs FALSE: a job that comes before its row finds nothing and never returns | a transaction of a few statements |
| `OrderedSpec`, `PromptSpec`, `OrderedLockedSpec` (`InOrder`) | requests enter the sorted set in the order of their scores | true on one instance unless two requests share a millisecond; otherwise a request may enter the queue ahead of the lock's holder, find itself the first, and be refused |
| `TimelySpec`, `PromptSpec` (`InTime`) | no notification is sent while its SUBSCRIBE is under way | not ensured by the code: `wait_lock_lost_wakeup` drops it |
| `PunctualSpec` (`Punctual`, `Apart`); `QuietSpec`, `QuietLockedSpec` (`Apart`) | payments begin and end before their deadline; a charge does not overlap another call on the wallet | not ensured by the code: `payment_late` and `wallet_charge` drop them |
| `PoolSize` | 2 in `server` and `server_dry`, as many as there are seats, so that the pool can run dry; any number in the theorems | the pool of the pg driver has 10 connections, waits for one without a time limit, and a seeded database has 1500 seats: ten transactions on different seats that have begun and look for their seats block each other for good |
| `Attentive` | clients that poll often enough: time does not pass the end of their token before they were told of their turn | the controller's comment: clients poll (`queue.controller.ts:29`) |
| `CheckedSpec` (`Checked`) | the availability check of a payment is answered before money is touched | not ensured by the code; it shows that awaiting the check would not help |

Assumptions on steps are conjoined to the next-state relation, so a safety
property under them says: as long as the assumption has held.

**Fairness.** Weak fairness of what a request or a job does on its own
(`Step(r)`; `RequestStep(r)`, `CheckReturns(r)`, `JobStep(r)`) and of `Tick`:
Redis and PostgreSQL answer, operations end, timers go off. Requests, faults
and crashes are never fair. In `Server` the process as a whole is fair: it goes
on as long as anything it has begun can, which is weaker than fairness of each
request and still enough, because requests do not wait in turns. In `Service`
attentive clients poll, each of their polls is answered, time passes, and somebody
starts the containers when they are down: compose has no restart policy, and a
process that died under nodemon waits for a changed file, so this is what the
operator does (`docs/how-to-start.md:21`). Under `OrderedSpec` and `PromptSpec` an assumption
can keep a step that the code would take from being one of the specification's.
Weak fairness of that step cannot be met while it stays enabled and is never
allowed, so such behaviours are excluded, not shown to make progress: those in
which a request waits for ever to be allowed to enter behind one that belongs
behind it. (A notification waits only for a SUBSCRIBE, which is fair itself.)

## 4. Runs

| Run | Specification | Instance and bounds | Shows |
|---|---|---|---|
| `locked_wallet` | `LockedSpec` | 2 decreases on 2 instances and a charge, a balance for one of them, 2 clock values, 2 failing commands or lost messages, a crash, database statements failing at will | types, release by the owner only, nothing left behind after faultless requests, implementation of `Wallet` by queue, key and transaction |
| `wait_lock_ordered` | `PromptSpec` | 3 requests on 2 instances, 3 clock values, no faults, no crashes; locks may expire under their holder | the queue alone implements `Mutex`; nobody is refused, overtaken or forgotten asleep; every request runs |
| `wait_lock_lost_wakeup` | `FairOrderedSpec` | the same, but locks do not expire | *violated*: a notification before SUBSCRIBE is lost and a request waits forever |
| `server` | `FairServerSpec` | 2 requests for a seat without a row, 1 for a seeded seat, 2 connections, no faults, no crash but those the code causes | the pool runs dry only by transactions on as many seats as it has connections, and stays dry until the process dies; otherwise every request is answered; every taken seat is watched; seats come back unless the process dies or the pool runs dry |
| `server_dry` | `FairServerSpec` | the same | *violated*: every request is answered — two transactions hold the two connections and each waits for another |
| `booking_rejected` | `FairBookingSpec` | the seats and requests of `server`, no faults, no crash but those the code causes | *violated*: seats come back — the process dies by an unhandled rejection |
| `payment` | `PunctualSpec` | 2 requests for a seat without a row, 2 payments of one reservation, a charge, balance for one of them, a fault, a crash; the deadline may pass before COMMIT, payments are over before it | types, mutual exclusion per seat, one row and one reservation per seat, booked seats, unpaid or paid, taken and not listed, true answers, implementation of `Mutex` by the lock and by the reservations of the seat, no early expiry; completed was paid, no debt, refusals are free, the balance moves by what is booked |
| `payment_expired` | `PunctualSpec` | no faults | *violated*: a paid reservation stays completed — its job expires it |
| `payment_late` | `CheckedSpec` | no faults | *violated*: no double booking — COMPLETED is written over EXPIRED |
| `wallet_charge` | `WalletSpec` | 2 uses, a charge | *violated*: the balance moves by what is booked — an update is lost |
| `service` | `FairServiceSpec` | 3 clients of a concert whose cycles admit 2, one of them a known user with two polls that may overlap; one client of an unknown concert; 4 clock values; a failing call or a crash; 2 concerts of 2 seats to seed | positions, cycles, turns, answers, expiry; attentive clients are told; the service is complete when it serves and always serves again |
| `service_gate` | `ServiceSpec` | the same | *violated*: who is told of the turn is let in — the new token is not returned, and none is ever approved |

The bounds. Three requests are the least with a holder, a head of the queue
and somebody behind it, and with two of them on one instance. Two are enough to
overlap, to take the other's lock and to wake each other, which is what can go
wrong between lock and balance; the unordered lock with three of them is the
matter of the theorems. Two requests for
one seat are what every conflict over a seat needs; the third of `server` and
`booking_rejected`, for another seat, is what two connections run dry with, and
there for the separation of resources. What `payment` shows of a single seat is
proved for any number. Two polls are what an answer needs to overtake another. One fault and one crash reach
each single failure at each step, and a failure before or after a crash; the
theorems are for any number. Three clients and cycles of two are the least with
a full cycle and somebody behind it; two ticks to the second and tokens of three
ticks let the rounding matter; two concerts with two seats make every loop of
the migration go round twice. `Window` is one tick: only whether the deadline
has passed is ever looked at. Deadlock is not checked because requests are
finitely many and the system stops when they are done; the one deadlock of the
code, a dry pool, is what `server` and `server_dry` are about.

## 5. Theorems

Proved with TLAPS for every set of requests, instances, seats, payments,
charges, clients and concerts, every calendar and every value of the bounds;
`~OutlivesTTL` is a hypothesis where noted. Constants are only assumed to be of
their types.

| Module | Theorem | Statement |
|---|---|---|
| `WaitLockProofs` | `Typing`, `Exclusion`*, `ReleaseIsOwn`*, `Refinement`* | `Spec` implies `TypeOK`, `MutualExclusion`, `OnlyOwnerReleases`, `ImplementsMutex` |
| | `OrderedExclusion`, `OrderedRefinement`, `OrderedNeverRefused`, `OrderedService` | `OrderedSpec` implies `MutualExclusion`, `ImplementsMutex`, `NeverRefused`, `ServedInOrder` |
| | `Leaves` | `Spec` implies `NothingLeftBehind`, whatever the order of arrivals and the TTL |
| | `Wakes` | `TimelySpec` implies `NobodyForgotten`, whatever the order and the TTL |
| `LockedWalletProofs` | `LockedIsLock`, `LockedTyping` | `LockedSpec` implements the `Spec` of `WaitLock` and implies `LockedTypeOK` |
| | `LockedRefines`*, `OrderedLockedRefines` | `LockedSpec`, and `OrderedLockedSpec` whatever the TTL, imply `ImplementsWallet` |
| | `LockedNoDebt`*, `LockedMovesExactly`* | and so have the theorems of `Wallet`: no debt, and exact moves under `QuietLockedSpec` |
| `BookingProofs` | `LockExclusion`*, `NoWaitRefinement`* | the no-wait lock excludes and implements `Mutex` on every seat |
| | `UsesNoWaitLock`, `BookingExclusion`*, `BookingRefinement`* | `Booking` uses the lock as `NoWaitLock` has it, and so inherits its theorems |
| | `BookingTyping`, `SeatIsOneRow`*, `NoSeatTwice`*, `BookedIsTaken`*, `AnswersAreTrue`*, `ListedIsFree`*, `FiveMinutes`* | `BookingSpec` implies `BookingTypeOK` and what `payment` checks of seats: `OneRowPerSeat`, `NoDoubleBooking`, `BookedSeatIsTaken`, `AnswerIsTrue`, `OfferedIsFree`, `NeverExpiredEarly` |
| | `LeasesSucceed`* | the reservations of a seat implement `Mutex` |
| | `SeatsAreWatched`* | with `~OutlivesDeadline`, `BookingSpec` implies `TakenSeatIsWatched` |
| `ServerProofs` | `ServerRefines`, `ServerTyping` | `ServerSpec` implements `BookingSpec` and implies `ServerTypeOK`, for a pool of any size |
| | `DryPoolTakesSeats`*, `DryPoolStaysDry` | `ServerSpec` implies `DryTakesSeats` and `DryForGood`, whatever the numbers of seats, requests and connections |
| `WalletProofs` | `WalletTyping`, `NoDebt`, `QuietMoves` | `WalletSpec` implies `WalletTypeOK` and `NeverOverdrawn`; `QuietSpec` implies `MovesExactly` |
| `PaymentProofs` | `PaymentsAreUses`, `PaymentsUseNoWaitLock` | `PaymentSpec` implements `WalletSpec` and the `LockSpec` of `NoWaitLock` |
| | `PaymentTyping`, `PaymentNoDebt`, `SoldIsPaid`, `RefusalsAreFree` | `PaymentSpec` implies `PaymentTypeOK`, `NeverOverdrawn`, `CompletedWasPaid`, `RefusedKeepsMoney`, punctual or not |
| | `PaymentMovesExactly`, `NoSeatSoldTwice`* | `PunctualSpec` implies `MovesExactly` and `NoDoubleBooking` |
| | `SoldIsTaken`*, `SoldIsNotListed`*, `PayersAreTold`*, `PaidFiveMinutes`*, `PaidLeasesSucceed`* | and what `Booking` promises of its seats: `BookedSeatIsTaken`, `OfferedIsFree`, `AnswerIsTrue`, `NeverExpiredEarly`, `SeatsAreLeased` |
| `WaitingRoomProofs` | `Typing`, `NoPositionTwice`, `NeverTooSoon`, `TurnStays` | `Spec` implies `TypeOK`, `PositionsUnique`, `ToldInTime`, `StaysTold` |
| | `SharesOfCycles`, `TurnsAreExact`, `TokensLast` | `Spec` implies `CycleShare`, `TurnIsExact`, `NoLapseInQueue` |
| `ServiceProofs` | `ServiceRefines` | `ServiceSpec` implements the `Spec` of the waiting room and `DeploymentSpec` |
| | `ServiceTyping`, `ServiceIsSeeded`, `ServiceKeepsTurns` | and so has the invariants of both, `ServiceTypeOK` among them |

(* with `~OutlivesTTL`.)

The arguments:

- *Wait lock.* `MutualExclusion` does not preserve itself: a release between
  GET and DEL could remove another's lock. The invariant is that who operates,
  or is about to send DEL, is the value of the key. In order, a second,
  independent invariant on the queue says that whoever is past its turn is the
  head of the queue, that nobody is notified but the head, and that a lock is
  held by the head; it needs no assumption on the TTL. Either of the two gives
  `EntersAlone`, who takes the lock finds nobody at work, which is all that
  the refinement of `Mutex` asks for.
- *Wake-ups.* `NobodyForgotten` is the safety core of `EveryWaiterServed`, and
  needs no order. It is inductive with `Arrives`: who has not sent ZADD is not
  in the queue. A sleeper becomes the head only when another leaves, which then
  reads the head behind its own ZREM and, with `InTime`, publishes only when
  the head listens; who enters ahead of a sleeper sees itself first and does
  not sleep, and has still to leave. What is left to liveness is that those on
  the way arrive.
- *Locked wallet.* Every step is one of `WaitLock`, or nothing to it, so that
  ownership, exclusion and order are inherited. It is also one of `Wallet`
  under `UsePhase`; `LockedInv` says that a transaction is under way only
  while its request operates, and that whoever has not come to the lock has
  not begun. The two refinements differ only in what gives `EntersAlone`: the
  key, as long as it does not expire, or the queue, as long as it is in order.
  The theorems of `Wallet` then hold of `Wallet` instantiated with `UsePhase`.
- *Booking.* The lock part is shown to be a `NoWaitLock` behaviour, which gives
  mutual exclusion for free. The invariant `BookingInv` then says where
  request, reservation and job of one id can be at the same time
  (`Positions`), and lets a reservation *claim* its seat until its job has
  given it back: claims exclude each other and show in the seat's row. This is
  why jobs need no lock: until the seat is given back, what they write is
  theirs. `Overdue` (what expires has no time left) gives the five minutes.
- *Wallet.* `Covered`: what is about to be written is what was read, and that
  covered the amount. For `MovesExactly`, `LockHeld` (a use in progress has the
  lock) and `Fresh` (what was read is still the balance when it is written),
  which needs charges to keep apart.
- *Payment.* Every step is a step of `Wallet` or leaves it alone, and a step of
  `NoWaitLock` or leaves it alone. `MoneyFirst`: who is about to complete has
  booked. `MoneyInTurn`: as long as nothing fails, who has not come to the
  money has no move, and who has been refused has none that was booked. `SalesInv`: the invariants of `Booking` survive COMPLETED as long as
  the reservation is not overdue, which is what `Punctual` says. What `Booking`
  promises then follows for reservations that are sold as it did for those that
  are not: COMPLETED is nothing to the tenure of a seat, and `Overdue` does not
  ask what was paid.

- *Nothing left behind.* `Clean`: without a fault or a crash, an id is in the
  queue only between its ZADD and its ZREM, and is the value of the key only
  while it operates or has yet to send DEL. Mutual exclusion is not needed.
- *Leases.* A request enters its lease by the INSERT. Since claims on a seat
  exclude each other after that step too, nobody else's was there before it.
  Every other step lets claims of the seat end or leaves them, all of them at
  once when the process dies, and that is what `Mutex!Finish` takes a set for.
- *Watched seats.* `TimersWait`: without faults and crashes a row that is not
  committed has time left, and its timer, once set, waits. It needs
  `~OutlivesDeadline`: a job that finds no row returns and does not come back.
- *Pool.* A transaction that holds a connection holds its seat's lock, and
  locks exclude: the set of holders injects into the seats. When the pool is
  dry the holders are as many as the connections, and so are their seats.
  A connection comes back only with the step of a transaction that ends it;
  when the pool is dry every holder, every check and every job needs a
  connection first, and what else can happen, SET NX of others, their GET and
  DEL, ticks and time-outs, touches none.
- *Waiting room.* `position` is at most the counter and differs from all
  others of its concert; a token says what `ActiveAt` makes of its position.
  `PollInTime`: a poll has read a clock that is not ahead of the present one,
  and one begun by who had been told to be available has read a clock behind
  the turn. Polls begun earlier may still answer the contrary, which is why the
  theorem is about `heard`.
  What remains is arithmetic of rounding: position `p` belongs to cycle
  `(p - 1) \div MaxPerCycle`, a cycle is an interval of that many positions,
  and rounding expiry to seconds costs less than one.
- *Deployment.* `SeedInv`: what is recorded is complete, and the application
  starts and serves only with the record. COMMIT comes behind the last loop, so
  every date has its concert and every concert its seats; that there are no
  others is the type. A step of the service is one of either part or of both.

Only model-checked: liveness (`EveryWaiterServed`,
`EveryRequestAnsweredUnlessDry`, `UnpaidSeatsReturnUnlessHalted`, `TurnIsTold`,
`AlwaysServesAgain`), which is out of the prover's reach. `NobodyForgotten`,
`DryTakesSeats` with `DryForGood`, and `TakenSeatIsWatched` are what of the
first three is safety, and are proved. The hypothesis `Punctual` of the theorems
on sold seats cannot be dropped, as `payment_late` shows.

## 6. Disagreements between the code and what is said of it

Each is the counterexample of a run and a finding of PROJECT.json.

1. `wait_lock_lost_wakeup`: a waiting request may never be woken
   (`redis-wait-lock.manager.ts:104`).
2. `booking_rejected`: a second request for a taken seat ends the process, and
   the timers of all unpaid reservations with it (`reservation.facade.ts:48`).
3. `payment_expired`: a reservation that was paid in time expires nevertheless
   and its seat is offered again (`reservation.service.ts:111`).
4. `payment_late`: a payment that outlasts the deadline sells a seat that
   another has reserved (`payment.facade.ts:42`), even if the availability
   check were awaited.
5. `wallet_charge`: a charge that overlaps a payment loses one of the two
   (`balance.service.ts:18`).
6. `service_gate`: who is told that the turn has come gets the old token back
   and is refused by `reserveSeat`; the comment of `queue.facade.ts:77` has a
   token with status approved issued (`queue.facade.ts:84`).

7. `server_dry`: as many reservations of different seats as the pool has
   connections wait for each other for good, and are never answered
   (`reservation.facade.ts:57`); the tests send their requests for one seat,
   of which the lock lets one in.

`docs/step11.md:57-63` also promises that requests are served in the order of
their arrival, which `InOrder` assumes: two requests of one millisecond, or of
two instances whose commands overtake each other, are not. No run drops
`InOrder` alone.

## 7. Not modelled

- A client that passes the gate: no token is ever APPROVED, so `Booking`,
  `Payment` and `Server` start behind it and are not composed with
  `WaitingRoom`.
- `migrate:down`, which an operator would run by hand. After it, beside an
  application that starts again, `synchronize` makes tables without a record
  and `migrate:up` fails; `Deployment` has the starts of docker compose only.
- `createSeat` and `getSeatbySeatNumber`, which nothing calls; the statuses
  RESERVEDFINAL and CANCELED, which nothing sets.
- Connections of payments, look-ups and the waiting room in `Server`: they hold
  one connection at a time, the transaction of `decreaseBalance` included, and
  never wait for a second.
- That money taken is given back when the payment fails afterwards, and that a
  second payment of one reservation is refused: neither holds nor is promised.
- The width of the balance column: PostgreSQL refuses a sum beyond its integer
  type with an error, which is a failing statement.
- Several application instances in `Booking` and `Payment`: the scheduler and
  its timers are per process, and the deployment of the repository has one.
- The signature of tokens, HTTP, events and the exception filter,
  configuration, logging, load scripts and experiments: no state of the
  program's own that changes.

## 8. Plan

1. Done: all modules of section 2, their runs and their proofs, the leases of
   sold seats and the wallet behind its real lock included.
2. Payments on `LockedWallet` instead of `Wallet`, on several instances.
3. Payments: liveness under `PunctualSpec` with fairness, and an abstract seat
   (free, held, sold) that `Payment` implements while payments are punctual.
4. `migrate:down` in `Deployment`, and the restart of an application beside it.
5. `Booking` on several instances: jobs and crashes per instance.
6. Proofs: the safety part of the remaining liveness properties (that an
   attentive client's next poll comes in time), and the refinement of the
   abstract seat.
