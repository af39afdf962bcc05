-------------------------------- MODULE Booking --------------------------------
(***************************************************************************)
(* ReservationFacade.reserveSeat with the seat and reservation services it  *)
(* calls and the in-memory expiry jobs they schedule, on one application    *)
(* process, one Redis and one PostgreSQL.                                   *)
(*                                                                          *)
(* A resource of the lock (NoWaitLock) is a seat of a concert, a call of    *)
(* withLockBySrc is one request of reserveSeat.  Each action is the code    *)
(* between two awaits with the statement it has the database execute.       *)
(* Reservations are written in the request's transaction and appear to      *)
(* others on COMMIT; seats are written outside of it and appear at once.    *)
(***************************************************************************)
EXTENDS NoWaitLock

CONSTANTS
    Seeded,             \* seats that have a row before any request
    Window,             \* the five minutes to pay, in ticks
    OutlivesDeadline,   \* may a request still be uncommitted when its five minutes are over?
    MaxCrashes          \* bound: crashes that the code does not cause itself

ASSUME BookingAssumption ==
    /\ Seeded \subseteq Resources
    /\ Requests \cap Resources = {}
    /\ Window \in Nat \ {0}
    /\ OutlivesDeadline \in BOOLEAN
    /\ MaxCrashes \in Nat

VARIABLES
    pc,        \* the statement each request awaits
    check,     \* the availability query that reserveSeat starts and does not await
    seat,      \* status of the rows of table Seats
    target,    \* targetSeat.id of each request
    res,       \* status of the row of table Reservations of each request
    left,      \* time left until its payment_deadline
    expiry,    \* the expiry job of each reservation
    answer,    \* what the client of each request is told when the lock is released
    crashes    \* how often the process died

bookingVars == <<lockVars, pc, check, seat, target, res, left, expiry, answer, crashes>>

(* A row is named after the seat it was seeded for, or after the request    *)
(* that inserted it.                                                        *)
Rows       == Resources \cup Requests
SeatOf(x)  == IF x \in Requests THEN ResourceOf[x] ELSE x
RowsOf(k)  == {x \in Rows : SeatOf(x) = k /\ seat[x] # "absent"}

Body == {"find", "create", "read", "insert", "mark", "schedule", "commit"}

(* The types of the variables, and the one relation between the positions:  *)
(* a request is inside the locked operation when its statement says so.     *)
BookingTypeOK ==
    /\ LockTypeOK
    /\ pc \in [Requests -> {"idle", "setnx", "release", "done"} \cup Body]
    /\ check \in [Requests -> {"none", "sent"}]
    /\ seat \in [Rows -> {"absent", "available", "reserved_temp"}]
    /\ target \in [Requests -> Rows]
    /\ res \in [Requests -> {"none", "inserted", "pending", "completed", "expired"}]
    /\ left \in [Requests -> 0..Window]
    /\ expiry \in [Requests -> {"none", "scheduled", "find", "save", "seat"}]
    /\ answer \in [Requests -> {"none", "reserved", "error"}]
    /\ crashes \in Nat
    /\ \A r \in Requests : pc[r] \in Body <=> at[r] = "operating"

BookingInit ==
    /\ LockInit
    /\ pc = [r \in Requests |-> "idle"]
    /\ check = [r \in Requests |-> "none"]
    /\ seat = [x \in Rows |-> IF x \in Seeded THEN "available" ELSE "absent"]
    /\ target = [r \in Requests |-> r]
    /\ res = [r \in Requests |-> "none"]
    /\ left = [r \in Requests |-> Window]
    /\ expiry = [r \in Requests |-> "none"]
    /\ answer = [r \in Requests |-> "none"]
    /\ crashes = 0

At(r, label)     == pc[r] = label
Goto(r, label)   == pc' = [pc EXCEPT ![r] = label]
SetSeat(x, s)    == seat' = [seat EXCEPT ![x] = s]
SetRes(r, s)     == res' = [res EXCEPT ![r] = s]
SetExpiry(r, e)  == expiry' = [expiry EXCEPT ![r] = e]
Answers(r, a)    == answer' = [answer EXCEPT ![r] = a]

tables == <<seat, res, left>>

-----------------------------------------------------------------------------
(* The token is valid; verifyConcert and checkSeatAvailability are started  *)
(* and not awaited, then SET NX is sent.                                    *)
Reserve(r) ==
    /\ At(r, "idle")
    /\ check' = [check EXCEPT ![r] = "sent"]
    /\ Goto(r, "setnx")
    /\ UNCHANGED <<lockVars, tables, target, expiry, answer, crashes>>

Lock(r) ==
    /\ At(r, "setnx")
    /\ AcquireLock(r)
    /\ \/ at'[r] = "operating" /\ Goto(r, "find") /\ UNCHANGED answer
       \/ at'[r] = "over" /\ Goto(r, "done") /\ Answers(r, "error")
    /\ UNCHANGED <<tables, check, target, expiry, crashes>>

(* Mutant of FindSeat: the row is inserted without a look. *)
CreateAlways(r) ==
    /\ At(r, "find")
    /\ Goto(r, "create")
    /\ UNCHANGED <<lockVars, tables, check, target, expiry, answer, crashes>>

(* getOrCreateSeat: the row of the seat, or a new one. *)
FindSeat(r) ==
    /\ At(r, "find")
    /\ \/ /\ RowsOf(ResourceOf[r]) = {}
          /\ Goto(r, "create")
          /\ UNCHANGED target
       \/ \E x \in RowsOf(ResourceOf[r]) :
             /\ target' = [target EXCEPT ![r] = x]
             /\ Goto(r, "read")
    /\ UNCHANGED <<lockVars, tables, check, expiry, answer, crashes>>

CreateSeat(r) ==
    /\ At(r, "create")
    /\ SetSeat(r, "available")
    /\ target' = [target EXCEPT ![r] = r]
    /\ Goto(r, "read")
    /\ UNCHANGED <<lockVars, check, res, left, expiry, answer, crashes>>

(* The process ends: requests and jobs with it, uncommitted rows, and the   *)
(* queries under way; Redis and what was committed stay.  Clients that wait *)
(* are told nothing but that the connection is gone.                        *)
ProcessDies ==
    LET lost == {r \in Requests : pc[r] \notin {"idle", "done"}} IN
    /\ Abandon(lost)
    /\ pc' = [r \in Requests |-> IF r \in lost THEN "done" ELSE pc[r]]
    /\ check' = [r \in Requests |-> "none"]
    /\ res' = [r \in Requests |-> IF res[r] = "inserted" THEN "none" ELSE res[r]]
    /\ expiry' = [r \in Requests |-> "none"]
    /\ answer' = [r \in Requests |-> IF r \in lost THEN "error" ELSE answer[r]]
    /\ crashes' = crashes + 1
    /\ UNCHANGED <<seat, target, left>>

(* Mutant of ReadSeat: the status of the row is not looked at. *)
ReadUnchecked(r) ==
    /\ At(r, "read")
    /\ Goto(r, "insert")
    /\ UNCHANGED <<lockVars, tables, check, target, expiry, answer, crashes>>

(* checkSeatStatue, on the row x: 'already reserved' otherwise. *)
SeatIsFree(x) == seat[x] = "available"

(* The second read of the row.  checkSeatStatue is not awaited: when the    *)
(* seat is taken the handler runs on, but the unhandled rejection ends the  *)
(* process before the INSERT that follows can be committed.                 *)
ReadSeat(r) ==
    /\ At(r, "read")
    /\ \/ /\ SeatIsFree(target[r])
          /\ Goto(r, "insert")
          /\ UNCHANGED <<lockVars, tables, check, target, expiry, answer, crashes>>
       \/ /\ ~SeatIsFree(target[r])
          /\ ProcessDies

(* createReservation, in the transaction. *)
InsertReservation(r) ==
    /\ At(r, "insert")
    /\ SetRes(r, "inserted")
    /\ left' = [left EXCEPT ![r] = Window]
    /\ Goto(r, "mark")
    /\ UNCHANGED <<lockVars, seat, check, target, expiry, answer, crashes>>

(* updateSeatStatus, outside of the transaction. *)
MarkSeat(r) ==
    /\ At(r, "mark")
    /\ SetSeat(target[r], "reserved_temp")
    /\ Goto(r, "schedule")
    /\ UNCHANGED <<lockVars, res, left, check, target, expiry, answer, crashes>>

(* Mutants of Schedule: no job; a job without a timer. *)
ScheduleNothing(r) ==
    /\ At(r, "schedule")
    /\ Goto(r, "commit")
    /\ UNCHANGED <<lockVars, tables, check, target, expiry, answer, crashes>>

ScheduleAtOnce(r) ==
    /\ At(r, "schedule")
    /\ SetExpiry(r, "find")
    /\ Goto(r, "commit")
    /\ UNCHANGED <<lockVars, tables, check, target, answer, crashes>>

(* scheduleReservationExpiration: a timer for the deadline, or the expiry   *)
(* at once when that is over already; then COMMIT is sent.                  *)
Schedule(r) ==
    /\ At(r, "schedule")
    /\ SetExpiry(r, IF left[r] = 0 THEN "find" ELSE "scheduled")
    /\ Goto(r, "commit")
    /\ UNCHANGED <<lockVars, tables, check, target, answer, crashes>>

Commit(r) ==
    /\ At(r, "commit")
    /\ OperationEnds(r)
    /\ SetRes(r, "pending")
    /\ Answers(r, "reserved")
    /\ Goto(r, "release")
    /\ UNCHANGED <<seat, left, check, target, expiry, crashes>>

(* The finally block of the lock manager. *)
Release(r) ==
    /\ At(r, "release")
    /\ ReleaseGet(r) \/ ReleaseDel(r)
    /\ Goto(r, IF at'[r] = "over" THEN "done" ELSE "release")
    /\ UNCHANGED <<tables, check, target, expiry, answer, crashes>>

-----------------------------------------------------------------------------
(* Mutants of StatementFails: the finally block is missing; the error is    *)
(* swallowed.                                                               *)
FailsWithoutRelease(r) ==
    /\ pc[r] \in Body \ {"schedule"}
    /\ faults < MaxFaults
    /\ faults' = faults + 1
    /\ SetRes(r, "none")
    /\ Goto(r, "done")
    /\ Answers(r, "error")
    /\ UNCHANGED <<lock, at, seat, left, check, target, expiry, crashes>>

FailureSwallowed(r) ==
    /\ pc[r] \in Body \ {"schedule"}
    /\ OperationFails(r)
    /\ SetRes(r, "none")
    /\ Goto(r, "release")
    /\ Answers(r, "reserved")
    /\ UNCHANGED <<seat, left, check, target, expiry, crashes>>

(* A statement of the operation fails, executed or not: ROLLBACK, the lock  *)
(* is released and the client told of an error.                             *)
StatementFails(r) ==
    /\ pc[r] \in Body \ {"schedule"}
    /\ OperationFails(r)
    /\ \/ UNCHANGED seat
       \/ At(r, "create") /\ SetSeat(r, "available")
       \/ At(r, "mark") /\ SetSeat(target[r], "reserved_temp")
    /\ \/ SetRes(r, "none")
       \/ At(r, "commit") /\ SetRes(r, "pending")
    /\ Goto(r, "release")
    /\ Answers(r, "error")
    /\ UNCHANGED <<left, check, target, expiry, crashes>>

LockCommandFails(r) ==
    /\ pc[r] \in {"setnx", "release"}
    /\ CommandFails(r)
    /\ Goto(r, "done")
    /\ Answers(r, "error")
    /\ UNCHANGED <<tables, check, target, expiry, crashes>>

(* The query of checkSeatAvailability returns, while the request goes on or *)
(* after it has been answered: a seat that is not available rejects a       *)
(* promise nobody handles.                                                  *)
CheckReturns(r) ==
    /\ check[r] = "sent"
    /\ \/ /\ \E x \in RowsOf(ResourceOf[r]) : seat[x] # "available"
          /\ ProcessDies
       \/ /\ RowsOf(ResourceOf[r]) = {} \/ \E x \in RowsOf(ResourceOf[r]) : seat[x] = "available"
          /\ check' = [check EXCEPT ![r] = "none"]
          /\ UNCHANGED <<lockVars, tables, pc, target, expiry, answer, crashes>>

-----------------------------------------------------------------------------
(* The timer of a job goes off, and expireReservation begins. *)
JobFires(r) ==
    /\ expiry[r] = "scheduled" /\ left[r] = 0
    /\ SetExpiry(r, "find")
    /\ UNCHANGED <<lockVars, tables, pc, check, target, answer, crashes>>

(* Mutant of ExpireFind: the seat is given back without the reservation. *)
ExpireWithoutSave(r) ==
    /\ expiry[r] = "find"
    /\ SetExpiry(r, IF res[r] \in {"none", "inserted"} THEN "none" ELSE "seat")
    /\ UNCHANGED <<lockVars, tables, pc, check, target, answer, crashes>>

(* findOne sees committed rows only, of any status. *)
ExpireFind(r) ==
    /\ expiry[r] = "find"
    /\ SetExpiry(r, IF res[r] \in {"none", "inserted"} THEN "none" ELSE "save")
    /\ UNCHANGED <<lockVars, tables, pc, check, target, answer, crashes>>

(* Mutant of ExpireSave: the seat is forgotten. *)
ExpireWithoutSeat(r) ==
    /\ expiry[r] = "save"
    /\ SetRes(r, "expired")
    /\ SetExpiry(r, "none")
    /\ UNCHANGED <<lockVars, seat, left, pc, check, target, answer, crashes>>

ExpireSave(r) ==
    /\ expiry[r] = "save"
    /\ SetRes(r, "expired")
    /\ SetExpiry(r, "seat")
    /\ UNCHANGED <<lockVars, seat, left, pc, check, target, answer, crashes>>

(* The seat that the reservation names becomes available. *)
ExpireSeat(r) ==
    /\ expiry[r] = "seat"
    /\ SetSeat(target[r], "available")
    /\ SetExpiry(r, "none")
    /\ UNCHANGED <<lockVars, res, left, pc, check, target, answer, crashes>>

(* A statement of the job fails, executed or not: the error is logged.      *)
ExpireFails(r) ==
    /\ faults < MaxFaults
    /\ faults' = faults + 1
    /\ expiry[r] \in {"find", "save", "seat"}
    /\ SetExpiry(r, "none")
    /\ \/ UNCHANGED <<res, seat>>
       \/ expiry[r] = "save" /\ SetRes(r, "expired") /\ UNCHANGED seat
       \/ expiry[r] = "seat" /\ SetSeat(target[r], "available") /\ UNCHANGED res
    /\ UNCHANGED <<lock, at, left, pc, check, target, answer, crashes>>

-----------------------------------------------------------------------------
Crash ==
    /\ crashes < MaxCrashes
    /\ ProcessDies

SeatLockExpires(k) ==
    /\ LockExpires(k)
    /\ UNCHANGED <<tables, pc, check, target, expiry, answer, crashes>>

(* Time passes for the reservations that wait for their deadline. *)
Ticking(r) == res[r] # "none" /\ left[r] > 0

Tick ==
    /\ \E r \in Requests : Ticking(r)
    /\ OutlivesDeadline \/ \A r \in Requests : res[r] = "inserted" => left[r] > 1
    /\ left' = [r \in Requests |-> IF Ticking(r) THEN left[r] - 1 ELSE left[r]]
    /\ UNCHANGED <<lockVars, seat, res, pc, check, target, expiry, answer, crashes>>

(* What a request, and what a job, does on its own, nothing failing. *)
RequestStep(r) ==
    \/ Lock(r) \/ FindSeat(r) \/ CreateSeat(r) \/ ReadSeat(r) \/ InsertReservation(r)
    \/ MarkSeat(r) \/ Schedule(r) \/ Commit(r) \/ Release(r)

JobStep(r) == JobFires(r) \/ ExpireFind(r) \/ ExpireSave(r) \/ ExpireSeat(r)

(* The same, when a statement or command may fail. *)
RequestRuns(r) == RequestStep(r) \/ StatementFails(r) \/ LockCommandFails(r)

JobRuns(r) == JobStep(r) \/ ExpireFails(r)

(* What nobody asked for. *)
Environment ==
    \/ \E k \in Resources : SeatLockExpires(k)
    \/ Crash
    \/ Tick

BookingNext ==
    \/ \E r \in Requests : Reserve(r) \/ RequestRuns(r) \/ CheckReturns(r) \/ JobRuns(r)
    \/ Environment

BookingSpec == BookingInit /\ [][BookingNext]_bookingVars

-----------------------------------------------------------------------------
(* Mutant of ListedAs: seats that have a row are all listed alike. *)
ListedAnyway(k) == {"available"}

(* formatSeatsForAvailSeats: the status of the row of seat k, of the one    *)
(* that is found first if there are several; available if there is none.    *)
ListedAs(k) == IF RowsOf(k) = {} THEN {"available"} ELSE {seat[x] : x \in RowsOf(k)}

(* What getAvailableSeats may list.  It only reads. *)
Offered == {k \in Resources : "available" \in ListedAs(k)}

-----------------------------------------------------------------------------
(* Databases answer, timers run: what has been started goes on. *)
BookingFairness ==
    /\ \A r \in Requests :
          WF_bookingVars(RequestStep(r)) /\ WF_bookingVars(CheckReturns(r)) /\ WF_bookingVars(JobStep(r))
    /\ WF_bookingVars(Tick)

FairBookingSpec == BookingSpec /\ BookingFairness

-----------------------------------------------------------------------------
(* A seat has one row, although getOrCreateSeat looks for it and inserts it *)
(* in two statements and no constraint of the database helps.               *)
OneRowPerSeat ==
    \A x, y \in Rows :
        seat[x] # "absent" /\ seat[y] # "absent" /\ SeatOf(x) = SeatOf(y) => x = y

(* A seat is never held by two reservations, although the request writes    *)
(* the seat outside of its transaction, and seats come back by timers that  *)
(* take no lock.                                                            *)
Holds(r) == res[r] \in {"inserted", "pending", "completed"}

NoDoubleBooking ==
    \A r, s \in Requests : Holds(r) /\ Holds(s) /\ ResourceOf[r] = ResourceOf[s] => r = s

(* The seat of a reservation that awaits payment, or is paid, is taken.     *)
BookedSeatIsTaken ==
    \A r \in Requests :
        res[r] \in {"pending", "completed"} =>
            SeatOf(target[r]) = ResourceOf[r] /\ seat[target[r]] = "reserved_temp"

(* A reservation claims its seat until the job has given it back.  As       *)
(* leases of a seat, reservations exclude each other like operations under  *)
(* a lock, which none of them holds for its five minutes, and none that is  *)
(* over claims its seat again, whatever jobs, failures and crashes do.      *)
Claims(r) == Holds(r) \/ expiry[r] = "seat"

Tenure(r) ==
    IF Claims(r) THEN "running"
    ELSE IF pc[r] \in {"idle", "setnx", "find", "create", "read", "insert"} THEN "asking"
    ELSE "over"

TenureOn(k) == [r \in Callers(k) |-> Tenure(r)]

Lease(k) == INSTANCE Mutex WITH Clients <- Callers(k), phase <- TenureOn(k)

SeatsAreLeased ==
    /\ \A k \in Resources : Lease(k)!Init
    /\ [][\A k \in Resources : [Lease(k)!Next]_(TenureOn(k))]_bookingVars

(* getAvailableSeats, which reads at any moment and without a lock, never    *)
(* lists a seat that a committed reservation holds, paid or not.            *)
OfferedIsFree ==
    \A r \in Requests : res[r] \in {"pending", "completed"} => ResourceOf[r] \notin Offered

(* While the process lives and no statement fails, whatever seat is taken   *)
(* has a request, a timer or a job that will see it through.                *)
SeesThrough(r) ==
    \/ pc[r] \in {"schedule", "commit"}
    \/ res[r] = "pending" /\ expiry[r] # "none"
    \/ expiry[r] = "seat"

TakenSeatIsWatched ==
    crashes = 0 /\ faults = 0 =>
        \A x \in Rows : seat[x] = "reserved_temp" =>
            \E r \in Requests : target[r] = x /\ SeesThrough(r)

(* Who is told of a reservation has one, though the answer is computed in a *)
(* transaction that has yet to be committed.                                *)
AnswerIsTrue ==
    \A r \in Requests : answer[r] = "reserved" => res[r] \in {"pending", "completed", "expired"}

(* No reservation expires before its five minutes are over. *)
NeverExpiredEarly ==
    [][\A r \in Requests : res[r] # "expired" /\ res'[r] = "expired" => left[r] = 0]_bookingVars

(* The seat of a payment that does not come is there for others again, as   *)
(* the five minutes of a reservation promise.                               *)
UnpaidSeatsReturn ==
    \A r \in Requests : res[r] = "pending" ~> seat[target[r]] = "available"
=============================================================================
