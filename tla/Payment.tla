-------------------------------- MODULE Payment --------------------------------
(***************************************************************************)
(* PaymentFacade.processPayment, on the reservations of Booking and the     *)
(* wallet of one user, in the one process that also runs the requests and   *)
(* the expiry jobs of Booking.  A use of the wallet is a payment; nothing   *)
(* but the client chooses which reservation a payment is for, and nothing   *)
(* keeps it from being paid twice.                                          *)
(***************************************************************************)
EXTENDS Booking, Wallet

CONSTANT Pays      \* the reservation each payment is for, by its request

ASSUME PaymentAssumption == Pays \in [Uses -> Requests]

VARIABLES
    pay,       \* where each processPayment is
    recheck    \* the expiry check that it starts and does not await

payVars     == <<walletVars, pay, recheck>>
paymentVars == <<bookingVars, payVars>>

(* "find" the reservation, then its "price", take the money ("wallet"),     *)
(* "complete" the reservation.                                              *)
PaymentTypeOK ==
    /\ BookingTypeOK
    /\ WalletTypeOK
    /\ pay \in [Uses -> {"idle", "find", "price", "wallet", "complete", "paid", "failed"}]
    /\ recheck \in [Uses -> {"none", "sent"}]

PaymentInit ==
    /\ BookingInit
    /\ WalletInit
    /\ pay = [p \in Uses |-> "idle"]
    /\ recheck = [p \in Uses |-> "none"]

Paying(p)  == pay[p] \in {"find", "price", "wallet", "complete"}
Turns(p, s) == pay' = [pay EXCEPT ![p] = s]

-----------------------------------------------------------------------------
(* The client pays for the reservation it was told of; the check of the     *)
(* reservation is started and not awaited.                                  *)
StartPayment(p) ==
    /\ pay[p] = "idle" /\ pc[Pays[p]] = "done" /\ answer[Pays[p]] = "reserved"
    /\ recheck' = [recheck EXCEPT ![p] = "sent"]
    /\ Turns(p, "find")
    /\ UNCHANGED <<bookingVars, walletVars>>

(* getReservationById, whatever the status is. *)
FindReservation(p) ==
    /\ pay[p] = "find"
    /\ Turns(p, "price")
    /\ UNCHANGED <<bookingVars, walletVars, recheck>>

(* getPriceById: the price of the seat, which is there and stays. *)
FindPrice(p) ==
    /\ pay[p] = "price"
    /\ Turns(p, "wallet")
    /\ UNCHANGED <<bookingVars, walletVars, recheck>>

(* Mutant of TakeMoney: withLockBySrc swallows the error of its operation.  *)
TakeMoneyOrNot(p) ==
    /\ pay[p] = "wallet"
    /\ \/ /\ TakeLock(p) \/ FindBalance(p) \/ SaveBalance(p)
          /\ UNCHANGED pay
       \/ /\ LetGo(p)
          /\ Turns(p, "complete")
    /\ UNCHANGED <<bookingVars, recheck>>

(* withLockBySrc(userId, "user", decreaseBalance): its result decides.      *)
TakeMoney(p) ==
    /\ pay[p] = "wallet"
    /\ \/ /\ TakeLock(p) \/ FindBalance(p) \/ SaveBalance(p)
          /\ UNCHANGED pay
       \/ /\ LockRefused(p)
          /\ Turns(p, "failed")
       \/ /\ LetGo(p)
          /\ Turns(p, IF move[p] = "booked" THEN "complete" ELSE "failed")
    /\ UNCHANGED <<bookingVars, recheck>>

(* Mutant of Complete: the status is looked at once the money is gone. *)
CompletePending(p) ==
    /\ pay[p] = "complete"
    /\ \/ res[Pays[p]] = "pending" /\ SetRes(Pays[p], "completed") /\ Turns(p, "paid")
       \/ res[Pays[p]] # "pending" /\ UNCHANGED res /\ Turns(p, "failed")
    /\ UNCHANGED <<lockVars, pc, check, seat, target, left, expiry, answer, crashes,
                   walletVars, recheck>>

Complete(p) ==
    /\ pay[p] = "complete"
    /\ SetRes(Pays[p], "completed")
    /\ Turns(p, "paid")
    /\ UNCHANGED <<lockVars, pc, check, seat, target, left, expiry, answer, crashes,
                   walletVars, recheck>>

(* A statement or a command of the payment fails, executed or not; the      *)
(* money that was taken is not given back.                                  *)
PaymentFails(p) ==
    /\ faults < MaxFaults
    /\ faults' = faults + 1
    /\ \/ pay[p] \in {"find", "price"} /\ Turns(p, "failed") /\ UNCHANGED <<walletVars, res>>
       \/ pay[p] = "wallet" /\ WalletFails(p) /\ UNCHANGED <<pay, res>>
       \/ pay[p] = "wallet" /\ LetGo(p) /\ Turns(p, "failed") /\ UNCHANGED res
       \/ /\ pay[p] = "complete" /\ Turns(p, "failed") /\ UNCHANGED walletVars
          /\ UNCHANGED res \/ SetRes(Pays[p], "completed")
    /\ UNCHANGED <<lock, at, pc, check, seat, target, left, expiry, answer, crashes, recheck>>

(* The process dies with its payments. *)
PaymentsDie ==
    /\ CallsDie(Moves)
    /\ pay' = [p \in Uses |-> IF Paying(p) THEN "failed" ELSE pay[p]]
    /\ recheck' = [p \in Uses |-> "none"]

(* checkReservationAvailability returns: what is expired or overdue rejects *)
(* a promise nobody handles, and that ends the process.                     *)
RecheckReturns(p) ==
    /\ recheck[p] = "sent"
    /\ IF res[Pays[p]] = "expired" \/ left[Pays[p]] = 0
       THEN ProcessDies /\ PaymentsDie
       ELSE /\ recheck' = [recheck EXCEPT ![p] = "none"]
            /\ UNCHANGED <<bookingVars, walletVars, pay>>

(* A charge or a query of the balance of a user that has no row:            *)
(* validateUserById is started and not awaited, and what it throws ends the *)
(* process.                                                                 *)
ValidateUser ==
    /\ crashes < MaxCrashes
    /\ ProcessDies
    /\ PaymentsDie

(* Charges of the wallet, by whatever client. *)
Charge(c) ==
    /\ FindForCharge(c) \/ SaveBalance(c)
    /\ UNCHANGED <<bookingVars, pay, recheck>>

(* A statement of a charge fails, executed or not. *)
ChargeFails(c) ==
    /\ faults < MaxFaults
    /\ faults' = faults + 1
    /\ WalletFails(c)
    /\ UNCHANGED <<lock, at, tables, pc, check, target, expiry, answer, crashes, pay, recheck>>

(* The requests and the jobs of the same process. *)
BookingGoesOn ==
    /\ BookingNext
    /\ IF crashes' = crashes THEN UNCHANGED payVars ELSE PaymentsDie

PaymentStep(p) ==
    \/ FindReservation(p) \/ FindPrice(p) \/ TakeMoney(p) \/ Complete(p)
    \/ RecheckReturns(p)

PaymentNext ==
    \/ BookingGoesOn
    \/ \E p \in Uses : StartPayment(p) \/ PaymentStep(p) \/ PaymentFails(p)
    \/ \E c \in Charges : Charge(c) \/ ChargeFails(c)
    \/ ValidateUser

PaymentSpec == PaymentInit /\ [][PaymentNext]_paymentVars

(* Payments are made, and are over, within the five minutes.                *)
Punctual == \A p \in Uses : Paying(p) => left[Pays[p]] > 0

PunctualSpec == PaymentInit /\ [][PaymentNext /\ Punctual' /\ Apart']_paymentVars

(* The expiry check is answered before any money is touched, as if it were  *)
(* awaited.                                                                 *)
Checked == \A p \in Uses : pay[p] \in {"wallet", "complete", "paid"} => recheck[p] = "none"

CheckedSpec == PaymentInit /\ [][PaymentNext /\ Checked']_paymentVars
-----------------------------------------------------------------------------
(* A reservation is completed only by a payment whose money was taken, and  *)
(* taken in full: refusals of the lock, an insufficient balance, failing    *)
(* statements and crashes leave it as it was.                               *)
CompletedWasPaid ==
    \A r \in Requests : res[r] = "completed" => \E p \in Uses : Pays[p] = r /\ Booked(p)

(* As long as nothing fails, a payment that is refused costs nothing,       *)
(* whether the lock or the money was missing.  It is all there is to it:    *)
(* once a command, a statement or the process fails, money that was taken   *)
(* stays taken.                                                             *)
RefusedKeepsMoney ==
    faults = 0 /\ crashes = 0 => \A p \in Uses : pay[p] = "failed" => ~Booked(p)

(* What is paid is sold: a completed reservation stays completed.           *)
PaidStaysPaid ==
    [][\A r \in Requests : res[r] = "completed" => res'[r] = "completed"]_paymentVars
=============================================================================
