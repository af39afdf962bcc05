----------------------------- MODULE PaymentProofs -----------------------------
(***************************************************************************)
(* Theorems of Payment, for every set of requests, payments and charges.    *)
(* Those about the wallet are inherited: a payment does to it what Wallet   *)
(* allows.                                                                  *)
(***************************************************************************)
EXTENDS Payment, BookingProofs, WalletProofs

LEMMA PaymentsUseWallet == ASSUME PaymentNext PROVE WalletNext \/ UNCHANGED walletVars
<1>1. CASE PaymentsDie
  <2>1. Moves \in SUBSET Moves
    OBVIOUS
  <2> QED
    BY <1>1, <2>1 DEF PaymentsDie, WalletNext
<1>2. CASE BookingGoesOn
  BY <1>1, <1>2 DEF BookingGoesOn, payVars
<1>3. ASSUME NEW p \in Uses, StartPayment(p) PROVE UNCHANGED walletVars
  BY <1>3 DEF StartPayment
<1>4. ASSUME NEW p \in Uses, PaymentStep(p) PROVE WalletNext \/ UNCHANGED walletVars
  BY <1>1, <1>4
     DEF PaymentStep, FindReservation, FindPrice, TakeMoney, Complete, RecheckReturns,
         WalletNext, UseNext, Moves
<1>5. ASSUME NEW p \in Uses, PaymentFails(p) PROVE WalletNext \/ UNCHANGED walletVars
  BY <1>5 DEF PaymentFails, WalletNext, UseNext, Moves
<1>6. ASSUME NEW c \in Charges, Charge(c) \/ ChargeFails(c) PROVE WalletNext
  BY <1>6 DEF Charge, ChargeFails, WalletNext, ChargeNext, Moves
<1> QED BY <1>1, <1>2, <1>3, <1>4, <1>5, <1>6 DEF PaymentNext, ValidateUser

(* A payment does to the balance what Wallet allows ...                     *)
THEOREM PaymentsAreUses == PaymentSpec => WalletSpec
<1>1. PaymentInit => WalletInit
  BY DEF PaymentInit
<1>2. [PaymentNext]_paymentVars => [WalletNext]_walletVars
  BY PaymentsUseWallet DEF paymentVars, payVars
<1> QED BY <1>1, <1>2, PTL DEF PaymentSpec, WalletSpec

(* No payment leaves a debt.                                                *)
THEOREM PaymentNoDebt == PaymentSpec => []NeverOverdrawn
BY PaymentsAreUses, NoDebt, PTL

(* While charges keep apart, payments take exactly what they book.          *)
THEOREM PaymentMovesExactly == PunctualSpec => MovesExactly
<1>1. PaymentInit => WalletInit
  BY DEF PaymentInit
<1>2. [PaymentNext /\ Punctual' /\ Apart']_paymentVars => [WalletNext /\ Apart']_walletVars
  BY PaymentsUseWallet DEF paymentVars, payVars
<1> QED BY <1>1, <1>2, QuietMoves, PTL DEF PunctualSpec, QuietSpec
-----------------------------------------------------------------------------
(* Types. *)
LEMMA PaymentsDieType ==
    ASSUME PaymentTypeOK, PaymentsDie
    PROVE  /\ pay' \in [Uses -> {"idle", "find", "price", "wallet", "complete", "paid", "failed"}]
           /\ recheck' \in [Uses -> {"none", "sent"}]
BY DEF PaymentTypeOK, PaymentsDie, Paying

LEMMA PaymentTypeStep ==
    ASSUME PaymentTypeOK, [PaymentNext]_paymentVars
    PROVE  PaymentTypeOK'
<1> USE DEF PaymentTypeOK, Turns
<1>1. WalletTypeOK'
  BY PaymentsUseWallet, WalletTypeStep DEF paymentVars, payVars
<1>2. ASSUME BookingTypeOK, UNCHANGED bookingVars PROVE BookingTypeOK'
  BY <1>2, BookingTypeStep
<1>3. CASE BookingGoesOn
  BY <1>1, <1>3, BookingTypeStep, PaymentsDieType DEF BookingGoesOn, payVars
<1>4. ASSUME NEW p \in Uses,
             StartPayment(p) \/ FindReservation(p) \/ FindPrice(p) \/ TakeMoney(p)
      PROVE  PaymentTypeOK'
  BY <1>1, <1>2, <1>4 DEF StartPayment, FindReservation, FindPrice, TakeMoney
<1>5. ASSUME NEW p \in Uses, Complete(p) PROVE PaymentTypeOK'
  <2>1. BookingTypeOK'
    BY <1>5, PaymentAssumption
       DEF Complete, SetRes, BookingTypeOK, LockTypeOK, lockVars, Body
  <2> QED BY <1>1, <1>5, <2>1 DEF Complete
<1>6. ASSUME NEW p \in Uses, RecheckReturns(p) PROVE PaymentTypeOK'
  BY <1>1, <1>2, <1>6, ProcessDiesType, PaymentsDieType DEF RecheckReturns
<1>7. ASSUME NEW p \in Uses, PaymentFails(p) PROVE PaymentTypeOK'
  <2>1. BookingTypeOK'
    BY <1>7, PaymentAssumption, NoWaitLockAssumption
       DEF PaymentFails, SetRes, BookingTypeOK, LockTypeOK, Body
  <2> QED BY <1>1, <1>7, <2>1 DEF PaymentFails
<1>8. ASSUME NEW c \in Charges, Charge(c) PROVE PaymentTypeOK'
  BY <1>1, <1>2, <1>8 DEF Charge
<1>9. CASE UNCHANGED paymentVars
  BY <1>1, <1>2, <1>9 DEF paymentVars, payVars
<1>10. CASE ValidateUser
  BY <1>1, <1>10, ProcessDiesType, PaymentsDieType DEF ValidateUser
<1>11. ASSUME NEW c \in Charges, ChargeFails(c) PROVE PaymentTypeOK'
  <2>1. BookingTypeOK'
    BY <1>11, NoWaitLockAssumption DEF ChargeFails, tables, BookingTypeOK, LockTypeOK, Body
  <2> QED BY <1>1, <1>11, <2>1 DEF ChargeFails
<1> QED
  BY <1>3, <1>4, <1>5, <1>6, <1>7, <1>8, <1>9, <1>10, <1>11 DEF PaymentNext, PaymentStep

(* The types of payments, and of the reservations and the wallet with them. *)
THEOREM PaymentTyping == PaymentSpec => []PaymentTypeOK
<1>1. PaymentInit => PaymentTypeOK
  BY BookingTypeInit, WalletTypeInit DEF PaymentInit, PaymentTypeOK
<1> QED BY <1>1, PaymentTypeStep, PTL DEF PaymentSpec

-----------------------------------------------------------------------------
(* The inductive invariant: who is about to complete has taken the money.   *)
MoneyFirst == \A p \in Uses : pay[p] = "complete" => Booked(p)

LEMMA BookedStays ==
    ASSUME WalletTypeOK, [WalletNext]_walletVars, NEW o \in Moves, Booked(o)
    PROVE  Booked(o)'
<1> USE DEF WalletTypeOK, Booked, Advance, InProgress
<1>1. ASSUME NEW u \in Uses, UseNext(u) PROVE Booked(o)'
  BY <1>1 DEF UseNext, TakeLock, LockRefused, FindBalance, LetGo
<1>2. ASSUME NEW c \in Charges, ChargeNext(c) PROVE Booked(o)'
  BY <1>2 DEF ChargeNext, FindForCharge
<1>3. ASSUME NEW q \in Moves, SaveBalance(q) \/ WalletFails(q) PROVE Booked(o)'
  BY <1>3 DEF SaveBalance, WalletFails
<1>4. ASSUME NEW S \in SUBSET Moves, CallsDie(S) PROVE Booked(o)'
  BY <1>4 DEF CallsDie
<1>5. CASE UNCHANGED walletVars
  BY <1>5 DEF walletVars
<1> QED BY <1>1, <1>2, <1>3, <1>4, <1>5 DEF WalletNext

(* Nothing of Booking completes a reservation.                              *)
LEMMA BookingCompletesNothing ==
    ASSUME BookingTypeOK, [BookingNext]_bookingVars, NEW r \in Requests, res'[r] = "completed"
    PROVE  res[r] = "completed"
<1> USE DEF BookingTypeOK, SetRes, tables
<1>1. CASE ProcessDies
  BY <1>1 DEF ProcessDies
<1>2. ASSUME NEW q \in Requests, RequestStep(q) PROVE res[r] = "completed"
  BY <1>1, <1>2 DEF RequestStep, Lock, FindSeat, CreateSeat, ReadSeat, InsertReservation,
                    MarkSeat, Schedule, Commit, Release
<1>3. ASSUME NEW q \in Requests, JobStep(q) \/ ExpireFails(q) PROVE res[r] = "completed"
  BY <1>3 DEF JobStep, JobFires, ExpireFind, ExpireSave, ExpireSeat, ExpireFails
<1>4. ASSUME NEW q \in Requests, StatementFails(q) PROVE res[r] = "completed"
  BY <1>4 DEF StatementFails
<1>5. ASSUME NEW q \in Requests, Reserve(q) \/ CheckReturns(q) \/ LockCommandFails(q)
      PROVE  res[r] = "completed"
  BY <1>1, <1>5 DEF Reserve, CheckReturns, LockCommandFails
<1> QED
  BY <1>1, <1>2, <1>3, <1>4, <1>5 DEF BookingNext, RequestRuns, JobRuns, Environment, Crash, SeatLockExpires, Tick, bookingVars

LEMMA SalesStep ==
    ASSUME PaymentTypeOK, MoneyFirst, CompletedWasPaid, [PaymentNext]_paymentVars
    PROVE  MoneyFirst' /\ CompletedWasPaid'
<1> USE DEF PaymentTypeOK, Turns
<1>1. \A p \in Uses : Booked(p) => Booked(p)'
  BY BookedStays, PaymentsUseWallet DEF paymentVars, payVars, Moves
<1>2. ASSUME \A p \in Uses : pay'[p] = "complete" => pay[p] = "complete",
             \A r \in Requests : res'[r] = "completed" => res[r] = "completed"
      PROVE  MoneyFirst' /\ CompletedWasPaid'
  BY <1>1, <1>2 DEF MoneyFirst, CompletedWasPaid
<1>3. ASSUME PaymentsDie PROVE \A p \in Uses : pay'[p] = "complete" => pay[p] = "complete"
  BY <1>3 DEF PaymentsDie, Paying
<1>4. CASE BookingGoesOn
  BY <1>2, <1>3, <1>4, BookingCompletesNothing DEF BookingGoesOn, payVars
<1>5. ASSUME NEW p \in Uses, StartPayment(p) \/ FindReservation(p) \/ FindPrice(p)
      PROVE  MoneyFirst' /\ CompletedWasPaid'
  BY <1>2, <1>5 DEF StartPayment, FindReservation, FindPrice, bookingVars
<1>6. ASSUME NEW p \in Uses, TakeMoney(p) PROVE MoneyFirst' /\ CompletedWasPaid'
  <2>1. \A q \in Uses : pay'[q] = "complete" => pay[q] = "complete" \/ Booked(q)
    BY <1>6 DEF TakeMoney, Booked
  <2> QED BY <1>1, <1>6, <2>1 DEF TakeMoney, MoneyFirst, CompletedWasPaid, bookingVars
<1>7. ASSUME NEW p \in Uses, Complete(p) \/ PaymentFails(p)
      PROVE  MoneyFirst' /\ CompletedWasPaid'
  <2>1. \A q \in Uses : pay'[q] = "complete" => pay[q] = "complete"
    BY <1>7 DEF Complete, PaymentFails
  <2>2. \A r \in Requests :
          res'[r] = "completed" => res[r] = "completed" \/ (pay[p] = "complete" /\ Pays[p] = r)
    BY <1>7 DEF Complete, PaymentFails, SetRes, BookingTypeOK
  <2> QED BY <1>1, <2>1, <2>2 DEF MoneyFirst, CompletedWasPaid
<1>8. ASSUME (\E p \in Uses : RecheckReturns(p)) \/ ValidateUser
      PROVE  MoneyFirst' /\ CompletedWasPaid'
  <2>1. ASSUME ProcessDies PROVE \A r \in Requests : res'[r] = "completed" => res[r] = "completed"
    BY <2>1 DEF ProcessDies
  <2> QED BY <1>2, <1>3, <1>8, <2>1 DEF RecheckReturns, ValidateUser, bookingVars
<1>9. CASE (\E c \in Charges : Charge(c) \/ ChargeFails(c)) \/ UNCHANGED paymentVars
  BY <1>2, <1>9 DEF Charge, ChargeFails, tables, paymentVars, payVars, bookingVars
<1> QED
  BY <1>4, <1>5, <1>6, <1>7, <1>8, <1>9 DEF PaymentNext, PaymentStep

(* Whatever is refused, fails or crashes, no reservation is completed for   *)
(* which the money was not taken.                                           *)
THEOREM SoldIsPaid == PaymentSpec => []CompletedWasPaid
<1>1. PaymentInit => MoneyFirst /\ CompletedWasPaid
  BY DEF PaymentInit, BookingInit, MoneyFirst, CompletedWasPaid
<1> QED BY <1>1, PaymentTyping, SalesStep, PTL DEF PaymentSpec
-----------------------------------------------------------------------------
(* The inductive invariant: as long as nothing fails, no money moves before *)
(* its turn, and none after a refusal.                                      *)
MoneyInTurn ==
    faults = 0 /\ crashes = 0 =>
        \A p \in Uses :
            /\ move[p] # "unheard"
            /\ pay[p] \in {"idle", "find", "price"} => move[p] = "idle"
            /\ pay[p] = "failed" => move[p] \in {"idle", "failed"}

(* Nothing of Booking takes a failure back.                                 *)
LEMMA FaultsCount ==
    ASSUME BookingTypeOK, [BookingNext]_bookingVars, faults' = 0, crashes' = 0
    PROVE  faults = 0 /\ crashes = 0
<1> USE DEF BookingTypeOK, LockTypeOK, lockVars, tables
<1>1. ~ProcessDies
  BY DEF ProcessDies
<1>2. ASSUME NEW r \in Requests, StatementFails(r) \/ LockCommandFails(r) \/ ExpireFails(r)
      PROVE  FALSE
  BY <1>2 DEF StatementFails, OperationFails, LockCommandFails, CommandFails, ExpireFails
<1>3. ASSUME NEW r \in Requests, RequestStep(r) PROVE faults = 0 /\ crashes = 0
  BY <1>1, <1>3
     DEF RequestStep, Lock, AcquireLock, FindSeat, CreateSeat, ReadSeat, InsertReservation,
         MarkSeat, Schedule, Commit, OperationEnds, Release, ReleaseGet, ReleaseDel
<1>4. ASSUME NEW r \in Requests, JobStep(r) PROVE faults = 0 /\ crashes = 0
  BY <1>4 DEF JobStep, JobFires, ExpireFind, ExpireSave, ExpireSeat
<1> QED
  BY <1>1, <1>2, <1>3, <1>4
     DEF BookingNext, RequestRuns, JobRuns, Environment, Reserve, CheckReturns, SeatLockExpires,
         LockExpires, Crash, Tick, bookingVars

LEMMA MoneyStep ==
    ASSUME PaymentTypeOK, MoneyInTurn, [PaymentNext]_paymentVars PROVE MoneyInTurn'
<1> SUFFICES ASSUME faults' = 0, crashes' = 0 PROVE MoneyInTurn'
  BY DEF MoneyInTurn
<1> USE DEF PaymentTypeOK, BookingTypeOK, LockTypeOK, WalletTypeOK, MoneyInTurn, Turns, Advance
<1>1. ~ProcessDies
  BY DEF ProcessDies
<1>2. ~(\E p \in Uses : PaymentFails(p)) /\ ~(\E c \in Charges : ChargeFails(c))
  BY DEF PaymentFails, ChargeFails
<1>3. CASE BookingGoesOn
  <2>1. faults = 0 /\ crashes = 0
    BY <1>1, <1>3, FaultsCount DEF BookingGoesOn
  <2> QED
    BY <1>3, <2>1 DEF BookingGoesOn, payVars, walletVars
<1>4. ASSUME NEW p \in Uses,
             StartPayment(p) \/ FindReservation(p) \/ FindPrice(p) \/ Complete(p)
      PROVE  MoneyInTurn'
  BY <1>4 DEF StartPayment, FindReservation, FindPrice, Complete, walletVars, bookingVars, lockVars
<1>5. ASSUME NEW p \in Uses, TakeMoney(p) PROVE MoneyInTurn'
  <2>1. pay[p] = "wallet" /\ faults = 0 /\ crashes = 0 /\ p \in Moves
    BY <1>5 DEF TakeMoney, bookingVars, lockVars, Moves
  <2>2. CASE (TakeLock(p) \/ FindBalance(p) \/ SaveBalance(p)) /\ UNCHANGED pay
    <3>1. \E m \in {"find", "save", "failed", "booked"} : move' = [move EXCEPT ![p] = m]
      BY <2>2 DEF TakeLock, FindBalance, SaveBalance
    <3> QED BY <2>1, <2>2, <3>1
  <2>3. CASE LockRefused(p) /\ Turns(p, "failed")
    BY <2>1, <2>3 DEF LockRefused
  <2>4. CASE LetGo(p) /\ Turns(p, IF move[p] = "booked" THEN "complete" ELSE "failed")
    <3>1. move' = move /\ move[p] \in {"idle", "booked", "failed"}
      BY <2>1, <2>4 DEF LetGo, InProgress
    <3> QED BY <2>1, <2>4, <3>1
  <2> QED BY <1>5, <2>2, <2>3, <2>4 DEF TakeMoney
<1>6. ASSUME NEW p \in Uses, RecheckReturns(p) PROVE MoneyInTurn'
  BY <1>1, <1>6 DEF RecheckReturns, walletVars, bookingVars, lockVars
<1>7. ASSUME NEW c \in Charges, Charge(c) PROVE MoneyInTurn'
  BY <1>7, WalletAssumption
     DEF Charge, FindForCharge, SaveBalance, bookingVars, lockVars, Moves
<1>8. CASE UNCHANGED paymentVars
  BY <1>8 DEF paymentVars, payVars, walletVars, bookingVars, lockVars
<1> QED
  BY <1>1, <1>2, <1>3, <1>4, <1>5, <1>6, <1>7, <1>8 DEF PaymentNext, PaymentStep, ValidateUser

(* As long as nothing fails, who is refused keeps the money.                *)
THEOREM RefusalsAreFree == PaymentSpec => []RefusedKeepsMoney
<1>1. PaymentInit => MoneyInTurn
  BY DEF PaymentInit, WalletInit, MoneyInTurn, Moves
<1>2. MoneyInTurn => RefusedKeepsMoney
  BY DEF MoneyInTurn, RefusedKeepsMoney, Booked
<1> QED BY <1>1, <1>2, MoneyStep, PaymentTyping, PTL DEF PaymentSpec
-----------------------------------------------------------------------------
(* The reservations under payment: the invariants of Booking still hold, as *)
(* long as payments are punctual.                                           *)
LEMMA PaymentsUseLock ==
    ASSUME [PaymentNext]_paymentVars PROVE LockNext \/ UNCHANGED lockVars
<1>1. CASE ProcessDies
  <2>1. PICK S \in SUBSET Requests : S = {r \in Requests : pc[r] \notin {"idle", "done"}}
    OBVIOUS
  <2>2. Abandon(S)
    BY <1>1, <2>1 DEF ProcessDies
  <2> QED BY <2>2 DEF LockNext
<1>2. CASE BookingGoesOn
  BY <1>2, BookingUsesLock DEF BookingGoesOn
<1>3. ASSUME NEW p \in Uses, StartPayment(p) \/ PaymentStep(p)
      PROVE  LockNext \/ UNCHANGED lockVars
  BY <1>1, <1>3 DEF StartPayment, PaymentStep, FindReservation, FindPrice, TakeMoney, Complete,
                    RecheckReturns, bookingVars
<1>4. ASSUME NEW p \in Uses, PaymentFails(p) PROVE LockNext
  BY <1>4 DEF PaymentFails, LockNext
<1>5. ASSUME NEW c \in Charges, ChargeFails(c) PROVE LockNext
  BY <1>5 DEF ChargeFails, LockNext
<1> QED
  BY <1>1, <1>2, <1>3, <1>4, <1>5 DEF PaymentNext, Charge, ValidateUser, paymentVars, bookingVars

(* ... and to the locks of the seats what NoWaitLock does.                  *)
THEOREM PaymentsUseNoWaitLock == PaymentSpec => LockSpec
<1>1. PaymentInit => LockInit
  BY DEF PaymentInit, BookingInit
<1>2. [PaymentNext]_paymentVars => [LockNext]_lockVars
  BY PaymentsUseLock
<1> QED BY <1>1, <1>2, PTL DEF PaymentSpec, LockSpec

(* Whoever pays was told of the reservation.                                *)
Told(r) == pc[r] = "done" /\ answer[r] = "reserved"

PaysForTold == \A p \in Uses : Paying(p) => Told(Pays[p])

(* The inductive invariant: those of Booking, and what payments rely on.    *)
SalesInv == BookingInv /\ AnswerIsTrue /\ Overdue /\ PaysForTold

LEMMA ToldStays ==
    ASSUME BookingTypeOK, [BookingNext]_bookingVars, NEW r \in Requests, Told(r)
    PROVE  Told(r)'
<1> USE DEF BookingTypeOK, Told, Goto, Answers, At, Body
<1>1. CASE ProcessDies
  BY <1>1 DEF ProcessDies
<1>2. ASSUME NEW q \in Requests, RequestStep(q) PROVE Told(r)'
  BY <1>1, <1>2 DEF RequestStep, Lock, FindSeat, CreateSeat, ReadSeat, InsertReservation,
                    MarkSeat, Schedule, Commit, Release
<1>3. ASSUME NEW q \in Requests, StatementFails(q) \/ LockCommandFails(q) PROVE Told(r)'
  BY <1>3 DEF StatementFails, LockCommandFails
<1>4. ASSUME NEW q \in Requests, JobStep(q) \/ ExpireFails(q) PROVE Told(r)'
  BY <1>4 DEF JobStep, JobFires, ExpireFind, ExpireSave, ExpireSeat, ExpireFails
<1>5. ASSUME NEW q \in Requests, Reserve(q) \/ CheckReturns(q) PROVE Told(r)'
  BY <1>1, <1>5 DEF Reserve, CheckReturns
<1> QED
  BY <1>1, <1>2, <1>3, <1>4, <1>5
     DEF BookingNext, RequestRuns, JobRuns, Environment, SeatLockExpires, Crash, Tick, bookingVars, tables

(* COMPLETED, written over a reservation that is not overdue, disturbs      *)
(* nothing of it.                                                           *)
LEMMA CompletedKeepsInv ==
    ASSUME PaymentTypeOK, SalesInv, Punctual, NEW p \in Uses, Paying(p), SetRes(Pays[p], "completed"),
           UNCHANGED <<at, pc, seat, target, left, expiry, answer>>
    PROVE  BookingInv' /\ AnswerIsTrue' /\ Overdue'
<1> USE DEF PaymentTypeOK, BookingTypeOK, SalesInv, BookingInv, SetRes
<1> DEFINE r == Pays[p]
<1>1. /\ r \in Requests /\ pc[r] = "done" /\ res[r] \in {"pending", "completed"}
      /\ expiry[r] \in {"none", "scheduled"}
      /\ res' = [res EXCEPT ![r] = "completed"]
  BY PaymentAssumption DEF PaysForTold, Told, AnswerIsTrue, Punctual, Overdue
<1>2. (OneRowPerSeat /\ TargetsFit /\ NoRowYet /\ InsertIsFree)'
  BY <1>1 DEF OneRowPerSeat, TargetsFit, NoRowYet, RowsOf, Rows, InsertIsFree
<1>3. Positions'
  BY <1>1 DEF Positions
<1>4. \A s \in Requests : Claims(s)' => Claims(s)
  BY <1>1 DEF Claims, Holds
<1>5. (ClaimsExclude /\ ClaimsShow)'
  BY <1>4 DEF ClaimsExclude, ClaimsShow
<1>6. (AnswerIsTrue /\ Overdue)'
  BY <1>1 DEF AnswerIsTrue, Overdue
<1> QED BY <1>2, <1>3, <1>5, <1>6

LEMMA DyingKeepsInv ==
    ASSUME PaymentTypeOK, SalesInv, ProcessDies, PaymentsDie PROVE SalesInv'
<1> USE DEF PaymentTypeOK, BookingTypeOK, SalesInv, BookingInv, Rows, ProcessDies
<1>1. (OneRowPerSeat /\ TargetsFit /\ NoRowYet /\ InsertIsFree /\ Positions)'
  BY DEF OneRowPerSeat, TargetsFit, NoRowYet, RowsOf, InsertIsFree, Positions
<1>2. (ClaimsExclude /\ ClaimsShow)'
  BY DEF Positions, ClaimsExclude, ClaimsShow, Claims, Holds
<1>3. (AnswerIsTrue /\ Overdue)'
  BY DEF AnswerIsTrue, Overdue, Positions
<1>4. PaysForTold'
  BY DEF PaymentsDie, PaysForTold, Paying
<1> QED BY <1>1, <1>2, <1>3, <1>4

LEMMA SalesInvStep ==
    ASSUME PaymentTypeOK, MutualExclusion, SalesInv, Punctual, [PaymentNext]_paymentVars
    PROVE  SalesInv'
<1> USE DEF SalesInv, Turns, PaymentTypeOK
<1>1. ASSUME [BookingNext]_bookingVars PROVE BookingInv' /\ AnswerIsTrue' /\ Overdue'
  BY <1>1, BookingInvStep, AnswerStep, OverdueStep
<1>2. ASSUME [BookingNext]_bookingVars, \A p \in Uses : Paying(p)' => Paying(p) PROVE SalesInv'
  BY <1>1, <1>2, ToldStays, PaymentAssumption DEF PaysForTold
<1>3. ASSUME PaymentsDie PROVE \A p \in Uses : Paying(p)' => Paying(p)
  BY <1>3 DEF PaymentsDie, Paying
<1>4. CASE BookingGoesOn
  BY <1>2, <1>3, <1>4 DEF BookingGoesOn, payVars, Paying
<1>5. ASSUME NEW p \in Uses, StartPayment(p) PROVE SalesInv'
  BY <1>1, <1>5 DEF StartPayment, bookingVars, PaysForTold, Paying, Told
<1>6. ASSUME NEW p \in Uses, FindReservation(p) \/ FindPrice(p) \/ TakeMoney(p)
      PROVE  SalesInv'
  BY <1>2, <1>6 DEF FindReservation, FindPrice, TakeMoney, Paying
<1>7. ASSUME NEW p \in Uses, SetRes(Pays[p], "completed"), pay[p] = "complete",
             \A q \in Uses : Paying(q)' => Paying(q),
             UNCHANGED <<at, pc, seat, target, left, expiry, answer>>
      PROVE  SalesInv'
  BY <1>7, CompletedKeepsInv DEF PaysForTold, Told, Paying
<1>8. ASSUME NEW p \in Uses, Complete(p) PROVE SalesInv'
  BY <1>7, <1>8 DEF Complete, Paying, lockVars
<1>9. ASSUME NEW p \in Uses, PaymentFails(p) PROVE SalesInv'
  <2>1. \A q \in Uses : Paying(q)' => Paying(q)
    BY <1>9 DEF PaymentFails, Paying
  <2>2. CASE pay[p] = "complete" /\ SetRes(Pays[p], "completed")
    BY <1>7, <1>9, <2>1, <2>2 DEF PaymentFails
  <2>3. CASE UNCHANGED res
    BY <1>9, <2>1, <2>3
       DEF PaymentFails, BookingInv, OneRowPerSeat, TargetsFit, NoRowYet, RowsOf, Rows,
           InsertIsFree, Positions, ClaimsExclude, ClaimsShow, Claims, Holds, AnswerIsTrue,
           Overdue, PaysForTold, Told
  <2> QED BY <1>9, <2>2, <2>3 DEF PaymentFails
<1>10. ASSUME (\E p \in Uses : RecheckReturns(p)) \/ ValidateUser PROVE SalesInv'
  BY <1>2, <1>10, DyingKeepsInv DEF RecheckReturns, ValidateUser, Paying
<1>11. CASE (\E c \in Charges : Charge(c)) \/ UNCHANGED paymentVars
  BY <1>2, <1>11 DEF Charge, paymentVars, payVars, Paying
<1>12. ASSUME NEW c \in Charges, ChargeFails(c) PROVE SalesInv'
  BY <1>12
     DEF ChargeFails, tables, BookingInv, OneRowPerSeat, TargetsFit, NoRowYet, RowsOf, Rows,
         InsertIsFree, Positions, ClaimsExclude, ClaimsShow, Claims, Holds, AnswerIsTrue,
         Overdue, PaysForTold, Paying, Told
<1> QED
  BY <1>4, <1>5, <1>6, <1>8, <1>9, <1>10, <1>11, <1>12 DEF PaymentNext, PaymentStep

LEMMA PunctualIsPayment == PunctualSpec => PaymentSpec
BY PTL DEF PunctualSpec, PaymentSpec

LEMMA Sales ==
    ASSUME ~OutlivesTTL
    PROVE  PunctualSpec => [](PaymentTypeOK /\ SalesInv /\ Punctual)
<1>1. PaymentInit => SalesInv /\ Punctual
  BY BookingInvInit
     DEF PaymentInit, BookingInit, SalesInv, AnswerIsTrue, Overdue, PaysForTold, Paying, Punctual
<1>2. Punctual /\ [PaymentNext /\ Punctual' /\ Apart']_paymentVars => Punctual'
  BY DEF Punctual, Paying, paymentVars, payVars, bookingVars
<1>3. PaymentTypeOK /\ MutualExclusion /\ SalesInv /\ Punctual
        /\ [PaymentNext /\ Punctual' /\ Apart']_paymentVars => SalesInv'
  BY SalesInvStep
<1> QED
  BY <1>1, <1>2, <1>3, PunctualIsPayment, PaymentsUseNoWaitLock, LockExclusion, PaymentTyping, PTL
     DEF PunctualSpec

(* When payments are over before their deadlines, no seat is sold to one    *)
(* and held by another ...                                                  *)
THEOREM NoSeatSoldTwice == ASSUME ~OutlivesTTL PROVE PunctualSpec => []NoDoubleBooking
<1>1. SalesInv => NoDoubleBooking
  BY DEF SalesInv, BookingInv, ClaimsExclude, Claims, NoDoubleBooking
<1> QED BY <1>1, Sales, PTL

(* ... a seat that is reserved or sold is taken ...                         *)
THEOREM SoldIsTaken == ASSUME ~OutlivesTTL PROVE PunctualSpec => []BookedSeatIsTaken
<1>1. SalesInv => BookedSeatIsTaken
  BY BookedShows DEF SalesInv
<1> QED BY <1>1, Sales, PTL

(* ... and not listed ...                                                   *)
THEOREM SoldIsNotListed == ASSUME ~OutlivesTTL PROVE PunctualSpec => []OfferedIsFree
<1>1. PaymentTypeOK /\ SalesInv => OfferedIsFree
  BY ListedShows DEF PaymentTypeOK, SalesInv
<1> QED BY <1>1, Sales, PTL

(* ... and who is told of a reservation has one, be it paid meanwhile.      *)
THEOREM PayersAreTold == ASSUME ~OutlivesTTL PROVE PunctualSpec => []AnswerIsTrue
<1>1. SalesInv => AnswerIsTrue
  BY DEF SalesInv
<1> QED BY <1>1, Sales, PTL

-----------------------------------------------------------------------------
(* To the reservations a payment is nothing but the status it writes, in    *)
(* place of one that claims its seat as well, or the end of the process.    *)
Completes(r) ==
    /\ res[r] \in {"pending", "completed"}
    /\ res' = [res EXCEPT ![r] = "completed"]
    /\ UNCHANGED <<pc, expiry>>

LEMMA PaymentsComplete ==
    ASSUME PaymentTypeOK, SalesInv, Punctual, [PaymentNext]_paymentVars
    PROVE  \/ [BookingNext]_bookingVars
           \/ ProcessDies
           \/ UNCHANGED <<pc, res, expiry>>
           \/ \E r \in Requests : Completes(r)
<1> USE DEF PaymentTypeOK, Completes
<1>1. ASSUME NEW p \in Uses, pay[p] = "complete"
      PROVE  Pays[p] \in Requests /\ res[Pays[p]] \in {"pending", "completed"}
  BY <1>1, PaymentAssumption
     DEF SalesInv, PaysForTold, Paying, Told, AnswerIsTrue, Overdue, Punctual
<1>2. ASSUME NEW p \in Uses, Complete(p) PROVE \E r \in Requests : Completes(r)
  BY <1>1, <1>2 DEF Complete, SetRes
<1>3. ASSUME NEW p \in Uses, PaymentFails(p)
      PROVE  UNCHANGED <<pc, res, expiry>> \/ \E r \in Requests : Completes(r)
  <2>1. CASE UNCHANGED res
    BY <1>3, <2>1 DEF PaymentFails
  <2>2. CASE pay[p] = "complete" /\ SetRes(Pays[p], "completed")
    BY <1>1, <1>3, <2>2 DEF PaymentFails, SetRes
  <2> QED BY <1>3, <2>1, <2>2 DEF PaymentFails
<1> QED
  BY <1>2, <1>3
     DEF PaymentNext, BookingGoesOn, StartPayment, PaymentStep, FindReservation, FindPrice,
         TakeMoney, RecheckReturns, Charge, ChargeFails, tables, ValidateUser, paymentVars,
         bookingVars

LEMMA PaidLeaseStep ==
    ASSUME PaymentTypeOK, SalesInv, SalesInv', Punctual, [PaymentNext]_paymentVars,
           NEW k \in Resources
    PROVE  [Lease(k)!Next]_(TenureOn(k))
<1> USE DEF PaymentTypeOK, SalesInv
<1>1. CASE [BookingNext]_bookingVars
  BY <1>1, LeaseStep
<1>2. CASE ProcessDies
  BY <1>2, DyingEndsLeases, EndsOfLeases DEF Callers
<1>3. CASE UNCHANGED <<pc, res, expiry>>
  BY <1>3 DEF TenureOn, Tenure, Claims, Holds
<1>4. CASE \E r \in Requests : Completes(r)
  <2>1. \A r \in Requests : Tenure(r)' = Tenure(r)
    BY <1>4 DEF Completes, Tenure, Claims, Holds, BookingTypeOK
  <2> QED BY <2>1 DEF TenureOn, Callers
<1> QED BY <1>1, <1>2, <1>3, <1>4, PaymentsComplete

(* Reserved or sold, expired or abandoned, the reservations of a seat       *)
(* succeed each other as long as payments are over in time.                 *)
THEOREM PaidLeasesSucceed == ASSUME ~OutlivesTTL PROVE PunctualSpec => SeatsAreLeased
<1>1. PaymentInit => \A k \in Resources : Lease(k)!Init
  BY DEF PaymentInit, BookingInit, TenureOn, Tenure, Claims, Holds, Callers, Lease!Init
<1>2. PaymentTypeOK /\ SalesInv /\ SalesInv' /\ Punctual
        /\ [PaymentNext /\ Punctual' /\ Apart']_paymentVars
        => [\A k \in Resources : [Lease(k)!Next]_(TenureOn(k))]_bookingVars
  BY PaidLeaseStep
<1> QED BY <1>1, <1>2, Sales, PTL DEF PunctualSpec, SeatsAreLeased

(* No reservation expires early either, paid or not; that a paid one        *)
(* expires at all is what the expiry job does wrong (PaidStaysPaid).        *)
THEOREM PaidFiveMinutes == ASSUME ~OutlivesTTL PROVE PunctualSpec => NeverExpiredEarly
<1>1. ASSUME PaymentTypeOK, SalesInv, Punctual, [PaymentNext]_paymentVars,
             NEW r \in Requests, res[r] # "expired", res'[r] = "expired"
      PROVE  left[r] = 0
  <2> USE DEF PaymentTypeOK, SalesInv
  <2>1. CASE [BookingNext]_bookingVars
    BY <1>1, <2>1, OnlyOverdueExpire
  <2>2. CASE ProcessDies
    BY <1>1, <2>2 DEF ProcessDies, BookingTypeOK
  <2>3. CASE UNCHANGED <<pc, res, expiry>>
    BY <1>1, <2>3
  <2>4. CASE \E q \in Requests : Completes(q)
    BY <1>1, <2>4 DEF Completes, BookingTypeOK
  <2> QED BY <1>1, <2>1, <2>2, <2>3, <2>4, PaymentsComplete
<1>2. PaymentTypeOK /\ SalesInv /\ Punctual /\ [PaymentNext /\ Punctual' /\ Apart']_paymentVars
        => [\A r \in Requests : res[r] # "expired" /\ res'[r] = "expired" => left[r] = 0]_bookingVars
  BY <1>1
<1> QED BY <1>2, Sales, PTL DEF PunctualSpec, NeverExpiredEarly
=============================================================================
