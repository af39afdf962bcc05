----------------------------- MODULE LockedWallet -----------------------------
(***************************************************************************)
(* decreaseBalance as the application has it: BalanceService's transaction  *)
(* as the operation of RedisLockManager.withLockBySrc(userId, "user", ...), *)
(* command by command, while charges of the same balance take no lock.      *)
(*                                                                          *)
(* WaitLock sees of an operation only that it ends, Wallet of the lock only *)
(* its promise; here the requests of the one are the uses of the other, and *)
(* what is promised has to come from the queue and the key in Redis.        *)
(***************************************************************************)
EXTENDS WaitLock

CONSTANTS
    Charges,      \* calls of chargeBalance
    ServedBy,     \* the instance that runs each charge
    Amount,       \* the amount of each call
    Initially     \* the balance before any of them

VARIABLES balance, move, seen

purse      == <<balance, move, seen>>
lockedVars == <<vars, purse>>

(* Where a use is in withLockBySrc, as Wallet sees it: the operation begins *)
(* with the lock; who dies in the queue asks for ever.                      *)
UsePhase ==
    [r \in Requests |-> IF move[r] = "idle" THEN "asking"
                        ELSE IF At(r, "operate") THEN "running" ELSE "over"]

User == INSTANCE Wallet WITH Uses <- Requests, phase <- UsePhase

ASSUME LockedWalletAssumption ==
    /\ Requests \cap Charges = {}
    /\ ServedBy \in [Charges -> Instances]
    /\ Amount \in [User!Moves -> Nat \ {0}]
    /\ Initially \in Nat

LockedTypeOK == TypeOK /\ User!WalletTypeOK

LockedInit ==
    /\ Init
    /\ balance = Initially
    /\ move = [o \in User!Moves |-> "idle"]
    /\ seen = [o \in User!Moves |-> 0]

-----------------------------------------------------------------------------
(* The lock is taken and the operation called, or the call is refused. *)
TakesLock(r) ==
    /\ AcquireLock(r)
    /\ User!Advance(r, IF pc'[r] = "operate" THEN "find" ELSE "failed")
    /\ UNCHANGED <<balance, seen>>

(* The transaction of the operation.  Statements leave UsePhase alone, which *)
(* looks at a move only to see whether it has begun.                        *)
Decreases(r) ==
    /\ At(r, "operate")
    /\ UNCHANGED vars
    /\ User!FindBalance(r) \/ User!SaveBalance(r)

(* Mutant of Settled: the operation is called and not awaited. *)
SettlesAtOnce(r) ==
    /\ Operation(r)
    /\ UNCHANGED purse

(* The promise of the operation settles as the transaction did. *)
Settled(r) ==
    /\ Operation(r)
    /\ ~User!InProgress(r)
    /\ outcome'[r] = IF move[r] = "booked" THEN "ran" ELSE "failed"
    /\ UNCHANGED purse

(* What else the lock manager does, before the operation and after it. *)
LockGoesOn(r) ==
    /\ \/ JoinQueue(r) \/ Zadd(r) \/ WaitForTurn(r) \/ Subscribe(r) \/ Notified(r)
       \/ ReleaseGet(r) \/ ReleaseDel(r) \/ LeaveQueue(r) \/ GetNextReqId(r) \/ NotifyNext(r)
       \/ MessageLost(r)
    /\ UNCHANGED purse

(* A command before the operation fails, and the call with it; one after it *)
(* takes nothing back.                                                      *)
CommandFails(r) ==
    /\ CommandLost(r) \/ ReplyLost(r)
    /\ \/ pc[r] \in TrySteps /\ User!Advance(r, "failed") /\ UNCHANGED <<balance, seen>>
       \/ pc[r] \in FinallySteps /\ UNCHANGED purse

(* A statement fails, of a use or a charge, executed or not: the faults of  *)
(* the database are not among those of Redis, and need no bound.            *)
StatementFails(o) ==
    /\ UNCHANGED vars
    /\ User!WalletFails(o)

Charge(c) ==
    /\ UNCHANGED vars
    /\ User!FindForCharge(c) \/ User!SaveBalance(c)

RunBy(i) == {r \in Requests : Host[r] = i} \cup {c \in Charges : ServedBy[c] = i}

(* An instance dies with the requests and charges it runs. *)
InstanceDies(i) ==
    /\ Crash(i)
    /\ move' = [o \in User!Moves |->
                   IF o \in RunBy(i) /\ User!InProgress(o) THEN "failed" ELSE move[o]]
    /\ UNCHANGED <<balance, seen>>

LockedNext ==
    \/ \E r \in Requests :
          TakesLock(r) \/ Decreases(r) \/ Settled(r) \/ LockGoesOn(r) \/ CommandFails(r)
    \/ \E o \in User!Moves : StatementFails(o)
    \/ \E c \in Charges : Charge(c)
    \/ \E i \in Instances : InstanceDies(i)
    \/ (LockExpires \/ Tick) /\ UNCHANGED purse

LockedSpec == LockedInit /\ [][LockedNext]_lockedVars

(* Requests reach Redis in the order of their scores. *)
OrderedLockedSpec == LockedInit /\ [][LockedNext /\ InOrder]_lockedVars

(* Charges keep apart from other calls. *)
QuietLockedSpec == LockedInit /\ [][LockedNext /\ User!Apart']_lockedVars

-----------------------------------------------------------------------------
(* The balance behind the lock manager is used as Wallet allows: of the     *)
(* calls in the queue one at a time takes money, each at most once, and     *)
(* none whose lock was refused or whose instance died.                      *)
ImplementsWallet == User!WalletSpec
=============================================================================
