-------------------------------- MODULE Wallet --------------------------------
(***************************************************************************)
(* The balance of one user.  BalanceService.decreaseBalance is called under *)
(* the user's lock, by BalanceFacade.decreaseBalance and by the payment;    *)
(* chargeBalance takes no lock.  Both read the row and write an absolute    *)
(* value back in a second statement (TypeORM's save).                       *)
(*                                                                          *)
(* Of the lock only its promise is used, the abstract Mutex, whose actions  *)
(* are the ones the users of the lock take; WaitLock implements it.         *)
(***************************************************************************)
EXTENDS Integers

CONSTANTS
    Uses,        \* calls of decreaseBalance
    Charges,     \* calls of chargeBalance
    Amount,      \* the amount of each
    Initially    \* the balance before any of them

Moves == Uses \cup Charges

ASSUME WalletAssumption ==
    /\ Uses \cap Charges = {}
    /\ Amount \in [Moves -> Nat \ {0}]
    /\ Initially \in Nat

VARIABLES
    balance,     \* Users.balance
    phase,       \* the user's lock: where each use is in withLockBySrc
    move,        \* where each call is in its transaction
    seen         \* the balance each call has read

walletVars == <<balance, phase, move, seen>>

UserLock == INSTANCE Mutex WITH Clients <- Uses, phase <- phase

(* A call whose write was committed is "booked", or "unheard" when it was   *)
(* told of a failure nevertheless.                                          *)
WalletTypeOK ==
    /\ balance \in Int
    /\ UserLock!TypeOK
    /\ move \in [Moves -> {"idle", "find", "save", "booked", "unheard", "failed"}]
    /\ seen \in [Moves -> Int]

WalletInit ==
    /\ balance = Initially
    /\ UserLock!Init
    /\ move = [o \in Moves |-> "idle"]
    /\ seen = [o \in Moves |-> 0]

Booked(o)     == move[o] \in {"booked", "unheard"}
InProgress(o) == move[o] \in {"find", "save"}
Advance(o, m) == move' = [move EXCEPT ![o] = m]

-----------------------------------------------------------------------------
(* Mutant of TakeLock: decreaseBalance is called without the lock. *)
TakeNoLock(u) ==
    /\ move[u] = "idle"
    /\ phase' = [phase EXCEPT ![u] = "running"]
    /\ Advance(u, "find")
    /\ UNCHANGED <<balance, seen>>

(* withLockBySrc(userId, "user", ...): the turn of u, or a refusal. *)
TakeLock(u) ==
    /\ move[u] = "idle"
    /\ UserLock!Enter(u)
    /\ Advance(u, "find")
    /\ UNCHANGED <<balance, seen>>

LockRefused(u) ==
    /\ move[u] = "idle" /\ phase[u] = "asking"
    /\ UserLock!Finish({u})
    /\ Advance(u, "failed")
    /\ UNCHANGED <<balance, seen>>

(* Mutant of FindBalance: the balance is not compared. *)
FindUnchecked(u) ==
    /\ u \in Uses /\ move[u] = "find"
    /\ seen' = [seen EXCEPT ![u] = balance]
    /\ Advance(u, "save")
    /\ UNCHANGED <<balance, phase>>

(* decreaseBalance reads and compares: 'Insufficient balance'. *)
FindBalance(u) ==
    /\ u \in Uses /\ move[u] = "find"
    /\ seen' = [seen EXCEPT ![u] = balance]
    /\ Advance(u, IF balance < Amount[u] THEN "failed" ELSE "save")
    /\ UNCHANGED <<balance, phase>>

(* chargeBalance reads. *)
FindForCharge(c) ==
    /\ c \in Charges /\ move[c] = "idle"
    /\ seen' = [seen EXCEPT ![c] = balance]
    /\ Advance(c, "save")
    /\ UNCHANGED <<balance, phase>>

Effect(o) == IF o \in Charges THEN Amount[o] ELSE 0 - Amount[o]

(* save, and COMMIT, of what was computed from the balance read before. *)
SaveBalance(o) ==
    /\ move[o] = "save"
    /\ balance' = seen[o] + Effect(o)
    /\ Advance(o, "booked")
    /\ UNCHANGED <<phase, seen>>

(* A statement fails, the last one perhaps after it was committed. *)
WalletFails(o) ==
    /\ InProgress(o)
    /\ \/ Advance(o, "failed") /\ UNCHANGED balance
       \/ move[o] = "save" /\ Advance(o, "unheard") /\ balance' = seen[o] + Effect(o)
    /\ UNCHANGED <<phase, seen>>

(* The finally block of the lock manager. *)
LetGo(u) ==
    /\ phase[u] = "running" /\ ~InProgress(u)
    /\ UserLock!Finish({u})
    /\ UNCHANGED <<balance, move, seen>>

(* The process of the calls S dies with them. *)
CallsDie(S) ==
    /\ move' = [o \in Moves |-> IF o \in S /\ InProgress(o) THEN "failed" ELSE move[o]]
    /\ UserLock!Finish({u \in Uses \cap S : phase[u] = "running"})
    /\ UNCHANGED <<balance, seen>>

UseNext(u)    == TakeLock(u) \/ LockRefused(u) \/ FindBalance(u) \/ LetGo(u)
ChargeNext(c) == FindForCharge(c)

WalletNext ==
    \/ \E u \in Uses : UseNext(u)
    \/ \E c \in Charges : ChargeNext(c)
    \/ \E o \in Moves : SaveBalance(o) \/ WalletFails(o)
    \/ \E S \in SUBSET Moves : CallsDie(S)

WalletSpec == WalletInit /\ [][WalletNext]_walletVars

(* A charge has the balance for itself, as in a client that waits for its   *)
(* charge to be confirmed before it pays.                                   *)
Apart == \A c \in Charges, o \in Moves : InProgress(c) /\ InProgress(o) => c = o

QuietSpec == WalletInit /\ [][WalletNext /\ Apart']_walletVars

-----------------------------------------------------------------------------
(* The balance moves by what is booked, by exactly that and at no other     *)
(* time: no update of it is lost to another that read the same row.         *)
MovesExactly ==
    [][/\ \A o \in Moves : ~Booked(o) /\ Booked(o)' => balance' = balance + Effect(o)
       /\ balance' # balance => \E o \in Moves : ~Booked(o) /\ Booked(o)']_walletVars

(* No user ever owes: what is written is what was read and compared, less   *)
(* the amount, even while charges come in between and get lost.             *)
NeverOverdrawn == balance >= 0
=============================================================================
