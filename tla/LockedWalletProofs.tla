-------------------------- MODULE LockedWalletProofs --------------------------
(***************************************************************************)
(* The theorems of LockedWallet: decreaseBalance behind the lock manager    *)
(* uses the balance as Wallet allows, so that what is known of the lock and *)
(* what is known of the wallet hold of the two together.                    *)
(***************************************************************************)
EXTENDS LockedWallet, WaitLockProofs, Integers

(* The theorems of Wallet, about the balance behind the lock. *)
UserProofs == INSTANCE WalletProofs WITH Uses <- Requests, phase <- UsePhase

(* To the lock manager the transaction and the charges are an operation     *)
(* like any other.                                                          *)
LEMMA LockedUsesLock == LockedNext => [Next]_vars
<1> SUFFICES ASSUME LockedNext PROVE [Next]_vars
  OBVIOUS
<1>1. ASSUME NEW r \in Requests,
             TakesLock(r) \/ Decreases(r) \/ Settled(r) \/ LockGoesOn(r) \/ CommandFails(r)
      PROVE  [Next]_vars
  BY <1>1 DEF TakesLock, Decreases, Settled, LockGoesOn, CommandFails, Next, Step, Fault
<1> QED
  BY <1>1 DEF LockedNext, StatementFails, Charge, InstanceDies, Next

(* So what WaitLock guarantees it guarantees here.                          *)
THEOREM LockedIsLock == LockedSpec => Spec
<1>1. LockedInit => Init
  BY DEF LockedInit
<1>2. [LockedNext]_lockedVars => [Next]_vars
  BY LockedUsesLock DEF lockedVars
<1> QED
  BY <1>1, <1>2, PTL DEF LockedSpec, Spec

-----------------------------------------------------------------------------
(* The types of the transactions.                                           *)
MoveTypes ==
    /\ balance \in Int
    /\ move \in [User!Moves -> {"idle", "find", "save", "booked", "unheard", "failed"}]
    /\ seen \in [User!Moves -> Int]

(* The transaction of a use runs while the request operates, and not before *)
(* nor after.                                                               *)
BeforeOperation == {"idle"} \cup (TrySteps \ {"operate"})

InOperation ==
    \A r \in Requests :
        /\ pc[r] \in BeforeOperation => move[r] = "idle"
        /\ pc[r] = "operate" => move[r] # "idle"
        /\ User!InProgress(r) => pc[r] = "operate"

LockedInv == MoveTypes /\ InOperation

LEMMA WalletTypes == User!WalletTypeOK <=> MoveTypes
<1>1. UsePhase \in [Requests -> {"asking", "running", "over"}]
  BY DEF UsePhase
<1> QED
  BY <1>1 DEF User!WalletTypeOK, User!UserLock!TypeOK, MoveTypes

(* A step of the lock manager that begins and ends no operation is nothing  *)
(* to the wallet.                                                           *)
LEMMA QuietStep ==
    ASSUME LockedInv, UNCHANGED purse,
           \A r \in Requests : /\ pc[r] = "operate" <=> pc'[r] = "operate"
                               /\ pc'[r] \in BeforeOperation => pc[r] \in BeforeOperation
    PROVE  LockedInv' /\ UNCHANGED User!walletVars
<1>1. balance' = balance /\ move' = move /\ seen' = seen
  BY DEF purse
<1>2. UsePhase' = UsePhase
  BY <1>1 DEF UsePhase, At
<1>3. MoveTypes' /\ InOperation'
  BY <1>1 DEF LockedInv, MoveTypes, InOperation, User!InProgress
<1> QED
  BY <1>1, <1>2, <1>3 DEF User!walletVars, LockedInv

LEMMA LockGoesOnQuietly ==
    ASSUME TypeOK, LockedInv, NEW r \in Requests, LockGoesOn(r)
    PROVE  LockedInv' /\ UNCHANGED User!walletVars
<1>1. \A s \in Requests : /\ pc[s] = "operate" <=> pc'[s] = "operate"
                          /\ pc'[s] \in BeforeOperation => pc[s] \in BeforeOperation
  BY DEF TypeOK, Goto, At, BeforeOperation, TrySteps, LockGoesOn, JoinQueue, Zadd, WaitForTurn,
         Subscribe, Notified, ReleaseGet, ReleaseDel, LeaveQueue, GetNextReqId, NotifyNext,
         MessageLost
<1> QED
  BY <1>1, QuietStep DEF LockGoesOn

(* The lock is taken by one whose turn it is alone.                         *)
LEMMA TakesLockStep ==
    ASSUME TypeOK, LockedInv, NEW r \in Requests, TakesLock(r)
    PROVE  LockedInv' /\ (EntersAlone => User!WalletNext)
<1> USE DEF TypeOK, Goto, At, TakesLock, AcquireLock, User!Advance
<1>1. r \in User!Moves /\ pc[r] = "acquire" /\ move[r] = "idle"
  BY DEF LockedInv, InOperation, BeforeOperation, TrySteps, User!Moves
<1>2. LockedInv'
  BY <1>1 DEF LockedInv, MoveTypes, InOperation, User!InProgress, BeforeOperation, TrySteps
<1>3. ASSUME EntersAlone, pc'[r] = "operate" PROVE User!WalletNext
  <2>1. \A s \in Requests : UsePhase[s] # "running"
    BY <1>3 DEF UsePhase, EntersAlone
  <2>2. UsePhase' = [UsePhase EXCEPT ![r] = "running"]
    <3>1. \A s \in Requests : UsePhase'[s] = IF s = r THEN "running" ELSE UsePhase[s]
      BY <1>1, <1>3 DEF UsePhase, LockedInv, MoveTypes, User!Moves
    <3> QED BY <3>1 DEF UsePhase
  <2>3. User!TakeLock(r)
    BY <1>1, <1>3, <2>1, <2>2 DEF User!TakeLock, User!UserLock!Enter, UsePhase
  <2> QED
    BY <2>3 DEF User!WalletNext, User!UseNext
<1>4. ASSUME pc'[r] # "operate" PROVE User!WalletNext
  <2>1. UsePhase' = [s \in Requests |-> IF s \in {r} THEN "over" ELSE UsePhase[s]]
    BY <1>1, <1>4 DEF UsePhase, LockedInv, MoveTypes
  <2>2. User!LockRefused(r)
    BY <1>1, <1>4, <2>1 DEF User!LockRefused, User!UserLock!Finish, UsePhase
  <2> QED
    BY <2>2 DEF User!WalletNext, User!UseNext
<1> QED
  BY <1>2, <1>3, <1>4

(* The lock is let go when the transaction is over.                         *)
LEMMA SettledStep ==
    ASSUME TypeOK, LockedInv, NEW r \in Requests, Settled(r)
    PROVE  LockedInv' /\ User!WalletNext
<1> USE DEF TypeOK, Goto, At, Settled, Operation, purse
<1>1. pc[r] = "operate" /\ pc' = [pc EXCEPT ![r] = "get"] /\ move[r] # "idle"
  BY DEF LockedInv, InOperation
<1>2. LockedInv'
  BY <1>1 DEF LockedInv, MoveTypes, InOperation, User!InProgress, BeforeOperation, TrySteps
<1>3. UsePhase' = [s \in Requests |-> IF s \in {r} THEN "over" ELSE UsePhase[s]]
  BY <1>1 DEF UsePhase
<1>4. User!LetGo(r)
  BY <1>1, <1>3 DEF User!LetGo, User!UserLock!Finish, UsePhase
<1> QED
  BY <1>2, <1>4 DEF User!WalletNext, User!UseNext

(* A use whose commands fail before its operation is refused.               *)
LEMMA CommandFailsStep ==
    ASSUME TypeOK, LockedInv, NEW r \in Requests, CommandFails(r)
    PROVE  LockedInv' /\ (User!WalletNext \/ UNCHANGED User!walletVars)
<1> USE DEF TypeOK, Goto, At, User!Advance
<1>1. /\ Rejects(r)
      /\ pc[r] \in {"zadd", "zrange", "acquire"} \cup FinallySteps
  BY DEF CommandFails, CommandLost, ReplyLost, FinallySteps
<1>2. CASE pc[r] \in TrySteps
  <2>1. /\ pc[r] \in BeforeOperation /\ move[r] = "idle" /\ r \in User!Moves
        /\ pc' = [pc EXCEPT ![r] = "get"]
        /\ move' = [move EXCEPT ![r] = "failed"]
        /\ UNCHANGED <<balance, seen>>
    BY <1>1, <1>2
       DEF CommandFails, Rejects, LockedInv, InOperation, BeforeOperation, TrySteps,
           FinallySteps, User!Moves
  <2>2. LockedInv'
    BY <2>1 DEF LockedInv, MoveTypes, InOperation, User!InProgress, BeforeOperation, TrySteps
  <2>3. UsePhase' = [s \in Requests |-> IF s \in {r} THEN "over" ELSE UsePhase[s]]
    BY <2>1 DEF UsePhase, LockedInv, MoveTypes
  <2>4. User!LockRefused(r)
    BY <2>1, <2>3 DEF User!LockRefused, User!UserLock!Finish, UsePhase
  <2> QED
    BY <2>2, <2>4 DEF User!WalletNext, User!UseNext
<1>3. CASE pc[r] \in FinallySteps
  <2>1. UNCHANGED purse
    BY <1>3 DEF CommandFails, FinallySteps, TrySteps
  <2>2. pc' = [pc EXCEPT ![r] = "done"] /\ pc[r] # "operate"
    BY <1>1, <1>3 DEF Rejects, FinallySteps, TrySteps
  <2> QED
    BY <2>1, <2>2, QuietStep DEF BeforeOperation, TrySteps
<1> QED
  BY <1>1, <1>2, <1>3 DEF TrySteps

(* A statement of a transaction, or its failure, is one of the wallet.      *)
LEMMA StatementStep ==
    ASSUME LockedInv, NEW o \in User!Moves, UNCHANGED pc,
           \/ o \in Requests /\ pc[o] = "operate" /\ User!FindBalance(o)
           \/ o \in Requests /\ pc[o] = "operate" /\ User!SaveBalance(o)
           \/ o \in Charges /\ (User!FindForCharge(o) \/ User!SaveBalance(o))
           \/ User!WalletFails(o)
    PROVE  LockedInv' /\ User!WalletNext
<1> USE DEF LockedInv, MoveTypes
<1>1. User!WalletNext
  BY DEF User!WalletNext, User!UseNext, User!ChargeNext
<1>2. User!Effect(o) \in Int
  BY LockedWalletAssumption DEF User!Effect
<1>3. MoveTypes'
  BY <1>2 DEF User!FindBalance, User!SaveBalance, User!FindForCharge, User!WalletFails,
              User!Advance
<1>4. \A q \in Requests : /\ move'[q] = "idle" <=> move[q] = "idle"
                          /\ User!InProgress(q)' => User!InProgress(q)
  BY LockedWalletAssumption
     DEF User!FindBalance, User!SaveBalance, User!FindForCharge, User!WalletFails,
         User!Advance, User!InProgress, User!Moves
<1>5. InOperation'
  BY <1>4 DEF InOperation
<1> QED
  BY <1>1, <1>3, <1>5

(* An instance takes the transactions it runs with it.                      *)
LEMMA InstanceDiesStep ==
    ASSUME TypeOK, LockedInv, NEW i \in Instances, InstanceDies(i)
    PROVE  LockedInv' /\ User!WalletNext
<1> USE DEF LockedInv, MoveTypes
<1>1. /\ pc' = [r \in Requests |-> IF Host[r] = i /\ Live(r) THEN "dead" ELSE pc[r]]
      /\ move' = [o \in User!Moves |->
                     IF o \in RunBy(i) /\ User!InProgress(o) THEN "failed" ELSE move[o]]
      /\ UNCHANGED <<balance, seen>>
  BY DEF InstanceDies, Crash
<1>2. /\ RunBy(i) \in SUBSET User!Moves
      /\ \A r \in Requests : r \in RunBy(i) <=> Host[r] = i
  BY LockedWalletAssumption DEF RunBy, User!Moves
<1>3. MoveTypes'
  BY <1>1
<1>4. InOperation'
  BY <1>1, <1>2 DEF InOperation, User!InProgress, User!Moves, Live, BeforeOperation, TrySteps
<1>5. UsePhase' = [r \in Requests |->
                     IF r \in {u \in Requests \cap RunBy(i) : UsePhase[u] = "running"}
                     THEN "over" ELSE UsePhase[r]]
  BY <1>1, <1>2 DEF UsePhase, At, Live, User!InProgress, User!Moves, InOperation
<1>6. User!CallsDie(RunBy(i))
  BY <1>1, <1>5 DEF User!CallsDie, User!UserLock!Finish
<1> QED
  BY <1>2, <1>3, <1>4, <1>6 DEF User!WalletNext

-----------------------------------------------------------------------------
LEMMA LockedStep ==
    ASSUME TypeOK, LockedInv, [LockedNext]_lockedVars
    PROVE  LockedInv' /\ (EntersAlone => User!WalletNext \/ UNCHANGED User!walletVars)
<1>1. ASSUME NEW r \in Requests,
             TakesLock(r) \/ Settled(r) \/ LockGoesOn(r) \/ CommandFails(r)
      PROVE  LockedInv' /\ (EntersAlone => User!WalletNext \/ UNCHANGED User!walletVars)
  BY <1>1, TakesLockStep, SettledStep, LockGoesOnQuietly, CommandFailsStep
<1>2. ASSUME NEW r \in Requests, Decreases(r) PROVE LockedInv' /\ User!WalletNext
  BY <1>2, StatementStep DEF Decreases, At, vars, User!Moves
<1>3. ASSUME NEW o \in User!Moves, StatementFails(o) PROVE LockedInv' /\ User!WalletNext
  BY <1>3, StatementStep DEF StatementFails, vars
<1>4. ASSUME NEW c \in Charges, Charge(c) PROVE LockedInv' /\ User!WalletNext
  BY <1>4, StatementStep DEF Charge, vars, User!Moves
<1>5. ASSUME NEW i \in Instances, InstanceDies(i) PROVE LockedInv' /\ User!WalletNext
  BY <1>5, InstanceDiesStep
<1>6. CASE UNCHANGED <<pc, purse>>
  BY <1>6, QuietStep
<1> QED
  BY <1>1, <1>2, <1>3, <1>4, <1>5, <1>6 DEF LockedNext, LockExpires, Tick, lockedVars, vars

LEMMA LockedStart == LockedInit => LockedInv /\ User!WalletInit
<1> SUFFICES ASSUME LockedInit PROVE LockedInv /\ User!WalletInit
  OBVIOUS
<1>1. LockedInv
  BY LockedWalletAssumption
     DEF LockedInit, LockedInv, Init, MoveTypes, InOperation, User!InProgress, User!Moves
<1>2. UsePhase = [r \in Requests |-> "asking"]
  BY DEF LockedInit, UsePhase, User!Moves
<1> QED
  BY <1>1, <1>2 DEF LockedInit, User!WalletInit, User!UserLock!Init

(* The types, and the transactions within their operations.                 *)
LEMMA LockedInvariant == LockedSpec => [](TypeOK /\ LockedInv)
<1>1. TypeOK /\ LockedInv /\ [LockedNext]_lockedVars => LockedInv'
  BY LockedStep
<1> QED
  BY <1>1, LockedStart, LockedIsLock, Typing, PTL DEF LockedSpec

THEOREM LockedTyping == LockedSpec => []LockedTypeOK
<1>1. TypeOK /\ LockedInv => LockedTypeOK
  BY WalletTypes DEF LockedInv, LockedTypeOK
<1> QED
  BY <1>1, LockedInvariant, PTL

(* decreaseBalance behind RedisLockManager uses the balance as Wallet       *)
(* allows, as long as no operation outlives the TTL of its lock ...         *)
THEOREM LockedRefines == ASSUME ~OutlivesTTL PROVE LockedSpec => ImplementsWallet
<1>1. TypeOK /\ Owner => EntersAlone
  BY WaitLockAssumption DEF TypeOK, Owner, EntersAlone
<1>2. TypeOK /\ LockedInv /\ EntersAlone /\ [LockedNext]_lockedVars
        => [User!WalletNext]_(User!walletVars)
  BY LockedStep
<1> QED
  BY <1>1, <1>2, LockedStart, LockedInvariant, LockedIsLock, Ownership, PTL
     DEF LockedSpec, ImplementsWallet, User!WalletSpec

(* ... or when the requests reach Redis in order, whatever the TTL.         *)
THEOREM OrderedLockedRefines == OrderedLockedSpec => ImplementsWallet
<1>1. OrderedLockedSpec => LockedSpec
  BY PTL DEF OrderedLockedSpec, LockedSpec
<1>2. OrderedLockedSpec => OrderedSpec
  <2>1. LockedInit => Init
    BY DEF LockedInit
  <2>2. [LockedNext /\ InOrder]_lockedVars => [OrderedNext]_vars
    BY LockedUsesLock DEF OrderedNext, lockedVars
  <2> QED
    BY <2>1, <2>2, PTL DEF OrderedLockedSpec, OrderedSpec
<1>3. TypeOK /\ QueueInv => EntersAlone
  BY FirstIsUnique DEF QueueInv, TurnIsFirst, EntersAlone
<1>4. TypeOK /\ LockedInv /\ EntersAlone /\ [LockedNext /\ InOrder]_lockedVars
        => [User!WalletNext]_(User!walletVars)
  BY LockedStep
<1> QED
  BY <1>1, <1>2, <1>3, <1>4, LockedStart, LockedInvariant, QueueOrder, PTL
     DEF OrderedLockedSpec, ImplementsWallet, User!WalletSpec

-----------------------------------------------------------------------------
(* What Wallet promises of such a use.                                      *)
LEMMA UserAssumption == UserProofs!WalletAssumption
BY LockedWalletAssumption DEF UserProofs!WalletAssumption, UserProofs!Moves, User!Moves

(* Of the two instances of Wallet, ours and the one below its theorems.     *)
LEMMA SameNext ==
    User!WalletNext \/ UNCHANGED User!walletVars
        => UserProofs!WalletNext \/ UNCHANGED UserProofs!walletVars
<1> USE DEF User!Moves, UserProofs!Moves, User!Advance, UserProofs!Advance,
            User!InProgress, UserProofs!InProgress, User!Effect, UserProofs!Effect
<1>1. ASSUME NEW u \in Requests, User!UseNext(u) PROVE UserProofs!UseNext(u)
  BY <1>1
     DEF User!UseNext, User!TakeLock, User!LockRefused, User!FindBalance, User!LetGo,
         User!UserLock!Enter, User!UserLock!Finish,
         UserProofs!UseNext, UserProofs!TakeLock, UserProofs!LockRefused,
         UserProofs!FindBalance, UserProofs!LetGo,
         UserProofs!UserLock!Enter, UserProofs!UserLock!Finish
<1>2. ASSUME NEW c \in Charges, User!ChargeNext(c) PROVE UserProofs!ChargeNext(c)
  BY <1>2 DEF User!ChargeNext, User!FindForCharge,
              UserProofs!ChargeNext, UserProofs!FindForCharge
<1>3. ASSUME NEW o \in User!Moves, User!SaveBalance(o) \/ User!WalletFails(o)
      PROVE  UserProofs!SaveBalance(o) \/ UserProofs!WalletFails(o)
  BY <1>3 DEF User!SaveBalance, User!WalletFails, UserProofs!SaveBalance, UserProofs!WalletFails
<1>4. ASSUME NEW S \in SUBSET User!Moves, User!CallsDie(S) PROVE UserProofs!CallsDie(S)
  BY <1>4 DEF User!CallsDie, UserProofs!CallsDie, User!UserLock!Finish,
              UserProofs!UserLock!Finish
<1>5. CASE UNCHANGED User!walletVars
  BY <1>5 DEF User!walletVars, UserProofs!walletVars
<1> QED
  BY <1>1, <1>2, <1>3, <1>4, <1>5 DEF User!WalletNext, UserProofs!WalletNext

LEMMA SameWallet == ImplementsWallet => UserProofs!WalletSpec
<1>1. User!WalletInit => UserProofs!WalletInit
  BY DEF User!WalletInit, UserProofs!WalletInit, User!UserLock!Init, UserProofs!UserLock!Init,
         User!Moves, UserProofs!Moves
<1>2. [User!WalletNext]_(User!walletVars) => [UserProofs!WalletNext]_(UserProofs!walletVars)
  BY SameNext
<1> QED
  BY <1>1, <1>2, PTL DEF ImplementsWallet, User!WalletSpec, UserProofs!WalletSpec

(* The balance never falls below zero, whatever charges come in between,    *)
(* whatever fails in the database or in Redis, and whoever dies.            *)
THEOREM LockedNoDebt == ASSUME ~OutlivesTTL PROVE LockedSpec => []User!NeverOverdrawn
<1>1. UserProofs!NeverOverdrawn => User!NeverOverdrawn
  BY DEF UserProofs!NeverOverdrawn, User!NeverOverdrawn
<1>2. UserProofs!WalletSpec => []UserProofs!NeverOverdrawn
  BY UserAssumption, UserProofs!NoDebt
<1> QED
  BY <1>1, <1>2, LockedRefines, SameWallet, PTL

(* While charges keep apart, no update of the balance is lost: two uses     *)
(* that the lock manager serves never read the same row before either has   *)
(* written it.                                                              *)
THEOREM LockedMovesExactly == ASSUME ~OutlivesTTL PROVE QuietLockedSpec => User!MovesExactly
<1> DEFINE Exact ==
      /\ \A o \in User!Moves :
            ~User!Booked(o) /\ User!Booked(o)' => balance' = balance + User!Effect(o)
      /\ balance' # balance => \E o \in User!Moves : ~User!Booked(o) /\ User!Booked(o)'
           Precise ==
      /\ \A o \in UserProofs!Moves :
            ~UserProofs!Booked(o) /\ UserProofs!Booked(o)'
                => balance' = balance + UserProofs!Effect(o)
      /\ balance' # balance
            => \E o \in UserProofs!Moves : ~UserProofs!Booked(o) /\ UserProofs!Booked(o)'
<1>1. QuietLockedSpec => LockedSpec
  BY PTL DEF QuietLockedSpec, LockedSpec
<1>2. LockedInit => UserProofs!WalletInit
  BY LockedStart
     DEF User!WalletInit, UserProofs!WalletInit, User!UserLock!Init, UserProofs!UserLock!Init,
         User!Moves, UserProofs!Moves
<1>3. User!Apart <=> UserProofs!Apart
  BY DEF User!Apart, UserProofs!Apart, User!InProgress, UserProofs!InProgress, User!Moves,
         UserProofs!Moves
<1>4. TypeOK /\ LockedInv /\ Owner /\ [LockedNext /\ User!Apart']_lockedVars
        => [UserProofs!WalletNext /\ UserProofs!Apart']_(UserProofs!walletVars)
  <2> SUFFICES ASSUME TypeOK, LockedInv, Owner, [LockedNext /\ User!Apart']_lockedVars
               PROVE  [UserProofs!WalletNext /\ UserProofs!Apart']_(UserProofs!walletVars)
    OBVIOUS
  <2>1. EntersAlone
    BY WaitLockAssumption DEF TypeOK, Owner, EntersAlone
  <2>2. CASE LockedNext /\ User!Apart'
    <3>1. UserProofs!Apart'
      BY <1>3, <2>2, PTL
    <3> QED
      BY <2>1, <2>2, <3>1, LockedStep, SameNext
  <2>3. CASE UNCHANGED lockedVars
    BY <2>3 DEF lockedVars, vars, purse, UserProofs!walletVars, UsePhase, At
  <2> QED
    BY <2>2, <2>3
<1>5. QuietLockedSpec => UserProofs!QuietSpec
  BY <1>1, <1>2, <1>4, LockedInvariant, LockedIsLock, Ownership, PTL
     DEF QuietLockedSpec, UserProofs!QuietSpec
<1>6. UserProofs!QuietSpec => UserProofs!MovesExactly
  BY UserAssumption, UserProofs!QuietMoves
<1>7. [Precise]_(UserProofs!walletVars) => [Exact]_(User!walletVars)
  BY DEF User!Moves, UserProofs!Moves, User!Booked, UserProofs!Booked, User!Effect,
         UserProofs!Effect, User!walletVars, UserProofs!walletVars
<1> QED
  BY <1>5, <1>6, <1>7, PTL DEF User!MovesExactly, UserProofs!MovesExactly
=============================================================================
