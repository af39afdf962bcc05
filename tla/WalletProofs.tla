----------------------------- MODULE WalletProofs -----------------------------
(* The theorems of Wallet, for every set of uses and charges. *)
EXTENDS Wallet, TLAPS

(* The inductive invariant: the balance and whatever was read of it are not *)
(* negative, and what is about to be written is not either.                 *)
Covered ==
    /\ balance >= 0
    /\ \A o \in Moves : seen[o] >= 0
    /\ \A u \in Uses : move[u] = "save" => seen[u] >= Amount[u]

(* A use that is in progress holds the lock, and it alone. *)
LockHeld ==
    /\ \A u \in Uses : InProgress(u) => phase[u] = "running"
    /\ \A u, v \in Uses : phase[u] = "running" /\ phase[v] = "running" => u = v

(* What a call has read is still the balance when it writes. *)
Fresh == \A o \in Moves : move[o] = "save" => seen[o] = balance

LEMMA EffectType == \A o \in Moves : Effect(o) \in Int
BY WalletAssumption DEF Moves, Effect

LEMMA WalletTypeInit == WalletInit => WalletTypeOK
BY WalletAssumption DEF WalletInit, WalletTypeOK, UserLock!Init, UserLock!TypeOK

LEMMA WalletTypeStep == WalletTypeOK /\ [WalletNext]_walletVars => WalletTypeOK'
<1> SUFFICES ASSUME WalletTypeOK, [WalletNext]_walletVars PROVE WalletTypeOK'
  OBVIOUS
<1> USE EffectType DEF WalletTypeOK, UserLock!TypeOK, Advance, Moves
<1>1. ASSUME NEW u \in Uses, UseNext(u) PROVE WalletTypeOK'
  <2>1. CASE TakeLock(u) BY <2>1 DEF TakeLock, UserLock!Enter
  <2>2. CASE LockRefused(u) BY <2>2 DEF LockRefused, UserLock!Finish
  <2>3. CASE FindBalance(u) BY <2>3 DEF FindBalance
  <2>4. CASE LetGo(u) BY <2>4 DEF LetGo, UserLock!Finish
  <2> QED BY <1>1, <2>1, <2>2, <2>3, <2>4 DEF UseNext
<1>2. ASSUME NEW c \in Charges, ChargeNext(c) PROVE WalletTypeOK'
  BY <1>2 DEF ChargeNext, FindForCharge
<1>3. ASSUME NEW o \in Moves, SaveBalance(o) PROVE WalletTypeOK'
  BY <1>3 DEF SaveBalance
<1>4. ASSUME NEW o \in Moves, WalletFails(o) PROVE WalletTypeOK'
  BY <1>4 DEF WalletFails
<1>5. ASSUME NEW S \in SUBSET Moves, CallsDie(S) PROVE WalletTypeOK'
  BY <1>5 DEF CallsDie, UserLock!Finish
<1>6. CASE UNCHANGED walletVars
  BY <1>6 DEF walletVars
<1> QED BY <1>1, <1>2, <1>3, <1>4, <1>5, <1>6 DEF WalletNext

(* The types of the wallet. *)
THEOREM WalletTyping == WalletSpec => []WalletTypeOK
BY WalletTypeInit, WalletTypeStep, PTL DEF WalletSpec

-----------------------------------------------------------------------------
LEMMA CoveredStep ==
    WalletTypeOK /\ Covered /\ [WalletNext]_walletVars => Covered'
<1> SUFFICES ASSUME WalletTypeOK, Covered, [WalletNext]_walletVars PROVE Covered'
  OBVIOUS
<1> USE WalletAssumption DEF WalletTypeOK, Covered, Advance, Moves
<1>1. ASSUME NEW u \in Uses, UseNext(u) PROVE Covered'
  <2>1. CASE TakeLock(u) BY <2>1 DEF TakeLock
  <2>2. CASE LockRefused(u) BY <2>2 DEF LockRefused
  <2>3. CASE FindBalance(u) BY <2>3 DEF FindBalance
  <2>4. CASE LetGo(u) BY <2>4 DEF LetGo
  <2> QED BY <1>1, <2>1, <2>2, <2>3, <2>4 DEF UseNext
<1>2. ASSUME NEW c \in Charges, ChargeNext(c) PROVE Covered'
  BY <1>2 DEF ChargeNext, FindForCharge
<1>3. ASSUME NEW o \in Moves, move[o] = "save" PROVE seen[o] + Effect(o) >= 0
  BY <1>3 DEF Effect
<1>4. ASSUME NEW o \in Moves, SaveBalance(o) PROVE Covered'
  BY <1>3, <1>4 DEF SaveBalance
<1>5. ASSUME NEW o \in Moves, WalletFails(o) PROVE Covered'
  BY <1>3, <1>5 DEF WalletFails
<1>6. ASSUME NEW S \in SUBSET Moves, CallsDie(S) PROVE Covered'
  BY <1>6 DEF CallsDie
<1>7. CASE UNCHANGED walletVars
  BY <1>7 DEF walletVars
<1> QED BY <1>1, <1>2, <1>4, <1>5, <1>6, <1>7 DEF WalletNext

LEMMA LockHeldStep ==
    WalletTypeOK /\ LockHeld /\ [WalletNext]_walletVars => LockHeld'
<1> SUFFICES ASSUME WalletTypeOK, LockHeld, [WalletNext]_walletVars PROVE LockHeld'
  OBVIOUS
<1> USE WalletAssumption DEF WalletTypeOK, UserLock!TypeOK, LockHeld, InProgress, Advance, Moves
<1>1. ASSUME NEW u \in Uses, UseNext(u) PROVE LockHeld'
  <2>1. CASE TakeLock(u) BY <2>1 DEF TakeLock, UserLock!Enter
  <2>2. CASE LockRefused(u) BY <2>2 DEF LockRefused, UserLock!Finish
  <2>3. CASE FindBalance(u) BY <2>3 DEF FindBalance
  <2>4. CASE LetGo(u) BY <2>4 DEF LetGo, UserLock!Finish
  <2> QED BY <1>1, <2>1, <2>2, <2>3, <2>4 DEF UseNext
<1>2. ASSUME NEW c \in Charges, ChargeNext(c) PROVE LockHeld'
  BY <1>2 DEF ChargeNext, FindForCharge
<1>3. ASSUME NEW o \in Moves, SaveBalance(o) PROVE LockHeld'
  BY <1>3 DEF SaveBalance
<1>4. ASSUME NEW o \in Moves, WalletFails(o) PROVE LockHeld'
  BY <1>4 DEF WalletFails
<1>5. ASSUME NEW S \in SUBSET Moves, CallsDie(S) PROVE LockHeld'
  BY <1>5 DEF CallsDie, UserLock!Finish
<1>6. CASE UNCHANGED walletVars
  BY <1>6 DEF walletVars
<1> QED BY <1>1, <1>2, <1>3, <1>4, <1>5, <1>6 DEF WalletNext

(* The balance never falls below zero, whatever charges come in between a   *)
(* comparison and the write it allows, and whatever fails.  The lock is not *)
(* needed for it: what is written was compared by the same transaction.     *)
THEOREM NoDebt == WalletSpec => []NeverOverdrawn
<1>1. WalletInit => Covered
  BY WalletAssumption DEF WalletInit, Covered, Moves
<1>2. Covered => NeverOverdrawn
  BY DEF Covered, NeverOverdrawn
<1> QED
  BY <1>1, <1>2, WalletTyping, CoveredStep, PTL DEF WalletSpec

-----------------------------------------------------------------------------
LEMMA FreshStep ==
    WalletTypeOK /\ LockHeld /\ LockHeld' /\ Fresh /\ Apart /\ Apart' /\ [WalletNext]_walletVars
        => Fresh'
<1> SUFFICES ASSUME WalletTypeOK, LockHeld, LockHeld', Fresh, Apart, Apart', [WalletNext]_walletVars
             PROVE  Fresh'
  OBVIOUS
<1> USE DEF WalletTypeOK, Fresh, Advance
<1>1. ASSUME NEW o \in Moves, NEW q \in Moves, InProgress(o), InProgress(q) PROVE o = q
  BY <1>1 DEF LockHeld, Apart, Moves
<1>2. ASSUME NEW u \in Uses, UseNext(u) PROVE Fresh'
  <2> USE DEF Moves
  <2>1. CASE TakeLock(u) BY <2>1 DEF TakeLock
  <2>2. CASE LockRefused(u) BY <2>2 DEF LockRefused
  <2>3. CASE FindBalance(u) BY <2>3 DEF FindBalance
  <2>4. CASE LetGo(u) BY <2>4 DEF LetGo
  <2> QED BY <1>2, <2>1, <2>2, <2>3, <2>4 DEF UseNext
<1>3. ASSUME NEW c \in Charges, ChargeNext(c) PROVE Fresh'
  BY <1>3 DEF ChargeNext, FindForCharge, Moves
<1>4. ASSUME NEW o \in Moves, SaveBalance(o) PROVE Fresh'
  <2>1. \A q \in Moves : q # o => move[q] # "save"
    BY <1>1, <1>4 DEF SaveBalance, InProgress
  <2> QED BY <1>4, <2>1 DEF SaveBalance
<1>5. ASSUME NEW o \in Moves, WalletFails(o) PROVE Fresh'
  <2>1. \A q \in Moves : q # o => move[q] # "save"
    BY <1>1, <1>5 DEF WalletFails, InProgress
  <2> QED BY <1>5, <2>1 DEF WalletFails
<1>6. ASSUME NEW S \in SUBSET Moves, CallsDie(S) PROVE Fresh'
  BY <1>6 DEF CallsDie, InProgress
<1>7. CASE UNCHANGED walletVars
  BY <1>7 DEF walletVars
<1> QED BY <1>2, <1>3, <1>4, <1>5, <1>6, <1>7 DEF WalletNext

(* When charges keep apart from other calls, no update is lost: the balance *)
(* moves by exactly what is booked.                                         *)
THEOREM QuietMoves == QuietSpec => MovesExactly
<1> DEFINE Exact ==
      /\ \A o \in Moves : ~Booked(o) /\ Booked(o)' => balance' = balance + Effect(o)
      /\ balance' # balance => \E o \in Moves : ~Booked(o) /\ Booked(o)'
<1>1. WalletInit => LockHeld /\ Fresh /\ Apart /\ WalletTypeOK
  BY WalletTypeInit
     DEF WalletInit, LockHeld, Fresh, Apart, InProgress, Moves, UserLock!Init
<1>2. WalletTypeOK /\ Fresh /\ [WalletNext]_walletVars => [Exact]_walletVars
  <2> SUFFICES ASSUME WalletTypeOK, Fresh, WalletNext PROVE Exact
    OBVIOUS
  <2> USE DEF WalletTypeOK, Booked, Advance
  <2>1. ASSUME NEW u \in Uses, UseNext(u) PROVE Exact
    BY <2>1 DEF UseNext, TakeLock, LockRefused, FindBalance, LetGo, Moves
  <2>2. ASSUME NEW c \in Charges, ChargeNext(c) PROVE Exact
    BY <2>2 DEF ChargeNext, FindForCharge, Moves
  <2>3. ASSUME NEW o \in Moves, SaveBalance(o) PROVE Exact
    BY <2>3 DEF SaveBalance, Fresh
  <2>4. ASSUME NEW o \in Moves, WalletFails(o) PROVE Exact
    BY <2>4 DEF WalletFails, Fresh, InProgress
  <2>5. ASSUME NEW S \in SUBSET Moves, CallsDie(S) PROVE Exact
    BY <2>5 DEF CallsDie, InProgress
  <2> QED BY <2>1, <2>2, <2>3, <2>4, <2>5 DEF WalletNext
<1>3. QuietSpec => [](WalletTypeOK /\ LockHeld /\ Fresh /\ Apart)
  <2>1. WalletTypeOK /\ LockHeld /\ Fresh /\ Apart /\ [WalletNext /\ Apart']_walletVars
          => (WalletTypeOK /\ LockHeld /\ Fresh /\ Apart)'
    <3> SUFFICES ASSUME WalletTypeOK, LockHeld, Fresh, Apart, [WalletNext /\ Apart']_walletVars
                 PROVE  (WalletTypeOK /\ LockHeld /\ Fresh /\ Apart)'
      OBVIOUS
    <3>1. Apart'
      BY DEF Apart, InProgress, walletVars
    <3> QED BY <3>1, WalletTypeStep, LockHeldStep, FreshStep
  <2> QED BY <1>1, <2>1, PTL DEF QuietSpec
<1> QED
  BY <1>2, <1>3, PTL DEF QuietSpec, MovesExactly
=============================================================================
