----------------------------- MODULE BookingProofs -----------------------------
(***************************************************************************)
(* Theorems about NoWaitLock and about Booking, which uses it, for every    *)
(* set of requests and seats and every bound.                               *)
(***************************************************************************)
EXTENDS Booking, TLAPS

-----------------------------------------------------------------------------
(* The lock by itself. *)
LEMMA LockTypeInit == LockInit => LockTypeOK
BY NoWaitLockAssumption DEF LockInit, LockTypeOK

LEMMA LockTypeStep == ASSUME LockTypeOK, [LockNext]_lockVars PROVE LockTypeOK'
<1> USE NoWaitLockAssumption DEF LockTypeOK, SetLock, Proceeds, LockOf
<1>1. ASSUME NEW r \in Requests, AcquireLock(r) PROVE LockTypeOK'
  BY <1>1 DEF AcquireLock
<1>2. ASSUME NEW r \in Requests, OperationEnds(r) \/ ReleaseGet(r) \/ ReleaseDel(r) PROVE LockTypeOK'
  BY <1>2 DEF OperationEnds, ReleaseGet, ReleaseDel
<1>3. ASSUME NEW r \in Requests, CommandFails(r) \/ OperationFails(r) PROVE LockTypeOK'
  BY <1>3 DEF CommandFails, OperationFails
<1>4. ASSUME NEW S \in SUBSET Requests, Abandon(S) PROVE LockTypeOK'
  BY <1>4 DEF Abandon
<1>5. ASSUME NEW k \in Resources, LockExpires(k) PROVE LockTypeOK'
  BY <1>5 DEF LockExpires
<1>6. CASE faults < MaxFaults /\ faults' = faults + 1 /\ UNCHANGED <<lock, at>>
  BY <1>6
<1>7. CASE UNCHANGED lockVars
  BY <1>7 DEF lockVars
<1> QED
  BY <1>1, <1>2, <1>3, <1>4, <1>5, <1>6, <1>7 DEF LockNext

LEMMA LockTyping == LockSpec => []LockTypeOK
BY LockTypeInit, LockTypeStep, PTL DEF LockSpec

(* Who operates, or is about to send DEL, owns the key of its resource.     *)
Owner == \A r \in Requests : at[r] \in {"operating", "del"} => LockOf(r) = r

LEMMA OwnerStep ==
    ASSUME ~OutlivesTTL, LockTypeOK, Owner, [LockNext]_lockVars
    PROVE  Owner'
<1> USE NoWaitLockAssumption DEF LockTypeOK, Owner, SetLock, Proceeds, LockOf
<1>1. ASSUME NEW r \in Requests, AcquireLock(r) PROVE Owner'
  BY <1>1 DEF AcquireLock
<1>2. ASSUME NEW r \in Requests, OperationEnds(r) \/ ReleaseGet(r) PROVE Owner'
  BY <1>2 DEF OperationEnds, ReleaseGet
<1>3. ASSUME NEW r \in Requests, ReleaseDel(r) PROVE Owner'
  BY <1>3 DEF ReleaseDel
<1>4. ASSUME NEW r \in Requests, CommandFails(r) PROVE Owner'
  BY <1>4 DEF CommandFails
<1>5. ASSUME NEW r \in Requests, OperationFails(r) PROVE Owner'
  BY <1>5 DEF OperationFails
<1>6. ASSUME NEW S \in SUBSET Requests, Abandon(S) PROVE Owner'
  BY <1>6 DEF Abandon
<1>7. ASSUME NEW k \in Resources, LockExpires(k) PROVE Owner'
  BY <1>7 DEF LockExpires
<1>8. CASE UNCHANGED <<lock, at>>
  BY <1>8
<1> QED
  BY <1>1, <1>2, <1>3, <1>4, <1>5, <1>6, <1>7, <1>8 DEF LockNext, lockVars

LEMMA Ownership == ASSUME ~OutlivesTTL PROVE LockSpec => []Owner
<1>1. LockInit => Owner
  BY DEF LockInit, Owner
<1> QED
  BY <1>1, OwnerStep, LockTyping, PTL DEF LockSpec

(* Operations on one resource never overlap. *)
THEOREM LockExclusion == ASSUME ~OutlivesTTL PROVE LockSpec => []MutualExclusion
<1>1. Owner => MutualExclusion
  BY DEF Owner, MutualExclusion, LockOf
<1> QED
  BY <1>1, Ownership, PTL

LEMMA LockStepIsMutexStep ==
    ASSUME ~OutlivesTTL, LockTypeOK, Owner, LockNext, NEW k \in Resources
    PROVE  Abstract(k)!Next \/ UNCHANGED PhaseOn(k)
<1> USE NoWaitLockAssumption DEF LockTypeOK, Owner, Callers, PhaseOn, Proceeds, LockOf
<1>1. ASSUME NEW S \in SUBSET Callers(k), \A r \in S : at[r] \in {"asking", "operating"},
             PhaseOn(k)' = [r \in Callers(k) |-> IF r \in S THEN "over" ELSE PhaseOn(k)[r]]
      PROVE  Abstract(k)!Next
  <2>1. \A r \in S : PhaseOn(k)[r] # "over"
    BY <1>1
  <2>2. Abstract(k)!Finish(S)
    BY <1>1, <2>1 DEF Abstract!Finish
  <2> QED BY <1>1, <2>2 DEF Abstract!Next
<1>2. ASSUME NEW r \in Requests, AcquireLock(r), at'[r] = "operating"
      PROVE  Abstract(k)!Next \/ UNCHANGED PhaseOn(k)
  <2>1. CASE r \notin Callers(k)
    BY <1>2, <2>1 DEF AcquireLock
  <2>2. CASE r \in Callers(k)
    <3>1. \A s \in Callers(k) : PhaseOn(k)[s] # "running"
      BY <1>2, <2>2 DEF AcquireLock
    <3>2. PhaseOn(k)[r] = "asking" /\ PhaseOn(k)' = [PhaseOn(k) EXCEPT ![r] = "running"]
      BY <1>2, <2>2 DEF AcquireLock
    <3> QED BY <2>2, <3>1, <3>2 DEF Abstract!Next, Abstract!Enter
  <2> QED BY <2>1, <2>2
<1>3. ASSUME NEW r \in Requests, at[r] \in {"asking", "operating"},
             at' = [at EXCEPT ![r] = "over"] \/ at' = [at EXCEPT ![r] = "get"]
      PROVE  Abstract(k)!Next \/ UNCHANGED PhaseOn(k)
  <2>1. CASE r \notin Callers(k)
    BY <1>3, <2>1
  <2>2. CASE r \in Callers(k)
    <3>1. PICK S \in SUBSET Callers(k) : S = {r}
      BY <2>2
    <3>2. PhaseOn(k)' = [s \in Callers(k) |-> IF s \in S THEN "over" ELSE PhaseOn(k)[s]]
      BY <1>3, <3>1
    <3> QED BY <1>1, <1>3, <3>1, <3>2
  <2> QED BY <2>1, <2>2
<1>4. ASSUME NEW r \in Requests, at[r] \in {"get", "del"}, at'[r] \in {"get", "del", "over"},
             at' = [at EXCEPT ![r] = at'[r]]
      PROVE  UNCHANGED PhaseOn(k)
  BY <1>4
<1>5. ASSUME NEW A \in SUBSET Requests, Abandon(A) PROVE Abstract(k)!Next
  <2>1. PICK S \in SUBSET Callers(k) :
          S = {r \in Callers(k) : r \in A /\ at[r] \in {"asking", "operating"}}
    OBVIOUS
  <2> QED BY <1>1, <1>5, <2>1 DEF Abandon
<1>6. ASSUME NEW r \in Requests, AcquireLock(r) \/ OperationEnds(r) \/ OperationFails(r)
      PROVE  Abstract(k)!Next \/ UNCHANGED PhaseOn(k)
  BY <1>2, <1>3, <1>6 DEF AcquireLock, OperationEnds, OperationFails
<1>7. ASSUME NEW r \in Requests, ReleaseGet(r) \/ ReleaseDel(r)
      PROVE  Abstract(k)!Next \/ UNCHANGED PhaseOn(k)
  BY <1>4, <1>7 DEF ReleaseGet, ReleaseDel
<1>8. ASSUME NEW r \in Requests, CommandFails(r)
      PROVE  Abstract(k)!Next \/ UNCHANGED PhaseOn(k)
  BY <1>3, <1>4, <1>8 DEF CommandFails
<1>9. CASE UNCHANGED at
  BY <1>9
<1> QED
  BY <1>5, <1>6, <1>7, <1>8, <1>9 DEF LockNext, LockExpires

(* The lock manager keeps the promise of Mutex on every resource, on all of *)
(* them at once.                                                            *)
THEOREM NoWaitRefinement == ASSUME ~OutlivesTTL PROVE LockSpec => LockImplementsMutex
<1>1. LockInit => \A k \in Resources : Abstract(k)!Init
  BY DEF LockInit, PhaseOn, Callers, Abstract!Init
<1>2. LockTypeOK /\ Owner /\ [LockNext]_lockVars
        => [\A k \in Resources : [Abstract(k)!Next]_(PhaseOn(k))]_lockVars
  BY LockStepIsMutexStep
<1> QED
  BY <1>1, <1>2, LockTyping, Ownership, PTL DEF LockSpec, LockImplementsMutex

-----------------------------------------------------------------------------
LEMMA BookingUsesLock ==
    ASSUME [BookingNext]_bookingVars PROVE LockNext \/ UNCHANGED lockVars
<1>1. ASSUME ProcessDies PROVE LockNext
  <2>1. PICK S \in SUBSET Requests : S = {r \in Requests : pc[r] \notin {"idle", "done"}}
    OBVIOUS
  <2>2. Abandon(S)
    BY <1>1, <2>1 DEF ProcessDies
  <2> QED
    BY <2>2 DEF LockNext
<1>2. ASSUME NEW r \in Requests, RequestStep(r) PROVE LockNext \/ UNCHANGED lockVars
  BY <1>1, <1>2 DEF RequestStep, Lock, FindSeat, CreateSeat, ReadSeat, InsertReservation,
                    MarkSeat, Schedule, Commit, Release, LockNext
<1>3. ASSUME NEW r \in Requests, JobStep(r) PROVE UNCHANGED lockVars
  BY <1>3 DEF JobStep, JobFires, ExpireFind, ExpireSave, ExpireSeat
<1>4. ASSUME NEW r \in Requests, StatementFails(r) \/ LockCommandFails(r) PROVE LockNext
  BY <1>4 DEF StatementFails, LockCommandFails, LockNext
<1>5. ASSUME NEW r \in Requests, ExpireFails(r) PROVE LockNext
  BY <1>5 DEF ExpireFails, LockNext
<1>6. ASSUME NEW k \in Resources, SeatLockExpires(k) PROVE LockNext
  BY <1>6 DEF SeatLockExpires, LockNext
<1> QED
  BY <1>1, <1>2, <1>3, <1>4, <1>5, <1>6
     DEF BookingNext, RequestRuns, JobRuns, Environment, Reserve, CheckReturns, Crash, Tick, bookingVars, lockVars

(* Booking uses the lock as NoWaitLock has it, whatever else it does.       *)
THEOREM UsesNoWaitLock == BookingSpec => LockSpec
<1>1. BookingInit => LockInit
  BY DEF BookingInit
<1>2. [BookingNext]_bookingVars => [LockNext]_lockVars
  BY BookingUsesLock
<1> QED
  BY <1>1, <1>2, PTL DEF BookingSpec, LockSpec

(* Two requests never work on one seat at the same time. *)
THEOREM BookingExclusion == ASSUME ~OutlivesTTL PROVE BookingSpec => []MutualExclusion
BY UsesNoWaitLock, LockExclusion, PTL

(* What reserveSeat relies on is what Mutex promises, on each seat.          *)
THEOREM BookingRefinement == ASSUME ~OutlivesTTL PROVE BookingSpec => LockImplementsMutex
BY UsesNoWaitLock, NoWaitRefinement, PTL

-----------------------------------------------------------------------------
(* Types. *)
LEMMA BookingTypeInit == BookingInit => BookingTypeOK
<1> SUFFICES ASSUME BookingInit PROVE BookingTypeOK
  OBVIOUS
<1>1. LockTypeOK
  BY LockTypeInit DEF BookingInit
<1> QED
  BY <1>1, BookingAssumption DEF BookingInit, BookingTypeOK, LockInit, Rows, Body

LEMMA ProcessDiesType == ASSUME BookingTypeOK, ProcessDies PROVE BookingTypeOK'
<1> USE DEF BookingTypeOK, ProcessDies, Body
<1>1. LockTypeOK'
  BY DEF LockTypeOK, Abandon
<1>2. /\ pc' \in [Requests -> {"idle", "setnx", "release", "done"} \cup Body]
      /\ check' \in [Requests -> {"none", "sent"}]
      /\ res' \in [Requests -> {"none", "inserted", "pending", "completed", "expired"}]
      /\ expiry' \in [Requests -> {"none", "scheduled", "find", "save", "seat"}]
      /\ crashes' \in Nat
  OBVIOUS
<1>3. \A r \in Requests : pc'[r] \in Body <=> at'[r] = "operating"
  BY DEF Abandon
<1> QED
  BY <1>1, <1>2, <1>3

LEMMA BookingTypeStep == ASSUME BookingTypeOK, [BookingNext]_bookingVars PROVE BookingTypeOK'
<1> USE NoWaitLockAssumption, BookingAssumption
    DEF BookingTypeOK, LockTypeOK, Body, Rows, At, Goto, SetSeat, SetRes, SetExpiry, Answers,
        lockVars, tables, Proceeds, SetLock, LockOf
<1>1. ASSUME NEW r \in Requests, Reserve(r) PROVE BookingTypeOK'
  BY <1>1 DEF Reserve
<1>2. ASSUME NEW r \in Requests, Lock(r) PROVE BookingTypeOK'
  BY <1>2 DEF Lock, AcquireLock
<1>3. ASSUME NEW r \in Requests, FindSeat(r) PROVE BookingTypeOK'
  BY <1>3 DEF FindSeat, RowsOf
<1>4. ASSUME NEW r \in Requests, CreateSeat(r) PROVE BookingTypeOK'
  BY <1>4 DEF CreateSeat
<1>5. ASSUME NEW r \in Requests, ReadSeat(r) PROVE BookingTypeOK'
  BY <1>5, ProcessDiesType DEF ReadSeat
<1>6. ASSUME NEW r \in Requests, InsertReservation(r) PROVE BookingTypeOK'
  BY <1>6 DEF InsertReservation
<1>7. ASSUME NEW r \in Requests, MarkSeat(r) PROVE BookingTypeOK'
  BY <1>7 DEF MarkSeat
<1>8. ASSUME NEW r \in Requests, Schedule(r) PROVE BookingTypeOK'
  BY <1>8 DEF Schedule
<1>9. ASSUME NEW r \in Requests, Commit(r) PROVE BookingTypeOK'
  BY <1>9 DEF Commit, OperationEnds
<1>10. ASSUME NEW r \in Requests, Release(r) PROVE BookingTypeOK'
  BY <1>10 DEF Release, ReleaseGet, ReleaseDel
<1>11. ASSUME NEW r \in Requests, StatementFails(r) PROVE BookingTypeOK'
  BY <1>11 DEF StatementFails, OperationFails
<1>12. ASSUME NEW r \in Requests, LockCommandFails(r) PROVE BookingTypeOK'
  BY <1>12 DEF LockCommandFails, CommandFails
<1>13. ASSUME NEW r \in Requests, CheckReturns(r) PROVE BookingTypeOK'
  BY <1>13, ProcessDiesType DEF CheckReturns
<1>14. ASSUME NEW r \in Requests, JobStep(r) PROVE BookingTypeOK'
  BY <1>14 DEF JobStep, JobFires, ExpireFind, ExpireSave, ExpireSeat
<1>15. ASSUME NEW r \in Requests, ExpireFails(r) PROVE BookingTypeOK'
  BY <1>15 DEF ExpireFails
<1>16. ASSUME NEW k \in Resources, SeatLockExpires(k) PROVE BookingTypeOK'
  BY <1>16 DEF SeatLockExpires, LockExpires
<1>17. CASE Crash
  BY <1>17, ProcessDiesType DEF Crash
<1>18. CASE Tick
  BY <1>18 DEF Tick, Ticking
<1>19. CASE UNCHANGED bookingVars
  BY <1>19 DEF bookingVars
<1> QED
  BY <1>1, <1>2, <1>3, <1>4, <1>5, <1>6, <1>7, <1>8, <1>9, <1>10, <1>11, <1>12, <1>13,
     <1>14, <1>15, <1>16, <1>17, <1>18, <1>19 DEF BookingNext, RequestRuns, JobRuns, Environment, RequestStep

(* Type correctness, and that a request's statements are sent between       *)
(* taking the lock and giving it back, never outside.                       *)
THEOREM BookingTyping == BookingSpec => []BookingTypeOK
BY BookingTypeInit, BookingTypeStep, PTL DEF BookingSpec

-----------------------------------------------------------------------------
(* The invariant of Booking.                                                *)

(* Targets are rows of the seat that was asked for. *)
TargetsFit ==
    \A r \in Requests :
        /\ SeatOf(target[r]) = ResourceOf[r]
        /\ pc[r] \in {"read", "insert", "mark", "schedule", "commit"} \/ res[r] # "none"
              => seat[target[r]] # "absent"

(* A request about to insert a row has found none. *)
NoRowYet == \A r \in Requests : pc[r] = "create" => RowsOf(ResourceOf[r]) = {}

(* A request about to insert a reservation still sees its seat available.   *)
InsertIsFree == \A r \in Requests : pc[r] = "insert" => seat[target[r]] = "available"

(* Where request, reservation and job of one id can be at the same time.    *)
Positions ==
    \A r \in Requests :
        /\ res[r] = "inserted" <=> pc[r] \in {"mark", "schedule", "commit"}
        /\ pc[r] \in {"idle", "setnx", "find", "create", "read", "insert"} => res[r] = "none"
        /\ pc[r] \in {"idle", "setnx", "find", "create", "read", "insert", "mark", "schedule"}
              => expiry[r] = "none"
        /\ expiry[r] \in {"scheduled", "find"} => res[r] # "expired"
        /\ expiry[r] = "save" => res[r] \in {"pending", "completed"}
        /\ expiry[r] = "seat" => res[r] = "expired"

(* Claims on a seat exclude each other, and the seat shows it is claimed.   *)
ClaimsExclude ==
    \A r, s \in Requests : Claims(r) /\ Claims(s) /\ ResourceOf[r] = ResourceOf[s] => r = s

ClaimsShow ==
    \A r \in Requests : Claims(r) /\ pc[r] # "mark" => seat[target[r]] = "reserved_temp"

BookingInv ==
    /\ OneRowPerSeat /\ TargetsFit /\ NoRowYet /\ InsertIsFree
    /\ Positions /\ ClaimsExclude /\ ClaimsShow

LEMMA BookingInvInit == BookingInit => BookingInv
<1> SUFFICES ASSUME BookingInit PROVE BookingInv
  OBVIOUS
<1> USE NoWaitLockAssumption, BookingAssumption DEF BookingInit, Rows, SeatOf
<1>1. OneRowPerSeat
  BY DEF OneRowPerSeat
<1>2. TargetsFit /\ NoRowYet /\ InsertIsFree /\ Positions
  BY DEF TargetsFit, NoRowYet, InsertIsFree, Positions
<1>3. ClaimsExclude /\ ClaimsShow
  BY DEF ClaimsExclude, ClaimsShow, Claims, Holds
<1> QED
  BY <1>1, <1>2, <1>3 DEF BookingInv

(* The parts of the invariant that concern what a request writes are kept   *)
(* by every request because it has the lock of its seat.                    *)
LEMMA RequestKeepsInv ==
    ASSUME BookingTypeOK, MutualExclusion, BookingInv, NEW r \in Requests, RequestStep(r),
           ~ProcessDies
    PROVE  BookingInv'
<1> USE NoWaitLockAssumption, BookingAssumption
    DEF BookingTypeOK, LockTypeOK, Body, Rows, At, Goto, SetSeat, SetRes, SetExpiry, Answers,
        lockVars, tables, BookingInv, OneRowPerSeat, TargetsFit, NoRowYet, InsertIsFree,
        Positions, ClaimsExclude, ClaimsShow, Claims, Holds
<1>1. CASE Lock(r)
  BY <1>1 DEF Lock, RowsOf
<1>2. CASE FindSeat(r)
  BY <1>2 DEF FindSeat, RowsOf
<1>3. CASE CreateSeat(r)
  BY <1>3 DEF CreateSeat, RowsOf, SeatOf, MutualExclusion
<1>4. CASE ReadSeat(r)
  BY <1>4 DEF ReadSeat, SeatIsFree, RowsOf
<1>5. CASE InsertReservation(r)
  BY <1>5 DEF InsertReservation, RowsOf, MutualExclusion
<1>6. CASE MarkSeat(r)
  BY <1>6 DEF MarkSeat, RowsOf, MutualExclusion
<1>7. CASE Schedule(r)
  BY <1>7 DEF Schedule, RowsOf
<1>8. CASE Commit(r)
  BY <1>8 DEF Commit, RowsOf
<1>9. CASE Release(r)
  BY <1>9 DEF Release, RowsOf
<1> QED
  BY <1>1, <1>2, <1>3, <1>4, <1>5, <1>6, <1>7, <1>8, <1>9 DEF RequestStep

(* A job needs no lock: what it writes is its reservation's alone until the *)
(* seat is given back.                                                      *)
LEMMA JobKeepsInv ==
    ASSUME BookingTypeOK, BookingInv, NEW r \in Requests, JobStep(r) \/ ExpireFails(r)
    PROVE  BookingInv'
<1> USE NoWaitLockAssumption, BookingAssumption
    DEF BookingTypeOK, LockTypeOK, Body, Rows, At, Goto, SetSeat, SetRes, SetExpiry, Answers,
        lockVars, tables, BookingInv, OneRowPerSeat, TargetsFit, NoRowYet, InsertIsFree,
        Positions, ClaimsExclude, ClaimsShow, Claims, Holds
<1>1. CASE JobFires(r)
  BY <1>1 DEF JobFires, RowsOf
<1>2. CASE ExpireFind(r)
  BY <1>2 DEF ExpireFind, RowsOf
<1>3. CASE ExpireSave(r)
  BY <1>3 DEF ExpireSave, RowsOf
<1>4. CASE ExpireSeat(r)
  BY <1>4 DEF ExpireSeat, RowsOf
<1>5. CASE ExpireFails(r)
  BY <1>5 DEF ExpireFails, RowsOf
<1> QED
  BY <1>1, <1>2, <1>3, <1>4, <1>5 DEF JobStep

LEMMA BookingInvStep ==
    ASSUME BookingTypeOK, MutualExclusion, BookingInv, [BookingNext]_bookingVars
    PROVE  BookingInv'
<1> USE NoWaitLockAssumption, BookingAssumption
    DEF BookingTypeOK, LockTypeOK, Body, Rows, At, Goto, SetSeat, SetRes, SetExpiry, Answers,
        lockVars, tables, BookingInv, OneRowPerSeat, TargetsFit, NoRowYet, InsertIsFree,
        Positions, ClaimsExclude, ClaimsShow, Claims, Holds
<1>1. CASE ProcessDies
  BY <1>1 DEF ProcessDies, RowsOf
<1>2. ASSUME NEW r \in Requests, RequestStep(r) PROVE BookingInv'
  BY <1>1, <1>2, RequestKeepsInv
<1>3. ASSUME NEW r \in Requests, Reserve(r) PROVE BookingInv'
  BY <1>3 DEF Reserve, RowsOf
<1>4. ASSUME NEW r \in Requests, CheckReturns(r) PROVE BookingInv'
  BY <1>1, <1>4 DEF CheckReturns, RowsOf
<1>5. ASSUME NEW r \in Requests, JobStep(r) \/ ExpireFails(r) PROVE BookingInv'
  BY <1>5, JobKeepsInv
<1>6. ASSUME NEW r \in Requests, StatementFails(r) PROVE BookingInv'
  <2>1. CASE At(r, "create") /\ SetSeat(r, "available")
    <3>1. /\ seat' = [seat EXCEPT ![r] = "available"] /\ target' = target /\ expiry' = expiry
          /\ pc' = [pc EXCEPT ![r] = "release"] /\ res' = [res EXCEPT ![r] = "none"]
      BY <1>6, <2>1 DEF StatementFails
    <3>2. \A x \in Rows : SeatOf(x) = ResourceOf[r] => seat[x] = "absent"
      BY <2>1 DEF RowsOf
    <3>3. \A s \in Requests \ {r} : ResourceOf[s] = ResourceOf[r] => pc[s] \notin Body
      BY <2>1 DEF MutualExclusion
    <3>4. OneRowPerSeat'
      BY <3>1, <3>2 DEF SeatOf
    <3>5. NoRowYet'
      BY <3>1, <3>3 DEF RowsOf, SeatOf
    <3>6. (TargetsFit /\ InsertIsFree /\ Positions)'
      BY <2>1, <3>1 DEF SeatOf
    <3>8. \A s \in Requests : Claims(s) => target[s] # r
      BY <3>2 DEF SeatOf
    <3>9. \A s \in Requests : Claims(s)' => Claims(s) /\ s # r
      BY <2>1, <3>1
    <3>7. (ClaimsExclude /\ ClaimsShow)'
      BY <3>1, <3>8, <3>9
    <3> QED
      BY <3>4, <3>5, <3>6, <3>7
  <2>2. CASE At(r, "mark") /\ SetSeat(target[r], "reserved_temp")
    <3>1. /\ seat' = [seat EXCEPT ![target[r]] = "reserved_temp"] /\ target' = target
          /\ pc' = [pc EXCEPT ![r] = "release"] /\ res' = [res EXCEPT ![r] = "none"]
          /\ expiry' = expiry
      BY <1>6, <2>2 DEF StatementFails
    <3>2. \A s \in Requests \ {r} : ResourceOf[s] = ResourceOf[r] => pc[s] \notin Body
      BY <2>2 DEF MutualExclusion
    <3>3. (OneRowPerSeat /\ TargetsFit /\ NoRowYet /\ Positions)'
      BY <2>2, <3>1 DEF RowsOf
    <3>4. InsertIsFree'
      BY <2>2, <3>1, <3>2
    <3>5. (ClaimsExclude /\ ClaimsShow)'
      BY <2>2, <3>1
    <3> QED
      BY <3>3, <3>4, <3>5
  <2>3. CASE UNCHANGED seat
    <3>1. /\ UNCHANGED <<target, expiry>>
          /\ pc[r] \in Body /\ pc' = [pc EXCEPT ![r] = "release"]
          /\ \/ res' = [res EXCEPT ![r] = "none"]
             \/ pc[r] = "commit" /\ res' = [res EXCEPT ![r] = "pending"]
      BY <1>6, <2>3 DEF StatementFails
    <3>2. \A s \in Requests : Claims(s)' => Claims(s)
      BY <3>1
    <3>3. (ClaimsExclude /\ ClaimsShow)'
      BY <2>3, <3>1, <3>2
    <3>4. (OneRowPerSeat /\ TargetsFit /\ NoRowYet /\ InsertIsFree)'
      BY <2>3, <3>1 DEF RowsOf
    <3>5. Positions'
      BY <3>1
    <3> QED
      BY <3>3, <3>4, <3>5
  <2> QED
    BY <1>6, <2>1, <2>2, <2>3 DEF StatementFails
<1>7. ASSUME NEW r \in Requests, LockCommandFails(r) PROVE BookingInv'
  BY <1>7 DEF LockCommandFails, RowsOf
<1>8. ASSUME NEW k \in Resources, SeatLockExpires(k) PROVE BookingInv'
  BY <1>8 DEF SeatLockExpires, RowsOf
<1>9. CASE Crash
  BY <1>1, <1>9 DEF Crash
<1>10. CASE Tick
  BY <1>10 DEF Tick, RowsOf
<1>11. CASE UNCHANGED bookingVars
  BY <1>11 DEF bookingVars, RowsOf
<1> QED
  BY <1>1, <1>2, <1>3, <1>4, <1>5, <1>6, <1>7, <1>8, <1>9, <1>10, <1>11 DEF BookingNext, RequestRuns, JobRuns, Environment

LEMMA BookingInvariant == ASSUME ~OutlivesTTL PROVE BookingSpec => []BookingInv
BY BookingInvInit, BookingInvStep, BookingTyping, BookingExclusion, PTL DEF BookingSpec

LEMMA BookedShows == BookingInv => BookedSeatIsTaken
BY DEF BookingInv, TargetsFit, Positions, ClaimsShow, Claims, Holds, BookedSeatIsTaken

LEMMA ListedShows == BookingTypeOK /\ BookingInv => OfferedIsFree
<1> SUFFICES ASSUME BookingTypeOK, BookingInv, BookedSeatIsTaken,
                    NEW r \in Requests, res[r] \in {"pending", "completed"},
                    ResourceOf[r] \in Offered
             PROVE  FALSE
  BY BookedShows DEF OfferedIsFree
<1>1. target[r] \in RowsOf(ResourceOf[r])
  BY DEF BookedSeatIsTaken, BookingTypeOK, RowsOf
<1>2. PICK x \in RowsOf(ResourceOf[r]) : seat[x] = "available"
  BY <1>1 DEF Offered, ListedAs
<1>3. x = target[r]
  BY <1>1, <1>2 DEF BookingInv, OneRowPerSeat, RowsOf
<1> QED
  BY <1>2, <1>3 DEF BookedSeatIsTaken

(* However requests, jobs, crashes and failing statements interleave, a     *)
(* seat has one row ...                                                     *)
THEOREM SeatIsOneRow == ASSUME ~OutlivesTTL PROVE BookingSpec => []OneRowPerSeat
BY BookingInvariant, PTL DEF BookingInv

(* ... no seat is held by two reservations ...                              *)
THEOREM NoSeatTwice == ASSUME ~OutlivesTTL PROVE BookingSpec => []NoDoubleBooking
<1>1. BookingInv => NoDoubleBooking
  BY DEF BookingInv, ClaimsExclude, Claims, NoDoubleBooking
<1> QED
  BY <1>1, BookingInvariant, PTL

(* ... and the seat of a reservation is taken ...                           *)
THEOREM BookedIsTaken == ASSUME ~OutlivesTTL PROVE BookingSpec => []BookedSeatIsTaken
BY BookingInvariant, BookedShows, PTL

(* ... and not listed by getAvailableSeats, which takes no lock.            *)
THEOREM ListedIsFree == ASSUME ~OutlivesTTL PROVE BookingSpec => []OfferedIsFree
BY BookingTyping, BookingInvariant, ListedShows, PTL

LEMMA AnswerStep ==
    ASSUME BookingTypeOK, BookingInv, AnswerIsTrue, [BookingNext]_bookingVars
    PROVE  AnswerIsTrue'
<1> SUFFICES ASSUME NEW r \in Requests, answer'[r] = "reserved"
             PROVE  res'[r] \in {"pending", "completed", "expired"}
  BY DEF AnswerIsTrue
<1> USE DEF BookingTypeOK, BookingInv, Positions, AnswerIsTrue, SetRes, Answers, At, tables
<1>1. ASSUME NEW s \in Requests, RequestStep(s) PROVE res'[r] \in {"pending", "completed", "expired"}
  BY <1>1 DEF RequestStep, Lock, FindSeat, CreateSeat, ReadSeat, InsertReservation, MarkSeat,
              Schedule, Commit, Release, ProcessDies
<1>2. ASSUME NEW s \in Requests, StatementFails(s) PROVE res'[r] \in {"pending", "completed", "expired"}
  BY <1>2 DEF StatementFails
<1>3. ASSUME NEW s \in Requests, JobStep(s) \/ ExpireFails(s)
      PROVE res'[r] \in {"pending", "completed", "expired"}
  BY <1>3 DEF JobStep, JobFires, ExpireFind, ExpireSave, ExpireSeat, ExpireFails
<1>4. ASSUME NEW s \in Requests, LockCommandFails(s) PROVE res'[r] \in {"pending", "completed", "expired"}
  BY <1>4 DEF LockCommandFails
<1>5. CASE ProcessDies
  BY <1>5 DEF ProcessDies
<1>6. CASE UNCHANGED <<res, answer>>
  BY <1>6
<1> QED
  BY <1>1, <1>2, <1>3, <1>4, <1>5, <1>6
     DEF BookingNext, RequestRuns, JobRuns, Environment, Reserve, CheckReturns, SeatLockExpires, Crash, Tick, bookingVars

(* The client is told of a reservation only when there is one.              *)
THEOREM AnswersAreTrue == ASSUME ~OutlivesTTL PROVE BookingSpec => []AnswerIsTrue
<1>1. BookingInit => AnswerIsTrue
  BY DEF BookingInit, AnswerIsTrue
<1> QED
  BY <1>1, AnswerStep, BookingTyping, BookingInvariant, PTL DEF BookingSpec

-----------------------------------------------------------------------------
(* What expires, or is about to, is overdue.                                *)
Overdue ==
    \A r \in Requests :
        expiry[r] \in {"find", "save", "seat"} \/ res[r] = "expired" => left[r] = 0

LEMMA OverdueStep ==
    ASSUME BookingTypeOK, BookingInv, Overdue, [BookingNext]_bookingVars
    PROVE  Overdue'
<1> USE DEF BookingTypeOK, BookingInv, Positions, Overdue, SetRes, SetExpiry, At, tables
<1>1. CASE ProcessDies
  BY <1>1 DEF ProcessDies
<1>2. ASSUME NEW r \in Requests, RequestStep(r) PROVE Overdue'
  BY <1>1, <1>2 DEF RequestStep, Lock, FindSeat, CreateSeat, ReadSeat, InsertReservation,
                    MarkSeat, Schedule, Commit, Release
<1>3. ASSUME NEW r \in Requests, JobStep(r) \/ ExpireFails(r) PROVE Overdue'
  BY <1>3 DEF JobStep, JobFires, ExpireFind, ExpireSave, ExpireSeat, ExpireFails
<1>4. ASSUME NEW r \in Requests, StatementFails(r) \/ LockCommandFails(r) PROVE Overdue'
  BY <1>4 DEF StatementFails, LockCommandFails
<1>5. CASE Tick
  BY <1>5 DEF Tick, Ticking
<1>6. CASE UNCHANGED <<res, left, expiry>>
  BY <1>6
<1> QED
  BY <1>1, <1>2, <1>3, <1>4, <1>5, <1>6
     DEF BookingNext, RequestRuns, JobRuns, Environment, Reserve, CheckReturns, SeatLockExpires, Crash, bookingVars

LEMMA OnlyOverdueExpire ==
    ASSUME BookingTypeOK, Overdue, [BookingNext]_bookingVars,
           NEW r \in Requests, res[r] # "expired", res'[r] = "expired"
    PROVE  left[r] = 0
<1> USE DEF BookingTypeOK, Overdue, SetRes, tables
<1>1. CASE ProcessDies
  BY <1>1 DEF ProcessDies
<1>2. ASSUME NEW q \in Requests, RequestStep(q) \/ StatementFails(q) PROVE FALSE
  BY <1>1, <1>2 DEF RequestStep, Lock, FindSeat, CreateSeat, ReadSeat, InsertReservation,
                    MarkSeat, Schedule, Commit, Release, StatementFails, ProcessDies
<1>3. ASSUME NEW q \in Requests, JobStep(q) \/ ExpireFails(q) PROVE left[r] = 0
  BY <1>3 DEF JobStep, JobFires, ExpireFind, ExpireSave, ExpireSeat, ExpireFails
<1> QED
  BY <1>1, <1>2, <1>3
     DEF BookingNext, RequestRuns, JobRuns, Environment, Reserve, CheckReturns, LockCommandFails, SeatLockExpires, Crash, Tick,
         bookingVars

(* A reservation has its five minutes, even when its transaction outlasts   *)
(* them and the job is there before the row.                                *)
THEOREM FiveMinutes == ASSUME ~OutlivesTTL PROVE BookingSpec => NeverExpiredEarly
<1>1. BookingInit => Overdue
  BY DEF BookingInit, Overdue
<1>2. BookingTypeOK /\ Overdue /\ [BookingNext]_bookingVars
        => [\A r \in Requests : res[r] # "expired" /\ res'[r] = "expired" => left[r] = 0]_bookingVars
  BY OnlyOverdueExpire
<1> QED
  BY <1>1, <1>2, OverdueStep, BookingTyping, BookingInvariant, PTL
     DEF BookingSpec, NeverExpiredEarly
-----------------------------------------------------------------------------
(* Reservations as leases of their seats.                                   *)

(* A step that begins no lease ends some, or none.                          *)
LEMMA EndsOfLeases ==
    ASSUME NEW k \in Resources,
           \A r \in Callers(k) : \/ Tenure(r)' = Tenure(r)
                                 \/ Tenure(r) # "over" /\ Tenure(r)' = "over"
    PROVE  Lease(k)!Next
<1>1. PICK S \in SUBSET Callers(k) : S = {r \in Callers(k) : Tenure(r)' # Tenure(r)}
  OBVIOUS
<1>2. TenureOn(k)' = [r \in Callers(k) |-> IF r \in S THEN "over" ELSE TenureOn(k)[r]]
  BY <1>1 DEF TenureOn, Callers
<1>3. \A r \in S : TenureOn(k)[r] # "over"
  BY <1>1 DEF TenureOn
<1> QED
  BY <1>2, <1>3 DEF Lease!Next, Lease!Finish

LEMMA DyingEndsLeases ==
    ASSUME BookingTypeOK, BookingInv, ProcessDies, NEW r \in Requests
    PROVE  \/ Tenure(r)' = Tenure(r)
           \/ Tenure(r) # "over" /\ Tenure(r)' = "over"
BY DEF BookingTypeOK, Body, BookingInv, Positions, Tenure, Claims, Holds, ProcessDies

(* Leases begin with the INSERT of the reservation only.                    *)
LEMMA TenureStep ==
    ASSUME BookingTypeOK, BookingInv, [BookingNext]_bookingVars,
           NEW r \in Requests, ~InsertReservation(r)
    PROVE  \/ Tenure(r)' = Tenure(r)
           \/ Tenure(r) # "over" /\ Tenure(r)' = "over"
<1> USE DEF BookingTypeOK, Body, BookingInv, Positions, Tenure, Claims, Holds,
            SetRes, SetExpiry, Goto, At, tables
<1>1. CASE ProcessDies
  BY <1>1, DyingEndsLeases
<1>2. ASSUME NEW q \in Requests, Lock(q) \/ FindSeat(q) \/ CreateSeat(q) \/ ReadSeat(q)
      PROVE  \/ Tenure(r)' = Tenure(r)
             \/ Tenure(r) # "over" /\ Tenure(r)' = "over"
  BY <1>1, <1>2 DEF Lock, FindSeat, CreateSeat, ReadSeat
<1>3. ASSUME NEW q \in Requests, InsertReservation(q)
      PROVE  Tenure(r)' = Tenure(r)
  BY <1>3 DEF InsertReservation
<1>4. ASSUME NEW q \in Requests, MarkSeat(q) \/ Schedule(q) \/ Commit(q) \/ Release(q)
      PROVE  Tenure(r)' = Tenure(r)
  BY <1>4 DEF MarkSeat, Schedule, Commit, Release
<1>5. ASSUME NEW q \in Requests, StatementFails(q) \/ LockCommandFails(q)
      PROVE  \/ Tenure(r)' = Tenure(r)
             \/ Tenure(r) # "over" /\ Tenure(r)' = "over"
  BY <1>5 DEF StatementFails, LockCommandFails
<1>6. ASSUME NEW q \in Requests, JobStep(q) \/ ExpireFails(q)
      PROVE  \/ Tenure(r)' = Tenure(r)
             \/ Tenure(r) # "over" /\ Tenure(r)' = "over"
  BY <1>6 DEF JobStep, JobFires, ExpireFind, ExpireSave, ExpireSeat, ExpireFails
<1>7. ASSUME NEW q \in Requests, Reserve(q) PROVE Tenure(r)' = Tenure(r)
  BY <1>7 DEF Reserve
<1>8. CASE UNCHANGED <<pc, res, expiry>>
  BY <1>8
<1> QED
  BY <1>1, <1>2, <1>3, <1>4, <1>5, <1>6, <1>7, <1>8
     DEF BookingNext, RequestRuns, JobRuns, RequestStep, Environment, CheckReturns,
         SeatLockExpires, Crash, Tick, bookingVars

LEMMA LeaseStep ==
    ASSUME BookingTypeOK, BookingInv, BookingInv', [BookingNext]_bookingVars,
           NEW k \in Resources
    PROVE  Lease(k)!Next
<1>1. CASE \E r \in Callers(k) : InsertReservation(r)
  <2>1. PICK r \in Callers(k) : InsertReservation(r)
    BY <1>1
  <2>2. /\ r \in Requests /\ ResourceOf[r] = k
        /\ pc[r] = "insert" /\ res'[r] = "inserted"
        /\ \A s \in Requests \ {r} : res'[s] = res[s] /\ pc'[s] = pc[s]
        /\ expiry' = expiry
    BY <2>1 DEF InsertReservation, Callers, SetRes, Goto, At, BookingTypeOK
  <2>3. Tenure(r) = "asking" /\ Tenure(r)' = "running"
    BY <2>2 DEF Tenure, Claims, Holds, BookingInv, Positions
  <2>4. \A s \in Callers(k) \ {r} : Tenure(s)' = Tenure(s) /\ Tenure(s) # "running"
    BY <2>2 DEF Tenure, Claims, Holds, Callers, BookingInv, ClaimsExclude
  <2>5. TenureOn(k)' = [TenureOn(k) EXCEPT ![r] = "running"]
    BY <2>3, <2>4 DEF TenureOn, Callers
  <2>6. /\ TenureOn(k)[r] = "asking"
        /\ \A s \in Callers(k) : TenureOn(k)[s] # "running"
    BY <2>3, <2>4 DEF TenureOn
  <2> QED
    BY <2>5, <2>6 DEF Lease!Next, Lease!Enter
<1>2. CASE \A r \in Callers(k) : ~InsertReservation(r)
  BY <1>2, TenureStep, EndsOfLeases DEF Callers
<1> QED
  BY <1>1, <1>2

(* The reservations of a seat succeed each other: none begins before the    *)
(* one before it has given the seat back, and none that is over comes back. *)
THEOREM LeasesSucceed == ASSUME ~OutlivesTTL PROVE BookingSpec => SeatsAreLeased
<1>1. BookingInit => \A k \in Resources : Lease(k)!Init
  BY DEF BookingInit, TenureOn, Tenure, Claims, Holds, Callers, Lease!Init
<1>2. BookingTypeOK /\ BookingInv /\ BookingInv' /\ [BookingNext]_bookingVars
        => [\A k \in Resources : [Lease(k)!Next]_(TenureOn(k))]_bookingVars
  BY LeaseStep
<1> QED
  BY <1>1, <1>2, BookingTyping, BookingInvariant, PTL DEF BookingSpec, SeatsAreLeased
-----------------------------------------------------------------------------
(* Who sees taken seats through.  Besides the claim itself: transactions    *)
(* end before their deadline, and until COMMIT the timer is set and waits.  *)
TimersWait ==
    crashes = 0 /\ faults = 0 =>
        \A r \in Requests : /\ res[r] = "inserted" => left[r] > 0
                            /\ pc[r] = "commit" => expiry[r] = "scheduled"

LEMMA TimersWaitStep ==
    ASSUME ~OutlivesDeadline, BookingTypeOK, BookingInv, TimersWait, [BookingNext]_bookingVars
    PROVE  TimersWait'
<1> SUFFICES ASSUME crashes' = 0, faults' = 0, NEW r \in Requests
             PROVE  /\ res'[r] = "inserted" => left'[r] > 0
                    /\ pc'[r] = "commit" => expiry'[r] = "scheduled"
  BY DEF TimersWait
<1> USE BookingAssumption
    DEF BookingTypeOK, LockTypeOK, BookingInv, Positions, TimersWait, SetRes, SetExpiry, Goto, At,
        tables, lockVars
<1>1. ~ProcessDies
  BY DEF ProcessDies
<1>2. ASSUME NEW q \in Requests,
             StatementFails(q) \/ LockCommandFails(q) \/ ExpireFails(q)
      PROVE  FALSE
  BY <1>2 DEF StatementFails, OperationFails, LockCommandFails, CommandFails, ExpireFails
<1>3. ASSUME NEW q \in Requests, RequestStep(q)
      PROVE  /\ res'[r] = "inserted" => left'[r] > 0
             /\ pc'[r] = "commit" => expiry'[r] = "scheduled"
  <2>1. crashes = 0 /\ faults = 0
    BY <1>1, <1>3 DEF RequestStep, Lock, AcquireLock, FindSeat, CreateSeat, ReadSeat,
       InsertReservation, MarkSeat, Schedule, Commit, OperationEnds, Release, ReleaseGet, ReleaseDel
  <2>2. CASE Lock(q) \/ FindSeat(q) \/ CreateSeat(q) \/ ReadSeat(q)
    BY <1>1, <2>1, <2>2 DEF Lock, FindSeat, CreateSeat, ReadSeat
  <2>3. CASE InsertReservation(q) \/ MarkSeat(q)
    BY <2>1, <2>3 DEF InsertReservation, MarkSeat
  <2>4. CASE Schedule(q)
    BY <2>1, <2>4 DEF Schedule
  <2>5. CASE Commit(q) \/ Release(q)
    BY <2>1, <2>5 DEF Commit, Release
  <2> QED BY <1>3, <2>2, <2>3, <2>4, <2>5 DEF RequestStep
<1>4. ASSUME NEW q \in Requests, JobStep(q)
      PROVE  /\ res'[r] = "inserted" => left'[r] > 0
             /\ pc'[r] = "commit" => expiry'[r] = "scheduled"
  BY <1>4 DEF JobStep, JobFires, ExpireFind, ExpireSave, ExpireSeat
<1>5. ASSUME Tick
      PROVE  /\ res'[r] = "inserted" => left'[r] > 0
             /\ pc'[r] = "commit" => expiry'[r] = "scheduled"
  BY <1>5 DEF Tick, Ticking
<1>6. CASE UNCHANGED <<res, left, expiry, faults, crashes>> /\ \A q \in Requests : pc'[q] # "commit" \/ pc'[q] = pc[q]
  BY <1>6
<1> QED
  BY <1>1, <1>2, <1>3, <1>4, <1>5, <1>6
     DEF BookingNext, RequestRuns, JobRuns, Environment, Reserve, CheckReturns, SeatLockExpires,
         LockExpires, Crash, bookingVars

LEMMA WatchStep ==
    ASSUME BookingTypeOK, BookingInv, TimersWait, TakenSeatIsWatched, [BookingNext]_bookingVars
    PROVE  TakenSeatIsWatched'
<1> SUFFICES ASSUME crashes' = 0, faults' = 0, NEW x \in Rows, seat'[x] = "reserved_temp"
             PROVE  \E r \in Requests : target'[r] = x /\ SeesThrough(r)'
  BY DEF TakenSeatIsWatched, Rows
<1> USE DEF BookingTypeOK, LockTypeOK, BookingInv, Positions, TimersWait, SetRes, SetExpiry, SetSeat,
            Goto, At, tables, lockVars, SeesThrough
<1>1. ~ProcessDies
  BY DEF ProcessDies
<1>2. ASSUME NEW q \in Requests,
             StatementFails(q) \/ LockCommandFails(q) \/ ExpireFails(q)
      PROVE  FALSE
  BY <1>2 DEF StatementFails, OperationFails, LockCommandFails, CommandFails, ExpireFails
<1>3. ASSUME seat[x] = "reserved_temp", crashes = 0, faults = 0
      PROVE  \E r \in Requests : target[r] = x /\ SeesThrough(r)
  BY <1>3 DEF TakenSeatIsWatched
<1>4. ASSUME NEW q \in Requests, RequestStep(q)
      PROVE  \E r \in Requests : target'[r] = x /\ SeesThrough(r)'
  <2>1. crashes = 0 /\ faults = 0
    BY <1>1, <1>4 DEF RequestStep, Lock, AcquireLock, FindSeat, CreateSeat, ReadSeat,
       InsertReservation, MarkSeat, Schedule, Commit, OperationEnds, Release, ReleaseGet, ReleaseDel
  <2>2. CASE Lock(q) \/ FindSeat(q) \/ ReadSeat(q) \/ InsertReservation(q)
    BY <1>1, <1>3, <2>1, <2>2 DEF Lock, FindSeat, ReadSeat, InsertReservation
  <2>3. CASE CreateSeat(q)
    BY <1>3, <2>1, <2>3 DEF CreateSeat, Rows
  <2>4. CASE MarkSeat(q)
    BY <1>3, <2>1, <2>4 DEF MarkSeat
  <2>5. CASE Schedule(q) \/ Commit(q) \/ Release(q)
    BY <1>3, <2>1, <2>5 DEF Schedule, Commit, Release
  <2> QED BY <1>4, <2>2, <2>3, <2>4, <2>5 DEF RequestStep
<1>5. ASSUME NEW q \in Requests, JobStep(q)
      PROVE  \E r \in Requests : target'[r] = x /\ SeesThrough(r)'
  BY <1>3, <1>5 DEF JobStep, JobFires, ExpireFind, ExpireSave, ExpireSeat
<1>6. ASSUME NEW q \in Requests, Reserve(q) \/ CheckReturns(q)
      PROVE  \E r \in Requests : target'[r] = x /\ SeesThrough(r)'
  BY <1>1, <1>3, <1>6 DEF Reserve, CheckReturns
<1>7. CASE UNCHANGED <<pc, seat, target, res, expiry, faults, crashes>>
  BY <1>3, <1>7
<1> QED
  BY <1>1, <1>2, <1>4, <1>5, <1>6, <1>7
     DEF BookingNext, RequestRuns, JobRuns, Environment, SeatLockExpires, LockExpires, Crash, Tick,
         bookingVars

(* As long as nothing fails and the process lives, every taken seat has a   *)
(* request, a timer or a job that will see it through.                      *)
THEOREM SeatsAreWatched ==
    ASSUME ~OutlivesTTL, ~OutlivesDeadline
    PROVE  BookingSpec => []TakenSeatIsWatched
<1>1. BookingInit => TimersWait /\ TakenSeatIsWatched
  BY DEF BookingInit, TimersWait, TakenSeatIsWatched
<1> QED
  BY <1>1, TimersWaitStep, WatchStep, BookingTyping, BookingInvariant, PTL DEF BookingSpec
=============================================================================
