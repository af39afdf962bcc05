------------------------------ MODULE NoWaitLock ------------------------------
(***************************************************************************)
(* RedisNoWaitLockManager.withLockBySrc (redis-nowait-lock.manager.ts): a   *)
(* request takes the lock key of its resource with SET NX or is refused at  *)
(* once.  What the operation does is left to the module that EXTENDS this   *)
(* one (Booking), which also says when requests are made, fail together in  *)
(* a crash, and are answered.                                               *)
(***************************************************************************)
EXTENDS Naturals

CONSTANTS
    Requests,      \* calls of withLockBySrc, each with a uuid of its own
    Resources,     \* resource ids
    ResourceOf,    \* the resource of each call
    NoOne,         \* the value of an absent lock key
    OutlivesTTL,   \* may the TTL of a lock run out while its holder is still at work?
    MaxFaults      \* bound: commands that fail

ASSUME NoWaitLockAssumption ==
    /\ ResourceOf \in [Requests -> Resources]
    /\ NoOne \notin Requests
    /\ OutlivesTTL \in BOOLEAN
    /\ MaxFaults \in Nat

VARIABLES
    lock,      \* value of the lock key of each resource
    at,        \* where in withLockBySrc each call is
    faults     \* failures so far

lockVars == <<lock, at, faults>>

(* "asking" until SET NX is answered, "operating", then "get" and "del" of  *)
(* releaseLock, "over".                                                     *)
LockTypeOK ==
    /\ lock \in [Resources -> Requests \cup {NoOne}]
    /\ at \in [Requests -> {"asking", "operating", "get", "del", "over"}]
    /\ faults \in 0..MaxFaults

LockInit ==
    /\ lock = [k \in Resources |-> NoOne]
    /\ at = [r \in Requests |-> "asking"]
    /\ faults = 0

LockOf(r)       == lock[ResourceOf[r]]
SetLock(r, v)   == lock' = [lock EXCEPT ![ResourceOf[r]] = v]
Proceeds(r, to) == at' = [at EXCEPT ![r] = to]

-----------------------------------------------------------------------------
(* Mutant of AcquireLock: the result of SET NX is not looked at. *)
AcquireAnyway(r) ==
    /\ at[r] = "asking"
    /\ IF LockOf(r) = NoOne THEN SetLock(r, r) ELSE UNCHANGED lock
    /\ Proceeds(r, "operating")
    /\ UNCHANGED faults

(* SET NX: the lock, or 'Failed to acquire lock' at once. *)
AcquireLock(r) ==
    /\ at[r] = "asking"
    /\ \/ LockOf(r) = NoOne /\ SetLock(r, r) /\ Proceeds(r, "operating")
       \/ LockOf(r) # NoOne /\ UNCHANGED lock /\ Proceeds(r, "over")
    /\ UNCHANGED faults

(* The operation's promise settles, one way or the other. *)
OperationEnds(r) ==
    /\ at[r] = "operating"
    /\ Proceeds(r, "get")
    /\ UNCHANGED <<lock, faults>>

(* releaseLock: GET, and DEL if the value is the caller's. *)
ReleaseGet(r) ==
    /\ at[r] = "get"
    /\ Proceeds(r, IF LockOf(r) = r THEN "del" ELSE "over")
    /\ UNCHANGED <<lock, faults>>

ReleaseDel(r) ==
    /\ at[r] = "del"
    /\ SetLock(r, NoOne)
    /\ Proceeds(r, "over")
    /\ UNCHANGED faults

-----------------------------------------------------------------------------
(* A command's promise rejects and the call with it, SET NX's because it is *)
(* awaited outside the try block; the command may have been executed.       *)
CommandFails(r) ==
    /\ faults < MaxFaults
    /\ faults' = faults + 1
    /\ at[r] \in {"asking", "get", "del"}
    /\ Proceeds(r, "over")
    /\ \/ UNCHANGED lock
       \/ at[r] = "asking" /\ LockOf(r) = NoOne /\ SetLock(r, r)
       \/ at[r] = "del" /\ SetLock(r, NoOne)

(* The process of the calls S is gone, their locks stay. *)
Abandon(S) ==
    /\ at' = [r \in Requests |-> IF r \in S THEN "over" ELSE at[r]]
    /\ UNCHANGED <<lock, faults>>

(* Mutant of LockExpires: a TTL shorter than the operation. *)
ExpiresTooSoon(k) ==
    /\ lock[k] # NoOne
    /\ lock' = [lock EXCEPT ![k] = NoOne]
    /\ UNCHANGED <<at, faults>>

(* The TTL of a lock key runs out. *)
LockExpires(k) ==
    /\ lock[k] # NoOne
    /\ OutlivesTTL \/ at[lock[k]] = "over"
    /\ lock' = [lock EXCEPT ![k] = NoOne]
    /\ UNCHANGED <<at, faults>>

(* Within the operation, what can fail is the caller's; it spends faults    *)
(* from the same bound.                                                     *)
OperationFails(r) ==
    /\ faults < MaxFaults
    /\ faults' = faults + 1
    /\ at[r] = "operating"
    /\ Proceeds(r, "get")
    /\ UNCHANGED lock

LockNext ==
    \/ \E r \in Requests :
          \/ AcquireLock(r) \/ OperationEnds(r) \/ ReleaseGet(r) \/ ReleaseDel(r)
          \/ CommandFails(r) \/ OperationFails(r)
    \/ \E S \in SUBSET Requests : Abandon(S)
    \/ \E k \in Resources : LockExpires(k)
    \/ faults < MaxFaults /\ faults' = faults + 1 /\ UNCHANGED <<lock, at>>

LockSpec == LockInit /\ [][LockNext]_lockVars

-----------------------------------------------------------------------------
(* Two operations on one resource never overlap. *)
MutualExclusion ==
    \A r, s \in Requests :
        at[r] = "operating" /\ at[s] = "operating" /\ ResourceOf[r] = ResourceOf[s] => r = s

(* The lock manager keeps the promise of Mutex for each resource. *)
Callers(k) == {r \in Requests : ResourceOf[r] = k}

PhaseOn(k) == [r \in Callers(k) |->
                  CASE at[r] = "asking" -> "asking"
                    [] at[r] = "operating" -> "running"
                    [] OTHER -> "over"]

Abstract(k) == INSTANCE Mutex WITH Clients <- Callers(k), phase <- PhaseOn(k)

LockImplementsMutex ==
    /\ \A k \in Resources : Abstract(k)!Init
    /\ [][\A k \in Resources : [Abstract(k)!Next]_(PhaseOn(k))]_lockVars
=============================================================================
