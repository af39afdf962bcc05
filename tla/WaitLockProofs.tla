---------------------------- MODULE WaitLockProofs ----------------------------
(***************************************************************************)
(* Theorems about WaitLock, for every set of requests and instances and    *)
(* every bound.                                                            *)
(***************************************************************************)
EXTENDS WaitLock, TLAPS

-----------------------------------------------------------------------------
(* The initial state is well typed, and every step of the code, of a fault  *)
(* or of the environment leaves the state well typed.                       *)
LEMMA TypeInit == Init => TypeOK
BY WaitLockAssumption DEF Init, TypeOK, Labels, TrySteps, FinallySteps

LEMMA TypeStep == ASSUME TypeOK, [Next]_vars PROVE TypeOK'
<1> USE DEF TypeOK, Labels, TrySteps, FinallySteps
<1> USE DEF Goto, At, Settles, redis, world
<1>1. ASSUME NEW r \in Requests, JoinQueue(r) PROVE TypeOK'
  BY <1>1 DEF JoinQueue
<1>2. ASSUME NEW r \in Requests, Step(r) PROVE TypeOK'
  <2>1. CASE Zadd(r)
    BY <2>1 DEF Zadd
  <2>2. CASE WaitForTurn(r)
    BY <2>2 DEF WaitForTurn
  <2>3. CASE Subscribe(r)
    BY <2>3 DEF Subscribe
  <2>4. CASE Notified(r)
    BY <2>4 DEF Notified
  <2>5. CASE AcquireLock(r)
    BY <2>5 DEF AcquireLock
  <2>6. CASE Operation(r)
    BY <2>6 DEF Operation
  <2>7. CASE ReleaseGet(r)
    BY <2>7 DEF ReleaseGet
  <2>8. CASE ReleaseDel(r)
    BY <2>8 DEF ReleaseDel
  <2>9. CASE LeaveQueue(r)
    BY <2>9 DEF LeaveQueue
  <2>10. CASE GetNextReqId(r)
    BY <2>10 DEF GetNextReqId
  <2>11. CASE NotifyNext(r)
    BY <2>11 DEF NotifyNext, Publish
  <2> QED
    BY <1>2, <2>1, <2>2, <2>3, <2>4, <2>5, <2>6, <2>7, <2>8, <2>9, <2>10, <2>11 DEF Step
<1>3. ASSUME NEW r \in Requests, Fault(r) PROVE TypeOK'
  <2>1. CASE CommandLost(r)
    BY <2>1, WaitLockAssumption DEF CommandLost, Rejects
  <2>2. CASE ReplyLost(r)
    <3>1. /\ faults' \in 0..MaxFaults
          /\ pc' \in [Requests -> Labels]
          /\ outcome' \in [Requests -> {"none", "ran", "failed", "refused"}]
          /\ UNCHANGED <<clock, stamp, target, crashes>>
          /\ \A s \in Requests : pc'[s] = "notify" => pc[s] = "notify"
      BY <2>2, WaitLockAssumption DEF ReplyLost, Rejects
    <3>2. queue' \subseteq Requests /\ lock' \in Requests \cup {NoOne} /\ woken' \subseteq Requests
      BY <2>2 DEF ReplyLost, Publish
    <3> QED
      BY <3>1, <3>2
  <2>3. CASE MessageLost(r)
    BY <2>3, WaitLockAssumption DEF MessageLost
  <2> QED
    BY <1>3, <2>1, <2>2, <2>3 DEF Fault
<1>4. ASSUME NEW i \in Instances, Crash(i) PROVE TypeOK'
  <2>1. crashes' \in 0..MaxCrashes
    BY <1>4, WaitLockAssumption DEF Crash
  <2>2. \A r \in Requests : pc'[r] = "dead" \/ pc'[r] = pc[r]
    BY <1>4 DEF Crash
  <2>3. pc' \in [Requests -> Labels]
    BY <1>4, <2>2 DEF Crash
  <2>4. woken' \subseteq Requests
    BY <1>4 DEF Crash
  <2> QED
    BY <1>4, <2>1, <2>2, <2>3, <2>4 DEF Crash
<1>5. CASE LockExpires
  BY <1>5 DEF LockExpires
<1>6. CASE Tick
  BY <1>6, WaitLockAssumption DEF Tick
<1>7. CASE UNCHANGED vars
  BY <1>7 DEF vars
<1> QED
  BY <1>1, <1>2, <1>3, <1>4, <1>5, <1>6, <1>7 DEF Next

(* Type correctness: every reachable state of WaitLock is well typed, in    *)
(* particular a request that notifies has another request to notify.        *)
THEOREM Typing == Spec => []TypeOK
BY TypeInit, TypeStep, PTL DEF Spec

LEMMA OrderedTyping == OrderedSpec => []TypeOK
BY TypeInit, TypeStep, PTL DEF OrderedSpec, OrderedNext

-----------------------------------------------------------------------------
(* The invariant behind mutual exclusion without any order of arrival: who  *)
(* operates, or is about to send DEL, owns the lock key.                    *)
Owner == \A r \in Requests : pc[r] \in {"operate", "del"} => lock = r

(* ... which needs that the lock key does not vanish under a live holder.   *)
LEMMA OwnerStep ==
    ASSUME ~OutlivesTTL, TypeOK, Owner, [Next]_vars
    PROVE  Owner'
<1> USE DEF Owner, TypeOK, Goto, At, redis
<1>1. ASSUME NEW r \in Requests, JoinQueue(r) PROVE Owner'
  BY <1>1 DEF JoinQueue
<1>2. ASSUME NEW r \in Requests, Step(r) PROVE Owner'
  <2>1. CASE Zadd(r)
    BY <2>1 DEF Zadd
  <2>2. CASE WaitForTurn(r)
    BY <2>2 DEF WaitForTurn
  <2>3. CASE Subscribe(r)
    BY <2>3 DEF Subscribe
  <2>4. CASE Notified(r)
    BY <2>4 DEF Notified
  <2>5. CASE AcquireLock(r)
    BY <2>5, WaitLockAssumption DEF AcquireLock
  <2>6. CASE Operation(r)
    BY <2>6 DEF Operation
  <2>7. CASE ReleaseGet(r)
    BY <2>7 DEF ReleaseGet
  <2>8. CASE ReleaseDel(r)
    <3>1. \A s \in Requests \ {r} : pc[s] \notin {"operate", "del"}
      BY <2>8 DEF ReleaseDel
    <3> QED
      BY <2>8, <3>1 DEF ReleaseDel
  <2>9. CASE LeaveQueue(r)
    BY <2>9 DEF LeaveQueue
  <2>10. CASE GetNextReqId(r)
    BY <2>10 DEF GetNextReqId
  <2>11. CASE NotifyNext(r)
    BY <2>11 DEF NotifyNext
  <2> QED
    BY <1>2, <2>1, <2>2, <2>3, <2>4, <2>5, <2>6, <2>7, <2>8, <2>9, <2>10, <2>11 DEF Step
<1>3. ASSUME NEW r \in Requests, CommandLost(r) PROVE Owner'
  BY <1>3 DEF CommandLost, Rejects
<1>4. ASSUME NEW r \in Requests, ReplyLost(r) PROVE Owner'
  <2>1. \A s \in Requests : pc'[s] \in {"operate", "del"} => s # r /\ pc[s] = pc'[s]
    BY <1>4 DEF ReplyLost, Rejects
  <2>2. \A s \in Requests \ {r} : pc[s] \in {"operate", "del"} => lock' = lock
    BY <1>4, WaitLockAssumption DEF ReplyLost
  <2> QED
    BY <2>1, <2>2
<1>5. ASSUME NEW r \in Requests, MessageLost(r) PROVE Owner'
  BY <1>5 DEF MessageLost
<1>6. ASSUME NEW i \in Instances, Crash(i) PROVE Owner'
  <2>1. lock' = lock /\ \A r \in Requests : pc'[r] \in {"operate", "del"} => pc[r] = pc'[r]
    BY <1>6 DEF Crash
  <2> QED
    BY <2>1
<1>7. CASE LockExpires
  BY <1>7 DEF LockExpires, Live
<1>8. CASE Tick
  BY <1>8 DEF Tick
<1>9. CASE UNCHANGED vars
  BY <1>9 DEF vars
<1> QED
  BY <1>1, <1>2, <1>3, <1>4, <1>5, <1>6, <1>7, <1>8, <1>9 DEF Next, Fault

LEMMA Ownership == ASSUME ~OutlivesTTL PROVE Spec => []Owner
<1>1. Init => Owner
  BY DEF Init, Owner
<1> QED
  BY <1>1, OwnerStep, Typing, PTL DEF Spec

(* Operations on one resource never overlap, with any number of requests    *)
(* and instances, whatever commands and messages are lost and whoever       *)
(* crashes: the guarantee withLockBySrc exists for.                         *)
THEOREM Exclusion == ASSUME ~OutlivesTTL PROVE Spec => []MutualExclusion
<1>1. Owner => MutualExclusion
  BY DEF Owner, MutualExclusion, At
<1> QED
  BY <1>1, Ownership, PTL

(* releaseLock reads the key and deletes it in two commands, yet no lock is *)
(* ever deleted under another request that is still at work.                *)
THEOREM ReleaseIsOwn == ASSUME ~OutlivesTTL PROVE Spec => OnlyOwnerReleases
<1> DEFINE Own == \A r \in Requests : lock = r /\ lock' # r /\ Live(r) => At(r, "del")
<1>1. TypeOK /\ Owner /\ [Next]_vars => [Own]_vars
  <2> SUFFICES ASSUME Owner, Next, NEW r \in Requests, lock = r, lock' # r, Live(r)
               PROVE  pc[r] = "del"
    BY DEF At
  <2>1. ASSUME NEW s \in Requests, Step(s) PROVE pc[r] = "del"
    <3>1. CASE AcquireLock(s)
      BY <3>1, WaitLockAssumption DEF AcquireLock
    <3>2. CASE ReleaseDel(s)
      BY <3>2 DEF ReleaseDel, Owner, At
    <3>3. CASE lock' = lock
      BY <3>3
    <3> QED
      BY <2>1, <3>1, <3>2, <3>3
         DEF Step, Zadd, WaitForTurn, Subscribe, Notified, Operation, ReleaseGet,
             LeaveQueue, GetNextReqId, NotifyNext, redis
  <2>2. ASSUME NEW s \in Requests, ReplyLost(s) PROVE pc[r] = "del"
    BY <2>2, WaitLockAssumption DEF ReplyLost, Owner, At
  <2>3. ASSUME LockExpires PROVE FALSE
    BY <2>3 DEF LockExpires
  <2> QED
    BY <2>1, <2>2, <2>3
       DEF Next, Fault, JoinQueue, CommandLost, MessageLost, Crash, Tick, redis
<1> QED
  BY <1>1, Typing, Ownership, PTL DEF Spec, OnlyOwnerReleases

(* Every step is one of Mutex, or nothing to it, if nobody operates when    *)
(* another whose turn it is finds the lock free.                            *)
EntersAlone ==
    \A r, s \in Requests : pc[r] = "acquire" /\ lock = NoOne => pc[s] # "operate"

LEMMA MutexStep ==
    ASSUME TypeOK, EntersAlone, [Next]_vars
    PROVE  Abstract!Next \/ Phase' = Phase
<1> USE DEF Phase, At
<1> USE DEF TypeOK, Goto, FinallySteps
<1>1. ASSUME NEW r \in Requests, JoinQueue(r) PROVE Phase' = Phase
  BY <1>1 DEF JoinQueue
<1>2. ASSUME NEW r \in Requests, pc[r] \in TrySteps, Goto(r, "get") PROVE Abstract!Next
  <2>1. Abstract!Finish({r})
    BY <1>2 DEF Abstract!Finish, TrySteps
  <2> QED
    BY <2>1 DEF Abstract!Next
<1>3. ASSUME NEW r \in Requests, Step(r) PROVE Abstract!Next \/ Phase' = Phase
  <2>1. CASE AcquireLock(r) /\ Goto(r, "operate")
    <3>1. \A s \in Requests : pc[s] # "operate"
      BY <2>1 DEF AcquireLock, EntersAlone
    <3>2. Abstract!Enter(r)
      BY <2>1, <3>1 DEF Abstract!Enter, AcquireLock
    <3> QED
      BY <3>2 DEF Abstract!Next
  <2>2. CASE (AcquireLock(r) \/ Operation(r)) /\ Goto(r, "get")
    BY <2>2, <1>2 DEF AcquireLock, Operation, TrySteps
  <2>3. CASE Zadd(r) \/ WaitForTurn(r) \/ Subscribe(r) \/ Notified(r)
    BY <2>3 DEF Zadd, WaitForTurn, Subscribe, Notified
  <2>4. CASE ReleaseGet(r) \/ ReleaseDel(r) \/ LeaveQueue(r) \/ GetNextReqId(r) \/ NotifyNext(r)
    BY <2>4 DEF ReleaseGet, ReleaseDel, LeaveQueue, GetNextReqId, NotifyNext
  <2> QED
    BY <1>3, <2>1, <2>2, <2>3, <2>4 DEF Step, AcquireLock, Operation
<1>4. ASSUME NEW r \in Requests, Fault(r) PROVE Abstract!Next \/ Phase' = Phase
  <2>1. CASE Rejects(r) /\ pc[r] \in TrySteps
    BY <2>1, <1>2 DEF Rejects
  <2>2. CASE Rejects(r) /\ pc[r] \in FinallySteps
    BY <2>2 DEF Rejects, TrySteps
  <2>3. CASE MessageLost(r)
    BY <2>3 DEF MessageLost
  <2> QED
    BY <1>4, <2>1, <2>2, <2>3 DEF Fault, CommandLost, ReplyLost, TrySteps
<1>5. ASSUME NEW i \in Instances, Crash(i) PROVE Abstract!Next
  <2>1. PICK S \in SUBSET Requests :
           S = {r \in Requests : Host[r] = i /\ Phase[r] # "over" /\ pc[r] # "idle"}
    OBVIOUS
  <2>2. Abstract!Finish(S)
    BY <1>5, <2>1 DEF Abstract!Finish, Crash, Live
  <2> QED
    BY <2>2 DEF Abstract!Next
<1>6. CASE LockExpires \/ Tick \/ UNCHANGED vars
  BY <1>6 DEF LockExpires, Tick, vars
<1> QED
  BY <1>1, <1>3, <1>4, <1>5, <1>6 DEF Next

LEMMA MutexInit == Init => Abstract!Init
BY DEF Init, Abstract!Init, FinallySteps, Phase, At

(* RedisLockManager implements Mutex, whose steps start one operation while *)
(* no other runs and never start the operation of a call twice.             *)
THEOREM Refinement == ASSUME ~OutlivesTTL PROVE Spec => ImplementsMutex
<1>1. TypeOK /\ Owner => EntersAlone
  BY WaitLockAssumption DEF TypeOK, Owner, EntersAlone
<1>2. TypeOK /\ EntersAlone /\ [Next]_vars => [Abstract!Next]_Phase
  BY MutexStep
<1> QED
  BY <1>1, <1>2, MutexInit, Typing, Ownership, PTL DEF Spec, ImplementsMutex, Abstract!Spec

-----------------------------------------------------------------------------
(* The invariant of the queue when requests arrive in the order of their    *)
(* scores: a turn, once given, is a turn for good.                          *)
Arrives == \A r \in Requests : pc[r] \in {"idle", "zadd"} => r \notin queue

Queued == \A r \in Requests : pc[r] \in {"zrange", "subscribe", "wait"} => r \in queue

TurnIsFirst == \A r \in Requests : pc[r] \in {"acquire", "operate"} => IsFirst(r)

OwnerIsFirst ==
    \A r \in Requests :
        lock = r => IsFirst(r) /\ pc[r] \in {"operate", "get", "del", "done", "dead"}

WokenIsFirst == \A r \in Requests : r \in woken => pc[r] = "wait" /\ IsFirst(r)

TargetIsFirst ==
    \A r \in Requests : pc[r] = "notify" =>
        /\ pc[target[r]] \notin {"idle", "zadd"}
        /\ target[r] \in queue => IsFirst(target[r])

QueueInv ==
    Arrives /\ Queued /\ TurnIsFirst /\ OwnerIsFirst /\ WokenIsFirst /\ TargetIsFirst

(* At most one member of the queue is its head. *)
LEMMA FirstIsUnique ==
    ASSUME TypeOK, NEW r \in Requests, NEW s \in Requests, IsFirst(r), IsFirst(s)
    PROVE  r = s
BY WaitLockAssumption DEF TypeOK, IsFirst, Before

(* The head stays the head until it leaves. *)
LEMMA FirstStaysFirst ==
    ASSUME TypeOK, NEW r \in Requests, IsFirst(r), r \in queue', stamp' = stamp, InOrder
    PROVE  IsFirst(r)'
BY DEF TypeOK, IsFirst, Before, InOrder

LEMMA TurnsAreKept ==
    ASSUME TypeOK, Arrives, [OrderedNext]_vars
    PROVE  \A r \in Requests : IsFirst(r) /\ r \in queue' => IsFirst(r)'
<1> SUFFICES ASSUME NEW r \in Requests, IsFirst(r), r \in queue' PROVE IsFirst(r)'
  OBVIOUS
<1>1. CASE OrderedNext /\ stamp' = stamp
  BY <1>1, FirstStaysFirst DEF OrderedNext
<1>2. ASSUME NEW s \in Requests, JoinQueue(s) PROVE IsFirst(r)'
  <2>1. queue' = queue /\ \A t \in queue : stamp'[t] = stamp[t]
    BY <1>2 DEF JoinQueue, redis, Arrives, At, TypeOK
  <2> QED
    BY <2>1 DEF IsFirst, Before
<1>3. CASE UNCHANGED vars
  BY <1>3 DEF vars, IsFirst, Before
<1> QED
  BY <1>1, <1>2, <1>3
     DEF OrderedNext, Next, Step, Zadd, WaitForTurn, Subscribe, Notified, AcquireLock,
         Operation, ReleaseGet, ReleaseDel, LeaveQueue, GetNextReqId, NotifyNext,
         Fault, CommandLost, ReplyLost, MessageLost, Rejects, Crash, LockExpires, Tick

LEMMA QueueStep ==
    ASSUME TypeOK, QueueInv, [OrderedNext]_vars
    PROVE  QueueInv'
<1> USE DEF QueueInv, Arrives, Queued, TurnIsFirst, OwnerIsFirst, WokenIsFirst, TargetIsFirst
<1> USE TurnsAreKept DEF TypeOK, Goto, At, redis
<1>1. ASSUME NEW r \in Requests, JoinQueue(r) PROVE QueueInv'
  BY <1>1 DEF JoinQueue, IsFirst
<1>2. ASSUME NEW r \in Requests, Step(r) PROVE QueueInv'
  <2>1. CASE Zadd(r)
    BY <2>1 DEF Zadd, IsFirst
  <2>2. CASE WaitForTurn(r)
    BY <2>2 DEF WaitForTurn, IsFirst
  <2>3. CASE Subscribe(r)
    BY <2>3 DEF Subscribe, IsFirst
  <2>4. CASE Notified(r)
    BY <2>4 DEF Notified, IsFirst
  <2>5. CASE AcquireLock(r)
    BY <2>5 DEF AcquireLock, IsFirst
  <2>6. CASE Operation(r)
    BY <2>6 DEF Operation, IsFirst
  <2>7. CASE ReleaseGet(r)
    BY <2>7 DEF ReleaseGet, IsFirst
  <2>8. CASE ReleaseDel(r)
    <3>1. \A s \in Requests : IsFirst(s) => IsFirst(s)'
      BY <2>8 DEF ReleaseDel, IsFirst, Before
    <3>2. OwnerIsFirst'
      BY <2>8, WaitLockAssumption DEF ReleaseDel
    <3> QED
      BY <2>8, <3>1, <3>2 DEF ReleaseDel
  <2>9. CASE LeaveQueue(r)
    BY <2>9 DEF LeaveQueue, IsFirst
  <2>10. CASE GetNextReqId(r)
    BY <2>10 DEF GetNextReqId, IsFirst
  <2>11. CASE NotifyNext(r)
    BY <2>11 DEF NotifyNext, Publish, IsFirst
  <2> QED
    BY <1>2, <2>1, <2>2, <2>3, <2>4, <2>5, <2>6, <2>7, <2>8, <2>9, <2>10, <2>11 DEF Step
<1>3. ASSUME NEW r \in Requests, CommandLost(r) PROVE QueueInv'
  <2>1. \A s \in Requests : IsFirst(s) => IsFirst(s)'
    BY <1>3 DEF CommandLost, Rejects, IsFirst, Before
  <2>2. \A s \in Requests : pc'[s] = pc[s] \/ (s = r /\ pc'[s] \in {"get", "done"})
    BY <1>3 DEF CommandLost, Rejects
  <2>3. lock = r => pc[r] \in {"operate", "get", "del"}
    BY <1>3, WaitLockAssumption DEF CommandLost, FinallySteps
  <2>4. OwnerIsFirst'
    BY <1>3, <2>1, <2>2, <2>3 DEF CommandLost, Rejects
  <2>5. TargetIsFirst'
    BY <1>3, <2>1, <2>2 DEF CommandLost, Rejects
  <2>6. (Arrives /\ Queued /\ TurnIsFirst)'
    BY <1>3, <2>1, <2>2 DEF CommandLost, Rejects
  <2>7. WokenIsFirst'
    BY <1>3, <2>1 DEF CommandLost, Rejects, FinallySteps
  <2> QED
    BY <2>4, <2>5, <2>6, <2>7
<1>4. ASSUME NEW r \in Requests, ReplyLost(r) PROVE QueueInv'
  <2>1. \A s \in Requests : IsFirst(s) => s \in queue /\ (s \in queue' => IsFirst(s)')
    BY TurnsAreKept DEF IsFirst
  <2>2. /\ target' = target
        /\ pc'[r] \in {"get", "done"}
        /\ \A s \in Requests \ {r} : pc'[s] = pc[s]
    BY <1>4 DEF ReplyLost, Rejects
  <2>3. CASE At(r, "zadd") /\ queue' = queue \cup {r} /\ UNCHANGED <<lock, woken>>
    <3>1. (Arrives /\ Queued /\ TurnIsFirst)'
      BY <2>1, <2>2, <2>3
    <3>2. (OwnerIsFirst /\ WokenIsFirst)'
      BY <2>1, <2>2, <2>3
    <3>3. TargetIsFirst'
      BY <2>1, <2>2, <2>3
    <3> QED
      BY <3>1, <3>2, <3>3
  <2>4. CASE At(r, "acquire") /\ lock = NoOne /\ lock' = r /\ pc'[r] = "get" /\ UNCHANGED <<queue, woken>>
    BY <2>1, <2>2, <2>4, WaitLockAssumption
  <2>5. CASE At(r, "del") /\ lock' = NoOne /\ UNCHANGED <<queue, woken>>
    <3>1. OwnerIsFirst'
      BY <2>5, WaitLockAssumption
    <3>2. (Arrives /\ Queued /\ TurnIsFirst /\ WokenIsFirst)'
      BY <2>1, <2>2, <2>5
    <3>3. TargetIsFirst'
      BY <2>1, <2>2, <2>5
    <3> QED
      BY <3>1, <3>2, <3>3
  <2>6. CASE At(r, "leave") /\ queue' = queue \ {r} /\ UNCHANGED <<lock, woken>>
    BY <2>1, <2>2, <2>6
  <2>7. CASE At(r, "notify") /\ Publish(target[r]) /\ UNCHANGED <<queue, lock>>
    <3>1. \A s \in Requests : s \in woken' => pc[s] = "wait" /\ IsFirst(s)
      BY <2>1, <2>2, <2>7 DEF Publish
    <3>2. WokenIsFirst'
      BY <2>1, <2>2, <2>7, <3>1
    <3>3. (Arrives /\ Queued /\ TurnIsFirst /\ OwnerIsFirst)'
      BY <2>1, <2>2, <2>7
    <3>4. TargetIsFirst'
      BY <2>1, <2>2, <2>7
    <3> QED
      BY <3>2, <3>3, <3>4
  <2> QED
    BY <1>4, <2>3, <2>4, <2>5, <2>6, <2>7 DEF ReplyLost, Rejects, TrySteps
<1>5. ASSUME NEW r \in Requests, MessageLost(r) PROVE QueueInv'
  BY <1>5 DEF MessageLost, IsFirst
<1>6. ASSUME NEW i \in Instances, Crash(i) PROVE QueueInv'
  BY <1>6 DEF Crash, IsFirst
<1>7. CASE LockExpires
  BY <1>7, WaitLockAssumption DEF LockExpires, IsFirst
<1>8. CASE Tick
  BY <1>8 DEF Tick, IsFirst
<1>9. CASE UNCHANGED vars
  BY <1>9 DEF vars, IsFirst
<1> QED
  BY <1>1, <1>2, <1>3, <1>4, <1>5, <1>6, <1>7, <1>8, <1>9 DEF OrderedNext, Next, Fault

LEMMA QueueOrder == OrderedSpec => []QueueInv
<1>1. Init => QueueInv
  BY WaitLockAssumption
     DEF Init, QueueInv, Arrives, Queued, TurnIsFirst, OwnerIsFirst, WokenIsFirst, TargetIsFirst
<1> QED
  BY <1>1, QueueStep, OrderedTyping, PTL DEF OrderedSpec

(* Among requests that reach Redis in the order of their scores operations  *)
(* exclude each other even when they outlive the lock's TTL: the queue      *)
(* alone keeps them apart.                                                  *)
THEOREM OrderedExclusion == OrderedSpec => []MutualExclusion
<1>1. TypeOK /\ QueueInv => MutualExclusion
  BY FirstIsUnique DEF QueueInv, TurnIsFirst, MutualExclusion, At
<1> QED
  BY <1>1, QueueOrder, OrderedTyping, PTL

(* ... so that the manager implements Mutex whatever the TTL is: what the   *)
(* lock key is for, the queue ensures without it ...                        *)
THEOREM OrderedRefinement == OrderedSpec => ImplementsMutex
<1>1. TypeOK /\ QueueInv => EntersAlone
  BY FirstIsUnique DEF QueueInv, TurnIsFirst, EntersAlone
<1>2. TypeOK /\ EntersAlone /\ [OrderedNext]_vars => [Abstract!Next]_Phase
  BY MutexStep DEF OrderedNext
<1> QED
  BY <1>1, <1>2, MutexInit, QueueOrder, OrderedTyping, PTL
     DEF OrderedSpec, ImplementsMutex, Abstract!Spec

(* ... nobody whose turn has come is refused the lock ...                   *)
THEOREM OrderedNeverRefused == OrderedSpec => []NeverRefused
<1>1. Init => NeverRefused
  BY DEF Init, NeverRefused
<1>2. TypeOK /\ QueueInv /\ NeverRefused /\ [OrderedNext]_vars => NeverRefused'
  <2> SUFFICES ASSUME TypeOK, QueueInv, NeverRefused, [OrderedNext]_vars PROVE NeverRefused'
    OBVIOUS
  <2> USE DEF NeverRefused, TypeOK, Settles
  <2>1. ASSUME NEW r \in Requests, AcquireLock(r) PROVE NeverRefused'
    <3>1. lock # NoOne => FALSE
      <4> SUFFICES ASSUME lock # NoOne PROVE FALSE
        OBVIOUS
      <4>1. lock \in Requests /\ IsFirst(lock) /\ pc[lock] # "acquire"
        BY DEF QueueInv, OwnerIsFirst
      <4>2. IsFirst(r) /\ pc[r] = "acquire"
        BY <2>1 DEF AcquireLock, QueueInv, TurnIsFirst, At
      <4> QED
        BY <4>1, <4>2, FirstIsUnique
    <3> QED
      BY <2>1, <3>1 DEF AcquireLock
  <2>2. ASSUME NEW r \in Requests, Operation(r) \/ CommandLost(r) \/ ReplyLost(r) PROVE NeverRefused'
    BY <2>2 DEF Operation, CommandLost, ReplyLost, Rejects
  <2>3. CASE UNCHANGED outcome
    BY <2>3
  <2> QED
    BY <2>1, <2>2, <2>3
       DEF OrderedNext, Next, Step, JoinQueue, Zadd, WaitForTurn, Subscribe, Notified,
           ReleaseGet, ReleaseDel, LeaveQueue, GetNextReqId, NotifyNext, Fault, MessageLost,
           Crash, LockExpires, Tick, vars
<1> QED
  BY <1>1, <1>2, QueueOrder, OrderedTyping, PTL DEF OrderedSpec

(* ... and everybody is served in the order of arrival.                     *)
THEOREM OrderedService == OrderedSpec => ServedInOrder
<1> DEFINE InTurn == \A r \in Requests : pc[r] # "operate" /\ pc'[r] = "operate" =>
                        \A s \in queue \ {r} : Before(r, s)
<1>1. TypeOK /\ QueueInv /\ [OrderedNext]_vars => [InTurn]_vars
  <2> SUFFICES ASSUME TypeOK, QueueInv, OrderedNext,
                      NEW r \in Requests, pc[r] # "operate", pc'[r] = "operate"
               PROVE  pc[r] = "acquire"
    BY DEF QueueInv, TurnIsFirst, IsFirst
  <2> USE DEF TypeOK, At, Goto
  <2>1. ASSUME NEW s \in Requests, Step(s) PROVE pc[r] = "acquire"
    BY <2>1 DEF Step, Zadd, WaitForTurn, Subscribe, Notified, AcquireLock, Operation,
                ReleaseGet, ReleaseDel, LeaveQueue, GetNextReqId, NotifyNext
  <2>2. ASSUME NEW s \in Requests, JoinQueue(s) \/ Fault(s) PROVE FALSE
    BY <2>2 DEF JoinQueue, Fault, CommandLost, ReplyLost, MessageLost, Rejects
  <2>3. ASSUME NEW i \in Instances, Crash(i) PROVE FALSE
    BY <2>3 DEF Crash
  <2>4. ASSUME LockExpires \/ Tick PROVE FALSE
    BY <2>4 DEF LockExpires, Tick
  <2> QED
    BY <2>1, <2>2, <2>3, <2>4 DEF OrderedNext, Next
<1> QED
  BY <1>1, QueueOrder, OrderedTyping, PTL DEF OrderedSpec, ServedInOrder
-----------------------------------------------------------------------------
(* As long as nothing fails, who is in the queue has yet to leave it, and   *)
(* the lock belongs to who operates or releases.                            *)
Clean ==
    faults = 0 /\ crashes = 0 =>
        /\ \A r \in queue : pc[r] \notin {"idle", "zadd", "next", "notify", "done", "dead"}
        /\ lock # NoOne => pc[lock] \in {"operate", "get", "del"}

LEMMA CleanStep == ASSUME TypeOK, Clean, [Next]_vars PROVE Clean'
<1> SUFFICES ASSUME faults' = 0, crashes' = 0 PROVE Clean'
  BY DEF Clean
<1> USE DEF Clean, TypeOK, Goto, At, redis, world
<1>1. ASSUME NEW r \in Requests, JoinQueue(r) PROVE Clean'
  BY <1>1 DEF JoinQueue
<1>2. ASSUME NEW r \in Requests, Step(r) PROVE Clean'
  <2>1. CASE Zadd(r) \/ WaitForTurn(r) \/ Subscribe(r)
    BY <2>1 DEF Zadd, WaitForTurn, Subscribe
  <2>2. CASE Notified(r)
    BY <2>2 DEF Notified
  <2>6. CASE AcquireLock(r)
    <3>1. faults = 0 /\ crashes = 0 /\ queue' = queue /\ pc[r] = "acquire"
      BY <2>6 DEF AcquireLock
    <3>2. CASE lock = NoOne
      BY <2>6, <3>1, <3>2 DEF AcquireLock
    <3>3. CASE lock # NoOne
      BY <2>6, <3>1, <3>3 DEF AcquireLock
    <3> QED BY <3>2, <3>3
  <2>3. CASE Operation(r) \/ ReleaseGet(r) \/ ReleaseDel(r)
    BY <2>3 DEF Operation, ReleaseGet, ReleaseDel
  <2>4. CASE LeaveQueue(r)
    BY <2>4 DEF LeaveQueue
  <2>5. CASE GetNextReqId(r) \/ NotifyNext(r)
    BY <2>5 DEF GetNextReqId, NotifyNext
  <2> QED
    BY <1>2, <2>1, <2>2, <2>3, <2>4, <2>5, <2>6 DEF Step
<1>3. ASSUME NEW r \in Requests, Fault(r) PROVE FALSE
  BY <1>3 DEF Fault, CommandLost, ReplyLost, MessageLost, Rejects
<1>4. ASSUME NEW i \in Instances, Crash(i) PROVE FALSE
  BY <1>4 DEF Crash
<1>5. CASE LockExpires
  BY <1>5 DEF LockExpires
<1>6. CASE Tick \/ UNCHANGED vars
  BY <1>6 DEF Tick, vars
<1> QED
  BY <1>1, <1>2, <1>3, <1>4, <1>5, <1>6 DEF Next

(* When every request has settled, and nothing failed, Redis is as it was:  *)
(* an empty queue and no lock, whatever the order of arrivals and even if   *)
(* locks expire under their holders.                                        *)
THEOREM Leaves == Spec => []NothingLeftBehind
<1>1. Init => Clean
  BY DEF Init, Clean
<1>2. TypeOK /\ Clean => NothingLeftBehind
  BY DEF TypeOK, Clean, NothingLeftBehind, At
<1> QED
  BY <1>1, <1>2, CleanStep, Typing, PTL DEF Spec
-----------------------------------------------------------------------------
(* Why nobody is forgotten.  Arrivals need no order for it: whoever enters  *)
(* ahead of the others looks at the queue, sees itself first, and does not  *)
(* sleep.                                                                   *)
LEMMA ArrivesStep == ASSUME TypeOK, Arrives, [Next]_vars PROVE Arrives'
<1> USE DEF Arrives, TypeOK, Goto, At, redis
<1>1. ASSUME NEW r \in Requests, JoinQueue(r) PROVE Arrives'
  BY <1>1 DEF JoinQueue
<1>2. ASSUME NEW r \in Requests, Step(r) PROVE Arrives'
  BY <1>2 DEF Step, Zadd, WaitForTurn, Subscribe, Notified, AcquireLock, Operation,
              ReleaseGet, ReleaseDel, LeaveQueue, GetNextReqId, NotifyNext
<1>3. ASSUME NEW r \in Requests, CommandLost(r) \/ MessageLost(r) PROVE Arrives'
  BY <1>3 DEF CommandLost, MessageLost, Rejects
<1>4. ASSUME NEW r \in Requests, ReplyLost(r) PROVE Arrives'
  <2>1. pc'[r] \in {"get", "done"} /\ queue' \subseteq queue \cup {r}
    BY <1>4 DEF ReplyLost, Rejects
  <2>2. \A s \in Requests \ {r} : pc'[s] = pc[s]
    BY <1>4 DEF ReplyLost, Rejects
  <2> QED
    BY <2>1, <2>2
<1>5. ASSUME NEW i \in Instances, Crash(i) PROVE Arrives'
  BY <1>5 DEF Crash
<1>6. CASE LockExpires \/ Tick \/ UNCHANGED vars
  BY <1>6 DEF LockExpires, Tick, vars
<1> QED
  BY <1>1, <1>2, <1>3, <1>4, <1>5, <1>6 DEF Next, Fault

LEMMA WakesStep ==
    ASSUME TypeOK, Arrives, NobodyForgotten, [Next /\ InTime]_vars
    PROVE  NobodyForgotten'
<1> SUFFICES ASSUME faults' = 0, crashes' = 0, NEW h \in Requests, IsFirst(h)', Asleep(h)'
             PROVE  \E r \in Requests :
                        pc'[r] = "next" \/ (pc'[r] = "notify" /\ target'[r] = h)
  BY DEF NobodyForgotten, At
<1> DEFINE Awakened == \E r \in Requests :
                           pc'[r] = "next" \/ (pc'[r] = "notify" /\ target'[r] = h)
           Awaited  == \E r \in Requests : pc[r] = "next" \/ (pc[r] = "notify" /\ target[r] = h)
<1> USE DEF TypeOK, Goto, At, redis, world, Asleep
<1>1. faults = 0 /\ crashes = 0 /\ IsFirst(h) /\ Asleep(h) => Awaited
  BY DEF NobodyForgotten
<1>2. ASSUME NEW r \in Requests, JoinQueue(r) PROVE Awakened
  <2>1. r \notin queue /\ queue' = queue /\ \A s \in queue : stamp'[s] = stamp[s]
    BY <1>2 DEF JoinQueue, Arrives
  <2>2. IsFirst(h)
    BY <2>1 DEF IsFirst, Before
  <2> QED
    BY <1>1, <1>2, <2>2 DEF JoinQueue
<1>3. ASSUME NEW r \in Requests, Zadd(r) PROVE Awakened
  <2>1. h # r /\ IsFirst(h)
    BY <1>3 DEF Zadd, IsFirst, Before
  <2> QED
    BY <1>1, <1>3, <2>1 DEF Zadd
<1>4. ASSUME NEW r \in Requests,
             WaitForTurn(r) \/ Subscribe(r) \/ Notified(r) \/ AcquireLock(r) \/ Operation(r)
             \/ ReleaseGet(r) \/ ReleaseDel(r)
      PROVE  Awakened
  <2>1. /\ faults = 0 /\ crashes = 0
        /\ queue' = queue /\ stamp' = stamp /\ target' = target
    BY <1>4 DEF WaitForTurn, Subscribe, Notified, AcquireLock, Operation, ReleaseGet, ReleaseDel
  <2>2. IsFirst(h)
    BY <2>1 DEF IsFirst, Before
  <2>3. pc[r] \notin {"next", "notify"} /\ \A s \in Requests \ {r} : pc'[s] = pc[s]
    BY <1>4 DEF WaitForTurn, Subscribe, Notified, AcquireLock, Operation, ReleaseGet, ReleaseDel
  <2>4. Asleep(h)
    BY <1>4, <2>2 DEF WaitForTurn, Subscribe, Notified, AcquireLock, Operation, ReleaseGet,
                      ReleaseDel
  <2> QED
    BY <1>1, <2>1, <2>2, <2>3, <2>4
<1>5. ASSUME NEW r \in Requests, LeaveQueue(r) PROVE Awakened
  BY <1>5 DEF LeaveQueue
<1>6. ASSUME NEW r \in Requests, GetNextReqId(r) PROVE Awakened
  <2>1. IsFirst(h)
    BY <1>6 DEF GetNextReqId, IsFirst, Before
  <2>2. PICK g \in queue : IsFirst(g) /\ target' = [target EXCEPT ![r] = g] /\ Goto(r, "notify")
    BY <1>6, <2>1 DEF GetNextReqId, IsFirst
  <2>3. g = h
    BY <2>1, <2>2, FirstIsUnique
  <2> QED
    BY <2>2, <2>3
<1>7. ASSUME NEW r \in Requests, NotifyNext(r), InTime PROVE Awakened
  <2>1. /\ IsFirst(h) /\ faults = 0 /\ crashes = 0 /\ target' = target
        /\ \A s \in Requests \ {r} : pc'[s] = pc[s]
        /\ h # r
    BY <1>7 DEF NotifyNext, IsFirst, Before
  <2>2. woken \subseteq woken'
    BY <1>7 DEF NotifyNext, Publish
  <2>3. target[r] # h
    BY <1>7, <2>1 DEF NotifyNext, Publish, InTime
  <2> QED
    BY <1>1, <1>7, <2>1, <2>2, <2>3 DEF NotifyNext
<1>8. ASSUME NEW r \in Requests, Fault(r) PROVE FALSE
  BY <1>8 DEF Fault, CommandLost, ReplyLost, MessageLost, Rejects
<1>9. ASSUME NEW i \in Instances, Crash(i) PROVE FALSE
  BY <1>9 DEF Crash
<1>10. CASE LockExpires \/ Tick \/ UNCHANGED vars
  BY <1>1, <1>10 DEF LockExpires, Tick, vars, IsFirst, Before
<1> QED
  BY <1>2, <1>3, <1>4, <1>5, <1>6, <1>7, <1>8, <1>9, <1>10 DEF Next, Step

(* As long as notifications come in time for their SUBSCRIBE, the head of   *)
(* the queue never sleeps unless somebody is on the way to wake it, whether *)
(* or not requests arrive in order and locks outlast their operations.      *)
THEOREM Wakes == TimelySpec => []NobodyForgotten
<1>1. Init => TypeOK /\ Arrives /\ NobodyForgotten
  BY TypeInit DEF Init, Arrives, NobodyForgotten, IsFirst
<1>2. TypeOK /\ Arrives /\ NobodyForgotten /\ [Next /\ InTime]_vars
        => (TypeOK /\ Arrives /\ NobodyForgotten)'
  BY TypeStep, ArrivesStep, WakesStep
<1> QED
  BY <1>1, <1>2, PTL DEF TimelySpec
=============================================================================
