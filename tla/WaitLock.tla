------------------------------- MODULE WaitLock -------------------------------
(***************************************************************************)
(* RedisLockManager.withLockBySrc (redis-wait-lock.manager.ts) on one       *)
(* resource: a sorted set of request ids scored by Date.now(), a lock key   *)
(* taken with SET NX, and one publish/subscribe channel per request on      *)
(* which the request that leaves wakes the head of the queue.               *)
(*                                                                          *)
(* One action is one Redis command, that is the code between two awaits.    *)
(* Requests run on instances of the application that may crash; commands    *)
(* may fail, with or without having been executed.                          *)
(***************************************************************************)
EXTENDS Naturals

CONSTANTS
    Requests,      \* calls of withLockBySrc; the order of the numbers is that of the uuids
    Instances,     \* application processes
    Host,          \* the instance that runs each request
    NoOne,         \* the value of an absent lock key
    OutlivesTTL,   \* may the lock's TTL run out while its holder is still at work?
    MaxClock,      \* bound: Date.now() takes the values 0..MaxClock
    MaxFaults,     \* bound: Redis commands or messages that fail
    MaxCrashes     \* bound: crashes of instances

ASSUME WaitLockAssumption ==
    /\ Requests \subseteq Nat
    /\ NoOne \notin Requests
    /\ Host \in [Requests -> Instances]
    /\ OutlivesTTL \in BOOLEAN
    /\ MaxClock \in Nat
    /\ MaxFaults \in Nat
    /\ MaxCrashes \in Nat

VARIABLES
    clock,      \* Date.now()
    stamp,      \* the score a request computes in joinQueue
    queue,      \* members of the sorted set
    lock,       \* value of the lock key
    woken,      \* subscribed requests with an undelivered message "next"
    target,     \* nextId, the request about to be notified
    pc,         \* the command a request awaits
    outcome,    \* how the promise of a request settles
    faults,     \* failures so far
    crashes     \* crashes so far

vars == <<clock, stamp, queue, lock, woken, target, pc, outcome, faults, crashes>>

TrySteps     == {"zadd", "zrange", "subscribe", "wait", "acquire", "operate"}
FinallySteps == {"get", "del", "leave", "next", "notify"}
Labels       == {"idle", "done", "dead"} \cup TrySteps \cup FinallySteps

(* The types of the variables; who notifies has somebody to notify. *)
TypeOK ==
    /\ clock \in 0..MaxClock
    /\ stamp \in [Requests -> 0..MaxClock]
    /\ queue \subseteq Requests
    /\ lock \in Requests \cup {NoOne}
    /\ woken \subseteq Requests
    /\ target \in [Requests -> Requests \cup {NoOne}]
    /\ pc \in [Requests -> Labels]
    /\ outcome \in [Requests -> {"none", "ran", "failed", "refused"}]
    /\ faults \in 0..MaxFaults
    /\ crashes \in 0..MaxCrashes
    /\ \A r \in Requests : pc[r] = "notify" => target[r] \in Requests

Init ==
    /\ clock = 0
    /\ stamp = [r \in Requests |-> 0]
    /\ queue = {}
    /\ lock = NoOne
    /\ woken = {}
    /\ target = [r \in Requests |-> NoOne]
    /\ pc = [r \in Requests |-> "idle"]
    /\ outcome = [r \in Requests |-> "none"]
    /\ faults = 0
    /\ crashes = 0

-----------------------------------------------------------------------------
(* Members of a sorted set are ordered by score, those of equal score by    *)
(* their own lexical order.                                                 *)
Before(r, s) == stamp[r] < stamp[s] \/ (stamp[r] = stamp[s] /\ r < s)

(* r is what ZRANGE key 0 0 returns. *)
IsFirst(r) == r \in queue /\ \A s \in queue \ {r} : Before(r, s)

At(r, label)   == pc[r] = label
Goto(r, label) == pc' = [pc EXCEPT ![r] = label]

Settles(r, how) == outcome' = [outcome EXCEPT ![r] = how]

redis == <<queue, lock, woken>>
world == <<clock, faults, crashes>>

-----------------------------------------------------------------------------
(* Mutant of JoinQueue: the score is the time at which the wait should end. *)
JoinQueueAhead(r) ==
    /\ At(r, "idle")
    /\ stamp' = [stamp EXCEPT ![r] = clock + 1]
    /\ Goto(r, "zadd")
    /\ UNCHANGED <<redis, target, outcome, world>>

(* joinQueue reads the clock, then sends ZADD; one connection per instance  *)
(* keeps the commands of an instance in the order they were issued.         *)
JoinQueue(r) ==
    /\ At(r, "idle")
    /\ stamp' = [stamp EXCEPT ![r] = clock]
    /\ Goto(r, "zadd")
    /\ UNCHANGED <<redis, target, outcome, world>>

SentInOrder(r) ==
    \A s \in Requests : Host[s] = Host[r] /\ At(s, "zadd") => stamp[r] <= stamp[s]

Zadd(r) ==
    /\ At(r, "zadd") /\ SentInOrder(r)
    /\ queue' = queue \cup {r}
    /\ Goto(r, "zrange")
    /\ UNCHANGED <<stamp, lock, woken, target, outcome, world>>

(* Mutant of WaitForTurn: nobody waits. *)
WaitForNothing(r) ==
    /\ At(r, "zrange")
    /\ Goto(r, "acquire")
    /\ UNCHANGED <<stamp, redis, target, outcome, world>>

(* waitForTurn looks once at the head of the queue. *)
WaitForTurn(r) ==
    /\ At(r, "zrange")
    /\ Goto(r, IF IsFirst(r) THEN "acquire" ELSE "subscribe")
    /\ UNCHANGED <<stamp, redis, target, outcome, world>>

(* The SUBSCRIBE that waitForNotification starts without awaiting it.       *)
Subscribe(r) ==
    /\ At(r, "subscribe")
    /\ Goto(r, "wait")
    /\ UNCHANGED <<stamp, redis, target, outcome, world>>

(* The subscriber's callback resolves the promise. *)
Notified(r) ==
    /\ At(r, "wait") /\ r \in woken
    /\ woken' = woken \ {r}
    /\ Goto(r, "acquire")
    /\ UNCHANGED <<stamp, queue, lock, target, outcome, world>>

AcquireLock(r) ==
    /\ At(r, "acquire")
    /\ \/ /\ lock = NoOne
          /\ lock' = r
          /\ Goto(r, "operate")
          /\ UNCHANGED outcome
       \/ /\ lock # NoOne
          /\ Goto(r, "get")
          /\ Settles(r, "refused")
          /\ UNCHANGED lock
    /\ UNCHANGED <<stamp, queue, woken, target, world>>

(* Mutant of Operation: the finally block forgets the lock. *)
OperationKeepsLock(r) ==
    /\ At(r, "operate")
    /\ Settles(r, "ran")
    /\ Goto(r, "leave")
    /\ UNCHANGED <<stamp, redis, target, world>>

(* The caller's operation, of which the lock sees only that it ends. *)
Operation(r) ==
    /\ At(r, "operate")
    /\ \E how \in {"ran", "failed"} : Settles(r, how)
    /\ Goto(r, "get")
    /\ UNCHANGED <<stamp, redis, target, world>>

-----------------------------------------------------------------------------
(* The finally block. *)
(* Mutant of ReleaseGet: releaseLock does not compare the value. *)
ReleaseUnchecked(r) ==
    /\ At(r, "get")
    /\ Goto(r, "del")
    /\ UNCHANGED <<stamp, redis, target, outcome, world>>

ReleaseGet(r) ==
    /\ At(r, "get")
    /\ Goto(r, IF lock = r THEN "del" ELSE "leave")
    /\ UNCHANGED <<stamp, redis, target, outcome, world>>

(* DEL does not look at the value again. *)
ReleaseDel(r) ==
    /\ At(r, "del")
    /\ lock' = NoOne
    /\ Goto(r, "leave")
    /\ UNCHANGED <<stamp, queue, woken, target, outcome, world>>

(* Mutant of LeaveQueue: only a request that ran its operation is removed. *)
LeaveAfterSuccess(r) ==
    /\ At(r, "leave")
    /\ queue' = IF outcome[r] = "ran" THEN queue \ {r} ELSE queue
    /\ Goto(r, "next")
    /\ UNCHANGED <<stamp, lock, woken, target, outcome, world>>

LeaveQueue(r) ==
    /\ At(r, "leave")
    /\ queue' = queue \ {r}
    /\ Goto(r, "next")
    /\ UNCHANGED <<stamp, lock, woken, target, outcome, world>>

(* Mutant of GetNextReqId: any member of the queue is taken for its head. *)
GetAnyReqId(r) ==
    /\ At(r, "next")
    /\ \/ /\ queue = {}
          /\ Goto(r, "done")
          /\ UNCHANGED target
       \/ \E h \in queue :
             /\ target' = [target EXCEPT ![r] = h]
             /\ Goto(r, "notify")
    /\ UNCHANGED <<stamp, redis, outcome, world>>

GetNextReqId(r) ==
    /\ At(r, "next")
    /\ \/ /\ queue = {}
          /\ Goto(r, "done")
          /\ UNCHANGED target
       \/ \E h \in queue :
             /\ IsFirst(h)
             /\ target' = [target EXCEPT ![r] = h]
             /\ Goto(r, "notify")
    /\ UNCHANGED <<stamp, redis, outcome, world>>

(* PUBLISH reaches whoever is subscribed at that moment, and nobody else. *)
Publish(t) == woken' = IF pc[t] = "wait" THEN woken \cup {t} ELSE woken

(* Mutant of NotifyNext: the request that failed notifies nobody. *)
NotifyAfterSuccess(r) ==
    /\ At(r, "notify")
    /\ IF outcome[r] = "ran" THEN Publish(target[r]) ELSE UNCHANGED woken
    /\ Goto(r, "done")
    /\ UNCHANGED <<stamp, queue, lock, target, outcome, world>>

NotifyNext(r) ==
    /\ At(r, "notify")
    /\ Publish(target[r])
    /\ Goto(r, "done")
    /\ UNCHANGED <<stamp, queue, lock, target, outcome, world>>

-----------------------------------------------------------------------------
(* A command's promise rejects: within try the finally block runs, within   *)
(* the finally block the rest of it is skipped.                             *)
Rejects(r) ==
    /\ faults < MaxFaults
    /\ faults' = faults + 1
    /\ Goto(r, IF pc[r] \in TrySteps THEN "get" ELSE "done")
    /\ Settles(r, "failed")
    /\ UNCHANGED <<clock, stamp, target, crashes>>

(* The command was never executed. *)
CommandLost(r) ==
    /\ pc[r] \in {"zadd", "zrange", "acquire"} \cup FinallySteps
    /\ Rejects(r)
    /\ UNCHANGED redis

(* The command was executed, its reply was lost. *)
ReplyLost(r) ==
    /\ Rejects(r)
    /\ \/ At(r, "zadd") /\ SentInOrder(r) /\ queue' = queue \cup {r} /\ UNCHANGED <<lock, woken>>
       \/ At(r, "acquire") /\ lock = NoOne /\ lock' = r /\ UNCHANGED <<queue, woken>>
       \/ At(r, "del") /\ lock' = NoOne /\ UNCHANGED <<queue, woken>>
       \/ At(r, "leave") /\ queue' = queue \ {r} /\ UNCHANGED <<lock, woken>>
       \/ At(r, "notify") /\ Publish(target[r]) /\ UNCHANGED <<queue, lock>>

(* Publish/subscribe delivers at most once: a dropped connection loses it.  *)
MessageLost(r) ==
    /\ r \in woken
    /\ faults < MaxFaults
    /\ faults' = faults + 1
    /\ woken' = woken \ {r}
    /\ UNCHANGED <<clock, stamp, queue, lock, target, pc, outcome, crashes>>

Live(r) == pc[r] \notin {"idle", "done", "dead"}

(* The process dies with its requests and subscriptions; Redis keeps the    *)
(* queue entries and the lock.                                              *)
Crash(i) ==
    /\ crashes < MaxCrashes
    /\ crashes' = crashes + 1
    /\ \E r \in Requests : Host[r] = i /\ Live(r)
    /\ pc' = [r \in Requests |-> IF Host[r] = i /\ Live(r) THEN "dead" ELSE pc[r]]
    /\ woken' = {r \in woken : Host[r] # i}
    /\ UNCHANGED <<clock, stamp, queue, lock, target, outcome, faults>>

(* The TTL of the lock key runs out. *)
LockExpires ==
    /\ lock # NoOne
    /\ OutlivesTTL \/ ~Live(lock)
    /\ lock' = NoOne
    /\ UNCHANGED <<clock, stamp, queue, woken, target, pc, outcome, faults, crashes>>

Tick ==
    /\ clock < MaxClock
    /\ clock' = clock + 1
    /\ UNCHANGED <<stamp, redis, target, pc, outcome, faults, crashes>>

-----------------------------------------------------------------------------
(* What a request does once it has been made, nothing failing. *)
Step(r) ==
    \/ Zadd(r) \/ WaitForTurn(r) \/ Subscribe(r) \/ Notified(r) \/ AcquireLock(r)
    \/ Operation(r) \/ ReleaseGet(r) \/ ReleaseDel(r) \/ LeaveQueue(r)
    \/ GetNextReqId(r) \/ NotifyNext(r)

Fault(r) == CommandLost(r) \/ ReplyLost(r) \/ MessageLost(r)

Next ==
    \/ \E r \in Requests : JoinQueue(r) \/ Step(r) \/ Fault(r)
    \/ \E i \in Instances : Crash(i)
    \/ LockExpires
    \/ Tick

Spec == Init /\ [][Next]_vars

(* Requests that reach Redis in the order of their scores: no two of them   *)
(* in one millisecond with the later uuid first, none overtaken on the way. *)
InOrder == \A r \in queue' \ queue : \A s \in queue : Before(s, r)

OrderedNext == Next /\ InOrder
OrderedSpec == Init /\ [][OrderedNext]_vars

(* Redis answers, operations end, so a request that can go on does. *)
Fairness == \A r \in Requests : WF_vars(Step(r))

FairOrderedSpec == OrderedSpec /\ Fairness

(* No message is published while the SUBSCRIBE it is meant for is under way. *)
InTime == \A r \in Requests : At(r, "notify") /\ pc'[r] = "done" => pc[target[r]] # "subscribe"

TimelySpec == Init /\ [][Next /\ InTime]_vars

PromptSpec == Init /\ [][OrderedNext /\ InTime]_vars /\ Fairness

-----------------------------------------------------------------------------
(* Two operations on the resource never overlap, whatever is lost, delayed  *)
(* or crashes, as long as no operation outlives the lock's TTL.             *)
MutualExclusion ==
    \A r, s \in Requests : At(r, "operate") /\ At(s, "operate") => r = s

(* A lock is taken away from a request that is still at work only by that   *)
(* request's own DEL: the check of releaseLock, though not atomic with the  *)
(* DEL, never removes the lock of another.                                  *)
OnlyOwnerReleases ==
    [][\A r \in Requests : lock = r /\ lock' # r /\ Live(r) => At(r, "del")]_vars

(* A request whose turn has come finds the lock free: 'Failed to acquire    *)
(* lock' is never the answer of a lock one waits for.                       *)
NeverRefused == \A r \in Requests : outcome[r] # "refused"

(* A request starts its operation only when nobody who came before it is    *)
(* still queued.                                                            *)
ServedInOrder ==
    [][\A r \in Requests : pc[r] # "operate" /\ pc'[r] = "operate" =>
          \A s \in queue \ {r} : Before(r, s)]_vars

(* Nobody sleeps at the head of the queue without somebody on the way to    *)
(* wake it, as long as nothing fails: the look at the queue, SUBSCRIBE and  *)
(* the wake-up are commands of two requests in any order, but the head that *)
(* goes to sleep has been seen, or will be, by one that leaves.             *)
Asleep(r) == pc[r] \in {"subscribe", "wait"} /\ r \notin woken

NobodyForgotten ==
    faults = 0 /\ crashes = 0 =>
        \A h \in Requests : IsFirst(h) /\ Asleep(h) =>
            \E r \in Requests : At(r, "next") \/ (At(r, "notify") /\ target[r] = h)

(* Every request that joins the queue gets to run its operation. *)
EveryWaiterServed == \A r \in Requests : At(r, "zadd") ~> At(r, "operate")

(* The queue and the lock key are left clean: when every request has        *)
(* settled without a fault or a crash, nothing is behind to block a next.   *)
NothingLeftBehind ==
    (/\ faults = 0 /\ crashes = 0
     /\ \A r \in Requests : At(r, "done")) => queue = {} /\ lock = NoOne

(* The lock manager keeps the promise of Mutex. *)
Phase == [r \in Requests |->
            IF At(r, "operate") THEN "running"
            ELSE IF pc[r] \in FinallySteps \cup {"done", "dead"} THEN "over" ELSE "asking"]

Abstract == INSTANCE Mutex WITH Clients <- Requests, phase <- Phase

ImplementsMutex == Abstract!Spec
=============================================================================
