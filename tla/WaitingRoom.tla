------------------------------ MODULE WaitingRoom ------------------------------
(***************************************************************************)
(* The waiting room in front of reserveSeat (queue.facade.ts,               *)
(* queue.service.ts, jwt.service.ts, queue.controller.ts).  createToken     *)
(* takes a position from a counter in Redis and signs a token that says     *)
(* when its turn comes; getQueueStatus, which clients poll, tells whether   *)
(* it has come; reserveSeat admits who shows an approved token.             *)
(*                                                                          *)
(* The server keeps nothing but the counters: whatever else it knows of a   *)
(* client is in the token that the client holds.  One action is the code    *)
(* between two awaits.                                                      *)
(***************************************************************************)
EXTENDS Integers, FiniteSets

CONSTANTS
    Clients,       \* who asks for a token, and again if that fails
    Concerts,      \* concert ids
    ConcertOf,     \* the concert of each client
    Listed,        \* the concerts that have a row
    Opening,       \* reservation_start_time of each
    Registered,    \* the clients whose user has a row
    Attentive,     \* the clients that poll between their turn and the end of their token
    Polls,         \* calls of getQueueStatus, each made again once it is over
    PollOf,        \* the client that makes each: one may have several under way
    MaxPerCycle,   \* MAX_PER_CYCLE
    Cycle,         \* CYCLE_DURATION_MS, in ticks of the clock
    Life,          \* five minutes, in ticks
    Second,        \* a second, in ticks: tokens expire on full seconds
    MaxClock,      \* bound: Date.now() takes the values 0..MaxClock
    MaxFaults      \* bound: commands and queries that fail, and crashes of the process

ASSUME WaitingRoomAssumption ==
    /\ ConcertOf \in [Clients -> Concerts]
    /\ Listed \subseteq Concerts
    /\ Opening \in [Concerts -> Nat]
    /\ Registered \subseteq Clients
    /\ Attentive \subseteq Registered
    /\ PollOf \in [Polls -> Clients]
    /\ MaxPerCycle \in Nat \ {0}
    /\ Cycle \in Nat \ {0}
    /\ Life \in Nat
    /\ Second \in Nat \ {0}
    /\ MaxClock \in Nat
    /\ MaxFaults \in Nat

VARIABLES
    clock,       \* Date.now()
    counter,     \* the counter of each concert
    pc,          \* where each client is on its way in
    position,    \* queuePosition: what INCR returned, 0 before
    token,       \* the token each client holds
    now,         \* the clock that each poll has read, Unasked when it is not under way
    told,        \* the statuses each client has been told
    heard,       \* polls begun by who had been told to be available (history: not in the code)
    faults       \* failures and crashes so far

asking == <<now, told, heard>>
vars   == <<clock, counter, pc, position, token, asking, faults>>

At(c, label)   == pc[c] = label

Unasked     == 0 - 1
UnderWay(p) == now[p] # Unasked

NoToken == [activeAt |-> 0, exp |-> 0, status |-> "none"]

Statuses == {"none", "not_available", "available", "approved", "disapproved"}

(* The types of the variables. "idle", "sign" in createToken, "holding" a   *)
(* token; "out" for good, or answered by the check of reserveSeat.          *)
(* Positions come from the counter, and who is past INCR has one.           *)
TypeOK ==
    /\ clock \in 0..MaxClock
    /\ counter \in [Concerts -> Nat]
    /\ pc \in [Clients -> {"idle", "sign", "holding", "out", "admitted", "unapproved"}]
    /\ position \in [Clients -> Nat]
    /\ token \in [Clients -> [activeAt : Nat, exp : Nat, status : Statuses]]
    /\ now \in [Polls -> Unasked..MaxClock]
    /\ told \in [Clients -> SUBSET {"not_available", "available"}]
    /\ heard \subseteq {p \in Polls : UnderWay(p)}
    /\ faults \in 0..MaxFaults
    /\ \A c \in Clients : /\ position[c] <= counter[ConcertOf[c]]
                          /\ position[c] = 0 <=> At(c, "idle")

Init ==
    /\ clock = 0
    /\ counter = [k \in Concerts |-> 0]
    /\ pc = [c \in Clients |-> "idle"]
    /\ position = [c \in Clients |-> 0]
    /\ token = [c \in Clients |-> NoToken]
    /\ now = [p \in Polls |-> Unasked]
    /\ told = [c \in Clients |-> {}]
    /\ heard = {}
    /\ faults = 0

Goto(c, label) == pc' = [pc EXCEPT ![c] = label]
Count(c)       == counter' = [counter EXCEPT ![ConcertOf[c]] = @ + 1]
Holds(c)       == token[c] # NoToken
Welcome(c)     == "available" \in told[c]

world == <<clock, faults>>

-----------------------------------------------------------------------------
(* Mutants of CycleOf: the position is not counted from zero; one too many. *)
CycleFromOne(q)  == q \div MaxPerCycle
CycleTooWide(q)  == (q - 1) \div (MaxPerCycle + 1)

(* calculateWaitTime: Math.floor((qCount - 1) / maxPerCycle) cycles after   *)
(* the opening.                                                             *)
CycleOf(q) == (q - 1) \div MaxPerCycle

ActiveAt(c) == Opening[ConcertOf[c]] + CycleOf(position[c]) * Cycle

(* Mutant of ExpiresAt: five minutes from now. *)
ExpiresFromNow(c) == (clock + Life) \div Second

(* Five minutes from the turn, or from now if that has come; in seconds. *)
ExpiresAt(c) == ((IF ActiveAt(c) > clock THEN ActiveAt(c) ELSE clock) + Life) \div Second

(* generateToken: the payload has an exp of its own, so that the expiresIn  *)
(* of the call is not looked at.                                            *)
Signed(c, status) == [activeAt |-> ActiveAt(c), exp |-> ExpiresAt(c), status |-> status]

(* verifyToken throws at time t. *)
Lapsed(c, t) == t \div Second >= token[c].exp

(* getConcertById returns null, getUserById rejects, where there is no row.  *)
KnownConcert(c) == ConcertOf[c] \in Listed

KnownUser(c) == c \in Registered

-----------------------------------------------------------------------------
(* Mutant of Incr: the counter is read, and written by others in between.   *)
ReadCounter(c) ==
    /\ At(c, "idle")
    /\ \/ Count(c) /\ position' = [position EXCEPT ![c] = counter[ConcertOf[c]] + 1]
       \/ UNCHANGED counter /\ position' = [position EXCEPT ![c] = counter[ConcertOf[c]] + 1]
    /\ Goto(c, "sign")
    /\ UNCHANGED <<token, asking, world>>

(* createToken looks the concert up, and sends INCR even if there is none.  *)
Incr(c) ==
    /\ At(c, "idle")
    /\ Count(c)
    /\ position' = [position EXCEPT ![c] = counter[ConcertOf[c]] + 1]
    /\ Goto(c, "sign")
    /\ UNCHANGED <<token, asking, world>>

(* The token, signed for not_available; without a concert a TypeError, for  *)
(* which the position is spent.                                             *)
Issue(c) ==
    /\ At(c, "sign")
    /\ IF KnownConcert(c)
       THEN /\ token' = [token EXCEPT ![c] = Signed(c, "not_available")]
            /\ Goto(c, "holding")
       ELSE Goto(c, "out") /\ UNCHANGED token
    /\ UNCHANGED <<counter, position, asking, world>>

(* getQueueStatus reads the clock, verifies the token and looks up the user *)
(* and the concert.  The server knows nothing of other polls of the client. *)
Poll(p) ==
    LET c == PollOf[p] IN
    /\ At(c, "holding") /\ ~UnderWay(p)
    /\ \/ /\ Lapsed(c, clock)
          /\ Goto(c, "out")
          /\ UNCHANGED <<now, heard>>
       \/ /\ ~Lapsed(c, clock)
          /\ now' = [now EXCEPT ![p] = clock]
          /\ heard' = IF Welcome(c) THEN heard \cup {p} ELSE heard
          /\ UNCHANGED pc
    /\ UNCHANGED <<counter, position, token, told, world>>

(* Mutants of StatusAt: the turn has come when it comes; the sign of the    *)
(* comparison; the expiry is taken for the turn.                            *)
StatusTooSoon(p) == IF now[p] >= token[PollOf[p]].activeAt THEN "available" ELSE "not_available"
StatusReversed(p) == IF now[p] > token[PollOf[p]].activeAt THEN "not_available" ELSE "available"

StatusByExpiry(p) ==
    IF now[p] >= token[PollOf[p]].exp * Second THEN "available" ELSE "not_available"

(* Only a strictly later time is after the turn. *)
StatusAt(p) == IF now[p] > token[PollOf[p]].activeAt THEN "available" ELSE "not_available"

IsOver(p) ==
    /\ now' = [now EXCEPT ![p] = Unasked]
    /\ heard' = heard \ {p}

(* The answer says what was true when the poll began, and may come after    *)
(* those of polls begun later.  A token of the new status is signed, but    *)
(* the one the client holds is returned to it.                              *)
AnswerStatus(p) ==
    LET c == PollOf[p] IN
    /\ UnderWay(p)
    /\ told' = IF KnownUser(c) THEN [told EXCEPT ![c] = @ \cup {StatusAt(p)}] ELSE told
    /\ IsOver(p)
    /\ UNCHANGED <<counter, pc, position, token, world>>

(* The token check of reserveSeat, which a client calls when its turn has   *)
(* come.                                                                    *)
Enter(c) ==
    /\ At(c, "holding") /\ Welcome(c)
    /\ Goto(c, IF Lapsed(c, clock) THEN "out"
               ELSE IF token[c].status = "approved" THEN "admitted" ELSE "unapproved")
    /\ UNCHANGED <<counter, position, token, asking, world>>

-----------------------------------------------------------------------------
(* A query or INCR of createToken fails, INCR executed or not; the          *)
(* controller answers every failure with 400, and the client asks again.    *)
CallFails(c) ==
    /\ faults < MaxFaults
    /\ faults' = faults + 1
    /\ At(c, "idle")
    /\ UNCHANGED counter \/ Count(c)
    /\ UNCHANGED <<clock, pc, position, token, asking>>

(* The same for a query of getQueueStatus. *)
PollFails(p) ==
    /\ faults < MaxFaults
    /\ faults' = faults + 1
    /\ UnderWay(p)
    /\ IsOver(p)
    /\ UNCHANGED <<clock, counter, pc, position, token, told>>

(* The process dies with its calls; Redis keeps the counters.               *)
Crash ==
    /\ faults < MaxFaults
    /\ faults' = faults + 1
    /\ pc' = [c \in Clients |-> IF At(c, "sign") THEN "idle" ELSE pc[c]]
    /\ position' = [c \in Clients |-> IF At(c, "sign") THEN 0 ELSE position[c]]
    /\ now' = [p \in Polls |-> Unasked]
    /\ heard' = {}
    /\ UNCHANGED <<clock, counter, token, told>>

Tick ==
    /\ clock < MaxClock
    /\ clock' = clock + 1
    /\ \A c \in Attentive : Holds(c) => Welcome(c) \/ ~Lapsed(c, clock + 1)
    /\ UNCHANGED <<counter, pc, position, token, asking, faults>>

ClientStep(c) == Incr(c) \/ Issue(c) \/ Enter(c) \/ CallFails(c)
PollStep(p)   == Poll(p) \/ AnswerStatus(p) \/ PollFails(p)

Next ==
    \/ \E c \in Clients : ClientStep(c)
    \/ \E p \in Polls : PollStep(p)
    \/ Crash
    \/ Tick

Spec == Init /\ [][Next]_vars

-----------------------------------------------------------------------------
(* No two clients of a concert have the same position, although positions   *)
(* of calls that failed or crashed after their INCR are lost.               *)
PositionsUnique ==
    \A c, d \in Clients :
        ConcertOf[c] = ConcertOf[d] /\ position[c] = position[d] /\ position[c] # 0 => c = d

(* No more than MaxPerCycle clients of a concert have the same turn.  Those *)
(* of earlier cycles whose tokens have not lapsed are available as well.    *)
LetInWith(c) ==
    {d \in Clients : /\ ConcertOf[d] = ConcertOf[c] /\ Holds(d)
                     /\ token[d].activeAt = token[c].activeAt}

CycleShare == \A c \in Clients : Holds(c) => Cardinality(LetInWith(c)) <= MaxPerCycle

(* After n cycles the turn of the first n + 1 times MaxPerCycle positions   *)
(* has come, and of no other, so that nobody is let in before somebody      *)
(* ahead.  Positions that failed calls have lost keep their places.         *)
TurnIsExact ==
    \A c \in Clients :
        Holds(c) => \A n \in 0..counter[ConcertOf[c]] :
            token[c].activeAt <= Opening[ConcertOf[c]] + n * Cycle
                <=> position[c] <= (n + 1) * MaxPerCycle

(* Nobody is told to be available before the turn has come, even if the     *)
(* answer took its time.                                                    *)
ToldInTime == \A c \in Clients : Welcome(c) => clock > token[c].activeAt

(* Whoever was told to be available and asks again will be told the same,   *)
(* even after the process was restarted; an answer to the contrary is one   *)
(* to a poll begun before, which later ones have overtaken.                 *)
StaysTold == \A p \in heard : StatusAt(p) = "available"

(* No token lapses before the five minutes that begin with its turn are     *)
(* over, to the second.                                                     *)
NoLapseInQueue ==
    \A c \in Clients : Holds(c) /\ Lapsed(c, clock) => clock + Second > token[c].activeAt + Life

(* Whoever holds a token and polls is told of the turn. *)
TurnIsTold == \A c \in Attentive : Holds(c) ~> Welcome(c)

(* Whoever was told that the turn has come, and tries before the token      *)
(* lapses, is let in by reserveSeat.                                        *)
TurnOpensGate == \A c \in Clients : Welcome(c) => pc[c] # "unapproved"
=============================================================================
