--------------------------- MODULE WaitingRoomProofs ---------------------------
(***************************************************************************)
(* Theorems of WaitingRoom, for every set of clients and concerts, every    *)
(* size and length of a cycle, and every bound.                             *)
(***************************************************************************)
EXTENDS WaitingRoom, FiniteSetTheorems, TLAPS

(* What Math.floor of a quotient is. *)
LEMMA Quotient ==
    ASSUME NEW a \in Nat, NEW b \in Nat \ {0}
    PROVE  /\ a \div b \in Nat
           /\ b * (a \div b) <= a
           /\ a < b * (a \div b) + b
BY SMTT(30)

(* Multiples of a positive number compare like their factors. *)
LEMMA Multiples ==
    ASSUME NEW a \in Nat, NEW b \in Nat, NEW m \in Nat \ {0}
    PROVE  /\ m * a <= m * b <=> a <= b
           /\ m * a < m * b + m <=> a < b + 1
BY SMTT(30)
-----------------------------------------------------------------------------
(* Types. *)
LEMMA TokenType ==
    ASSUME TypeOK, NEW c \in Clients, position[c] # 0, NEW s \in Statuses
    PROVE  /\ CycleOf(position[c]) \in Nat
           /\ ActiveAt(c) \in Nat
           /\ ExpiresAt(c) \in Nat
           /\ Signed(c, s) \in [activeAt : Nat, exp : Nat, status : Statuses]
           /\ Signed(c, s).activeAt = ActiveAt(c)
           /\ Signed(c, s).exp = ExpiresAt(c)
<1> USE WaitingRoomAssumption
<1>1. position[c] - 1 \in Nat
  BY DEF TypeOK
<1>2. CycleOf(position[c]) \in Nat
  BY <1>1, Quotient DEF CycleOf
<1>3. ActiveAt(c) \in Nat
  <2>1. Opening[ConcertOf[c]] \in Nat /\ Cycle \in Nat
    OBVIOUS
  <2>2. CycleOf(position[c]) * Cycle \in Nat
    BY <1>2, <2>1
  <2> QED BY <2>1, <2>2 DEF ActiveAt
<1>4. (IF ActiveAt(c) > clock THEN ActiveAt(c) ELSE clock) + Life \in Nat
  BY <1>3 DEF TypeOK
<1>5. ExpiresAt(c) \in Nat
  BY <1>4, Quotient DEF ExpiresAt
<1> QED BY <1>2, <1>3, <1>5 DEF Signed

LEMMA TypeStep == ASSUME TypeOK, [Next]_vars PROVE TypeOK'
<1> USE WaitingRoomAssumption DEF TypeOK, Goto, Count, At, world, asking, UnderWay, Unasked
<1>1. ASSUME NEW c \in Clients, Incr(c) PROVE TypeOK'
  BY <1>1 DEF Incr
<1>2. ASSUME NEW c \in Clients, Issue(c) PROVE TypeOK'
  <2>1. position[c] # 0
    BY <1>2 DEF Issue
  <2>2. Signed(c, "not_available") \in [activeAt : Nat, exp : Nat, status : Statuses]
    BY <2>1, TokenType DEF Statuses
  <2>3. token' \in [Clients -> [activeAt : Nat, exp : Nat, status : Statuses]]
    BY <1>2, <2>2 DEF Issue
  <2>4. pc' \in [Clients -> {"idle", "sign", "holding", "out", "admitted", "unapproved"}]
    BY <1>2 DEF Issue
  <2>5. \A d \in Clients : position[d] = 0 <=> pc'[d] = "idle"
    BY <1>2 DEF Issue
  <2> QED BY <1>2, <2>3, <2>4, <2>5 DEF Issue
<1>3. ASSUME NEW c \in Clients, Enter(c) PROVE TypeOK'
  BY <1>3 DEF Enter
<1>4. ASSUME NEW c \in Clients, CallFails(c) PROVE TypeOK'
  <2>1. CASE UNCHANGED counter
    BY <1>4, <2>1 DEF CallFails
  <2>2. CASE Count(c)
    BY <1>4, <2>2 DEF CallFails
  <2> QED BY <1>4, <2>1, <2>2 DEF CallFails
<1>5. ASSUME NEW p \in Polls, PollStep(p) PROVE TypeOK'
  <2>1. PollOf[p] \in Clients
    OBVIOUS
  <2>2. CASE Poll(p)
    <3>1. pc' \in [Clients -> {"idle", "sign", "holding", "out", "admitted", "unapproved"}]
      BY <2>2 DEF Poll
    <3>2. now' \in [Polls -> Unasked..MaxClock]
      BY <2>2 DEF Poll
    <3>3. heard' \subseteq {q \in Polls : now'[q] # Unasked}
      BY <2>2 DEF Poll
    <3>4. \A c \in Clients : position[c] = 0 <=> pc'[c] = "idle"
      BY <2>1, <2>2 DEF Poll
    <3> QED BY <2>2, <3>1, <3>2, <3>3, <3>4 DEF Poll
  <2>3. CASE AnswerStatus(p)
    <3>1. told' \in [Clients -> SUBSET {"not_available", "available"}]
      <4>1. StatusAt(p) \in {"not_available", "available"}
        BY DEF StatusAt
      <4> QED BY <2>1, <2>3, <4>1 DEF AnswerStatus
    <3>2. now' \in [Polls -> Unasked..MaxClock] /\ heard' \subseteq {q \in Polls : now'[q] # Unasked}
      BY <2>3 DEF AnswerStatus, IsOver
    <3> QED BY <2>3, <3>1, <3>2 DEF AnswerStatus
  <2>4. CASE PollFails(p)
    BY <2>4 DEF PollFails, IsOver
  <2> QED BY <1>5, <2>2, <2>3, <2>4 DEF PollStep
<1>6. CASE Crash
  BY <1>6 DEF Crash
<1>7. CASE Tick
  BY <1>7 DEF Tick
<1>8. CASE UNCHANGED vars
  BY <1>8 DEF vars
<1> QED BY <1>1, <1>2, <1>3, <1>4, <1>5, <1>6, <1>7, <1>8 DEF Next, ClientStep

(* The types, and that positions come from the counter. *)
THEOREM Typing == Spec => []TypeOK
<1>1. Init => TypeOK
  BY WaitingRoomAssumption DEF Init, TypeOK, NoToken, Statuses, At, UnderWay, Unasked
<1> QED BY <1>1, TypeStep, PTL DEF Spec

-----------------------------------------------------------------------------
(* Positions. *)
LEMMA PositionsStep ==
    ASSUME TypeOK, PositionsUnique, [Next]_vars PROVE PositionsUnique'
<1> USE WaitingRoomAssumption DEF TypeOK, PositionsUnique
<1>1. ASSUME NEW c \in Clients, Incr(c) PROVE PositionsUnique'
  <2>1. \A d \in Clients :
          ConcertOf[d] = ConcertOf[c] => position[d] < counter[ConcertOf[c]] + 1
    OBVIOUS
  <2> QED BY <1>1, <2>1 DEF Incr
<1>2. CASE \/ \E c \in Clients : Issue(c) \/ Enter(c) \/ CallFails(c)
           \/ \E p \in Polls : PollStep(p)
  <2>1. UNCHANGED position
    BY <1>2 DEF Issue, Enter, CallFails, PollStep, Poll, AnswerStatus, PollFails
  <2> QED BY <2>1
<1>3. CASE Crash
  BY <1>3 DEF Crash
<1>4. CASE Tick \/ UNCHANGED vars
  BY <1>4 DEF Tick, vars
<1> QED BY <1>1, <1>2, <1>3, <1>4 DEF Next, ClientStep

(* No position is given to two clients of a concert, whatever is lost.      *)
THEOREM NoPositionTwice == Spec => []PositionsUnique
<1>1. Init => PositionsUnique
  BY DEF Init, PositionsUnique
<1> QED BY <1>1, Typing, PositionsStep, PTL DEF Spec

-----------------------------------------------------------------------------
(* The inductive invariant.  Only who has left createToken holds a token,   *)
(* of the turn of its position and for no less than the time it is due;     *)
(* only holders poll and are told anything, and of their turn only after    *)
(* it; and who polls having been told has read a clock past it.             *)
Issued(c) ==
    /\ ~At(c, "idle") /\ ~At(c, "sign")
    /\ token[c].activeAt = ActiveAt(c)
    /\ token[c].exp >= (ActiveAt(c) + Life) \div Second

PollInTime(p) ==
    /\ UnderWay(p) => Holds(PollOf[p]) /\ now[p] <= clock
    /\ p \in heard => now[p] > token[PollOf[p]].activeAt

TokensInv ==
    /\ \A c \in Clients :
          /\ Holds(c) => Issued(c)
          /\ ~Holds(c) => told[c] = {} /\ ~At(c, "holding")
          /\ Welcome(c) => clock > token[c].activeAt
    /\ \A p \in Polls : PollInTime(p)

(* A later time makes no smaller quotient. *)
LEMMA QuotientGrows ==
    ASSUME NEW a \in Nat, NEW b \in Nat, a <= b, NEW m \in Nat \ {0}
    PROVE  a \div m <= b \div m
BY SMTT(30)

LEMMA ExpiresInTime ==
    ASSUME TypeOK, NEW c \in Clients, position[c] # 0
    PROVE  ExpiresAt(c) >= (ActiveAt(c) + Life) \div Second
<1> USE WaitingRoomAssumption
<1> DEFINE start == IF ActiveAt(c) > clock THEN ActiveAt(c) ELSE clock
<1>1. ActiveAt(c) + Life \in Nat /\ start + Life \in Nat /\ ActiveAt(c) + Life <= start + Life
  <2>1. ActiveAt(c) \in Nat
    BY TokenType DEF Statuses
  <2> QED BY <2>1 DEF TypeOK
<1>2. (ActiveAt(c) + Life) \div Second <= (start + Life) \div Second
  <2> HIDE DEF start
  <2> QED BY <1>1, QuotientGrows
<1>3. (ActiveAt(c) + Life) \div Second \in Nat /\ (start + Life) \div Second \in Nat
  <2> HIDE DEF start
  <2> QED BY <1>1, Quotient
<1>4. ExpiresAt(c) = (start + Life) \div Second
  BY DEF ExpiresAt
<1> QED BY <1>2, <1>3, <1>4

LEMMA TokensStep ==
    ASSUME TypeOK, TokensInv, [Next]_vars PROVE TokensInv'
<1> USE WaitingRoomAssumption
    DEF TypeOK, TokensInv, Goto, At, Holds, Welcome, UnderWay, Unasked, world, asking
<1>1. ASSUME NEW c \in Clients, Incr(c) PROVE TokensInv'
  BY <1>1 DEF Incr, Issued, PollInTime, ActiveAt
<1>2. ASSUME NEW c \in Clients, Issue(c) PROVE TokensInv'
  <2>1. position[c] # 0 /\ ~Holds(c)
    BY <1>2 DEF Issue, Issued
  <2>2. ExpiresAt(c) >= (ActiveAt(c) + Life) \div Second
    BY <2>1, ExpiresInTime
  <2>3. /\ Signed(c, "not_available").activeAt = ActiveAt(c)
        /\ Signed(c, "not_available").exp = ExpiresAt(c)
        /\ Signed(c, "not_available") # NoToken
    BY <2>1, TokenType DEF Statuses, Signed, NoToken
  <2>4. \A d \in Clients : ActiveAt(d)' = ActiveAt(d)
    BY <1>2 DEF Issue, ActiveAt
  <2>5. \A p \in Polls : PollInTime(p)'
    BY <1>2, <2>1, <2>3 DEF Issue, PollInTime
  <2> QED BY <1>2, <2>1, <2>2, <2>3, <2>4, <2>5 DEF Issue, Issued
<1>3. ASSUME NEW c \in Clients, Enter(c) \/ CallFails(c) PROVE TokensInv'
  <2>1. \A d \in Clients : ActiveAt(d)' = ActiveAt(d)
    BY <1>3 DEF Enter, CallFails, ActiveAt
  <2> QED BY <1>3, <2>1 DEF Enter, CallFails, Issued, PollInTime
<1>4. ASSUME NEW p \in Polls, PollStep(p) PROVE TokensInv'
  <2> DEFINE c == PollOf[p]
  <2>1. c \in Clients /\ \A d \in Clients : ActiveAt(d)' = ActiveAt(d)
    BY <1>4 DEF PollStep, Poll, AnswerStatus, PollFails, ActiveAt
  <2>2. CASE Poll(p)
    <3>1. \A q \in Polls : PollInTime(q)'
      BY <2>1, <2>2 DEF Poll, PollInTime
    <3> QED BY <2>1, <2>2, <3>1 DEF Poll, Issued
  <2>3. CASE AnswerStatus(p)
    <3>1. \A q \in Polls : PollInTime(q)'
      BY <2>3 DEF AnswerStatus, IsOver, PollInTime
    <3>2. Holds(c) /\ now[p] <= clock
      BY <2>3 DEF AnswerStatus, PollInTime
    <3>3. told' = told \/ told' = [told EXCEPT ![c] = @ \cup {StatusAt(p)}]
      BY <2>3 DEF AnswerStatus
    <3>4. \A d \in Clients : d # c => told'[d] = told[d]
      BY <3>3
    <3>6. "available" \in told'[c] => "available" \in told[c] \/ now[p] > token[c].activeAt
      <4>1. StatusAt(p) = "available" => now[p] > token[c].activeAt
        BY DEF StatusAt
      <4> QED BY <2>1, <3>3, <4>1
    <3>5. clock \in Nat /\ now[p] \in Int /\ token[c].activeAt \in Nat
      BY <2>1
    <3> QED BY <2>1, <2>3, <3>1, <3>2, <3>4, <3>5, <3>6 DEF AnswerStatus, Issued
  <2>4. CASE PollFails(p)
    BY <2>1, <2>4 DEF PollFails, IsOver, Issued, PollInTime
  <2> QED BY <1>4, <2>2, <2>3, <2>4 DEF PollStep
<1>5. CASE Crash
  <2>1. \A d \in Clients : Holds(d) => ActiveAt(d)' = ActiveAt(d)
    BY <1>5 DEF Crash, ActiveAt, Issued
  <2> QED BY <1>5, <2>1 DEF Crash, Issued, PollInTime
<1>6. CASE Tick \/ UNCHANGED vars
  <2>1. \A d \in Clients : ActiveAt(d)' = ActiveAt(d)
    BY <1>6 DEF Tick, vars, ActiveAt
  <2> QED BY <1>6, <2>1 DEF Tick, vars, Issued, PollInTime
<1> QED BY <1>1, <1>2, <1>3, <1>4, <1>5, <1>6 DEF Next, ClientStep

LEMMA Tokens == Spec => []TokensInv
<1>1. Init => TokensInv
  BY DEF Init, TokensInv, Holds, Welcome, PollInTime, UnderWay, Unasked, At
<1> QED BY <1>1, Typing, TokensStep, PTL DEF Spec

(* Nobody is told to be available before the turn has come.                 *)
THEOREM NeverTooSoon == Spec => []ToldInTime
<1>1. TokensInv => ToldInTime
  BY DEF TokensInv, ToldInTime
<1> QED BY <1>1, Tokens, PTL

(* Whoever was told of the turn and asks again is told of it again, however *)
(* many polls are under way and whatever answers overtake each other.       *)
THEOREM TurnStays == Spec => []StaysTold
<1>1. TypeOK /\ TokensInv => StaysTold
  BY DEF TypeOK, TokensInv, PollInTime, StaysTold, StatusAt
<1> QED BY <1>1, Typing, Tokens, PTL
-----------------------------------------------------------------------------
(* Cycles. *)
LEMMA CycleBounds ==
    ASSUME TypeOK, NEW c \in Clients, position[c] # 0
    PROVE  /\ CycleOf(position[c]) \in Nat
           /\ CycleOf(position[c]) * MaxPerCycle < position[c]
           /\ position[c] <= (CycleOf(position[c]) + 1) * MaxPerCycle
<1> DEFINE q == position[c]  k == (q - 1) \div MaxPerCycle
<1>1. q - 1 \in Nat /\ MaxPerCycle \in Nat \ {0}
  BY WaitingRoomAssumption DEF TypeOK
<1>2. k \in Nat /\ MaxPerCycle * k <= q - 1 /\ q - 1 < MaxPerCycle * k + MaxPerCycle
  BY <1>1, Quotient
<1>3. k * MaxPerCycle < q /\ q <= (k + 1) * MaxPerCycle
  <2> HIDE DEF k
  <2>1. q \in Nat
    BY DEF TypeOK
  <2> HIDE DEF q
  <2> QED BY <1>1, <1>2, <2>1
<1> QED BY <1>2, <1>3 DEF CycleOf

(* Clients whose turns are the same are of the same cycle. *)
LEMMA SameTurnSameCycle ==
    ASSUME NEW o \in Nat, NEW i \in Nat, NEW j \in Nat, NEW m \in Nat \ {0},
           o + i * m = o + j * m
    PROVE  i = j
BY SMTT(30)

LEMMA ShareOfCycle ==
    ASSUME TypeOK, PositionsUnique, TokensInv, NEW c \in Clients, Holds(c)
    PROVE  Cardinality(LetInWith(c)) <= MaxPerCycle
<1> DEFINE D == LetInWith(c)
           k == CycleOf(position[c])
           low == k * MaxPerCycle + 1
           high == (k + 1) * MaxPerCycle
           place == [d \in D |-> position[d]]
<1>1. MaxPerCycle \in Nat \ {0} /\ k \in Nat /\ low \in Int /\ high \in Int
      /\ high - low + 1 = MaxPerCycle
  <2>1. MaxPerCycle \in Nat \ {0} /\ k \in Nat
    BY CycleBounds, WaitingRoomAssumption DEF TokensInv, Issued, TypeOK
  <2> HIDE DEF k
  <2> QED BY <2>1
<1>2. ASSUME NEW d \in D PROVE position[d] \in low..high
  <2>1. d \in Clients /\ Holds(d) /\ ConcertOf[d] = ConcertOf[c]
        /\ token[d].activeAt = token[c].activeAt
    BY DEF LetInWith
  <2>2. position[c] # 0 /\ position[d] # 0 /\ ActiveAt(c) = ActiveAt(d)
    BY <2>1 DEF TokensInv, Issued, TypeOK
  <2>3. CycleOf(position[c]) \in Nat /\ CycleOf(position[d]) \in Nat
    BY <2>1, <2>2, CycleBounds
  <2>4. Opening[ConcertOf[c]] \in Nat /\ Cycle \in Nat \ {0}
    BY WaitingRoomAssumption
  <2>5. CycleOf(position[d]) = k
    BY <2>1, <2>2, <2>3, <2>4, SameTurnSameCycle DEF ActiveAt
  <2>6. k * MaxPerCycle < position[d] /\ position[d] <= (k + 1) * MaxPerCycle
    BY <2>1, <2>2, <2>5, CycleBounds
  <2>7. position[d] \in Nat
    BY <2>1 DEF TypeOK
  <2> HIDE DEF k
  <2> QED BY <1>1, <2>6, <2>7
<1>3. place \in Injection(D, low..high)
  <2>1. place \in [D -> low..high]
    BY <1>2
  <2>2. ASSUME NEW d \in D, NEW e \in D, position[d] = position[e] PROVE d = e
    <3>1. d \in Clients /\ e \in Clients /\ ConcertOf[d] = ConcertOf[e] /\ Holds(d)
      BY DEF LetInWith
    <3>2. position[d] # 0
      BY <3>1 DEF TokensInv, Issued, TypeOK
    <3> QED BY <2>2, <3>1, <3>2 DEF PositionsUnique
  <2> QED BY <2>1, <2>2 DEF Injection, IsInjective
<1>4. IsFiniteSet(low..high) /\ Cardinality(low..high) = IF low > high THEN 0 ELSE high - low + 1
  <2> HIDE DEF low, high
  <2> QED BY <1>1, FS_Interval
<1>5. IsFiniteSet(D) /\ Cardinality(D) <= Cardinality(low..high)
  BY <1>3, <1>4, FS_Injection
<1>6. Cardinality(D) \in Nat
  BY <1>5, FS_CardinalityType
<1> HIDE DEF D, low, high, k
<1>7. Cardinality(D) <= MaxPerCycle
  BY <1>1, <1>4, <1>5, <1>6
<1> QED BY <1>7 DEF D

(* No more than MaxPerCycle clients of a concert have the same turn.        *)
THEOREM SharesOfCycles == Spec => []CycleShare
<1>1. TypeOK /\ PositionsUnique /\ TokensInv => CycleShare
  BY ShareOfCycle DEF CycleShare
<1> QED BY <1>1, Typing, NoPositionTwice, Tokens, PTL

(* The turn comes after as many cycles as there are full ones ahead. *)
LEMMA TurnOfPosition ==
    ASSUME NEW o \in Nat, NEW q \in Nat, NEW k \in Nat, NEW n \in Nat,
           NEW m \in Nat \ {0}, NEW d \in Nat \ {0},
           k * m < q, q <= (k + 1) * m
    PROVE  o + k * d <= o + n * d <=> q <= (n + 1) * m
<1>1. o + k * d <= o + n * d <=> k <= n
  <2>1. d * k <= d * n <=> k <= n
    BY Multiples
  <2> QED BY <2>1, SMTT(30)
<1>2. ASSUME k <= n PROVE q <= (n + 1) * m
  <2>1. m * (k + 1) <= m * (n + 1)
    <3>1. k + 1 \in Nat /\ n + 1 \in Nat /\ k + 1 <= n + 1
      BY <1>2
    <3> QED BY <3>1, Multiples
  <2> QED BY <2>1, SMTT(30)
<1>3. ASSUME q <= (n + 1) * m PROVE k <= n
  <2>1. m * k < m * n + m
    BY <1>3, SMTT(30)
  <2>2. k < n + 1
    BY <2>1, Multiples
  <2> QED BY <2>2
<1> QED BY <1>1, <1>2, <1>3

(* After n cycles the turn of the first n + 1 times MaxPerCycle positions   *)
(* has come, and of no other.                                               *)
THEOREM TurnsAreExact == Spec => []TurnIsExact
<1>1. ASSUME TypeOK, TokensInv PROVE TurnIsExact
  <2> SUFFICES ASSUME NEW c \in Clients, Holds(c), NEW n \in 0..counter[ConcertOf[c]]
               PROVE  token[c].activeAt <= Opening[ConcertOf[c]] + n * Cycle
                        <=> position[c] <= (n + 1) * MaxPerCycle
    BY DEF TurnIsExact
  <2>1. position[c] # 0 /\ token[c].activeAt = ActiveAt(c) /\ position[c] \in Nat
    BY <1>1 DEF TokensInv, Issued, TypeOK
  <2>2. /\ CycleOf(position[c]) \in Nat
        /\ CycleOf(position[c]) * MaxPerCycle < position[c]
        /\ position[c] <= (CycleOf(position[c]) + 1) * MaxPerCycle
    BY <1>1, <2>1, CycleBounds
  <2>3. /\ Opening[ConcertOf[c]] \in Nat /\ n \in Nat
        /\ MaxPerCycle \in Nat \ {0} /\ Cycle \in Nat \ {0}
    BY <1>1, WaitingRoomAssumption DEF TypeOK
  <2> QED BY <2>1, <2>2, <2>3, TurnOfPosition DEF ActiveAt
<1> QED BY <1>1, Typing, Tokens, PTL

(* No token lapses before the five minutes that begin with its turn are     *)
(* over, to the second.                                                     *)
THEOREM TokensLast == Spec => []NoLapseInQueue
<1>1. ASSUME TypeOK, TokensInv PROVE NoLapseInQueue
  <2> SUFFICES ASSUME NEW c \in Clients, Holds(c), Lapsed(c, clock)
               PROVE  clock + Second > token[c].activeAt + Life
    BY DEF NoLapseInQueue
  <2>1. token[c].activeAt = ActiveAt(c) /\ token[c].exp >= (ActiveAt(c) + Life) \div Second
    BY <1>1 DEF TokensInv, Issued
  <2>2. /\ token[c].activeAt \in Nat /\ token[c].exp \in Nat /\ clock \in Nat
        /\ Life \in Nat /\ Second \in Nat \ {0}
    BY <1>1, WaitingRoomAssumption DEF TypeOK
  <2> DEFINE end == token[c].activeAt + Life
             i == end \div Second
             j == clock \div Second
  <2>3. end \in Nat
    BY <2>2
  <2>4. i \in Nat /\ j \in Nat /\ Second * j <= clock /\ end < Second * i + Second
    <3> HIDE DEF end
    <3> QED BY <2>2, <2>3, Quotient
  <2>5. i <= j
    <3> HIDE DEF end
    <3>1. token[c].exp >= i
      BY <2>1 DEF end
    <3>2. j >= token[c].exp
      BY DEF Lapsed
    <3> HIDE DEF i, j
    <3> QED BY <2>2, <2>4, <3>1, <3>2
  <2>6. Second * i <= Second * j
    <3> HIDE DEF i, j
    <3> QED BY <2>2, <2>4, <2>5, Multiples
  <2>7. clock + Second > end
    <3>1. Second * i \in Nat /\ Second * j \in Nat
      <4> HIDE DEF i, j
      <4> QED BY <2>2, <2>4
    <3> HIDE DEF i, j, end
    <3> QED BY <2>2, <2>3, <2>4, <2>6, <3>1
  <2> QED BY <2>7
<1> QED BY <1>1, Typing, Tokens, PTL
=============================================================================
