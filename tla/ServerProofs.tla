------------------------------ MODULE ServerProofs ------------------------------
(***************************************************************************)
(* Theorems about Server, for every set of requests and seats and every     *)
(* size of the pool.                                                        *)
(***************************************************************************)
EXTENDS Server, BookingProofs, FiniteSetTheorems

(* Connections only hold requests up: what they do is what Booking says.    *)
LEMMA ServerStep == [ServerNext]_serverVars => [BookingNext]_bookingVars
BY DEF ServerNext, Begin, Statement, Check, Job, Rest, BookingNext, serverVars

(* What is true of Booking is true of it on a pool of connections. *)
THEOREM ServerRefines == ServerSpec => BookingSpec
<1>1. ServerInit => BookingInit
  BY DEF ServerInit
<1> QED
  BY <1>1, ServerStep, PTL DEF ServerSpec, BookingSpec

-----------------------------------------------------------------------------
(* The types of the pool. *)
Connections ==
    /\ conn \subseteq {r \in Requests : pc[r] \in Body}
    /\ IsFiniteSet(conn)
    /\ Cardinality(conn) <= PoolSize

LEMMA ConnectionsInit == ServerInit => Connections
BY FS_EmptySet, ServerAssumption DEF ServerInit, Connections

LEMMA GivingBack == ASSUME Connections, GiveBack PROVE Connections'
<1>1. conn' \subseteq conn /\ conn' \subseteq {r \in Requests : pc'[r] \in Body}
  BY DEF Connections, GiveBack
<1>2. IsFiniteSet(conn') /\ Cardinality(conn') <= Cardinality(conn)
  BY <1>1, FS_Subset DEF Connections
<1>3. Cardinality(conn) \in Nat /\ Cardinality(conn') \in Nat
  BY <1>2, FS_CardinalityType DEF Connections
<1> QED
  BY <1>1, <1>2, <1>3, ServerAssumption DEF Connections

LEMMA Beginning == ASSUME NEW r \in Requests, Connections, Begin(r) PROVE Connections'
<1>1. /\ r \notin conn /\ conn' = conn \cup {r}
      /\ pc[r] = "find" /\ UNCHANGED pc
      /\ Cardinality(conn) < PoolSize
  BY DEF Begin, At, Free, bookingVars
<1>2. IsFiniteSet(conn') /\ Cardinality(conn') = Cardinality(conn) + 1
  BY <1>1, FS_AddElement DEF Connections
<1>3. Cardinality(conn) \in Nat
  BY FS_CardinalityType DEF Connections
<1> QED
  BY <1>1, <1>2, <1>3, ServerAssumption DEF Connections, Body

LEMMA ConnectionsStep == ASSUME Connections, [ServerNext]_serverVars PROVE Connections'
<1>1. CASE UNCHANGED serverVars
  BY <1>1 DEF serverVars, bookingVars, Connections
<1>2. CASE GiveBack
  BY <1>2, GivingBack
<1> QED
  BY <1>1, <1>2, Beginning DEF ServerNext, Statement, Check, Job, Rest

(* A connection is held by a request inside of its locked operation only,   *)
(* and the pool gives out no more than it has.                              *)
THEOREM ServerTyping == ServerSpec => []ServerTypeOK
<1>1. Connections /\ BookingTypeOK => ServerTypeOK
  BY DEF Connections, ServerTypeOK
<1> QED
  BY <1>1, ConnectionsInit, ConnectionsStep, ServerRefines, BookingTyping, PTL DEF ServerSpec

-----------------------------------------------------------------------------
(* Transactions on one seat exclude each other: the connections in use are  *)
(* for as many different seats.                                             *)
LEMMA OneConnectionPerSeat ==
    ASSUME ServerTypeOK, MutualExclusion
    PROVE  Cardinality({ResourceOf[r] : r \in conn}) = Cardinality(conn)
<1> DEFINE seats == {ResourceOf[r] : r \in conn}
           seatOf == [r \in conn |-> ResourceOf[r]]
<1>1. IsFiniteSet(conn)
  BY DEF ServerTypeOK
<1>2. \A r \in conn : r \in Requests /\ at[r] = "operating"
  BY DEF ServerTypeOK, BookingTypeOK
<1>3. seatOf \in [conn -> seats]
  OBVIOUS
<1>4. \A r, s \in conn : seatOf[r] = seatOf[s] => r = s
  BY <1>2 DEF MutualExclusion
<1>5. seatOf \in Injection(conn, seats)
  BY <1>3, <1>4 DEF Injection, IsInjective
<1>6. seatOf \in Surjection(conn, seats)
  BY <1>3 DEF Surjection
<1>7. IsFiniteSet(seats) /\ Cardinality(seats) <= Cardinality(conn)
  BY <1>1, <1>6, FS_Surjection
<1>8. Cardinality(conn) <= Cardinality(seats)
  BY <1>5, <1>7, FS_Injection
<1> HIDE DEF seats
<1>9. Cardinality(conn) \in Nat /\ Cardinality(seats) \in Nat
  BY <1>1, <1>7, FS_CardinalityType
<1>10. Cardinality(seats) = Cardinality(conn)
  BY <1>7, <1>8, <1>9
<1> QED
  BY <1>10 DEF seats

(* The pool runs dry only when as many different seats are being reserved   *)
(* at once as it has connections, however many requests there are, whatever *)
(* fails or crashes.                                                        *)
THEOREM DryPoolTakesSeats ==
    ASSUME ~OutlivesTTL
    PROVE  ServerSpec => []DryTakesSeats
<1>1. ASSUME ServerTypeOK, MutualExclusion PROVE DryTakesSeats
  <2>1. Cardinality(conn) \in Nat /\ Cardinality(conn) <= PoolSize
    BY <1>1, FS_CardinalityType DEF ServerTypeOK
  <2>2. ASSUME PoolDry PROVE Cardinality(conn) = PoolSize
    BY <2>1, <2>2, ServerAssumption DEF PoolDry, Free
  <2> QED
    BY <1>1, <2>2, OneConnectionPerSeat DEF DryTakesSeats
<1> QED
  BY <1>1, ServerTyping, ServerRefines, BookingExclusion, PTL

-----------------------------------------------------------------------------
(* What leaves the transactions that hold connections where they are leaves *)
(* a dry pool dry.                                                          *)
LEMMA StaysDry ==
    ASSUME ServerTypeOK, PoolDry, GiveBack, \A r \in conn : pc'[r] = pc[r]
    PROVE  PoolDry'
<1>1. conn' = conn
  BY DEF ServerTypeOK, GiveBack
<1> QED
  BY <1>1 DEF PoolDry, Free, NeedsAnother

(* Nothing in the application ends a deadlock on the pool: when it is dry,  *)
(* every step leaves it dry, unless the process dies.                       *)
THEOREM DryPoolStaysDry == ServerSpec => DryForGood
<1> DEFINE Stuck == PoolDry => PoolDry' \/ crashes' > crashes
<1>1. ASSUME ServerTypeOK, [ServerNext]_serverVars PROVE Stuck
  <2> SUFFICES ASSUME PoolDry PROVE PoolDry' \/ crashes' > crashes
    OBVIOUS
  <2>0. /\ ~Free
        /\ \A r \in conn : r \in Requests /\ pc[r] \in {"find", "create", "mark"}
    BY <1>1 DEF PoolDry, NeedsAnother, ServerTypeOK
  <2>1. CASE UNCHANGED serverVars
    BY <2>1 DEF serverVars, bookingVars, PoolDry, Free, NeedsAnother
  <2>2. ASSUME NEW r \in Requests, Begin(r) PROVE FALSE
    BY <2>0, <2>2 DEF Begin
  <2>3. ASSUME NEW r \in Requests, Statement(r) PROVE PoolDry'
    <3>1. pc[r] \notin Body
      BY <2>0, <2>3 DEF Statement, NeedsAnother
    <3>2. Lock(r) \/ Release(r) \/ LockCommandFails(r)
      BY <2>3, <3>1 DEF Statement, RequestRuns, RequestStep, FindSeat, CreateSeat, ReadSeat,
                        InsertReservation, MarkSeat, Schedule, Commit, StatementFails, At, Body
    <3>3. pc \in [Requests -> {"idle", "setnx", "release", "done"} \cup Body]
      BY <1>1 DEF ServerTypeOK, BookingTypeOK
    <3>4. \A s \in Requests \ {r} : pc'[s] = pc[s]
      BY <3>2, <3>3 DEF Lock, Release, LockCommandFails, Goto
    <3>5. r \notin conn
      BY <2>0, <3>1 DEF Body
    <3> QED
      BY <1>1, <2>0, <2>3, <3>4, <3>5, StaysDry DEF Statement
  <2>4. ASSUME NEW r \in Requests, Check(r) PROVE FALSE
    BY <2>0, <2>4 DEF Check
  <2>5. ASSUME NEW r \in Requests, Job(r) PROVE PoolDry'
    <3>1. JobFires(r)
      BY <2>0, <2>5 DEF Job, JobRuns, JobStep, ExpireFind, ExpireSave, ExpireSeat, ExpireFails
    <3> QED
      BY <1>1, <2>5, <3>1, StaysDry DEF Job, JobFires
  <2>6. ASSUME Rest PROVE PoolDry' \/ crashes' > crashes
    <3>1. ASSUME NEW r \in Requests, Reserve(r) PROVE \A s \in conn : pc'[s] = pc[s]
      <4>1. pc \in [Requests -> {"idle", "setnx", "release", "done"} \cup Body]
        BY <1>1 DEF ServerTypeOK, BookingTypeOK
      <4>2. r \notin conn
        BY <2>0, <3>1 DEF Reserve, At
      <4> QED
        BY <2>0, <3>1, <4>1, <4>2 DEF Reserve, Goto
    <3>2. ASSUME NEW k \in Resources, SeatLockExpires(k) PROVE UNCHANGED pc
      BY <3>2 DEF SeatLockExpires
    <3>3. ASSUME Tick PROVE UNCHANGED pc
      BY <3>3 DEF Tick
    <3>4. ASSUME Crash PROVE crashes' > crashes
      <4>1. crashes \in Nat /\ crashes' = crashes + 1
        BY <1>1, <3>4 DEF ServerTypeOK, BookingTypeOK, Crash, ProcessDies
      <4> QED
        BY <4>1
    <3> QED
      BY <1>1, <2>6, <3>1, <3>2, <3>3, <3>4, StaysDry DEF Rest, Environment
  <2> QED
    BY <1>1, <2>1, <2>2, <2>3, <2>4, <2>5, <2>6 DEF ServerNext
<1>2. ServerTypeOK /\ [ServerNext]_serverVars => [Stuck]_serverVars
  BY <1>1
<1> HIDE DEF Stuck
<1>3. ServerSpec => [][Stuck]_serverVars
  BY <1>2, ServerTyping, PTL DEF ServerSpec
<1> QED
  BY <1>3 DEF Stuck, DryForGood
=============================================================================
