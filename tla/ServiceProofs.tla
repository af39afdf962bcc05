----------------------------- MODULE ServiceProofs -----------------------------
(***************************************************************************)
(* Theorems of Deployment, for every calendar and number of seats, and of   *)
(* Service, which inherits those of WaitingRoom.                            *)
(***************************************************************************)
EXTENDS Service, WaitingRoomProofs

(* Committed seats are seats of committed concerts.                         *)
SeatsHaveConcerts == db.seats \subseteq db.concerts \X Numbers

(* What the migration leaves is complete, and is there when it is over.     *)
SeedInv ==
    /\ db.recorded => db.concerts = Seeded /\ db.seats = Seeded \X Numbers
    /\ phase \in {"starting", "serving"} => db.recorded

LEMMA CommitSeedsAll ==
    ASSUME DeploymentTypeOK, CommitMigration
    PROVE  draft.concerts = Seeded /\ draft.seats = Seeded \X Numbers
<1>1. DOMAIN Calendar = 1..Len(Calendar) /\ Len(Calendar) \in Nat
  BY DeploymentAssumption
<1>2. \A e \in DOMAIN Calendar : Calendar[e] \in draft.concerts /\ Filled(Calendar[e])
  BY <1>1 DEF CommitMigration, Reached
<1>3. \A k \in Seeded : k \in draft.concerts /\ \A n \in Numbers : <<k, n>> \in draft.seats
  BY <1>2 DEF Seeded, Range, Filled
<1>4. draft.concerts \subseteq Seeded /\ draft.seats \subseteq Seeded \X Numbers
  BY DEF DeploymentTypeOK, Databases
<1> QED BY <1>3, <1>4

LEMMA DeploymentTypeStep ==
    ASSUME DeploymentTypeOK, SeatsHaveConcerts, [DeploymentNext]_deploymentVars
    PROVE  DeploymentTypeOK' /\ SeatsHaveConcerts'
<1> USE DEF DeploymentTypeOK, Databases, SeatsHaveConcerts
<1>1. ASSUME NEW d \in DOMAIN Calendar, InsertConcert(d) PROVE DeploymentTypeOK' /\ SeatsHaveConcerts'
  BY <1>1 DEF InsertConcert, Seeded, Range
<1>2. ASSUME NEW d \in DOMAIN Calendar, NEW n \in Numbers, InsertSeat(d, n) PROVE DeploymentTypeOK' /\ SeatsHaveConcerts'
  <2>1. <<Calendar[d], n>> \in draft.concerts \X Numbers
    BY <1>2 DEF InsertSeat
  <2> QED BY <1>2, <2>1 DEF InsertSeat
<1>3. CASE Launch \/ CreateTables \/ NothingPending \/ Bootstrap \/ Stop
  BY <1>3 DEF Launch, CreateTables, NothingPending, Bootstrap, Stop
<1>4. CASE CommitMigration
  BY <1>4 DEF CommitMigration
<1>5. CASE UNCHANGED deploymentVars
  BY <1>5 DEF deploymentVars
<1> QED BY <1>1, <1>2, <1>3, <1>4, <1>5 DEF DeploymentNext, ComesUp

LEMMA SeedInvStep ==
    ASSUME DeploymentTypeOK, SeedInv, [DeploymentNext]_deploymentVars PROVE SeedInv'
<1> USE DEF SeedInv
<1>1. CASE CommitMigration
  BY <1>1, CommitSeedsAll DEF CommitMigration, DeploymentTypeOK, Databases
<1>2. CASE Launch \/ CreateTables \/ NothingPending \/ Bootstrap \/ Stop
  BY <1>2 DEF Launch, CreateTables, NothingPending, Bootstrap, Stop
<1>3. ASSUME NEW d \in DOMAIN Calendar,
             InsertConcert(d) \/ \E n \in Numbers : InsertSeat(d, n)
      PROVE  SeedInv'
  BY <1>3 DEF InsertConcert, InsertSeat
<1>4. CASE UNCHANGED deploymentVars
  BY <1>4 DEF deploymentVars
<1> QED BY <1>1, <1>2, <1>3, <1>4 DEF DeploymentNext, ComesUp

LEMMA DeploymentTyping == DeploymentSpec => []DeploymentTypeOK
<1>1. DeploymentInit => DeploymentTypeOK /\ SeatsHaveConcerts
  BY DEF DeploymentInit, DeploymentTypeOK, SeatsHaveConcerts, Databases, Empty
<1> QED BY <1>1, DeploymentTypeStep, PTL DEF DeploymentSpec

(* However often containers stop, the application serves complete tables.   *)
LEMMA Seeds == DeploymentSpec => []ServingIsSeeded
<1>1. DeploymentInit => SeedInv
  BY DEF DeploymentInit, SeedInv, Empty
<1>2. SeedInv => ServingIsSeeded
  BY DEF SeedInv, ServingIsSeeded
<1> QED BY <1>1, <1>2, DeploymentTyping, SeedInvStep, PTL DEF DeploymentSpec

-----------------------------------------------------------------------------
(* The service does what the waiting room and the deployment allow. *)
THEOREM ServiceRefines == ServiceSpec => Spec /\ DeploymentSpec
<1>1. ServiceInit => Init /\ DeploymentInit
  BY DEF ServiceInit
<1>2. [ServiceNext]_serviceVars => [Next]_vars /\ [DeploymentNext]_deploymentVars
  BY DEF ServiceNext, serviceVars, Served, Starts, Dies, TimePasses, Next, DeploymentNext
<1> QED BY <1>1, <1>2, PTL DEF ServiceSpec, Spec, DeploymentSpec

(* The service never leaves the types of its two parts, whose steps are its *)
(* own: served calls, starts and stops.                                     *)
THEOREM ServiceTyping == ServiceSpec => []ServiceTypeOK
BY ServiceRefines, Typing, DeploymentTyping, PTL DEF ServiceTypeOK

(* Whenever the application serves, every concert of the calendar is there, *)
(* with all of its seats.                                                   *)
THEOREM ServiceIsSeeded == ServiceSpec => []ServingIsSeeded
BY ServiceRefines, Seeds, PTL

(* What is known of the waiting room holds of the service.                  *)
THEOREM ServiceKeepsTurns ==
    ServiceSpec => /\ [](PositionsUnique /\ CycleShare /\ TurnIsExact)
                   /\ [](ToldInTime /\ StaysTold /\ NoLapseInQueue)
BY ServiceRefines, NoPositionTwice, SharesOfCycles, TurnsAreExact, NeverTooSoon, TurnStays,
   TokensLast, PTL
=============================================================================
