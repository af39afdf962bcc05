------------------------------ MODULE Deployment ------------------------------
(***************************************************************************)
(* How the service comes up: docker compose runs the migration of           *)
(* seed-setup.ts and, if that succeeds, the application (orm.config.ts,     *)
(* main.ts).  The migration creates the tables, a concert for every date    *)
(* of a calendar and the seats of each, row by row, and is recorded, all in *)
(* one transaction; a recorded migration is not run again.                  *)
(*                                                                          *)
(* Containers stop at any moment and are started again.                     *)
(***************************************************************************)
EXTENDS Naturals, Sequences, Functions

CONSTANTS
    Calendar,      \* the concerts that are seeded, in the order of their dates
    MaxSeats       \* seats of a concert

ASSUME DeploymentAssumption ==
    /\ Calendar \in Seq(Range(Calendar))
    /\ IsInjective(Calendar)
    /\ MaxSeats \in Nat

VARIABLES
    phase,     \* what the container is at
    db,        \* what is committed of the database
    draft      \* what the migration's transaction sees

deploymentVars == <<phase, db, draft>>

Seeded  == Range(Calendar)
Numbers == 1..MaxSeats

Databases ==
    [tables : BOOLEAN, recorded : BOOLEAN, concerts : SUBSET Seeded, seats : SUBSET (Seeded \X Numbers)]

Empty == [tables |-> FALSE, recorded |-> FALSE, concerts |-> {}, seats |-> {}]

(* The types of the variables; a seat is never there before its concert.    *)
(* "migrating" until the tables are created, "seeding" after that.          *)
DeploymentTypeOK ==
    /\ phase \in {"down", "migrating", "seeding", "starting", "serving"}
    /\ db \in Databases
    /\ draft \in Databases
    /\ draft.seats \subseteq draft.concerts \X Numbers

DeploymentInit == phase = "down" /\ db = Empty /\ draft = Empty

-----------------------------------------------------------------------------
(* npm run migrate:up, and its BEGIN. *)
Launch ==
    /\ phase = "down"
    /\ phase' = "migrating"
    /\ draft' = db
    /\ UNCHANGED db

(* Mutant of CreateTables: CREATE TABLE commits at once. *)
CreateTablesAtOnce ==
    /\ phase = "migrating" /\ ~db.recorded /\ ~draft.tables
    /\ phase' = "seeding"
    /\ draft' = [draft EXCEPT !.tables = TRUE]
    /\ db' = [db EXCEPT !.tables = TRUE]

(* CREATE TABLE, which fails if there is one already, and the seed user. *)
CreateTables ==
    /\ phase = "migrating" /\ ~db.recorded /\ ~draft.tables
    /\ phase' = "seeding"
    /\ draft' = [draft EXCEPT !.tables = TRUE]
    /\ UNCHANGED db

(* Mutant of Filled: i < 50. *)
FilledTooSoon(k) == \A n \in 1..(MaxSeats - 1) : <<k, n>> \in draft.seats

(* The loop over the seats of a concert is over. *)
Filled(k) == \A n \in Numbers : <<k, n>> \in draft.seats

(* The loop over the dates has come to the d-th. *)
Reached(d) ==
    /\ phase = "seeding"
    /\ \A e \in 1..(d - 1) : Calendar[e] \in draft.concerts /\ Filled(Calendar[e])

InsertConcert(d) ==
    /\ Reached(d) /\ Calendar[d] \notin draft.concerts
    /\ draft' = [draft EXCEPT !.concerts = @ \cup {Calendar[d]}]
    /\ UNCHANGED <<phase, db>>

(* Mutant of InsertSeat: the seats come before their concert. *)
InsertSeatFirst(d, n) ==
    /\ Reached(d) /\ ~Filled(Calendar[d])
    /\ \A m \in Numbers : <<Calendar[d], m>> \in draft.seats <=> m < n
    /\ draft' = [draft EXCEPT !.seats = @ \cup {<<Calendar[d], n>>}]
    /\ UNCHANGED <<phase, db>>

InsertSeat(d, n) ==
    /\ Reached(d) /\ Calendar[d] \in draft.concerts /\ ~Filled(Calendar[d])
    /\ \A m \in Numbers : <<Calendar[d], m>> \in draft.seats <=> m < n
    /\ draft' = [draft EXCEPT !.seats = @ \cup {<<Calendar[d], n>>}]
    /\ UNCHANGED <<phase, db>>

(* The index, the record of the migration, COMMIT. *)
CommitMigration ==
    /\ Reached(Len(Calendar) + 1)
    /\ draft' = [draft EXCEPT !.recorded = TRUE]
    /\ db' = draft'
    /\ phase' = "starting"

NothingPending ==
    /\ phase = "migrating" /\ db.recorded
    /\ phase' = "starting"
    /\ UNCHANGED <<db, draft>>

(* bootstrap: the tables are there, synchronize leaves their rows alone,    *)
(* and the application listens.                                             *)
Bootstrap ==
    /\ phase = "starting"
    /\ phase' = "serving"
    /\ UNCHANGED <<db, draft>>

(* The container stops, or a statement of the migration fails: ROLLBACK,    *)
(* and no application is started.                                           *)
Stop ==
    /\ phase # "down"
    /\ phase' = "down"
    /\ draft' = db
    /\ UNCHANGED db

ComesUp ==
    \/ Launch \/ CreateTables \/ CommitMigration \/ NothingPending \/ Bootstrap
    \/ \E d \in DOMAIN Calendar : InsertConcert(d) \/ \E n \in Numbers : InsertSeat(d, n)

DeploymentNext == ComesUp \/ Stop

DeploymentSpec == DeploymentInit /\ [][DeploymentNext]_deploymentVars

-----------------------------------------------------------------------------
(* Whenever the application serves, however often its containers stopped on *)
(* the way, there is a concert on every date, with every one of its seats.  *)
ServingIsSeeded ==
    phase = "serving" => db.concerts = Seeded /\ db.seats = Seeded \X Numbers

(* Whenever the containers stopped, in the midst of the migration even,     *)
(* starting them again brings the service back.                             *)
AlwaysServesAgain == phase = "down" ~> phase = "serving"
=============================================================================
