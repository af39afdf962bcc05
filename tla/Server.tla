--------------------------------- MODULE Server ---------------------------------
(***************************************************************************)
(* Booking on the pool of database connections that a process has.          *)
(*                                                                          *)
(* The transaction of reserveSeat keeps a connection from BEGIN to COMMIT   *)
(* or ROLLBACK.  Within it getOrCreateSeat and updateSeatStatus, which do   *)
(* not use the transaction's entity manager, need another one, as every     *)
(* query outside of a transaction does, for as long as the statement takes. *)
(* Who finds no connection waits for one, without a limit: transactions that *)
(* have taken all of them wait for each other, for good.                    *)
(***************************************************************************)
EXTENDS Booking, FiniteSets

CONSTANT PoolSize      \* connections of the pool

ASSUME ServerAssumption == PoolSize \in Nat

VARIABLE conn          \* the requests whose transaction holds a connection

serverVars == <<bookingVars, conn>>

(* A request holds a connection only inside of its locked operation, and    *)
(* there are no more connections than the pool has.                         *)
ServerTypeOK ==
    /\ BookingTypeOK
    /\ conn \subseteq {r \in Requests : pc[r] \in Body}
    /\ IsFiniteSet(conn)
    /\ Cardinality(conn) <= PoolSize

ServerInit == BookingInit /\ conn = {}

Free == Cardinality(conn) < PoolSize

(* What needs a connection besides the one of the transaction. *)
NeedsAnother(r) == pc[r] \in {"find", "create", "mark"}

(* Mutants of GiveBack: not before the lock is released; never. *)
GiveBackLate   == conn' = {r \in conn : pc'[r] # "done"}
NeverGivenBack == conn' = conn

(* Connections go back with the transaction or with the process. *)
GiveBack == conn' = {r \in conn : pc'[r] \in Body}

-----------------------------------------------------------------------------
(* dataSource.transaction: a connection, and BEGIN. *)
Begin(r) ==
    /\ At(r, "find") /\ r \notin conn
    /\ Free
    /\ conn' = conn \cup {r}
    /\ UNCHANGED bookingVars

(* Mutant of Statement: the pool has no limit outside of transactions. *)
StatementUnpooled(r) ==
    /\ pc[r] \in Body => r \in conn
    /\ RequestRuns(r)
    /\ GiveBack

(* A command of the lock, or a statement of the operation, which may fail.  *)
(* A connection that cannot be made is like a first statement that fails.   *)
Statement(r) ==
    /\ pc[r] \in Body => r \in conn
    /\ NeedsAnother(r) => Free
    /\ RequestRuns(r)
    /\ GiveBack

(* The query of checkSeatAvailability. *)
Check(r) == Free /\ CheckReturns(r) /\ GiveBack

(* The expiry jobs; a timer needs no connection. *)
Job(r) ==
    /\ expiry[r] # "scheduled" => Free
    /\ JobRuns(r)
    /\ GiveBack

(* What needs no connection. *)
Rest == ((\E r \in Requests : Reserve(r)) \/ Environment) /\ GiveBack

ServerNext ==
    \/ \E r \in Requests : Begin(r) \/ Statement(r) \/ Check(r) \/ Job(r)
    \/ Rest

ServerSpec == ServerInit /\ [][ServerNext]_serverVars

(* The process goes on with what it has begun, and time passes. *)
ServerFairness ==
    /\ WF_serverVars(\E r \in Requests : Begin(r) \/ Statement(r) \/ Check(r) \/ Job(r))
    /\ WF_serverVars(Environment /\ Tick /\ GiveBack)

FairServerSpec == ServerSpec /\ ServerFairness

-----------------------------------------------------------------------------
(* All connections are held by transactions, and each needs another one to  *)
(* go on.                                                                   *)
PoolDry == ~Free /\ \A r \in conn : NeedsAnother(r)

(* Only as many different seats being reserved at once as the pool has      *)
(* connections can dry it up: requests for one seat never do, however many  *)
(* they are, since their lock lets one of them begin a transaction.         *)
DryTakesSeats == PoolDry => Cardinality({ResourceOf[r] : r \in conn}) = PoolSize

(* Once it is dry no step of the application, no timer and no time-out      *)
(* frees a connection again: it takes the end of the process.               *)
DryForGood == [][PoolDry => PoolDry' \/ crashes' > crashes]_serverVars

(* Every request that has sent its SET NX is answered, whoever holds the    *)
(* lock and the connections, unless the pool runs dry.                      *)
EveryRequestAnsweredUnlessDry ==
    \A r \in Requests : pc[r] = "setnx" ~> pc[r] = "done" \/ PoolDry

(* ... which is not what the use case of a reservation says: its last step  *)
(* is the response.                                                         *)
EveryRequestAnswered == \A r \in Requests : pc[r] = "setnx" ~> pc[r] = "done"

(* A reservation that is not paid comes to its end and its seat returns,    *)
(* though the job needs connections that requests compete for, unless the   *)
(* process dies or its pool runs dry.                                       *)
UnpaidSeatsReturnUnlessHalted ==
    \A r \in Requests :
        res[r] = "pending" ~> seat[target[r]] = "available" \/ crashes > 0 \/ PoolDry
=============================================================================
