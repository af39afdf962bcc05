-------------------------------- MODULE MCServer --------------------------------
(* A small instance of Server for TLC. *)
EXTENDS Server

CONSTANTS r1, r2, r3, seatA, seatB

MCRequests  == {r1, r2, r3}
MCResources == {seatA, seatB}

(* r1 and r2 want the same seat, which has no row yet; r3 another. *)
MCResourceOf == [r \in MCRequests |-> IF r = r3 THEN seatB ELSE seatA]
MCSeeded     == {seatB}
=============================================================================
