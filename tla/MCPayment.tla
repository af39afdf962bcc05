------------------------------ MODULE MCPayment ------------------------------
(* A small instance of Payment for TLC: two requests for one seat, which has *)
(* a row from the start or not, two payments and a charge of one wallet.     *)
EXTENDS Payment, TLC

CONSTANTS r1, r2, seatA, p1, p2, c1

MCRequests   == {r1, r2}
MCResources  == {seatA}
MCResourceOf == [r \in MCRequests |-> seatA]
MCUses       == {p1, p2}
MCCharges    == {c1}

(* No seat has a row before it is asked for. *)
MCUnseeded == {}

(* Both payments are for r1; the balance covers one of them, the charge the *)
(* other.                                                                   *)
MCPays   == [p \in MCUses |-> r1]
MCAmount == [o \in MCUses \cup MCCharges |-> 1]

(* The payments differ in nothing. *)
Twins == Permutations({p1, p2})
=============================================================================
