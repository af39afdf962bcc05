---------------------------- MODULE MCLockedWallet ----------------------------
(* A small instance of LockedWallet for TLC. *)
EXTENDS LockedWallet

CONSTANTS i1, i2, c1

MCRequests  == {1, 2}
MCInstances == {i1, i2}

(* One instance runs a request, the other the second and the charge. *)
MCHost     == [r \in MCRequests |-> IF r = 2 THEN i2 ELSE i1]
MCCharges  == {c1}
MCServedBy == [c \in MCCharges |-> i2]

(* The balance covers one use, the charge another. *)
MCAmount == [o \in MCRequests \cup MCCharges |-> 1]
=============================================================================
