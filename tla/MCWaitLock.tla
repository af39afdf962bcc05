------------------------------ MODULE MCWaitLock ------------------------------
(* Small instances of WaitLock for TLC. *)
EXTENDS WaitLock

CONSTANTS i1, i2

MCRequests  == {1, 2, 3}
MCInstances == {i1, i2}

(* Two requests share an instance, the third runs elsewhere. *)
MCHost == [r \in MCRequests |-> IF r = 2 THEN i2 ELSE i1]
=============================================================================
