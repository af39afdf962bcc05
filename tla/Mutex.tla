-------------------------------- MODULE Mutex --------------------------------
(***************************************************************************)
(* What an ILockManager promises the callers of                            *)
(*                                                                         *)
(*     withLockBySrc(resourceId, resourceType, operation)                  *)
(*                                                                         *)
(* for one resource: the operations run one at a time, and the operation   *)
(* of a call runs at most once.  How callers wait, in which order they are *)
(* served, and how the lock is stored is left to the implementations       *)
(* (WaitLock, NoWaitLock); so is whether a call is refused.                *)
(***************************************************************************)

CONSTANT Clients     \* the calls of withLockBySrc on the resource

VARIABLE phase       \* "asking" until the operation starts, then "running", "over"

TypeOK == phase \in [Clients -> {"asking", "running", "over"}]

Init == phase = [c \in Clients |-> "asking"]

(* The operation of c starts: no other operation is running. *)
Enter(c) ==
    /\ phase[c] = "asking"
    /\ \A d \in Clients : phase[d] # "running"
    /\ phase' = [phase EXCEPT ![c] = "running"]

(* The operation of one call ends or its call is refused; the calls of an  *)
(* instance that crashes are over together.                                *)
Finish(S) ==
    /\ \A c \in S : phase[c] # "over"
    /\ phase' = [c \in Clients |-> IF c \in S THEN "over" ELSE phase[c]]

Next == \/ \E c \in Clients : Enter(c)
        \/ \E S \in SUBSET Clients : Finish(S)

Spec == Init /\ [][Next]_phase
=============================================================================
