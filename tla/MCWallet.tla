------------------------------- MODULE MCWallet -------------------------------
(* A small instance of Wallet for TLC: two uses and a charge. *)
EXTENDS Wallet

CONSTANTS u1, u2, c1

MCUses    == {u1, u2}
MCCharges == {c1}
MCAmount  == [o \in MCUses \cup MCCharges |-> IF o = c1 THEN 2 ELSE 1]
=============================================================================
