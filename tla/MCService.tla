------------------------------- MODULE MCService -------------------------------
(* A small instance of Service for TLC. *)
EXTENDS Service

CONSTANTS c1, c2, c3, c4, p1, p2, main, next, other

MCClients  == {c1, c2, c3, c4}
MCConcerts == {main, next, other}
MCCalendar == <<main, next>>

(* Three clients of a concert, of whom one has a user and polls; c4 asks    *)
(* for a concert that does not exist.                                       *)
MCConcertOf  == [c \in MCClients |-> IF c = c4 THEN other ELSE main]
MCListed     == {main, next}
MCOpening    == [k \in MCConcerts |-> 0]
MCRegistered == {c1, c4}
MCAttentive  == {c1}

(* The two polls of c1 may overlap. *)
MCPolls  == {p1, p2}
MCPollOf == [p \in MCPolls |-> c1]
=============================================================================
