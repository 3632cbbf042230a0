----------------------------- MODULE MCBackOffice -----------------------------
(* Instances of BackOffice for TLC.  A behaviour follows one part, so the  *)
(* parts share the names of their rows and of the people at work.          *)
EXTENDS BackOffice, TLC

CONSTANTS x, y1, y2, u1, z1, z2, k1, k2

ThreeRows == {y1, y2, x}
TwoRows   == {y1, y2}
OnePerson == {u1}
TwoPlaces == {z1, z2}
AgentAndManager == {x, u1}   \* u1 is the manager

RentOnly   == {[kind |-> "rent", due |-> 0]}
OneToThree == 1 .. 3

TwoContracts == {k1, k2}
Ends         == (k1 :> 9) @@ (k2 :> 2)

(* Rows of a kind are interchangeable; where two kinds bear the same names *)
(* (reservations and payments, properties and leads) they are permuted     *)
(* together.  Two of three rows are permuted: more permutations take       *)
(* longer than they save.  Bills, which are numbered, agents, of whom one  *)
(* is a manager, and maintenance contracts, which end on different days,   *)
(* are not interchangeable.                                                *)
Symmetry == Permutations(TwoRows) \cup Permutations(TwoPlaces)
=============================================================================
