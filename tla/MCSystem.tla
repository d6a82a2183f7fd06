------------------------------ MODULE MCSystem ------------------------------
(* Instances of System for TLC.                                            *)
EXTENDS System

(* Every model declares 2 units, and never another amount.                 *)
OneMemory == [m \in Models |-> {2}]

NoSelector == [m \in Models |-> {{}}]
============================================================================
