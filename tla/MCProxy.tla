------------------------------ MODULE MCProxy ------------------------------
(* Instances of Proxy for TLC: two or three models, of which two do not    *)
(* fit under the limit of 3 units together.  Selectors are empty, as       *)
(* cmd/main.go configures no pool but "default".                           *)
EXTENDS Proxy

(* Every model declares 2 units, and never another amount.                 *)
OneMemory == [m \in Models |-> {2}]

(* One model is smaller than the others.                                   *)
TwoSizes == [m \in Models |-> IF m = "m1" THEN {1} ELSE {2}]

NoSelector == [m \in Models |-> {{}}]
============================================================================
