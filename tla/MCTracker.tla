----------------------------- MODULE MCTracker -----------------------------
(* Instances of Tracker for TLC: three models, of which two share a pool   *)
(* and one has no selector, and memories of one to three units.            *)
EXTENDS Tracker

AnyMemory == [m \in Models |-> 1..MaxMemory]

(* One model per shape of selector: none, one label.                       *)
MixedSelectors ==
    [m \in Models |-> CASE m = "m1" -> {{"pool=a"}}
                        [] m = "m2" -> {{"pool=a"}}
                        [] OTHER -> {{}}]
============================================================================
