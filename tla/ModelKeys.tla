----------------------------- MODULE ModelKeys -----------------------------
(* The "namespace/name" keys under which the tracker, the registry and the *)
(* cluster keep their state of an InferenceModel (modelKey, entryKey).     *)
EXTENDS Integers, FiniteSets

CONSTANT Models

ASSUME ModelsFinite == IsFiniteSet(Models)
============================================================================
