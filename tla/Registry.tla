------------------------------ MODULE Registry ------------------------------
(***************************************************************************)
(* registry.DeploymentRegistry (internal/registry/registry.go): what the   *)
(* proxy and the controller remember of the pod of each model.  Every      *)
(* method holds r.mu for its whole body, so every method is one atomic     *)
(* action.                                                                 *)
(*                                                                         *)
(* LastRequestTime is only ever compared, so instead of times the model    *)
(* keeps the order they put the entries in.                                *)
(***************************************************************************)
EXTENDS ModelKeys, Sequences

CONSTANT NoEntry   \* no entry in r.entries

DeploymentState == {"Nonexistent", "Creating", "Ready", "Deleting"}

DeploymentEntry == [State : DeploymentState, ActiveRequests : Nat]

ASSUME NoEntryFresh == NoEntry \notin DeploymentEntry

VARIABLES
    entries,   \* r.entries
    older      \* <<m, n>>: the LastRequestTime of m is before that of n

registryVars == <<entries, older>>

RegistryTypeOK ==
    /\ entries \in [Models -> DeploymentEntry \cup {NoEntry}]
    /\ older \in SUBSET (Models \X Models)

RegistryInit ==
    /\ entries = [m \in Models |-> NoEntry]
    /\ older = {}

(* The order without m, and with m as the newest of the entries.           *)
Without(m) == {p \in older : m \notin {p[1], p[2]}}

WithNewest(m) ==
    Without(m) \cup {<<n, m>> : n \in {l \in Models \ {m} : entries[l] # NoEntry}}

----------------------------------------------------------------------------
(* Get, followed by a read of State without the lock: the reader sees the  *)
(* state the entry had at some moment since the Get.  An absent entry      *)
(* reads as Nonexistent.                                                   *)
StateOf(m) == IF entries[m] = NoEntry THEN "Nonexistent" ELSE entries[m].State

(* Get, followed by a read of ActiveRequests.                              *)
HasActiveRequests(m) == entries[m] # NoEntry /\ entries[m].ActiveRequests > 0

NewEntry(state, active) == [State |-> state, ActiveRequests |-> active]

SetState(m, state) ==
    IF entries[m] = NoEntry
    THEN /\ entries' = [entries EXCEPT ![m] = NewEntry(state, 0)]
         /\ older' = WithNewest(m)
    ELSE /\ entries' = [entries EXCEPT ![m].State = state]
         /\ UNCHANGED older

(* RecordRequest: an entry it has to create starts in Creating.            *)
RecordRequest(m) ==
    /\ entries' = [entries EXCEPT ![m] =
            IF entries[m] = NoEntry
            THEN NewEntry("Creating", 1)
            ELSE NewEntry(entries[m].State, entries[m].ActiveRequests + 1)]
    /\ older' = WithNewest(m)

(* Mutant: the count is decremented without a look at its value.           *)
FinishRequestUnguarded(m) ==
    /\ entries' = IF entries[m] = NoEntry
                  THEN entries
                  ELSE [entries EXCEPT ![m] =
                            NewEntry(entries[m].State, entries[m].ActiveRequests - 1)]
    /\ UNCHANGED older

(* FinishRequest: a no-op when the entry is gone or its count is zero.     *)
FinishRequest(m) ==
    /\ entries' = IF HasActiveRequests(m)
                  THEN [entries EXCEPT ![m] =
                            NewEntry(entries[m].State, entries[m].ActiveRequests - 1)]
                  ELSE entries
    /\ UNCHANGED older

DeleteEntry(m) ==
    /\ entries' = [entries EXCEPT ![m] = NoEntry]
    /\ older' = Without(m)

(* An entry GetIdleEntriesSorted may return, and the sequences it returns: *)
(* oldest first, and with an entry every idle one that is older, wherever  *)
(* the clock puts the cutoff.                                              *)
IsIdle(m) == entries[m] # NoEntry /\ ~HasActiveRequests(m)

GetIdleEntriesSorted ==
    {s \in UNION {[1..n -> {m \in Models : IsIdle(m)}] : n \in 0..Cardinality(Models)} :
        /\ \A i, j \in DOMAIN s : i < j => <<s[i], s[j]>> \in older
        /\ \A i \in DOMAIN s : \A m \in Models :
              IsIdle(m) /\ <<m, s[i]>> \in older => \E j \in DOMAIN s : s[j] = m}
============================================================================
