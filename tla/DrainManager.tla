------------------------------ MODULE DrainManager ------------------------------
(***************************************************************************)
(* The drain protocol (sim/drain.cc): the manager asks every object to     *)
(* drain, counts those that need more simulation, and asks again when the  *)
(* last of them has signalled, until all are drained at the first call.    *)
(***************************************************************************)
EXTENDS Naturals, FiniteSets

CONSTANT Drainable

VARIABLES _state,       \* DrainManager::_state
          _count,       \* DrainManager::_count
          drainState    \* Drainable::_drainState of each object

drainVars == <<_state, _count, drainState>>

\* Mutant: the manager believes the objects that have drained before.
tryDrain_once(needsSimulation) ==
    LET busy == {o \in needsSimulation : drainState[o] = "Running"}
    IN  /\ _state # "Drained" /\ _count = 0
        /\ drainState' = [o \in Drainable |-> IF o \in busy THEN "Draining" ELSE "Drained"]
        /\ _count' = Cardinality(busy)
        /\ _state' = IF busy = {} THEN "Drained" ELSE "Draining"

\* Mutant: only the first call can succeed.
tryDrain_first(needsSimulation) ==
    /\ _state # "Drained" /\ _count = 0
    /\ drainState' = [o \in Drainable |->
            IF o \in needsSimulation THEN "Draining" ELSE "Drained"]
    /\ _count' = Cardinality(needsSimulation)
    /\ _state' = IF needsSimulation = {} /\ _state = "Running" THEN "Drained" ELSE "Draining"

\* tryDrain, and the loop of m5.drain around it: needsSimulation has the objects
\* whose drain() answers Draining.
tryDrain(needsSimulation) ==
    /\ _state # "Drained" /\ _count = 0
    /\ drainState' = [o \in Drainable |->
            IF o \in needsSimulation THEN "Draining" ELSE "Drained"]
    /\ _count' = Cardinality(needsSimulation)
    /\ _state' = IF needsSimulation = {} THEN "Drained" ELSE "Draining"

\* Mutant: every call counts.
signalDrainDone_always(S) ==
    /\ drainState' = [o \in Drainable |->
            IF o \in S /\ drainState[o] = "Draining" THEN "Drained" ELSE drainState[o]]
    /\ _count' = IF _count > 0 THEN _count - Cardinality(S) ELSE _count
    /\ UNCHANGED _state

\* The objects of S call signalDrainDone; it counts for those that are draining.
signalDrainDone(S) ==
    LET done == {o \in S : drainState[o] = "Draining"}
    IN  /\ drainState' = [o \in Drainable |-> IF o \in done THEN "Drained" ELSE drainState[o]]
        /\ _count' = _count - Cardinality(done)
        /\ UNCHANGED _state

\* resume of a drained system; the Resuming state is not seen outside.
resume ==
    /\ _state = "Drained"
    /\ _state' = "Running"
    /\ drainState' = [o \in Drainable |-> "Running"]
    /\ UNCHANGED _count

\* A checkpoint is restored into objects that have not run yet.
preCheckpointRestore ==
    /\ _state = "Running"
    /\ _state' = "Drained"
    /\ drainState' = [o \in Drainable |-> "Drained"]
    /\ UNCHANGED _count

DrainInit ==
    /\ _state = "Running"
    /\ _count = 0
    /\ drainState = [o \in Drainable |-> "Running"]

\* The count is the number of objects that still owe a signal: it never goes
\* below zero (the assertion in signalDrainDone), a drain cycle starts and a
\* resume happens at zero, and no object is left draining when it reaches zero.
DrainCountExact ==
    /\ _count = Cardinality({o \in Drainable : drainState[o] = "Draining"})
    /\ _state # "Draining" => \A o \in Drainable : drainState[o] = _state
=============================================================================
