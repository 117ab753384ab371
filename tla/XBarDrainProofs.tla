---------------------------- MODULE XBarDrainProofs ----------------------------
(***************************************************************************)
(* The drain manager's count is exact in a system of any number of         *)
(* requestors and memories around a crossbar, whatever the traffic.        *)
(***************************************************************************)
EXTENDS XBarDrain, FiniteSetTheorems, TLAPS

\* The inductive invariant: the count, and the types of the manager's state.
DrainInv ==
    /\ _state \in {"Running", "Draining", "Drained"}
    /\ drainState \in [Drainable -> {"Running", "Draining", "Drained"}]
    /\ DrainCountExact

\* The objects that still owe a signal.
Owing == {o \in Drainable : drainState[o] = "Draining"}

\* There are finitely many objects to drain.
LEMMA FiniteDrainable == IsFiniteSet(Drainable)
<1>1. IsFiniteSet({"reqLayer", "memory"}) /\ IsFiniteSet({"respLayer", "queue", "requestor"})
  <2>1. IsFiniteSet({}) BY FS_EmptySet
  <2>2. IsFiniteSet({"reqLayer"}) /\ IsFiniteSet({"respLayer"}) BY FS_Singleton
  <2>3. IsFiniteSet({"reqLayer"} \cup {"memory"}) BY <2>2, FS_AddElement
  <2>4. IsFiniteSet({"respLayer"} \cup {"queue"}) BY <2>2, FS_AddElement
  <2>5. IsFiniteSet(({"respLayer"} \cup {"queue"}) \cup {"requestor"}) BY <2>4, FS_AddElement
  <2>6. /\ {"reqLayer", "memory"} = {"reqLayer"} \cup {"memory"}
        /\ {"respLayer", "queue", "requestor"} = ({"respLayer"} \cup {"queue"}) \cup {"requestor"}
    OBVIOUS
  <2>7. QED BY <2>3, <2>5, <2>6
<1>2. /\ IsFiniteSet({"reqLayer", "memory"} \X Memory)
      /\ IsFiniteSet({"respLayer", "queue", "requestor"} \X Requestor)
  BY <1>1, FS_Product, XBarAssumption
<1>3. QED BY <1>2, FS_Union DEF Drainable

\* Signals of any objects keep the count exact while the system is simulated:
\* those of objects that do not owe one are ignored.
LEMMA SignalKeeps ==
    ASSUME DrainInv, _state # "Drained", NEW S \in SUBSET Drainable, signalDrainDone(S)
    PROVE  DrainInv'
<1> DEFINE done == {o \in S : drainState[o] = "Draining"}
<1>1. /\ drainState' = [o \in Drainable |-> IF o \in done THEN "Drained" ELSE drainState[o]]
      /\ _count' = _count - Cardinality(done)
      /\ _state' = _state
  BY DEF signalDrainDone
<1>2. done \subseteq Owing /\ IsFiniteSet(Owing)
  BY FiniteDrainable, FS_Subset DEF Owing
<1>3. Owing' = Owing \ done
  BY <1>1 DEF Owing, DrainInv
<1>4. Cardinality(Owing') = Cardinality(Owing) - Cardinality(done)
  <2> HIDE DEF done
  <2>1. Owing \cap done = done
    BY <1>2
  <2>2. Cardinality(Owing \ done) = Cardinality(Owing) - Cardinality(Owing \cap done)
    BY <1>2, FS_Difference
  <2>3. QED BY <1>3, <2>1, <2>2, Zenon
<1>5. _count' = Cardinality(Owing')
  BY <1>1, <1>4 DEF DrainInv, DrainCountExact, Owing
<1>6. _state = "Running" => drainState' = drainState
  <2>1. SUFFICES ASSUME _state = "Running" PROVE drainState' = drainState
    OBVIOUS
  <2>2. \A o \in Drainable : drainState[o] = "Running"
    BY <2>1 DEF DrainInv, DrainCountExact
  <2>3. done = {}
    BY <2>2
  <2>4. drainState' = [o \in Drainable |-> drainState[o]]
    BY <1>1, <2>3
  <2>5. QED BY <2>4 DEF DrainInv
<1>7. drainState' \in [Drainable -> {"Running", "Draining", "Drained"}]
  BY <1>1 DEF DrainInv
<1>8. _state' # "Draining" => \A o \in Drainable : drainState'[o] = _state'
  BY <1>1, <1>6 DEF DrainInv, DrainCountExact
<1>9. QED BY <1>1, <1>5, <1>7, <1>8 DEF DrainInv, DrainCountExact, Owing

\* A call of tryDrain that asks all objects.
LEMMA TryKeeps ==
    ASSUME DrainInv, NEW S \in SUBSET Drainable, tryDrain(S)
    PROVE  DrainInv'
<1>1. /\ drainState' = [o \in Drainable |-> IF o \in S THEN "Draining" ELSE "Drained"]
      /\ _count' = Cardinality(S)
      /\ _state' = IF S = {} THEN "Drained" ELSE "Draining"
  BY DEF tryDrain
<1>2. {o \in Drainable : drainState'[o] = "Draining"} = S
  BY <1>1
<1>3. QED BY <1>1, <1>2 DEF DrainInv, DrainCountExact

\* All objects change together, and none owes a signal before or after.
LEMMA TogetherKeeps ==
    ASSUME DrainInv, _state # "Draining", NEW s \in {"Running", "Drained"},
           _state' = s, drainState' = [o \in Drainable |-> s], _count' = _count
    PROVE  DrainInv'
<1>1. {o \in Drainable : drainState[o] = "Draining"} = {}
  BY DEF DrainInv, DrainCountExact
<1>2. {o \in Drainable : drainState'[o] = "Draining"} = {}
  OBVIOUS
<1>3. _count' = Cardinality({o \in Drainable : drainState'[o] = "Draining"})
  BY <1>1, <1>2 DEF DrainInv, DrainCountExact
<1>4. QED BY <1>3 DEF DrainInv, DrainCountExact

\* Every step of the system keeps the invariant.
LEMMA DrainStep ==
    ASSUME DrainInv, [DrainNext]_allVars
    PROVE  DrainInv'
<1>1. Ready \subseteq Drainable /\ NeedsSimulation \subseteq Drainable
  BY XBarAssumption DEF Ready, NeedsSimulation, Drainable
<1>2. CASE _state # "Drained" /\ signalDrainDone(Ready)
  BY <1>1, <1>2, SignalKeeps
<1>3. CASE TryDrain
  BY <1>1, <1>3, TryKeeps DEF TryDrain
<1>4. CASE Resume
  BY <1>4, TogetherKeeps DEF Resume, resume
<1>5. CASE Restore
  BY <1>5, TogetherKeeps DEF Restore, preCheckpointRestore
<1>6. CASE UNCHANGED allVars
  BY <1>6 DEF allVars, drainVars, DrainInv, DrainCountExact
<1>7. QED
  BY <1>2, <1>3, <1>4, <1>5, <1>6
  DEF DrainNext, DrainIssue, MemEvent, RespLayerEvent, RespEvent, Simulate

\* DrainManager counts exactly the objects that still owe signalDrainDone, for
\* any number of ports and any traffic: the count cannot go below zero, and a
\* drain cycle ends when the last of them has signalled and not before.
THEOREM DrainCountNeverWrong == DrainSpec => []DrainCountExact
<1>1. SystemInit => DrainInv
  <2>1. SUFFICES ASSUME DrainInit PROVE DrainInv
    BY DEF SystemInit
  <2>2. {o \in Drainable : drainState[o] = "Draining"} = {}
    BY <2>1 DEF DrainInit
  <2>3. QED BY <2>1, <2>2, FS_EmptySet DEF DrainInit, DrainInv, DrainCountExact
<1>2. DrainInv /\ [DrainNext]_allVars => DrainInv'
  BY DrainStep
<1>3. DrainInv => DrainCountExact
  BY DEF DrainInv
<1>4. QED BY <1>1, <1>2, <1>3, PTL DEF DrainSpec
=============================================================================
