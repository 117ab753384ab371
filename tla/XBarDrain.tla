------------------------------- MODULE XBarDrain -------------------------------
(***************************************************************************)
(* The crossbar, its requestors and memories under the drain manager.  A   *)
(* step of the system takes with it the signals of the objects that have   *)
(* become ready by it; between a drain and the resume nothing is simulated.*)
(***************************************************************************)
EXTENDS NoncoherentXBar

\* What is asked to drain: the layers, the queues of the CPU-side ports, and the
\* requestors and memories themselves.
Drainable == ({"reqLayer", "memory"} \X Memory) \cup ({"respLayer", "queue", "requestor"} \X Requestor)

VARIABLES _state, _count, drainState

INSTANCE DrainManager

allVars == <<vars, drainVars>>

\* releaseLayer signals when the layer has become idle and nobody waits.
LayerReady(l, next) == l.state = "BUSY" /\ next.state = "IDLE" /\ Waiting(next) = {}

\* Mutant: a queue never signals.
QueueReady_never(q, next) == FALSE

\* schedSendEvent(MaxTick), and dequeue of the CPU port, signal when the last
\* packet has left.
QueueReady(q, next) == q # <<>> /\ next = <<>>

\* The objects that call signalDrainDone in this step.
Ready ==
    {<<"reqLayer", m>> : m \in {m \in Memory : LayerReady(reqLayers[m], reqLayers'[m])}}
    \cup {<<"respLayer", c>> : c \in {c \in Requestor : LayerReady(respLayers[c], respLayers'[c])}}
    \cup {<<"queue", c>> : c \in {c \in Requestor :
              QueueReady(respQueue[c].transmitList, respQueue'[c].transmitList)}}
    \cup {<<"memory", m>> : m \in {m \in Refusing : QueueReady(mem[m].queue, mem'[m].queue)}}
    \cup {<<"requestor", c>> : c \in {c \in Requestor : outstanding[c] # {} /\ outstanding'[c] = {}}}

\* The objects whose drain() asks for more simulation.  A layer looks at its
\* state only, and a scratchpad at the queue of its CPU port only.
NeedsSimulation ==
    {<<"reqLayer", m>> : m \in {m \in Memory : reqLayers[m].state # "IDLE"}}
    \cup {<<"respLayer", c>> : c \in {c \in Requestor : respLayers[c].state # "IDLE"}}
    \cup {<<"queue", c>> : c \in {c \in Requestor : respQueue[c].transmitList # <<>>}}
    \cup {<<"memory", m>> : m \in {m \in Refusing : mem[m].queue # <<>>}}
    \cup {<<"requestor", c>> : c \in {c \in Requestor : outstanding[c] # {}}}

\* The simulation loop runs, and what becomes ready signals.
Simulate(A) == _state # "Drained" /\ A /\ \E S \in {Ready} : signalDrainDone(S)

\* A requestor that drains goes on with what it has begun, as a DMA port does with its
\* transmit list, until nothing is outstanding.  That it issues nothing once it has
\* signalled is what Drained means; the crossbar relies on it.
DrainIssue(c, m, payload) ==
    drainState[<<"requestor", c>>] # "Drained" /\ Simulate(Issue(c, m, payload))

MemEvent(m) == Simulate(releaseReqLayer(m) \/ memRelease(m) \/ memDequeue(m))
RespLayerEvent(c) == Simulate(releaseRespLayer(c))
RespEvent(c, sent) == Simulate(SendEvent(c, sent) \/ recvRespRetry(c, sent))

TryDrain == tryDrain(NeedsSimulation) /\ UNCHANGED vars
Resume == resume /\ UNCHANGED vars

\* A checkpoint is restored before the first event.
Restore ==
    /\ NeedsSimulation = {} /\ squashed = {}
    /\ \A m \in Memory : mem[m] = IdleMem
    /\ preCheckpointRestore
    /\ UNCHANGED vars

\* The simulation loop runs an event that is due or lets a cycle pass.
Event ==
    \/ \E m \in Memory : MemEvent(m)
    \/ \E c \in Requestor : RespLayerEvent(c)
    \/ \E c \in Requestor, sent \in BOOLEAN : RespEvent(c, sent)
    \/ Simulate(Elapse)

DrainNext ==
    \/ \E c \in Requestor, m \in Memory, payload \in Payloads : DrainIssue(c, m, payload)
    \/ \E m \in Memory : MemEvent(m)
    \/ \E c \in Requestor : RespLayerEvent(c)
    \/ \E c \in Requestor, sent \in BOOLEAN : RespEvent(c, sent)
    \/ Simulate(Elapse)
    \/ TryDrain \/ Resume \/ Restore

SystemInit == Init /\ DrainInit

DrainSpec == SystemInit /\ [][DrainNext]_allVars

\* The simulation loop does not stop; a requestor does not refuse a response for ever,
\* unless it waits for a request of its own to be accepted; m5.drain calls tryDrain until
\* it succeeds, and the script resumes.
DrainFairness ==
    /\ WF_allVars(Event)
    /\ \A c \in Requestor : WF_allVars(held[c] = NoPacket /\ RespEvent(c, TRUE))
    /\ WF_allVars(Resume \/ (_state = "Draining" /\ TryDrain))

FairDrainSpec == DrainSpec /\ DrainFairness

-----------------------------------------------------------------------------
\* When the manager says Drained nothing is on its way anywhere, although a layer
\* does not look at its waiting ports and a scratchpad not at its DMA port: what
\* they hold belongs to a request whose requestor is not drained.
DrainedMeansQuiet ==
    _state = "Drained" =>
        /\ \A c \in Requestor : /\ outstanding[c] = {} /\ held[c] = NoPacket
                                /\ respLayers[c] = IdleLayer /\ respQueue[c] = EmptyQueue
        /\ \A m \in Memory : reqLayers[m] = IdleLayer /\ mem[m].queue = <<>>
        /\ DOMAIN routeTo = {}

\* A drain comes to an end, unless a requestor goes on issuing for ever: every object
\* that answered Draining signals.
DrainEnds ==
    \/ []<>(_state # "Draining")
    \/ []<><<\E c \in Requestor : ~(outstanding'[c] \subseteq outstanding[c])>>_allVars
=============================================================================
