---------------------------- MODULE NoncoherentXBar ----------------------------
(***************************************************************************)
(* A non-coherent crossbar (mem/noncoherent_xbar.cc) between requestors    *)
(* (core ports, IDMA) and the ports of the scratchpads.  A call that goes  *)
(* through the crossbar and comes back in zero time, a retry and the send  *)
(* it causes included, is one action, as it is one event in the program.   *)
(***************************************************************************)
EXTENDS XBarLayer, PacketQueue

CONSTANTS Requestor,        \* CPU-side ports
          Memory,           \* memory-side ports
          Refusing,         \* those that are CPU ports of a scratchpad
          Squashing,        \* requestors that may drop a refused packet
          MaxOutstanding,   \* of each requestor: requests not answered yet
          Payloads,         \* cycles a packet occupies a layer
          responseLatency,  \* cycles
          MemLatency,       \* latency of a scratchpad
          Bandwidth         \* ticks a refusing memory is busy per request

NoPacket == [req |-> <<NoPort, 0>>, dst |-> NoPort, payload |-> 0]

ASSUME XBarAssumption ==
    /\ IsFiniteSet(Requestor) /\ IsFiniteSet(Memory)
    /\ NoPort \notin Requestor \cup Memory
    /\ Refusing \subseteq Memory
    /\ Squashing \subseteq Requestor
    /\ MaxOutstanding \in [Requestor -> Nat]
    /\ Payloads \subseteq Nat \ {0}
    /\ responseLatency \in Nat /\ MemLatency \in Nat
    /\ Bandwidth \in Nat \ {0}

VARIABLES reqLayers, respLayers,   \* one per memory, one per requestor
          routeTo,                 \* request -> CPU-side port
          respQueue,               \* packet queue of each CPU-side port
          held,                    \* the refused packet of each requestor
          outstanding,             \* numbers of its requests not answered yet
          squashed,                \* requestors that dropped a packet this cycle
          mem                      \* ports of the memories

xbarVars == <<reqLayers, respLayers, routeTo, respQueue>>
peerVars == <<held, outstanding, squashed, mem>>

vars == <<xbarVars, peerVars>>

-----------------------------------------------------------------------------
(***************************************************************************)
(* The memory's side: a port of ScratchpadMemory with a fixed latency.     *)
(***************************************************************************)
IdleMem == [queue |-> <<>>, retryResp |-> FALSE, dequeueEvent |-> NotScheduled,
            isBusy |-> FALSE, retryReq |-> FALSE, releaseEvent |-> NotScheduled]

memRefuses(m, s) == m \in Refusing /\ s.isBusy

memRefused(s) == [s EXCEPT !.retryReq = TRUE]

memAccepted(m, s, pkt) ==
    [s EXCEPT !.queue = Append(@, [pkt |-> pkt, delay |-> MemLatency]),
              !.dequeueEvent = IF ~s.retryResp /\ @ = NotScheduled THEN MemLatency ELSE @,
              !.isBusy = m \in Refusing,
              !.releaseEvent = IF m \in Refusing THEN Bandwidth ELSE @]

\* dequeue: the CPU port sends the next response when it is due, the DMA port
\* not in the same tick.
memSent(m, s) ==
    LET rest == Tail(s.queue)
    IN  [s EXCEPT !.queue = rest, !.retryResp = FALSE,
                  !.dequeueEvent = IF rest = <<>> THEN NotScheduled
                                   ELSE Max({rest[1].delay, IF m \in Refusing THEN 0 ELSE 1})]

memBlocked(s) == [s EXCEPT !.retryResp = TRUE, !.dequeueEvent = NotScheduled]

-----------------------------------------------------------------------------
(***************************************************************************)
(* Requests.                                                               *)
(***************************************************************************)

\* recvTimingReq of a packet, given the layer and the memory's port as they are
\* when the call is made.  A refused packet stays with the requestor.
recvTimingReq(pkt, l, s) ==
    LET m == pkt.dst
        c == pkt.req[1]
        accepted == isFree(l) /\ ~memRefuses(m, s)
    IN  /\ outstanding' = [outstanding EXCEPT ![c] = @ \cup {pkt.req[2]}]
        /\ reqLayers' = [reqLayers EXCEPT ![m] =
                IF ~isFree(l) THEN refuse(l, c)
                ELSE IF memRefuses(m, s) THEN failedTiming(l, c, 1)
                ELSE succeededTiming(l, pkt.payload)]
        /\ mem' = [mem EXCEPT ![m] =
                IF ~isFree(l) THEN s
                ELSE IF memRefuses(m, s) THEN memRefused(s) ELSE memAccepted(m, s, pkt)]
        /\ held' = [held EXCEPT ![c] = IF accepted THEN NoPacket ELSE pkt]
        /\ routeTo' = IF accepted
                      THEN [r \in DOMAIN routeTo \cup {pkt.req} |->
                               IF r = pkt.req THEN c ELSE routeTo[r]]
                      ELSE routeTo
        /\ UNCHANGED <<respLayers, respQueue>>

\* sendRetry to a requestor that has dropped its packet; it sends the next one in
\* a later cycle.
Squash(m, l, s, c) ==
    /\ reqLayers' = [reqLayers EXCEPT ![m] = unanswered(l)]
    /\ held' = [held EXCEPT ![c] = NoPacket]
    /\ squashed' = squashed \cup {c}
    /\ outstanding' = [outstanding EXCEPT ![c] = @ \ {held[c].req[2]}]
    /\ mem' = [mem EXCEPT ![m] = s]
    /\ UNCHANGED <<respLayers, routeTo, respQueue>>

\* retryWaiting of the layer of m, which is l: the port at the front sends its
\* packet again before sendRetry returns, or does not.
retryWaiting(m, l, s) ==
    LET c == retryingPort(l)
    IN  \/ recvTimingReq(held[c], retrying(l), s) /\ UNCHANGED squashed
        \/ c \in Squashing /\ Squash(m, retrying(l), s, c)

\* A requestor that is not blocked sends a new request.
Issue(c, m, payload) ==
    LET free == (1 .. MaxOutstanding[c]) \ outstanding[c]
    IN  /\ held[c] = NoPacket
        /\ c \notin squashed
        /\ free # {}
        /\ recvTimingReq([req |-> <<c, Min(free)>>, dst |-> m, payload |-> payload],
                         reqLayers[m], mem[m])
        /\ UNCHANGED squashed

\* releaseLayer of a request layer.
releaseReqLayer(m) ==
    LET l == released(reqLayers[m])
    IN  /\ reqLayers[m].releaseEvent = 0
        /\ IF mustRetry(l)
           THEN retryWaiting(m, l, mem[m])
           ELSE /\ reqLayers' = [reqLayers EXCEPT ![m] = l]
                /\ UNCHANGED <<respLayers, routeTo, respQueue, peerVars>>

\* A refusing memory is free again; the retry it owes goes to recvReqRetry.
memRelease(m) ==
    LET s == [mem[m] EXCEPT !.isBusy = FALSE, !.retryReq = FALSE, !.releaseEvent = NotScheduled]
        l == peerRetried(reqLayers[m])
    IN  /\ mem[m].releaseEvent = 0
        /\ IF mem[m].retryReq /\ l.state = "IDLE"
           THEN retryWaiting(m, l, s)
           ELSE /\ reqLayers' = IF mem[m].retryReq THEN [reqLayers EXCEPT ![m] = l] ELSE reqLayers
                /\ mem' = [mem EXCEPT ![m] = s]
                /\ UNCHANGED <<respLayers, routeTo, respQueue, held, outstanding, squashed>>

-----------------------------------------------------------------------------
(***************************************************************************)
(* Responses.                                                              *)
(***************************************************************************)

destination(pkt) == routeTo[pkt.req]

\* Mutant: the route is kept.
eraseRoute_keep(pkt) == routeTo

eraseRoute(pkt) == [r \in DOMAIN routeTo \ {pkt.req} |-> routeTo[r]]

\* The memory m tries to send its first response; l is the layer of the
\* requestor it goes to.
recvTimingResp(m, l) ==
    LET pkt == mem[m].queue[1].pkt
        c == destination(pkt)
    IN  /\ IF isFree(l)
           THEN /\ respQueue' = [respQueue EXCEPT ![c] = schedSendTiming(@, pkt, responseLatency)]
                /\ routeTo' = eraseRoute(pkt)
                /\ respLayers' = [respLayers EXCEPT ![c] = succeededTiming(l, pkt.payload)]
                /\ mem' = [mem EXCEPT ![m] = memSent(m, @)]
           ELSE /\ respLayers' = [respLayers EXCEPT ![c] = refuse(l, m)]
                /\ mem' = [mem EXCEPT ![m] = memBlocked(@)]
                /\ UNCHANGED <<respQueue, routeTo>>
        /\ UNCHANGED <<reqLayers, held, outstanding, squashed>>

memDequeue(m) ==
    /\ mem[m].dequeueEvent = 0
    /\ recvTimingResp(m, respLayers[destination(mem[m].queue[1].pkt)])

\* releaseLayer of a response layer; a scratchpad always answers the retry.
releaseRespLayer(c) ==
    LET l == released(respLayers[c])
    IN  /\ respLayers[c].releaseEvent = 0
        /\ IF mustRetry(l) THEN recvTimingResp(retryingPort(l), retrying(l))
           ELSE /\ respLayers' = [respLayers EXCEPT ![c] = l]
                /\ UNCHANGED <<reqLayers, routeTo, respQueue, peerVars>>

\* The queue of a CPU-side port gives its first packet to the requestor, which
\* takes it or refuses it and retries later.
Deliver(c, sent, q) ==
    LET req == respQueue[c].transmitList[1].pkt.req
    IN  /\ respQueue' = [respQueue EXCEPT ![c] = q]
        /\ outstanding' = IF sent THEN [outstanding EXCEPT ![c] = @ \ {req[2]}] ELSE outstanding
        /\ UNCHANGED <<reqLayers, respLayers, routeTo, held, squashed, mem>>

SendEvent(c, sent) ==
    /\ respQueue[c].sendEvent = 0
    /\ Deliver(c, sent, processSendEvent(respQueue[c], sent))

recvRespRetry(c, sent) ==
    /\ respQueue[c].waitingOnRetry
    /\ Deliver(c, sent, retry(respQueue[c], sent))

-----------------------------------------------------------------------------
Earlier(t) == IF t > 0 THEN t - 1 ELSE t
Older(q) == [i \in DOMAIN q |-> [q[i] EXCEPT !.delay = Earlier(@)]]

\* A cycle passes; what is due runs first.
Elapse ==
    /\ \A m \in Memory : 0 \notin {reqLayers[m].releaseEvent, mem[m].releaseEvent,
                                   mem[m].dequeueEvent}
    /\ \A c \in Requestor : 0 \notin {respLayers[c].releaseEvent, respQueue[c].sendEvent}
    /\ reqLayers' = [m \in Memory |-> [reqLayers[m] EXCEPT !.releaseEvent = Earlier(@)]]
    /\ respLayers' = [c \in Requestor |-> [respLayers[c] EXCEPT !.releaseEvent = Earlier(@)]]
    /\ respQueue' = [c \in Requestor |->
            [respQueue[c] EXCEPT !.sendEvent = Earlier(@), !.transmitList = Older(@)]]
    /\ mem' = [m \in Memory |->
            [mem[m] EXCEPT !.releaseEvent = Earlier(@), !.dequeueEvent = Earlier(@),
                           !.queue = Older(@)]]
    /\ squashed' = {}
    /\ UNCHANGED <<routeTo, held, outstanding>>

Init ==
    /\ reqLayers = [m \in Memory |-> IdleLayer]
    /\ respLayers = [c \in Requestor |-> IdleLayer]
    /\ routeTo = <<>>
    /\ respQueue = [c \in Requestor |-> EmptyQueue]
    /\ held = [c \in Requestor |-> NoPacket]
    /\ outstanding = [c \in Requestor |-> {}]
    /\ squashed = {}
    /\ mem = [m \in Memory |-> IdleMem]

Next ==
    \/ \E c \in Requestor, m \in Memory, payload \in Payloads : Issue(c, m, payload)
    \/ \E m \in Memory : releaseReqLayer(m) \/ memRelease(m) \/ memDequeue(m)
    \/ \E c \in Requestor : releaseRespLayer(c)
    \/ \E c \in Requestor, sent \in BOOLEAN : SendEvent(c, sent) \/ recvRespRetry(c, sent)
    \/ Elapse

Spec == Init /\ [][Next]_vars

-----------------------------------------------------------------------------
\* A port that waits for a layer is woken: a busy layer has its release event, a
\* layer that is not busy has waiting ports only while its peer owes a retry, and
\* then the peer knows.  The retry state ends within the event that began it.  A
\* queue of responses has one wakeup, which is not early.
LayerWakeup ==
    LET Wakes(l) == /\ l.state \in {"IDLE", "BUSY"}
                    /\ (l.state = "BUSY") = (l.releaseEvent # NotScheduled)
                    /\ l.waitingForLayer # <<>> => l.state = "BUSY" \/ l.waitingForPeer # NoPort
    IN  /\ \A m \in Memory : /\ Wakes(reqLayers[m])
                             /\ (reqLayers[m].waitingForPeer # NoPort) = mem[m].retryReq
        /\ \A c \in Requestor : /\ Wakes(respLayers[c])
                                /\ respLayers[c].waitingForPeer = NoPort
                                /\ QueueWakes(respQueue[c])

\* A requestor or memory waits at one place at most, and only there where the
\* packet it holds back has to go: tryTiming never finds the port on its list
\* (its assertion), and a retry always meets the packet it is meant for.
WaitsOnce ==
    /\ \A m \in Memory, c \in Requestor :
          c \in Waiting(reqLayers[m]) <=> held[c] # NoPacket /\ held[c].dst = m
    /\ \A m \in Memory, c \in Requestor :
          m \in Waiting(respLayers[c]) <=>
              mem[m].retryResp /\ destination(mem[m].queue[1].pkt) = c
    /\ \A m \in Memory :
          Cardinality(Waiting(reqLayers[m])) =
              Len(reqLayers[m].waitingForLayer) +
                  (IF reqLayers[m].waitingForPeer = NoPort THEN 0 ELSE 1)

\* The routing table has exactly the requests the memories have accepted and not
\* answered, each with its requestor, and a response comes back to the port its
\* request came from (the two assertions on routeTo hold).
RouteExact ==
    /\ DOMAIN routeTo =
           UNION {{mem[m].queue[i].pkt.req : i \in DOMAIN mem[m].queue} : m \in Memory}
    /\ \A r \in DOMAIN routeTo : routeTo[r] = r[1]
    /\ \A c \in Requestor : \A i \in DOMAIN respQueue[c].transmitList :
          respQueue[c].transmitList[i].pkt.req[1] = c

\* Every request is answered or dropped by its requestor: no port starves on a
\* layer, blocked responses included.
EveryRequestAnswered ==
    \A c \in Requestor : \A k \in 1 .. MaxOutstanding[c] :
        []<>(k \notin outstanding[c])
=============================================================================
