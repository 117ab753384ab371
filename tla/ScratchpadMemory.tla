---------------------------- MODULE ScratchpadMemory ----------------------------
(***************************************************************************)
(* A scratchpad (mem/spm/spm.cc): a SimpleMemory for the CPU side and a    *)
(* second port for the DMA side.  Both ports reach the same backing store; *)
(* the DMA port never refuses a request and keeps its responses in a queue *)
(* of its own.                                                             *)
(***************************************************************************)
EXTENDS SimpleMemory

CONSTANTS DmaRequests,  \* packets the DMA side may send
          DmaDelays,    \* possible latencies of processDmaRequest
          MaxDmaQueue   \* bound on the responses the DMA peer lets pile up

ASSUME ScratchpadMemoryAssumption ==
    /\ DmaRequests \subseteq Requests
    /\ DmaDelays \subseteq Nat
    /\ MaxDmaQueue \in Nat

VARIABLES dmaPacketQueue,   \* entries [pkt, delay]
          dmaRetryResp,     \* DmaPort::retryResp
          dmaDequeueEvent,
          dmaPeerBlocks     \* the DMA peer refused a response and owes a retry

dmaVars == <<dmaPacketQueue, dmaRetryResp, dmaDequeueEvent, dmaPeerBlocks>>
spmVars == <<simpleVars, dmaVars>>

-----------------------------------------------------------------------------
\* Mutants.
dmaRecvTimingReq_ignoreRetry(pkt, delay) ==
    /\ Len(dmaPacketQueue) < MaxDmaQueue
    /\ access(pkt)
    /\ IF needsResponse(pkt)
       THEN /\ dmaPacketQueue' = Append(dmaPacketQueue, [pkt |-> Response(pkt), delay |-> delay])
            /\ dmaDequeueEvent' =
                 IF dmaDequeueEvent = NotScheduled THEN delay ELSE dmaDequeueEvent
       ELSE UNCHANGED <<dmaPacketQueue, dmaDequeueEvent>>
    /\ UNCHANGED <<portVars, dmaRetryResp, dmaPeerBlocks>>

dmaDequeue_noReschedule(sent, event) ==
    /\ dmaPacketQueue # <<>>
    /\ dmaRetryResp' = ~sent
    /\ dmaPeerBlocks' = ~sent
    /\ dmaPacketQueue' = IF sent THEN Tail(dmaPacketQueue) ELSE dmaPacketQueue
    /\ dmaDequeueEvent' = event
    /\ UNCHANGED simpleVars

-----------------------------------------------------------------------------
\* DmaPort::recvTimingReq: access at once, answer after the latency.  A blocked
\* response port does not stop requests.
dmaRecvTimingReq(pkt, delay) ==
    /\ Len(dmaPacketQueue) < MaxDmaQueue
    /\ access(pkt)
    /\ IF needsResponse(pkt)
       THEN /\ dmaPacketQueue' = Append(dmaPacketQueue, [pkt |-> Response(pkt), delay |-> delay])
            /\ dmaDequeueEvent' =
                 IF ~dmaRetryResp /\ dmaDequeueEvent = NotScheduled
                 THEN delay ELSE dmaDequeueEvent
       ELSE UNCHANGED <<dmaPacketQueue, dmaDequeueEvent>>
    /\ UNCHANGED <<portVars, dmaRetryResp, dmaPeerBlocks>>

\* DmaPort::dmaDequeue; "sent" is the peer's answer, "event" the state of the
\* event when the call starts.  The next response waits a tick at least.  The
\* early return on an empty queue is never taken: see DmaResponseWakeup.
dmaDequeue(sent, event) ==
    /\ dmaPacketQueue # <<>>
    /\ dmaRetryResp' = ~sent
    /\ dmaPeerBlocks' = ~sent
    /\ dmaPacketQueue' = IF sent THEN Tail(dmaPacketQueue) ELSE dmaPacketQueue
    /\ dmaDequeueEvent' =
         IF sent /\ dmaPacketQueue' # <<>> /\ event = NotScheduled
         THEN Max({dmaPacketQueue'[1].delay, 1}) ELSE event
    /\ UNCHANGED simpleVars

DmaDequeueEvent(sent) == dmaDequeueEvent = 0 /\ dmaDequeue(sent, NotScheduled)

dmaRecvRespRetry(sent) == dmaPeerBlocks /\ dmaDequeue(sent, dmaDequeueEvent)

\* recvFunctional of either port goes to SimpleMemory::recvFunctional.
spmRecvFunctional(pkt) == recvFunctional(pkt) /\ UNCHANGED dmaVars

\* The CPU port runs as it does alone.
CpuPort ==
    /\ \/ RecvTimingReqRefused
       \/ \E pkt \in Requests \ DmaRequests, delay \in Delays : RecvTimingReq(pkt, delay)
       \/ release
       \/ \E sent \in BOOLEAN : DequeueEvent(sent) \/ recvRespRetry(sent)
       \/ drain \/ drainResume
    /\ UNCHANGED dmaVars

SpmElapse ==
    /\ ~Due(dmaDequeueEvent)
    /\ Elapse
    /\ dmaPacketQueue' = [i \in 1 .. Len(dmaPacketQueue) |->
                             [dmaPacketQueue[i] EXCEPT !.delay = Earlier(@)]]
    /\ dmaDequeueEvent' = Earlier(dmaDequeueEvent)
    /\ UNCHANGED <<dmaRetryResp, dmaPeerBlocks>>

SpmInit ==
    /\ SimpleInit
    /\ dmaPacketQueue = <<>>
    /\ dmaRetryResp = FALSE
    /\ dmaDequeueEvent = NotScheduled
    /\ dmaPeerBlocks = FALSE

SpmNext ==
    \/ CpuPort
    \/ \E pkt \in DmaRequests, delay \in DmaDelays : dmaRecvTimingReq(pkt, delay)
    \/ \E sent \in BOOLEAN : DmaDequeueEvent(sent) \/ dmaRecvRespRetry(sent)
    \/ \E pkt \in FunctionalRequests : spmRecvFunctional(pkt)
    \/ SpmElapse

SpmSpec == SpmInit /\ [][SpmNext]_spmVars

(***************************************************************************)
(* As for the CPU port: due events run, and neither peer refuses a         *)
(* response for ever.  Time passes although the DMA port takes any number  *)
(* of requests: a crossbar sends one in a cycle.                           *)
(***************************************************************************)
SpmFairness ==
    /\ SF_spmVars(SpmElapse)
    /\ WF_spmVars(release /\ UNCHANGED dmaVars)
    /\ WF_spmVars((\E sent \in BOOLEAN : DequeueEvent(sent) \/ recvRespRetry(sent))
                     /\ UNCHANGED dmaVars)
    /\ SF_spmVars((DequeueEvent(TRUE) \/ recvRespRetry(TRUE)) /\ UNCHANGED dmaVars)
    /\ WF_spmVars(\E sent \in BOOLEAN : DmaDequeueEvent(sent) \/ dmaRecvRespRetry(sent))
    /\ SF_spmVars(DmaDequeueEvent(TRUE) \/ dmaRecvRespRetry(TRUE))

FairSpmSpec == SpmSpec /\ SpmFairness

-----------------------------------------------------------------------------
\* A response queued on the DMA port is always on its way: the dequeue event is
\* scheduled or the peer owes a retry, never both; recvRespRetry's assertion on
\* retryResp holds and the event never finds the queue empty.
DmaResponseWakeup ==
    /\ (dmaPacketQueue # <<>>) = (dmaDequeueEvent # NotScheduled \/ dmaRetryResp)
    /\ ~(dmaDequeueEvent # NotScheduled /\ dmaRetryResp)
    /\ dmaPeerBlocks = dmaRetryResp

\* The DMA port never answers before the latency of the request has passed,
\* although its queue is not sorted and a later request may be due earlier.
DmaNotBeforeItsTime ==
    /\ dmaDequeueEvent # NotScheduled => dmaPacketQueue[1].delay <= dmaDequeueEvent
    /\ dmaRetryResp => dmaPacketQueue[1].delay = 0

\* Every request the DMA port accepts is answered: while responses are queued
\* they keep leaving, also when the peer refuses some and requests keep coming.
DmaAlwaysAnswered ==
    <>[](dmaPacketQueue # <<>>) =>
        []<><<Len(dmaPacketQueue') < Len(dmaPacketQueue)>>_dmaPacketQueue

\* "the data is instantly updated everywhere in the memory system": a functional
\* write also reaches the read responses waiting in the DMA port.
FunctionalWriteEverywhere ==
    [][\A pkt \in FunctionalRequests :
          spmRecvFunctional(pkt) /\ pkt.cmd = "WriteReq" =>
              \A i \in 1 .. Len(dmaPacketQueue) :
                  LET q == dmaPacketQueue'[i].pkt
                  IN  q.cmd = "ReadReq" =>
                        \A a \in Covers(q) \cap Covers(pkt) :
                            q.data[a - q.addr + 1] = pkt.data[a - pkt.addr + 1]]_spmVars
=============================================================================
