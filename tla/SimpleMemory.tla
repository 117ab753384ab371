------------------------------ MODULE SimpleMemory ------------------------------
(***************************************************************************)
(* The CPU-side port of a memory (mem/simple_mem.cc): the bandwidth limit, *)
(* the response queue and the drain protocol.  Ticks are relative: an      *)
(* event or a queued packet holds how long it still has to wait, and       *)
(* Elapse lets one tick pass once no event is due.                         *)
(***************************************************************************)
EXTENDS AbstractMemory, FiniteSetsExt

CONSTANTS Bandwidth,  \* ticks the memory stays busy per granule
          Delays,     \* possible values of receive_delay + getLatency()
          MaxQueue    \* bound on the responses the peer lets pile up

NotScheduled == -1

ASSUME SimpleMemoryAssumption ==
    /\ Bandwidth \in Nat
    /\ Delays \subseteq Nat
    /\ MaxQueue \in Nat

VARIABLES packetQueue,   \* entries [pkt, delay, age]; age is history: the rank
                         \* of the entry in order of acceptance
          isBusy, retryReq, retryResp,
          dequeueEvent, releaseEvent,
          drainState,
          peerWaits,     \* the peer holds a refused request and awaits a retry
          peerBlocks     \* the peer refused a response and owes a retry

portVars == <<packetQueue, isBusy, retryReq, retryResp, dequeueEvent, releaseEvent,
              drainState, peerWaits, peerBlocks>>
simpleVars == <<memVars, portVars>>

-----------------------------------------------------------------------------
Entry(pkt, delay) == [pkt |-> pkt, delay |-> delay, age |-> Len(packetQueue) + 1]

\* Mutants.
insertPoint_noMatch(pkt, delay) ==
    IF packetQueue = <<>> THEN 0
    ELSE Max({1} \cup {i \in 1 .. Len(packetQueue) : delay >= packetQueue[i].delay})

insertPoint_afterHead(pkt, delay) == IF packetQueue = <<>> THEN 0 ELSE 1

\* The insertion sort starts at the back and stops at the first entry, at an
\* entry that is due no later, and at an entry with the same address (here granule).
insertPoint(pkt, delay) ==
    IF packetQueue = <<>> THEN 0
    ELSE Max({1} \cup {i \in 1 .. Len(packetQueue) :
                          \/ delay >= packetQueue[i].delay
                          \/ packetQueue[i].pkt.addr = pkt.addr})

emplace(pkt, delay) ==
    LET k == insertPoint(pkt, delay)
    IN  SubSeq(packetQueue, 1, k) \o <<Entry(pkt, delay)>>
          \o SubSeq(packetQueue, k + 1, Len(packetQueue))

\* pop_front; the history ranks close up.
Popped ==
    LET gone == Head(packetQueue).age
        Rerank(e) == IF e.age > gone THEN [e EXCEPT !.age = @ - 1] ELSE e
    IN  [i \in 1 .. Len(packetQueue) - 1 |-> Rerank(packetQueue[i + 1])]

-----------------------------------------------------------------------------
\* recvTimingReq while a retry is owed or the memory is busy.
RecvTimingReqRefused ==
    /\ retryReq \/ isBusy
    /\ retryReq' = TRUE
    /\ peerWaits' = TRUE
    /\ UNCHANGED <<memVars, packetQueue, isBusy, retryResp, dequeueEvent,
                   releaseEvent, drainState, peerBlocks>>

RecvTimingReq(pkt, delay) ==
    LET duration == Len(pkt.data) * Bandwidth
    IN  /\ ~retryReq /\ ~isBusy
        /\ Len(packetQueue) < MaxQueue
        /\ isBusy' = (duration # 0)
        /\ releaseEvent' = IF duration # 0 THEN duration ELSE releaseEvent
        /\ access(pkt)
        /\ IF needsResponse(pkt)
           THEN /\ packetQueue' = emplace(Response(pkt), delay)
                /\ dequeueEvent' =
                     IF ~retryResp /\ dequeueEvent = NotScheduled
                     THEN packetQueue'[Len(packetQueue')].delay ELSE dequeueEvent
           ELSE UNCHANGED <<packetQueue, dequeueEvent>>
        /\ UNCHANGED <<retryReq, retryResp, drainState, peerWaits, peerBlocks>>

\* Mutant.
release_noRetry ==
    /\ releaseEvent = 0
    /\ releaseEvent' = NotScheduled
    /\ isBusy' = FALSE
    /\ retryReq' = FALSE
    /\ UNCHANGED <<memVars, packetQueue, retryResp, dequeueEvent, drainState, peerWaits,
                   peerBlocks>>

release ==
    /\ releaseEvent = 0
    /\ releaseEvent' = NotScheduled
    /\ isBusy' = FALSE
    /\ retryReq' = FALSE
    /\ peerWaits' = IF retryReq THEN FALSE ELSE peerWaits     \* sendRetryReq
    /\ UNCHANGED <<memVars, packetQueue, retryResp, dequeueEvent, drainState,
                   peerBlocks>>

\* Mutants.
dequeue_noReschedule(sent, event) ==
    /\ packetQueue # <<>>
    /\ retryResp' = ~sent
    /\ peerBlocks' = ~sent
    /\ packetQueue' = IF sent THEN Popped ELSE packetQueue
    /\ dequeueEvent' = event
    /\ drainState' = IF sent /\ packetQueue' = <<>> /\ drainState = "Draining"
                     THEN "Drained" ELSE drainState
    /\ UNCHANGED <<memVars, isBusy, retryReq, releaseEvent, peerWaits>>

dequeue_now(sent, event) ==
    /\ packetQueue # <<>>
    /\ retryResp' = ~sent
    /\ peerBlocks' = ~sent
    /\ packetQueue' = IF sent THEN Popped ELSE packetQueue
    /\ dequeueEvent' = IF sent /\ packetQueue' # <<>> THEN 0 ELSE event
    /\ drainState' = IF sent /\ packetQueue' = <<>> /\ drainState = "Draining"
                     THEN "Drained" ELSE drainState
    /\ UNCHANGED <<memVars, isBusy, retryReq, releaseEvent, peerWaits>>

\* dequeue(): "sent" is what the peer answers to sendTimingResp, "event" the
\* state of dequeueEvent when the call starts.
dequeue(sent, event) ==
    /\ packetQueue # <<>>
    /\ retryResp' = ~sent
    /\ peerBlocks' = ~sent
    /\ packetQueue' = IF sent THEN Popped ELSE packetQueue
    /\ dequeueEvent' = IF sent /\ packetQueue' # <<>> THEN packetQueue'[1].delay
                       ELSE event
    /\ drainState' = IF sent /\ packetQueue' = <<>> /\ drainState = "Draining"
                     THEN "Drained" ELSE drainState
    /\ UNCHANGED <<memVars, isBusy, retryReq, releaseEvent, peerWaits>>

DequeueEvent(sent) == dequeueEvent = 0 /\ dequeue(sent, NotScheduled)

recvRespRetry(sent) == peerBlocks /\ dequeue(sent, dequeueEvent)

\* functionalAccess, then trySatisfyFunctional against every queued response
\* that carries data: a functional write also updates those copies.
recvFunctional(pkt) ==
    LET hasData(e) == isRead(e.pkt) \/ isSwap(e.pkt)
        Updated(e) ==
            [e EXCEPT !.pkt.data =
                [j \in 1 .. Len(e.pkt.data) |->
                    IF e.pkt.addr + j - 1 \in Covers(pkt)
                    THEN pkt.data[e.pkt.addr + j - pkt.addr] ELSE e.pkt.data[j]]]
    IN  /\ functionalAccess(pkt)
        /\ packetQueue' = [i \in 1 .. Len(packetQueue) |->
                IF ~isRead(pkt) /\ hasData(packetQueue[i])
                THEN Updated(packetQueue[i]) ELSE packetQueue[i]]
        /\ UNCHANGED <<isBusy, retryReq, retryResp, dequeueEvent, releaseEvent,
                       drainState, peerWaits, peerBlocks>>

drain ==
    /\ drainState' = IF packetQueue # <<>> THEN "Draining" ELSE "Drained"
    /\ UNCHANGED <<memVars, packetQueue, isBusy, retryReq, retryResp, dequeueEvent,
                   releaseEvent, peerWaits, peerBlocks>>

\* The drain manager resumes the memory once the system is drained.
drainResume ==
    /\ drainState = "Drained"
    /\ drainState' = "Running"
    /\ UNCHANGED <<memVars, packetQueue, isBusy, retryReq, retryResp, dequeueEvent,
                   releaseEvent, peerWaits, peerBlocks>>

Due(event) == event = 0
Earlier(t) == IF t > 0 THEN t - 1 ELSE t

\* One tick passes; an event that is due runs first.
Elapse ==
    /\ ~Due(dequeueEvent) /\ ~Due(releaseEvent)
    /\ packetQueue' = [i \in 1 .. Len(packetQueue) |->
                          [packetQueue[i] EXCEPT !.delay = Earlier(@)]]
    /\ dequeueEvent' = Earlier(dequeueEvent)
    /\ releaseEvent' = Earlier(releaseEvent)
    /\ UNCHANGED <<memVars, isBusy, retryReq, retryResp, drainState, peerWaits,
                   peerBlocks>>

PortInit ==
    /\ packetQueue = <<>>
    /\ isBusy = FALSE /\ retryReq = FALSE /\ retryResp = FALSE
    /\ dequeueEvent = NotScheduled /\ releaseEvent = NotScheduled
    /\ drainState = "Running"
    /\ peerWaits = FALSE /\ peerBlocks = FALSE

SimpleInit == MemInit /\ PortInit

-----------------------------------------------------------------------------
\* A queued response is always on its way: either the dequeue event is scheduled
\* or a refused response awaits the peer's retry, never both and never neither,
\* and the two calls that assert (dequeue, recvRespRetry) find what they expect.
ResponseWakeup ==
    /\ (packetQueue # <<>>) = (dequeueEvent # NotScheduled \/ retryResp)
    /\ ~(dequeueEvent # NotScheduled /\ retryResp)
    /\ peerBlocks = retryResp

\* A refused request is always retried: the memory remembers it, and is busy
\* with the release event pending that sends the retry.
RequestWakeup ==
    /\ peerWaits = retryReq
    /\ retryReq => isBusy
    /\ isBusy = (releaseEvent # NotScheduled)

\* The dequeue event never runs before the response at the head is due
\* (recvTimingReq schedules with the tick of the back, dequeue with the front).
NotBeforeItsTime ==
    dequeueEvent # NotScheduled => packetQueue[1].delay <= dequeueEvent

\* Responses to one address leave in the order their requests were accepted,
\* whatever latency each one drew.
SameAddressInOrder ==
    \A i, j \in 1 .. Len(packetQueue) :
        /\ i < j
        /\ packetQueue[i].pkt.addr = packetQueue[j].pkt.addr
        => packetQueue[i].age < packetQueue[j].age

\* A memory that answered "Draining" still has the response whose departure
\* will signal that it is drained.
DrainSignalComes == drainState = "Draining" => packetQueue # <<>>

\* A requestor that was refused is eventually told to retry.
RefusedIsRetried == peerWaits ~> ~peerWaits

\* No response is overtaken for ever: the oldest one reaches the head.
OldestReachesHead == []<>(packetQueue = <<>> \/ packetQueue[1].age = 1)
=============================================================================
