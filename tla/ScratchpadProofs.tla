---------------------------- MODULE ScratchpadProofs ----------------------------
(***************************************************************************)
(* Theorems about the DMA port of a scratchpad: no response is ever left   *)
(* without a wakeup, and none leaves early, for every set of requests,     *)
(* every latency and every queue length.                                   *)
(***************************************************************************)
EXTENDS ScratchpadMemory, AbstractMemoryProofs, SequenceTheorems

\* Types of the DMA port.
DmaTypeOK ==
    /\ dmaPacketQueue \in Seq([pkt : Packet, delay : Nat])
    /\ dmaRetryResp \in BOOLEAN /\ dmaPeerBlocks \in BOOLEAN
    /\ dmaDequeueEvent \in Nat \cup {NotScheduled}

\* The inductive invariant: the types of the store and the queue are needed to
\* know that a queued delay is a number.
DmaInv == MemTypeOK /\ DmaTypeOK /\ DmaResponseWakeup /\ DmaNotBeforeItsTime

\* Max of FiniteSetsExt on the pair dmaDequeue uses.
LEMMA MaxPair ==
    ASSUME NEW a \in Nat
    PROVE  /\ Max({a, 1}) \in Nat
           /\ Max({a, 1}) >= a
<1>1. \E x \in {a, 1} : \A y \in {a, 1} : x >= y
  <2>1. CASE a >= 1 BY <2>1
  <2>2. CASE ~(a >= 1) BY <2>2
  <2>3. QED BY <2>1, <2>2
<1>2. Max({a, 1}) \in {a, 1} /\ \A y \in {a, 1} : Max({a, 1}) >= y
  BY <1>1 DEF Max
<1>3. QED BY <1>2

\* The head of a non-empty sequence.
LEMMA HeadIn ==
    ASSUME NEW S, NEW q \in Seq(S), q # <<>>
    PROVE  q[1] \in S
<1>1. Len(q) \in Nat /\ Len(q) # 0
  BY EmptySeq
<1>2. QED BY <1>1, ElementOfSeq

\* A step that leaves the DMA port alone keeps its invariant.
LEMMA DmaPortIdle ==
    ASSUME DmaInv, MemTypeOK', UNCHANGED dmaVars
    PROVE  DmaInv'
BY DEF DmaInv, dmaVars, DmaTypeOK, DmaResponseWakeup, DmaNotBeforeItsTime

\* Accepting a request, whether or not the response port is blocked.
LEMMA DmaAccept ==
    ASSUME DmaInv, NEW pkt \in DmaRequests, NEW delay \in DmaDelays,
           dmaRecvTimingReq(pkt, delay)
    PROVE  DmaInv'
<1>1. pkt \in Requests /\ delay \in Nat
  BY ScratchpadMemoryAssumption
<1>2. MemTypeOK'
  BY <1>1, AccessType DEF DmaInv, dmaRecvTimingReq
<1> DEFINE e == [pkt |-> Response(pkt), delay |-> delay]
<1>3. e \in [pkt : Packet, delay : Nat]
  BY <1>1, ResponseType DEF DmaInv
<1>4. CASE needsResponse(pkt)
  <2>1. dmaPacketQueue' = Append(dmaPacketQueue, e)
    BY <1>4 DEF dmaRecvTimingReq
  <2>2. /\ dmaPacketQueue' \in Seq([pkt : Packet, delay : Nat])
        /\ dmaPacketQueue' # <<>>
        /\ dmaPacketQueue # <<>> => dmaPacketQueue'[1] = dmaPacketQueue[1]
        /\ dmaPacketQueue = <<>> => dmaPacketQueue'[1].delay = delay
    <3> HIDE DEF e
    <3>1. dmaPacketQueue \in Seq([pkt : Packet, delay : Nat])
      BY DEF DmaInv, DmaTypeOK
    <3>2. /\ dmaPacketQueue' \in Seq([pkt : Packet, delay : Nat])
          /\ dmaPacketQueue' # <<>>
          /\ dmaPacketQueue # <<>> => dmaPacketQueue'[1] = dmaPacketQueue[1]
          /\ dmaPacketQueue = <<>> => dmaPacketQueue'[1] = e
      BY <2>1, <1>3, <3>1
    <3>3. QED BY <3>2 DEF e
  <2>3. dmaDequeueEvent' = IF ~dmaRetryResp /\ dmaDequeueEvent = NotScheduled
                           THEN delay ELSE dmaDequeueEvent
    BY <1>4 DEF dmaRecvTimingReq
  <2>4. UNCHANGED <<dmaRetryResp, dmaPeerBlocks>>
    BY DEF dmaRecvTimingReq
  <2>5. QED
    BY <1>1, <1>2, <2>2, <2>3, <2>4
    DEF DmaInv, DmaTypeOK, DmaResponseWakeup, DmaNotBeforeItsTime, NotScheduled
<1>5. CASE ~needsResponse(pkt)
  <2>1. UNCHANGED dmaVars
    BY <1>5 DEF dmaRecvTimingReq, dmaVars
  <2>2. QED BY <2>1, <1>2, DmaPortIdle
<1>6. QED BY <1>4, <1>5

\* Trying to send the head, from the event or from a retry: "event" is what is
\* left of the event when the call starts, and the head is due.
LEMMA DmaSend ==
    ASSUME DmaInv, NEW sent \in BOOLEAN, dmaDequeue(sent, NotScheduled),
           dmaPacketQueue[1].delay = 0
    PROVE  DmaInv'
<1>1. MemTypeOK'
  BY DEF DmaInv, dmaDequeue, simpleVars, memVars, MemTypeOK
<1>2. dmaPacketQueue \in Seq([pkt : Packet, delay : Nat]) /\ dmaPacketQueue # <<>>
  BY DEF DmaInv, DmaTypeOK, dmaDequeue
<1>3. CASE sent
  <2>1. /\ dmaPacketQueue' = Tail(dmaPacketQueue)
        /\ dmaRetryResp' = FALSE /\ dmaPeerBlocks' = FALSE
    BY <1>3 DEF dmaDequeue
  <2>2. dmaPacketQueue' \in Seq([pkt : Packet, delay : Nat])
    BY <1>2, <2>1
  <2>3. dmaDequeueEvent' = IF dmaPacketQueue' # <<>>
                           THEN Max({dmaPacketQueue'[1].delay, 1}) ELSE NotScheduled
    BY <1>3 DEF dmaDequeue
  <2>4. CASE dmaPacketQueue' # <<>>
    <3>1. dmaPacketQueue'[1].delay \in Nat
      <4>1. dmaPacketQueue'[1] \in [pkt : Packet, delay : Nat]
        BY <2>2, <2>4, HeadIn
      <4>2. QED BY <4>1
    <3>2. dmaDequeueEvent' \in Nat /\ dmaDequeueEvent' >= dmaPacketQueue'[1].delay
      BY <2>3, <2>4, <3>1, MaxPair
    <3>3. DmaTypeOK' /\ DmaResponseWakeup'
      <4>1. dmaDequeueEvent' # NotScheduled
        BY <3>2 DEF NotScheduled
      <4>2. DmaTypeOK'
        BY <2>1, <2>2, <3>2 DEF DmaTypeOK
      <4>3. DmaResponseWakeup'
        BY <4>1, <2>1, <2>4, Zenon DEF DmaResponseWakeup
      <4>4. QED BY <4>2, <4>3
    <3>4. DmaNotBeforeItsTime'
      BY <2>1, <3>1, <3>2 DEF DmaNotBeforeItsTime
    <3>5. QED BY <1>1, <3>3, <3>4 DEF DmaInv
  <2>5. CASE dmaPacketQueue' = <<>>
    BY <1>1, <2>1, <2>2, <2>3, <2>5
    DEF DmaInv, DmaTypeOK, DmaResponseWakeup, DmaNotBeforeItsTime, NotScheduled
  <2>6. QED BY <2>4, <2>5
<1>4. CASE ~sent
  <2>1. /\ dmaPacketQueue' = dmaPacketQueue /\ dmaDequeueEvent' = NotScheduled
        /\ dmaRetryResp' = TRUE /\ dmaPeerBlocks' = TRUE
    BY <1>4 DEF dmaDequeue
  <2>2. QED
    BY <1>1, <1>2, <2>1
    DEF DmaInv, DmaTypeOK, DmaResponseWakeup, DmaNotBeforeItsTime, NotScheduled
<1>5. QED BY <1>3, <1>4

\* One tick brings every queued response and the event nearer by one.
LEMMA DmaElapse ==
    ASSUME DmaInv, SpmElapse
    PROVE  DmaInv'
<1>1. MemTypeOK'
  BY DEF DmaInv, SpmElapse, Elapse, memVars, MemTypeOK
<1>2. dmaPacketQueue \in Seq([pkt : Packet, delay : Nat]) /\ Len(dmaPacketQueue) \in Nat
  BY DEF DmaInv, DmaTypeOK
<1> DEFINE Tick(e) == [e EXCEPT !.delay = Earlier(@)]
<1>3. dmaPacketQueue' = [i \in 1 .. Len(dmaPacketQueue) |-> Tick(dmaPacketQueue[i])]
  BY DEF SpmElapse
<1>4. \A e \in [pkt : Packet, delay : Nat] :
         /\ Tick(e) \in [pkt : Packet, delay : Nat]
         /\ Tick(e).delay = Earlier(e.delay)
  BY DEF Earlier
<1>5. dmaPacketQueue' \in Seq([pkt : Packet, delay : Nat])
  <2>1. \A i \in 1 .. Len(dmaPacketQueue) : Tick(dmaPacketQueue[i]) \in [pkt : Packet, delay : Nat]
    BY <1>2, <1>4, ElementOfSeq
  <2> HIDE DEF Tick
  <2>2. QED BY <1>2, <1>3, <2>1, IsASeq
<1>6. Len(dmaPacketQueue') = Len(dmaPacketQueue)
  <2> HIDE DEF Tick
  <2>1. QED BY <1>2, <1>3, <1>5
<1>7. (dmaPacketQueue' = <<>>) = (dmaPacketQueue = <<>>)
  BY <1>2, <1>5, <1>6, EmptySeq
<1>8. dmaPacketQueue # <<>> =>
         /\ dmaPacketQueue[1].delay \in Nat
         /\ dmaPacketQueue'[1].delay = Earlier(dmaPacketQueue[1].delay)
  <2>1. SUFFICES ASSUME dmaPacketQueue # <<>>
                 PROVE  /\ dmaPacketQueue[1].delay \in Nat
                        /\ dmaPacketQueue'[1].delay = Earlier(dmaPacketQueue[1].delay)
    OBVIOUS
  <2>2. dmaPacketQueue[1] \in [pkt : Packet, delay : Nat] /\ 1 \in 1 .. Len(dmaPacketQueue)
    <3>1. Len(dmaPacketQueue) \in Nat \ {0}
      BY <1>2, <2>1, EmptySeq
    <3>2. dmaPacketQueue[1] \in [pkt : Packet, delay : Nat]
      BY <1>2, <2>1, HeadIn
    <3>3. QED BY <3>1, <3>2
  <2>3. dmaPacketQueue'[1] = Tick(dmaPacketQueue[1])
    BY <1>3, <2>2
  <2> HIDE DEF Tick
  <2>4. QED BY <1>4, <2>2, <2>3
<1>9. /\ dmaDequeueEvent' = Earlier(dmaDequeueEvent)
      /\ dmaDequeueEvent # 0
      /\ UNCHANGED <<dmaRetryResp, dmaPeerBlocks>>
  BY DEF SpmElapse, Due
<1>10. /\ dmaDequeueEvent' \in Nat \cup {NotScheduled}
       /\ (dmaDequeueEvent' = NotScheduled) = (dmaDequeueEvent = NotScheduled)
  BY <1>9 DEF DmaInv, DmaTypeOK, Earlier, NotScheduled
<1>11. DmaTypeOK'
  BY <1>5, <1>9, <1>10 DEF DmaInv, DmaTypeOK
<1>12. DmaResponseWakeup'
  BY <1>7, <1>9, <1>10, Zenon DEF DmaInv, DmaResponseWakeup
<1>13. DmaNotBeforeItsTime'
  <2>1. (dmaDequeueEvent' # NotScheduled \/ dmaRetryResp') => dmaPacketQueue # <<>>
    BY <1>9, <1>10, Zenon DEF DmaInv, DmaResponseWakeup
  <2>2. ASSUME dmaDequeueEvent' # NotScheduled
        PROVE  dmaPacketQueue'[1].delay <= dmaDequeueEvent'
    BY <2>1, <2>2, <1>8, <1>9, <1>10
    DEF DmaInv, DmaTypeOK, DmaNotBeforeItsTime, Earlier, NotScheduled
  <2>3. ASSUME dmaRetryResp' PROVE dmaPacketQueue'[1].delay = 0
    BY <2>1, <2>3, <1>8, <1>9 DEF DmaInv, DmaNotBeforeItsTime, Earlier
  <2>4. QED BY <2>2, <2>3 DEF DmaNotBeforeItsTime
<1>14. QED BY <1>1, <1>11, <1>12, <1>13 DEF DmaInv

\* Every step of the scratchpad keeps the invariant.
LEMMA DmaStep ==
    ASSUME DmaInv, [SpmNext]_spmVars
    PROVE  DmaInv'
<1>1. CASE CpuPort
  <2>1. UNCHANGED dmaVars
    BY <1>1 DEF CpuPort
  <2>2. MemTypeOK'
    <3>1. CASE \E pkt \in Requests \ DmaRequests, delay \in Delays : RecvTimingReq(pkt, delay)
      BY <3>1, AccessType DEF RecvTimingReq, DmaInv
    <3>2. CASE RecvTimingReqRefused \/ release \/ drain \/ drainResume
      BY <3>2 DEF RecvTimingReqRefused, release, drain, drainResume, memVars, MemTypeOK, DmaInv
    <3>3. CASE \E sent \in BOOLEAN : DequeueEvent(sent) \/ recvRespRetry(sent)
      BY <3>3 DEF DequeueEvent, recvRespRetry, dequeue, memVars, MemTypeOK, DmaInv
    <3>4. QED BY <1>1, <3>1, <3>2, <3>3 DEF CpuPort
  <2>3. QED BY <2>1, <2>2, DmaPortIdle
<1>2. CASE \E pkt \in DmaRequests, delay \in DmaDelays : dmaRecvTimingReq(pkt, delay)
  BY <1>2, DmaAccept
<1>3. ASSUME NEW sent \in BOOLEAN, DmaDequeueEvent(sent) PROVE DmaInv'
  <2>1. dmaDequeueEvent = 0 /\ dmaDequeue(sent, NotScheduled)
    BY <1>3 DEF DmaDequeueEvent
  <2>2. dmaPacketQueue[1].delay = 0
    <3>1. dmaPacketQueue[1] \in [pkt : Packet, delay : Nat]
      BY <2>1, HeadIn DEF dmaDequeue, DmaInv, DmaTypeOK
    <3>2. QED BY <2>1, <3>1 DEF DmaInv, DmaNotBeforeItsTime, NotScheduled
  <2>3. QED BY <2>1, <2>2, DmaSend
<1>4. ASSUME NEW sent \in BOOLEAN, dmaRecvRespRetry(sent) PROVE DmaInv'
  <2>1. dmaRetryResp /\ dmaDequeueEvent = NotScheduled
    BY <1>4, Zenon DEF dmaRecvRespRetry, DmaInv, DmaResponseWakeup
  <2>2. dmaDequeue(sent, NotScheduled)
    BY <1>4, <2>1 DEF dmaRecvRespRetry
  <2>3. dmaPacketQueue[1].delay = 0
    BY <2>1 DEF DmaInv, DmaNotBeforeItsTime
  <2>4. QED BY <2>2, <2>3, DmaSend
<1>5. CASE \E pkt \in FunctionalRequests : spmRecvFunctional(pkt)
  <2>1. UNCHANGED dmaVars
    BY <1>5 DEF spmRecvFunctional
  <2>2. MemTypeOK'
    BY <1>5, FunctionalType DEF spmRecvFunctional, recvFunctional, DmaInv
  <2>3. QED BY <2>1, <2>2, DmaPortIdle
<1>6. CASE SpmElapse
  BY <1>6, DmaElapse
<1>7. CASE UNCHANGED spmVars
  <2>1. UNCHANGED dmaVars /\ MemTypeOK'
    BY <1>7 DEF spmVars, simpleVars, memVars, MemTypeOK, DmaInv
  <2>2. QED BY <2>1, DmaPortIdle
<1>8. QED BY <1>1, <1>2, <1>3, <1>4, <1>5, <1>6, <1>7 DEF SpmNext

\* The initial state satisfies the invariant.
LEMMA DmaInitInv == SpmInit => DmaInv
<1>1. SUFFICES ASSUME SpmInit PROVE DmaInv
  OBVIOUS
<1>2. MemTypeOK
  BY <1>1 DEF SpmInit, SimpleInit, MemInit, MemTypeOK
<1>3. DmaTypeOK
  BY <1>1, EmptySeq DEF SpmInit, DmaTypeOK
<1>4. DmaResponseWakeup
  BY <1>1, Zenon DEF SpmInit, DmaResponseWakeup
<1>5. DmaNotBeforeItsTime
  BY <1>1 DEF SpmInit, DmaNotBeforeItsTime
<1>6. QED BY <1>2, <1>3, <1>4, <1>5 DEF DmaInv

\* Whatever the requests, the latencies and the peer's answers, a response in
\* the DMA port's queue has exactly one of the event and the peer's retry to
\* wake it: DmaPort of spm.cc never loses a wakeup.
THEOREM DmaWakeupNeverLost == SpmSpec => []DmaResponseWakeup
<1>1. DmaInv /\ [SpmNext]_spmVars => DmaInv'
  BY DmaStep
<1>2. DmaInv => DmaResponseWakeup
  BY DEF DmaInv
<1>3. QED BY <1>1, <1>2, DmaInitInv, PTL DEF SpmSpec

\* The DMA port's dequeue event never runs, and a retry is never answered,
\* before the latency of the response at the head has passed.
THEOREM DmaNeverEarly == SpmSpec => []DmaNotBeforeItsTime
<1>1. DmaInv /\ [SpmNext]_spmVars => DmaInv'
  BY DmaStep
<1>2. DmaInv => DmaNotBeforeItsTime
  BY DEF DmaInv
<1>3. QED BY <1>1, <1>2, DmaInitInv, PTL DEF SpmSpec
=============================================================================
