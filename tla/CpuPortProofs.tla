----------------------------- MODULE CpuPortProofs -----------------------------
(***************************************************************************)
(* Theorems about the CPU port of a scratchpad beside its DMA port: no     *)
(* response and no refused request is left without a wakeup, none leaves   *)
(* early, and a drain always has its signal to come, for every set of      *)
(* requests, latency, bandwidth and queue length.                          *)
(***************************************************************************)
EXTENDS ScratchpadProofs, WellFoundedInduction

QueueEntry == [pkt : Packet, delay : Nat, age : Nat]

\* Types of the CPU port.
CpuTypeOK ==
    /\ packetQueue \in Seq(QueueEntry)
    /\ isBusy \in BOOLEAN /\ retryReq \in BOOLEAN /\ retryResp \in BOOLEAN
    /\ peerWaits \in BOOLEAN /\ peerBlocks \in BOOLEAN
    /\ dequeueEvent \in Nat \cup {NotScheduled} /\ releaseEvent \in Nat \cup {NotScheduled}
    /\ drainState \in {"Running", "Draining", "Drained"}

\* The inductive invariant about the responses.  The types of the store are in
\* DmaInv.
RespInv == CpuTypeOK /\ ResponseWakeup /\ NotBeforeItsTime /\ DrainSignalComes

-----------------------------------------------------------------------------
\* Max of FiniteSetsExt on a set of positions.
LEMMA MaxOfPositions ==
    ASSUME NEW n \in Nat, NEW S \in SUBSET (1 .. n), S # {}
    PROVE  Max(S) \in S /\ \A y \in S : Max(S) >= y
<1> DEFINE U == {k \in Nat : \A x \in S : x <= k}
<1>1. IsWellFoundedOn(OpToRel(<, Nat), Nat)
  BY NatLessThanWellFounded
<1>2. n \in U
  OBVIOUS
<1>3. PICK m \in U : \A y \in U : ~(<<y, m>> \in OpToRel(<, Nat))
  <2>1. U \subseteq Nat /\ U # {}
    BY <1>2
  <2> HIDE DEF U
  <2>2. QED BY <1>1, <2>1, WFMin
<1>4. \A y \in U : ~(y < m)
  BY <1>3 DEF OpToRel
<1>5. m \in S
  <2>1. SUFFICES ASSUME m \notin S PROVE FALSE
    OBVIOUS
  <2>2. PICK x \in S : TRUE
    OBVIOUS
  <2>3. m \in Nat /\ \A z \in S : z \in Nat /\ z <= m
    OBVIOUS
  <2>4. \A z \in S : z <= m - 1
    BY <2>1, <2>3
  <2>5. m - 1 \in U
    BY <2>2, <2>3, <2>4
  <2>6. QED BY <1>4, <2>3, <2>5
<1>6. \A y \in S : m >= y
  OBVIOUS
<1>7. \E x \in S : \A y \in S : x >= y
  BY <1>5, <1>6
<1>8. QED BY <1>7 DEF Max

\* The insertion sort never puts a response before the first, nor before one
\* to the same address.
LEMMA InsertedBehind ==
    ASSUME packetQueue \in Seq(QueueEntry), packetQueue # <<>>, NEW pkt, NEW delay
    PROVE  /\ insertPoint(pkt, delay) \in 1 .. Len(packetQueue)
           /\ \A i \in 1 .. Len(packetQueue) :
                 packetQueue[i].pkt.addr = pkt.addr => i <= insertPoint(pkt, delay)
<1>1. Len(packetQueue) \in Nat /\ 1 \in 1 .. Len(packetQueue)
  BY EmptySeq
<1> DEFINE S == {1} \cup {i \in 1 .. Len(packetQueue) :
                              \/ delay >= packetQueue[i].delay
                              \/ packetQueue[i].pkt.addr = pkt.addr}
<1>2. S \subseteq 1 .. Len(packetQueue) /\ S # {}
  BY <1>1
<1>3. insertPoint(pkt, delay) = Max(S)
  BY DEF insertPoint
<1>4. \A i \in 1 .. Len(packetQueue) : packetQueue[i].pkt.addr = pkt.addr => i \in S
  OBVIOUS
<1> HIDE DEF S
<1>5. Max(S) \in S /\ \A y \in S : Max(S) >= y
  BY <1>1, <1>2, MaxOfPositions
<1>6. QED BY <1>1, <1>2, <1>3, <1>4, <1>5

\* emplace gives a queue whose head is the old one, if there was one.
LEMMA EmplaceHead ==
    ASSUME packetQueue \in Seq(QueueEntry), NEW pkt \in Packet, NEW delay \in Nat
    PROVE  /\ emplace(pkt, delay) \in Seq(QueueEntry)
           /\ emplace(pkt, delay) # <<>>
           /\ packetQueue # <<>> => emplace(pkt, delay)[1] = packetQueue[1]
           /\ packetQueue = <<>> => /\ Len(emplace(pkt, delay)) = 1
                                    /\ emplace(pkt, delay)[1].delay = delay
<1> DEFINE e == Entry(pkt, delay)
           k == insertPoint(pkt, delay)
           front == SubSeq(packetQueue, 1, k)
           back == SubSeq(packetQueue, k + 1, Len(packetQueue))
<1>1. e \in QueueEntry /\ e.delay = delay
  BY DEF Entry, QueueEntry
<1>2. emplace(pkt, delay) = front \o <<e>> \o back
  BY DEF emplace
<1>3. CASE packetQueue # <<>>
  <2>1. k \in 1 .. Len(packetQueue) /\ Len(packetQueue) \in Nat
    BY <1>3, InsertedBehind
  <2> HIDE DEF k, e
  <2>2. /\ front \in Seq(QueueEntry) /\ Len(front) = k /\ front[1] = packetQueue[1]
        /\ back \in Seq(QueueEntry)
    BY <2>1
  <2> HIDE DEF front, back
  <2>3. QED BY <1>1, <1>2, <1>3, <2>1, <2>2
<1>4. CASE packetQueue = <<>>
  <2>1. k = 0
    BY <1>4 DEF insertPoint
  <2> HIDE DEF k, e
  <2>2. front = <<>> /\ back = <<>>
    BY <1>4, <2>1
  <2> HIDE DEF front, back
  <2>3. QED BY <1>1, <1>2, <1>4, <2>2
<1>5. QED BY <1>3, <1>4

\* Popping the head leaves a queue.
LEMMA PoppedType ==
    ASSUME packetQueue \in Seq(QueueEntry), packetQueue # <<>>
    PROVE  Popped \in Seq(QueueEntry)
<1> DEFINE n == Len(packetQueue) - 1
           gone == Head(packetQueue).age
           Rerank(e) == IF e.age > gone THEN [e EXCEPT !.age = @ - 1] ELSE e
<1>1. n \in Nat /\ \A i \in 1 .. n : i + 1 \in 1 .. Len(packetQueue)
  BY EmptySeq
<1>2. gone \in Nat
  <2>1. Head(packetQueue) = packetQueue[1]
    BY EmptySeq
  <2>2. packetQueue[1] \in QueueEntry
    BY HeadIn
  <2>3. QED BY <2>1, <2>2 DEF QueueEntry
<1>3. \A e \in QueueEntry : Rerank(e) \in QueueEntry
  <2> HIDE DEF gone
  <2>1. QED BY <1>2 DEF QueueEntry
<1>4. \A i \in 1 .. n : Rerank(packetQueue[i + 1]) \in QueueEntry
  <2> HIDE DEF Rerank
  <2>1. QED BY <1>1, <1>3, ElementOfSeq
<1>5. Popped = [i \in 1 .. n |-> Rerank(packetQueue[i + 1])]
  BY DEF Popped
<1> HIDE DEF n, Rerank
<1>6. QED BY <1>1, <1>4, <1>5, IsASeq

-----------------------------------------------------------------------------
\* A request that is accepted, whether or not it has a response.
LEMMA CpuAccept ==
    ASSUME MemTypeOK, RespInv, NEW pkt \in Requests, NEW delay \in Delays,
           RecvTimingReq(pkt, delay)
    PROVE  RespInv'
<1>1. delay \in Nat
  BY SimpleMemoryAssumption
<1>2. /\ isBusy' \in BOOLEAN /\ releaseEvent' \in Nat \cup {NotScheduled}
      /\ UNCHANGED <<retryReq, retryResp, drainState, peerWaits, peerBlocks>>
  <2>1. pkt.data \in Seq(Value)
    BY AbstractMemoryAssumption DEF Packet
  <2>2. Len(pkt.data) \in Nat
    BY <2>1
  <2>3. Len(pkt.data) * Bandwidth \in Nat
    BY <2>2, SimpleMemoryAssumption
  <2>4. QED BY <2>3 DEF RecvTimingReq, RespInv, CpuTypeOK
<1>3. CASE needsResponse(pkt)
  <2> DEFINE q == emplace(Response(pkt), delay)
  <2>1. packetQueue \in Seq(QueueEntry)
    BY DEF RespInv, CpuTypeOK
  <2>2. Response(pkt) \in Packet
    BY ResponseType
  <2>3. /\ q \in Seq(QueueEntry) /\ q # <<>>
        /\ packetQueue # <<>> => q[1] = packetQueue[1]
        /\ packetQueue = <<>> => Len(q) = 1 /\ q[1].delay = delay
    BY <1>1, <2>1, <2>2, EmplaceHead
  <2>4. /\ packetQueue' = q
        /\ dequeueEvent' = IF ~retryResp /\ dequeueEvent = NotScheduled
                           THEN q[Len(q)].delay ELSE dequeueEvent
    BY <1>3 DEF RecvTimingReq
  <2> HIDE DEF q
  <2>5. CASE packetQueue = <<>>
    <3>1. ~retryResp /\ dequeueEvent = NotScheduled /\ ~peerBlocks /\ drainState # "Draining"
      BY <2>5, Zenon DEF RespInv, ResponseWakeup, DrainSignalComes
    <3>2. dequeueEvent' = delay /\ packetQueue'[1].delay = delay
      BY <2>3, <2>4, <2>5, <3>1
    <3>3. dequeueEvent' # NotScheduled
      BY <1>1, <3>2 DEF NotScheduled
    <3>4. ResponseWakeup'
      BY <1>2, <2>3, <2>4, <3>1, <3>3, Zenon DEF RespInv, ResponseWakeup
    <3>5. CpuTypeOK' /\ NotBeforeItsTime' /\ DrainSignalComes'
      BY <1>1, <1>2, <2>3, <2>4, <3>1, <3>2
      DEF RespInv, CpuTypeOK, NotBeforeItsTime, DrainSignalComes
    <3>6. QED BY <3>4, <3>5 DEF RespInv
  <2>6. CASE packetQueue # <<>>
    <3>1. retryResp \/ dequeueEvent # NotScheduled
      BY <2>6, Zenon DEF RespInv, ResponseWakeup
    <3>2. dequeueEvent' = dequeueEvent
      BY <2>4, <3>1
    <3>3. ResponseWakeup'
      BY <1>2, <2>3, <2>4, <2>6, <3>2, Zenon DEF RespInv, ResponseWakeup
    <3>4. CpuTypeOK' /\ NotBeforeItsTime' /\ DrainSignalComes'
      BY <1>2, <2>3, <2>4, <2>6, <3>2
      DEF RespInv, CpuTypeOK, NotBeforeItsTime, DrainSignalComes
    <3>5. QED BY <3>3, <3>4 DEF RespInv
  <2>7. QED BY <2>5, <2>6
<1>4. CASE ~needsResponse(pkt)
  <2>1. UNCHANGED <<packetQueue, dequeueEvent>>
    BY <1>4 DEF RecvTimingReq
  <2>2. QED
    BY <1>2, <2>1
    DEF RespInv, CpuTypeOK, ResponseWakeup, NotBeforeItsTime, DrainSignalComes
<1>5. QED BY <1>3, <1>4

\* Trying to send the head, from the event or from a retry.
LEMMA CpuSend ==
    ASSUME RespInv, NEW sent \in BOOLEAN, dequeue(sent, NotScheduled)
    PROVE  RespInv'
<1>1. /\ packetQueue \in Seq(QueueEntry) /\ packetQueue # <<>>
      /\ UNCHANGED <<isBusy, retryReq, releaseEvent, peerWaits>>
      /\ retryResp' = ~sent /\ peerBlocks' = ~sent
  BY DEF RespInv, CpuTypeOK, dequeue
<1>2. CASE sent
  <2>1. packetQueue' \in Seq(QueueEntry)
    BY <1>1, <1>2, PoppedType DEF dequeue
  <2>2. /\ dequeueEvent' = IF packetQueue' # <<>> THEN packetQueue'[1].delay ELSE NotScheduled
        /\ drainState' = IF packetQueue' = <<>> /\ drainState = "Draining"
                         THEN "Drained" ELSE drainState
        /\ retryResp' = FALSE /\ peerBlocks' = FALSE
    BY <1>1, <1>2 DEF dequeue
  <2>3. packetQueue' # <<>> => packetQueue'[1].delay \in Nat
    BY <2>1, HeadIn DEF QueueEntry
  <2>4. /\ dequeueEvent' \in Nat \cup {NotScheduled}
        /\ packetQueue' # <<>> <=> dequeueEvent' # NotScheduled
    BY <2>2, <2>3 DEF NotScheduled
  <2>5. ResponseWakeup'
    BY <2>2, <2>4, Zenon DEF ResponseWakeup
  <2>6. CpuTypeOK' /\ NotBeforeItsTime' /\ DrainSignalComes'
    BY <1>1, <2>1, <2>2, <2>3, <2>4
    DEF RespInv, CpuTypeOK, NotBeforeItsTime, DrainSignalComes, NotScheduled
  <2>7. QED BY <2>5, <2>6 DEF RespInv
<1>3. CASE ~sent
  <2>1. /\ UNCHANGED <<packetQueue, drainState>> /\ dequeueEvent' = NotScheduled
        /\ retryResp' = TRUE /\ peerBlocks' = TRUE
    BY <1>3 DEF dequeue
  <2>2. ResponseWakeup'
    BY <1>1, <2>1, Zenon DEF ResponseWakeup
  <2>3. CpuTypeOK' /\ NotBeforeItsTime' /\ DrainSignalComes'
    BY <1>1, <2>1 DEF RespInv, CpuTypeOK, NotBeforeItsTime, DrainSignalComes
  <2>4. QED BY <2>2, <2>3 DEF RespInv
<1>4. QED BY <1>2, <1>3

\* A functional write changes the data of queued responses, and nothing else.
LEMMA CpuFunctional ==
    ASSUME RespInv, NEW pkt \in FunctionalRequests, recvFunctional(pkt)
    PROVE  RespInv'
<1> DEFINE Patch(e) == [j \in 1 .. Len(e.pkt.data) |->
                           IF e.pkt.addr + j - 1 \in Covers(pkt)
                           THEN pkt.data[e.pkt.addr + j - pkt.addr] ELSE e.pkt.data[j]]
           Updated(e) == [e EXCEPT !.pkt.data = Patch(e)]
           New(e) == IF ~isRead(pkt) /\ (isRead(e.pkt) \/ isSwap(e.pkt))
                     THEN Updated(e) ELSE e
<1>1. /\ pkt \in Packet /\ pkt.data \in Seq(Value) /\ Len(pkt.data) \in Nat
      /\ pkt.addr \in Int
  <2>1. pkt \in Packet
    BY AbstractMemoryAssumption
  <2>2. pkt.data \in Seq(Value) /\ pkt.addr \in Granule
    BY <2>1 DEF Packet
  <2>3. pkt.addr \in Int
    BY <2>2, AbstractMemoryAssumption, Zenon
  <2>4. Len(pkt.data) \in Nat
    BY <2>2
  <2>5. QED BY <2>1, <2>2, <2>3, <2>4
<1>2. ASSUME NEW e \in QueueEntry
      PROVE  New(e) \in QueueEntry /\ New(e).delay = e.delay
  <2>1. /\ e.pkt \in Packet /\ e.pkt.data \in Seq(Value) /\ e.pkt.data # <<>>
        /\ Len(e.pkt.data) \in Nat \ {0} /\ e.pkt.addr \in Int
    BY AbstractMemoryAssumption, EmptySeq DEF Packet, QueueEntry
  <2>2. Patch(e) \in Seq(Value)
    <3>1. ASSUME NEW j \in 1 .. Len(e.pkt.data), e.pkt.addr + j - 1 \in Covers(pkt)
          PROVE  pkt.data[e.pkt.addr + j - pkt.addr] \in Value
      <4>1. e.pkt.addr + j - pkt.addr \in 1 .. Len(pkt.data)
        <5>1. \A a, b \in Int, n, i \in Nat :
                 a + i - 1 \in b .. (b + n - 1) => a + i - b \in 1 .. n
          OBVIOUS
        <5>2. j \in Nat
          BY <2>1
        <5>3. e.pkt.addr + j - 1 \in pkt.addr .. (pkt.addr + Len(pkt.data) - 1)
          BY <3>1, Zenon DEF Covers
        <5>4. QED BY <1>1, <2>1, <5>1, <5>2, <5>3
      <4>2. QED BY <1>1, <4>1, ElementOfSeq
    <3>2. \A j \in 1 .. Len(e.pkt.data) : e.pkt.data[j] \in Value
      BY <2>1, ElementOfSeq
    <3>3. \A j \in 1 .. Len(e.pkt.data) : Patch(e)[j] \in Value
      BY <3>1, <3>2
    <3>4. QED BY <2>1, <3>1, <3>2, IsASeq
  <2>3. Patch(e) # <<>>
    BY <2>1
  <2> HIDE DEF Patch
  <2>4. Updated(e) \in QueueEntry /\ Updated(e).delay = e.delay
    BY <2>2, <2>3 DEF QueueEntry, Packet
  <2> HIDE DEF Updated
  <2>5. QED BY <2>4
<1>3. packetQueue \in Seq(QueueEntry) /\ Len(packetQueue) \in Nat
  BY DEF RespInv, CpuTypeOK
<1>4. packetQueue' = [i \in 1 .. Len(packetQueue) |-> New(packetQueue[i])]
  BY DEF recvFunctional
<1> HIDE DEF New
<1>5. packetQueue' \in Seq(QueueEntry) /\ Len(packetQueue') = Len(packetQueue)
  <2>1. \A i \in 1 .. Len(packetQueue) : New(packetQueue[i]) \in QueueEntry
    BY <1>2, <1>3, ElementOfSeq
  <2>2. packetQueue' \in Seq(QueueEntry)
    BY <1>3, <1>4, <2>1, IsASeq
  <2>3. QED BY <1>3, <1>4, <2>2
<1>6. packetQueue' # <<>> <=> packetQueue # <<>>
  BY <1>3, <1>5, EmptySeq
<1>7. packetQueue # <<>> => packetQueue'[1].delay = packetQueue[1].delay
  <2>1. SUFFICES ASSUME packetQueue # <<>>
                 PROVE  packetQueue'[1].delay = packetQueue[1].delay
    OBVIOUS
  <2>2. packetQueue[1] \in QueueEntry
    BY <1>3, <2>1, HeadIn
  <2>3. 1 \in 1 .. Len(packetQueue)
    BY <1>3, <2>1, EmptySeq
  <2>4. QED BY <1>2, <1>4, <2>2, <2>3
<1>8. UNCHANGED <<isBusy, retryReq, retryResp, dequeueEvent, releaseEvent, drainState,
                  peerWaits, peerBlocks>>
  BY DEF recvFunctional
<1>9. ResponseWakeup' /\ DrainSignalComes'
  BY <1>6, <1>8, Zenon DEF RespInv, ResponseWakeup, DrainSignalComes
<1>10. dequeueEvent # NotScheduled => packetQueue # <<>>
  BY Zenon DEF RespInv, ResponseWakeup
<1>11. CpuTypeOK' /\ NotBeforeItsTime'
  BY <1>5, <1>7, <1>8, <1>10 DEF RespInv, CpuTypeOK, NotBeforeItsTime
<1>12. QED BY <1>9, <1>11 DEF RespInv

\* One tick brings every queued response and both events nearer by one.
LEMMA CpuElapse ==
    ASSUME RespInv, Elapse
    PROVE  RespInv'
<1> DEFINE Tick(e) == [e EXCEPT !.delay = Earlier(@)]
<1>1. packetQueue \in Seq(QueueEntry) /\ Len(packetQueue) \in Nat
  BY DEF RespInv, CpuTypeOK
<1>2. packetQueue' = [i \in 1 .. Len(packetQueue) |-> Tick(packetQueue[i])]
  BY DEF Elapse
<1>3. \A e \in QueueEntry : /\ Tick(e) \in QueueEntry
                            /\ Tick(e).delay = Earlier(e.delay)
  BY DEF Earlier, QueueEntry
<1> HIDE DEF Tick
<1>4. packetQueue' \in Seq(QueueEntry) /\ Len(packetQueue') = Len(packetQueue)
  <2>1. \A i \in 1 .. Len(packetQueue) : Tick(packetQueue[i]) \in QueueEntry
    BY <1>1, <1>3, ElementOfSeq
  <2>2. packetQueue' \in Seq(QueueEntry)
    BY <1>1, <1>2, <2>1, IsASeq
  <2>3. QED BY <1>1, <1>2, <2>2
<1>5. packetQueue' # <<>> <=> packetQueue # <<>>
  BY <1>1, <1>4, EmptySeq
<1>6. packetQueue # <<>> => /\ packetQueue[1].delay \in Nat
                            /\ packetQueue'[1].delay = Earlier(packetQueue[1].delay)
  <2>1. SUFFICES ASSUME packetQueue # <<>>
                 PROVE  /\ packetQueue[1].delay \in Nat
                        /\ packetQueue'[1].delay = Earlier(packetQueue[1].delay)
    OBVIOUS
  <2>2. packetQueue[1] \in QueueEntry
    BY <1>1, <2>1, HeadIn
  <2>3. 1 \in 1 .. Len(packetQueue)
    BY <1>1, <2>1, EmptySeq
  <2>4. packetQueue[1].delay \in Nat
    BY <2>2 DEF QueueEntry
  <2>5. QED BY <1>2, <1>3, <2>2, <2>3, <2>4
<1>7. /\ dequeueEvent' = Earlier(dequeueEvent) /\ dequeueEvent # 0
      /\ releaseEvent' = Earlier(releaseEvent) /\ releaseEvent # 0
      /\ UNCHANGED <<isBusy, retryReq, retryResp, drainState, peerWaits, peerBlocks>>
  BY DEF Elapse, Due
<1>8. /\ dequeueEvent' \in Nat \cup {NotScheduled}
      /\ releaseEvent' \in Nat \cup {NotScheduled}
      /\ dequeueEvent' = NotScheduled <=> dequeueEvent = NotScheduled
  BY <1>7 DEF RespInv, CpuTypeOK, Earlier, NotScheduled
<1>9. CpuTypeOK'
  BY <1>4, <1>7, <1>8 DEF RespInv, CpuTypeOK
<1>10. ResponseWakeup' /\ DrainSignalComes'
  BY <1>5, <1>7, <1>8, Zenon DEF RespInv, ResponseWakeup, DrainSignalComes
<1>11. NotBeforeItsTime'
  <2>1. dequeueEvent' # NotScheduled => packetQueue # <<>> /\ dequeueEvent # NotScheduled
    BY <1>8, Zenon DEF RespInv, ResponseWakeup
  <2>2. QED
    BY <1>6, <1>7, <2>1
    DEF RespInv, CpuTypeOK, NotBeforeItsTime, Earlier, NotScheduled
<1>12. QED BY <1>9, <1>10, <1>11 DEF RespInv

\* A step that leaves the responses alone keeps their invariant.
LEMMA CpuPortIdle ==
    ASSUME RespInv, UNCHANGED portVars
    PROVE  RespInv'
BY DEF portVars, RespInv, CpuTypeOK, ResponseWakeup, NotBeforeItsTime, DrainSignalComes

\* Every step of the scratchpad keeps the invariant about the responses.
LEMMA CpuStep ==
    ASSUME DmaInv, RespInv, [SpmNext]_spmVars
    PROVE  RespInv'
<1>1. CASE RecvTimingReqRefused \/ release
  <2>1. /\ UNCHANGED <<packetQueue, retryResp, dequeueEvent, drainState, peerBlocks>>
        /\ isBusy' \in BOOLEAN /\ retryReq' \in BOOLEAN /\ peerWaits' \in BOOLEAN
        /\ releaseEvent' \in Nat \cup {NotScheduled}
    BY <1>1 DEF RecvTimingReqRefused, release, RespInv, CpuTypeOK
  <2>2. QED
    BY <2>1 DEF RespInv, CpuTypeOK, ResponseWakeup, NotBeforeItsTime, DrainSignalComes
<1>2. CASE \E pkt \in Requests \ DmaRequests, delay \in Delays : RecvTimingReq(pkt, delay)
  BY <1>2, CpuAccept DEF DmaInv
<1>3. ASSUME NEW sent \in BOOLEAN, DequeueEvent(sent) PROVE RespInv'
  BY <1>3, CpuSend DEF DequeueEvent
<1>4. ASSUME NEW sent \in BOOLEAN, recvRespRetry(sent) PROVE RespInv'
  <2>1. dequeueEvent = NotScheduled
    BY <1>4, Zenon DEF recvRespRetry, RespInv, ResponseWakeup
  <2>2. QED BY <1>4, <2>1, CpuSend DEF recvRespRetry
<1>5. CASE drain \/ drainResume
  <2>1. /\ UNCHANGED <<packetQueue, isBusy, retryReq, retryResp, dequeueEvent, releaseEvent,
                       peerWaits, peerBlocks>>
        /\ drainState' \in {"Running", "Draining", "Drained"}
        /\ drainState' = "Draining" => packetQueue # <<>>
    BY <1>5 DEF drain, drainResume, RespInv, CpuTypeOK
  <2>2. QED
    BY <2>1 DEF RespInv, CpuTypeOK, ResponseWakeup, NotBeforeItsTime, DrainSignalComes
<1>6. CASE \E pkt \in DmaRequests, delay \in DmaDelays : dmaRecvTimingReq(pkt, delay)
  BY <1>6, CpuPortIdle DEF dmaRecvTimingReq
<1>7. CASE \E sent \in BOOLEAN : DmaDequeueEvent(sent) \/ dmaRecvRespRetry(sent)
  <2>1. UNCHANGED portVars
    BY <1>7 DEF DmaDequeueEvent, dmaRecvRespRetry, dmaDequeue, simpleVars
  <2>2. QED BY <2>1, CpuPortIdle
<1>8. CASE \E pkt \in FunctionalRequests : spmRecvFunctional(pkt)
  BY <1>8, CpuFunctional DEF spmRecvFunctional
<1>9. CASE SpmElapse
  BY <1>9, CpuElapse DEF SpmElapse
<1>10. CASE UNCHANGED spmVars
  BY <1>10, CpuPortIdle DEF spmVars, simpleVars
<1>11. QED
  BY <1>1, <1>2, <1>3, <1>4, <1>5, <1>6, <1>7, <1>8, <1>9, <1>10 DEF SpmNext, CpuPort

\* The initial state satisfies it.
LEMMA CpuInit == SpmInit => RespInv
<1>1. SUFFICES ASSUME SpmInit PROVE RespInv
  OBVIOUS
<1>2. CpuTypeOK /\ NotBeforeItsTime /\ DrainSignalComes
  BY <1>1, EmptySeq
  DEF SpmInit, SimpleInit, PortInit, CpuTypeOK, NotBeforeItsTime, DrainSignalComes
<1>3. ResponseWakeup
  BY <1>1, Zenon DEF SpmInit, SimpleInit, PortInit, ResponseWakeup
<1>4. QED BY <1>2, <1>3 DEF RespInv

-----------------------------------------------------------------------------
\* Whatever latency each request draws and however the peer answers, a response
\* of SimpleMemory's queue has exactly one of dequeueEvent and the peer's retry
\* to wake it, also where a functional access rewrites it and a drain is under
\* way: recvTimingReq, dequeue and recvRespRetry never lose a wakeup.
THEOREM CpuWakeupNeverLost == SpmSpec => []ResponseWakeup
<1>1. (DmaInv /\ RespInv) /\ [SpmNext]_spmVars => (DmaInv /\ RespInv)'
  BY DmaStep, CpuStep
<1>2. RespInv => ResponseWakeup
  BY DEF RespInv
<1>3. QED BY <1>1, <1>2, DmaInitInv, CpuInit, PTL DEF SpmSpec

\* dequeueEvent never runs before the response at the head is due, although
\* recvTimingReq schedules it from the back of the sorted queue.
THEOREM CpuNeverEarly == SpmSpec => []NotBeforeItsTime
<1>1. (DmaInv /\ RespInv) /\ [SpmNext]_spmVars => (DmaInv /\ RespInv)'
  BY DmaStep, CpuStep
<1>2. RespInv => NotBeforeItsTime
  BY DEF RespInv
<1>3. QED BY <1>1, <1>2, DmaInitInv, CpuInit, PTL DEF SpmSpec

\* A memory that answered "Draining" still holds the response whose departure
\* signals the drain manager.
THEOREM CpuDrainSignalComes == SpmSpec => []DrainSignalComes
<1>1. (DmaInv /\ RespInv) /\ [SpmNext]_spmVars => (DmaInv /\ RespInv)'
  BY DmaStep, CpuStep
<1>2. RespInv => DrainSignalComes
  BY DEF RespInv
<1>3. QED BY <1>1, <1>2, DmaInitInv, CpuInit, PTL DEF SpmSpec

\* The invariant about the requests.
ReqInv == RespInv /\ RequestWakeup

\* Accepting a request, and every other step, keeps a retry for the refused one.
LEMMA RequestStep ==
    ASSUME DmaInv, ReqInv, [SpmNext]_spmVars
    PROVE  RequestWakeup'
<1>1. CASE RecvTimingReqRefused
  BY <1>1, Zenon DEF RecvTimingReqRefused, ReqInv, RequestWakeup
<1>2. ASSUME NEW pkt \in Requests, NEW delay \in Delays, RecvTimingReq(pkt, delay)
      PROVE  RequestWakeup'
  <2> DEFINE duration == Len(pkt.data) * Bandwidth
  <2>1. pkt.data \in Seq(Value)
    BY AbstractMemoryAssumption DEF Packet
  <2>2. Len(pkt.data) \in Nat
    BY <2>1
  <2>3. duration \in Nat
    BY <2>2, SimpleMemoryAssumption
  <2>4. duration # NotScheduled
    BY <2>3 DEF NotScheduled
  <2>5. /\ ~retryReq /\ ~isBusy
        /\ isBusy' = (duration # 0)
        /\ releaseEvent' = IF duration # 0 THEN duration ELSE releaseEvent
        /\ retryReq' = retryReq /\ peerWaits' = peerWaits
    BY <1>2 DEF RecvTimingReq
  <2> HIDE DEF duration
  <2>6. QED BY <2>4, <2>5, Zenon DEF ReqInv, RequestWakeup
<1>3. CASE release
  <2>1. /\ releaseEvent' = NotScheduled /\ ~isBusy' /\ ~retryReq' /\ isBusy' = FALSE
        /\ retryReq' = FALSE /\ peerWaits' = FALSE
    <3>1. peerWaits = retryReq /\ retryReq \in BOOLEAN
      BY DEF ReqInv, RequestWakeup, RespInv, CpuTypeOK
    <3>2. QED BY <1>3, <3>1 DEF release
  <2>2. QED BY <2>1, Zenon DEF RequestWakeup
<1>4. CASE SpmElapse
  <2>1. /\ releaseEvent' = Earlier(releaseEvent) /\ releaseEvent # 0
        /\ UNCHANGED <<isBusy, retryReq, peerWaits>>
    BY <1>4 DEF SpmElapse, Elapse, Due
  <2>2. releaseEvent' = NotScheduled <=> releaseEvent = NotScheduled
    BY <2>1 DEF ReqInv, RespInv, CpuTypeOK, Earlier, NotScheduled
  <2>3. QED BY <2>1, <2>2, Zenon DEF ReqInv, RequestWakeup
<1>5. ASSUME UNCHANGED <<isBusy, retryReq, releaseEvent, peerWaits>> PROVE RequestWakeup'
  BY <1>5 DEF ReqInv, RequestWakeup
<1>6. CASE drain \/ drainResume
  BY <1>5, <1>6 DEF drain, drainResume
<1>7. CASE \E sent \in BOOLEAN : DequeueEvent(sent) \/ recvRespRetry(sent)
  BY <1>5, <1>7 DEF DequeueEvent, recvRespRetry, dequeue
<1>8. CASE \E pkt \in DmaRequests, delay \in DmaDelays : dmaRecvTimingReq(pkt, delay)
  BY <1>5, <1>8 DEF dmaRecvTimingReq, portVars
<1>9. CASE \E sent \in BOOLEAN : DmaDequeueEvent(sent) \/ dmaRecvRespRetry(sent)
  <2>1. UNCHANGED portVars
    BY <1>9 DEF DmaDequeueEvent, dmaRecvRespRetry, dmaDequeue, simpleVars
  <2>2. QED BY <1>5, <2>1 DEF portVars
<1>10. CASE \E pkt \in FunctionalRequests : spmRecvFunctional(pkt)
  BY <1>5, <1>10 DEF spmRecvFunctional, recvFunctional
<1>11. CASE UNCHANGED spmVars
  BY <1>5, <1>11 DEF spmVars, simpleVars, portVars
<1>12. QED
  BY <1>1, <1>2, <1>3, <1>4, <1>6, <1>7, <1>8, <1>9, <1>10, <1>11 DEF SpmNext, CpuPort

\* A refused request is always remembered, and the memory is then busy with the
\* release event pending that sends the retry, for every bandwidth (at zero
\* bandwidth the memory is never busy and refuses nothing).
THEOREM RefusedIsRemembered == SpmSpec => []RequestWakeup
<1>1. (DmaInv /\ ReqInv) /\ [SpmNext]_spmVars => (DmaInv /\ ReqInv)'
  BY DmaStep, CpuStep, RequestStep DEF ReqInv
<1>2. SpmInit => RequestWakeup
  BY Zenon DEF SpmInit, SimpleInit, PortInit, RequestWakeup
<1>3. SpmInit => DmaInv /\ ReqInv
  BY <1>2, DmaInitInv, CpuInit DEF ReqInv
<1>4. ReqInv => RequestWakeup
  BY DEF ReqInv
<1>5. QED BY <1>1, <1>3, <1>4, PTL DEF SpmSpec
=============================================================================
