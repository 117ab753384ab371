-------------------------- MODULE ResponseOrderProofs --------------------------
(***************************************************************************)
(* The insertion sort of SimpleMemory's response queue keeps the responses *)
(* to one address in the order of their requests.                          *)
(***************************************************************************)
EXTENDS CpuPortProofs

\* The ranks are a numbering of the queue: 1 to its length, each once.  Without
\* it a new response could not be told to be the youngest.
RanksOK ==
    /\ \A i \in 1 .. Len(packetQueue) : packetQueue[i].age \in 1 .. Len(packetQueue)
    /\ \A i, j \in 1 .. Len(packetQueue) :
          i # j => packetQueue[i].age # packetQueue[j].age

OrderInv == RanksOK /\ SameAddressInOrder

-----------------------------------------------------------------------------
\* Where each entry of the queue is after an insertion.
LEMMA EmplaceAt ==
    ASSUME packetQueue \in Seq(QueueEntry), NEW pkt \in Packet, NEW delay \in Nat
    PROVE  \E k \in 0 .. Len(packetQueue) :
              /\ Len(emplace(pkt, delay)) = Len(packetQueue) + 1
              /\ \A i \in 1 .. k : emplace(pkt, delay)[i] = packetQueue[i]
              /\ emplace(pkt, delay)[k + 1] = Entry(pkt, delay)
              /\ \A i \in k + 2 .. Len(packetQueue) + 1 :
                    emplace(pkt, delay)[i] = packetQueue[i - 1]
              /\ \A i \in k + 1 .. Len(packetQueue) : packetQueue[i].pkt.addr # pkt.addr
<1> DEFINE e == Entry(pkt, delay)
           n == Len(packetQueue)
           k == insertPoint(pkt, delay)
           front == SubSeq(packetQueue, 1, k)
           back == SubSeq(packetQueue, k + 1, n)
<1>1. n \in Nat /\ e \in QueueEntry
  BY DEF Entry, QueueEntry
<1>2. emplace(pkt, delay) = front \o <<e>> \o back
  BY DEF emplace
<1>3. /\ k \in 0 .. n
      /\ \A i \in k + 1 .. n : packetQueue[i].pkt.addr # pkt.addr
  <2>1. CASE packetQueue = <<>>
    <3>1. k = 0 /\ n = 0
      BY <2>1 DEF insertPoint
    <3>2. QED BY <3>1
  <2>2. CASE packetQueue # <<>>
    <3>1. /\ k \in 1 .. n
          /\ \A i \in 1 .. n : packetQueue[i].pkt.addr = pkt.addr => i <= k
      BY <2>2, InsertedBehind
    <3> HIDE DEF k
    <3>2. QED BY <1>1, <3>1
  <2>3. QED BY <2>1, <2>2
<1> HIDE DEF e, k
<1>4. /\ front \in Seq(QueueEntry) /\ Len(front) = k
      /\ \A i \in 1 .. k : front[i] = packetQueue[i]
  BY <1>1, <1>3
<1>5. /\ back \in Seq(QueueEntry) /\ Len(back) = n - k
      /\ \A i \in 1 .. n - k : back[i] = packetQueue[k + i]
  BY <1>1, <1>3
<1> HIDE DEF front, back
<1> DEFINE mid == front \o <<e>>
<1>6. /\ mid \in Seq(QueueEntry) /\ Len(mid) = k + 1
      /\ \A i \in 1 .. k : mid[i] = packetQueue[i]
      /\ mid[k + 1] = e
  BY <1>1, <1>3, <1>4
<1> HIDE DEF mid
<1> DEFINE new == mid \o back
<1>7. /\ Len(new) = n + 1
      /\ \A i \in 1 .. k + 1 : new[i] = mid[i]
      /\ \A i \in k + 2 .. n + 1 : new[i] = back[i - (k + 1)]
  BY <1>1, <1>3, <1>5, <1>6
<1>8. emplace(pkt, delay) = new
  BY <1>2 DEF mid
<1> HIDE DEF new
<1>9. ASSUME NEW i \in k + 2 .. n + 1
      PROVE  new[i] = packetQueue[i - 1]
  <2>1. i - (k + 1) \in 1 .. n - k /\ k + (i - (k + 1)) = i - 1
    BY <1>1, <1>3
  <2>2. QED BY <1>5, <1>7, <2>1
<1>10. /\ \A i \in 1 .. k : new[i] = packetQueue[i]
       /\ new[k + 1] = e
  BY <1>1, <1>3, <1>6, <1>7
<1>11. QED BY <1>3, <1>7, <1>8, <1>9, <1>10 DEF e

\* A queue that keeps its length, addresses and ranks keeps its order.
LEMMA SameShape ==
    ASSUME OrderInv, Len(packetQueue') = Len(packetQueue),
           \A i \in 1 .. Len(packetQueue) :
              /\ packetQueue'[i].age = packetQueue[i].age
              /\ packetQueue'[i].pkt.addr = packetQueue[i].pkt.addr
    PROVE  OrderInv'
BY DEF OrderInv, RanksOK, SameAddressInOrder

\* Inserting the youngest response.
LEMMA EmplaceKeepsOrder ==
    ASSUME packetQueue \in Seq(QueueEntry), OrderInv, NEW pkt \in Packet, NEW delay \in Nat,
           packetQueue' = emplace(pkt, delay)
    PROVE  OrderInv'
<1> DEFINE n == Len(packetQueue)
<1>1. n \in Nat
  OBVIOUS
<1>2. PICK k \in 0 .. n :
         /\ Len(packetQueue') = n + 1
         /\ \A i \in 1 .. k : packetQueue'[i] = packetQueue[i]
         /\ packetQueue'[k + 1] = Entry(pkt, delay)
         /\ \A i \in k + 2 .. n + 1 : packetQueue'[i] = packetQueue[i - 1]
         /\ \A i \in k + 1 .. n : packetQueue[i].pkt.addr # pkt.addr
  <2> DEFINE new == emplace(pkt, delay)
  <2>1. PICK k \in 0 .. n :
           /\ Len(new) = n + 1
           /\ \A i \in 1 .. k : new[i] = packetQueue[i]
           /\ new[k + 1] = Entry(pkt, delay)
           /\ \A i \in k + 2 .. n + 1 : new[i] = packetQueue[i - 1]
           /\ \A i \in k + 1 .. n : packetQueue[i].pkt.addr # pkt.addr
    BY EmplaceAt, Zenon
  <2>2. packetQueue' = new
    OBVIOUS
  <2> HIDE DEF new, n
  <2>3. QED BY <2>1, <2>2, Zenon
<1>3. packetQueue'[k + 1].age = n + 1 /\ packetQueue'[k + 1].pkt.addr = pkt.addr
  BY <1>2 DEF Entry
<1> DEFINE old(i) == IF i <= k THEN i ELSE i - 1
<1>4. ASSUME NEW i \in 1 .. n + 1, i # k + 1
      PROVE  old(i) \in 1 .. n /\ packetQueue'[i] = packetQueue[old(i)]
  <2>1. CASE i <= k
    <3>1. i \in 1 .. k /\ old(i) = i /\ i \in 1 .. n
      BY <1>1, <2>1
    <3>2. QED BY <1>2, <3>1
  <2>2. CASE ~(i <= k)
    <3>1. i \in k + 2 .. n + 1 /\ old(i) = i - 1 /\ i - 1 \in 1 .. n
      BY <1>1, <1>4, <2>2
    <3>2. QED BY <1>2, <3>1
  <2>3. QED BY <2>1, <2>2
<1>5. \A i, j \in 1 .. n + 1 : i < j /\ i # k + 1 /\ j # k + 1 => old(i) < old(j)
  BY <1>1, <1>2
<1>6. \A i, j \in 1 .. n + 1 : i # j /\ i # k + 1 /\ j # k + 1 => old(i) # old(j)
  BY <1>1, <1>2
<1>7. \A j \in 1 .. n + 1 : k + 1 < j => old(j) \in k + 1 .. n
  BY <1>1, <1>2
<1> HIDE DEF old
<1>8. /\ \A i \in 1 .. n : packetQueue[i].age \in 1 .. n
      /\ \A i, j \in 1 .. n : i # j => packetQueue[i].age # packetQueue[j].age
      /\ \A i, j \in 1 .. n :
            i < j /\ packetQueue[i].pkt.addr = packetQueue[j].pkt.addr
               => packetQueue[i].age < packetQueue[j].age
  BY DEF OrderInv, RanksOK, SameAddressInOrder
<1>9. \A i \in 1 .. n + 1 : i # k + 1 => packetQueue'[i].age \in 1 .. n
  BY <1>4, <1>8
<1>10. \A i \in 1 .. n + 1 : packetQueue'[i].age \in 1 .. n + 1
  BY <1>1, <1>3, <1>9
<1>11. ASSUME NEW i \in 1 .. n + 1, NEW j \in 1 .. n + 1, i # j
       PROVE  packetQueue'[i].age # packetQueue'[j].age
  <2>1. CASE i = k + 1 \/ j = k + 1
    BY <1>1, <1>3, <1>9, <1>11, <2>1
  <2>2. CASE i # k + 1 /\ j # k + 1
    BY <1>4, <1>6, <1>8, <1>11, <2>2
  <2>3. QED BY <2>1, <2>2
<1>12. ASSUME NEW i \in 1 .. n + 1, NEW j \in 1 .. n + 1, i < j,
              packetQueue'[i].pkt.addr = packetQueue'[j].pkt.addr
       PROVE  packetQueue'[i].age < packetQueue'[j].age
  <2>1. CASE i = k + 1
    <3>1. old(j) \in k + 1 .. n /\ packetQueue'[j] = packetQueue[old(j)]
      BY <1>4, <1>7, <1>12, <2>1
    <3>2. QED BY <1>2, <1>3, <1>12, <2>1, <3>1
  <2>2. CASE j = k + 1
    BY <1>1, <1>3, <1>9, <1>12, <2>2
  <2>3. CASE i # k + 1 /\ j # k + 1
    BY <1>4, <1>5, <1>8, <1>12, <2>3
  <2>4. QED BY <2>1, <2>2, <2>3
<1>13. QED BY <1>2, <1>10, <1>11, <1>12 DEF OrderInv, RanksOK, SameAddressInOrder

\* Popping the head: the ranks close up without changing places.
LEMMA PoppedKeepsOrder ==
    ASSUME packetQueue \in Seq(QueueEntry), packetQueue # <<>>, OrderInv,
           packetQueue' = Popped
    PROVE  OrderInv'
<1> DEFINE n == Len(packetQueue)
           gone == packetQueue[1].age
           rank(a) == IF a > gone THEN a - 1 ELSE a
<1>1. n \in Nat \ {0} /\ Head(packetQueue) = packetQueue[1]
  BY EmptySeq
<1>2. Len(packetQueue') = n - 1
  <2>1. Popped \in Seq(QueueEntry)
    BY PoppedType
  <2>2. QED BY <1>1, <2>1 DEF Popped
<1>3. ASSUME NEW i \in 1 .. n - 1
      PROVE  /\ i + 1 \in 2 .. n
             /\ packetQueue'[i].age = rank(packetQueue[i + 1].age)
             /\ packetQueue'[i].pkt.addr = packetQueue[i + 1].pkt.addr
  <2> DEFINE e == packetQueue[i + 1]
  <2>1. i + 1 \in 2 .. n /\ i + 1 \in 1 .. n
    BY <1>1
  <2>2. e \in QueueEntry
    BY <2>1, ElementOfSeq
  <2>3. packetQueue'[i] = IF e.age > gone THEN [e EXCEPT !.age = @ - 1] ELSE e
    BY <1>1 DEF Popped
  <2> HIDE DEF e, gone
  <2>4. packetQueue'[i].age = rank(e.age) /\ packetQueue'[i].pkt.addr = e.pkt.addr
    BY <2>2, <2>3 DEF QueueEntry
  <2>5. QED BY <2>1, <2>4 DEF e
<1>4. /\ \A i \in 1 .. n : packetQueue[i].age \in 1 .. n
      /\ \A i, j \in 1 .. n : i # j => packetQueue[i].age # packetQueue[j].age
      /\ \A i, j \in 1 .. n :
            i < j /\ packetQueue[i].pkt.addr = packetQueue[j].pkt.addr
               => packetQueue[i].age < packetQueue[j].age
  BY DEF OrderInv, RanksOK, SameAddressInOrder
<1>5. gone \in 1 .. n /\ \A i \in 2 .. n : packetQueue[i].age \in (1 .. n) \ {gone}
  BY <1>1, <1>4
<1> HIDE DEF gone
<1>6. /\ \A a \in (1 .. n) \ {gone} : rank(a) \in 1 .. n - 1
      /\ \A a, b \in (1 .. n) \ {gone} : a < b => rank(a) < rank(b)
      /\ \A a, b \in (1 .. n) \ {gone} : a # b => rank(a) # rank(b)
  BY <1>1, <1>5
<1> HIDE DEF rank
<1>7. \A i \in 1 .. n - 1 : packetQueue'[i].age \in 1 .. n - 1
  BY <1>3, <1>5, <1>6
<1>8. ASSUME NEW i \in 1 .. n - 1, NEW j \in 1 .. n - 1
      PROVE  /\ i # j => packetQueue'[i].age # packetQueue'[j].age
             /\ i < j /\ packetQueue'[i].pkt.addr = packetQueue'[j].pkt.addr
                  => packetQueue'[i].age < packetQueue'[j].age
  <2>1. /\ i + 1 \in 1 .. n /\ j + 1 \in 1 .. n
        /\ i + 1 \in 2 .. n /\ j + 1 \in 2 .. n
        /\ i # j => i + 1 # j + 1
        /\ i < j => i + 1 < j + 1
    BY <1>1
  <2>2. /\ packetQueue[i + 1].age \in (1 .. n) \ {gone}
        /\ packetQueue[j + 1].age \in (1 .. n) \ {gone}
    BY <1>5, <2>1
  <2>3. i # j => packetQueue'[i].age # packetQueue'[j].age
    BY <1>3, <1>4, <1>6, <2>1, <2>2
  <2>4. ASSUME i < j, packetQueue'[i].pkt.addr = packetQueue'[j].pkt.addr
        PROVE  packetQueue'[i].age < packetQueue'[j].age
    <3>1. packetQueue[i + 1].age < packetQueue[j + 1].age
      BY <1>3, <1>4, <2>1, <2>4
    <3>2. QED BY <1>3, <1>6, <2>2, <3>1
  <2>5. QED BY <2>3, <2>4
<1>9. QED BY <1>2, <1>7, <1>8 DEF OrderInv, RanksOK, SameAddressInOrder

\* A functional access changes no address and no rank.
LEMMA FunctionalKeepsOrder ==
    ASSUME packetQueue \in Seq(QueueEntry), OrderInv, NEW pkt, recvFunctional(pkt)
    PROVE  OrderInv'
<1> DEFINE Patch(e) == [j \in 1 .. Len(e.pkt.data) |->
                           IF e.pkt.addr + j - 1 \in Covers(pkt)
                           THEN pkt.data[e.pkt.addr + j - pkt.addr] ELSE e.pkt.data[j]]
           New(e) == IF ~isRead(pkt) /\ (isRead(e.pkt) \/ isSwap(e.pkt))
                     THEN [e EXCEPT !.pkt.data = Patch(e)] ELSE e
<1>1. Len(packetQueue) \in Nat
  OBVIOUS
<1>2. packetQueue' = [i \in 1 .. Len(packetQueue) |-> New(packetQueue[i])]
  BY DEF recvFunctional
<1>3. \A e \in QueueEntry : New(e).age = e.age /\ New(e).pkt.addr = e.pkt.addr
  <2> HIDE DEF Patch
  <2>1. QED BY DEF QueueEntry, Packet
<1> HIDE DEF New
<1>4. Len(packetQueue') = Len(packetQueue)
  BY <1>1, <1>2
<1>5. \A i \in 1 .. Len(packetQueue) : packetQueue[i] \in QueueEntry
  BY ElementOfSeq
<1>6. QED BY <1>2, <1>3, <1>4, <1>5, SameShape

\* Nor does the passing of a tick.
LEMMA ElapseKeepsOrder ==
    ASSUME packetQueue \in Seq(QueueEntry), OrderInv, Elapse
    PROVE  OrderInv'
<1> DEFINE Tick(e) == [e EXCEPT !.delay = Earlier(@)]
<1>1. Len(packetQueue) \in Nat
  OBVIOUS
<1>2. packetQueue' = [i \in 1 .. Len(packetQueue) |-> Tick(packetQueue[i])]
  BY DEF Elapse
<1>3. \A e \in QueueEntry : Tick(e).age = e.age /\ Tick(e).pkt.addr = e.pkt.addr
  BY DEF QueueEntry
<1> HIDE DEF Tick
<1>4. Len(packetQueue') = Len(packetQueue)
  BY <1>1, <1>2
<1>5. \A i \in 1 .. Len(packetQueue) : packetQueue[i] \in QueueEntry
  BY ElementOfSeq
<1>6. QED BY <1>2, <1>3, <1>4, <1>5, SameShape

-----------------------------------------------------------------------------
\* Every step of the scratchpad keeps the order.
LEMMA OrderStep ==
    ASSUME DmaInv, RespInv, OrderInv, [SpmNext]_spmVars
    PROVE  OrderInv'
<1>1. packetQueue \in Seq(QueueEntry) /\ MemTypeOK
  BY DEF DmaInv, RespInv, CpuTypeOK
<1>2. ASSUME packetQueue' = packetQueue PROVE OrderInv'
  BY <1>2 DEF OrderInv, RanksOK, SameAddressInOrder
<1>3. ASSUME NEW pkt \in Requests, NEW delay \in Delays, RecvTimingReq(pkt, delay)
      PROVE  OrderInv'
  <2>1. CASE needsResponse(pkt)
    <3>1. packetQueue' = emplace(Response(pkt), delay)
      BY <1>3, <2>1 DEF RecvTimingReq
    <3>2. Response(pkt) \in Packet /\ delay \in Nat
      BY <1>1, ResponseType, SimpleMemoryAssumption
    <3>3. QED BY <1>1, <3>1, <3>2, EmplaceKeepsOrder
  <2>2. CASE ~needsResponse(pkt)
    BY <1>2, <1>3, <2>2 DEF RecvTimingReq
  <2>3. QED BY <2>1, <2>2
<1>4. ASSUME NEW sent \in BOOLEAN, NEW event, dequeue(sent, event) PROVE OrderInv'
  <2>1. CASE sent
    BY <1>1, <1>4, <2>1, PoppedKeepsOrder DEF dequeue
  <2>2. CASE ~sent
    BY <1>2, <1>4, <2>2 DEF dequeue
  <2>3. QED BY <2>1, <2>2
<1>5. CASE RecvTimingReqRefused \/ release \/ drain \/ drainResume
  BY <1>2, <1>5 DEF RecvTimingReqRefused, release, drain, drainResume
<1>6. CASE \E sent \in BOOLEAN : DequeueEvent(sent) \/ recvRespRetry(sent)
  BY <1>4, <1>6 DEF DequeueEvent, recvRespRetry
<1>7. CASE \E pkt \in DmaRequests, delay \in DmaDelays : dmaRecvTimingReq(pkt, delay)
  BY <1>2, <1>7 DEF dmaRecvTimingReq, portVars
<1>8. CASE \E sent \in BOOLEAN : DmaDequeueEvent(sent) \/ dmaRecvRespRetry(sent)
  <2>1. UNCHANGED portVars
    BY <1>8 DEF DmaDequeueEvent, dmaRecvRespRetry, dmaDequeue, simpleVars
  <2>2. QED BY <1>2, <2>1 DEF portVars
<1>9. CASE \E pkt \in FunctionalRequests : spmRecvFunctional(pkt)
  BY <1>1, <1>9, FunctionalKeepsOrder DEF spmRecvFunctional
<1>10. CASE SpmElapse
  BY <1>1, <1>10, ElapseKeepsOrder DEF SpmElapse
<1>11. CASE UNCHANGED spmVars
  BY <1>2, <1>11 DEF spmVars, simpleVars, portVars
<1>12. QED
  BY <1>3, <1>5, <1>6, <1>7, <1>8, <1>9, <1>10, <1>11 DEF SpmNext, CpuPort

\* SimpleMemory never reorders two responses to one address, whatever latencies
\* the sort in recvTimingReq is given, however long the queue and however often
\* the peer refuses a response.
THEOREM SameAddressNeverReordered == SpmSpec => []SameAddressInOrder
<1> DEFINE Inv == DmaInv /\ RespInv /\ OrderInv
<1>1. SpmInit => Inv
  <2>1. SpmInit => OrderInv
    BY DEF SpmInit, SimpleInit, PortInit, OrderInv, RanksOK, SameAddressInOrder
  <2>2. QED BY <2>1, DmaInitInv, CpuInit
<1>2. Inv /\ [SpmNext]_spmVars => Inv'
  BY DmaStep, CpuStep, OrderStep
<1>3. Inv => SameAddressInOrder
  BY DEF OrderInv
<1>4. QED BY <1>1, <1>2, <1>3, PTL DEF SpmSpec
=============================================================================
