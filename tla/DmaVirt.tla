-------------------------------- MODULE DmaVirt --------------------------------
(***************************************************************************)
(* Transfers on virtual addresses (dev/dma_virt_device.cc): dmaVirt cuts   *)
(* the range at page boundaries and starts one DMA action per page, all of *)
(* which count on one DmaCallback.  The loop runs within one event: while  *)
(* "loop" is set only its own next iteration can happen.                   *)
(***************************************************************************)
EXTENDS DmaPort, FiniteSetsExt

CONSTANTS PageSize,
          PageTable,    \* virtual page -> physical page (EmulationPageTable)
          NoLoop        \* no dmaVirt call is under way

ASSUME DmaVirtAssumption ==
    /\ PageSize \in Nat \ {0}
    /\ DOMAIN PageTable \subseteq Nat
    /\ \A p \in DOMAIN PageTable : PageTable[p] \in Nat

VARIABLES loop,      \* the dmaVirt call under way: [cmd, vaddr, left, cb, data]
          cbCount,   \* DmaCallback::count
          lost       \* history: chunks of a callback that were aborted

virtVars == <<dmaPortVars, loop, cbCount, lost>>

-----------------------------------------------------------------------------
\* PageTableTranslationGen::translate for the range that is left.
rangeSize(vaddr, left) ==
    Least(left, (IF roundUp(vaddr, PageSize) = vaddr THEN vaddr + PageSize
                 ELSE roundUp(vaddr, PageSize)) - vaddr)
translate(vaddr) == PageTable[vaddr \div PageSize] * PageSize + (vaddr % PageSize)

\* Every page of the range is mapped (dmaVirt is fatal otherwise).
Mapped(vaddr, size) ==
    \A p \in (vaddr \div PageSize) .. ((vaddr + size - 1) \div PageSize) :
        p \in DOMAIN PageTable

\* dmaVirt(dmaFn, addr, size, cb, data), given the counts and the due events
\* of the moment it is called.
dmaVirt(counts, events, cmd, addr, size, cb, data) ==
    IF size = 0
    THEN /\ cbCount' = [counts EXCEPT ![cb] = @ + 1]
         /\ due' = Append(events, cb)
         /\ loop' = NoLoop
    ELSE /\ loop' = [cmd |-> cmd, vaddr |-> addr, left |-> size, cb |-> cb, data |-> data]
         /\ cbCount' = counts
         /\ due' = events

\* One iteration of dmaVirt's loop: a chunk event and a DMA action for a page.
dmaVirtPage(accepted) ==
    LET size == rangeSize(loop.vaddr, loop.left)
    IN  /\ loop # NoLoop
        /\ Alive # Id
        /\ cbCount' = [cbCount EXCEPT ![loop.cb] = @ + 1]      \* getChunkEvent
        /\ dmaAction(FreshId, loop.cmd, translate(loop.vaddr), size, loop.cb, loop.data, accepted)
        /\ loop' = IF loop.left = size THEN NoLoop
                   ELSE [loop EXCEPT !.vaddr = @ + size, !.left = @ - size, !.data = @ + size]
        /\ UNCHANGED lost

\* A chunk event that is due runs chunkComplete.  Finished says whether the
\* callback's process() is called.
Counted == [cbCount EXCEPT ![Head(due)] = @ - 1]
Finished == cbCount[Head(due)] = 1

\* No event of this tick and no loop is in the way of the next event.
Settled == due = <<>> /\ loop = NoLoop

\* The port's own events.
PortStep ==
    /\ Settled
    /\ \/ \E pkt \in inNetwork : recvTimingResp(pkt)
       \/ \E accepted \in BOOLEAN : SendEvent(accepted) \/ recvReqRetry(accepted)
       \/ portDrain \/ portDrainResume
    /\ UNCHANGED <<loop, cbCount, lost>>

Abort ==
    /\ Settled
    /\ abortPending
    /\ lost' = [cb \in Callback |->
                   lost[cb] + Cardinality({id \in Alive :
                       /\ reqState[id].completionEvent = cb
                       /\ ~reqState[id].aborted
                       /\ id \notin DOMAIN reqState' \/ reqState'[id].aborted})]
    /\ UNCHANGED <<loop, cbCount>>

VirtInit ==
    /\ DmaPortInit
    /\ loop = NoLoop
    /\ cbCount = [cb \in Callback |-> 0]
    /\ lost = [cb \in Callback |-> 0]

\* The parts of PortStep that fairness is about.
Answered(id) == \E pkt \in inNetwork : pkt.id = id /\ recvTimingResp(pkt)
Sent(accepted) == SendEvent(accepted) \/ recvReqRetry(accepted)
KeepVirt == Settled /\ UNCHANGED <<loop, cbCount, lost>>

-----------------------------------------------------------------------------
queued == {transmitList[i] : i \in 1 .. Len(transmitList)}
Flying(id) == {pkt \in inNetwork : pkt.id = id}
Bytes(pkts) == MapThenSumSet(LAMBDA pkt : pkt.size, pkts)

\* A request on the transmit list is always about to be sent: either the send
\* event is scheduled or the peer owes a retry, never both (sendEvent would be
\* scheduled twice), and a send event never finds the list empty (sendDma's
\* assertion).  A packet is kept for the retry only while one is owed.
SendWakeup ==
    /\ ~(sendEvent /\ retryPending)
    /\ transmitList # <<>> => sendEvent \/ retryPending
    /\ sendEvent => transmitList # <<>>
    /\ retryPending = peerRefused
    /\ inRetry # NoPacket => retryPending /\ transmitList # <<>>

\* The port and the memory system agree on what is on its way: pendingCount,
\* which decides dmaPending() and drain(), is the number of packets outside, none
\* of them outlives the DmaReqState it points to, no deleted state is on the
\* transmit list, also after an abort, and a port that answered Draining still has
\* the packet whose response signals.
PendingExact ==
    /\ pendingCount = Cardinality(inNetwork)
    /\ \A pkt \in inNetwork : pkt.id \in Alive
    /\ queued \subseteq Alive
    /\ Cardinality(queued) = Len(transmitList)
    /\ dmaDrainState = "Draining" => inNetwork # {}

\* Every byte of a transfer is in exactly one place: answered, in the network
\* or not sent yet; so the completion event cannot come early or never.  A
\* refused packet is not sent yet: it is the next one of the front request.
BytesConserved ==
    /\ \A id \in Alive :
          LET s == reqState[id]
          IN  ~s.aborted =>
                s.numBytes + Bytes(Flying(id)) =
                    IF id \in queued THEN complete(s.gen) ELSE s.totBytes
    /\ inRetry # NoPacket =>
          inRetry = createPacket(Head(transmitList), reqState[Head(transmitList)])

\* A DmaCallback counts exactly its chunks that have not completed: process()
\* runs once, after the last page of the transfer and never before.
CallbackExact ==
    \A cb \in Callback :
        cbCount[cb] = Cardinality({id \in Alive : reqState[id].completionEvent = cb
                                                  /\ ~reqState[id].aborted})
                      + Cardinality({i \in 1 .. Len(due) : due[i] = cb}) + lost[cb]
=============================================================================
