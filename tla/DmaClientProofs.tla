---------------------------- MODULE DmaClientProofs ----------------------------
(***************************************************************************)
(* The request port of a DMA device never loses the wakeup of a request on *)
(* its transmit list, for any page table, line size, set of transfers and  *)
(* number of requests alive, with and without abortPending.                *)
(***************************************************************************)
EXTENDS DmaClient, SequenceTheorems, TLAPS

\* The inductive invariant: SendWakeup, and that the transmit list is a list of
\* identities (a new one is an identity because those in use are).
SendInv ==
    /\ transmitList \in Seq(Id)
    /\ Alive \subseteq Id
    /\ sendEvent \in BOOLEAN /\ retryPending \in BOOLEAN /\ peerRefused \in BOOLEAN
    /\ SendWakeup

\* An attempt to send establishes the invariant from any non-empty list,
\* whether the peer accepts the packet or refuses it.
LEMMA TrySend ==
    ASSUME NEW list \in Seq(Id), list # <<>>, NEW states, DOMAIN states \subseteq Id,
           NEW accepted \in BOOLEAN, trySendTimingReq(list, states, accepted)
    PROVE  SendInv'
<1>1. CASE accepted
  <2> DEFINE rest == IF last(states[Head(list)].gen) THEN Tail(list) ELSE list
  <2>1. rest \in Seq(Id)
    OBVIOUS
  <2>2. /\ transmitList' = rest /\ sendEvent' = (rest # <<>>)
        /\ retryPending' = FALSE /\ peerRefused' = FALSE /\ inRetry' = NoPacket
        /\ DOMAIN reqState' = DOMAIN states
    BY <1>1 DEF trySendTimingReq
  <2> HIDE DEF rest
  <2>3. SendWakeup'
    BY <2>2, Zenon DEF SendWakeup
  <2>4. QED BY <2>1, <2>2, <2>3 DEF SendInv, Alive
<1>2. CASE ~accepted
  <2>1. /\ transmitList' = list /\ sendEvent' = FALSE
        /\ retryPending' = TRUE /\ peerRefused' = TRUE
        /\ DOMAIN reqState' = DOMAIN states
    BY <1>2 DEF trySendTimingReq
  <2>2. SendWakeup'
    BY <2>1, Zenon DEF SendWakeup
  <2>3. QED BY <2>1, <2>2 DEF SendInv, Alive
<1>3. QED BY <1>1, <1>2

\* sendDma keeps it for a list that extends the present one.
LEMMA SendDmaKeeps ==
    ASSUME SendInv, NEW list \in Seq(Id), list # <<>>, NEW states, DOMAIN states \subseteq Id,
           NEW scheduled \in BOOLEAN, scheduled => sendEvent,
           sendEvent /\ ~scheduled => ~retryPending,
           NEW accepted \in BOOLEAN, sendDma(list, states, scheduled, accepted)
    PROVE  SendInv'
<1>1. CASE retryPending \/ scheduled
  <2>1. /\ transmitList' = list /\ reqState' = states /\ sendEvent' = scheduled
        /\ UNCHANGED <<inRetry, retryPending, peerRefused>>
    BY <1>1 DEF sendDma
  <2>2. SendWakeup'
    BY <1>1, <2>1, Zenon DEF SendWakeup, SendInv
  <2>3. QED BY <2>1, <2>2 DEF SendInv, Alive
<1>2. CASE ~(retryPending \/ scheduled)
  BY <1>2, TrySend DEF sendDma
<1>3. QED BY <1>1, <1>2

\* A step that leaves the sending side alone and adds no request keeps it.
LEMMA SendIdle ==
    ASSUME SendInv, UNCHANGED sendVars, DOMAIN reqState' \subseteq DOMAIN reqState
    PROVE  SendInv'
<1>1. SendWakeup'
  BY DEF sendVars, SendWakeup, SendInv
<1>2. QED BY <1>1 DEF SendInv, sendVars, Alive

\* An iteration of dmaVirt's loop puts one more request on the list.
LEMMA PageKeeps ==
    ASSUME SendInv, NEW accepted \in BOOLEAN, dmaVirtPage(accepted)
    PROVE  SendInv'
<1> DEFINE s == DmaReqState(loop.cmd, translate(loop.vaddr),
                            rangeSize(loop.vaddr, loop.left), loop.cb, loop.data)
           list == Append(transmitList, FreshId)
           states == Having(reqState, FreshId, s)
<1>1. sendDma(list, states, sendEvent, accepted)
  BY DEF dmaVirtPage, dmaAction
<1>2. FreshId \in Id
  <2>1. \E id \in Id : id \notin Alive
    BY DEF SendInv, dmaVirtPage
  <2>2. QED BY <2>1 DEF FreshId
<1>3. DOMAIN states \subseteq Id
  BY <1>2 DEF SendInv, Having, Alive
<1>4. list \in Seq(Id) /\ list # <<>>
  BY <1>2 DEF SendInv
<1> HIDE DEF s, list, states
<1>5. sendEvent \in BOOLEAN
  BY DEF SendInv
<1>6. QED BY <1>1, <1>3, <1>4, <1>5, SendDmaKeeps

\* The port's own events.
LEMMA PortKeeps ==
    ASSUME SendInv, PortStep
    PROVE  SendInv'
<1>1. ASSUME NEW pkt \in inNetwork, recvTimingResp(pkt) PROVE SendInv'
  <2>1. UNCHANGED sendVars /\ DOMAIN reqState' \subseteq DOMAIN reqState
    BY <1>1 DEF recvTimingResp, handleResp, Without
  <2>2. QED BY <2>1, SendIdle
<1>2. ASSUME NEW accepted \in BOOLEAN, SendEvent(accepted) PROVE SendInv'
  <2>1. transmitList \in Seq(Id) /\ DOMAIN reqState \subseteq Id
    BY DEF SendInv, Alive
  <2>2. sendEvent /\ transmitList # <<>> /\ ~retryPending
    BY <1>2 DEF SendEvent, SendInv, SendWakeup
  <2>3. sendDma(transmitList, reqState, FALSE, accepted)
    BY <1>2 DEF SendEvent
  <2>4. QED BY <2>1, <2>2, <2>3, SendDmaKeeps
<1>3. ASSUME NEW accepted \in BOOLEAN, recvReqRetry(accepted) PROVE SendInv'
  <2>1. CASE transmitList # <<>>
    BY <1>3, <2>1, TrySend DEF recvReqRetry, SendInv, Alive
  <2>2. CASE transmitList = <<>>
    <3>1. /\ retryPending' = FALSE /\ peerRefused' = FALSE
          /\ UNCHANGED <<transmitList, inRetry, sendEvent, reqState>>
      BY <1>3, <2>2 DEF recvReqRetry
    <3>2. SendWakeup'
      BY <2>2, <3>1, Zenon DEF SendWakeup, SendInv
    <3>3. QED BY <3>1, <3>2 DEF SendInv, Alive
  <2>3. QED BY <2>1, <2>2
<1>4. CASE portDrain \/ portDrainResume
  BY <1>4, SendIdle DEF portDrain, portDrainResume
<1>5. QED BY <1>1, <1>2, <1>3, <1>4 DEF PortStep

\* abortPending empties the list and takes back the event, but not the retry.
LEMMA AbortKeeps ==
    ASSUME SendInv, abortPending
    PROVE  SendInv'
<1>1. /\ transmitList' = <<>> /\ sendEvent' = FALSE /\ inRetry' = NoPacket
      /\ UNCHANGED <<retryPending, peerRefused>>
      /\ DOMAIN reqState' \subseteq DOMAIN reqState
  BY DEF abortPending, Alive
<1>2. SendWakeup'
  BY <1>1, Zenon DEF SendWakeup, SendInv
<1>3. <<>> \in Seq(Id)
  BY EmptySeq
<1>4. QED BY <1>1, <1>2, <1>3 DEF SendInv, Alive

\* Whatever the peer refuses, in whatever order answers come, and whenever the
\* pending requests are aborted, a request on the transmit list of DmaPort has
\* exactly one of the send event and the owed retry to move it on.
THEOREM SendWakeupNeverLost == VirtSpec => []SendWakeup
<1>1. VirtInit => SendInv
  <2>1. SUFFICES ASSUME VirtInit PROVE SendInv
    OBVIOUS
  <2>2. /\ transmitList = <<>> /\ reqState = <<>> /\ inRetry = NoPacket /\ sendEvent = FALSE
        /\ retryPending = FALSE /\ peerRefused = FALSE
    BY <2>1 DEF VirtInit, DmaPortInit
  <2>3. SendWakeup
    BY <2>2, Zenon DEF SendWakeup
  <2>4. <<>> \in Seq(Id) /\ DOMAIN reqState = {}
    BY <2>2, EmptySeq
  <2>5. QED BY <2>2, <2>3, <2>4 DEF SendInv, Alive
<1>2. SendInv /\ [VirtNext]_virtVars => SendInv'
  <2>1. SUFFICES ASSUME SendInv, [VirtNext]_virtVars PROVE SendInv'
    OBVIOUS
  <2>2. ASSUME NEW cb \in Callback, NEW t \in Transfers, Start(cb, t) PROVE SendInv'
    BY <2>1, <2>2, SendIdle DEF Start
  <2>3. CASE \E accepted \in BOOLEAN : dmaVirtPage(accepted)
    BY <2>1, <2>3, PageKeeps
  <2>4. CASE ChunkComplete
    BY <2>1, <2>4, SendIdle DEF ChunkComplete
  <2>5. CASE PortStep
    BY <2>1, <2>5, PortKeeps
  <2>6. CASE Abort
    BY <2>1, <2>6, AbortKeeps DEF Abort
  <2>7. CASE UNCHANGED virtVars
    BY <2>1, <2>7, SendIdle DEF virtVars, dmaPortVars
  <2>8. QED BY <2>1, <2>2, <2>3, <2>4, <2>5, <2>6, <2>7 DEF VirtNext
<1>3. SendInv => SendWakeup
  BY DEF SendInv
<1>4. QED BY <1>1, <1>2, <1>3, PTL DEF VirtSpec
=============================================================================
