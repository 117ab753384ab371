-------------------------------- MODULE DmaPort --------------------------------
(***************************************************************************)
(* The request port of a DMA device in timing mode (dev/dma_device.cc).    *)
(* Every action becomes a DmaReqState that is cut into packets of at most  *)
(* one cache line; packets are sent one per cycle, may be refused by the   *)
(* peer, and are answered in any order.  The send event runs at some later *)
(* point; a completion event that is scheduled for the current tick runs   *)
(* next, which is the order of the event queue (see DmaVirt).              *)
(***************************************************************************)
EXTENDS ChunkGenerator, Sequences, FiniteSets

CONSTANTS Id,             \* identities of DmaReqState objects; bounds how many
                          \* are alive at a time
          Callback,       \* the DmaCallback objects that own completion events
          CacheLineSize,
          NoPacket        \* inRetry = nullptr

DmaCommand == {"ReadReq", "WriteReq"}
DmaPacket == [id : Id, cmd : DmaCommand, addr : Nat, size : Nat, data : Nat]

ASSUME DmaPortAssumption ==
    /\ CacheLineSize \in Nat \ {0}
    /\ NoPacket \notin DmaPacket

VARIABLES transmitList,   \* sequence of identities
          reqState,       \* the DmaReqState objects alive, by identity
          inNetwork,      \* packets accepted by the peer and not answered yet
          pendingCount,
          inRetry, retryPending,
          sendEvent,      \* scheduled or not
          due,            \* callbacks whose chunk event is scheduled for now
          dmaDrainState,
          peerRefused     \* the peer refused a packet and owes a retry

sendVars == <<transmitList, inRetry, retryPending, sendEvent, peerRefused>>
dmaPortVars == <<sendVars, reqState, inNetwork, pendingCount, due, dmaDrainState>>

-----------------------------------------------------------------------------
Alive == DOMAIN reqState
FreshId == CHOOSE id \in Id : id \notin Alive

DmaReqState(cmd, addr, size, cb, data) ==
    [cmd |-> cmd, gen |-> Generator(addr, size, CacheLineSize), totBytes |-> size,
     numBytes |-> 0, completionEvent |-> cb, data |-> data, aborted |-> FALSE]

createPacket(id, s) ==
    [id |-> id, cmd |-> s.cmd, addr |-> s.gen.curAddr, size |-> s.gen.curSize,
     data |-> s.data + complete(s.gen)]

Without(f, gone) == [i \in DOMAIN f \ gone |-> f[i]]
Having(f, id, s) == [i \in DOMAIN f \cup {id} |-> IF i = id THEN s ELSE f[i]]

dmaPending == pendingCount > 0

signalDrainDone == IF dmaDrainState = "Draining" THEN "Drained" ELSE dmaDrainState

\* The packet trySendTimingReq offers to the peer.
Offered(list, states) ==
    IF inRetry # NoPacket THEN inRetry ELSE createPacket(Head(list), states[Head(list)])

\* Mutants.
trySendTimingReq_noResend(list, states, accepted) ==
    LET id   == Head(list)
        rest == IF last(states[id].gen) THEN Tail(list) ELSE list
    IN  /\ retryPending' = ~accepted
        /\ peerRefused' = ~accepted
        /\ inRetry' = NoPacket
        /\ reqState' = [states EXCEPT ![id].gen = next(@)]
        /\ transmitList' = rest
        /\ sendEvent' = (accepted /\ rest # <<>>)
        /\ IF accepted
           THEN /\ pendingCount' = pendingCount + 1
                /\ inNetwork' = inNetwork \cup {Offered(list, states)}
           ELSE UNCHANGED <<pendingCount, inNetwork>>
        /\ UNCHANGED <<due, dmaDrainState>>

\* trySendTimingReq: "accepted" is what the peer answers to sendTimingReq.
trySendTimingReq(list, states, accepted) ==
    LET id   == Head(list)
        rest == IF last(states[id].gen) THEN Tail(list) ELSE list
    IN  /\ retryPending' = ~accepted
        /\ peerRefused' = ~accepted
        /\ IF accepted
           THEN /\ pendingCount' = pendingCount + 1
                /\ inNetwork' = inNetwork \cup {Offered(list, states)}
                /\ inRetry' = NoPacket
                /\ reqState' = [states EXCEPT ![id].gen = next(@)]
                /\ transmitList' = rest
                /\ sendEvent' = (rest # <<>>)
           ELSE /\ inRetry' = Offered(list, states)
                /\ transmitList' = list
                /\ reqState' = states
                /\ sendEvent' = FALSE
                /\ UNCHANGED <<pendingCount, inNetwork>>
        /\ UNCHANGED <<due, dmaDrainState>>

-----------------------------------------------------------------------------
\* Mutants.
handleResp_completeAborted(pkt) ==
    LET s       == reqState[pkt.id]
        updated == [s EXCEPT !.numBytes = @ + pkt.size]
        all     == updated.numBytes = s.totBytes \/ (s.aborted /\ pendingCount = 1)
    IN  /\ pendingCount' = pendingCount - 1
        /\ reqState' = IF all THEN Without(reqState, {pkt.id})
                       ELSE [reqState EXCEPT ![pkt.id] = updated]
        /\ due' = IF all THEN Append(due, s.completionEvent) ELSE due
        /\ dmaDrainState' = IF pendingCount = 1 THEN signalDrainDone ELSE dmaDrainState

recvReqRetry_drop(accepted) ==
    /\ peerRefused
    /\ retryPending' = FALSE /\ peerRefused' = FALSE
    /\ UNCHANGED <<transmitList, inRetry, sendEvent, reqState, inNetwork, pendingCount,
                   due, dmaDrainState>>

abortPending_keepEvent ==
    /\ inRetry' = NoPacket
    /\ reqState' = [id \in Alive |-> [reqState[id] EXCEPT !.aborted = TRUE]]
    /\ transmitList' = <<>>
    /\ UNCHANGED <<sendEvent, retryPending, peerRefused, inNetwork, pendingCount, due,
                   dmaDrainState>>

abortPending_deleteFront ==
    /\ inRetry' = NoPacket
    /\ reqState' = Without(reqState, {transmitList[i] : i \in 1 .. Len(transmitList)})
    /\ transmitList' = <<>>
    /\ sendEvent' = FALSE
    /\ dmaDrainState' = IF pendingCount = 0 THEN signalDrainDone ELSE dmaDrainState
    /\ UNCHANGED <<retryPending, peerRefused, inNetwork, pendingCount, due>>

\* handleResp: bytes are counted from the request; the last response schedules
\* the completion event and deletes the state.
handleResp(pkt) ==
    LET s       == reqState[pkt.id]
        updated == [s EXCEPT !.numBytes = @ + pkt.size]
        all     == updated.numBytes = s.totBytes
    IN  /\ pendingCount' = pendingCount - 1
        /\ reqState' = IF all \/ (s.aborted /\ pendingCount = 1)
                       THEN Without(reqState, {pkt.id})
                       ELSE [reqState EXCEPT ![pkt.id] = updated]
        /\ due' = IF all /\ ~s.aborted THEN Append(due, s.completionEvent) ELSE due
        /\ dmaDrainState' = IF pendingCount = 1 THEN signalDrainDone ELSE dmaDrainState

recvTimingResp(pkt) ==
    /\ pkt \in inNetwork
    /\ inNetwork' = inNetwork \ {pkt}
    /\ handleResp(pkt)
    /\ UNCHANGED sendVars

\* sendDma in timing mode: nothing is sent while a retry or the send event is
\* awaited; "scheduled" is the state of sendEvent when the call starts.
sendDma(list, states, scheduled, accepted) ==
    IF retryPending \/ scheduled
    THEN /\ transmitList' = list
         /\ reqState' = states
         /\ sendEvent' = scheduled
         /\ UNCHANGED <<inRetry, retryPending, peerRefused, inNetwork, pendingCount, due,
                        dmaDrainState>>
    ELSE trySendTimingReq(list, states, accepted)

dmaAction(id, cmd, addr, size, cb, data, accepted) ==
    sendDma(Append(transmitList, id),
            Having(reqState, id, DmaReqState(cmd, addr, size, cb, data)),
            sendEvent, accepted)

SendEvent(accepted) == sendEvent /\ sendDma(transmitList, reqState, FALSE, accepted)

recvReqRetry(accepted) ==
    /\ peerRefused
    /\ IF transmitList # <<>>
       THEN trySendTimingReq(transmitList, reqState, accepted)
       ELSE /\ retryPending' = FALSE /\ peerRefused' = FALSE
            /\ UNCHANGED <<transmitList, inRetry, sendEvent, reqState, inNetwork,
                           pendingCount, due, dmaDrainState>>

\* abortPending: the request at the front is kept until its packets are back,
\* the others are deleted.  abortEvent is never set by dmaAction.
abortPending ==
    LET queued == {transmitList[i] : i \in 1 .. Len(transmitList)}
        kept   == {id \in queued : /\ pendingCount > 0
                                   /\ id = Head(transmitList)
                                   /\ reqState[id].numBytes # complete(reqState[id].gen)}
    IN  /\ inRetry' = NoPacket
        /\ reqState' = [id \in Alive \ (queued \ kept) |->
                           [reqState[id] EXCEPT !.aborted = @ \/ id \in kept]]
        /\ transmitList' = <<>>
        /\ sendEvent' = FALSE
        /\ dmaDrainState' = IF pendingCount = 0 THEN signalDrainDone ELSE dmaDrainState
        /\ UNCHANGED <<retryPending, peerRefused, inNetwork, pendingCount, due>>

portDrain ==
    /\ dmaDrainState' = IF pendingCount = 0 THEN "Drained" ELSE "Draining"
    /\ UNCHANGED <<sendVars, reqState, inNetwork, pendingCount, due>>

portDrainResume ==
    /\ dmaDrainState = "Drained"
    /\ dmaDrainState' = "Running"
    /\ UNCHANGED <<sendVars, reqState, inNetwork, pendingCount, due>>

DmaPortInit ==
    /\ transmitList = <<>> /\ reqState = <<>> /\ inNetwork = {} /\ pendingCount = 0
    /\ inRetry = NoPacket /\ retryPending = FALSE /\ peerRefused = FALSE
    /\ sendEvent = FALSE /\ due = <<>> /\ dmaDrainState = "Running"
=============================================================================
