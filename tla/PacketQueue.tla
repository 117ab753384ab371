------------------------------ MODULE PacketQueue ------------------------------
(***************************************************************************)
(* The queue behind a queued port (mem/packet_queue.cc).  A queue is a     *)
(* record; times are relative, as in SimpleMemory.                         *)
(***************************************************************************)
EXTENDS Integers, Sequences, FiniteSetsExt

LOCAL NotScheduled == -1

EmptyQueue == [transmitList |-> <<>>, waitingOnRetry |-> FALSE, sendEvent |-> NotScheduled]

\* schedSendEvent(when); when is NotScheduled for MaxTick.
schedSendEvent(q, when) ==
    LET w == Max({when, 1})
    IN  IF q.waitingOnRetry \/ when = NotScheduled THEN q
        ELSE IF q.sendEvent = NotScheduled \/ w < q.sendEvent
        THEN [q EXCEPT !.sendEvent = w] ELSE q

\* Where schedSendTiming puts the packet: behind the last entry due no later
\* (the crossbar's queues do not force the order of addresses).
insertAfter(q, when) ==
    Max({0} \cup {i \in DOMAIN q.transmitList : q.transmitList[i].delay <= when})

schedSendTiming(q, pkt, when) ==
    LET k == insertAfter(q, when)
        l == q.transmitList
        r == [q EXCEPT !.transmitList = SubSeq(l, 1, k) \o <<[pkt |-> pkt, delay |-> when]>>
                                            \o SubSeq(l, k + 1, Len(l))]
    IN  IF k = 0 THEN schedSendEvent(r, when) ELSE r

deferredPacketReadyTime(q) ==
    IF q.transmitList = <<>> THEN NotScheduled ELSE q.transmitList[1].delay

\* sendDeferredPacket; "sent" is what the peer answers.
sendDeferredPacket(q, sent) ==
    IF sent
    THEN LET r == [q EXCEPT !.transmitList = Tail(@), !.waitingOnRetry = FALSE]
         IN  schedSendEvent(r, deferredPacketReadyTime(r))
    ELSE [q EXCEPT !.waitingOnRetry = TRUE]

processSendEvent(q, sent) == sendDeferredPacket([q EXCEPT !.sendEvent = NotScheduled], sent)

retry(q, sent) == sendDeferredPacket([q EXCEPT !.waitingOnRetry = FALSE], sent)

\* A queue with packets has exactly one wakeup, and it does not come early.
QueueWakes(q) ==
    /\ (q.transmitList # <<>>) = (q.waitingOnRetry \/ q.sendEvent # NotScheduled)
    /\ ~(q.waitingOnRetry /\ q.sendEvent # NotScheduled)
    /\ q.sendEvent # NotScheduled => q.transmitList[1].delay <= q.sendEvent
    /\ q.waitingOnRetry => q.transmitList[1].delay = 0
=============================================================================
