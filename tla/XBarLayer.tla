------------------------------- MODULE XBarLayer -------------------------------
(***************************************************************************)
(* A layer of a crossbar (mem/xbar.cc, BaseXBar::Layer): the path to one   *)
(* destination port.  A layer is a record, and each method the record it   *)
(* leaves behind; sendRetry, which calls back into the crossbar, is left   *)
(* to the crossbar.                                                        *)
(***************************************************************************)
EXTENDS Integers, Sequences

CONSTANT NoPort   \* waitingForPeer when the peer owes no retry

NotScheduled == -1

Layer(Port) ==
    [state : {"IDLE", "BUSY", "RETRY"}, waitingForLayer : Seq(Port),
     waitingForPeer : Port \cup {NoPort}, releaseEvent : Nat \cup {NotScheduled}]

IdleLayer ==
    [state |-> "IDLE", waitingForLayer |-> <<>>, waitingForPeer |-> NoPort,
     releaseEvent |-> NotScheduled]

occupyLayer(l, until) == [l EXCEPT !.state = "BUSY", !.releaseEvent = until]

\* tryTiming succeeds ...
isFree(l) == l.state # "BUSY" /\ l.waitingForPeer = NoPort

\* ... or puts the port at the end of the waiting list.
refuse(l, src) == [l EXCEPT !.waitingForLayer = Append(@, src)]

succeededTiming(l, until) == occupyLayer(l, until)

\* Mutant: the layer forgets whom the peer refused.
failedTiming_forget(l, src, until) == occupyLayer(l, until)

failedTiming(l, src, until) == [occupyLayer(l, until) EXCEPT !.waitingForPeer = src]

\* releaseLayer up to the decision to retry, and the decision.
released(l) == [l EXCEPT !.state = "IDLE", !.releaseEvent = NotScheduled]

mustRetry(l) == l.waitingForLayer # <<>> /\ l.waitingForPeer = NoPort

\* retryWaiting up to sendRetry, and what follows when the port did not call.
retryingPort(l) == l.waitingForLayer[1]

\* Mutant: the port that is retried stays on the list.
retrying_keep(l) == [l EXCEPT !.state = "RETRY"]

retrying(l) == [l EXCEPT !.state = "RETRY", !.waitingForLayer = Tail(@)]

\* Mutant: the layer stays in the retry state.
unanswered_stuck(l) == l

unanswered(l) == IF l.state = "RETRY" THEN occupyLayer(l, 0) ELSE l

\* recvRetry up to the decision to retry at once.
peerRetried(l) ==
    [l EXCEPT !.waitingForLayer = <<l.waitingForPeer>> \o @, !.waitingForPeer = NoPort]

\* The ports that wait for this layer or for its peer.
Waiting(l) ==
    {l.waitingForLayer[i] : i \in DOMAIN l.waitingForLayer} \cup ({l.waitingForPeer} \ {NoPort})
=============================================================================
