------------------------------- MODULE DmaReadFifo -------------------------------
(***************************************************************************)
(* The read-ahead buffer of a DMA device (dev/dma_device.cc, DmaReadFifo), *)
(* with the client it has, the frame reader of a display controller        *)
(* (dev/arm/hdlcd.cc), and the drain manager.  A method maps a state of    *)
(* the FIFO to the next one; the data of an address is the address.        *)
(***************************************************************************)
EXTENDS Integers, SequencesExt

CONSTANTS maxReqSize, fifoSize, maxPending,
          lineSize, linePitch, numLines,   \* a frame has numLines lines, a block is a line
          pixelSize,
          MaxFrames

ASSUME FifoAssumption ==
    /\ {maxReqSize, fifoSize, maxPending, lineSize, linePitch, numLines, pixelSize} \subseteq Nat \ {0}
    /\ maxReqSize + pixelSize - 1 <= fifoSize
    /\ lineSize % pixelSize = 0 /\ lineSize <= linePitch
    /\ MaxFrames \in Nat

Drainable == {"fifo", "port"}

VARIABLES fifo,      \* the FIFO and its client
          frames,    \* frames started
          _state, _count, drainState

INSTANCE DrainManager

fifoVars == <<fifo, frames>>
vars == <<fifoVars, drainVars>>

\* nextLine counts the lines of the frame that have been started.  Three fields
\* are not in the program: owed is the data the client has still to get, blocks
\* the callbacks onEndOfBlock it has still to get, busy whether onIdle is due.
Request == [addr : Nat, size : Nat, state : {"queued", "sent", "answered", "done"}, canceled : BOOLEAN]
Fifo == [buffer : Seq(Nat), nextAddr : Nat, endAddr : Nat, pendingRequests : Seq(Request),
         nextLine : 0 .. numLines, owed : Seq(Nat), blocks : Int, busy : BOOLEAN]

IdleFifo ==
    [buffer |-> <<>>, nextAddr |-> 0, endAddr |-> 0, pendingRequests |-> <<>>,
     nextLine |-> numLines, owed |-> <<>>, blocks |-> 0, busy |-> FALSE]

atEndOfBlock(f) == f.nextAddr = f.endAddr
isActive(f) == f.pendingRequests # <<>> \/ ~atEndOfBlock(f)

Addresses(from, n) == [i \in 1 .. n |-> from + i - 1]
Sizes(reqs) == MapThenSumSet(LAMBDA i : reqs[i].size, DOMAIN reqs)

-----------------------------------------------------------------------------
\* The part of the FIFO that is filled or waited for.
taken(f) == Len(f.buffer) + Sizes(f.pendingRequests)

\* The requests resumeFillTiming sends: of maxReqSize, the last of a block of what
\* is left, while there is a free DmaDoneEvent and the answers fit.
toSend(f) ==
    LET left == f.endAddr - f.nextAddr
        used == taken(f)
    IN  Max({0} \cup {n \in 1 .. maxPending - Len(f.pendingRequests) :
                         /\ (n - 1) * maxReqSize < left
                         /\ used + Min({n * maxReqSize, left}) <= fifoSize})

resumeFillTiming(f) ==
    LET n == toSend(f)
        Offset(i) == Min({i * maxReqSize, f.endAddr - f.nextAddr})
        Sent(i) == [addr |-> f.nextAddr + Offset(i - 1), size |-> Offset(i) - Offset(i - 1),
                    state |-> "queued", canceled |-> FALSE]
    IN  [f EXCEPT !.pendingRequests = @ \o [i \in 1 .. n |-> Sent(i)],
                  !.nextAddr = @ + Offset(n)]

\* The condition on which resumeFill calls onEndOfBlock.
reachedEnd(f, g) == ~atEndOfBlock(f) /\ atEndOfBlock(g)

\* The line nextLine of the frame becomes the block that is fetched.
newBlock(f) ==
    LET start == f.nextLine * linePitch
    IN  [f EXCEPT !.nextAddr = start, !.endAddr = start + lineSize,
                  !.owed = @ \o Addresses(start, lineSize),
                  !.blocks = @ + 1, !.busy = TRUE]

\* resumeFill, and onEndOfBlock of the display's engine, which calls startFill
\* for the next line of the frame.
resumeFill[f \in Fifo] ==
    LET g == resumeFillTiming(f)
        told == [g EXCEPT !.blocks = @ - 1, !.nextLine = Min({@ + 1, numLines})]
    IN  IF ~reachedEnd(f, g) THEN g
        ELSE IF told.nextLine = numLines THEN told
        ELSE resumeFill[newBlock(told)]

\* resumeFill does nothing while the FIFO drains.
resumeFillUnless(draining, f) == IF draining THEN f ELSE resumeFill[f]

Draining == drainState["fifo"] = "Draining"

-----------------------------------------------------------------------------
(***************************************************************************)
(* The client.                                                             *)
(***************************************************************************)

\* startFrame, when the pixels of the last frame have been read or given up.
startFrame ==
    /\ fifo.owed = <<>> /\ frames < MaxFrames
    /\ fifo' = resumeFillUnless(Draining, newBlock([fifo EXCEPT !.nextLine = 0]))
    /\ frames' = frames + 1

\* Mutant: room in the buffer is not used before the next answer.
tryGet_noFill ==
    /\ Len(fifo.buffer) >= pixelSize
    /\ fifo' = [fifo EXCEPT !.buffer = SubSeq(@, pixelSize + 1, Len(@)),
                            !.owed = SubSeq(@, pixelSize + 1, Len(@))]
    /\ UNCHANGED frames

\* tryGet of a pixel that is there.
tryGet ==
    /\ Len(fifo.buffer) >= pixelSize
    /\ fifo' = resumeFillUnless(Draining,
                   [fifo EXCEPT !.buffer = SubSeq(@, pixelSize + 1, Len(@)),
                                !.owed = SubSeq(@, pixelSize + 1, Len(@))])
    /\ UNCHANGED frames

cancelAll(reqs) == [i \in DOMAIN reqs |-> [reqs[i] EXCEPT !.canceled = TRUE]]

\* abortFrame: stopFill and flush.
abortFrame ==
    fifo' = [fifo EXCEPT !.nextLine = numLines, !.nextAddr = fifo.endAddr,
                         !.pendingRequests = cancelAll(@),
                         !.buffer = <<>>, !.owed = <<>>, !.blocks = 0,
                         !.busy = fifo.pendingRequests # <<>>]

\* tryGet of a pixel that is not there: the frame is given up.
pxlUnderrun ==
    /\ fifo.owed # <<>> /\ Len(fifo.buffer) < pixelSize
    /\ abortFrame
    /\ UNCHANGED frames

\* The display is switched off: this engine starts no more frames.
cmdDisable == frames < MaxFrames /\ abortFrame /\ frames' = MaxFrames

-----------------------------------------------------------------------------
(***************************************************************************)
(* The DMA port's answers.                                                 *)
(***************************************************************************)

\* The port sends the oldest request of its transmit list, now or after a retry.
Send(i) ==
    /\ fifo.pendingRequests[i].state = "queued"
    /\ \A j \in 1 .. i - 1 : fifo.pendingRequests[j].state # "queued"
    /\ fifo' = [fifo EXCEPT !.pendingRequests[i].state = "sent"]
    /\ UNCHANGED frames

\* The last packet of a request is answered: its DmaDoneEvent is scheduled.
Answer(i) ==
    /\ fifo.pendingRequests[i].state = "sent"
    /\ fifo' = [fifo EXCEPT !.pendingRequests[i].state = "answered"]
    /\ UNCHANGED frames

\* Mutant: requests are taken in the order of their answers.
handlePending_anyOrder(f) ==
    LET Over(r) == r.state = "done"
        over == SelectSeq(f.pendingRequests, Over)
        data == SelectSeq(over, LAMBDA r : ~r.canceled)
    IN  [f EXCEPT !.pendingRequests = SelectSeq(@, LAMBDA r : ~Over(r)),
                  !.buffer = @ \o FlattenSeq([i \in DOMAIN data |->
                                                 Addresses(data[i].addr, data[i].size)])]

\* handlePending: the requests at the front that are over leave.
handlePending(f) ==
    LET reqs == f.pendingRequests
        n == Max({k \in 0 .. Len(reqs) : \A i \in 1 .. k : reqs[i].state = "done"})
        Data(i) == IF reqs[i].canceled THEN <<>> ELSE Addresses(reqs[i].addr, reqs[i].size)
    IN  [f EXCEPT !.pendingRequests = SubSeq(@, n + 1, Len(@)),
                  !.buffer = @ \o FlattenSeq([i \in 1 .. n |-> Data(i)])]

\* Mutant: the state before is taken after the requests have been handled.
becameIdle_late(before, handled, after) == isActive(handled) /\ ~isActive(after)

\* The condition on which dmaDone calls onIdle.
becameIdle(before, handled, after) == isActive(before) /\ ~isActive(after)

\* The condition on which handlePending calls signalDrainDone.
settled(f) == f.pendingRequests = <<>>

\* DmaDoneEvent::process: what is over is handled, the drain is signalled when
\* nothing is on its way, and then more is fetched unless the FIFO drains.
dmaDone(i) ==
    /\ fifo.pendingRequests[i].state = "answered"
    /\ \E f \in {[fifo EXCEPT !.pendingRequests[i].state = "done"]} :
       \E g \in {handlePending(f)} :
       \E h \in {resumeFillUnless(Draining /\ ~settled(g), g)} :
            fifo' = [h EXCEPT !.busy = @ /\ ~becameIdle(f, g, h)]
    /\ UNCHANGED frames

-----------------------------------------------------------------------------
(***************************************************************************)
(* The drain.                                                              *)
(***************************************************************************)
InFlight(f) == {i \in DOMAIN f.pendingRequests : f.pendingRequests[i].state = "sent"}

Simulate(A, signals) == _state # "Drained" /\ A /\ signalDrainDone(signals)

Client == Simulate(startFrame \/ tryGet \/ pxlUnderrun \/ cmdDisable, {})
SendEvent(i) == Simulate(Send(i), {})
AnswerEvent(i) == Simulate(Answer(i), IF InFlight(fifo) = {i} THEN {"port"} ELSE {})

\* The FIFO signals in handlePending, before it fetches more.
DoneEvent(i) ==
    Simulate(dmaDone(i),
             IF settled(handlePending([fifo EXCEPT !.pendingRequests[i].state = "done"]))
             THEN {"fifo"} ELSE {})

\* drain() of the FIFO and of the port, which looks at packets in flight only.
NeedsSimulation ==
    {o \in Drainable : IF o = "fifo" THEN fifo.pendingRequests # <<>> ELSE InFlight(fifo) # {}}

TryDrain == tryDrain(NeedsSimulation) /\ UNCHANGED fifoVars
Resume == resume /\ UNCHANGED fifoVars

Requests == DOMAIN fifo.pendingRequests

Init == fifo = IdleFifo /\ frames = 0 /\ DrainInit

Next ==
    \/ Client
    \/ \E i \in Requests : SendEvent(i) \/ AnswerEvent(i) \/ DoneEvent(i)
    \/ TryDrain \/ Resume

Spec == Init /\ [][Next]_vars

\* The memory answers, events run, the pixels are read; m5.drain calls tryDrain
\* until it succeeds, and the script resumes.
FairSpec ==
    /\ Spec
    /\ SF_vars(\/ Simulate(tryGet, {})
               \/ \E i \in Requests : SendEvent(i) \/ AnswerEvent(i) \/ DoneEvent(i))
    /\ WF_vars(Resume \/ (_state = "Draining" /\ TryDrain))

-----------------------------------------------------------------------------
\* What the client gets is what it is owed, line after line and in the order of
\* addresses, whatever the order of the answers, and nothing of a frame that was
\* given up: buffer, requests on their way and rest of the line are what is owed.
\* What is on its way always fits: Fifo::write never fails.
FifoExact ==
    LET live == SelectSeq(fifo.pendingRequests, LAMBDA r : ~r.canceled)
    IN  /\ fifo.owed =
              fifo.buffer
              \o FlattenSeq([i \in DOMAIN live |-> Addresses(live[i].addr, live[i].size)])
              \o Addresses(fifo.nextAddr, fifo.endAddr - fifo.nextAddr)
        /\ Len(fifo.buffer) + Sizes(fifo.pendingRequests) <= fifoSize

\* onEndOfBlock is called once for each block that is sent in full, at once, and
\* not for a block that was stopped; onIdle is called whenever an answer leaves
\* the engine idle, and not before.
CallbacksExact ==
    /\ fifo.blocks = IF atEndOfBlock(fifo) THEN 0 ELSE 1
    /\ fifo.busy = isActive(fifo)

\* A drained system has no request on its way (the assertion in serialize),
\* although the FIFO fetches more right after it has signalled, and the port
\* reports Drained while requests wait in its transmit list.
DrainedNothingPending == _state = "Drained" => fifo.pendingRequests = <<>>

\* A frame is read to its end or given up, and the interrupt of onIdle comes.
FrameEnds == fifo.busy ~> ~fifo.busy

\* A drain ends, if no frames are started for ever.
FifoDrainEnds == _state = "Draining" ~> _state = "Drained"
=============================================================================
