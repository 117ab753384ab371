---------------------------------- MODULE Idma ----------------------------------
(***************************************************************************)
(* The IDMA engine (mem/spm/idma.cc): memory-mapped registers, and a       *)
(* transfer that first reads the whole source into dmaBuffer and then      *)
(* writes the buffer to the destination.  The memory behind the DMA port   *)
(* accesses its data when it accepts a packet; the driver is the one of    *)
(* tests/test-progs/spm_test.                                              *)
(***************************************************************************)
EXTENDS DmaVirt

CONSTANTS PhysAddr,     \* bytes of the memory, an interval
          BufferSize,   \* of dmaBuffer
          RegSpace,     \* values of a register: 2^32 in the code
          MaxLive,      \* bound on callback objects of a kind alive at a time
          Jobs,         \* transfers the driver asks for: [src, dst, size]
          Patient       \* whether the driver polls STATUS before it goes on

IDMA_BUSY == 1
IDMA_COMPLETE == 2

ASSUME IdmaAssumption ==
    /\ BufferSize \in Nat /\ RegSpace \in Nat \ {0}
    /\ Callback = [kind : {"read", "write"}, n : 1 .. MaxLive]
    /\ Patient \in BOOLEAN

VARIABLES mem,        \* physical memory, byte by byte
          dmaBuffer,
          srcAddrReg, dstAddrReg, sizeReg, commandReg, statusReg,
          pc, job     \* the driver: its next register access, its job

regVars == <<srcAddrReg, dstAddrReg, sizeReg, commandReg>>
driverVars == <<pc, job>>
idmaVars == <<virtVars, mem, dmaBuffer, regVars, statusReg, driverVars>>

-----------------------------------------------------------------------------
\* A packet the peer accepts moves its data between memory and dmaBuffer.
Accessed ==
    LET new == inNetwork' \ inNetwork
        pkt == CHOOSE p \in new : TRUE
    IN  IF new = {} THEN UNCHANGED <<mem, dmaBuffer>>
        ELSE IF pkt.cmd = "ReadReq"
        THEN /\ dmaBuffer' = [i \in DOMAIN dmaBuffer |->
                    IF i \in pkt.data .. pkt.data + pkt.size - 1
                    THEN mem[pkt.addr + i - pkt.data] ELSE dmaBuffer[i]]
             /\ UNCHANGED mem
        ELSE /\ mem' = [a \in PhysAddr |->
                    IF a \in pkt.addr .. pkt.addr + pkt.size - 1
                    THEN dmaBuffer[pkt.data + a - pkt.addr] ELSE mem[a]]
             /\ UNCHANGED dmaBuffer

NewCallback(kind) == CHOOSE cb \in Callback : cb.kind = kind /\ cbCount[cb] = 0

\* Mutants.
idmaReadDone_wrongReg(counts, events) ==
    dmaVirt(counts, events, "WriteReq", srcAddrReg, sizeReg, NewCallback("write"), 0)

idmaWriteDone_noStatus == UNCHANGED statusReg

chunkComplete_first ==
    LET cb == Head(due)
    IN  /\ due # <<>> /\ loop = NoLoop
        /\ IF cb.kind = "read"
           THEN /\ dmaVirt(Counted, Tail(due), "WriteReq", dstAddrReg, sizeReg,
                           NewCallback("write"), 0)
                /\ UNCHANGED statusReg
           ELSE cbCount' = Counted /\ due' = Tail(due) /\ statusReg' = IDMA_COMPLETE
                /\ UNCHANGED loop
        /\ UNCHANGED <<sendVars, reqState, inNetwork, pendingCount, dmaDrainState, lost,
                       mem, dmaBuffer, regVars, driverVars>>

\* idmaTransfer: refused with a warning while packets are outstanding.
idmaTransfer ==
    IF dmaPending THEN UNCHANGED <<statusReg, loop, cbCount, due>>
    ELSE /\ statusReg' = IDMA_BUSY
         /\ dmaVirt(cbCount, due, "ReadReq", srcAddrReg, sizeReg, NewCallback("read"), 0)

\* idmaReadDone takes destination and size from the registers of the moment.
idmaReadDone(counts, events) ==
    dmaVirt(counts, events, "WriteReq", dstAddrReg, sizeReg, NewCallback("write"), 0)

idmaWriteDone == statusReg' = IDMA_COMPLETE

\* A chunk event runs DmaCallback::chunkComplete and, for the last chunk of the
\* callback, its process().
chunkComplete ==
    /\ due # <<>> /\ loop = NoLoop
    /\ IF ~Finished
       THEN cbCount' = Counted /\ due' = Tail(due) /\ UNCHANGED <<loop, statusReg>>
       ELSE \/ /\ Head(due).kind = "read"
               /\ idmaReadDone(Counted, Tail(due))
               /\ UNCHANGED statusReg
            \/ /\ Head(due).kind = "write"
               /\ idmaWriteDone
               /\ cbCount' = Counted /\ due' = Tail(due) /\ UNCHANGED loop
    /\ UNCHANGED <<sendVars, reqState, inNetwork, pendingCount, dmaDrainState, lost, mem,
                   dmaBuffer, regVars, driverVars>>

\* IDMA::write: a 64-bit value loses its upper half in a 32-bit register, and
\* bit 0 of the command starts a transfer.
write(offset, value) ==
    LET v == value % RegSpace
        Stored(reg, old) == IF offset = reg THEN v ELSE old
    IN  /\ Settled
        /\ srcAddrReg' = Stored("SRC", srcAddrReg)
        /\ dstAddrReg' = Stored("DST", dstAddrReg)
        /\ sizeReg' = Stored("SIZE", sizeReg)
        /\ commandReg' = Stored("CMD", commandReg)
        /\ IF offset = "CMD" /\ v % 2 = 1 THEN idmaTransfer
           ELSE statusReg' = Stored("STATUS", statusReg) /\ UNCHANGED <<loop, cbCount, due>>
        /\ UNCHANGED <<sendVars, reqState, inNetwork, pendingCount, dmaDrainState, lost, mem,
                       dmaBuffer>>

\* IDMA::read changes nothing; the value the CPU gets.
read(offset) ==
    CASE offset = "SRC" -> srcAddrReg [] offset = "DST" -> dstAddrReg
      [] offset = "SIZE" -> sizeReg [] offset = "CMD" -> commandReg
      [] offset = "STATUS" -> statusReg [] OTHER -> 0

-----------------------------------------------------------------------------
\* dma_start: source, destination, size, command.
dma_start ==
    \/ /\ pc = "idle"
       /\ \E j \in Jobs : job' = j /\ write("SRC", j.src)
       /\ pc' = "dst"
    \/ pc = "dst" /\ write("DST", job.dst) /\ pc' = "size" /\ UNCHANGED job
    \/ pc = "size" /\ write("SIZE", job.size) /\ pc' = "cmd" /\ UNCHANGED job
    \/ /\ pc = "cmd" /\ write("CMD", 1)
       /\ pc' = IF Patient THEN "wait" ELSE "idle"
       /\ UNCHANGED job

\* dma_wait: the read that ends the polling loop.
dma_wait ==
    /\ Settled
    /\ pc = "wait" /\ read("STATUS") = IDMA_COMPLETE
    /\ pc' = "idle"
    /\ UNCHANGED <<virtVars, mem, dmaBuffer, regVars, statusReg, job>>

\* The DMA port and the loop of dmaVirt, with the data they move.
Engine ==
    /\ PortStep \/ \E accepted \in BOOLEAN : dmaVirtPage(accepted)
    /\ Accessed
    /\ UNCHANGED <<regVars, statusReg, driverVars>>

IdmaInit ==
    /\ VirtInit
    /\ mem = [a \in PhysAddr |-> a]      \* every byte is told apart
    /\ dmaBuffer = [i \in 0 .. BufferSize - 1 |-> 0]
    /\ srcAddrReg = 0 /\ dstAddrReg = 0 /\ sizeReg = 0 /\ commandReg = 0 /\ statusReg = 0
    /\ pc = "idle" /\ job \in Jobs

IdmaNext == dma_start \/ dma_wait \/ chunkComplete \/ Engine

IdmaSpec == IdmaInit /\ [][IdmaNext]_idmaVars

KeepIdma == KeepVirt /\ Accessed /\ UNCHANGED <<regVars, statusReg, driverVars>>

\* As for DmaVirt; the driver runs on a core that is never descheduled.
IdmaFairness ==
    /\ WF_idmaVars(chunkComplete)
    /\ WF_idmaVars((\E accepted \in BOOLEAN : dmaVirtPage(accepted)) /\ Accessed
                      /\ UNCHANGED <<regVars, statusReg, driverVars>>)
    /\ SF_idmaVars(Sent(TRUE) /\ KeepIdma)
    /\ \A id \in Id : SF_idmaVars(Answered(id) /\ KeepIdma)
    /\ SF_idmaVars(dma_start) /\ SF_idmaVars(dma_wait)

FairIdmaSpec == IdmaSpec /\ IdmaFairness

-----------------------------------------------------------------------------
Active(kind) ==
    \/ \E cb \in Callback : cb.kind = kind /\ cbCount[cb] > 0
    \/ loop # NoLoop /\ loop.cb.kind = kind

\* STATUS is BUSY exactly while a transfer runs: when the driver sees COMPLETE
\* the engine holds no chunk, packet, callback or event of the transfer, so its
\* next CMD is not dropped by the "already in progress" guard.
StatusTracksTransfer ==
    /\ (statusReg = IDMA_BUSY) = (Active("read") \/ Active("write"))
    /\ statusReg # IDMA_BUSY =>
          inNetwork = {} /\ transmitList = <<>> /\ due = <<>> /\ loop = NoLoop

\* "DMA transfer already in progress!": a second transfer never starts before
\* the first one has finished, whatever the driver does.
OneTransferAtATime ==
    Cardinality({cb \in Callback : cbCount[cb] > 0}) <= 1

\* The driver, which polls without a bound, always gets to its next transfer.
DriverReturns == pc = "wait" ~> pc = "idle"

-----------------------------------------------------------------------------
(***************************************************************************)
(* The engine as software sees it is a block copy in virtual memory        *)
(* (IdmaCopy): a byte is still to be stored if its write packet has not    *)
(* been accepted.                                                          *)
(***************************************************************************)
VirtAddr == UNION {PageSize * p .. PageSize * (p + 1) - 1 : p \in DOMAIN PageTable}
VirtualMemory == [v \in VirtAddr |-> mem[translate(v)]]

Unsent ==
    (IF loop # NoLoop THEN loop.data .. loop.data + loop.left - 1 ELSE {})
      \cup UNION {reqState[id].data + complete(reqState[id].gen)
                    .. reqState[id].data + reqState[id].totBytes - 1 : id \in queued}

ToStore ==
    IF Active("read")
    THEN [v \in dstAddrReg .. dstAddrReg + sizeReg - 1 |->
             VirtualMemory[srcAddrReg + v - dstAddrReg]]
    ELSE [v \in {dstAddrReg + i : i \in Unsent} |-> dmaBuffer[v - dstAddrReg]]

Copy == INSTANCE IdmaCopy
            WITH MaxSize <- BufferSize, vmem <- VirtualMemory,
                 busy <- (statusReg = IDMA_BUSY), toStore <- ToStore

\* With a driver that waits, a transfer is a block copy: the destination gets
\* what the source held at the start, also when the two overlap, nothing else
\* changes, and COMPLETE is not shown before the last byte is stored.
ImplementsCopy == Copy!CopySpec
=============================================================================
