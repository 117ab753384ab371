--------------------------------- MODULE MCXBar ---------------------------------
(***************************************************************************)
(* An instance of the crossbar: a core, which waits for each answer, and a *)
(* DMA engine with two requests on their way, at the CPU port of one       *)
(* scratchpad and the DMA port of another.                                 *)
(***************************************************************************)
EXTENDS XBarDrain

CONSTANTS core, dma, cpuPort, dmaPort

MCRequestor == {core, dma}
MCMemory == {cpuPort, dmaPort}
MCOutstanding == [c \in MCRequestor |-> IF c = dma THEN 2 ELSE 1]
=============================================================================
