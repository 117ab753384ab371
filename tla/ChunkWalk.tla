------------------------------- MODULE ChunkWalk -------------------------------
(***************************************************************************)
(* The loops of DmaPort over a ChunkGenerator in atomic mode, chunk by      *)
(* chunk or with jumps over what a backdoor provides, for a region that     *)
(* ends inside the address space.                                           *)
(***************************************************************************)
EXTENDS ChunkGenerator

CONSTANTS Starts, Totals, Chunks,  \* arguments of the constructor
          AlignedJumps             \* whether backdoors end at block boundaries

ASSUME ChunkWalkAssumption ==
    /\ Starts \subseteq Nat /\ Totals \subseteq Nat /\ Chunks \subseteq Nat
    /\ \A s \in Starts, t \in Totals, c \in Chunks : s + t + c < AddrSpace
    /\ AlignedJumps \in BOOLEAN

VARIABLES gen,
          total,    \* totalSize, which the generator does not keep
          handled   \* history: bytes of the chunks the loop body has finished

walkVars == <<gen, total, handled>>

WalkInit ==
    \E s \in Starts, t \in Totals, c \in Chunks :
        gen = Generator(s, t, c) /\ total = t /\ handled = 0

\* Mutant.
Step_lastNotEnded ==
    /\ ~done(gen)
    /\ handled' = IF last(gen) THEN handled ELSE handled + gen.curSize
    /\ gen' = IF last(gen) THEN gen ELSE next(gen)
    /\ UNCHANGED total

\* sendAtomicReq: the chunk goes out as a packet, then next() advances.
Step ==
    /\ ~done(gen)
    /\ handled' = handled + gen.curSize
    /\ gen' = next(gen)
    /\ UNCHANGED total

\* sendAtomicBdReq: a backdoor provides everything up to "to", the end of the
\* backdoor or of the region; the chunk grows up to there, then next() advances.
Jump ==
    /\ ~done(gen) /\ gen.chunkSize # 0
    /\ \E to \in gen.nextAddr .. gen.startAddr + total :
          /\ AlignedJumps => to % gen.chunkSize = 0 \/ to = gen.startAddr + total
          /\ handled' = handled + setNext(gen, to).curSize
          /\ gen' = next(setNext(gen, to))
    /\ UNCHANGED total

WalkDone == done(gen) /\ UNCHANGED walkVars

WalkNext == Step \/ Jump \/ WalkDone

WalkSpec == WalkInit /\ [][WalkNext]_walkVars /\ WF_walkVars(Step)

-----------------------------------------------------------------------------
\* "The number of bytes remaining in the region after the current chunk":
\* sizeLeft is exact, so the chunks neither overlap, leave a gap nor run past
\* the end of the region.
SizeLeftExact ==
    ~done(gen) =>
        /\ gen.curAddr = gen.startAddr + handled
        /\ gen.nextAddr = gen.curAddr + gen.curSize
        /\ gen.sizeLeft = total - handled - gen.curSize

\* A chunk stays within one block of chunkSize bytes (a cache line of the DMA
\* port): the packets made from it never cross a line.
WithinBlock ==
    gen.chunkSize # 0 /\ ~done(gen) =>
        gen.curAddr \div gen.chunkSize = (gen.curAddr + gen.curSize - 1) \div gen.chunkSize

\* When the loop ends the whole region has been handled, no byte twice.
AllHandled == done(gen) => handled = total

\* The loop ends.
WalkEnds == <>done(gen)
=============================================================================
