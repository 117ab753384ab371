----------------------------- MODULE ChunkGenerator -----------------------------
(***************************************************************************)
(* base/chunk_generator.hh: the iterator that cuts a region of memory into *)
(* chunks that do not cross a chunk boundary.  A generator is a record of  *)
(* its members; addresses wrap around at AddrSpace (2^64 in the code).     *)
(***************************************************************************)
EXTENDS Integers

CONSTANT AddrSpace

ASSUME AddrSpaceAssumption == AddrSpace \in Nat \ {0}

Wrap(x) == x % AddrSpace
Least(a, b) == IF a <= b THEN a ELSE b
roundUp(a, align) == (Wrap(a + align - 1) \div align) * align

Generator(start, total, chunk) ==
    LET boundary  == IF roundUp(start, chunk) = start
                     THEN Wrap(start + chunk) ELSE roundUp(start, chunk)
        nextAddr  == IF chunk = 0 THEN Wrap(start + total)
                     ELSE Least(boundary, Wrap(start + total))
        curSize   == Wrap(nextAddr - start)
        sizeLeft  == Wrap(total - curSize)
    IN  [curAddr |-> start, nextAddr |-> nextAddr, curSize |-> curSize,
         nextSize |-> Least(sizeLeft, chunk), sizeLeft |-> sizeLeft,
         startAddr |-> start, chunkSize |-> chunk]

complete(gen) == Wrap(gen.curAddr - gen.startAddr)
done(gen) == gen.curSize = 0
last(gen) == gen.sizeLeft = 0

\* Mutant.
setNext_noSkip(gen, to) ==
    [gen EXCEPT !.curSize = Wrap(@ + Wrap(to - gen.nextAddr)), !.nextAddr = to]

\* The current chunk grows up to "to", the first byte not handled yet.
setNext(gen, to) ==
    LET skipping == Least(Wrap(to - gen.nextAddr), gen.sizeLeft)
        left     == gen.sizeLeft - skipping
        gap      == Wrap(roundUp(to, gen.chunkSize) - to)
    IN  [gen EXCEPT !.sizeLeft = left, !.curSize = Wrap(@ + skipping), !.nextAddr = to,
                    !.nextSize = IF gap # 0 THEN gap ELSE Least(left, gen.chunkSize)]

\* Mutant: the chunks after the first are one short of the block.
next_misaligned(gen) ==
    LET left == Wrap(gen.sizeLeft - gen.nextSize)
    IN  IF last(gen) THEN [gen EXCEPT !.curSize = 0]
        ELSE [gen EXCEPT !.curAddr = gen.nextAddr, !.curSize = gen.nextSize,
                         !.sizeLeft = left, !.nextAddr = Wrap(@ + gen.nextSize),
                         !.nextSize = Least(left, gen.chunkSize - 1)]

next(gen) ==
    LET left == Wrap(gen.sizeLeft - gen.nextSize)
    IN  IF last(gen) THEN [gen EXCEPT !.curSize = 0]
        ELSE [gen EXCEPT !.curAddr = gen.nextAddr, !.curSize = gen.nextSize,
                         !.sizeLeft = left, !.nextAddr = Wrap(@ + gen.nextSize),
                         !.nextSize = Least(left, gen.chunkSize)]
=============================================================================
