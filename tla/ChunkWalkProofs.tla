---------------------------- MODULE ChunkWalkProofs ----------------------------
(***************************************************************************)
(* The loop over a ChunkGenerator covers its region exactly, for every     *)
(* region, chunk size and width of the addresses, with jumps to block      *)
(* boundaries or to the end of the region.                                 *)
(***************************************************************************)
EXTENDS ChunkWalk, TLAPS

\* Below the wrap-around the arithmetic is that of the integers.
LEMMA NoWrap ==
    ASSUME NEW x \in Nat, x < AddrSpace
    PROVE  Wrap(x) = x
BY AddrSpaceAssumption DEF Wrap

\* A multiple of c lies within c below a.
LEMMA DivMul ==
    ASSUME NEW a \in Nat, NEW c \in Nat \ {0}
    PROVE  (a \div c) * c \in Nat /\ (a \div c) * c <= a /\ a < (a \div c) * c + c
OBVIOUS

\* The block boundary after "start" is above it.
LEMMA RoundUp ==
    ASSUME NEW a \in Nat, NEW c \in Nat \ {0}, a + c < AddrSpace
    PROVE  roundUp(a, c) \in Nat /\ roundUp(a, c) >= a /\ roundUp(a, c) < a + c
<1>1. a + c - 1 \in Nat /\ a + c - 1 < AddrSpace
  BY AddrSpaceAssumption
<1>2. Wrap(a + c - 1) = a + c - 1
  BY <1>1, NoWrap
<1> DEFINE m == ((a + c - 1) \div c) * c
<1>3. m \in Nat /\ m <= a + c - 1 /\ a + c - 1 < m + c
  BY <1>1, DivMul
<1>4. roundUp(a, c) = m
  BY <1>2 DEF roundUp
<1> HIDE DEF m
<1>5. QED BY <1>3, <1>4

\* A multiple of c is rounded up to itself.
LEMMA RoundUpAligned ==
    ASSUME NEW a \in Nat, NEW c \in Nat \ {0}, a + c < AddrSpace, a % c = 0
    PROVE  roundUp(a, c) = a
<1> DEFINE k == a \div c
           q == (a + c - 1) \div c
<1>1. a + c - 1 \in Nat /\ a + c - 1 < AddrSpace
  BY AddrSpaceAssumption
<1>2. k \in Nat /\ q \in Nat /\ a = k * c
  BY <1>1
<1>3. a <= q * c /\ q * c < a + c
  BY <1>1, DivMul
<1> HIDE DEF k, q
<1>4. q = k
  BY <1>2, <1>3
<1>5. Wrap(a + c - 1) = a + c - 1
  BY <1>1, NoWrap
<1>6. roundUp(a, c) = q * c
  BY <1>5 DEF roundUp, q
<1>7. QED BY <1>2, <1>4, <1>6

Members == [curAddr : Nat, nextAddr : Nat, curSize : Nat, nextSize : Nat,
            sizeLeft : Nat, startAddr : Nat, chunkSize : Nat]

\* Generator g is where it should be after h bytes.  Besides what the properties
\* say this fixes nextSize, the only member that carries the size of the next
\* chunk over a step.
Exact(g, h) ==
    /\ g \in Members
    /\ g.startAddr + total + g.chunkSize < AddrSpace
    /\ IF done(g) THEN h = total
       ELSE /\ g.curAddr = g.startAddr + h
            /\ g.nextAddr = g.curAddr + g.curSize
            /\ g.sizeLeft = total - h - g.curSize
            /\ g.sizeLeft # 0 => g.chunkSize # 0 /\ g.nextSize = Least(g.sizeLeft, g.chunkSize)

\* The inductive invariant.
WalkInv == total \in Nat /\ handled \in Nat /\ Exact(gen, handled)

\* The constructor establishes the invariant.
LEMMA WalkInitInv == WalkInit => WalkInv
<1>1. SUFFICES ASSUME NEW s \in Starts, NEW t \in Totals, NEW c \in Chunks,
                      gen = Generator(s, t, c), total = t, handled = 0
               PROVE  WalkInv
  BY DEF WalkInit
<1>2. s \in Nat /\ t \in Nat /\ c \in Nat /\ s + t + c < AddrSpace /\ AddrSpace \in Nat
  BY ChunkWalkAssumption, AddrSpaceAssumption
<1> DEFINE boundary == IF roundUp(s, c) = s THEN Wrap(s + c) ELSE roundUp(s, c)
           nextAddr == IF c = 0 THEN Wrap(s + t) ELSE Least(boundary, Wrap(s + t))
           curSize  == Wrap(nextAddr - s)
           sizeLeft == Wrap(t - curSize)
<1>3. Wrap(s + t) = s + t /\ Wrap(s + c) = s + c
  BY <1>2, NoWrap
<1>4. c # 0 => boundary \in Nat /\ boundary > s
  <2>1. c # 0 => roundUp(s, c) \in Nat /\ roundUp(s, c) >= s
    BY <1>2, RoundUp
  <2>2. QED BY <1>2, <1>3, <2>1
<1>5. /\ nextAddr \in Nat /\ s <= nextAddr /\ nextAddr <= s + t
      /\ nextAddr = s => t = 0
      /\ c = 0 => nextAddr = s + t
  <2> HIDE DEF boundary
  <2>1. QED BY <1>2, <1>3, <1>4 DEF Least
<1>6. curSize = nextAddr - s
  <2> HIDE DEF nextAddr
  <2>1. nextAddr - s \in Nat /\ nextAddr - s < AddrSpace
    BY <1>2, <1>5
  <2>2. QED BY <2>1, NoWrap
<1>7. sizeLeft = t - (nextAddr - s) /\ sizeLeft \in Nat
  <2> HIDE DEF nextAddr, curSize
  <2>1. t - curSize \in Nat /\ t - curSize < AddrSpace
    BY <1>2, <1>5, <1>6
  <2>2. QED BY <2>1, <1>6, NoWrap
<1>8. gen = [curAddr |-> s, nextAddr |-> nextAddr, curSize |-> curSize,
             nextSize |-> Least(sizeLeft, c), sizeLeft |-> sizeLeft,
             startAddr |-> s, chunkSize |-> c]
  BY <1>1 DEF Generator
<1> HIDE DEF nextAddr, curSize, sizeLeft
<1>9. Least(sizeLeft, c) \in Nat
  BY <1>2, <1>7 DEF Least
<1>10. gen \in Members
  BY <1>2, <1>5, <1>6, <1>7, <1>8, <1>9 DEF Members
<1>11. CASE curSize = 0
  BY <1>1, <1>2, <1>5, <1>6, <1>8, <1>10, <1>11 DEF WalkInv, Exact, done
<1>12. CASE curSize # 0
  BY <1>1, <1>2, <1>5, <1>6, <1>7, <1>8, <1>10, <1>12 DEF WalkInv, Exact, done
<1>13. QED BY <1>11, <1>12

\* next() from an exact generator gives an exact one, one chunk further.
LEMMA NextExact ==
    ASSUME total \in Nat, NEW h \in Nat, NEW g, Exact(g, h), ~done(g)
    PROVE  Exact(next(g), h + g.curSize)
<1>1. g \in Members /\ g.startAddr + total + g.chunkSize < AddrSpace /\ AddrSpace \in Nat
  BY AddrSpaceAssumption DEF Exact
<1>2. /\ g.curAddr = g.startAddr + h
      /\ g.nextAddr = g.curAddr + g.curSize
      /\ g.sizeLeft = total - h - g.curSize
      /\ g.sizeLeft # 0 => g.chunkSize # 0 /\ g.nextSize = Least(g.sizeLeft, g.chunkSize)
  BY DEF Exact
<1>3. CASE g.sizeLeft = 0
  <2>1. next(g) = [g EXCEPT !.curSize = 0]
    BY <1>3 DEF next, last
  <2>2. h + g.curSize = total
    BY <1>1, <1>2, <1>3 DEF Members
  <2>3. QED BY <1>1, <2>1, <2>2 DEF Exact, Members, done
<1>4. CASE g.sizeLeft # 0
  <2> DEFINE left == Wrap(g.sizeLeft - g.nextSize)
  <2>1. g.nextSize \in 1 .. g.sizeLeft
    BY <1>1, <1>2, <1>4 DEF Least, Members
  <2>2. left = g.sizeLeft - g.nextSize
    <3>1. g.sizeLeft - g.nextSize \in Nat /\ g.sizeLeft - g.nextSize < AddrSpace
      BY <1>1, <1>2, <2>1 DEF Members
    <3>2. QED BY <3>1, NoWrap
  <2>3. Wrap(g.nextAddr + g.nextSize) = g.nextAddr + g.nextSize
    <3>1. g.nextAddr + g.nextSize \in Nat /\ g.nextAddr + g.nextSize < AddrSpace
      BY <1>1, <1>2, <2>1 DEF Members
    <3>2. QED BY <3>1, NoWrap
  <2> HIDE DEF left
  <2>4. next(g) = [curAddr |-> g.nextAddr, nextAddr |-> g.nextAddr + g.nextSize,
                   curSize |-> g.nextSize, nextSize |-> Least(left, g.chunkSize),
                   sizeLeft |-> left, startAddr |-> g.startAddr,
                   chunkSize |-> g.chunkSize]
    BY <1>1, <1>4, <2>3 DEF next, last, left, Members
  <2>5. left \in Nat /\ Least(left, g.chunkSize) \in Nat
    BY <1>1, <2>1, <2>2 DEF Least, Members
  <2>6. next(g) \in Members
    BY <1>1, <2>1, <2>4, <2>5 DEF Members
  <2>7. QED
    BY <1>1, <1>2, <1>4, <2>1, <2>2, <2>4, <2>6 DEF Exact, Members, done
<1>5. QED BY <1>3, <1>4

\* setNext to a block boundary or to the end keeps a generator exact.
LEMMA SetNextExact ==
    ASSUME total \in Nat, NEW h \in Nat, NEW g, Exact(g, h), ~done(g), g.chunkSize # 0,
           NEW to \in g.nextAddr .. g.startAddr + total,
           to % g.chunkSize = 0 \/ to = g.startAddr + total
    PROVE  Exact(setNext(g, to), h) /\ ~done(setNext(g, to))
<1>1. /\ g \in Members /\ g.startAddr + total + g.chunkSize < AddrSpace /\ AddrSpace \in Nat
      /\ g.chunkSize \in Nat \ {0}
  BY AddrSpaceAssumption DEF Exact, Members
<1>2. /\ g.curAddr = g.startAddr + h
      /\ g.nextAddr = g.curAddr + g.curSize
      /\ g.sizeLeft = total - h - g.curSize
  BY DEF Exact
<1>3. to \in Nat /\ to - g.nextAddr \in 0 .. g.sizeLeft /\ to + g.chunkSize < AddrSpace
  BY <1>1, <1>2 DEF Members
<1> DEFINE skipping == Least(Wrap(to - g.nextAddr), g.sizeLeft)
           left == g.sizeLeft - skipping
           gap == Wrap(roundUp(to, g.chunkSize) - to)
           nextSize == IF gap # 0 THEN gap ELSE Least(left, g.chunkSize)
<1>4. skipping = to - g.nextAddr
  <2>1. to - g.nextAddr \in Nat /\ to - g.nextAddr < AddrSpace
    BY <1>1, <1>2, <1>3 DEF Members
  <2>2. Wrap(to - g.nextAddr) = to - g.nextAddr
    BY <2>1, NoWrap
  <2>3. QED BY <1>1, <1>3, <2>2 DEF Least, Members
<1>5. left = g.startAddr + total - to /\ left \in Nat
  BY <1>1, <1>2, <1>3, <1>4 DEF Members
<1>6. Wrap(g.curSize + skipping) = g.curSize + skipping
  <2>1. g.curSize + skipping \in Nat /\ g.curSize + skipping < AddrSpace
    BY <1>1, <1>2, <1>3, <1>4 DEF Members
  <2>2. QED BY <2>1, NoWrap
<1>7. gap \in Nat
  <2>1. roundUp(to, g.chunkSize) \in Nat
    BY <1>1, <1>3, RoundUp
  <2>2. QED BY <1>1, <1>3, <2>1 DEF Wrap
<1>8. left # 0 => nextSize = Least(left, g.chunkSize)
  <2>1. SUFFICES ASSUME left # 0 PROVE gap = 0
    OBVIOUS
  <2>2. to % g.chunkSize = 0
    BY <1>1, <1>5, <2>1 DEF Members
  <2>3. roundUp(to, g.chunkSize) = to
    BY <1>1, <1>3, <2>2, RoundUpAligned
  <2>4. QED BY <1>1, <1>3, <2>3, NoWrap
<1>9. nextSize \in Nat
  BY <1>1, <1>5, <1>7 DEF Least, Members
<1>10. setNext(g, to) = [curAddr |-> g.curAddr, nextAddr |-> to,
                         curSize |-> g.curSize + skipping, nextSize |-> nextSize,
                         sizeLeft |-> left, startAddr |-> g.startAddr,
                         chunkSize |-> g.chunkSize]
  <2>1. setNext(g, to) = [g EXCEPT !.sizeLeft = left, !.curSize = g.curSize + skipping,
                                   !.nextAddr = to, !.nextSize = nextSize]
    BY <1>1, <1>6 DEF setNext, Members
  <2> HIDE DEF skipping, left, gap, nextSize
  <2>2. QED BY <1>1, <2>1 DEF Members
<1> HIDE DEF skipping, left, gap, nextSize
<1>11. g.curSize \in Nat \ {0}
  BY <1>1 DEF Members, done
<1>12. setNext(g, to) \in Members
  BY <1>1, <1>3, <1>4, <1>5, <1>9, <1>10 DEF Members
<1>13. ~done(setNext(g, to))
  BY <1>3, <1>4, <1>10, <1>11 DEF done
<1>14. QED
  BY <1>1, <1>2, <1>3, <1>4, <1>5, <1>8, <1>10, <1>12, <1>13 DEF Exact, Members

\* Every step of the loop keeps the invariant.
LEMMA WalkNextInv ==
    ASSUME AlignedJumps, WalkInv, [WalkNext]_walkVars
    PROVE  WalkInv'
<1>1. ASSUME NEW g, Exact(g, handled), ~done(g), gen' = next(g),
             handled' = handled + g.curSize, total' = total
      PROVE  WalkInv'
  <2>1. Exact(gen', handled')
    BY <1>1, NextExact DEF WalkInv
  <2>2. handled' \in Nat
    BY <1>1 DEF WalkInv, Exact, Members
  <2>3. QED BY <1>1, <2>1, <2>2 DEF WalkInv, Exact, done
<1>2. CASE Step
  BY <1>1, <1>2 DEF Step, WalkInv
<1>3. CASE Jump
  <2>1. PICK to \in gen.nextAddr .. gen.startAddr + total :
            /\ to % gen.chunkSize = 0 \/ to = gen.startAddr + total
            /\ handled' = handled + setNext(gen, to).curSize
            /\ gen' = next(setNext(gen, to))
    BY <1>3 DEF Jump
  <2>2. Exact(setNext(gen, to), handled) /\ ~done(setNext(gen, to))
    BY <1>3, <2>1, SetNextExact DEF Jump, WalkInv
  <2>3. QED BY <1>1, <1>3, <2>1, <2>2 DEF Jump
<1>4. CASE UNCHANGED walkVars
  BY <1>4 DEF walkVars, WalkInv, Exact, done
<1>5. QED BY <1>2, <1>3, <1>4 DEF WalkNext, WalkDone

\* The members of ChunkGenerator agree with the region at every iteration: the
\* chunks follow each other without gap or overlap and sizeLeft is what remains.
THEOREM ChunksExact == AlignedJumps /\ WalkSpec => []SizeLeftExact
<1>1. SUFFICES ASSUME AlignedJumps PROVE WalkSpec => []SizeLeftExact
  OBVIOUS
<1>2. WalkInv /\ [WalkNext]_walkVars => WalkInv'
  BY <1>1, WalkNextInv
<1>3. WalkInv => SizeLeftExact
  BY DEF WalkInv, Exact, SizeLeftExact
<1>4. QED BY <1>2, <1>3, WalkInitInv, PTL DEF WalkSpec

\* A loop over the chunks that has ended has handled every byte of the region
\* once.
THEOREM RegionHandled == AlignedJumps /\ WalkSpec => []AllHandled
<1>1. SUFFICES ASSUME AlignedJumps PROVE WalkSpec => []AllHandled
  OBVIOUS
<1>2. WalkInv /\ [WalkNext]_walkVars => WalkInv'
  BY <1>1, WalkNextInv
<1>3. WalkInv => AllHandled
  BY DEF WalkInv, Exact, AllHandled
<1>4. QED BY <1>2, <1>3, WalkInitInv, PTL DEF WalkSpec
=============================================================================
