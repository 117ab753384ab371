-------------------------- MODULE AbstractMemoryProofs --------------------------
(***************************************************************************)
(* Theorems about the backing store: types, and what the reservation list  *)
(* promises to load-locked/store-conditional pairs.                        *)
(***************************************************************************)
EXTENDS AbstractMemory, TLAPS

\* What a packet of the requestors is, in the terms the steps below use.
LEMMA PacketFacts ==
    ASSUME NEW pkt \in Requests \cup FunctionalRequests
    PROVE  /\ pkt \in Packet
           /\ Len(pkt.data) \in Nat \ {0}
           /\ pkt.addr \in Granule
           /\ pkt.addr \in Int
           /\ pkt.addr \in Covers(pkt)
           /\ Covers(pkt) \subseteq Granule
           /\ \A a \in Covers(pkt) : pkt.data[a - pkt.addr + 1] \in Value
<1>1. pkt \in Packet /\ pkt.addr \in Granule /\ pkt.addr \in Int
  BY AbstractMemoryAssumption DEF Packet
<1>2. pkt.data \in Seq(Value) /\ pkt.data # <<>>
  BY <1>1 DEF Packet
<1>3. Len(pkt.data) \in Nat \ {0}
  BY <1>2
<1>4. Covers(pkt) \subseteq Granule
  BY AbstractMemoryAssumption DEF Covers
<1>5. pkt.addr \in Covers(pkt)
  BY <1>1, <1>3 DEF Covers
<1>6. ASSUME NEW a \in Covers(pkt) PROVE pkt.data[a - pkt.addr + 1] \in Value
  <2>1. a \in Int /\ a - pkt.addr + 1 \in 1 .. Len(pkt.data)
    BY <1>1, <1>3 DEF Covers
  <2>2. QED BY <2>1, <1>2
<1>7. QED BY <1>1, <1>3, <1>4, <1>5, <1>6

\* The new contents of the memory are values again.
LEMMA WrittenType ==
    ASSUME NEW pkt \in Requests \cup FunctionalRequests, mem \in [Granule -> Value]
    PROVE  DataWritten(pkt) \in [Granule -> Value]
BY PacketFacts DEF DataWritten

\* An access keeps the store, the list and the history within their types.
LEMMA AccessType ==
    ASSUME NEW pkt \in Requests, MemTypeOK, access(pkt)
    PROVE  MemTypeOK'
<1> USE DEF MemTypeOK
<1>1. CASE accessRead(pkt)
  <2>1. CASE isLLSC(pkt)
    <3>1. pkt.ctx \in Ctx
      BY <1>1, <2>1, AbstractMemoryAssumption DEF accessRead, isLLSC, isRead
    <3>2. pkt.addr \in Granule
      BY PacketFacts
    <3>3. lockedAddrList' \subseteq [addr : Granule, ctx : Ctx]
      BY <3>1, <3>2, <1>1, <2>1 DEF accessRead, trackLoadLocked
    <3>4. backdoorOut' \in BOOLEAN
      BY <1>1, <2>1, Zenon DEF accessRead
    <3>5. monitor' \in [Ctx -> SUBSET Granule] /\ mem' \in [Granule -> Value]
      BY <3>1, <3>2, <1>1, <2>1 DEF accessRead
    <3>6. QED BY <3>3, <3>4, <3>5
  <2>2. CASE ~isLLSC(pkt)
    BY <1>1, <2>2 DEF accessRead
  <2>3. QED BY <2>1, <2>2
<1>2. CASE accessWrite(pkt)
  BY <1>2, WrittenType DEF accessWrite, checkLockedAddrList, Overwritten
<1>3. CASE accessSwap(pkt)
  BY <1>3, WrittenType DEF accessSwap, Overwritten
<1>4. QED BY <1>1, <1>2, <1>3 DEF access

\* So does a functional access.
LEMMA FunctionalType ==
    ASSUME NEW pkt \in FunctionalRequests, MemTypeOK, functionalAccess(pkt)
    PROVE  MemTypeOK'
BY WrittenType DEF MemTypeOK, functionalAccess, Overwritten

\* The packet that goes back is a packet.
LEMMA ResponseType ==
    ASSUME NEW pkt \in Requests, MemTypeOK
    PROVE  Response(pkt) \in Packet
<1>1. pkt \in Packet /\ pkt.addr \in Int /\ Len(pkt.data) \in Nat \ {0}
  BY PacketFacts
<1>2. \A i \in 1 .. Len(pkt.data) : pkt.addr + i - 1 \in Granule
  <2>1. \A i \in 1 .. Len(pkt.data) : pkt.addr + i - 1 \in Covers(pkt)
    BY <1>1 DEF Covers
  <2>2. QED BY <2>1, PacketFacts
<1>3. DataRead(pkt) \in Seq(Value) \ {<<>>}
  BY <1>1, <1>2 DEF DataRead, MemTypeOK
<1>4. QED BY <1>1, <1>3 DEF Response, Packet

\* Every access keeps the store, the reservation list and the history within
\* their types, whatever requests the two ports carry.
THEOREM MemTypeCorrect == MemSpec => []MemTypeOK
<1>1. MemInit => MemTypeOK
  BY DEF MemInit, MemTypeOK
<1>2. MemTypeOK /\ [MemNext]_memVars => MemTypeOK'
  <2> SUFFICES ASSUME MemTypeOK, [MemNext]_memVars PROVE MemTypeOK'
    OBVIOUS
  <2> USE DEF MemTypeOK
  <2>1. ASSUME NEW pkt \in Requests, access(pkt) PROVE MemTypeOK'
    BY <2>1, AccessType
  <2>2. CASE GetBackdoor
    BY <2>2 DEF GetBackdoor
  <2>3. CASE BackdoorWrite
    BY <2>3 DEF BackdoorWrite, Overwritten
  <2>4. ASSUME NEW pkt \in FunctionalRequests, functionalAccess(pkt) PROVE MemTypeOK'
    BY <2>4, FunctionalType
  <2>5. CASE UNCHANGED memVars
    BY <2>5 DEF memVars
  <2>6. QED
    BY <2>1, <2>2, <2>3, <2>4, <2>5 DEF MemNext, RecvAtomic, RecvFunctional
<1>3. QED BY <1>1, <1>2, PTL DEF MemSpec

-----------------------------------------------------------------------------
\* No reservation is lost and none coexists with the backdoor, for every set of
\* requests: wide stores, swaps and functional writes included.
THEOREM ReservationsKept == MemSpec => [](ReservationKept /\ NoBackdoorWhileLocked)
<1> DEFINE Inv == ReservationKept /\ NoBackdoorWhileLocked
<1>1. MemInit => Inv
  BY DEF MemInit, ReservationKept, NoBackdoorWhileLocked
<1>2. MemTypeOK /\ Inv /\ [MemNext]_memVars => Inv'
  <2> SUFFICES ASSUME MemTypeOK, Inv, [MemNext]_memVars PROVE Inv'
    OBVIOUS
  <2> USE DEF MemTypeOK, ReservationKept, NoBackdoorWhileLocked
  <2>1. ASSUME NEW pkt \in Requests, access(pkt) PROVE Inv'
    <3>1. CASE accessRead(pkt)
      <4>1. CASE isLLSC(pkt)
        <5>1. pkt.ctx \in Ctx
          BY <3>1, <4>1, AbstractMemoryAssumption DEF accessRead, isLLSC, isRead
        <5>2. ReservationKept'
          BY <5>1, <3>1, <4>1 DEF accessRead, trackLoadLocked
        <5>3. backdoorOut' = FALSE
          <6>1. CASE \E r \in lockedAddrList : r.ctx = pkt.ctx
            BY <6>1, <3>1, <4>1 DEF accessRead
          <6>2. CASE ~ \E r \in lockedAddrList : r.ctx = pkt.ctx
            BY <6>2, <3>1, <4>1 DEF accessRead
          <6>3. QED BY <6>1, <6>2
        <5>4. QED BY <5>2, <5>3
      <4>2. CASE ~isLLSC(pkt)
        BY <3>1, <4>2 DEF accessRead
      <4>3. QED BY <4>1, <4>2
    <3>2. CASE accessWrite(pkt)
      BY <3>2, PacketFacts DEF accessWrite, checkLockedAddrList, Overwritten
    <3>3. CASE accessSwap(pkt)
      BY <3>3 DEF accessSwap, Overwritten
    <3>4. QED BY <2>1, <3>1, <3>2, <3>3 DEF access
  <2>2. CASE GetBackdoor
    BY <2>2 DEF GetBackdoor
  <2>3. CASE BackdoorWrite
    BY <2>3 DEF BackdoorWrite, Overwritten
  <2>4. ASSUME NEW pkt \in FunctionalRequests, functionalAccess(pkt) PROVE Inv'
    BY <2>4 DEF functionalAccess, Overwritten
  <2>5. CASE UNCHANGED memVars
    BY <2>5 DEF memVars
  <2>6. QED
    BY <2>1, <2>2, <2>3, <2>4, <2>5 DEF MemNext, RecvAtomic, RecvFunctional
<1>3. QED BY <1>1, <1>2, MemTypeCorrect, PTL DEF MemSpec

\* The granules some context load-locks.
LockTargets == {pkt.addr : pkt \in {q \in Requests : q.cmd = "LoadLockedReq"}}

\* The requests for which checkLockedAddrList sees every lock a store affects:
\* a store touches no such granule beyond its first one, and what bypasses
\* writeOK (swaps, functional writes) touches none.
LocksKeptApart ==
    /\ \A pkt \in Requests :
          Covers(pkt) \cap LockTargets \subseteq IF isSwap(pkt) THEN {} ELSE {pkt.addr}
    /\ \A pkt \in FunctionalRequests : isRead(pkt) \/ Covers(pkt) \cap LockTargets = {}

\* Reservations are on such granules, which makes ReservationSound inductive.
LocksOnTargets == \A r \in lockedAddrList : r.addr \in LockTargets

\* With locks kept apart, a reservation on record is on a granule nobody has
\* written since: a store-conditional that succeeds is atomic with its
\* load-locked.
THEOREM StoreConditionalAtomic == LocksKeptApart => (MemSpec => []ReservationSound)
<1> SUFFICES ASSUME LocksKeptApart PROVE MemSpec => []ReservationSound
  OBVIOUS
<1> DEFINE Inv == ReservationSound /\ LocksOnTargets
<1>1. MemInit => Inv
  BY DEF MemInit, ReservationSound, LocksOnTargets
<1>2. MemTypeOK /\ NoBackdoorWhileLocked /\ Inv /\ [MemNext]_memVars => Inv'
  <2> SUFFICES ASSUME MemTypeOK, NoBackdoorWhileLocked, Inv, [MemNext]_memVars
               PROVE  Inv'
    OBVIOUS
  <2> USE DEF MemTypeOK, ReservationSound, LocksOnTargets
  <2>1. ASSUME NEW pkt \in Requests, access(pkt) PROVE Inv'
    <3>1. CASE accessRead(pkt)
      <4>1. CASE isLLSC(pkt)
        <5>1. pkt.ctx \in Ctx /\ pkt.addr \in LockTargets
          BY <3>1, <4>1, AbstractMemoryAssumption DEF accessRead, isLLSC, isRead, LockTargets
        <5>2. QED
          BY <5>1, <3>1, <4>1 DEF accessRead, trackLoadLocked
      <4>2. CASE ~isLLSC(pkt)
        BY <3>1, <4>2 DEF accessRead
      <4>3. QED BY <4>1, <4>2
    <3>2. CASE accessWrite(pkt)
      <4>1. \A a \in Covers(pkt) \cap LockTargets : a = pkt.addr
        BY <3>2 DEF LocksKeptApart, accessWrite, isSwap
      <4>2. QED
        BY <3>2, <4>1 DEF accessWrite, checkLockedAddrList, Overwritten
    <3>3. CASE accessSwap(pkt)
      <4>1. Covers(pkt) \cap LockTargets = {}
        BY <3>3 DEF LocksKeptApart, accessSwap
      <4>2. QED BY <3>3, <4>1 DEF accessSwap, Overwritten
    <3>4. QED BY <2>1, <3>1, <3>2, <3>3 DEF access
  <2>2. CASE GetBackdoor
    BY <2>2 DEF GetBackdoor
  <2>3. CASE BackdoorWrite
    BY <2>3 DEF BackdoorWrite, NoBackdoorWhileLocked
  <2>4. ASSUME NEW pkt \in FunctionalRequests, functionalAccess(pkt) PROVE Inv'
    BY <2>4 DEF functionalAccess, LocksKeptApart, Overwritten
  <2>5. CASE UNCHANGED memVars
    BY <2>5 DEF memVars
  <2>6. QED
    BY <2>1, <2>2, <2>3, <2>4, <2>5 DEF MemNext, RecvAtomic, RecvFunctional
<1>3. QED BY <1>1, <1>2, MemTypeCorrect, ReservationsKept, PTL DEF MemSpec
=============================================================================
