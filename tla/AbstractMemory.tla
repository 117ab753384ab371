----------------------------- MODULE AbstractMemory -----------------------------
(***************************************************************************)
(* The backing store of a scratchpad (mem/abstract_mem.cc): data, the list *)
(* of load-locked reservations and the backdoor handed to atomic-mode      *)
(* requestors.  Addresses count LL/SC granules (LockedAddr::mask), so an   *)
(* access of a CPU covers one granule and a line of the DMA engine several.*)
(***************************************************************************)
EXTENDS Integers, Sequences

CONSTANTS Granule,            \* the granules of the memory, an interval
          Value,              \* what a granule may hold
          Ctx,                \* hardware contexts that issue LL and SC
          NoCtx,              \* contextId of a request that has none (DMA)
          Writeable,          \* parameter "writeable"
          Requests,           \* packets the requestors may send
          FunctionalRequests  \* packets the functional path may carry

Command == {"ReadReq", "LoadLockedReq", "WriteReq", "StoreCondReq",
            "WritebackDirty", "SwapReq", "CondSwapReq"}

(***************************************************************************)
(* "data" is the payload, one value per granule; "cond" is the extra data  *)
(* of a conditional swap and is ignored by the other commands.             *)
(***************************************************************************)
Packet == [cmd : Command, addr : Granule, data : Seq(Value) \ {<<>>},
           ctx : Ctx \cup {NoCtx}, cond : Value]

ASSUME AbstractMemoryAssumption ==
    /\ Granule \subseteq Int
    /\ NoCtx \notin Ctx
    /\ Writeable \in BOOLEAN
    /\ Requests \cup FunctionalRequests \subseteq Packet
    /\ \A pkt \in Requests \cup FunctionalRequests :
          pkt.addr .. (pkt.addr + Len(pkt.data) - 1) \subseteq Granule
    /\ \A pkt \in Requests :
          pkt.cmd \in {"LoadLockedReq", "StoreCondReq"} => pkt.ctx \in Ctx

VARIABLES mem,             \* pmemAddr: contents of every granule
          lockedAddrList,  \* reservations, records [addr, ctx]
          backdoorOut,     \* a valid backdoor is in the hands of a requestor
          monitor          \* history: what each context load-locked and
                           \* nobody has written since
memVars == <<mem, lockedAddrList, backdoorOut, monitor>>

-----------------------------------------------------------------------------
Covers(pkt) == pkt.addr .. (pkt.addr + Len(pkt.data) - 1)

isLLSC(pkt) == pkt.cmd \in {"LoadLockedReq", "StoreCondReq"}
isSwap(pkt) == pkt.cmd \in {"SwapReq", "CondSwapReq"}
isRead(pkt) == pkt.cmd \in {"ReadReq", "LoadLockedReq"}
needsResponse(pkt) == pkt.cmd # "WritebackDirty"

\* pkt->setData(host_addr), pkt->writeData(host_addr)
DataRead(pkt) == [i \in 1 .. Len(pkt.data) |-> mem[pkt.addr + i - 1]]
DataWritten(pkt) ==
    [a \in Granule |->
        IF a \in Covers(pkt) THEN pkt.data[a - pkt.addr + 1] ELSE mem[a]]

\* The packet that goes back: reads and swaps carry what the memory held.
Response(pkt) ==
    IF isRead(pkt) \/ isSwap(pkt)
    THEN [pkt EXCEPT !.data = DataRead(pkt)] ELSE pkt

\* Mutants.
checkLockedAddrList_ownOnly(pkt) ==
    {r \in lockedAddrList : r.addr # pkt.addr \/ r.ctx # pkt.ctx}

checkLockedAddrList_all(pkt) == {}

\* A context has one reservation; a new load-locked moves it.
trackLoadLocked(pkt) ==
    {r \in lockedAddrList : r.ctx # pkt.ctx}
        \cup {[addr |-> pkt.addr, ctx |-> pkt.ctx]}

\* writeOK and checkLockedAddrList: whether the store is performed.
writeOK(pkt) ==
    /\ Writeable
    /\ pkt.cmd = "StoreCondReq" =>
          [addr |-> pkt.addr, ctx |-> pkt.ctx] \in lockedAddrList

\* A store that is performed removes the records of its first granule.
checkLockedAddrList(pkt) == {r \in lockedAddrList : r.addr # pkt.addr}

swapOverwrites(pkt) ==
    pkt.cmd = "CondSwapReq" => DataRead(pkt) = <<pkt.cond>>

\* History: the granules in S have been overwritten.
Overwritten(S) == monitor' = [c \in Ctx |-> monitor[c] \ S]

-----------------------------------------------------------------------------
accessRead(pkt) ==
    /\ isRead(pkt)
    /\ UNCHANGED mem
    /\ IF isLLSC(pkt)
       THEN /\ lockedAddrList' = trackLoadLocked(pkt)
            /\ backdoorOut' = IF \E r \in lockedAddrList : r.ctx = pkt.ctx
                              THEN backdoorOut ELSE FALSE
            /\ monitor' = [monitor EXCEPT ![pkt.ctx] = {pkt.addr}]
       ELSE UNCHANGED <<lockedAddrList, backdoorOut, monitor>>

accessWrite(pkt) ==
    /\ pkt.cmd \in {"WriteReq", "StoreCondReq", "WritebackDirty"}
    /\ UNCHANGED backdoorOut
    /\ IF writeOK(pkt)
       THEN /\ mem' = DataWritten(pkt)
            /\ lockedAddrList' = checkLockedAddrList(pkt)
            /\ Overwritten(Covers(pkt))
       ELSE UNCHANGED <<mem, lockedAddrList, monitor>>

accessSwap(pkt) ==
    /\ isSwap(pkt)
    /\ UNCHANGED <<lockedAddrList, backdoorOut>>
    /\ IF swapOverwrites(pkt)
       THEN mem' = DataWritten(pkt) /\ Overwritten(Covers(pkt))
       ELSE UNCHANGED <<mem, monitor>>

access(pkt) == accessRead(pkt) \/ accessWrite(pkt) \/ accessSwap(pkt)

\* A functional access touches the data only.
functionalAccess(pkt) ==
    /\ UNCHANGED <<lockedAddrList, backdoorOut>>
    /\ IF isRead(pkt)
       THEN UNCHANGED <<mem, monitor>>
       ELSE mem' = DataWritten(pkt) /\ Overwritten(Covers(pkt))

-----------------------------------------------------------------------------
RecvAtomic == \E pkt \in Requests : access(pkt)

\* recvMemBackdoorReq: the backdoor is handed out unless someone holds a lock.
GetBackdoor ==
    /\ lockedAddrList = {}
    /\ backdoorOut' = TRUE
    /\ UNCHANGED <<mem, lockedAddrList, monitor>>

\* The holder of a valid backdoor stores through the host pointer.
BackdoorWrite ==
    /\ backdoorOut
    /\ \E a \in Granule, v \in Value : mem' = [mem EXCEPT ![a] = v] /\ Overwritten({a})
    /\ UNCHANGED <<lockedAddrList, backdoorOut>>

RecvFunctional == \E pkt \in FunctionalRequests : functionalAccess(pkt)

MemInit ==
    /\ mem \in [Granule -> Value]
    /\ lockedAddrList = {}
    /\ backdoorOut = FALSE
    /\ monitor = [c \in Ctx |-> {}]

MemNext == RecvAtomic \/ GetBackdoor \/ BackdoorWrite \/ RecvFunctional

MemSpec == MemInit /\ [][MemNext]_memVars

-----------------------------------------------------------------------------
\* Types of the store, the reservation list, the backdoor and the history.
MemTypeOK ==
    /\ mem \in [Granule -> Value]
    /\ lockedAddrList \subseteq [addr : Granule, ctx : Ctx]
    /\ backdoorOut \in BOOLEAN
    /\ monitor \in [Ctx -> SUBSET Granule]

\* Every recorded reservation (what makes a store-conditional succeed in
\* checkLockedAddrList) is on a granule nobody has written since its context
\* load-locked it.
ReservationSound == \A r \in lockedAddrList : r.addr \in monitor[r.ctx]

\* Conversely no reservation is lost: a context whose granule nobody has written
\* still has its record, so a failed store-conditional of one context never
\* drops the reservation of another (checkLockedAddrList, trackLoadLocked).
ReservationKept ==
    \A c \in Ctx, a \in Granule :
        a \in monitor[c] => [addr |-> a, ctx |-> c] \in lockedAddrList

\* While a reservation exists nobody holds the backdoor, whose stores bypass
\* the reservation list (getBackdoor, trackLoadLocked).
NoBackdoorWhileLocked == lockedAddrList = {} \/ ~backdoorOut
=============================================================================
