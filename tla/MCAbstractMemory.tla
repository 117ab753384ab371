---------------------------- MODULE MCAbstractMemory ----------------------------
(***************************************************************************)
(* Instances of AbstractMemory: three granules, two values, three contexts. *)
(***************************************************************************)
EXTENDS AbstractMemory

MCGranule == 0 .. 2
MCValue == 0 .. 1

Pkt(c, a, d, x, v) == [cmd |-> c, addr |-> a, data |-> d, ctx |-> x, cond |-> v]

\* What CPUs send: one granule, with the context of the hart; locks are on the
\* first two granules, swaps on the third.
LockGranule == 0 .. 1
CpuRequests ==
    {Pkt(c, a, <<d>>, x, 0) : c \in {"ReadReq", "WriteReq"},
                              a \in MCGranule, d \in MCValue, x \in Ctx}
      \cup {Pkt(c, a, <<1>>, x, 0) : c \in {"LoadLockedReq", "StoreCondReq"},
                                    a \in LockGranule, x \in Ctx}
      \cup {Pkt(c, 2, <<1>>, x, 0) : c \in {"SwapReq", "CondSwapReq"}, x \in Ctx}

\* What the DMA engine sends, and what a cache writes back; the line of two
\* granules starts at a lock.
DmaRequests ==
    {Pkt(c, a, <<d>>, NoCtx, 0) : c \in {"ReadReq", "WriteReq", "WritebackDirty"},
                                  a \in MCGranule, d \in MCValue}
      \cup {Pkt("WriteReq", 1, <<1, 0>>, NoCtx, 0)}

\* A DMA line that covers two locks.
WideDmaRequests == {Pkt("WriteReq", 0, <<1, 1>>, NoCtx, 0)}

MCRequests == CpuRequests \cup DmaRequests
MCWideRequests == MCRequests \cup WideDmaRequests

MCFunctional ==
    {Pkt("ReadReq", a, <<0>>, NoCtx, 0) : a \in MCGranule} \cup {Pkt("WriteReq", 2, <<0>>, NoCtx, 0)}
=============================================================================
