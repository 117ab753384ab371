--------------------------- MODULE MCScratchpadMemory ---------------------------
(***************************************************************************)
(* Instances of ScratchpadMemory.  The runs of the ports need no data: two *)
(* addresses and a CPU queue of three, so that a response can be inserted  *)
(* between two others, and latencies that invert their order.  The run on  *)
(* functional writes has data and every kind of access.                    *)
(***************************************************************************)
EXTENDS ScratchpadMemory

Pkt(c, a, d) == [cmd |-> c, addr |-> a, data |-> d, ctx |-> NoCtx, cond |-> 0]

MCGranule == 0 .. 1
DmaPortSide == {Pkt("ReadReq", 0, <<0, 0>>), Pkt("WritebackDirty", 1, <<0>>)}
PortRequests == {Pkt("ReadReq", 0, <<0>>), Pkt("SwapReq", 1, <<0>>)} \cup DmaPortSide

DmaSide == {Pkt("ReadReq", 0, <<0, 0>>), Pkt("WriteReq", 1, <<1>>), Pkt("WritebackDirty", 1, <<0>>)}
MCRequests ==
    {Pkt("WriteReq", 0, <<1>>), Pkt("SwapReq", 1, <<0>>), Pkt("CondSwapReq", 1, <<1>>)} \cup DmaSide

MCFunctional == {Pkt("WriteReq", 0, <<0>>), Pkt("ReadReq", 0, <<0>>)}
=============================================================================
