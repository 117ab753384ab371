------------------------------- MODULE MCDmaClient -------------------------------
(***************************************************************************)
(* Lines of two bytes, pages of four: a transfer of six bytes at address 1 *)
(* takes two pages that are not adjacent in memory and four packets, the   *)
(* first of them short.                                                    *)
(***************************************************************************)
EXTENDS DmaClient, TLC

MCPageTable == 0 :> 1 @@ 1 :> 3
T(c, a, n) == [cmd |-> c, vaddr |-> a, size |-> n]
MCTransfers == {T("ReadReq", 1, 6), T("WriteReq", 4, 2), T("ReadReq", 0, 0)}
=============================================================================
