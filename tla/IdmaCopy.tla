-------------------------------- MODULE IdmaCopy --------------------------------
(***************************************************************************)
(* What the IDMA engine promises software: from the command to COMPLETE it *)
(* copies a block of virtual memory as it was at the command, storing the  *)
(* bytes of the destination in some order and nothing else.                *)
(***************************************************************************)
EXTENDS Integers

CONSTANT MaxSize   \* of a transfer

VARIABLES vmem,      \* virtual memory, byte by byte
          busy,      \* a transfer is under way
          toStore    \* bytes of the destination still to be stored

copyVars == <<vmem, busy, toStore>>

CopyInit == ~busy /\ DOMAIN toStore = {}

Begin ==
    /\ ~busy /\ busy'
    /\ \E src, dst \in DOMAIN vmem, size \in 0 .. MaxSize :
          /\ \A i \in 0 .. size - 1 : {src + i, dst + i} \subseteq DOMAIN vmem
          /\ toStore' = [v \in dst .. dst + size - 1 |-> vmem[src + v - dst]]
    /\ UNCHANGED vmem

Store ==
    /\ busy /\ busy'
    /\ \E S \in SUBSET DOMAIN toStore :
          /\ vmem' = [v \in DOMAIN vmem |-> IF v \in S THEN toStore[v] ELSE vmem[v]]
          /\ toStore' = [v \in DOMAIN toStore \ S |-> toStore[v]]

End ==
    /\ busy /\ ~busy'
    /\ DOMAIN toStore = {}
    /\ UNCHANGED <<vmem, toStore>>

CopySpec == CopyInit /\ [][Begin \/ Store \/ End]_copyVars
=============================================================================
