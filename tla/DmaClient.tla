------------------------------- MODULE DmaClient -------------------------------
(***************************************************************************)
(* The most general user of DmaVirt: a device that starts any of a set of  *)
(* transfers, each on a callback of its own, whenever that callback is     *)
(* free, and may abort what is pending.                                    *)
(***************************************************************************)
EXTENDS DmaVirt

CONSTANTS Transfers,    \* records [cmd, vaddr, size]
          AbortAllowed  \* whether the device calls abortPending

ASSUME DmaClientAssumption == AbortAllowed \in BOOLEAN

\* A transfer starts on a new callback; a completed chunk is counted off.
Start(cb, t) ==
    /\ Settled
    /\ cbCount[cb] = 0
    /\ Mapped(t.vaddr, t.size)
    /\ dmaVirt(cbCount, due, t.cmd, t.vaddr, t.size, cb, 0)
    /\ UNCHANGED <<sendVars, reqState, inNetwork, pendingCount, dmaDrainState, lost>>

ChunkComplete ==
    /\ due # <<>> /\ loop = NoLoop
    /\ due' = Tail(due)
    /\ cbCount' = Counted
    /\ UNCHANGED <<sendVars, reqState, inNetwork, pendingCount, dmaDrainState, loop, lost>>

VirtNext ==
    \/ \E cb \in Callback, t \in Transfers : Start(cb, t)
    \/ \E accepted \in BOOLEAN : dmaVirtPage(accepted)
    \/ ChunkComplete
    \/ PortStep
    \/ AbortAllowed /\ Abort

VirtSpec == VirtInit /\ [][VirtNext]_virtVars

(***************************************************************************)
(* The event queue runs what is due or scheduled; the peer answers every   *)
(* packet, retries what it refused and does not refuse for ever.           *)
(***************************************************************************)
VirtFairness ==
    /\ WF_virtVars(\E accepted \in BOOLEAN : dmaVirtPage(accepted))
    /\ WF_virtVars(ChunkComplete)
    /\ SF_virtVars(KeepVirt /\ Sent(TRUE))
    /\ \A id \in Id : SF_virtVars(KeepVirt /\ Answered(id))

FairVirtSpec == VirtSpec /\ VirtFairness

-----------------------------------------------------------------------------
\* Every transfer completes: its callback counts down to the chunks that were
\* aborted, to zero if none was, whatever the peer refuses and however the
\* answers are ordered.
TransferCompletes == \A cb \in Callback : cbCount[cb] > lost[cb] ~> cbCount[cb] = lost[cb]
=============================================================================
