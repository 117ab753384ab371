--------------------------------- MODULE MCIdma ---------------------------------
(***************************************************************************)
(* Three virtual pages of four bytes scattered over memory, lines of two.  *)
(* The jobs overlap, cross pages with source and destination aligned       *)
(* differently, include the empty transfer and one with a source address   *)
(* wider than the register.                                                *)
(***************************************************************************)
EXTENDS Idma, TLC

MCCallback == [kind : {"read", "write"}, n : 1 .. MaxLive]
MCPhysAddr == 0 .. 15
MCPageTable == 0 :> 2 @@ 1 :> 0 @@ 2 :> 3
Job(s, d, n) == [src |-> s, dst |-> d, size |-> n]
MCJobs == {Job(1, 3, 5), Job(24, 0, 2), Job(4, 4, 0)}
MCSmallJobs == {Job(0, 4, 4)}
=============================================================================
