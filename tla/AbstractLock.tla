------------------------------ MODULE AbstractLock ------------------------------
(***************************************************************************)
(* What a lock promises: it belongs to nobody or to one thread, and only   *)
(* the owner gives it back.                                                *)
(***************************************************************************)
CONSTANTS Thread, Nobody

VARIABLE owner

LockInit == owner = Nobody

Acquire(t) == owner = Nobody /\ owner' = t

Release(t) == owner = t /\ owner' = Nobody

LockNext == \E t \in Thread : Acquire(t) \/ Release(t)

LockSpec == LockInit /\ [][LockNext]_owner
=============================================================================
