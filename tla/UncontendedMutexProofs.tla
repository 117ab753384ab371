------------------------- MODULE UncontendedMutexProofs -------------------------
(***************************************************************************)
(* UncontendedMutex for any number of threads: mutual exclusion, the       *)
(* meaning of flag, no lost notification, and that it is an abstract lock. *)
(***************************************************************************)
EXTENDS UncontendedMutex, TLAPS

\* The inductive invariant.  flag is above zero exactly while somebody owns the
\* lock, two threads never do; a thread between the increment and cv.wait has m
\* and flag above 1, which nobody can clear without m.
MutexInv ==
    /\ MutexTypeOK
    /\ MutualExclusion
    /\ FlagMeaning
    /\ SleeperIsNotified
    /\ \A t \in Thread :
         pc[t] \in {"increment", "leave", "sleep", "woken", "clear", "release"} => m = t
    /\ \A t \in Thread : At(t, "sleep") => flag > 1

LEMMA MutexInvInit == MutexInit => MutexInv
BY MutexAssumption DEF MutexInit, MutexInv, MutexTypeOK, MutualExclusion, FlagMeaning,
   SleeperIsNotified, Owns, Owning, Locking, MutexLabels, At

LEMMA MutexInvStep == MutexInv /\ [MutexNext]_mutexVars => MutexInv'
<1> SUFFICES ASSUME MutexInv, [MutexNext]_mutexVars PROVE MutexInv'
  OBVIOUS
<1> USE MutexAssumption DEF MutexInv, MutexTypeOK, MutualExclusion, FlagMeaning,
   SleeperIsNotified, Owns, Owning, Locking, MutexLabels, At, Goto
<1>1. ASSUME NEW t \in Thread, Call(t) PROVE MutexInv'
  BY <1>1 DEF Call
<1>2. ASSUME NEW t \in Thread, testAndSet(t) PROVE MutexInv'
  BY <1>2 DEF testAndSet
<1>3. ASSUME NEW t \in Thread, TakeM(t, "slowLock", "increment") PROVE MutexInv'
  BY <1>3 DEF TakeM
<1>4. ASSUME NEW t \in Thread, increment(t) PROVE MutexInv'
  BY <1>4 DEF increment
<1>5. ASSUME NEW t \in Thread, FreeM(t, "leave", "held") PROVE MutexInv'
  BY <1>5 DEF FreeM
<1>6. ASSUME NEW t \in Thread, wait(t) PROVE MutexInv'
  BY <1>6 DEF wait, FreeM
<1>7. ASSUME NEW t \in Thread, TakeM(t, "wake", "woken") PROVE MutexInv'
  BY <1>7 DEF TakeM
<1>8. ASSUME NEW t \in Thread, FreeM(t, "woken", "lock") PROVE MutexInv'
  BY <1>8 DEF FreeM
<1>9. ASSUME NEW t \in Thread, fastUnlock(t) PROVE MutexInv'
  BY <1>9 DEF fastUnlock
<1>10. ASSUME NEW t \in Thread, takeForUnlock(t) PROVE MutexInv'
  BY <1>10 DEF takeForUnlock, TakeM
<1>11. ASSUME NEW t \in Thread, clear(t) PROVE MutexInv'
  BY <1>11 DEF clear
<1>12. ASSUME NEW t \in Thread, FreeM(t, "release", "notify") PROVE MutexInv'
  BY <1>12 DEF FreeM
<1>13. ASSUME NEW t \in Thread, notifyAll(t) PROVE MutexInv'
  BY <1>13 DEF notifyAll
<1>14. ASSUME NEW t \in Thread, SpuriousWakeup(t) PROVE MutexInv'
  BY <1>14 DEF SpuriousWakeup
<1>15. CASE UNCHANGED mutexVars
  BY <1>15 DEF mutexVars
<1>16. QED
  BY <1>1, <1>2, <1>3, <1>4, <1>5, <1>6, <1>7, <1>8, <1>9, <1>10, <1>11, <1>12,
     <1>13, <1>14, <1>15 DEF MutexNext, Run

\* MutexInv holds in every reachable state.
LEMMA MutexInvariant == MutexSpec => []MutexInv
BY MutexInvInit, MutexInvStep, PTL DEF MutexSpec

\* Two threads never have the lock of an event queue at a time, whatever the
\* number of threads and of spurious wakeups.
THEOREM MutexExcludes == MutexSpec => []MutualExclusion
BY MutexInvariant, PTL DEF MutexInv

\* flag says what its comment says.
THEOREM FlagSaysWhatItMeans == MutexSpec => []FlagMeaning
BY MutexInvariant, PTL DEF MutexInv

\* A thread that sleeps in lock() is never forgotten by unlock().
THEOREM NotificationNeverLost == MutexSpec => []SleeperIsNotified
BY MutexInvariant, PTL DEF MutexInv

-----------------------------------------------------------------------------
\* The owner the mapping chooses is the thread that owns the lock.
LEMMA OwnerIsUnique ==
    ASSUME MutualExclusion, NEW t \in Thread, Owns(t)
    PROVE  Owner = t
BY DEF MutualExclusion, Owner

LEMMA NoOwner ==
    ASSUME \A t \in Thread : ~Owns(t)
    PROVE  Owner = Nobody
BY DEF Owner

\* A step that leaves the set of owners alone leaves the abstract lock alone.
LEMMA SameOwner ==
    ASSUME MutualExclusion, MutualExclusion',
           \A t \in Thread : Owns(t)' <=> Owns(t)
    PROVE  Owner' = Owner
<1>1. CASE \A t \in Thread : ~Owns(t)
  BY <1>1 DEF Owner
<1>2. ASSUME NEW t \in Thread, Owns(t) PROVE Owner' = Owner
  <2>1. Owner = t
    BY <1>2, OwnerIsUnique
  <2>2. Owner' = t
    BY <1>2 DEF MutualExclusion, Owner
  <2>3. QED
    BY <2>1, <2>2
<1>3. QED
  BY <1>1, <1>2

\* A step that takes the lock, and one that gives it back, seen from outside.
LEMMA StepAcquires ==
    ASSUME NEW t \in Thread, MutualExclusion', Owns(t)',
           \A u \in Thread : ~Owns(u)
    PROVE  Lock!Acquire(t)
<1>1. Owner = Nobody
  BY NoOwner
<1>2. Owner' = t
  BY DEF MutualExclusion, Owner
<1>3. QED
  BY <1>1, <1>2 DEF Lock!Acquire

LEMMA StepReleases ==
    ASSUME NEW t \in Thread, MutualExclusion, Owns(t),
           \A u \in Thread : ~Owns(u)'
    PROVE  Lock!Release(t)
<1>1. Owner = t
  BY OwnerIsUnique
<1>2. Owner' = Nobody
  BY DEF Owner
<1>3. QED
  BY <1>1, <1>2 DEF Lock!Release

\* Every step of the mutex is a step of the lock or changes no owner.
LEMMA StepRefines ==
    ASSUME MutexInv, MutexInv', [MutexNext]_mutexVars
    PROVE  [Lock!LockNext]_Owner
<1> DEFINE Same == \A u \in Thread : Owns(u)' <=> Owns(u)
<1> USE DEF MutexInv, MutexTypeOK, FlagMeaning, MutexLabels, Owns, Owning, Locking, At, Goto
<1>1. ASSUME NEW t \in Thread, testAndSet(t), flag = 0 PROVE Lock!Acquire(t)
  BY <1>1, StepAcquires DEF testAndSet
<1>2. ASSUME NEW t \in Thread, increment(t), flag = 0 PROVE Lock!Acquire(t)
  BY <1>2, StepAcquires DEF increment
<1>3. ASSUME NEW t \in Thread, fastUnlock(t), flag = 1 PROVE Lock!Release(t)
  BY <1>3, StepReleases DEF fastUnlock
<1>4. ASSUME NEW t \in Thread, clear(t) PROVE Lock!Release(t)
  BY <1>4, StepReleases DEF clear
<1>5. ASSUME NEW t \in Thread,
             \/ testAndSet(t) /\ flag # 0
             \/ increment(t) /\ flag # 0
             \/ fastUnlock(t) /\ flag # 1
      PROVE  Same
  BY <1>5 DEF testAndSet, increment, fastUnlock
<1>6. ASSUME NEW t \in Thread,
             \/ TakeM(t, "slowLock", "increment") \/ FreeM(t, "leave", "held")
             \/ wait(t) \/ TakeM(t, "wake", "woken") \/ FreeM(t, "woken", "lock")
             \/ takeForUnlock(t) \/ FreeM(t, "release", "notify")
      PROVE  Same
  BY <1>6 DEF TakeM, FreeM, wait, takeForUnlock
<1>7. ASSUME NEW t \in Thread, Call(t) \/ notifyAll(t) \/ SpuriousWakeup(t) PROVE Same
  BY <1>7 DEF Call, notifyAll, SpuriousWakeup
<1>8. CASE UNCHANGED mutexVars
  BY <1>8, SameOwner DEF mutexVars
<1>9. Same => Owner' = Owner
  BY SameOwner
<1> HIDE DEF Same, MutexInv, Owns, At, Goto
<1>10. CASE MutexNext
  BY <1>1, <1>2, <1>3, <1>4, <1>5, <1>6, <1>7, <1>9, <1>10
     DEF MutexNext, Run, Lock!LockNext
<1>11. QED
  BY <1>8, <1>10

\* The mutex implements the abstract lock.
THEOREM MutexImplementsLock == MutexSpec => ImplementsLock
<1>1. MutexInit => Lock!LockInit
  BY NoOwner DEF MutexInit, Owns, Owning, Lock!LockInit
<1>2. MutexInv /\ MutexInv' /\ [MutexNext]_mutexVars => [Lock!LockNext]_Owner
  BY StepRefines
<1>3. QED
  BY <1>1, <1>2, MutexInvariant, PTL DEF MutexSpec, ImplementsLock, Lock!LockSpec
=============================================================================
