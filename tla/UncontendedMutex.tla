---------------------------- MODULE UncontendedMutex ----------------------------
(***************************************************************************)
(* The lock of the event queues (base/uncontended_mutex.hh): a flag that   *)
(* is tested and set without a system call as long as nobody waits, and a  *)
(* std::mutex with a condition variable for the rest.  Each step is one    *)
(* access to a shared object, so that threads interleave between any two.  *)
(***************************************************************************)
EXTENDS Naturals

CONSTANTS Thread,   \* host threads
          Nobody,   \* holder of a free std::mutex
          MaxFlag   \* bound on flag beyond which no spurious wakeup happens

ASSUME MutexAssumption == Nobody \notin Thread /\ MaxFlag \in Nat

VARIABLES flag,
          m,    \* holder of the std::mutex
          pc    \* where each thread is; "waiting" is asleep on cv

mutexVars == <<flag, m, pc>>

Goto(t, l) == pc' = [pc EXCEPT ![t] = l]
At(t, l) == pc[t] = l

\* Threads that have the lock, from the step that takes it to the step that
\* clears flag.
Owning == {"leave", "held", "slowUnlock", "clear"}
Owns(t) == pc[t] \in Owning

\* Threads inside lock() that do not have it yet.
Locking == {"lock", "slowLock", "increment", "sleep", "waiting", "wake", "woken"}

MutexLabels == Owning \cup Locking \cup {"idle", "release", "notify"}

-----------------------------------------------------------------------------
\* The std::mutex m, taken on the way from one label to the next.
TakeM(t, from, to) == At(t, from) /\ m = Nobody /\ m' = t /\ Goto(t, to) /\ UNCHANGED flag

FreeM(t, from, to) == At(t, from) /\ m' = Nobody /\ Goto(t, to) /\ UNCHANGED flag

\* A thread calls lock().
Call(t) == At(t, "idle") /\ Goto(t, "lock") /\ UNCHANGED <<flag, m>>

\* The loop condition: testAndSet(0, 1).
testAndSet(t) ==
    /\ At(t, "lock")
    /\ IF flag = 0 THEN flag' = 1 /\ Goto(t, "held")
                   ELSE flag' = flag /\ Goto(t, "slowLock")
    /\ UNCHANGED m

\* Mutant: the thread also takes the lock from an owner nobody waits for.
increment_offByOne(t) ==
    /\ At(t, "increment")
    /\ flag' = flag + 1
    /\ Goto(t, IF flag <= 1 THEN "leave" ELSE "sleep")
    /\ UNCHANGED m

\* flag++ under m: the old value zero means that the lock was released meanwhile.
increment(t) ==
    /\ At(t, "increment")
    /\ flag' = flag + 1
    /\ Goto(t, IF flag = 0 THEN "leave" ELSE "sleep")
    /\ UNCHANGED m

\* cv.wait(ul) releases m and sleeps in one step; when it returns it has m again,
\* and the end of the loop body gives it back.
wait(t) == FreeM(t, "sleep", "waiting")

\* unlock(): testAndSet(1, 0), done if nobody waits.
fastUnlock(t) ==
    /\ At(t, "held")
    /\ IF flag = 1 THEN flag' = 0 /\ Goto(t, "idle")
                   ELSE flag' = flag /\ Goto(t, "slowUnlock")
    /\ UNCHANGED m

\* Mutant: the flag is cleared without m.
takeForUnlock_bare(t) ==
    At(t, "slowUnlock") /\ Goto(t, "clear") /\ UNCHANGED <<flag, m>>

takeForUnlock(t) == TakeM(t, "slowUnlock", "clear")

clear(t) == At(t, "clear") /\ flag' = 0 /\ Goto(t, "release") /\ UNCHANGED m

\* Mutant: no notification.
notifyAll_none(t) == At(t, "notify") /\ Goto(t, "idle") /\ UNCHANGED <<flag, m>>

\* cv.notify_all(), after m has been given back.
notifyAll(t) ==
    /\ At(t, "notify")
    /\ pc' = [u \in Thread |-> IF u = t THEN "idle"
                               ELSE IF At(u, "waiting") THEN "wake" ELSE pc[u]]
    /\ UNCHANGED <<flag, m>>

\* A condition variable may wake a thread that nobody notified.
SpuriousWakeup(t) ==
    At(t, "waiting") /\ flag < MaxFlag /\ Goto(t, "wake") /\ UNCHANGED <<flag, m>>

-----------------------------------------------------------------------------
MutexInit ==
    /\ flag = 0
    /\ m = Nobody
    /\ pc = [t \in Thread |-> "idle"]

\* What a thread does once it has called lock() or unlock(), and cv for it.
Run(t) ==
    \/ testAndSet(t)
    \/ TakeM(t, "slowLock", "increment")
    \/ increment(t)
    \/ FreeM(t, "leave", "held")
    \/ wait(t)
    \/ TakeM(t, "wake", "woken")
    \/ FreeM(t, "woken", "lock")
    \/ fastUnlock(t)
    \/ takeForUnlock(t)
    \/ clear(t)
    \/ FreeM(t, "release", "notify")
    \/ notifyAll(t)

MutexNext == \E t \in Thread : Call(t) \/ Run(t) \/ SpuriousWakeup(t)

MutexSpec == MutexInit /\ [][MutexNext]_mutexVars

\* The host scheduler runs every thread; nobody has to call lock(), and the
\* condition variable need not wake anybody by itself.
FairMutexSpec == MutexSpec /\ \A t \in Thread : WF_mutexVars(Run(t))

-----------------------------------------------------------------------------
\* Types of the shared objects and labels.
MutexTypeOK ==
    /\ flag \in Nat
    /\ m \in Thread \cup {Nobody}
    /\ pc \in [Thread -> MutexLabels]

\* lock() lets one thread through at a time, across both of its ways in
\* (testAndSet and the increment) and both ways out.
MutualExclusion == \A t, u \in Thread : Owns(t) /\ Owns(u) => t = u

\* What the comment on flag says: 0 nobody has the lock, 1 one thread has it,
\* more: another thread is waiting for it.
FlagMeaning ==
    /\ flag = 0 <=> \A t \in Thread : ~Owns(t)
    /\ flag > 1 => \E t \in Thread : pc[t] \in Locking

\* A thread asleep on cv will be notified: the owner finds flag above 1 and takes
\* the slow way out, or somebody is between clearing flag and notify_all.
SleeperIsNotified ==
    \A t \in Thread :
        At(t, "waiting") => \/ flag > 1
                            \/ \E u \in Thread : pc[u] \in {"release", "notify"}

\* The lock is passed on: while somebody is in lock() somebody gets the lock (not
\* necessarily the same thread, for the fast path may overtake sleepers for ever).
LockHandedOver == (\E t \in Thread : pc[t] \in Locking) ~> (\E t \in Thread : At(t, "held"))

\* Seen from outside, the mutex is the abstract lock: an owner changes only
\* through nobody.
Owner == IF \E t \in Thread : Owns(t) THEN CHOOSE t \in Thread : Owns(t) ELSE Nobody

Lock == INSTANCE AbstractLock WITH owner <- Owner

ImplementsLock == Lock!LockSpec
=============================================================================
