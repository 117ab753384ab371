----------------------------- MODULE ParallelQueues -----------------------------
(***************************************************************************)
(* The event queues of a parallel simulation (sim/eventq.cc,               *)
(* sim/global_event.cc, sim/simulate.cc, base/barrier.hh).  Each queue has *)
(* its thread.  An event for another queue, and every global event, goes   *)
(* through the asynchronous list of the queue it is for; at a global event *)
(* all threads meet at its barrier twice, and after the one that ends a    *)
(* quantum each takes in its list.                                         *)
(*                                                                         *)
(* What a thread does while it holds the lock of its queue and touches     *)
(* nothing of the others is one step.                                      *)
(***************************************************************************)
EXTENDS Integers, Sequences

CONSTANTS numMainEventQueues, simQuantum,
          Exit,         \* exit events that may be created
          NumCycles,    \* arguments of simulate()
          Horizon,      \* no simulate() beyond this tick
          Start,        \* ticks of the first event of each queue
          Delays,       \* of an event behind the earliest tick it may have
          MaxLocal,     \* local events created by others
          MaxMigrations

Nobody == -1
Queue == 0 .. numMainEventQueues - 1
Global == {"sync", "limit"} \cup Exit

ASSUME QueuesAssumption ==
    /\ numMainEventQueues \in Nat \ {0} /\ simQuantum \in Nat \ {0}
    /\ Exit \cap {"local", "sync", "limit", "threads"} = {}
    /\ NumCycles \subseteq Nat /\ Start \subseteq Nat /\ Delays \subseteq Nat

VARIABLES _curTick, queue, async_queue,
          service_mutex,   \* its owner, for each queue
          globalQMutex,    \* its owner
          barrier,         \* of each global event, and of the threads
          pc, event, gen,  \* of each thread: place, global event, generation read
          scheduling,      \* of each thread: the global event it schedules
          to,              \* of each thread: the queue it migrates to
          terminate, unused, locals, migrations

queueVars == <<_curTick, queue, async_queue>>
boundVars == <<unused, locals, migrations>>
vars == <<queueVars, service_mutex, globalQMutex, barrier, pc, event, gen, scheduling, to,
          terminate, boundVars>>

-----------------------------------------------------------------------------
\* Default_Pri, Progress_Event_Pri and Sim_Exit_Pri.
Priority(ev) == CASE ev = "local" -> 0 [] ev = "sync" -> 95 [] OTHER -> 100

\* operator< of events.
Before(a, b) ==
    a.when < b.when \/ (a.when = b.when /\ Priority(a.ev) < Priority(b.ev))

\* EventQueue::insert: on top of the events of the same tick and priority.
insert(s, e) ==
    SelectSeq(s, LAMBDA x : Before(x, e)) \o <<e>> \o SelectSeq(s, LAMBDA x : ~Before(x, e))

\* EventQueue::remove.
remove(s, ev) == SelectSeq(s, LAMBDA e : e.ev # ev)

\* handleAsyncInsertions.
handleAsyncInsertions(q) ==
    /\ LET merged[i \in 0 .. Len(async_queue[q])] ==
               IF i = 0 THEN queue[q] ELSE insert(merged[i - 1], async_queue[q][i])
       IN  queue' = [queue EXCEPT ![q] = merged[Len(async_queue[q])]]
    /\ async_queue' = [async_queue EXCEPT ![q] = <<>>]
    /\ UNCHANGED _curTick

NewBarrier == [generation |-> 0, numLeft |-> numMainEventQueues]

\* Barrier::wait up to the condition variable.
arrive(b) ==
    IF b.numLeft = 1 THEN [generation |-> b.generation + 1, numLeft |-> numMainEventQueues]
    ELSE [b EXCEPT !.numLeft = @ - 1]

EnterBarrier(t, b, waits, last) ==
    /\ gen' = [gen EXCEPT ![t] = barrier[b].generation]
    /\ barrier' = [barrier EXCEPT ![b] = arrive(@)]
    /\ pc' = [pc EXCEPT ![t] = IF barrier[b].numLeft = 1 THEN last ELSE waits]

Passed(t, b) == gen[t] # barrier[b].generation

At(t, label) == pc[t] = label
Goto(t, label) == pc' = [pc EXCEPT ![t] = label]
Unlocked(q) == service_mutex[q] = Nobody

-----------------------------------------------------------------------------
(***************************************************************************)
(* Local events.  serviceOne takes the first event; what its process()     *)
(* does is one of the actions below.                                       *)
(***************************************************************************)
Pop(t) == Tail(queue[t])
Now(t) == Head(queue[t]).when

AtLocalEvent(t) ==
    At(t, "loop") /\ Unlocked(t) /\ queue[t] # <<>> /\ Head(queue[t]).ev = "local"

\* The event schedules nothing, or one on its own queue.
LocalEvent(t) ==
    /\ AtLocalEvent(t)
    /\ _curTick' = [_curTick EXCEPT ![t] = Now(t)]
    /\ \/ queue' = [queue EXCEPT ![t] = Pop(t)] /\ UNCHANGED locals
       \/ /\ locals < MaxLocal /\ locals' = locals + 1
          /\ \E d \in Delays :
                queue' = [queue EXCEPT ![t] =
                             insert(Pop(t), [ev |-> "local", when |-> Now(t) + d])]
    /\ UNCHANGED <<async_queue, service_mutex, globalQMutex, barrier, pc, event, gen,
                   scheduling, to, terminate, unused, migrations>>

\* The rule for events of another queue.
RemoteTime(t) == Now(t) + simQuantum

\* The event schedules one on another queue.
RemoteEvent(t, q) ==
    /\ AtLocalEvent(t) /\ q # t
    /\ locals < MaxLocal /\ locals' = locals + 1
    /\ _curTick' = [_curTick EXCEPT ![t] = Now(t)]
    /\ queue' = [queue EXCEPT ![t] = Pop(t)]
    /\ \E d \in Delays :
          async_queue' = [async_queue EXCEPT ![q] =
                             Append(@, [ev |-> "local", when |-> RemoteTime(t) + d])]
    /\ UNCHANGED <<service_mutex, globalQMutex, barrier, pc, event, gen, scheduling, to,
                   terminate, unused, migrations>>

\* ScopedMigration: the event gives up its queue and works on another one.
Migrate(t, q) ==
    /\ AtLocalEvent(t) /\ q # t
    /\ migrations < MaxMigrations /\ migrations' = migrations + 1
    /\ _curTick' = [_curTick EXCEPT ![t] = Now(t)]
    /\ queue' = [queue EXCEPT ![t] = Pop(t)]
    /\ to' = [to EXCEPT ![t] = q]
    /\ Goto(t, "migrate")
    /\ UNCHANGED <<async_queue, service_mutex, globalQMutex, barrier, event, gen, scheduling,
                   terminate, unused, locals>>

Migrated(t) ==
    /\ At(t, "migrate") /\ Unlocked(to[t])
    /\ service_mutex' = [service_mutex EXCEPT ![to[t]] = t]
    /\ Goto(t, "there")
    /\ UNCHANGED <<queueVars, globalQMutex, barrier, event, gen, scheduling, to, terminate,
                   boundVars>>

\* On the other queue it schedules an event directly, and leaves.
WorkThere(t) ==
    LET q == to[t]
    IN  /\ At(t, "there")
        /\ \/ UNCHANGED <<queue, locals>>
           \/ /\ locals < MaxLocal /\ locals' = locals + 1
              /\ \E d \in Delays :
                    queue' = [queue EXCEPT ![q] =
                                 insert(@, [ev |-> "local", when |-> _curTick[q] + d])]
        /\ service_mutex' = [service_mutex EXCEPT ![q] = Nobody]
        /\ Goto(t, "back")
        /\ UNCHANGED <<_curTick, async_queue, globalQMutex, barrier, event, gen, scheduling, to,
                       terminate, unused, migrations>>

MigratedBack(t) ==
    /\ At(t, "back") /\ Unlocked(t)
    /\ to' = [to EXCEPT ![t] = Nobody]
    /\ Goto(t, "loop")
    /\ UNCHANGED <<queueVars, service_mutex, globalQMutex, barrier, event, gen, scheduling,
                   terminate, boundVars>>

-----------------------------------------------------------------------------
(***************************************************************************)
(* Global events.                                                          *)
(***************************************************************************)

\* Mutant: the simulation is to stop at once.  It is what exitSimulationLoop does when it
\* is given no tick.
ExitTime_now(now) == now

ExitTime(now) == now + simQuantum

\* exitSimLoop and exitSimLoopWithHypercall, called by an event, or by the main loop for
\* an interrupt: a new exit event is scheduled.  exitSimLoopNow, exitSimulationLoop and
\* exitSimulationLoopNow, which add no quantum, are not called here.
exitSimLoop(t, now) ==
    /\ \E e \in unused :
          /\ unused' = unused \ {e}
          /\ scheduling' = [scheduling EXCEPT ![t] =
                               [ev |-> e, when |-> ExitTime(now), i |-> 0]]
    /\ service_mutex' = [service_mutex EXCEPT ![t] = t]
    /\ Goto(t, "lockGlobal")
    /\ UNCHANGED <<async_queue, globalQMutex, barrier, event, gen, to, terminate, locals,
                   migrations>>

ExitingEvent(t) ==
    /\ AtLocalEvent(t)
    /\ _curTick' = [_curTick EXCEPT ![t] = Now(t)]
    /\ queue' = [queue EXCEPT ![t] = Pop(t)]
    /\ exitSimLoop(t, Now(t))

Interrupt ==
    /\ At(0, "loop") /\ Unlocked(0)
    /\ exitSimLoop(0, _curTick[0])
    /\ UNCHANGED <<_curTick, queue>>

\* Mutant: threads schedule global events at the same time.
lockGlobal_open(t) ==
    /\ At(t, "lockGlobal")
    /\ globalQMutex' = t
    /\ Goto(t, "schedule")
    /\ UNCHANGED <<queueVars, service_mutex, barrier, event, gen, scheduling, to, terminate,
                   boundVars>>

\* BaseGlobalEvent::schedule: one queue after the other, under the mutex.
lockGlobal(t) ==
    /\ At(t, "lockGlobal") /\ globalQMutex = Nobody
    /\ globalQMutex' = t
    /\ Goto(t, "schedule")
    /\ UNCHANGED <<queueVars, service_mutex, barrier, event, gen, scheduling, to, terminate,
                   boundVars>>

\* After the last queue the thread is done with process() of the event that ends
\* a quantum, or with the local event.
scheduleOne(t) ==
    LET s == scheduling[t]
        last == s.i + 1 = numMainEventQueues
    IN  /\ At(t, "schedule")
        /\ async_queue' = [async_queue EXCEPT ![s.i] = Append(@, [ev |-> s.ev, when |-> s.when])]
        /\ scheduling' = [scheduling EXCEPT ![t].i = IF last THEN 0 ELSE @ + 1]
        /\ IF last
           THEN /\ globalQMutex' = Nobody
                /\ Goto(t, IF s.ev = "sync" THEN "processed" ELSE "loop")
                /\ service_mutex' = IF s.ev = "sync" THEN service_mutex
                                    ELSE [service_mutex EXCEPT ![t] = Nobody]
           ELSE UNCHANGED <<globalQMutex, pc, service_mutex>>
        /\ UNCHANGED <<_curTick, queue, barrier, event, gen, to, terminate, boundVars>>

\* Mutant: the lock of the queue is kept while the thread waits.
firstBarrier_locked(t) ==
    LET e == Head(queue[t])
    IN  /\ At(t, "loop") /\ Unlocked(t) /\ queue[t] # <<>> /\ e.ev # "local"
        /\ _curTick' = [_curTick EXCEPT ![t] = e.when]
        /\ queue' = [queue EXCEPT ![t] = Pop(t)]
        /\ event' = [event EXCEPT ![t] = e.ev]
        /\ EnterBarrier(t, e.ev, "wait1", "process")
        /\ service_mutex' = [service_mutex EXCEPT ![t] =
                                IF barrier[e.ev].numLeft = 1 THEN Nobody ELSE t]
        /\ UNCHANGED <<async_queue, globalQMutex, scheduling, to, terminate, boundVars>>

\* serviceOne of a global event: process() gives up the queue and enters the
\* event's barrier.
firstBarrier(t) ==
    LET e == Head(queue[t])
    IN  /\ At(t, "loop") /\ Unlocked(t) /\ queue[t] # <<>> /\ e.ev # "local"
        /\ _curTick' = [_curTick EXCEPT ![t] = e.when]
        /\ queue' = [queue EXCEPT ![t] = Pop(t)]
        /\ event' = [event EXCEPT ![t] = e.ev]
        /\ EnterBarrier(t, e.ev, "wait1", "process")
        /\ UNCHANGED <<async_queue, service_mutex, globalQMutex, scheduling, to, terminate,
                       boundVars>>

\* The last thread has its queue again and processes the event: the one that ends
\* a quantum schedules the next.
processGlobal(t) ==
    /\ At(t, "process") /\ Unlocked(t)
    /\ IF event[t] = "sync"
       THEN /\ scheduling' = [scheduling EXCEPT ![t] =
                    [ev |-> "sync", when |-> _curTick[t] + simQuantum, i |-> 0]]
            /\ service_mutex' = [service_mutex EXCEPT ![t] = t]
            /\ Goto(t, "lockGlobal")
       ELSE Goto(t, "processed") /\ UNCHANGED <<scheduling, service_mutex>>
    /\ UNCHANGED <<queueVars, globalQMutex, barrier, event, gen, to, terminate, boundVars>>

\* Mutant: only the thread that has processed the event waits again.
secondBarrier_skip(t) ==
    /\ \/ At(t, "processed")
       \/ At(t, "wait1") /\ Passed(t, event[t]) /\ Unlocked(t)
    /\ Goto(t, "leave")
    /\ service_mutex' = [q \in Queue |-> IF service_mutex[q] = t THEN Nobody ELSE service_mutex[q]]
    /\ UNCHANGED <<queueVars, globalQMutex, barrier, event, gen, scheduling, to, terminate,
                   boundVars>>

\* The second barrier, for the thread that has processed the event and for those
\* that have passed the first one and have their queue again.
secondBarrier(t) ==
    /\ \/ At(t, "processed")
       \/ At(t, "wait1") /\ Passed(t, event[t]) /\ Unlocked(t)
    /\ EnterBarrier(t, event[t], "wait2", "leave")
    /\ service_mutex' = [q \in Queue |-> IF service_mutex[q] = t THEN Nobody ELSE service_mutex[q]]
    /\ UNCHANGED <<queueVars, globalQMutex, event, scheduling, to, terminate, boundVars>>

\* Mutant: nothing is taken in at the end of a quantum.
leaveBarrier_forget(t) ==
    /\ At(t, "leave") \/ (At(t, "wait2") /\ Passed(t, event[t]))
    /\ Unlocked(t)
    /\ UNCHANGED queueVars
    /\ Goto(t, IF event[t] = "sync" THEN "loop" ELSE "exited")
    /\ UNCHANGED <<service_mutex, globalQMutex, barrier, event, gen, scheduling, to, terminate,
                   boundVars>>

\* The rest of process(), and of doSimLoop when the event is an exit event.
leaveBarrier(t) ==
    /\ At(t, "leave") \/ (At(t, "wait2") /\ Passed(t, event[t]))
    /\ Unlocked(t)
    /\ IF event[t] = "sync"
       THEN handleAsyncInsertions(t) /\ Goto(t, "loop")
       ELSE Goto(t, "exited") /\ UNCHANGED queueVars
    /\ UNCHANGED <<service_mutex, globalQMutex, barrier, event, gen, scheduling, to, terminate,
                   boundVars>>

-----------------------------------------------------------------------------
(***************************************************************************)
(* simulate() on the main thread, which has queue 0, and thread_main.      *)
(***************************************************************************)

\* simulate() returns: the event that ends a quantum is descheduled.
simulateReturns ==
    /\ At(0, "exited")
    /\ queue' = [q \in Queue |-> remove(queue[q], "sync")]
    /\ Goto(0, "python")
    /\ UNCHANGED <<_curTick, async_queue, service_mutex, globalQMutex, barrier, event, gen,
                   scheduling, to, terminate, boundVars>>

\* simulate(n): the limit is set, the first quantum ends simQuantum from now, and
\* the threads start when all are at their barrier.
simulate(n) ==
    LET now == _curTick[0]
        limit == [ev |-> "limit", when |-> now + n]
        sync == [ev |-> "sync", when |-> now + simQuantum]
    IN  /\ At(0, "python") /\ now + n <= Horizon
        /\ queue' = [q \in Queue |-> insert(insert(remove(queue[q], "limit"), limit), sync)]
        /\ EnterBarrier(0, "threads", "idle", "start")
        /\ UNCHANGED <<_curTick, async_queue, service_mutex, globalQMutex, event, scheduling, to,
                       terminate, boundVars>>

terminateThreads ==
    /\ At(0, "python")
    /\ terminate' = TRUE
    /\ EnterBarrier(0, "threads", "join", "join")
    /\ UNCHANGED <<queueVars, service_mutex, globalQMutex, event, scheduling, to, boundVars>>

\* A thread is at its loop's barrier ...
threadBarrier(t) ==
    /\ t # 0 /\ At(t, "exited")
    /\ EnterBarrier(t, "threads", "idle", "start")
    /\ UNCHANGED <<queueVars, service_mutex, globalQMutex, event, scheduling, to, terminate,
                   boundVars>>

\* ... and enters doSimLoop, or ends.
startLoop(t) ==
    /\ At(t, "start") \/ (At(t, "idle") /\ Passed(t, "threads"))
    /\ IF t # 0 /\ terminate
       THEN Goto(t, "done") /\ UNCHANGED queueVars
       ELSE Goto(t, "loop") /\ handleAsyncInsertions(t)
    /\ UNCHANGED <<service_mutex, globalQMutex, barrier, event, gen, scheduling, to, terminate,
                   boundVars>>

-----------------------------------------------------------------------------
Init ==
    /\ _curTick = [q \in Queue |-> 0]
    /\ queue \in [Queue -> {<<[ev |-> "local", when |-> w]>> : w \in Start}]
    /\ async_queue = [q \in Queue |-> <<>>]
    /\ service_mutex = [q \in Queue |-> Nobody]
    /\ globalQMutex = Nobody
    /\ barrier = [b \in Global \cup {"threads"} |-> NewBarrier]
    /\ pc = [t \in Queue |-> IF t = 0 THEN "python" ELSE "exited"]
    /\ event = [t \in Queue |-> "local"]
    /\ gen = [t \in Queue |-> 0]
    /\ scheduling = [t \in Queue |-> [ev |-> "local", when |-> 0, i |-> 0]]
    /\ to = [t \in Queue |-> Nobody]
    /\ terminate = FALSE
    /\ unused = Exit /\ locals = 0 /\ migrations = 0

Run(t) ==
    \/ LocalEvent(t) \/ \E q \in Queue : RemoteEvent(t, q) \/ Migrate(t, q)
    \/ Migrated(t) \/ WorkThere(t) \/ MigratedBack(t)
    \/ ExitingEvent(t) \/ lockGlobal(t) \/ scheduleOne(t)
    \/ firstBarrier(t) \/ processGlobal(t) \/ secondBarrier(t) \/ leaveBarrier(t)
    \/ threadBarrier(t) \/ startLoop(t)

Next ==
    \/ \E t \in Queue : Run(t)
    \/ Interrupt
    \/ simulateReturns \/ terminateThreads \/ \E n \in NumCycles : simulate(n)

Spec == Init /\ [][Next]_vars

\* The host does not stop while a thread can run.
FairSpec == Spec /\ WF_vars(simulateReturns \/ \E t \in Queue : Run(t))

-----------------------------------------------------------------------------
\* No event is behind the time of the queue it is in, or waits to be taken into: the
\* assertions of schedule and of the main loop hold whatever the threads do, as long as
\* every exit event comes from exitSimLoop or exitSimLoopWithHypercall (exitSimLoopNow and
\* exitSimulationLoop break it with more than one queue).  For that no queue is more than a quantum ahead of
\* another.
NotInThePast ==
    /\ \A q \in Queue : \A s \in {queue[q], async_queue[q]} : \A i \in DOMAIN s :
          s[i].when >= _curTick[q]
    /\ \A q, r \in Queue : _curTick[q] - _curTick[r] <= simQuantum

\* While a thread processes a global event all others are at that event's barrier:
\* exactly one processes it, and none continues before it has been processed.
ProcessedAlone ==
    \A t, u \in Queue :
        /\ t # u
        /\ \/ At(t, "process") \/ At(t, "processed")
           \/ pc[t] \in {"lockGlobal", "schedule"} /\ scheduling[t].ev = "sync"
        => pc[u] \in {"wait1", "wait2"} /\ event[u] = event[t]

\* Two global events stand in the same order in all queues.
SameGlobalOrder ==
    \A q, r \in Queue : \A i, j \in DOMAIN queue[q] : \A k, l \in DOMAIN queue[r] :
        /\ i < j
        /\ queue[q][i].ev # "local" /\ queue[q][j].ev # "local"
        /\ queue[q][i] = queue[r][k] /\ queue[q][j] = queue[r][l]
        => k < l

\* When simulate() returns, the event that ends a quantum is in every queue and in
\* no list: descheduling it does not fail with "event not found!".
QuantumEventFound ==
    At(0, "exited") =>
        \A q \in Queue :
            /\ \E i \in DOMAIN queue[q] : queue[q][i].ev = "sync"
            /\ \A i \in DOMAIN async_queue[q] : async_queue[q][i].ev # "sync"

\* simulate() returns: no threads wait for each other at different barriers or
\* for the lock of a queue whose thread waits at a barrier.
SimulateReturns == pc[0] \in {"idle", "start", "loop"} ~> At(0, "python")
=============================================================================
