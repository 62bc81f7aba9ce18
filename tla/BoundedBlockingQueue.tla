------------------------ MODULE BoundedBlockingQueue ------------------------
(***************************************************************************)
(* include/bounded_blocking_queue.h: a bounded queue built from one mutex  *)
(* and two condition variables.  A critical section of mutex_ is one step; *)
(* everything between two critical sections of a thread, the notify calls  *)
(* after unlock() included, is a step of its own, so other threads run in  *)
(* between.  A condition variable may wake a thread for no reason          *)
(* (SpuriousWakeup), and notify_one() wakes an arbitrary waiter.           *)
(***************************************************************************)
EXTENDS AtomicQueue, FiniteSets

ASSUME ThreadsAssumption == IsFiniteSet(Threads)

VARIABLE pc   \* where each thread is inside its call

allVars == <<queue, closed, call, pc>>

PCs == {"idle", "ready", "asleep", "notify", "notifyFull", "done"}

TypeOK == /\ queue \in Seq(Values)
          /\ Len(queue) <= Capacity
          /\ closed \in BOOLEAN
          /\ call \in [Threads -> Calls]
          /\ pc \in [Threads -> PCs]

BInit == Init /\ pc = [t \in Threads |-> "idle"]

Goto(t, label) == pc' = [pc EXCEPT ![t] = label]

\* A thread in pop() sleeps on not_empty_, a thread in push() on not_full_.
Asleep(op) == {t \in Threads : pc[t] = "asleep" /\ call[t].op = op}

NotifyOne(t, op, next) ==
    IF Asleep(op) = {}
    THEN Goto(t, next)
    ELSE \E w \in Asleep(op) : pc' = [pc EXCEPT ![t] = next, ![w] = "ready"]

NotifyAll(t, op, next) ==
    pc' = [u \in Threads |-> IF u = t THEN next
                             ELSE IF u \in Asleep(op) THEN "ready" ELSE pc[u]]

BInvoke(t) ==
    /\ \/ \E v \in Values : Invoke(t, "push", v)
       \/ \E op \in Ops \ {"push"} : Invoke(t, op, NullOpt)
    /\ Goto(t, "ready")

\* pushImpl(), the critical section: sleep while the queue is full and open.
PushLocked(t) ==
    /\ pc[t] = "ready"
    /\ Waiting(t, "push")
    /\ IF closed \/ Len(queue) < Capacity
       THEN /\ Push(t)
            /\ Goto(t, IF closed THEN "done" ELSE "notify")
       ELSE Goto(t, "asleep") /\ UNCHANGED vars

\* Mutant: pop() gives up on a closed queue that still has elements.
PopLockedNoDrain(t) ==
    /\ pc[t] = "ready"
    /\ Waiting(t, "pop")
    /\ \/ closed /\ Answer(t, NullOpt) /\ Goto(t, "done") /\ UNCHANGED <<queue, closed>>
       \/ ~closed /\ queue # <<>> /\ Pop(t) /\ Goto(t, "notify")
       \/ ~closed /\ queue = <<>> /\ Goto(t, "asleep") /\ UNCHANGED vars

\* pop(), the critical section: sleep while the queue is empty and open.
PopLocked(t) ==
    /\ pc[t] = "ready"
    /\ Waiting(t, "pop")
    /\ IF closed \/ queue # <<>>
       THEN /\ Pop(t)
            /\ Goto(t, IF queue = <<>> THEN "done" ELSE "notify")
       ELSE Goto(t, "asleep") /\ UNCHANGED vars

CloseLocked(t) == pc[t] = "ready" /\ Close(t) /\ Goto(t, "notify")

ClearLocked(t) == pc[t] = "ready" /\ Clear(t) /\ Goto(t, "notify")

\* Mutant: push() notifies only when the queue was empty.
NotifyOnFirst(t) ==
    /\ pc[t] = "notify"
    /\ CASE call[t].op = "push"  -> IF Len(queue) <= 1 THEN NotifyOne(t, "pop", "done")
                                    ELSE Goto(t, "done")
         [] call[t].op = "pop"   -> NotifyOne(t, "push", "done")
         [] call[t].op = "close" -> NotifyAll(t, "pop", "notifyFull")
         [] call[t].op = "clear" -> NotifyAll(t, "push", "done")
    /\ UNCHANGED vars

\* The notify_one()/notify_all() that follows the unlock.
Notify(t) ==
    /\ pc[t] = "notify"
    /\ CASE call[t].op = "push"  -> NotifyOne(t, "pop", "done")
         [] call[t].op = "pop"   -> NotifyOne(t, "push", "done")
         [] call[t].op = "close" -> NotifyAll(t, "pop", "notifyFull")
         [] call[t].op = "clear" -> NotifyAll(t, "push", "done")
    /\ UNCHANGED vars

\* Mutant: close() forgets the producers.
NotifyFullNot(t) == pc[t] = "notifyFull" /\ Goto(t, "done") /\ UNCHANGED vars

\* close() notifies the second condition variable after the first.
NotifyFull(t) ==
    /\ pc[t] = "notifyFull"
    /\ NotifyAll(t, "push", "done")
    /\ UNCHANGED vars

SpuriousWakeup(t) == pc[t] = "asleep" /\ Goto(t, "ready") /\ UNCHANGED vars

BReturn(t) == pc[t] = "done" /\ Return(t) /\ Goto(t, "idle")

Step(t) == \/ PushLocked(t) \/ PopLocked(t) \/ CloseLocked(t) \/ ClearLocked(t)
           \/ Notify(t) \/ NotifyFull(t) \/ BReturn(t)

BNext == \E t \in Threads : BInvoke(t) \/ Step(t) \/ SpuriousWakeup(t)

BSpec == BInit /\ [][BNext]_allVars

\* A thread that is inside a call and not asleep keeps running.  Nobody has to
\* call the queue, and no wakeup is spontaneous by necessity.
BFairness == \A t \in Threads : WF_allVars(Step(t))

FairBSpec == BSpec /\ BFairness
-----------------------------------------------------------------------------
\* Threads that have been, or are about to be, told to look at the queue again.
Woken(op) == {t \in Threads : pc[t] = "ready" /\ call[t].op = op}
NotifyingOne(op) == {t \in Threads : pc[t] = "notify" /\ call[t].op = op}
ClosePending == \E t \in Threads : call[t] # NoCall /\ call[t].op = "close" /\ pc[t] = "notify"
ClearPending == \E t \in Threads : call[t] # NoCall /\ call[t].op = "clear" /\ pc[t] = "notify"
FullPending == ClosePending \/ \E t \in Threads : pc[t] = "notifyFull"

Smaller(m, n) == IF m < n THEN m ELSE n

(***************************************************************************)
(* No wakeup is lost although every notify runs outside the lock (lines    *)
(* 52-54, 133-135): the consumers that sleep beside a non-empty queue are  *)
(* covered by consumers already awake and notifications still to be sent,  *)
(* and once the queue is closed a sleeping consumer is covered by the      *)
(* notify_all of the close that closed it.                                 *)
(***************************************************************************)
NoLostConsumerWakeup ==
    /\ Cardinality(Woken("pop")) + Cardinality(NotifyingOne("push"))
          >= Smaller(Len(queue), Cardinality(Asleep("pop")))
       \/ ClosePending
    /\ closed /\ Asleep("pop") # {} => ClosePending

(***************************************************************************)
(* The same for producers and free slots; clear() frees all slots at once  *)
(* and must therefore wake every producer (line 82).                       *)
(***************************************************************************)
NoLostProducerWakeup ==
    /\ \/ Cardinality(Woken("push")) + Cardinality(NotifyingOne("pop"))
             >= Smaller(Capacity - Len(queue), Cardinality(Asleep("push")))
       \/ ClearPending
       \/ FullPending
    /\ closed /\ Asleep("push") # {} => FullPending

\* Nobody sleeps beside what he waits for with nobody left to wake him.
NoLostWakeup == NoLostConsumerWakeup /\ NoLostProducerWakeup

(***************************************************************************)
(* Every call on a closed queue returns: close() gets everyone out of      *)
(* wait() (lines 57-68), which VoiceAssistant::stop() relies on before it  *)
(* joins its workers.                                                      *)
(***************************************************************************)
CloseReleasesEveryone ==
    \A t \in Threads : (closed /\ pc[t] # "idle") ~> pc[t] = "idle"

(***************************************************************************)
(* The queue with its mutex and condition variables implements the atomic  *)
(* queue: FIFO order, no element lost or duplicated except by clear(),     *)
(* push() refused and pop() draining after close().                        *)
(***************************************************************************)
Atomic == INSTANCE AtomicQueue
ImplementsAtomicQueue == Atomic!Spec
=============================================================================
