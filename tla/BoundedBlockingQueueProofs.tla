--------------------- MODULE BoundedBlockingQueueProofs ---------------------
(***************************************************************************)
(* No wakeup of the blocking queue is lost, for any number of threads and  *)
(* any capacity.  The argument: a thread falls asleep only when there is   *)
(* nothing for it; from then on every element (or free slot) that appears  *)
(* comes with a thread that is awake for it or is going to wake one, and   *)
(* clear() and close(), which make many appear at once, wake everybody.    *)
(***************************************************************************)
EXTENDS BoundedBlockingQueue, FiniteSetTheorems, TLAPS

\* The threads awake in op, and those about to wake one of its sleepers.
Cover(op, by) == {t \in Threads : \/ pc[t] = "ready" /\ call[t].op = op
                                  \/ pc[t] = "notify" /\ call[t].op = by}

InCall == [op : Ops, arg : Values \cup {NullOpt},
           res : {Pending, NullOpt, "true", "false"} \cup Values]

Domains == /\ pc \in [Threads -> PCs]
           /\ call \in [Threads -> InCall \cup {NoCall}]
           /\ \A t \in Threads : call[t] = NoCall <=> pc[t] = "idle"
           /\ queue \in Seq(Values \cup {NullOpt}) /\ Len(queue) <= Capacity
           /\ closed \in BOOLEAN

\* Once somebody sleeps, everything there is for him is covered.
Consumers == Asleep("pop") # {} =>
    \/ ClosePending
    \/ ~closed /\ Cardinality(Cover("pop", "push")) >= Len(queue)
Producers == Asleep("push") # {} =>
    \/ FullPending
    \/ ~closed /\ (ClearPending \/ Cardinality(Cover("push", "pop")) >= Capacity - Len(queue))

QInv == Domains /\ Consumers /\ Producers
-----------------------------------------------------------------------------
(* Cardinalities of sets that differ by a thread.                          *)

LEMMA Keeps == ASSUME NEW S \in SUBSET Threads, NEW T \in SUBSET Threads, S \subseteq T
               PROVE  Cardinality(S) <= Cardinality(T) /\ Cardinality(T) \in Nat
<1>1. IsFiniteSet(T)
  BY ThreadsAssumption, FS_Subset
<1> QED BY <1>1, FS_Subset, FS_CardinalityType

LEMMA Gains == ASSUME NEW S \in SUBSET Threads, NEW T \in SUBSET Threads, NEW t \in T \ S,
                      S \subseteq T
               PROVE  Cardinality(S) + 1 <= Cardinality(T) /\ Cardinality(S) \in Nat
<1>1. IsFiniteSet(S)
  BY ThreadsAssumption, FS_Subset
<1>2. Cardinality(S \cup {t}) = Cardinality(S) + 1
  BY <1>1, FS_AddElement
<1>3. Cardinality(S \cup {t}) <= Cardinality(T)
  BY Keeps
<1> QED BY <1>1, <1>2, <1>3, FS_CardinalityType

LEMMA Loses == ASSUME NEW S \in SUBSET Threads, NEW T \in SUBSET Threads, NEW t,
                      S \ {t} \subseteq T
               PROVE  /\ Cardinality(S) <= Cardinality(T) + 1
                      /\ Cardinality(S) \in Nat /\ Cardinality(T) \in Nat
<1>1. IsFiniteSet(S) /\ Cardinality(S) \in Nat
  BY ThreadsAssumption, FS_Subset, FS_CardinalityType
<1>2. Cardinality(S \ {t}) >= Cardinality(S) - 1
  BY <1>1, FS_RemoveElement
<1>3. Cardinality(S \ {t}) <= Cardinality(T) /\ Cardinality(T) \in Nat
  <2>1. S \ {t} \in SUBSET Threads
    OBVIOUS
  <2> QED BY <2>1, Keeps
<1>4. Cardinality(S \ {t}) \in Nat
  BY <1>1, FS_RemoveElement, FS_CardinalityType
<1> QED BY <1>1, <1>2, <1>3, <1>4

LEMMA Swaps == ASSUME NEW S \in SUBSET Threads, NEW T \in SUBSET Threads, NEW t,
                      NEW w \in T \ S, S \ {t} \subseteq T
               PROVE  /\ Cardinality(S) <= Cardinality(T)
                      /\ Cardinality(S) \in Nat /\ Cardinality(T) \in Nat
<1>1. S \cap T \in SUBSET Threads
  OBVIOUS
<1>2. Cardinality(S) <= Cardinality(S \cap T) + 1 /\ Cardinality(S) \in Nat
  BY <1>1, Loses
<1>3. Cardinality(S \cap T) + 1 <= Cardinality(T) /\ Cardinality(S \cap T) \in Nat
  BY <1>1, Gains
<1>4. Cardinality(T) \in Nat
  BY Keeps
<1> QED BY <1>2, <1>3, <1>4
-----------------------------------------------------------------------------
(* Steps.                                                                  *)

LEMMA DomainsNext == Domains /\ [BNext]_allVars => Domains'
<1> SUFFICES ASSUME Domains, [BNext]_allVars PROVE Domains'
  OBVIOUS
<1> USE CapacityAssumption, CallAssumption
    DEF Domains, InCall, Ops, PCs, Goto, Waiting, Answer, vars
<1>1. ASSUME NEW t \in Threads, BInvoke(t) PROVE Domains'
  <2>1. ASSUME NEW v \in Values, Invoke(t, "push", v), Goto(t, "ready") PROVE Domains'
    BY <2>1 DEF Invoke
  <2>2. ASSUME NEW op \in Ops \ {"push"}, Invoke(t, op, NullOpt), Goto(t, "ready") PROVE Domains'
    BY <2>2 DEF Invoke
  <2> QED BY <1>1, <2>1, <2>2 DEF BInvoke
<1>2. ASSUME NEW t \in Threads, PushLocked(t) PROVE Domains'
  <2>1. CASE closed \/ Len(queue) < Capacity
    <3>1. /\ call[t] \in InCall /\ call[t].arg \in Values \cup {NullOpt}
          /\ call'[t] \in InCall
      BY <1>2, <2>1 DEF PushLocked, Push
    <3>2. CASE closed
      BY <1>2, <3>1, <3>2 DEF PushLocked, Push
    <3>3. CASE ~closed
      <4>1. queue' = Append(queue, call[t].arg) /\ Len(queue) < Capacity
        BY <1>2, <2>1, <3>3 DEF PushLocked, Push
      <4>2. /\ queue' \in Seq(Values \cup {NullOpt}) /\ Len(queue') <= Capacity
        BY <3>1, <4>1
      <4>3. /\ call' \in [Threads -> InCall \cup {NoCall}] /\ UNCHANGED closed
            /\ pc' = [pc EXCEPT ![t] = "notify"] /\ pc[t] # "idle"
            /\ \A u \in Threads \ {t} : call'[u] = call[u]
        BY <1>2, <2>1, <3>1, <3>3 DEF PushLocked, Push
      <4> QED BY <3>1, <4>2, <4>3
    <3> QED BY <3>2, <3>3
  <2>2. CASE ~(closed \/ Len(queue) < Capacity)
    BY <1>2, <2>2 DEF PushLocked
  <2> QED BY <2>1, <2>2
<1>3. ASSUME NEW t \in Threads, PopLocked(t) PROVE Domains'
  <2>1. CASE closed \/ queue # <<>>
    <3>1. call[t] \in InCall
      BY <1>3 DEF PopLocked
    <3>2. CASE queue = <<>>
      BY <1>3, <2>1, <3>1, <3>2 DEF PopLocked, Pop
    <3>3. CASE queue # <<>>
      <4>1. queue' = Tail(queue) /\ Answer(t, Head(queue)) /\ UNCHANGED closed
        BY <1>3, <2>1, <3>3 DEF PopLocked, Pop
      <4>2. /\ queue' \in Seq(Values \cup {NullOpt}) /\ Len(queue') <= Capacity
            /\ Head(queue) \in Values \cup {NullOpt}
        BY <3>3, <4>1
      <4>3. call' \in [Threads -> InCall \cup {NoCall}] /\ call'[t] \in InCall
        BY <3>1, <4>1, <4>2
      <4> QED BY <1>3, <2>1, <3>1, <3>3, <4>1, <4>2, <4>3 DEF PopLocked
    <3> QED BY <3>2, <3>3
  <2>2. CASE ~(closed \/ queue # <<>>)
    BY <1>3, <2>2 DEF PopLocked
  <2> QED BY <2>1, <2>2
<1>4. ASSUME NEW t \in Threads, CloseLocked(t) PROVE Domains'
  BY <1>4 DEF CloseLocked, Close
<1>5. ASSUME NEW t \in Threads, ClearLocked(t) PROVE Domains'
  BY <1>5 DEF ClearLocked, Clear
<1>6. ASSUME NEW t \in Threads, Notify(t) PROVE Domains'
  <2>1. pc[t] = "notify" /\ UNCHANGED vars
    BY <1>6 DEF Notify
  <2>2. ASSUME NEW op, NotifyOne(t, op, "done") PROVE Domains'
    <3>1. CASE Asleep(op) = {}
      BY <2>1, <2>2, <3>1 DEF NotifyOne
    <3>2. CASE Asleep(op) # {}
      <4>1. PICK w \in Asleep(op) : pc' = [pc EXCEPT ![t] = "done", ![w] = "ready"]
        BY <2>2, <3>2 DEF NotifyOne
      <4> QED BY <2>1, <4>1 DEF Asleep
    <3> QED BY <3>1, <3>2
  <2>3. ASSUME NEW op, NEW next \in {"done", "notifyFull"}, NotifyAll(t, op, next) PROVE Domains'
    BY <2>1, <2>3 DEF NotifyAll, Asleep
  <2>4. \/ NotifyOne(t, "pop", "done") \/ NotifyOne(t, "push", "done")
        \/ NotifyAll(t, "pop", "notifyFull") \/ NotifyAll(t, "push", "done")
    <3>1. call[t] \in InCall
      BY <2>1
    <3> QED BY <1>6, <3>1 DEF Notify
  <2> QED BY <2>2, <2>3, <2>4
<1>7. ASSUME NEW t \in Threads, NotifyFull(t) PROVE Domains'
  BY <1>7 DEF NotifyFull, NotifyAll, Asleep
<1>8. ASSUME NEW t \in Threads, SpuriousWakeup(t) PROVE Domains'
  BY <1>8 DEF SpuriousWakeup
<1>9. ASSUME NEW t \in Threads, BReturn(t) PROVE Domains'
  BY <1>9 DEF BReturn, Return
<1>10. CASE UNCHANGED allVars
  BY <1>10 DEF allVars
<1> QED
  BY <1>1, <1>2, <1>3, <1>4, <1>5, <1>6, <1>7, <1>8, <1>9, <1>10 DEF BNext, Step

(***************************************************************************)
(* What a step moves: the thread that takes it, and, when it notifies, the *)
(* threads it wakes.                                                       *)
(***************************************************************************)
Same(u) == pc'[u] = pc[u] /\ call'[u] = call[u]
Moves(t, to) == /\ pc'[t] = to /\ call'[t].op = call[t].op /\ call'[t] # NoCall
                /\ \A u \in Threads \ {t} : Same(u)

LEMMA InvokeMoves ==
  ASSUME Domains, NEW t \in Threads, BInvoke(t)
  PROVE  /\ pc[t] = "idle" /\ pc'[t] = "ready" /\ \A u \in Threads \ {t} : Same(u)
         /\ UNCHANGED <<queue, closed>>
BY DEF Domains, BInvoke, Invoke, Goto, Same

LEMMA PushMoves ==
  ASSUME Domains, NEW t \in Threads, PushLocked(t)
  PROVE  /\ pc[t] = "ready" /\ call[t].op = "push" /\ UNCHANGED closed
         /\ \/ closed /\ Moves(t, "done") /\ UNCHANGED queue
            \/ ~closed /\ Moves(t, "notify") /\ Len(queue') = Len(queue) + 1
            \/ ~closed /\ Moves(t, "asleep") /\ UNCHANGED queue /\ Len(queue) = Capacity
<1>1. call[t] \in InCall /\ call[t].op = "push" /\ pc[t] = "ready" /\ UNCHANGED closed
  BY DEF Domains, PushLocked, Waiting, Push, vars
<1>2. CASE closed
  BY <1>1, <1>2, CallAssumption
  DEF Domains, InCall, Ops, PushLocked, Push, Answer, Goto, Moves, Same
<1>3. CASE ~closed /\ Len(queue) < Capacity
  <2>1. Len(queue') = Len(queue) + 1
    BY <1>1, <1>3 DEF PushLocked, Push, Domains, InCall
  <2>2. Moves(t, "notify")
    BY <1>1, <1>3, CallAssumption
    DEF Domains, InCall, Ops, PushLocked, Push, Answer, Goto, Moves, Same
  <2> QED BY <1>1, <1>3, <2>1, <2>2
<1>4. CASE ~closed /\ ~(Len(queue) < Capacity)
  <2>1. Len(queue) = Capacity
    BY <1>4, CapacityAssumption DEF Domains
  <2> QED
    BY <1>1, <1>4, <2>1 DEF Domains, PushLocked, Goto, Moves, Same, vars
<1> QED BY <1>2, <1>3, <1>4

LEMMA PopMoves ==
  ASSUME Domains, NEW t \in Threads, PopLocked(t)
  PROVE  /\ pc[t] = "ready" /\ call[t].op = "pop" /\ UNCHANGED closed
         /\ \/ closed /\ Moves(t, "done") /\ UNCHANGED queue
            \/ Moves(t, "notify") /\ Len(queue') = Len(queue) - 1
            \/ ~closed /\ Moves(t, "asleep") /\ UNCHANGED queue /\ Len(queue) = 0
<1>1. call[t] \in InCall /\ call[t].op = "pop" /\ pc[t] = "ready" /\ UNCHANGED closed
  BY DEF Domains, PopLocked, Waiting, Pop, vars
<1>2. CASE closed /\ queue = <<>>
  BY <1>1, <1>2, CallAssumption
  DEF Domains, InCall, Ops, PopLocked, Pop, Answer, Goto, Moves, Same
<1>3. CASE queue # <<>>
  <2>1. queue' = Tail(queue) /\ Answer(t, Head(queue)) /\ Goto(t, "notify")
    BY <1>3 DEF PopLocked, Pop
  <2>2. Len(queue') = Len(queue) - 1 /\ Head(queue) \in Values \cup {NullOpt}
    BY <1>3, <2>1 DEF Domains
  <2>3. Moves(t, "notify")
    BY <1>1, <2>1, <2>2, CallAssumption DEF Domains, InCall, Ops, Answer, Goto, Moves, Same
  <2> QED BY <1>1, <2>2, <2>3
<1>4. CASE ~closed /\ queue = <<>>
  BY <1>1, <1>4 DEF Domains, PopLocked, Goto, Moves, Same, vars
<1> QED BY <1>2, <1>3, <1>4

LEMMA CloseMoves ==
  ASSUME Domains, NEW t \in Threads, CloseLocked(t)
  PROVE  pc[t] = "ready" /\ call[t].op = "close" /\ Moves(t, "notify")
BY CallAssumption
DEF Domains, InCall, Ops, CloseLocked, Close, Waiting, Answer, Goto, Moves, Same

LEMMA ClearMoves ==
  ASSUME Domains, NEW t \in Threads, ClearLocked(t)
  PROVE  /\ pc[t] = "ready" /\ call[t].op = "clear" /\ Moves(t, "notify")
         /\ UNCHANGED closed /\ Len(queue') = 0
BY CallAssumption
DEF Domains, InCall, Ops, ClearLocked, Clear, Waiting, Answer, Goto, Moves, Same

LEMMA ReturnMoves ==
  ASSUME Domains, NEW t \in Threads, BReturn(t)
  PROVE  /\ pc[t] = "done" /\ pc'[t] = "idle" /\ \A u \in Threads \ {t} : Same(u)
         /\ UNCHANGED <<queue, closed>>
BY DEF Domains, BReturn, Return, Goto, Same

(***************************************************************************)
(* Steps that wake nobody.                                                 *)
(***************************************************************************)
LEMMA Others ==
  ASSUME NEW t \in Threads, \A u \in Threads \ {t} : Same(u), NEW op, NEW by
  PROVE  /\ Cover(op, by) \ {t} \subseteq Cover(op, by)'
         /\ Asleep(op)' \subseteq Asleep(op) \cup {t}
         /\ Cover(op, by) \subseteq Threads /\ Cover(op, by)' \subseteq Threads
BY DEF Same, Cover, Asleep

LEMMA StaysPending ==
  ASSUME NEW t \in Threads, \A u \in Threads \ {t} : Same(u), pc[t] \notin {"notify", "notifyFull"}
  PROVE  (ClosePending => ClosePending') /\ (ClearPending => ClearPending')
         /\ (FullPending => FullPending')
BY DEF Same, ClosePending, ClearPending, FullPending

LEMMA CoverIsNat == ASSUME NEW op, NEW by
                    PROVE  /\ Cardinality(Cover(op, by)) \in Nat
                           /\ Cardinality(Cover(op, by)') \in Nat
<1>1. Cover(op, by) \subseteq Threads /\ Cover(op, by)' \subseteq Threads
  BY DEF Cover
<1> QED BY <1>1, Keeps

LEMMA LenIsNat == Domains => Len(queue) \in Nat
BY DEF Domains

\* A step of a thread that was in no cover and does not fall asleep.
LEMMA Bystander ==
  ASSUME Consumers, Producers, Domains, NEW t \in Threads, \A u \in Threads \ {t} : Same(u),
         pc[t] \notin {"notify", "notifyFull"}, pc'[t] # "asleep",
         UNCHANGED <<queue, closed>>,
         t \notin Cover("pop", "push"), t \notin Cover("push", "pop")
  PROVE  Consumers' /\ Producers'
<1>1. ASSUME NEW op, NEW by, t \notin Cover(op, by)
      PROVE  /\ Cardinality(Cover(op, by)) <= Cardinality(Cover(op, by)')
             /\ Asleep(op)' \subseteq Asleep(op)
  <2>1. Cover(op, by) \subseteq Cover(op, by)' /\ Cover(op, by)' \subseteq Threads
    BY <1>1, Others
  <2>2. Asleep(op)' \subseteq Asleep(op)
    BY Others DEF Asleep
  <2>3. Cover(op, by) \subseteq Threads
    BY DEF Cover
  <2> QED BY <2>1, <2>2, <2>3, Keeps
<1>2. /\ Cardinality(Cover("pop", "push")) <= Cardinality(Cover("pop", "push")')
      /\ Asleep("pop")' \subseteq Asleep("pop")
      /\ Cardinality(Cover("push", "pop")) <= Cardinality(Cover("push", "pop")')
      /\ Asleep("push")' \subseteq Asleep("push")
  BY <1>1
<1>3. Consumers'
  BY <1>2, StaysPending, CoverIsNat, LenIsNat DEF Consumers
<1>4. Producers'
  BY <1>2, StaysPending, CoverIsNat, LenIsNat, CapacityAssumption DEF Producers
<1> QED BY <1>3, <1>4

LEMMA PushCovers == ASSUME QInv, NEW t \in Threads, PushLocked(t) PROVE Consumers' /\ Producers'
<1> USE DEF QInv
<1>1. pc[t] = "ready" /\ call[t].op = "push" /\ UNCHANGED closed
  BY PushMoves
<1>2. Len(queue) \in Nat
  BY LenIsNat
<1>3. t \notin Cover("pop", "push") /\ t \in Cover("push", "pop") /\ t \notin Asleep("pop")
  BY <1>1 DEF Cover, Asleep
<1>4. CASE closed /\ Moves(t, "done") /\ UNCHANGED queue
  <2>1. Asleep("pop")' \subseteq Asleep("pop") /\ Asleep("push")' \subseteq Asleep("push")
    BY <1>4, Others DEF Moves, Asleep
  <2> QED
    BY <1>1, <1>4, <2>1, StaysPending DEF Moves, Consumers, Producers
<1>5. CASE ~closed /\ Moves(t, "notify") /\ Len(queue') = Len(queue) + 1
  <2>0. pc'[t] = "notify" /\ \A u \in Threads \ {t} : Same(u)
    BY <1>5 DEF Moves
  <2>1. Asleep("pop")' \subseteq Asleep("pop") /\ Asleep("push")' \subseteq Asleep("push")
    BY <2>0 DEF Same, Asleep
  <2>2. Cardinality(Cover("pop", "push")) + 1 <= Cardinality(Cover("pop", "push")')
    <3>1. t \in Cover("pop", "push")'
      BY <1>1, <1>5 DEF Moves, Cover
    <3>2. Cover("pop", "push") \subseteq Cover("pop", "push")'
      BY <1>3, <1>5, Others DEF Moves
    <3>3. Cover("pop", "push") \in SUBSET Threads /\ Cover("pop", "push")' \in SUBSET Threads
      BY DEF Cover
    <3> QED BY <1>3, <3>1, <3>2, <3>3, Gains
  <2>3. Cardinality(Cover("push", "pop")) <= Cardinality(Cover("push", "pop")') + 1
    <3>1. Cover("push", "pop") \ {t} \subseteq Cover("push", "pop")'
      BY <1>5, Others DEF Moves
    <3>2. Cover("push", "pop") \in SUBSET Threads /\ Cover("push", "pop")' \in SUBSET Threads
      BY DEF Cover
    <3> QED BY <3>1, <3>2, Loses
  <2>4. Consumers'
    BY <1>1, <1>2, <1>5, <2>1, <2>2, StaysPending, CoverIsNat DEF Moves, Consumers
  <2>5. Producers'
    BY <1>1, <1>2, <1>5, <2>1, <2>3, StaysPending, CoverIsNat, CapacityAssumption
    DEF Moves, Producers
  <2> QED BY <2>4, <2>5
<1>6. CASE ~closed /\ Moves(t, "asleep") /\ UNCHANGED queue /\ Len(queue) = Capacity
  <2>1. Asleep("pop")' \subseteq Asleep("pop")
    BY <1>1, <1>6, Others DEF Moves, Asleep
  <2>2. Cardinality(Cover("pop", "push")) <= Cardinality(Cover("pop", "push")')
    <3>1. Cover("pop", "push") \subseteq Cover("pop", "push")'
      BY <1>3, <1>6, Others DEF Moves
    <3>2. Cover("pop", "push") \in SUBSET Threads /\ Cover("pop", "push")' \in SUBSET Threads
      BY DEF Cover
    <3> QED BY <3>1, <3>2, Keeps
  <2>3. Consumers'
    BY <1>1, <1>2, <1>6, <2>1, <2>2, StaysPending, CoverIsNat DEF Moves, Consumers
  <2>4. Producers'
    BY <1>1, <1>6, CoverIsNat, CapacityAssumption DEF Producers
  <2> QED BY <2>3, <2>4
<1> QED BY <1>4, <1>5, <1>6, PushMoves

LEMMA PopCovers == ASSUME QInv, NEW t \in Threads, PopLocked(t) PROVE Consumers' /\ Producers'
<1> USE DEF QInv
<1>1. pc[t] = "ready" /\ call[t].op = "pop" /\ UNCHANGED closed
  BY PopMoves
<1>2. Len(queue) \in Nat
  BY LenIsNat
<1>3. t \notin Cover("push", "pop") /\ t \in Cover("pop", "push") /\ t \notin Asleep("push")
  BY <1>1 DEF Cover, Asleep
<1>4. CASE closed /\ Moves(t, "done") /\ UNCHANGED queue
  <2>1. Asleep("pop")' \subseteq Asleep("pop") /\ Asleep("push")' \subseteq Asleep("push")
    BY <1>4, Others DEF Moves, Asleep
  <2> QED
    BY <1>1, <1>4, <2>1, StaysPending DEF Moves, Consumers, Producers
<1>5. CASE Moves(t, "notify") /\ Len(queue') = Len(queue) - 1
  <2>0. pc'[t] = "notify" /\ \A u \in Threads \ {t} : Same(u)
    BY <1>5 DEF Moves
  <2>1. Asleep("pop")' \subseteq Asleep("pop") /\ Asleep("push")' \subseteq Asleep("push")
    BY <2>0 DEF Same, Asleep
  <2>2. Cardinality(Cover("push", "pop")) + 1 <= Cardinality(Cover("push", "pop")')
    <3>1. t \in Cover("push", "pop")'
      BY <1>1, <1>5 DEF Moves, Cover
    <3>2. Cover("push", "pop") \subseteq Cover("push", "pop")'
      BY <1>3, <1>5, Others DEF Moves
    <3>3. Cover("push", "pop") \in SUBSET Threads /\ Cover("push", "pop")' \in SUBSET Threads
      BY DEF Cover
    <3> QED BY <1>3, <3>1, <3>2, <3>3, Gains
  <2>3. Cardinality(Cover("pop", "push")) <= Cardinality(Cover("pop", "push")') + 1
    <3>1. Cover("pop", "push") \ {t} \subseteq Cover("pop", "push")'
      BY <1>5, Others DEF Moves
    <3>2. Cover("pop", "push") \in SUBSET Threads /\ Cover("pop", "push")' \in SUBSET Threads
      BY DEF Cover
    <3> QED BY <3>1, <3>2, Loses
  <2>4. Consumers'
    BY <1>1, <1>2, <1>5, <2>1, <2>3, StaysPending, CoverIsNat DEF Moves, Consumers
  <2>5. Producers'
    BY <1>1, <1>2, <1>5, <2>1, <2>2, StaysPending, CoverIsNat, CapacityAssumption
    DEF Moves, Producers
  <2> QED BY <2>4, <2>5
<1>6. CASE ~closed /\ Moves(t, "asleep") /\ UNCHANGED queue /\ Len(queue) = 0
  <2>1. Asleep("push")' \subseteq Asleep("push")
    BY <1>1, <1>6, Others DEF Moves, Asleep
  <2>2. Cardinality(Cover("push", "pop")) <= Cardinality(Cover("push", "pop")')
    <3>1. Cover("push", "pop") \subseteq Cover("push", "pop")'
      BY <1>3, <1>6, Others DEF Moves
    <3>2. Cover("push", "pop") \in SUBSET Threads /\ Cover("push", "pop")' \in SUBSET Threads
      BY DEF Cover
    <3> QED BY <3>1, <3>2, Keeps
  <2>3. Producers'
    BY <1>1, <1>2, <1>6, <2>1, <2>2, StaysPending, CoverIsNat, CapacityAssumption
    DEF Moves, Producers
  <2>4. Consumers'
    BY <1>1, <1>6, CoverIsNat DEF Consumers
  <2> QED BY <2>3, <2>4
<1> QED BY <1>4, <1>5, <1>6, PopMoves

(***************************************************************************)
(* Steps that leave the queue as it is: the sleepers that remain keep what *)
(* covered them.                                                           *)
(***************************************************************************)
LEMMA ConsumersStay ==
  ASSUME Domains, Consumers, UNCHANGED <<queue, closed>>,
         Asleep("pop")' # {} =>
            /\ Asleep("pop") # {}
            /\ Cardinality(Cover("pop", "push")) <= Cardinality(Cover("pop", "push")')
            /\ ClosePending => ClosePending'
  PROVE  Consumers'
BY CoverIsNat, LenIsNat DEF Consumers

LEMMA ProducersStay ==
  ASSUME Domains, Producers, UNCHANGED <<queue, closed>>,
         Asleep("push")' # {} =>
            /\ Asleep("push") # {}
            /\ Cardinality(Cover("push", "pop")) <= Cardinality(Cover("push", "pop")')
            /\ FullPending => FullPending'
            /\ ClearPending => ClearPending'
  PROVE  Producers'
BY CoverIsNat, LenIsNat, CapacityAssumption DEF Producers

\* The notify_one() of t, and what it does to the covers.
LEMMA OneCovers ==
  ASSUME Domains, NEW t \in Threads, NEW op \in {"push", "pop"}, NEW by \in {"push", "pop"},
         op # by, pc[t] = "notify", call[t].op = by, NotifyOne(t, op, "done"), UNCHANGED call
  PROVE  /\ Asleep(op)' # {} =>
               /\ Asleep(op) # {}
               /\ Cardinality(Cover(op, by)) <= Cardinality(Cover(op, by)')
         /\ Asleep(by)' \subseteq Asleep(by)
         /\ Cardinality(Cover(by, op)) <= Cardinality(Cover(by, op)')
         /\ ClosePending => ClosePending'
         /\ FullPending => FullPending'
         /\ ClearPending => ClearPending'
<1>1. CASE Asleep(op) = {}
  <2>1. pc' = [pc EXCEPT ![t] = "done"]
    BY <1>1 DEF NotifyOne, Goto
  <2>2. Asleep(op)' = {} /\ Asleep(by)' \subseteq Asleep(by)
    BY <1>1, <2>1 DEF Asleep, Domains
  <2>3. Cover(by, op) \subseteq Cover(by, op)' /\ Cover(by, op)' \subseteq Threads
    BY <2>1 DEF Cover, Domains
  <2>4. /\ ClosePending => ClosePending'
        /\ FullPending => FullPending'
        /\ ClearPending => ClearPending'
    BY <2>1 DEF ClosePending, FullPending, ClearPending, Domains
  <2> QED BY <2>2, <2>3, <2>4, Keeps
<1>2. CASE Asleep(op) # {}
  <2>1. PICK w \in Asleep(op) : pc' = [pc EXCEPT ![t] = "done", ![w] = "ready"]
    BY <1>2 DEF NotifyOne
  <2>2. w \in Threads /\ pc[w] = "asleep" /\ call[w].op = op /\ w # t
    BY DEF Asleep
  <2>3. /\ pc'[t] = "done" /\ pc'[w] = "ready"
        /\ \A u \in Threads \ {t, w} : pc'[u] = pc[u]
    BY <2>1, <2>2 DEF Domains
  <2>4. Asleep(by)' \subseteq Asleep(by)
    BY <2>2, <2>3 DEF Asleep
  <2>5. Cardinality(Cover(by, op)) <= Cardinality(Cover(by, op)')
    <3>1. Cover(by, op) \subseteq Cover(by, op)'
      BY <2>2, <2>3 DEF Cover
    <3>2. Cover(by, op) \in SUBSET Threads /\ Cover(by, op)' \in SUBSET Threads
      BY DEF Cover
    <3> QED BY <3>1, <3>2, Keeps
  <2>6. Cardinality(Cover(op, by)) <= Cardinality(Cover(op, by)')
    <3>1. Cover(op, by) \ {t} \subseteq Cover(op, by)'
      BY <2>2, <2>3 DEF Cover
    <3>2. w \in Cover(op, by)' \ Cover(op, by)
      BY <2>2, <2>3 DEF Cover
    <3>3. Cover(op, by) \in SUBSET Threads /\ Cover(op, by)' \in SUBSET Threads
      BY DEF Cover
    <3> QED BY <3>1, <3>2, <3>3, Swaps
  <2>7. /\ ClosePending => ClosePending'
        /\ FullPending => FullPending'
        /\ ClearPending => ClearPending'
    BY <2>2, <2>3 DEF ClosePending, FullPending, ClearPending
  <2> QED BY <1>2, <2>4, <2>5, <2>6, <2>7
<1> QED BY <1>1, <1>2

\* The notify_all() of t: nobody who waits on op's condition stays asleep.
LEMMA AllAwake ==
  ASSUME Domains, NEW t \in Threads, NEW op \in {"push", "pop"}, NEW by \in {"push", "pop"},
         op # by, NEW next \in {"done", "notifyFull"},
         pc[t] \in {"notify", "notifyFull"}, call[t].op \notin {"push", "pop"},
         NotifyAll(t, op, next), UNCHANGED call
  PROVE  /\ Asleep(op)' = {} /\ Asleep(by)' \subseteq Asleep(by)
         /\ pc'[t] = next
         /\ Cardinality(Cover(by, op)) <= Cardinality(Cover(by, op)')
<1>1. /\ pc'[t] = next /\ \A u \in Threads \ {t} :
             pc'[u] = IF u \in Asleep(op) THEN "ready" ELSE pc[u]
  BY DEF NotifyAll, Domains
<1>2. Asleep(op)' = {} /\ Asleep(by)' \subseteq Asleep(by)
  BY <1>1 DEF Asleep
<1>3. Cover(by, op) \subseteq Cover(by, op)'
  BY <1>1 DEF Cover, Asleep
<1>4. Cover(by, op) \in SUBSET Threads /\ Cover(by, op)' \in SUBSET Threads
  BY DEF Cover
<1> QED BY <1>1, <1>2, <1>3, <1>4, Keeps

LEMMA NotifyCovers == ASSUME QInv, NEW t \in Threads, Notify(t) PROVE Consumers' /\ Producers'
<1> USE DEF QInv
<1>1. pc[t] = "notify" /\ UNCHANGED <<queue, closed, call>> /\ call[t] \in InCall
  BY DEF Notify, vars, Domains
<1>2. CASE call[t].op = "push"
  <2>1. NotifyOne(t, "pop", "done")
    BY <1>2 DEF Notify
  <2> QED BY <1>1, <1>2, <2>1, OneCovers, ConsumersStay, ProducersStay
<1>3. CASE call[t].op = "pop"
  <2>1. NotifyOne(t, "push", "done")
    BY <1>3 DEF Notify
  <2> QED BY <1>1, <1>3, <2>1, OneCovers, ConsumersStay, ProducersStay
<1>4. CASE call[t].op = "close"
  <2>1. NotifyAll(t, "pop", "notifyFull")
    BY <1>4 DEF Notify
  <2>2. Asleep("pop")' = {} /\ pc'[t] = "notifyFull"
    BY <1>1, <1>4, <2>1, AllAwake
  <2> QED BY <2>2 DEF Consumers, Producers, FullPending
<1>5. CASE call[t].op = "clear"
  <2>1. NotifyAll(t, "push", "done")
    BY <1>5 DEF Notify
  <2>2. /\ Asleep("push")' = {} /\ Asleep("pop")' \subseteq Asleep("pop")
        /\ Cardinality(Cover("pop", "push")) <= Cardinality(Cover("pop", "push")')
    BY <1>1, <1>5, <2>1, AllAwake
  <2>3. ClosePending => ClosePending'
    BY <1>1, <1>5, <2>1 DEF ClosePending, NotifyAll, Asleep
  <2>4. Producers'
    BY <2>2 DEF Producers
  <2> QED BY <1>1, <2>2, <2>3, <2>4, ConsumersStay
<1> QED BY <1>1, <1>2, <1>3, <1>4, <1>5 DEF InCall, Ops

LEMMA NotifyFullCovers ==
  ASSUME QInv, NEW t \in Threads, NotifyFull(t), call[t].op \notin {"push", "pop"}
  PROVE  Consumers' /\ Producers'
<1> USE DEF QInv
<1>1. pc[t] = "notifyFull" /\ UNCHANGED <<queue, closed, call>> /\ NotifyAll(t, "push", "done")
  BY DEF NotifyFull, vars
<1>2. /\ Asleep("push")' = {} /\ Asleep("pop")' \subseteq Asleep("pop")
      /\ Cardinality(Cover("pop", "push")) <= Cardinality(Cover("pop", "push")')
  BY <1>1, AllAwake
<1>3. ClosePending => ClosePending'
  BY <1>1 DEF ClosePending, NotifyAll, Asleep
<1>4. Producers'
  BY <1>2 DEF Producers
<1> QED BY <1>1, <1>2, <1>3, <1>4, ConsumersStay

LEMMA CloseCovers == ASSUME QInv, NEW t \in Threads, CloseLocked(t) PROVE Consumers' /\ Producers'
<1>1. call[t].op = "close" /\ Moves(t, "notify")
  BY CloseMoves DEF QInv
<1>2. ClosePending'
  BY <1>1 DEF Moves, ClosePending
<1> QED BY <1>2 DEF Consumers, Producers, FullPending

LEMMA ClearCovers == ASSUME QInv, NEW t \in Threads, ClearLocked(t) PROVE Consumers' /\ Producers'
<1> USE DEF QInv
<1>1. pc[t] = "ready" /\ call[t].op = "clear" /\ Moves(t, "notify") /\ UNCHANGED closed
      /\ Len(queue') = 0
  BY ClearMoves
<1>2. ClearPending' /\ pc'[t] = "notify" /\ \A u \in Threads \ {t} : Same(u)
  BY <1>1 DEF Moves, ClearPending
<1>3. Asleep("pop")' \subseteq Asleep("pop") /\ Asleep("push")' \subseteq Asleep("push")
  BY <1>2 DEF Same, Asleep
<1>4. (ClosePending => ClosePending') /\ (FullPending => FullPending')
  BY <1>1, <1>2, StaysPending
<1>5. Consumers'
  BY <1>1, <1>3, <1>4, CoverIsNat DEF Consumers
<1>6. Producers'
  BY <1>1, <1>2, <1>3, <1>4 DEF Producers
<1> QED BY <1>5, <1>6

LEMMA SpuriousCovers ==
  ASSUME QInv, NEW t \in Threads, SpuriousWakeup(t) PROVE Consumers' /\ Producers'
<1> USE DEF QInv
<1>1. /\ pc[t] = "asleep" /\ pc'[t] = "ready" /\ \A u \in Threads \ {t} : Same(u)
      /\ UNCHANGED <<queue, closed, call>>
  BY DEF SpuriousWakeup, Goto, Domains, Same, vars
<1> QED BY <1>1, Bystander DEF Cover

LEMMA InvokeCovers ==
  ASSUME QInv, NEW t \in Threads, BInvoke(t) \/ BReturn(t) PROVE Consumers' /\ Producers'
<1> USE DEF QInv
<1>1. /\ pc[t] \in {"idle", "done"} /\ pc'[t] \in {"ready", "idle"}
      /\ \A u \in Threads \ {t} : Same(u)
      /\ UNCHANGED <<queue, closed>>
  BY InvokeMoves, ReturnMoves
<1> QED BY <1>1, Bystander DEF Cover
-----------------------------------------------------------------------------
(* close() and clear() are the only calls that reach the second notify.    *)
Closers == \A t \in Threads : pc[t] = "notifyFull" => call[t].op = "close"

LEMMA ClosersNext == Domains /\ Closers /\ [BNext]_allVars => Closers'
<1> SUFFICES ASSUME Domains, Closers, [BNext]_allVars PROVE Closers'
  OBVIOUS
<1>1. ASSUME NEW t \in Threads, \A u \in Threads \ {t} : Same(u), pc'[t] # "notifyFull"
      PROVE  Closers'
  BY <1>1 DEF Closers, Same
<1>2. ASSUME NEW t \in Threads, BInvoke(t) \/ BReturn(t) PROVE Closers'
  BY <1>1, <1>2, InvokeMoves, ReturnMoves
<1>3. ASSUME NEW t \in Threads,
             PushLocked(t) \/ PopLocked(t) \/ CloseLocked(t) \/ ClearLocked(t)
      PROVE  Closers'
  <2>1. Moves(t, "done") \/ Moves(t, "notify") \/ Moves(t, "asleep")
    BY <1>3, PushMoves, PopMoves, CloseMoves, ClearMoves
  <2> QED BY <1>1, <2>1 DEF Moves
<1>4. ASSUME NEW t \in Threads, SpuriousWakeup(t) PROVE Closers'
  BY <1>4 DEF SpuriousWakeup, Goto, Domains, Closers, vars
<1>5. ASSUME NEW t \in Threads, Notify(t) PROVE Closers'
  <2>1. pc[t] = "notify" /\ UNCHANGED call /\ call[t] \in InCall
    BY <1>5 DEF Notify, vars, Domains
  <2>2. ASSUME NEW op, NotifyOne(t, op, "done") PROVE Closers'
    BY <2>1, <2>2 DEF NotifyOne, Goto, Asleep, Domains, Closers
  <2>3. ASSUME NEW op, NEW next, NotifyAll(t, op, next),
               next = "notifyFull" => call[t].op = "close"
        PROVE  Closers'
    BY <2>1, <2>3 DEF NotifyAll, Asleep, Domains, Closers
  <2> QED BY <1>5, <2>1, <2>2, <2>3 DEF Notify, InCall, Ops
<1>6. ASSUME NEW t \in Threads, NotifyFull(t) PROVE Closers'
  BY <1>6 DEF NotifyFull, NotifyAll, Asleep, Domains, Closers, vars
<1>7. CASE UNCHANGED allVars
  BY <1>7 DEF allVars, Closers
<1> QED BY <1>2, <1>3, <1>4, <1>5, <1>6, <1>7 DEF BNext, Step

LEMMA QInvInit == BInit => QInv /\ Closers
<1> SUFFICES ASSUME BInit PROVE QInv /\ Closers
  OBVIOUS
<1>1. Domains
  <2>1. /\ pc \in [Threads -> PCs] /\ call \in [Threads -> InCall \cup {NoCall}]
        /\ \A t \in Threads : call[t] = NoCall /\ pc[t] = "idle"
    BY DEF BInit, Init, PCs
  <2>2. queue = <<>> /\ closed = FALSE
    BY DEF BInit, Init
  <2>3. queue \in Seq(Values \cup {NullOpt})
    BY <2>2
  <2>4. Len(queue) <= Capacity
    BY <2>2, CapacityAssumption
  <2> QED BY <2>1, <2>2, <2>3, <2>4 DEF Domains
<1>2. Closers
  BY DEF BInit, Closers
<1>3. Asleep("pop") = {} /\ Asleep("push") = {}
  BY DEF BInit, Asleep
<1> QED BY <1>1, <1>2, <1>3 DEF QInv, Consumers, Producers

LEMMA QInvNext == QInv /\ Closers /\ [BNext]_allVars => QInv'
<1> SUFFICES ASSUME QInv, Closers, [BNext]_allVars PROVE QInv'
  OBVIOUS
<1>1. Domains'
  BY DomainsNext DEF QInv
<1>2. ASSUME NEW t \in Threads, NotifyFull(t) PROVE Consumers' /\ Producers'
  <2>1. call[t].op \notin {"push", "pop"}
    BY <1>2 DEF Closers, NotifyFull
  <2> QED BY <1>2, <2>1, NotifyFullCovers
<1>3. CASE UNCHANGED allVars
  <2>1. UNCHANGED <<queue, closed, call, pc>>
    BY <1>3 DEF allVars
  <2>2. /\ UNCHANGED <<Asleep("pop"), Asleep("push")>>
        /\ UNCHANGED <<Cover("pop", "push"), Cover("push", "pop")>>
    BY <2>1 DEF Asleep, Cover
  <2>3. UNCHANGED <<ClosePending, ClearPending, FullPending>>
    BY <2>1 DEF ClosePending, ClearPending, FullPending
  <2>4. Consumers'
    BY <2>1, <2>2, <2>3 DEF QInv, Consumers
  <2>5. Producers'
    BY <2>1, <2>2, <2>3 DEF QInv, Producers
  <2> QED BY <1>1, <2>4, <2>5 DEF QInv
<1>4. ASSUME NEW t \in Threads, BInvoke(t) \/ Step(t) \/ SpuriousWakeup(t)
      PROVE  Consumers' /\ Producers'
  BY <1>2, <1>4, PushCovers, PopCovers, CloseCovers, ClearCovers, NotifyCovers, SpuriousCovers,
     InvokeCovers
  DEF Step
<1> QED BY <1>1, <1>3, <1>4 DEF QInv, BNext

\* The invariant above says more than NoLostWakeup, which counts the two kinds
\* of threads apart.
LEMMA QInvCovers == QInv => NoLostWakeup
<1> SUFFICES ASSUME QInv PROVE NoLostWakeup
  OBVIOUS
<1>1. ASSUME NEW op, NEW by
      PROVE  /\ Cardinality(Cover(op, by))
                    <= Cardinality(Woken(op)) + Cardinality(NotifyingOne(by))
             /\ Cardinality(Woken(op)) \in Nat /\ Cardinality(NotifyingOne(by)) \in Nat
  <2>1. Woken(op) \in SUBSET Threads /\ NotifyingOne(by) \in SUBSET Threads
    BY DEF Woken, NotifyingOne
  <2>2. IsFiniteSet(Woken(op)) /\ IsFiniteSet(NotifyingOne(by))
    BY <2>1, ThreadsAssumption, FS_Subset
  <2>3. Cover(op, by) = Woken(op) \cup NotifyingOne(by)
        /\ Woken(op) \cap NotifyingOne(by) = {}
    BY DEF Cover, Woken, NotifyingOne
  <2>4. Cardinality(Woken(op) \cup NotifyingOne(by))
          = Cardinality(Woken(op)) + Cardinality(NotifyingOne(by))
    <3>1. Cardinality(Woken(op) \cap NotifyingOne(by)) = 0
      BY <2>3, FS_EmptySet
    <3>2. Cardinality(Woken(op) \cup NotifyingOne(by))
            = Cardinality(Woken(op)) + Cardinality(NotifyingOne(by))
              - Cardinality(Woken(op) \cap NotifyingOne(by))
      BY <2>2, FS_Union
    <3> QED BY <2>2, <3>1, <3>2, FS_CardinalityType
  <2> QED BY <2>2, <2>3, <2>4, FS_CardinalityType
<1>2. ASSUME NEW op PROVE Cardinality(Asleep(op)) \in Nat
                          /\ (Asleep(op) = {} => Cardinality(Asleep(op)) = 0)
  <2>1. Asleep(op) \in SUBSET Threads
    BY DEF Asleep
  <2> QED BY <2>1, Keeps, FS_EmptySet
<1>3. NoLostConsumerWakeup
  BY <1>1, <1>2, CoverIsNat, LenIsNat DEF QInv, Consumers, NoLostConsumerWakeup, Smaller
<1>4. NoLostProducerWakeup
  BY <1>1, <1>2, CoverIsNat, LenIsNat, CapacityAssumption
  DEF QInv, Domains, Producers, NoLostProducerWakeup, Smaller
<1> QED BY <1>3, <1>4 DEF NoLostWakeup

(***************************************************************************)
(* No wakeup is lost: a thread that sleeps in push() or pop() while there  *)
(* is room or an element for it, or after the queue was closed, is covered *)
(* by a thread already awake for it or by a notification still to be sent. *)
(***************************************************************************)
THEOREM NoWakeupIsLost == BSpec => []NoLostWakeup
<1>1. BInit => QInv /\ Closers
  BY QInvInit
<1>2. (QInv /\ Closers) /\ [BNext]_allVars => (QInv /\ Closers)'
  BY QInvNext, ClosersNext DEF QInv
<1>3. QInv => NoLostWakeup
  BY QInvCovers
<1> QED BY <1>1, <1>2, <1>3, PTL DEF BSpec

(***************************************************************************)
(* The queue implements the atomic queue: the critical section of a call   *)
(* is where it takes effect, and everything else a thread does (sleeping,  *)
(* waking, notifying) is invisible to the callers.                         *)
(***************************************************************************)
THEOREM ImplementsAtomic == BSpec => ImplementsAtomicQueue
<1>1. BInit => Atomic!Init
  BY DEF BInit, Init, Atomic!Init
<1>2. [BNext]_allVars => [Atomic!Next]_(Atomic!vars)
  <2> SUFFICES ASSUME [BNext]_allVars PROVE [Atomic!Next]_(Atomic!vars)
    OBVIOUS
  <2>1. ASSUME NEW t \in Threads, BInvoke(t) PROVE Atomic!Next
    BY <2>1 DEF BInvoke, Invoke, Ops, Atomic!Next, Atomic!Invoke, Atomic!Ops
  <2>2. ASSUME NEW t \in Threads, PushLocked(t) PROVE Atomic!Push(t) \/ UNCHANGED vars
    BY <2>2 DEF PushLocked, Push, Waiting, Answer, Atomic!Push, Atomic!Waiting, Atomic!Answer
  <2>3. ASSUME NEW t \in Threads, PopLocked(t) PROVE Atomic!Pop(t) \/ UNCHANGED vars
    BY <2>3 DEF PopLocked, Pop, Waiting, Answer, Atomic!Pop, Atomic!Waiting, Atomic!Answer
  <2>4. ASSUME NEW t \in Threads, CloseLocked(t) \/ ClearLocked(t) \/ BReturn(t)
        PROVE  Atomic!Close(t) \/ Atomic!Clear(t) \/ Atomic!Return(t)
    BY <2>4 DEF CloseLocked, Close, ClearLocked, Clear, BReturn, Return, Waiting, Answer,
                Atomic!Close, Atomic!Clear, Atomic!Return, Atomic!Waiting, Atomic!Answer
  <2>5. ASSUME NEW t \in Threads, Notify(t) \/ NotifyFull(t) \/ SpuriousWakeup(t)
        PROVE  UNCHANGED vars
    BY <2>5 DEF Notify, NotifyFull, SpuriousWakeup
  <2>6. CASE UNCHANGED allVars
    BY <2>6 DEF allVars, Atomic!vars
  <2> QED
    BY <2>1, <2>2, <2>3, <2>4, <2>5, <2>6 DEF BNext, Step, vars, Atomic!Next, Atomic!vars
<1> QED BY <1>1, <1>2, PTL DEF BSpec, ImplementsAtomicQueue, Atomic!Spec
=============================================================================
