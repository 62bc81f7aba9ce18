---------------------------- MODULE AtomicQueue ----------------------------
(***************************************************************************)
(* What include/bounded_blocking_queue.h promises to the threads that      *)
(* share a queue: every call takes effect in one indivisible step between  *)
(* its invocation and its return.  No mutex, no condition variable, no     *)
(* notification: those belong to BoundedBlockingQueue, which implements    *)
(* this specification.                                                     *)
(***************************************************************************)
EXTENDS Naturals, Sequences

CONSTANTS Threads,   \* the threads that call the queue
          Values,    \* what is pushed
          Capacity,  \* capacity_
          NoCall,    \* a thread outside the queue
          Pending,   \* a call whose effect has not happened yet
          NullOpt    \* std::nullopt, and the result of a call whose result nobody reads

ASSUME CapacityAssumption == Capacity \in Nat \ {0}

\* Nobody's call is taken for a thread outside the queue.
ASSUME CallAssumption ==
    \A o \in {"push", "pop", "close", "clear"}, a \in Values \cup {NullOpt},
       r \in {Pending, NullOpt, "true", "false"} \cup Values : NoCall # [op |-> o, arg |-> a, res |-> r]

VARIABLES queue, closed, call

vars == <<queue, closed, call>>

Ops == {"push", "pop", "close", "clear"}

Calls == {NoCall} \cup
         [op : Ops, arg : Values \cup {NullOpt},
          res : {Pending, NullOpt, "true", "false"} \cup Values]

Init == /\ queue = <<>>
        /\ closed = FALSE
        /\ call = [t \in Threads |-> NoCall]

Waiting(t, op) == /\ call[t] # NoCall
                  /\ call[t].op = op
                  /\ call[t].res = Pending

Answer(t, r) == call' = [call EXCEPT ![t].res = r]

Invoke(t, op, v) ==
    /\ call[t] = NoCall
    /\ call' = [call EXCEPT ![t] = [op |-> op, arg |-> v, res |-> Pending]]
    /\ UNCHANGED <<queue, closed>>

Push(t) ==
    /\ Waiting(t, "push")
    /\ \/ closed /\ Answer(t, "false") /\ UNCHANGED queue
       \/ /\ ~closed
          /\ Len(queue) < Capacity
          /\ queue' = Append(queue, call[t].arg)
          /\ Answer(t, "true")
    /\ UNCHANGED closed

Pop(t) ==
    /\ Waiting(t, "pop")
    /\ \/ queue = <<>> /\ closed /\ Answer(t, NullOpt) /\ UNCHANGED queue
       \/ queue # <<>> /\ Answer(t, Head(queue)) /\ queue' = Tail(queue)
    /\ UNCHANGED closed

Close(t) == Waiting(t, "close") /\ closed' = TRUE /\ Answer(t, NullOpt) /\ UNCHANGED queue

Clear(t) == Waiting(t, "clear") /\ queue' = <<>> /\ Answer(t, NullOpt) /\ UNCHANGED closed

Return(t) == /\ call[t] # NoCall
             /\ call[t].res # Pending
             /\ call' = [call EXCEPT ![t] = NoCall]
             /\ UNCHANGED <<queue, closed>>

Next == \E t \in Threads :
           \/ \E v \in Values : Invoke(t, "push", v)
           \/ \E op \in Ops \ {"push"} : Invoke(t, op, NullOpt)
           \/ Push(t) \/ Pop(t) \/ Close(t) \/ Clear(t) \/ Return(t)

Spec == Init /\ [][Next]_vars
=============================================================================
