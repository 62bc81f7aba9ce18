--------------------------- MODULE RagChainProofs ---------------------------
(***************************************************************************)
(* For any number of requests and chunks: a cancellation hits the request  *)
(* it names, the service is free for every request it begins, and the      *)
(* chain implements AnswerStream.                                          *)
(***************************************************************************)
EXTENDS RagChain, TLAPS

Locked == ctl \in {"locked", "looked", "flagged"}
Wanted(r) == cancels[r] # "none"
Serving == {"decode", "start", "generate", "ended", "reply", "clear", "unwind", "apologize"}
MayBeActive == {"start", "generate", "ended", "reply", "clear", "unwind"}

Domains == /\ DOMAIN cancels = Requests
           /\ cur \in Requests \cup {NoReq} /\ active \in Requests \cup {NoReq}
           /\ main \in Serving => cur \in Requests
           /\ DOMAIN kind = Requests /\ \A r \in arrived : kind[r] \in Kinds
\* The guard: nothing is active outside the scope of handleMessage().
Scoped == /\ active # NoReq => active = cur /\ main \in MayBeActive /\ kind[cur] = "stream"
          /\ main \in {"decode", "clear", "unwind"} => kind[cur] = "stream"
          /\ main \in {"start", "generate", "ended", "reply"} => kind[cur] \in {"stream", "normal"}
\* The mutex: what the control thread has compared stays the active request.
Held == Locked => target = active /\ active # NoReq /\ Wanted(target)
\* The flags that a run can still see were raised for it.
Raised == flag /\ main \in {"generate", "ended"} => Wanted(cur)
Aborted == aborting => main \in {"generate", "ended"} /\ Wanted(cur)
Thrown == outcome = "cancelled" => main \in {"reply", "clear", "unwind", "apologize"} /\ Wanted(cur)
IInv == Domains /\ Scoped /\ Held /\ Raised /\ Aborted /\ Thrown

core == <<cancels, main, cur, outcome, active, flag, aborting, ctl, target, kind, arrived>>

LEMMA InitInv == ChainInit => IInv
  BY DEF ChainInit, Init, IInv, Domains, Scoped, Held, Raised, Aborted, Thrown, Locked, Serving

\* The clients, the signal and the network touch nothing of it but a new cancellation.
LEMMA OutsideInv ==
    ASSUME IInv, \/ UNCHANGED core
                 \/ \E r \in Requests : SendCancel(r) \/ \E k \in Kinds : Submit(r, k)
    PROVE  IInv'
<1>1. CASE UNCHANGED core
  BY <1>1 DEF IInv, Domains, Scoped, Held, Raised, Aborted, Thrown, Locked, Wanted, core
<1>2. ASSUME NEW r \in Requests, SendCancel(r) PROVE IInv'
  <2>1. \A p \in Requests : Wanted(p) => Wanted(p)'
    BY <1>2 DEF SendCancel, Wanted, IInv, Domains
  <2>2. Domains'
    BY <1>2 DEF SendCancel, IInv, Domains, clientVars
  <2> QED
    BY <1>2, <2>1, <2>2, ServerAssumption
    DEF SendCancel, IInv, Domains, Scoped, Held, Raised, Aborted, Thrown, Locked,
        Serving, MayBeActive, clientVars, modelVars
<1>3. ASSUME NEW r \in Requests, NEW k \in Kinds, Submit(r, k) PROVE IInv'
  <2>1. \A p \in Requests : kind[p] \in {"stream", "normal"} => kind'[p] = kind[p]
    BY <1>3 DEF Submit, IInv, Domains
  <2>2. Domains'
    BY <1>3 DEF Submit, IInv, Domains, ctlVars
  <2> QED
    BY <1>3, <2>1, <2>2, ServerAssumption
    DEF Submit, IInv, Domains, Scoped, Held, Raised, Aborted, Thrown, Locked, Wanted,
        Serving, MayBeActive, modelVars, ctlVars
<1> QED BY <1>1, <1>2, <1>3

LEMMA MainInv == ASSUME IInv, MainStep PROVE IInv'
<1> USE ServerAssumption DEF IInv, Domains, Scoped, Held, Raised, Aborted, Thrown, Locked,
        Wanted, Serving, MayBeActive
<1>1. ASSUME NEW r \in Requests, Serve(r) PROVE IInv'
  BY <1>1 DEF Serve, Kinds, clientVars, modelVars, ctlVars
<1>2. CASE SetActive BY <1>2 DEF SetActive, LockFree, clientVars, modelVars, ctlVars
<1>3. CASE StartRun BY <1>3 DEF StartRun, ctlVars, clientVars
<1>4. CASE Chunk BY <1>4 DEF Chunk, clientVars, modelVars, ctlVars
<1>5. CASE EndRun BY <1>5 DEF EndRun, clientVars, modelVars, ctlVars
<1>6. CASE Conclude BY <1>6 DEF Conclude, ctlVars, clientVars
<1>7. CASE Reply BY <1>7 DEF Reply, Rest, clientVars, modelVars, ctlVars
<1>8. CASE ClearActive BY <1>8 DEF ClearActive, LockFree, Rest, clientVars, modelVars, ctlVars
<1>9. CASE Apologize BY <1>9 DEF Apologize, Rest, clientVars, modelVars, ctlVars
<1>10. CASE LeaveLoop BY <1>10 DEF LeaveLoop, clientVars, modelVars
<1>11. CASE JoinControl BY <1>11 DEF JoinControl, clientVars, modelVars, ctlVars
<1> QED BY MainStep, <1>1, <1>2, <1>3, <1>4, <1>5, <1>6, <1>7, <1>8, <1>9, <1>10, <1>11 DEF MainStep

LEMMA ControlInv == ASSUME IInv, ControlStep PROVE IInv'
<1> USE ServerAssumption DEF IInv, Domains, Scoped, Held, Raised, Aborted, Thrown, Locked,
        Wanted, Serving, MayBeActive
<1>1. ASSUME NEW r \in Requests, Compare(r) PROVE IInv'
  BY <1>1 DEF Compare, AnswerCancel, clientVars, modelVars
<1>2. CASE LookRunning BY <1>2 DEF LookRunning, AnswerCancel, clientVars, modelVars
<1>3. CASE RaiseFlag BY <1>3 DEF RaiseFlag, clientVars
<1>4. CASE Abort
  <2>1. target = cur /\ cur \in Requests /\ Wanted(cur) BY <1>4 DEF Abort
  <2>2. Wanted(cur)' BY <1>4, <2>1 DEF Abort, AnswerCancel
  <2>3. CASE aborting' = (main = "generate")
    BY <1>4, <2>1, <2>2, <2>3 DEF Abort, AnswerCancel, clientVars
  <2>4. CASE aborting' = aborting
    BY <1>4, <2>1, <2>2, <2>4 DEF Abort, AnswerCancel, clientVars
  <2> QED BY <1>4, <2>3, <2>4 DEF Abort
<1>5. CASE ExitControl BY <1>5 DEF ExitControl, clientVars, modelVars
<1> QED BY ControlStep, <1>1, <1>2, <1>3, <1>4, <1>5 DEF ControlStep

\* The question that is being relayed.
Relaying == relay # "poll" => rcur \in Questions

LEMMA RelayingInv == Spec => []Relaying
<1>1. ChainInit => Relaying BY DEF ChainInit, Relaying
<1>2. Relaying /\ [Next]_vars => Relaying'
  <2> SUFFICES ASSUME Relaying, [Next]_vars PROVE Relaying'
    OBVIOUS
  <2> USE DEF Relaying, relayVars
  <2>1. CASE ClientSide
    BY <2>1 DEF ClientSide, Query, QueryReceives, QueryTimesOut, Cancel
  <2>2. CASE RelayStep
    BY <2>2 DEF RelayStep, RelayBegins, RelayFindsNothing, RelayEndsNothing, RelayFails,
                RelayAsks, RelayReceives, RelayTimesOut, RelayHangsUp, RelayEnds
  <2>3. CASE RelayControl BY <2>3 DEF RelayControl, RelayCompares, RelayAnswers
  <2>4. CASE Server BY <2>4 DEF Server, chainVars
  <2>5. CASE UNCHANGED vars BY <2>5 DEF vars, chainVars
  <2> QED BY <2>1, <2>2, <2>3, <2>4, <2>5 DEF Next
<1> QED BY <1>1, <1>2, PTL DEF Spec

\* What the chain does outside the model server is what a free client may do there.
LEMMA ChainStep ==
    ASSUME Next, Relaying
    PROVE  \/ MainStep \/ ControlStep \/ UNCHANGED core
           \/ \E r \in Requests : SendCancel(r) \/ \E k \in Kinds : Submit(r, k)
<1> USE DEF core, serverVars, clientVars, modelVars, ctlVars, madeVars
<1>1. CASE ClientSide
  BY <1>1 DEF ClientSide, Query, QueryReceives, QueryTimesOut, Cancel
<1>2. CASE RelayStep
  <2>1. CASE RelayAsks
    BY <2>1, ChainAssumption DEF RelayAsks, Relaying, Kinds
  <2>2. ASSUME NEW r \in Questions, RelayBegins(r) PROVE UNCHANGED core
    BY <2>2 DEF RelayBegins
  <2>3. CASE RelayFindsNothing BY <2>3 DEF RelayFindsNothing
  <2>4. CASE RelayEndsNothing BY <2>4 DEF RelayEndsNothing
  <2>5. CASE RelayReceives BY <2>5 DEF RelayReceives, Take
  <2>6. CASE RelayTimesOut BY <2>6 DEF RelayTimesOut
  <2>7. CASE RelayHangsUp BY <2>7 DEF RelayHangsUp, HangUp
  <2>8. CASE RelayEnds BY <2>8 DEF RelayEnds
  <2>9. CASE RelayFails BY <2>9 DEF RelayFails
  <2> QED BY <1>2, <2>1, <2>2, <2>3, <2>4, <2>5, <2>6, <2>7, <2>8, <2>9 DEF RelayStep
<1>3. CASE RelayControl
  <2>1. ASSUME NEW r \in Questions, RelayCompares(r)
        PROVE  UNCHANGED core \/ \E p \in Requests : SendCancel(p)
    BY <2>1, ChainAssumption DEF RelayCompares
  <2>2. CASE RelayAnswers BY <2>2 DEF RelayAnswers
  <2> QED BY <1>3, <2>1, <2>2 DEF RelayControl
<1>4. CASE Server
  <2>1. CASE Signal BY <2>1 DEF Signal
  <2>2. ASSUME NEW r \in Questions, LoseTail(r) PROVE UNCHANGED core
    BY <2>2 DEF LoseTail
  <2>3. ASSUME NEW r \in Requests \ Questions, OtherClient(r)
        PROVE  \E p \in Requests : SendCancel(p) \/ \E k \in Kinds : Submit(p, k)
    BY <2>3 DEF OtherClient
  <2> QED BY <1>4, <2>1, <2>2, <2>3 DEF Server, ServerStep
<1> QED BY <1>1, <1>2, <1>3, <1>4 DEF Next

LEMMA NextInv == IInv /\ Relaying /\ [Next]_vars => IInv'
<1>1. ASSUME IInv, Relaying, Next PROVE IInv'
  BY <1>1, ChainStep, MainInv, ControlInv, OutsideInv
<1>2. ASSUME IInv, UNCHANGED vars PROVE IInv'
  BY <1>2, OutsideInv
  DEF vars, core, serverVars, clientVars, modelVars, ctlVars, madeVars
<1> QED BY <1>1, <1>2

LEMMA Inductive == Spec => []IInv
  BY InitInv, NextInv, RelayingInv, PTL DEF Spec

(***************************************************************************)
(* A run of the model that is aborted, or whose answer is thrown away as   *)
(* cancelled, was asked to be cancelled: comparing the id and stopping the *)
(* model under one lock suffices (src/llm_stream_service.cpp:135-147).     *)
(***************************************************************************)
THEOREM CancelsAreAimed == Spec => []CancelIsAimed
<1>1. IInv => CancelIsAimed
  BY ServerAssumption
  DEF IInv, Domains, Aborted, Thrown, Wanted, CancelIsAimed, Serving
<1> QED BY <1>1, Inductive, PTL

(***************************************************************************)
(* However a request ends, also by an exception, it is no longer active    *)
(* when the next one begins (src/llm_stream_service.cpp:54-60).            *)
(***************************************************************************)
THEOREM ServiceIsFree == Spec => []NeverBusy
<1>1. IInv => NeverBusy
  BY DEF IInv, Scoped, MayBeActive, NeverBusy
<1> QED BY <1>1, Inductive, PTL
-----------------------------------------------------------------------------
(***************************************************************************)
(* What is under way is true: an event for a request carries a part that   *)
(* was made for it, or the end of an answer that was made whole.  With it  *)
(* every step of the chain is a step of AnswerStream or none.              *)
(***************************************************************************)
\* An event that its reader may believe: a part that was made, or the end of an answer that
\* was made whole.
AnyEvent == [type : {"chunk", "finished", "error"}, seq : Nat, answer : Nat]
Sound(r) == {e \in AnyEvent : /\ e.type = "chunk" => e.seq < made[r]
                              /\ e.type = "finished" => r \in whole /\ e.answer = made[r]}

Shapes ==
    /\ made \in [Requests -> 0..MaxChunks] /\ heard \in [Questions -> Nat]
    /\ seq \in Nat /\ rseq \in Nat /\ rheard \in Nat
    /\ DOMAIN kind = Requests /\ DOMAIN q = Questions
    /\ DOMAIN inbox = Requests /\ DOMAIN events = Questions
Mail == /\ \A r \in Requests : inbox[r] \in Seq(Sound(r))
        /\ \A r \in Questions : events[r] \in Seq(Sound(r))

\* A question is with its client, with the RAG server, or with the model server.
NotYet(r) == q[r] = "new" \/ r \in asked \/ (relay = "search" /\ rcur = r)
Unsent == \A r \in Questions :
            /\ NotYet(r) => kind[r] = "new" /\ made[r] = 0 /\ r \notin whole
            /\ q[r] = "new" => r \notin asked
            /\ q[r] = "new" \/ r \in asked => relay = "poll" \/ rcur # r

\* A request that waits or is generated is not complete.
Incomplete ==
    /\ \A r \in Requests \ Questions : kind[r] = "new" => r \notin whole
    /\ \A r \in arrived : r \in Requests /\ kind[r] # "new" /\ r \notin whole
    /\ main \in {"poll", "decode", "start"} => seq = 0
    /\ main \in {"decode", "start", "generate"} =>
         cur \notin arrived /\ cur \notin whole
    /\ main \in {"decode", "start", "generate", "ended", "reply"} => kind[cur] # "new"
    /\ main = "generate" => seq <= made[cur]
    /\ main = "ended" /\ outcome = "finished" /\ made[cur] > 0 => cur \in whole
    /\ main = "reply" /\ outcome = "success" => cur \in whole

\* The RAG server numbers what it passes on as it was numbered.
Numbered ==
    /\ relay = "search" => rseq = 0 /\ rheard = 0
    /\ relay = "stream" => rseq = rheard
    /\ relay = "nothing" => rseq = 1 /\ made[rcur] = 1 /\ kind[rcur] = "new"

CInv == Shapes /\ Mail /\ Unsent /\ Incomplete /\ Numbered

\* The generations only grow, and what is whole stays as it is.
Later == \A r \in Requests : /\ made[r] <= made'[r]
                             /\ r \in whole => r \in whole' /\ made'[r] = made[r]
\* What a step may do to the events on their way to one client.
Moves(s, t, S) == \/ t = s \/ t = <<>>
                  \/ \E e \in S : t = Append(s, e)
                  \/ s # <<>> /\ (t = Tail(s) \/ t = SubSeq(s, 1, Len(s) - 1))

LEMMA SeqMoves ==
    ASSUME NEW S, NEW T, S \subseteq T, NEW s \in Seq(S), NEW t, Moves(s, t, T)
    PROVE  t \in Seq(T)
<1>1. s \in Seq(T) OBVIOUS
<1>2. s # <<>> => Tail(s) \in Seq(T) BY <1>1
<1>3. s # <<>> => SubSeq(s, 1, Len(s) - 1) \in Seq(T) BY <1>1
<1>4. ASSUME NEW e \in T, t = Append(s, e) PROVE t \in Seq(T) BY <1>1, <1>4
<1>5. <<>> \in Seq(T) OBVIOUS
<1> QED BY <1>1, <1>2, <1>3, <1>4, <1>5, Zenon DEF Moves

LEMMA MailMoves ==
    ASSUME Shapes, Mail, Later, Shapes',
           \A r \in Requests : Moves(inbox[r], inbox'[r], Sound(r)'),
           \A r \in Questions : Moves(events[r], events'[r], Sound(r)')
    PROVE  Mail'
<1>1. ASSUME NEW r \in Requests PROVE Sound(r) \subseteq Sound(r)'
  BY <1>1 DEF Shapes, Later, Sound, AnyEvent
<1>2. ASSUME NEW r \in Requests PROVE inbox'[r] \in Seq(Sound(r)')
  BY <1>1, <1>2, SeqMoves DEF Mail
<1>3. ASSUME NEW r \in Questions PROVE events'[r] \in Seq(Sound(r)')
  BY <1>1, <1>3, SeqMoves, ChainAssumption DEF Mail
<1> QED BY <1>2, <1>3 DEF Mail

Moved == /\ \A r \in Requests : Moves(inbox[r], inbox'[r], Sound(r)')
         /\ \A r \in Questions : Moves(events[r], events'[r], Sound(r)')

LEMMA Kept ==
    ASSUME CInv, Shapes', Later, Moved, Unsent', Incomplete', Numbered'
    PROVE  CInv'
  BY MailMoves DEF CInv, Moved

\* Steps that make nothing and send nothing.
LEMMA Silent ==
    ASSUME CInv, UNCHANGED <<made, whole, inbox, events>>, Shapes', Unsent', Incomplete', Numbered'
    PROVE  CInv'
<1>1. Later BY DEF Later, CInv, Shapes
<1>2. Moved BY DEF Moved, Moves
<1> QED BY <1>1, <1>2, Kept

\* Every process keeps the mail sound.
LEMMA ClientKeeps == ASSUME CInv, IInv, Relaying, ClientSide PROVE CInv'
<1> USE ChainAssumption, ServerAssumption DEF Relaying, serverVars, clientVars, modelVars, ctlVars,
        madeVars, cancelVars, relayVars, queryVars
<1>1. ASSUME NEW r \in Questions, Query(r) PROVE CInv'
  <2>1. Shapes' BY <1>1 DEF Query, CInv, Shapes
  <2>2. Unsent' BY <1>1 DEF Query, CInv, Shapes, Unsent, NotYet
  <2>3. Incomplete' BY <1>1 DEF Query, CInv, Incomplete
  <2>4. Numbered' BY <1>1 DEF Query, CInv, Numbered
  <2> QED BY <1>1, <2>1, <2>2, <2>3, <2>4, Silent DEF Query
<1>2. ASSUME NEW r \in Questions, QueryReceives(r) PROVE CInv'
  <2>1. Shapes' BY <1>2 DEF QueryReceives, CInv, Shapes
  <2>2. Unsent' BY <1>2 DEF QueryReceives, CInv, Shapes, Unsent, NotYet
  <2>3. Incomplete' BY <1>2 DEF QueryReceives, CInv, Incomplete
  <2>4. Numbered' BY <1>2 DEF QueryReceives, CInv, Numbered
  <2>5. Later BY <1>2 DEF QueryReceives, Later, CInv, Shapes
  <2>6. Moved BY <1>2 DEF QueryReceives, Moved, Moves, CInv, Shapes
  <2> QED BY <2>1, <2>2, <2>3, <2>4, <2>5, <2>6, Kept
<1>3. ASSUME NEW r \in Questions, QueryTimesOut(r) PROVE CInv'
  <2>1. Shapes' BY <1>3 DEF QueryTimesOut, CInv, Shapes
  <2>2. Unsent' BY <1>3 DEF QueryTimesOut, CInv, Shapes, Unsent, NotYet
  <2>3. Incomplete' BY <1>3 DEF QueryTimesOut, CInv, Incomplete
  <2>4. Numbered' BY <1>3 DEF QueryTimesOut, CInv, Numbered
  <2> QED BY <1>3, <2>1, <2>2, <2>3, <2>4, Silent DEF QueryTimesOut
<1>4. ASSUME NEW r \in Questions, Cancel(r) PROVE CInv'
  BY <1>4, Silent DEF Cancel, CInv, Shapes, Unsent, NotYet, Incomplete, Numbered
<1> QED BY <1>1, <1>2, <1>3, <1>4 DEF ClientSide

LEMMA RelayKeeps == ASSUME CInv, IInv, Relaying, RelayStep PROVE CInv'
<1> USE ChainAssumption, ServerAssumption DEF Relaying, serverVars, clientVars, modelVars, ctlVars,
        madeVars, cancelVars, relayVars, queryVars
<1>1. ASSUME NEW r \in Questions, RelayBegins(r) PROVE CInv'
  <2>1. Shapes' BY <1>1 DEF RelayBegins, CInv, Shapes
  <2>2. Unsent' BY <1>1 DEF RelayBegins, CInv, Unsent, NotYet
  <2>3. Incomplete' BY <1>1 DEF RelayBegins, CInv, Incomplete
  <2>4. Numbered' BY <1>1 DEF RelayBegins, CInv, Numbered
  <2> QED BY <1>1, <2>1, <2>2, <2>3, <2>4, Silent DEF RelayBegins
<1>2. CASE RelayFindsNothing
  <2>0. rcur \in Questions /\ made[rcur] = 0 /\ rcur \notin whole /\ kind[rcur] = "new" /\ rseq = 0
    BY <1>2 DEF RelayFindsNothing, CInv, Unsent, NotYet, Numbered
  <2>1. Shapes' BY <1>2, <2>0 DEF RelayFindsNothing, Relayed, CInv, Shapes
  <2>2. Unsent' BY <1>2, <2>0 DEF RelayFindsNothing, CInv, Unsent, NotYet, Shapes
  <2>3. Incomplete' BY <1>2, <2>0 DEF RelayFindsNothing, CInv, Incomplete, Shapes, IInv,
        Domains, Serving
  <2>4. Numbered' BY <1>2, <2>0 DEF RelayFindsNothing, CInv, Numbered, Shapes
  <2>5. Later BY <1>2, <2>0 DEF RelayFindsNothing, Later, CInv, Shapes
  <2>6. [type |-> "chunk", seq |-> rseq, answer |-> 0] \in Sound(rcur)'
    BY <1>2, <2>0 DEF RelayFindsNothing, Sound, AnyEvent, CInv, Shapes
  <2>7. Moved BY <1>2, <2>0, <2>6 DEF RelayFindsNothing, Relayed, Moved, Moves, CInv, Shapes
  <2> QED BY <2>1, <2>2, <2>3, <2>4, <2>5, <2>7, Kept
<1>3. CASE RelayEndsNothing
  <2>0. rcur \in Questions /\ made[rcur] = 1 /\ kind[rcur] = "new" /\ rseq = 1
    BY <1>3 DEF RelayEndsNothing, CInv, Numbered
  <2>1. Shapes' BY <1>3, <2>0 DEF RelayEndsNothing, Relayed, CInv, Shapes
  <2>2. Unsent' BY <1>3, <2>0 DEF RelayEndsNothing, CInv, Unsent, NotYet, Shapes
  <2>3. Incomplete' BY <1>3, <2>0 DEF RelayEndsNothing, CInv, Incomplete, Shapes, IInv,
        Domains, Serving
  <2>4. Numbered' BY <1>3, <2>0 DEF RelayEndsNothing, CInv, Numbered, Shapes
  <2>5. Later BY <1>3, <2>0 DEF RelayEndsNothing, Later, CInv, Shapes
  <2>6. [type |-> "finished", seq |-> rseq, answer |-> 1] \in Sound(rcur)'
    BY <1>3, <2>0 DEF RelayEndsNothing, Sound, AnyEvent, CInv, Shapes
  <2>7. Moved BY <1>3, <2>0, <2>6 DEF RelayEndsNothing, Relayed, Moved, Moves, CInv, Shapes
  <2> QED BY <2>1, <2>2, <2>3, <2>4, <2>5, <2>7, Kept
<1>4. CASE RelayAsks
  <2>0. rcur \in Questions /\ kind[rcur] = "new" /\ rcur \notin whole /\ q[rcur] # "new"
        /\ rcur \notin asked /\ rseq = 0 /\ rheard = 0
    BY <1>4 DEF RelayAsks, CInv, Unsent, NotYet, Numbered
  <2>1. Shapes' BY <1>4 DEF RelayAsks, Submit, CInv, Shapes
  <2>2. Unsent' BY <1>4, <2>0 DEF RelayAsks, Submit, CInv, Unsent, NotYet, Shapes
  <2>3. Incomplete' BY <1>4, <2>0 DEF RelayAsks, Submit, CInv, Incomplete, Shapes, IInv,
        Domains, Serving
  <2>4. Numbered' BY <1>4, <2>0 DEF RelayAsks, Submit, CInv, Numbered
  <2> QED BY <1>4, <2>1, <2>2, <2>3, <2>4, Silent DEF RelayAsks, Submit
<1>5. CASE RelayReceives
  <2> DEFINE e == Head(inbox[rcur])
  <2>0. rcur \in Questions /\ rcur \in Requests /\ rseq = rheard
    BY <1>5 DEF RelayReceives, CInv, Numbered
  <2>1. e \in Sound(rcur)
    <3>1. inbox[rcur] \in Seq(Sound(rcur)) /\ inbox[rcur] # <<>>
      BY <1>5, <2>0 DEF RelayReceives, Take, CInv, Mail
    <3> QED BY <3>1
  <2>2. Shapes' BY <1>5 DEF RelayReceives, Take, Relayed, CInv, Shapes
  <2>3. Unsent' BY <1>5 DEF RelayReceives, Take, CInv, Unsent, NotYet
  <2>4. Incomplete' BY <1>5 DEF RelayReceives, Take, CInv, Incomplete
  <2>5. Numbered' BY <1>5, <2>0 DEF RelayReceives, Take, CInv, Numbered, Shapes
  <2>6. Later BY <1>5 DEF RelayReceives, Take, Later, CInv, Shapes
  <2>10. \A r \in Requests : Sound(r)' = Sound(r) BY <1>5 DEF RelayReceives, Take, Sound
  <2>8. \A r \in Requests : Moves(inbox[r], inbox'[r], Sound(r)')
    BY <1>5 DEF RelayReceives, Take, Moves, CInv, Shapes
  <2>9. \A r \in Questions : Moves(events[r], events'[r], Sound(r)')
    <3>1. CASE UNCHANGED events BY <3>1 DEF Moves
    <3>2. ASSUME NEW a \in {0, e.answer}, NEW k \in {"chunk", "finished"}, e.type = k,
          e.seq = rheard,
                 k = "finished" => a = e.answer,
                 Relayed(rcur, [type |-> k, seq |-> rseq, answer |-> a])
          PROVE  \A r \in Questions : Moves(events[r], events'[r], Sound(r)')
      <4>2. ASSUME NEW r \in Questions PROVE Moves(events[r], events'[r], Sound(r)')
        <5>1. CASE r = rcur /\ q[rcur] = "asked"
          <6> DEFINE x == [type |-> k, seq |-> rseq, answer |-> a]
          <6>1. events'[r] = Append(events[r], x) BY <3>2, <5>1 DEF Relayed, CInv, Shapes
          <6>2. x \in Sound(r)' BY <2>0, <2>1, <2>10, <3>2, <5>1 DEF Sound, AnyEvent
          <6> HIDE DEF x
          <6> QED BY <6>1, <6>2 DEF Moves
        <5>2. CASE ~(r = rcur /\ q[rcur] = "asked")
          BY <3>2, <5>2 DEF Relayed, Moves, CInv, Shapes
        <5> QED BY <5>1, <5>2
      <4> QED BY <4>2
    <3> QED BY <1>5, <3>1, <3>2 DEF RelayReceives
  <2> QED BY <2>2, <2>3, <2>4, <2>5, <2>6, <2>8, <2>9, Kept DEF Moved
<1>6. CASE RelayTimesOut
  BY <1>6, Silent DEF RelayTimesOut, CInv, Shapes, Unsent, NotYet, Incomplete, Numbered
<1>7. CASE RelayHangsUp
  <2>1. Shapes' BY <1>7 DEF RelayHangsUp, HangUp, Relayed, CInv, Shapes
  <2>2. Unsent' BY <1>7 DEF RelayHangsUp, HangUp, CInv, Unsent, NotYet
  <2>3. Incomplete' BY <1>7 DEF RelayHangsUp, HangUp, CInv, Incomplete
  <2>4. Numbered' BY <1>7 DEF RelayHangsUp, HangUp, CInv, Numbered
  <2>5. Later BY <1>7 DEF RelayHangsUp, HangUp, Later, CInv, Shapes
  <2>6. [type |-> "error", seq |-> rseq, answer |-> 0] \in Sound(rcur)'
    BY <1>7 DEF RelayHangsUp, Sound, AnyEvent, CInv, Shapes
  <2>7. Moved BY <1>7, <2>6 DEF RelayHangsUp, HangUp, Relayed, Moved, Moves, CInv, Shapes
  <2> QED BY <2>1, <2>2, <2>3, <2>4, <2>5, <2>7, Kept
<1>8. CASE RelayEnds
  BY <1>8, Silent DEF RelayEnds, CInv, Shapes, Unsent, NotYet, Incomplete, Numbered
<1>9. CASE RelayFails
  <2>1. Shapes' BY <1>9 DEF RelayFails, Relayed, CInv, Shapes
  <2>2. Unsent' BY <1>9 DEF RelayFails, CInv, Unsent, NotYet
  <2>3. Incomplete' BY <1>9 DEF RelayFails, CInv, Incomplete
  <2>4. Numbered' BY <1>9 DEF RelayFails, CInv, Numbered
  <2>5. Later BY <1>9 DEF RelayFails, Later, CInv, Shapes
  <2>6. [type |-> "error", seq |-> rseq, answer |-> 0] \in Sound(rcur)'
    BY <1>9 DEF RelayFails, Sound, AnyEvent, CInv, Shapes
  <2>7. Moved BY <1>9, <2>6 DEF RelayFails, Relayed, Moved, Moves, CInv, Shapes
  <2> QED BY <2>1, <2>2, <2>3, <2>4, <2>5, <2>7, Kept
<1> QED BY <1>1, <1>2, <1>3, <1>4, <1>5, <1>6, <1>7, <1>8, <1>9 DEF RelayStep

LEMMA CancelKeeps == ASSUME CInv, RelayControl PROVE CInv'
<1> USE DEF serverVars, clientVars, modelVars, ctlVars, madeVars, cancelVars, relayVars, queryVars
<1>1. ASSUME NEW r \in Questions, RelayCompares(r) PROVE CInv'
  <2>1. UNCHANGED <<relayVars, queryVars, asked, events, kind, arrived, main, cur, seq, outcome,
                    made, whole, inbox>>
    BY <1>1 DEF RelayCompares, SendCancel
  <2> QED BY <2>1, Silent DEF CInv, Shapes, Unsent, NotYet, Incomplete, Numbered
<1>2. CASE RelayAnswers
  BY <1>2, Silent DEF RelayAnswers, CInv, Shapes, Unsent, NotYet, Incomplete, Numbered
<1> QED BY <1>1, <1>2 DEF RelayControl

LEMMA Delivered ==
    ASSUME CInv, NEW r \in Requests, NEW e, e \in Sound(r)', UNCHANGED events,
           UNCHANGED inbox \/ Deliver(r, e)
    PROVE  Moved
  BY DEF Deliver, Moved, Moves, CInv, Shapes

LEMMA ServerKeeps == ASSUME CInv, IInv, Relaying, Server PROVE CInv'
<1> USE ChainAssumption, ServerAssumption DEF Relaying, clientVars, modelVars, ctlVars,
        madeVars, cancelVars, relayVars, queryVars
<1>0. UNCHANGED chainVars BY DEF Server
<1> USE <1>0 DEF chainVars
<1>1. CASE MainStep
  <2>1. ASSUME NEW r \in Requests, Serve(r) PROVE CInv'
    <3>1. Shapes' /\ Unsent' /\ Numbered'
      BY <2>1 DEF Serve, CInv, Shapes, Unsent, NotYet, Numbered
    <3>2. Incomplete' BY <2>1 DEF Serve, CInv, Incomplete, IInv, Domains, Kinds
    <3> QED BY <2>1, <3>1, <3>2, Silent DEF Serve
  <2>2. CASE SetActive
    BY <2>2, Silent DEF SetActive, CInv, Shapes, Unsent, NotYet, Incomplete, Numbered
  <2>3. CASE StartRun
    <3>1. cur \in Requests /\ seq = 0 BY <2>3 DEF StartRun, CInv, Incomplete, IInv, Domains, Serving
    <3>2. 0 <= made[cur] BY <3>1 DEF CInv, Shapes
    <3> QED
      BY <2>3, <3>1, <3>2, Silent DEF StartRun, CInv, Shapes, Unsent, NotYet, Incomplete, Numbered
  <2>4. CASE Chunk
    <3>0. cur \in Requests /\ cur \notin whole /\ kind[cur] # "new" /\ cur \notin arrived
          /\ seq <= made[cur]
      BY <2>4 DEF Chunk, CInv, Incomplete, IInv, Domains, Serving
    <3>1. Shapes' BY <2>4, <3>0 DEF Chunk, Deliver, CInv, Shapes
    <3>2. Unsent' BY <2>4, <3>0 DEF Chunk, CInv, Unsent, NotYet, Shapes
    <3>3. Incomplete' BY <2>4, <3>0 DEF Chunk, CInv, Incomplete, Shapes
    <3>4. Numbered' BY <2>4, <3>0 DEF Chunk, CInv, Numbered, Shapes
    <3>5. Later BY <2>4, <3>0 DEF Chunk, Later, CInv, Shapes
    <3>6. [type |-> "chunk", seq |-> seq, answer |-> 0] \in Sound(cur)'
      BY <2>4, <3>0 DEF Chunk, Sound, AnyEvent, CInv, Shapes
    <3>7. Moved BY <2>4, <3>0, <3>6 DEF Chunk, Deliver, Moved, Moves, CInv, Shapes
    <3> QED BY <3>1, <3>2, <3>3, <3>4, <3>5, <3>7, Kept
  <2>5. CASE EndRun
    <3>0. cur \in Requests /\ cur \notin whole /\ kind[cur] # "new" /\ cur \notin arrived
      BY <2>5 DEF EndRun, CInv, Incomplete, IInv, Domains, Serving
    <3>1. Shapes' /\ Numbered' BY <2>5 DEF EndRun, CInv, Shapes, Numbered
    <3>2. Unsent' BY <2>5, <3>0 DEF EndRun, CInv, Unsent, NotYet, Shapes
    <3>3. Incomplete' BY <2>5, <3>0 DEF EndRun, CInv, Incomplete, Shapes
    <3>4. Later BY <2>5 DEF EndRun, Later, CInv, Shapes
    <3>5. Moved BY <2>5 DEF EndRun, Moved, Moves
    <3> QED BY <3>1, <3>2, <3>3, <3>4, <3>5, Kept
  <2>6. CASE Conclude
    BY <2>6, Silent DEF Conclude, CInv, Shapes, Unsent, NotYet, Incomplete, Numbered
  <2>7. CASE Reply
    <3>0. cur \in Requests BY <2>7 DEF Reply, IInv, Domains, Serving
    <3>1. Shapes' /\ Unsent' /\ Numbered'
      BY <2>7 DEF Reply, Rest, Deliver, CInv, Shapes, Unsent, NotYet, Numbered
    <3>2. Incomplete' BY <2>7 DEF Reply, Rest, CInv, Incomplete
    <3>3. Later BY <2>7 DEF Reply, Later, CInv, Shapes
    <3>4. ASSUME NEW r \in Requests, r = cur PROVE FinalEvent \in Sound(r)'
      <4>1. seq \in Nat /\ made[cur] \in Nat /\ UNCHANGED madeVars
        BY <2>7, <3>0 DEF Reply, CInv, Shapes
      <4>2. outcome = "success" => cur \in whole BY <2>7 DEF Reply, CInv, Incomplete
      <4>3. FinalEvent \in Sound(r)
        BY <3>4, <4>1, <4>2 DEF FinalEvent, ErrorEvent, Sound, AnyEvent
      <4>4. Sound(r)' = Sound(r) BY <4>1 DEF Sound
      <4> QED BY <4>3, <4>4
    <3>5. UNCHANGED events /\ (UNCHANGED inbox \/ Deliver(cur, FinalEvent)) BY <2>7 DEF Reply
    <3>6. Moved BY <3>0, <3>4, <3>5, Delivered
    <3> QED BY <3>1, <3>2, <3>3, <3>6, Kept
  <2>8. CASE ClearActive
    BY <2>8, Silent DEF ClearActive, Rest, CInv, Shapes, Unsent, NotYet, Incomplete, Numbered
  <2>9. CASE Apologize
    <3>0. cur \in Requests BY <2>9 DEF Apologize, IInv, Domains, Serving
    <3>1. Shapes' /\ Unsent' /\ Numbered'
      BY <2>9 DEF Apologize, Rest, Deliver, CInv, Shapes, Unsent, NotYet, Numbered
    <3>2. Incomplete' BY <2>9 DEF Apologize, Rest, CInv, Incomplete
    <3>3. Later BY <2>9 DEF Apologize, Later, CInv, Shapes
    <3>4. ASSUME NEW r \in Requests, r = cur PROVE ErrorEvent \in Sound(r)'
      BY <2>9, <3>4 DEF Apologize, ErrorEvent, Sound, AnyEvent, CInv, Shapes
    <3>5. UNCHANGED events /\ (UNCHANGED inbox \/ Deliver(cur, ErrorEvent)) BY <2>9 DEF Apologize
    <3>6. Moved BY <3>0, <3>4, <3>5, Delivered
    <3> QED BY <3>1, <3>2, <3>3, <3>6, Kept
  <2>10. CASE LeaveLoop
    BY <2>10, Silent DEF LeaveLoop, CInv, Shapes, Unsent, NotYet, Incomplete, Numbered
  <2>11. CASE JoinControl
    BY <2>11, Silent DEF JoinControl, CInv, Shapes, Unsent, NotYet, Incomplete, Numbered
  <2> QED BY <1>1, <2>1, <2>2, <2>3, <2>4, <2>5, <2>6, <2>7, <2>8, <2>9, <2>10, <2>11 DEF MainStep
<1>2. CASE ControlStep
  <2>1. UNCHANGED <<kind, arrived, main, cur, seq, outcome, made, whole, inbox>>
    BY <1>2 DEF ControlStep, Compare, LookRunning, RaiseFlag, Abort, ExitControl
  <2> QED BY <2>1, Silent DEF CInv, Shapes, Unsent, NotYet, Incomplete, Numbered
<1>3. CASE Signal
  BY <1>3, Silent DEF Signal, CInv, Shapes, Unsent, NotYet, Incomplete, Numbered
<1>4. ASSUME NEW r \in Requests \ Questions, OtherClient(r) PROVE CInv'
  <2>1. ASSUME NEW k \in Kinds, Submit(r, k) PROVE CInv'
    <3>1. Shapes' /\ Numbered' BY <2>1 DEF Submit, CInv, Shapes, Numbered
    <3>2. Unsent' BY <2>1 DEF Submit, CInv, Unsent, NotYet, Shapes
    <3>3. Incomplete' BY <2>1 DEF Submit, Kinds, CInv, Incomplete, Shapes
    <3> QED BY <2>1, <3>1, <3>2, <3>3, Silent DEF Submit
  <2>2. CASE SendCancel(r)
    BY <2>2, Silent DEF SendCancel, CInv, Shapes, Unsent, NotYet, Incomplete, Numbered
  <2> QED BY <1>4, <2>1, <2>2 DEF OtherClient
<1>5. ASSUME NEW r \in Questions, LoseTail(r) PROVE CInv'
  <2>1. Shapes' /\ Unsent' /\ Incomplete' /\ Numbered'
    BY <1>5 DEF LoseTail, CInv, Shapes, Unsent, NotYet, Incomplete, Numbered
  <2>2. Later BY <1>5 DEF LoseTail, Later, CInv, Shapes
  <2>3. Moved BY <1>5 DEF LoseTail, Moved, Moves, CInv, Shapes
  <2> QED BY <2>1, <2>2, <2>3, Kept
<1> QED BY <1>1, <1>2, <1>3, <1>4, <1>5 DEF Server, ServerStep

LEMMA NextKeeps == CInv /\ IInv /\ Relaying /\ [Next]_vars => CInv'
<1>1. ASSUME CInv, UNCHANGED vars PROVE CInv'
  <2> USE <1>1 DEF vars, serverVars, clientVars, modelVars, ctlVars, madeVars, chainVars,
          queryVars, cancelVars, relayVars
  <2> QED BY Silent DEF CInv, Shapes, Unsent, NotYet, Incomplete, Numbered
<1> QED BY <1>1, ClientKeeps, RelayKeeps, CancelKeeps, ServerKeeps DEF Next

LEMMA InitKeeps == ChainInit => CInv
<1> SUFFICES ASSUME ChainInit PROVE CInv OBVIOUS
<1> USE ChainAssumption, ServerAssumption
<1>1. Shapes BY DEF ChainInit, Init, Shapes
<1>2. Mail
  <2>1. \A S : <<>> \in Seq(S) OBVIOUS
  <2> QED BY <2>1, Zenon DEF ChainInit, Init, Mail
<1>3. Unsent /\ Incomplete /\ Numbered
  BY DEF ChainInit, Init, Unsent, NotYet, Incomplete, Numbered
<1> QED BY <1>1, <1>2, <1>3 DEF CInv

LEMMA Chained == Spec => []CInv
  BY InitKeeps, NextKeeps, Inductive, RelayingInv, PTL DEF Spec
-----------------------------------------------------------------------------
\* The steps of AnswerStream that the processes make.
Stutters == UNCHANGED <<q, heard, made, whole>>

LEMMA Grows ==
    ASSUME CInv, NEW r \in Requests, made' = [made EXCEPT ![r] = made[r] + 1], made[r] < MaxChunks,
           r \notin whole, r \in Questions => q[r] # "new", UNCHANGED <<q, heard, whole>>
    PROVE  [Stream!SNext]_Stream!svars
<1>1. CASE r \in Questions
  <2>1. [p \in Questions |-> p \in whole]' = [p \in Questions |-> p \in whole] OBVIOUS
  <2>2. ~[p \in Questions |-> p \in whole][r] BY <1>1, Zenon
  <2>3. [p \in Questions |-> made[p]]' = [[p \in Questions |-> made[p]] EXCEPT ![r] = @ + 1]
    BY <1>1, ChainAssumption DEF CInv, Shapes
  <2>4. Stream!Produce(r) BY <1>1, <2>1, <2>2, <2>3 DEF Stream!Produce
  <2> QED BY <1>1, <2>4 DEF Stream!SNext
<1>2. CASE r \notin Questions
  <2>1. [p \in Questions |-> made[p]]' = [p \in Questions |-> made[p]]
    BY <1>2, ChainAssumption DEF CInv, Shapes
  <2> QED BY <2>1 DEF Stream!svars
<1> QED BY <1>1, <1>2

LEMMA WholeGrows ==
    ASSUME NEW r \in Questions, whole' = whole \cup {r}
    PROVE  [p \in Questions |-> p \in whole]'
           = [[p \in Questions |-> p \in whole] EXCEPT ![r] = TRUE]
<1> DEFINE f == [p \in Questions |-> p \in whole']
           g == [[p \in Questions |-> p \in whole] EXCEPT ![r] = TRUE]
<1>1. ASSUME NEW p \in Questions PROVE f[p] = g[p]
  <2>1. CASE p = r BY <2>1
  <2>2. CASE p # r
    <3>1. (p \in whole') = (p \in whole) BY <2>2
    <3> QED BY <2>2, <3>1
  <2> QED BY <2>1, <2>2
<1> QED BY <1>1, Zenon

LEMMA Wholes ==
    ASSUME NEW r, whole' = whole \cup {r}, made[r] > 0, UNCHANGED <<q, heard, made>>
    PROVE  [Stream!SNext]_Stream!svars
<1>1. CASE r \in Questions
  <2>1. [p \in Questions |-> p \in whole]' = [[p \in Questions |-> p \in whole] EXCEPT ![r] = TRUE]
    BY <1>1, WholeGrows
  <2>2. Stream!Complete(r) BY <1>1, <2>1 DEF Stream!Complete
  <2> QED BY <1>1, <2>2 DEF Stream!SNext
<1>2. CASE r \notin Questions
  <2>1. [p \in Questions |-> p \in whole]' = [p \in Questions |-> p \in whole]
    <3>1. \A p \in Questions : (p \in whole') = (p \in whole) BY <1>2
    <3> QED BY <3>1, Zenon
  <2> QED BY <2>1 DEF Stream!svars
<1> QED BY <1>1, <1>2

LEMMA Still == Stutters => [Stream!SNext]_Stream!svars
  BY DEF Stutters, Stream!svars

LEMMA ClientStreams ==
    ASSUME CInv, ClientSide
    PROVE  [Stream!SNext]_Stream!svars
<1> USE ChainAssumption DEF serverVars, madeVars, queryVars
<1>1. ASSUME NEW r \in Questions, Query(r) PROVE Stream!PutQuery(r)
  BY <1>1 DEF Query, Stream!PutQuery
<1>2. ASSUME NEW r \in Questions, QueryReceives(r)
      PROVE  Stream!Hear(r) \/ Stream!Succeed(r) \/ Stream!Fail(r)
  <2> DEFINE e == Head(events[r])
  <2>1. e \in Sound(r)
    <3>1. events[r] \in Seq(Sound(r)) /\ events[r] # <<>>
      BY <1>2 DEF QueryReceives, CInv, Mail
    <3> QED BY <3>1
  <2>2. UNCHANGED <<made, whole>> /\ q[r] = "asked" BY <1>2 DEF QueryReceives
  <2>3. CASE /\ e.type = "chunk" /\ e.seq = heard[r]
             /\ heard' = [heard EXCEPT ![r] = @ + 1] /\ UNCHANGED q
    <3>1. heard[r] < made[r] BY <2>1, <2>3 DEF Sound
    <3>2. Stream!Hear(r) BY <2>2, <2>3, <3>1 DEF Stream!Hear
    <3> QED BY <3>2
  <2>4. CASE /\ e.type = "finished" /\ e.answer = heard[r]
             /\ q' = [q EXCEPT ![r] = "ok"] /\ UNCHANGED heard
    <3>1. (r \in whole) = TRUE /\ heard[r] = made[r] BY <2>1, <2>4 DEF Sound
    <3>2. Stream!Succeed(r) BY <2>2, <2>4, <3>1 DEF Stream!Succeed
    <3> QED BY <3>2
  <2>5. CASE q' = [q EXCEPT ![r] = "failed"] /\ UNCHANGED heard
    BY <2>2, <2>5 DEF Stream!Fail
  <2> QED BY <1>2, <2>3, <2>4, <2>5 DEF QueryReceives
<1>3. ASSUME NEW r \in Questions, QueryTimesOut(r) PROVE Stream!Fail(r)
  BY <1>3 DEF QueryTimesOut, Stream!Fail
<1>4. ASSUME NEW r \in Questions, Cancel(r) PROVE Stutters
  BY <1>4 DEF Cancel, Stutters
<1> QED BY <1>1, <1>2, <1>3, <1>4, Still DEF ClientSide, Stream!SNext

LEMMA RelayStreams ==
    ASSUME CInv, Relaying, RelayStep
    PROVE  [Stream!SNext]_Stream!svars
<1> USE ChainAssumption, ServerAssumption DEF Relaying, serverVars, clientVars, modelVars,
      ctlVars, madeVars, queryVars
<1>1. ASSUME NEW r \in Questions, RelayBegins(r) PROVE Stutters BY <1>1 DEF RelayBegins, Stutters
<1>2. CASE RelayFindsNothing
  <2>1. rcur \in Questions /\ made[rcur] = 0 /\ rcur \notin whole /\ q[rcur] # "new"
    BY <1>2 DEF RelayFindsNothing, CInv, Unsent, NotYet
  <2>2. made' = [made EXCEPT ![rcur] = made[rcur] + 1] /\ UNCHANGED <<q, heard, whole>>
    BY <1>2, <2>1 DEF RelayFindsNothing
  <2>3. made[rcur] < MaxChunks BY <2>1
  <2> QED BY <2>1, <2>2, <2>3, Grows
<1>3. CASE RelayEndsNothing
  <2>1. made[rcur] > 0 BY <1>3 DEF RelayEndsNothing, CInv, Numbered
  <2> QED BY <1>3, <2>1, Wholes DEF RelayEndsNothing
<1>4. CASE RelayAsks BY <1>4, Still DEF RelayAsks, Submit, Stutters
<1>5. CASE RelayReceives BY <1>5, Still DEF RelayReceives, Take, Stutters
<1>6. CASE RelayTimesOut BY <1>6, Still DEF RelayTimesOut, Stutters
<1>7. CASE RelayHangsUp BY <1>7, Still DEF RelayHangsUp, HangUp, Stutters
<1>8. CASE RelayEnds BY <1>8, Still DEF RelayEnds, Stutters
<1>9. CASE RelayFails BY <1>9, Still DEF RelayFails, Stutters
<1> QED BY <1>1, <1>2, <1>3, <1>4, <1>5, <1>6, <1>7, <1>8, <1>9, Still DEF RelayStep

LEMMA CancelStreams == ASSUME RelayControl PROVE [Stream!SNext]_Stream!svars
<1> USE DEF serverVars, clientVars, modelVars, madeVars, queryVars
<1>1. Stutters BY DEF RelayControl, RelayCompares, RelayAnswers, SendCancel, Stutters
<1> QED BY <1>1, Still

LEMMA ServerStreams ==
    ASSUME CInv, IInv, Server
    PROVE  [Stream!SNext]_Stream!svars
<1> USE ChainAssumption, ServerAssumption DEF clientVars, modelVars, ctlVars, madeVars
<1>0. UNCHANGED <<q, heard>> BY DEF Server, chainVars, queryVars
<1>1. CASE Chunk
  <2>1. cur \in Requests /\ cur \notin whole /\ kind[cur] # "new"
    BY <1>1 DEF Chunk, CInv, Incomplete, IInv, Domains, Serving
  <2>2. cur \in Questions => q[cur] # "new" BY <2>1 DEF CInv, Unsent, NotYet
  <2> QED BY <1>0, <1>1, <2>1, <2>2, Grows DEF Chunk
<1>2. CASE EndRun
  <2>1. UNCHANGED made /\ (UNCHANGED whole \/ (made[cur] > 0 /\ whole' = whole \cup {cur}))
    BY <1>2 DEF EndRun
  <2> QED BY <1>0, <2>1, Wholes, Still DEF Stutters
<1>3. CASE ControlStep
  BY <1>0, <1>3, Still DEF ControlStep, Compare, LookRunning, RaiseFlag, Abort, ExitControl,
        Stutters
<1>4. CASE MainStep /\ ~Chunk /\ ~EndRun
  <2>1. UNCHANGED <<made, whole>>
    BY <1>4 DEF MainStep, Serve, SetActive, StartRun, Conclude, Reply, ClearActive, Apologize,
                LeaveLoop, JoinControl
  <2> QED BY <1>0, <2>1, Still DEF Stutters
<1>5. CASE \/ Signal \/ \E r \in Questions : LoseTail(r)
          \/ \E r \in Requests \ Questions : OtherClient(r)
  BY <1>0, <1>5, Still DEF Signal, LoseTail, OtherClient, Submit, SendCancel, Stutters
<1> QED BY <1>1, <1>2, <1>3, <1>4, <1>5 DEF Server, ServerStep

(***************************************************************************)
(* For any number of questions, of other clients and of parts, the chain   *)
(* of two servers is a streamed question (AnswerStream): the handler hears *)
(* a prefix of one generation, and query() succeeds only when it has heard *)
(* all of a whole one.  (src/rag_stream_client.cpp:101-150,                *)
(* python/rag/python_rag_server.py, src/llm_stream_service.cpp.)           *)
(***************************************************************************)
THEOREM Implements == Spec => ImplementsAnswerStream
<1>1. ChainInit => Stream!SInit
  <2> SUFFICES ASSUME ChainInit PROVE Stream!SInit
    OBVIOUS
  <2>1. \A r \in Questions : r \in Requests
    BY ChainAssumption
  <2>2. whole = {}
    BY DEF ChainInit, Init
  <2>3. \A r \in Questions : (r \in whole) = FALSE
    BY <2>2
  <2> QED BY <2>1, <2>3, Zenon DEF ChainInit, Init, Stream!SInit
<1>2. CInv /\ IInv /\ Relaying /\ [Next]_vars => [Stream!SNext]_Stream!svars
  <2>1. CASE UNCHANGED vars
    BY <2>1, Still DEF vars, serverVars, madeVars, chainVars, queryVars, Stutters
  <2> QED BY <2>1, ClientStreams, RelayStreams, ServerStreams, CancelStreams DEF Next
<1> QED
  BY <1>1, <1>2, Chained, Inductive, RelayingInv, PTL
  DEF Spec, ImplementsAnswerStream, Stream!SSpec
=============================================================================
