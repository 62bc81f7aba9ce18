------------------------ MODULE VoicePipelineProofs ------------------------
(***************************************************************************)
(* What flows through the pipeline of VoiceAssistant, for any number of    *)
(* requests, sentences, interrupts and threads and any queue capacities:   *)
(* the answers do not leak into each other, the sentences of an answer are *)
(* played in order and none is skipped, and a request that is reported as  *)
(* ok has been spoken to its end.                                          *)
(*                                                                         *)
(* The argument is about the pipeline as a whole: the playback worker's    *)
(* task, the audio queue, the speech worker's task and the sentence queue  *)
(* are one line, in which a task stands behind every task that was made    *)
(* before it.  Workers and interrupts only move tasks along that line or   *)
(* take them out of it; processText() alone puts one at its end.           *)
(***************************************************************************)
EXTENDS VoiceAssistantProofs

USE ConstantsAssumption DEF Requests, Threads, NoRequest

(***************************************************************************)
(* The order in which tasks are made: request after request, and in a      *)
(* request its sentences and then the end mark, whose seq is 0.            *)
(***************************************************************************)
Before(t, u) == \/ t.req < u.req
                \/ t.req = u.req /\ t.seq # 0 /\ (u.seq = 0 \/ t.seq < u.seq)
Sorted(s) == \A m, n \in 1 .. Len(s) : m < n => Before(s[m], s[n])

(***************************************************************************)
(* A task is in the pipeline wherever one of the four holders has it.  It  *)
(* is Unheard until the player has been started on it (line 457).          *)
(***************************************************************************)
InPipe(t) == Holds(sentenceQ, t) \/ ttsTask = t \/ Holds(audioQ, t) \/ playTask = t
Unheard(t) == \/ Holds(sentenceQ, t) \/ ttsTask = t \/ Holds(audioQ, t)
              \/ playTask = t /\ play \in {"check", "play"}
Absent(r) == \A t \in Task : InPipe(t) => t.req # r

(***************************************************************************)
(* The pipeline is one line: a task in front of another was made first.    *)
(***************************************************************************)
Ordered ==
    /\ Sorted(sentenceQ) /\ Sorted(audioQ)
    /\ \A t, u \in Task :
          /\ ttsTask = t /\ Holds(sentenceQ, u) => Before(t, u)
          /\ Holds(audioQ, t) /\ (Holds(sentenceQ, u) \/ ttsTask = u) => Before(t, u)
          /\ playTask = t /\ (Holds(sentenceQ, u) \/ ttsTask = u \/ Holds(audioQ, u))
                => Before(t, u)

(***************************************************************************)
(* Running: processText() is between taking its request and pushing the    *)
(* end mark.  Pushed(r) counts the sentences of r that it has pushed: the  *)
(* rest of the current burst is made but not pushed yet.                   *)
(***************************************************************************)
Running == proc \notin {"idle", "wait", "clear"}
Pushed(r) == made[r] - (IF r = req THEN burst ELSE 0)

(***************************************************************************)
(* What is in the pipeline has been made, and no end mark of the current   *)
(* request is there before it is pushed.                                   *)
(***************************************************************************)
Placed == \A t \in Task : InPipe(t) => /\ t.req <= req
                                       /\ t.seq <= Pushed(t.req)
                                       /\ t.req = req /\ Running => t.seq # 0
(***************************************************************************)
(* Nothing has happened to the requests that are still to come.            *)
(***************************************************************************)
Future == /\ \A r \in Requests : r > req => made[r] = 0 /\ ~completed[r] /\ heard[r] = <<>>
          /\ active <= req
          /\ \A i \in Threads : target[i] <= req
(***************************************************************************)
(* An interrupt has failed its request before it completes it (lines       *)
(* 567-570) and long before it clears a queue.                             *)
(***************************************************************************)
Aimed == \A i \in Threads :
            intr[i] \in {"complete", "clearS", "clearA", "flag", "cancel"} /\ target[i] # NoRequest
                => failed[target[i]]
(***************************************************************************)
(* A request that is complete and not failed left the pipeline by its end  *)
(* mark, and that was the last of it.                                      *)
(***************************************************************************)
Finished == \A r \in Requests : completed[r] /\ ~failed[r] => Absent(r) /\ ~(r = req /\ Running)
(***************************************************************************)
(* What is left of an older request has failed.                            *)
(***************************************************************************)
Past == \A r \in Requests :
            r < req \/ (r = req /\ proc \in {"idle", "clear"}) => failed[r] \/ Absent(r)

(***************************************************************************)
(* Sentences are heard in their order, and what is still to be heard comes *)
(* after what was heard.                                                   *)
(***************************************************************************)
HeardOnce == \A r \in Requests :
    /\ \A m, n \in 1 .. Len(heard[r]) : m < n => heard[r][m] < heard[r][n]
    /\ \A n \in 1 .. Len(heard[r]) : 1 <= heard[r][n] /\ heard[r][n] <= Pushed(r)
    /\ \A t \in Task : Unheard(t) /\ t.req = r /\ t.seq # 0 =>
          \A n \in 1 .. Len(heard[r]) : heard[r][n] < t.seq
(***************************************************************************)
(* Of a request that has not failed and was not robbed by an interrupt     *)
(* aimed elsewhere, every pushed sentence was heard or is still to be.     *)
(***************************************************************************)
NoneSkipped == \A r \in Requests : ~failed[r] /\ r \notin robbed =>
    /\ heard[r] = [n \in 1 .. Len(heard[r]) |-> n]
    /\ \A k \in 1 .. Pushed(r) : k > Len(heard[r]) => Unheard([req |-> r, seq |-> k])
(***************************************************************************)
(* Every sentence that was played to its end is counted, but for the one   *)
(* between play() and its incrementSpokenCount().                          *)
(***************************************************************************)
Counted == \A r \in Requests : ~failed[r] =>
    spoken[r] + (IF play \in {"writing", "played"} /\ playTask.req = r THEN 1 ELSE 0)
        = Len(heard[r])
(***************************************************************************)
(* What is reported as ok is over, and all of it was heard and counted.    *)
(***************************************************************************)
Reported == \A r \in Requests : result[r] = "ok" =>
    /\ r < req \/ (r = req /\ proc \in {"idle", "clear"})
    /\ Absent(r)
    /\ r \notin robbed => heard[r] = [n \in 1 .. made[r] |-> n] /\ spoken[r] = made[r]

\* Queues: what Head, Tail and Append do to their members and their order.
LEMMA BeforeTail ==
    ASSUME NEW q \in Seq(Task), q # <<>>
    PROVE  /\ Holds(q, Head(q))
           /\ \A t : Holds(Tail(q), t) => Holds(q, t)
<1>1. 1 \in 1 .. Len(q) /\ q[1] = Head(q)
  OBVIOUS
<1>2. \A n \in 1 .. Len(Tail(q)) : n + 1 \in 1 .. Len(q) /\ Tail(q)[n] = q[n + 1]
  OBVIOUS
<1>3. ASSUME NEW t, Holds(Tail(q), t) PROVE Holds(q, t)
  <2>1. PICK n \in 1 .. Len(Tail(q)) : Tail(q)[n] = t
    BY <1>3 DEF Holds
  <2>2. n + 1 \in 1 .. Len(q) /\ q[n + 1] = t
    BY <1>2, <2>1
  <2>. QED  BY <2>2 DEF Holds
<1>. QED  BY <1>1, <1>3 DEF Holds

LEMMA SortedTail ==
    ASSUME NEW q \in Seq(Task), q # <<>>, Sorted(q)
    PROVE  Sorted(Tail(q)) /\ \A t : Holds(Tail(q), t) => Before(Head(q), t)
<1>1. \A n \in 1 .. Len(Tail(q)) : n + 1 \in 1 .. Len(q) /\ Tail(q)[n] = q[n + 1]
  OBVIOUS
<1>2. Sorted(Tail(q))
  <2> SUFFICES ASSUME NEW m \in 1 .. Len(Tail(q)), NEW n \in 1 .. Len(Tail(q)), m < n
               PROVE  Before(Tail(q)[m], Tail(q)[n])
    BY DEF Sorted
  <2>1. m + 1 < n + 1
    OBVIOUS
  <2>. QED  BY <1>1, <2>1 DEF Sorted
<1>3. ASSUME NEW t, Holds(Tail(q), t) PROVE Before(Head(q), t)
  <2>1. PICK n \in 1 .. Len(Tail(q)) : Tail(q)[n] = t
    BY <1>3 DEF Holds
  <2>2. 1 \in 1 .. Len(q) /\ q[1] = Head(q) /\ 1 < n + 1
    OBVIOUS
  <2>. QED  BY <1>1, <2>1, <2>2 DEF Sorted
<1>. QED  BY <1>2, <1>3

LEMMA SortedAppend ==
    ASSUME NEW q \in Seq(Task), NEW s \in Task, Sorted(q),
           \A t \in Task : Holds(q, t) => Before(t, s)
    PROVE  Sorted(Append(q, s))
<1>1. /\ Len(Append(q, s)) = Len(q) + 1
      /\ Append(q, s)[Len(q) + 1] = s
      /\ \A n \in 1 .. Len(q) : Append(q, s)[n] = q[n] /\ q[n] \in Task /\ Holds(q, q[n])
  BY DEF Holds
<1>2. ASSUME NEW m \in 1 .. Len(q) + 1, NEW n \in 1 .. Len(q) + 1, m < n
      PROVE  Before(Append(q, s)[m], Append(q, s)[n])
  <2>1. CASE n = Len(q) + 1
    <3>1. m \in 1 .. Len(q)
      BY <1>2, <2>1
    <3>. QED  BY <1>1, <2>1, <3>1
  <2>2. CASE n # Len(q) + 1
    <3>1. m \in 1 .. Len(q) /\ n \in 1 .. Len(q)
      BY <1>2, <2>2
    <3>. QED  BY <1>1, <1>2, <3>1 DEF Sorted
  <2>. QED  BY <2>1, <2>2
<1>. QED  BY <1>1, <1>2 DEF Sorted

LEMMA EmptyHolds == Sorted(<<>>) /\ \A t : ~Holds(<<>>, t)
  BY DEF Sorted, Holds
-----------------------------------------------------------------------------
(***************************************************************************)
(* The ways of a task.  Whatever a thread does, the pipeline loses tasks,  *)
(* moves one task from a holder to the next, or takes in a new one at its  *)
(* end; each of the moves keeps it in order and brings in nothing else.    *)
(***************************************************************************)
Lose == /\ sentenceQ' \in {sentenceQ, <<>>} /\ audioQ' \in {audioQ, <<>>}
        /\ ttsTask' \in {ttsTask, NoTask} /\ playTask' \in {playTask, NoTask}
TakeS == /\ sentenceQ # <<>> /\ ttsTask = NoTask
         /\ ttsTask' = Head(sentenceQ) /\ sentenceQ' = Tail(sentenceQ)
         /\ UNCHANGED <<audioQ, playTask>>
GiveA == /\ ttsTask # NoTask
         /\ audioQ' = Append(audioQ, ttsTask) /\ ttsTask' = NoTask
         /\ UNCHANGED <<sentenceQ, playTask>>
TakeA == /\ audioQ # <<>> /\ playTask = NoTask
         /\ playTask' = Head(audioQ) /\ audioQ' = Tail(audioQ)
         /\ UNCHANGED <<sentenceQ, ttsTask>>
GiveS(s) == sentenceQ' = Append(sentenceQ, s) /\ UNCHANGED <<audioQ, ttsTask, playTask>>

Forward == Lose \/ TakeS \/ GiveA \/ TakeA

LEMMA NoTaskIsNoTask == NoTask \notin Task
  BY DEF NoTask, Task

LEMMA LoseOrdered ==
    ASSUME Shape, Ordered, Lose
    PROVE  Ordered' /\ \A t \in Task : InPipe(t)' => InPipe(t)
<1>1. Sorted(sentenceQ)' /\ Sorted(audioQ)'
  BY EmptyHolds DEF Lose, Ordered, Sorted
<1>2. \A t \in Task : /\ Holds(sentenceQ', t) => Holds(sentenceQ, t)
                      /\ Holds(audioQ', t) => Holds(audioQ, t)
                      /\ ttsTask' = t => ttsTask = t
                      /\ playTask' = t => playTask = t
  BY EmptyHolds, NoTaskIsNoTask DEF Lose
<1>3. \A t, s : Holds(s, t)' <=> Holds(s', t')
  BY DEF Holds
<1>. QED  BY <1>1, <1>2 DEF Ordered, InPipe, Holds

LEMMA TakeSOrdered ==
    ASSUME Shape, Ordered, TakeS
    PROVE  Ordered' /\ \A t \in Task : InPipe(t)' => InPipe(t)
<1>1. sentenceQ \in Seq(Task) /\ sentenceQ # <<>>
  BY DEF TakeS, Shape, TypeOK, QueueTypeOK
<1>2. /\ Sorted(sentenceQ') /\ Sorted(audioQ')
      /\ \A t : Holds(sentenceQ', t) => Before(ttsTask', t) /\ Holds(sentenceQ, t)
      /\ Holds(sentenceQ, ttsTask')
  BY <1>1, SortedTail, BeforeTail DEF TakeS, Ordered
<1>3. \A t \in Task : ~(ttsTask = t)
  BY NoTaskIsNoTask DEF TakeS
<1> QED BY <1>2, <1>3 DEF TakeS, Ordered, InPipe, Sorted, Holds

LEMMA TakeAOrdered ==
    ASSUME Shape, Ordered, TakeA
    PROVE  Ordered' /\ \A t \in Task : InPipe(t)' => InPipe(t)
<1>1. audioQ \in Seq(Task) /\ audioQ # <<>>
  BY DEF TakeA, Shape, TypeOK, QueueTypeOK
<1>2. /\ Sorted(sentenceQ') /\ Sorted(audioQ')
      /\ \A t : Holds(audioQ', t) => Before(playTask', t) /\ Holds(audioQ, t)
      /\ Holds(audioQ, playTask')
  BY <1>1, SortedTail, BeforeTail DEF TakeA, Ordered
<1>3. \A t \in Task : ~(playTask = t)
  BY NoTaskIsNoTask DEF TakeA
<1> QED BY <1>2, <1>3 DEF TakeA, Ordered, InPipe, Sorted, Holds

LEMMA GiveAOrdered ==
    ASSUME Shape, Ordered, GiveA
    PROVE  Ordered' /\ \A t \in Task : InPipe(t)' => InPipe(t)
<1>1. audioQ \in Seq(Task) /\ ttsTask \in Task
  BY DEF GiveA, Shape, TypeOK, QueueTypeOK, WorkerTypeOK
<1>2. Sorted(audioQ') /\ \A t : Holds(audioQ', t) <=> Holds(audioQ, t) \/ ttsTask = t
  <2>1. \A t \in Task : Holds(audioQ, t) => Before(t, ttsTask)
    BY <1>1 DEF Ordered
  <2>2. Sorted(Append(audioQ, ttsTask))
    BY <1>1, <2>1, SortedAppend DEF Ordered
  <2>3. \A t : Holds(Append(audioQ, ttsTask), t) <=> Holds(audioQ, t) \/ ttsTask = t
    BY <1>1, HoldsAppend
  <2>. QED  BY <2>2, <2>3 DEF GiveA
<1>3. \A t \in Task : ~(ttsTask' = t)
  BY NoTaskIsNoTask DEF GiveA
<1> QED BY <1>1, <1>2, <1>3 DEF GiveA, Ordered, InPipe, Sorted, Holds

LEMMA ForwardOrdered ==
    ASSUME Shape, Ordered, Forward
    PROVE  Ordered' /\ \A t \in Task : InPipe(t)' => InPipe(t)
  BY LoseOrdered, TakeSOrdered, TakeAOrdered, GiveAOrdered DEF Forward

LEMMA GiveSOrdered ==
    ASSUME Shape, Ordered, NEW s \in Task, \A t \in Task : InPipe(t) => Before(t, s), GiveS(s)
    PROVE  Ordered' /\ \A t \in Task : InPipe(t)' <=> InPipe(t) \/ t = s
<1>1. sentenceQ \in Seq(Task)
  BY DEF Shape, TypeOK, QueueTypeOK
<1>2. Sorted(sentenceQ') /\ \A t : Holds(sentenceQ', t) <=> Holds(sentenceQ, t) \/ s = t
  <2>1. Sorted(Append(sentenceQ, s))
    BY <1>1, SortedAppend DEF Ordered, InPipe
  <2>2. \A t : Holds(Append(sentenceQ, s), t) <=> Holds(sentenceQ, t) \/ s = t
    BY <1>1, HoldsAppend
  <2>. QED  BY <2>1, <2>2 DEF GiveS
<1> QED BY <1>2 DEF GiveS, Ordered, InPipe, Sorted, Holds

\* Which steps move the pipeline, and how.
NewSentence == [req |-> req, seq |-> made[req] - burst + 1]
PushSentence == ProcPush /\ ~sentenceClosed
PushEnd == ProcEnd /\ ~sentenceClosed

LEMMA Flows ==
    ASSUME Shape, [Next]_vars
    PROVE  Forward \/ PushSentence \/ PushEnd
<1> USE DEF queueVars, ttsVars, playVars
<1>0. UNCHANGED <<sentenceQ, audioQ, ttsTask, playTask>> => Forward
  BY DEF Forward, Lose
<1>1. CASE UNCHANGED vars \/ Start \/ ProcStart
  BY <1>0, <1>1 DEF vars, Start, ProcStart
<1>2. CASE Process
  BY <1>0, <1>2 DEF Process, ProcSetActive, ProcChunk, ProcPush, ProcQueryReturns, ProcFlush,
     ProcEnd, ProcWait, ProcReturn, PushSentence, PushEnd
<1>3. CASE Tts
  <2>1. CASE TtsPop
    BY <2>1 DEF Forward, Lose, TakeS, TtsPop, Shape, ControlOK, TasksInPlace
  <2>2. CASE TtsSynth \/ TtsRecheck
    BY <2>2 DEF Forward, Lose, TtsSynth, TtsRecheck, TtsDrop
  <2>3. CASE TtsPush
    BY <2>3 DEF Forward, Lose, GiveA, TtsPush, TtsDrop, Shape, ControlOK, TasksInPlace
  <2>. QED  BY <1>3, <2>1, <2>2, <2>3 DEF Tts
<1>4. CASE Play
  <2>1. CASE PlayPop
    BY <2>1 DEF Forward, Lose, TakeA, PlayPop, Shape, ControlOK, TasksInPlace
  <2>2. CASE PlayComplete \/ PlayCheck \/ PlayStart \/ PlayEnd \/ PlayCount
    BY <2>2 DEF Forward, Lose, PlayComplete, PlayCheck, PlayStart, PlayEnd, PlayCount, PlayNext
  <2>. QED  BY <1>4, <2>1, <2>2 DEF Play
<1>5. CASE Interrupting
  <2>1. ASSUME NEW i \in Threads, ClearSentences(i) \/ ClearAudio(i) PROVE Forward
    BY <2>1 DEF Forward, Lose, ClearSentences, ClearAudio
  <2>. QED
    BY <1>0, <1>5, <2>1 DEF Interrupting, Stop, ReadActive, StopPlayback, Call, Shutdown,
       CloseSentences, CloseAudio, JoinTts, JoinPlayback, Interrupt, IntrRead, IntrFail,
       IntrComplete, StopPlayer, Cancel
<1>. QED  BY <1>1, <1>2, <1>3, <1>4, <1>5 DEF Next, Interrupting

\* Pushed counts only upwards, by one with every sentence pushed.
LEMMA Making ==
    ASSUME Shape, Future, [Next]_vars, NEW r \in Requests
    PROVE  /\ Pushed(r) \in Nat /\ Pushed(r)' \in Nat /\ Pushed(r) <= Pushed(r)'
           /\ ~(ProcPush /\ r = req) => Pushed(r)' = Pushed(r)
           /\ PushSentence /\ r = req => Pushed(r)' = Pushed(r) + 1
<1> USE DEF Shape, ControlOK, RequestInPlace, TypeOK, ProcessTypeOK, Pushed
<1>1. Pushed(r) \in Nat
  OBVIOUS
<1>2. CASE UNCHANGED <<proc, req, burst, made>>
  BY <1>1, <1>2 DEF ProcPush, PushSentence
<1>3. CASE Start
  BY <1>1, <1>3 DEF Start, procVars, ProcPush, PushSentence
<1>4. CASE ProcStart
  BY <1>1, <1>4 DEF ProcStart, Future, ProcPush, PushSentence
<1>5. CASE ProcChunk \/ ProcQueryReturns \/ ProcFlush
  <2>1. req \in Requests /\ burst = 0 /\ ~ProcPush /\ req' = req
    BY <1>5 DEF ProcChunk, ProcQueryReturns, ProcFlush, ProcPush
  <2>2. \/ burst' = 0 /\ made' = made
        \/ \E k \in 0 .. MaxSentences : \E next, otherwise : Yield(k, next, otherwise)
    BY <1>5, <2>1 DEF ProcChunk, ProcQueryReturns, ProcFlush
  <2>3. \A k \in 0 .. MaxSentences : \A next, otherwise :
           Yield(k, next, otherwise) => burst' = k /\ made' = [made EXCEPT ![req] = @ + k]
    BY DEF Yield
  <2>4. Pushed(r)' = Pushed(r)
    BY <2>1, <2>2, <2>3
  <2>. QED  BY <1>1, <2>1, <2>4 DEF PushSentence
<1>6. CASE ProcPush
  BY <1>1, <1>6 DEF ProcPush, PushSentence
<1>7. CASE ProcSetActive \/ ProcEnd \/ ProcWait \/ ProcReturn
  BY <1>1, <1>7 DEF ProcSetActive, ProcEnd, ProcWait, ProcReturn, ProcPush, PushSentence
<1>. QED  BY <1>2, <1>3, <1>4, <1>5, <1>6, <1>7, Frames DEF Process

\* The way of processText().
\* The course of processText() from one request to the next.
LEMMA Going ==
    ASSUME Shape, [Next]_vars
    PROVE  /\ ProcStart \/ UNCHANGED req
           /\ ~ProcStart /\ Running' => Running
           /\ Running /\ ~ProcEnd => Running'
           /\ ProcEnd => Running /\ proc' = "wait"
           /\ proc' \in {"idle", "clear"} => ProcStart \/ ProcWait \/ proc \in {"idle", "clear"}
           /\ ProcStart => proc = "idle" /\ req' = req + 1 /\ req' \in Requests
                           /\ UNCHANGED <<sentenceQ, audioQ, ttsTask, playTask, play>>
           /\ proc = "idle" /\ proc' # "idle" => ProcStart
<1> USE DEF Running, Shape, TypeOK, ProcessTypeOK, procVars
<1>1. CASE UNCHANGED <<proc, req, burst, made>>
  BY <1>1 DEF ProcStart, ProcEnd, Running
<1>2. CASE Start
  BY <1>2 DEF Start, ProcEnd, ProcStart
<1>3. CASE ProcStart
  BY <1>3 DEF ProcStart, ProcEnd, queueVars, ttsVars, playVars
<1>4. CASE Process
  <2>1. ~ProcStart
    BY <1>4 DEF Process, ProcStart, ProcSetActive, ProcChunk, ProcPush, ProcQueryReturns, ProcFlush,
       ProcEnd, ProcWait, ProcReturn
  <2>. QED
    BY <1>4, <2>1 DEF Process, ProcSetActive, ProcChunk, ProcPush, AfterPush, ProcQueryReturns,
       Yield,
       ProcFlush, ProcEnd, ProcWait, ProcReturn
<1>. QED  BY <1>1, <1>2, <1>3, <1>4, Frames

\* What processText() pushes comes after everything in the pipeline.
LEMMA Pushes ==
    ASSUME Shape, Placed, PushSentence \/ PushEnd
    PROVE  \E s \in Task : /\ GiveS(s) /\ s.req = req /\ req' = req
                           /\ \A t \in Task : InPipe(t) => Before(t, s)
                           /\ PushSentence => s.seq = Pushed(req) + 1 /\ s = NewSentence
                           /\ PushEnd => s = EndOf(req)
<1> USE DEF Shape, ControlOK, RequestInPlace, TypeOK, ProcessTypeOK
<1>1. req \in Requests /\ Running /\ made[req] \in 0 .. MaxSentences
  BY DEF PushSentence, PushEnd, ProcPush, ProcEnd, Running
<1>2. CASE PushSentence
  <2>1. burst \in 1 .. made[req]
    BY <1>1, <1>2 DEF PushSentence, ProcPush
  <2>2. NewSentence \in Task /\ NewSentence.seq = Pushed(req) + 1 /\ NewSentence.req = req
    BY <1>1, <2>1 DEF NewSentence, Task, Pushed
  <2>3. GiveS(NewSentence) /\ req' = req
    BY <1>2 DEF PushSentence, ProcPush, GiveS, NewSentence, ttsVars, playVars
  <2>4. ASSUME NEW t \in Task, InPipe(t) PROVE Before(t, NewSentence)
    <3>1. t.req \in Nat /\ t.seq \in Nat /\ Pushed(req) \in Nat
      BY <1>1, <2>1 DEF Task, Pushed
    <3>2. t.req <= req /\ t.seq <= Pushed(t.req) /\ (t.req = req => t.seq # 0)
      BY <1>1, <2>4 DEF Placed
    <3>3. CASE t.req = req
      <4>1. t.seq < NewSentence.seq
        BY <2>2, <3>1, <3>2, <3>3
      <4>. QED  BY <2>2, <3>2, <3>3, <4>1 DEF Before
    <3>4. CASE t.req < req
      BY <2>2, <3>4 DEF Before
    <3>. QED  BY <1>1, <3>1, <3>2, <3>3, <3>4
  <2>. QED
    <3>1. ~PushEnd
      BY <1>2 DEF PushSentence, PushEnd, ProcPush, ProcEnd
    <3>. QED  BY <2>2, <2>3, <2>4, <3>1
<1>3. CASE PushEnd
  <2>1. EndOf(req) \in Task /\ EndOf(req).req = req /\ EndOf(req).seq = 0
    BY <1>1 DEF EndOf, Task
  <2>2. GiveS(EndOf(req)) /\ req' = req
    BY <1>3 DEF PushEnd, ProcEnd, GiveS, ttsVars, playVars
  <2>3. ASSUME NEW t \in Task, InPipe(t) PROVE Before(t, EndOf(req))
    <3>1. t.req \in Nat /\ t.req <= req /\ (t.req = req => t.seq # 0)
      BY <1>1, <2>3 DEF Placed, Task
    <3>. QED  BY <1>1, <2>1, <3>1 DEF Before
  <2>. QED
    <3>1. ~PushSentence
      BY <1>3 DEF PushSentence, PushEnd, ProcPush, ProcEnd
    <3>. QED  BY <2>1, <2>2, <2>3, <3>1
<1>. QED  BY <1>2, <1>3

-----------------------------------------------------------------------------
\* The parts of the invariant about the tasks' places and the requests' states.
LEMMA OrderedNext == ASSUME Shape, Ordered, Placed, [Next]_vars PROVE Ordered'
<1>1. CASE Forward
  BY <1>1, ForwardOrdered
<1>2. CASE PushSentence \/ PushEnd
  BY <1>2, Pushes, GiveSOrdered
<1>. QED  BY <1>1, <1>2, Flows

LEMMA PlacedNext == ASSUME Shape, Ordered, Placed, Future, [Next]_vars PROVE Placed'
<1> SUFFICES ASSUME NEW t \in Task, InPipe(t)'
             PROVE  /\ t.req <= req' /\ t.seq <= Pushed(t.req)'
                    /\ t.req = req' /\ Running' => t.seq # 0
  BY DEF Placed
<1>0. t.req \in Requests /\ t.seq \in Nat /\ req \in Nat
  BY DEF Task, Shape, TypeOK, ProcessTypeOK
<1>1. Pushed(t.req) \in Nat /\ Pushed(t.req)' \in Nat /\ Pushed(t.req) <= Pushed(t.req)'
  BY <1>0, Making
<1>2. CASE InPipe(t)
  BY <1>0, <1>1, <1>2, Going DEF Placed
<1>3. CASE ~InPipe(t) /\ (PushSentence \/ PushEnd)
  <2>1. PICK s \in Task : /\ GiveS(s) /\ s.req = req /\ req' = req
                          /\ \A u \in Task : InPipe(u) => Before(u, s)
                          /\ PushSentence => s.seq = Pushed(req) + 1 /\ s = NewSentence
                          /\ PushEnd => s = EndOf(req)
    BY <1>3, Pushes
  <2>2. t = s
    BY <1>3, <2>1, GiveSOrdered
  <2>3. CASE PushSentence
    <3>1. Pushed(t.req)' = Pushed(t.req) + 1
      BY <1>0, <2>1, <2>2, <2>3, Making
    <3>. QED  BY <1>0, <1>1, <2>1, <2>2, <2>3, <3>1
  <2>4. CASE PushEnd
    <3>1. t.seq = 0 /\ ~Running'
      BY <2>1, <2>2, <2>4, Going DEF EndOf, PushEnd, Running
    <3>. QED  BY <1>0, <1>1, <2>1, <2>2, <3>1
  <2>. QED  BY <1>3, <2>3, <2>4
<1>. QED  BY <1>2, <1>3, Flows, ForwardOrdered

\* A request that has left the pipeline does not come back.
LEMMA AbsentStays ==
    ASSUME Shape, Ordered, Placed, [Next]_vars, NEW r \in Requests, Absent(r), ~(r = req /\ Running)
    PROVE  Absent(r)'
<1>1. CASE Forward
  BY <1>1, ForwardOrdered DEF Absent
<1>2. CASE PushSentence \/ PushEnd
  <2>1. Running
    BY <1>2 DEF PushSentence, PushEnd, ProcPush, ProcEnd, Running
  <2>2. PICK s \in Task : GiveS(s) /\ s.req = req /\ \A t \in Task : InPipe(t) => Before(t, s)
    BY <1>2, Pushes
  <2>. QED  BY <2>1, <2>2, GiveSOrdered DEF Absent
<1>. QED  BY <1>1, <1>2, Flows

\* Who completes a request: a failure, its end mark, or an interrupt.
LEMMA Completes ==
    ASSUME Shape, [Next]_vars, NEW r \in Requests, ~completed[r], completed'[r]
    PROVE  \/ r = req /\ failed'[r]
           \/ ttsTask \in Task /\ ttsTask.req = r /\ failed'[r]
           \/ PlayComplete /\ playTask \in Task /\ playTask.req = r
           \/ \E i \in Threads : intr[i] = "complete" /\ target[i] = r
<1> USE DEF Shape, TypeOK, StateTypeOK, stateVars, CompleteState, FailState
<1>1. CASE UNCHANGED vars \/ Start \/ ProcStart
  BY <1>1 DEF vars, Start, ProcStart
<1>2. CASE Process
  BY <1>2 DEF Process, ProcSetActive, ProcChunk, ProcPush, ProcQueryReturns, ProcFlush,
     ProcEnd, ProcWait, ProcReturn
<1>3. CASE Tts
  BY <1>3 DEF Tts, TtsPop, TtsRecheck, TtsSynth, TtsPush, ControlOK, TasksInPlace, WorkerTypeOK
<1>4. CASE Play
  BY <1>4 DEF Play, PlayPop, PlayComplete, PlayCheck, PlayStart, PlayEnd, PlayCount, ControlOK,
     TasksInPlace, WorkerTypeOK
<1>5. CASE Stop \/ Shutdown
  BY <1>5 DEF Stop, Call, Shutdown, CloseSentences, CloseAudio, JoinTts, JoinPlayback
<1>6. ASSUME NEW i \in Threads, StopPlayback(i) \/ Interrupt(i)
      PROVE  intr[i] = "complete" /\ target[i] = r
  BY <1>6 DEF StopPlayback, ReadActive, Call, Interrupt, IntrRead, IntrFail, IntrComplete,
     ClearSentences, ClearAudio, StopPlayer, Cancel
<1>. QED  BY <1>1, <1>2, <1>3, <1>4, <1>5, <1>6 DEF Next

LEMMA FutureNext == ASSUME Shape, Placed, Future, [Next]_vars PROVE Future'
<1> USE DEF Shape, TypeOK, ProcessTypeOK
<1>0. req <= req' /\ req \in Nat /\ req' \in Nat
  BY Going
<1>1. ASSUME NEW r \in Requests, r > req' PROVE made'[r] = 0 /\ ~completed'[r] /\ heard'[r] = <<>>
  <2>1. r > req /\ made[r] = 0 /\ ~completed[r] /\ heard[r] = <<>>
    BY <1>0, <1>1 DEF Future
  <2>2. \A t \in Task : InPipe(t) => t.req # r
    BY <1>0, <2>1 DEF Placed, Task
  <2>3. ~completed'[r]
    BY <1>0, <2>1, <2>2, Completes DEF InPipe, Future
  <2>4. made'[r] = 0
    <3>1. CASE Start \/ ProcStart
      BY <2>1, <3>1 DEF Start, ProcStart, procVars
    <3>2. CASE Process
      BY <2>1, <3>2 DEF Process, ProcSetActive, ProcChunk, Yield, ProcPush, ProcQueryReturns,
         ProcFlush, ProcEnd, ProcWait, ProcReturn
    <3>. QED  BY <2>1, <3>1, <3>2, Frames
  <2>5. heard'[r] = <<>>
    <3> USE DEF history
    <3>1. CASE UNCHANGED vars \/ Start \/ ProcStart
      BY <2>1, <3>1 DEF vars, Start, ProcStart
    <3>2. CASE Process \/ Tts
      BY <2>1, <3>2 DEF Process, ProcSetActive, ProcChunk, ProcPush, ProcQueryReturns, ProcFlush,
         ProcEnd, ProcWait, ProcReturn, Tts, TtsPop, TtsRecheck, TtsSynth, TtsPush
    <3>3. CASE Play
      <4>1. PlayStart => playTask.req # r
        BY <2>2 DEF PlayStart, InPipe, ControlOK, TasksInPlace, WorkerTypeOK
      <4>. QED
        BY <2>1, <3>3, <4>1 DEF Play, PlayPop, PlayComplete, PlayCheck, PlayStart, PlayEnd,
           PlayCount,
           HistoryTypeOK
    <3>4. CASE Interrupting
      BY <2>1, <3>4 DEF Interrupting, Stop, ReadActive, StopPlayback, Call, Shutdown,
         CloseSentences,
         CloseAudio, JoinTts, JoinPlayback, Interrupt, IntrRead, IntrFail, IntrComplete,
         ClearSentences, ClearAudio, StopPlayer, Cancel
    <3>. QED  BY <3>1, <3>2, <3>3, <3>4 DEF Next, Interrupting
  <2>. QED  BY <2>3, <2>4, <2>5
<1>2. active' <= req' /\ \A i \in Threads : target'[i] <= req'
  <2> USE <1>0 DEF Future, intrVars, procVars, InterruptTypeOK
  <2>1. CASE UNCHANGED vars \/ Start \/ ProcStart
    BY <2>1 DEF vars, Start, ProcStart
  <2>2. CASE Process
    BY <2>2 DEF Process, ProcSetActive, ProcChunk, ProcPush, ProcQueryReturns, ProcFlush,
       ProcEnd, ProcWait, ProcReturn
  <2>3. CASE Tts
    BY <2>3 DEF Tts, TtsPop, TtsRecheck, TtsSynth, TtsPush
  <2>4. CASE Play
    BY <2>4 DEF Play, PlayPop, PlayComplete, PlayCheck, PlayStart, PlayEnd, PlayCount
  <2>5. CASE Interrupting
    BY <2>5 DEF Interrupting, Stop, ReadActive, StopPlayback, Call, Shutdown, CloseSentences,
       CloseAudio, JoinTts, JoinPlayback, Interrupt, IntrRead, IntrFail, IntrComplete,
       ClearSentences, ClearAudio, StopPlayer, Cancel
  <2>. QED  BY <2>1, <2>2, <2>3, <2>4, <2>5 DEF Next, Interrupting
<1>. QED  BY <1>1, <1>2 DEF Future

LEMMA AimedNext == ASSUME Shape, Aimed, [Next]_vars PROVE Aimed'
<1> USE DEF Shape, ControlOK
<1> SUFFICES ASSUME NEW j \in Threads,
                    intr'[j] \in {"complete", "clearS", "clearA", "flag", "cancel"},
                    target'[j] # NoRequest
             PROVE  failed'[target'[j]]
  BY DEF Aimed
<1> USE DEF TypeOK, InterruptTypeOK
<1>1. CASE UNCHANGED <<intr, target>>
  BY <1>1, FailedGrows DEF Aimed
<1>2. CASE Stop
  BY <1>2, FailedGrows DEF Stop, Call, IntrGoto, Aimed
<1>3. CASE Shutdown
  BY <1>3, FailedGrows DEF Shutdown, CloseSentences, CloseAudio, JoinTts, JoinPlayback,
     IntrGoto, Aimed
<1>4. ASSUME NEW i \in Threads, StopPlayback(i)
      PROVE  failed'[target'[j]]
  BY <1>4, FailedGrows DEF ReadActive, StopPlayback, Call, IntrGoto, Aimed
<1>5. ASSUME NEW i \in Threads, IntrFail(i)
      PROVE  failed'[target'[j]]
  BY <1>5, FailedGrows DEF IntrFail, FailState, StateTypeOK, IntrGoto, Aimed
<1>6. ASSUME NEW i \in Threads,
             \/ IntrRead(i) \/ IntrComplete(i) \/ ClearSentences(i) \/ ClearAudio(i)
             \/ StopPlayer(i) \/ Cancel(i)
      PROVE  failed'[target'[j]]
  BY <1>6, FailedGrows DEF IntrRead, ReadActive, IntrComplete, ClearSentences, ClearAudio,
     StopPlayer, Cancel, IntrGoto, Aimed
<1>. QED  BY <1>1, <1>2, <1>3, <1>4, <1>5, <1>6, Frames DEF Interrupting, Interrupt

LEMMA FinishedNext ==
    ASSUME Shape, Ordered, Placed, Future, Aimed, Finished, [Next]_vars
    PROVE  Finished'
<1> SUFFICES ASSUME NEW r \in Requests, completed'[r], ~failed'[r]
             PROVE  Absent(r)' /\ ~(r = req' /\ Running')
  BY DEF Finished
<1>0. ~failed[r] /\ req \in Nat
  BY FailedGrows DEF Shape, TypeOK, ProcessTypeOK
<1>1. CASE completed[r]
  <2>1. Absent(r) /\ ~(r = req /\ Running)
    BY <1>0, <1>1 DEF Finished
  <2>2. ~(r = req' /\ Running')
    <3>1. ProcStart => r # req'
      BY <1>0, <1>1, Going DEF Future
    <3>. QED  BY <2>1, <3>1, Going
  <2>. QED  BY <2>1, <2>2, AbsentStays
<1>2. CASE ~completed[r]
  <2>1. PlayComplete /\ playTask \in Task /\ playTask.req = r
    BY <1>0, <1>2, Completes DEF Aimed
  <2>2. playTask.seq = 0 /\ InPipe(playTask) /\ ~(r = req /\ Running)
    BY <2>1 DEF PlayComplete, InPipe, Placed, Shape, ControlOK, TasksInPlace
  <2>3. \A t \in Task : Holds(sentenceQ, t) \/ ttsTask = t \/ Holds(audioQ, t) => t.req # r
    BY <2>1, <2>2 DEF Ordered, Before, Task
  <2>4. UNCHANGED <<sentenceQ, ttsTask, audioQ, proc, req>> /\ playTask' = NoTask
    BY <2>1 DEF PlayComplete, PlayNext, procVars, queueVars, ttsVars
  <2>5. Absent(r)'
    BY <2>3, <2>4, NoTaskIsNoTask DEF Absent, InPipe, Holds
  <2>. QED  BY <2>2, <2>4, <2>5 DEF Running
<1>. QED  BY <1>1, <1>2

LEMMA PastNext ==
    ASSUME Shape, Ordered, Placed, Finished, Past, [Next]_vars
    PROVE  Past'
<1> SUFFICES ASSUME NEW r \in Requests, r < req' \/ (r = req' /\ proc' \in {"idle", "clear"})
             PROVE  failed'[r] \/ Absent(r)'
  BY DEF Past
<1>0. req \in Nat
  BY DEF Shape, TypeOK, ProcessTypeOK
<1>1. ASSUME r < req \/ (r = req /\ proc \in {"idle", "clear"}) PROVE failed'[r] \/ Absent(r)'
  BY <1>0, <1>1, FailedGrows, AbsentStays DEF Past, Running
<1>2. CASE ProcStart
  <2>1. CASE r = req'
    <3>1. Absent(r)
      BY <1>0, <1>2, <2>1, Going DEF Absent, Placed, Task
    <3>2. Absent(r)'
      BY <1>0, <1>2, <2>1, <3>1, Going, AbsentStays
    <3>. QED  BY <3>2
  <2>2. CASE r < req'
    BY <1>0, <1>1, <1>2, <2>2, Going
  <2>. QED  BY <2>1, <2>2
<1>3. CASE ProcWait
  <2>1. proc = "wait" /\ completed[req] /\ req' = req
    BY <1>3 DEF ProcWait
  <2>2. CASE r = req
    BY <2>1, <2>2, FailedGrows, AbsentStays DEF Finished, Running
  <2>. QED  BY <1>0, <1>1, <2>1, <2>2
<1>4. CASE ~ProcStart /\ ~ProcWait
  BY <1>0, <1>1, <1>4, Going
<1>. QED  BY <1>2, <1>3, <1>4

\* Only the player's thread touches what has been heard and counted.
-----------------------------------------------------------------------------
\* The parts about what is heard.  Who writes the history:
LEMMA Sounds ==
    ASSUME Shape, [Next]_vars
    PROVE  /\ PlayStart \/ UNCHANGED heard
           /\ PlayCount \/ UNCHANGED spoken
           /\ Play \/ Start \/ UNCHANGED <<play, playTask>>
           /\ ProcStart \/ ProcWait \/ UNCHANGED result
<1> USE DEF history, stateVars, playVars, procVars
<1>1. CASE UNCHANGED vars \/ Start \/ ProcStart
  BY <1>1 DEF vars, Start, ProcStart
<1>2. CASE Process
  BY <1>2 DEF Process, ProcSetActive, ProcChunk, ProcPush, ProcQueryReturns, ProcFlush,
     ProcEnd, ProcWait, ProcReturn
<1>3. CASE Tts
  BY <1>3 DEF Tts, TtsPop, TtsRecheck, TtsSynth, TtsPush
<1>4. CASE Play
  BY <1>4 DEF Play, PlayPop, PlayComplete, PlayCheck, PlayStart, PlayEnd, PlayCount
<1>5. CASE Interrupting
  BY <1>5 DEF Interrupting, Stop, ReadActive, StopPlayback, Call, Shutdown, CloseSentences,
     CloseAudio, JoinTts, JoinPlayback, Interrupt, IntrRead, IntrFail, IntrComplete,
     ClearSentences, ClearAudio, StopPlayer, Cancel
<1>. QED  BY <1>1, <1>2, <1>3, <1>4, <1>5 DEF Next, Interrupting

\* A sentence comes into the pipeline only from processText().
LEMMA UnheardIsOld ==
    ASSUME Shape, Ordered, Placed, [Next]_vars, ~PlayStart, NEW t \in Task, t.seq # 0, Unheard(t)'
    PROVE  Unheard(t) \/ (PushSentence /\ t = NewSentence /\ t.req = req /\ t.seq = Pushed(req) + 1)
<1>0. t # NoTask
  BY NoTaskIsNoTask
<1>1. CASE Play \/ Start
  <2>1. CASE Start
    BY <2>1, <1>0 DEF Start, Unheard, Holds, Shape, ControlOK, TasksInPlace, NoWorkersBeforeStart
  <2>2. CASE PlayPop
    <3>1. audioQ \in Seq(Task)
      BY DEF Shape, TypeOK, QueueTypeOK
    <3>2. audioQ # <<>> => /\ Holds(audioQ, Head(audioQ))
                           /\ (Holds(Tail(audioQ), t) => Holds(audioQ, t))
      BY <3>1, BeforeTail
    <3>. QED  BY <2>2, <3>2 DEF PlayPop, Unheard, Holds, ttsVars
  <2>3. CASE PlayCheck
    BY <2>3, <1>0 DEF PlayCheck, PlayNext, Unheard, Holds, queueVars, ttsVars
  <2>4. CASE PlayComplete \/ PlayEnd \/ PlayCount
    BY <2>4, <1>0 DEF PlayComplete, PlayEnd, PlayCount, PlayNext, Unheard, Holds, queueVars, ttsVars
  <2>. QED  BY <1>1, <2>1, <2>2, <2>3, <2>4 DEF Play
<1>2. CASE UNCHANGED <<play, playTask>> /\ Forward
  <2>1. CASE Lose
    BY <1>0, <1>2, <2>1, EmptyHolds DEF Lose, Unheard, Holds
  <2>2. CASE TakeS
    <3>1. sentenceQ \in Seq(Task) /\ sentenceQ # <<>>
      BY <2>2 DEF TakeS, Shape, TypeOK, QueueTypeOK
    <3>2. Holds(sentenceQ, Head(sentenceQ)) /\ (Holds(Tail(sentenceQ), t) => Holds(sentenceQ, t))
      BY <3>1, BeforeTail
    <3>. QED  BY <1>2, <2>2, <3>2 DEF TakeS, Unheard, Holds
  <2>3. CASE GiveA
    <3>1. audioQ \in Seq(Task) /\ ttsTask \in Task
      BY <2>3 DEF GiveA, Shape, TypeOK, QueueTypeOK, WorkerTypeOK
    <3>2. Holds(Append(audioQ, ttsTask), t) => Holds(audioQ, t) \/ ttsTask = t
      BY <3>1, HoldsAppend
    <3>. QED  BY <1>0, <1>2, <2>3, <3>2 DEF GiveA, Unheard, Holds
  <2>4. CASE TakeA
    BY <1>2, <2>4 DEF TakeA, NoTask, Shape, TypeOK, QueueTypeOK, Task
  <2>. QED  BY <1>2, <2>1, <2>2, <2>3, <2>4 DEF Forward
<1>3. CASE PushSentence \/ PushEnd
  <2>1. PICK s \in Task : /\ GiveS(s) /\ s.req = req
                          /\ PushSentence => s.seq = Pushed(req) + 1 /\ s = NewSentence
                          /\ PushEnd => s = EndOf(req)
    BY <1>3, Pushes
  <2>2. Holds(Append(sentenceQ, s), t) => Holds(sentenceQ, t) \/ s = t
    BY HoldsAppend DEF Shape, TypeOK, QueueTypeOK
  <2>3. UNCHANGED play
    BY <1>3 DEF PushSentence, PushEnd, ProcPush, ProcEnd, playVars
  <2>. QED  BY <1>3, <2>1, <2>2, <2>3 DEF GiveS, Unheard, Holds, EndOf
<1>. QED  BY <1>1, <1>2, <1>3, Flows, Sounds

\* A sentence leaves it unheard only when its request fails or is robbed.
\* It leaves it unheard only if its request fails or is robbed.
LEMMA UnheardStays ==
    ASSUME Shape, Aimed, [Next]_vars, ~PlayStart, NEW t \in Task, t.seq # 0, Unheard(t),
           ~failed'[t.req], t.req \notin robbed'
    PROVE  Unheard(t)'
<1> USE DEF ttsVars, playVars, queueVars
<1>0. t # NoTask /\ t.req \in Requests /\ ~failed[t.req]
  BY NoTaskIsNoTask, FailedGrows DEF Task
<1>1. CASE UNCHANGED <<sentenceQ, audioQ, ttsTask, play, playTask>>
  BY <1>1 DEF Unheard, Holds
<1>2. CASE Start \/ ProcStart
  BY <1>0, <1>1, <1>2 DEF Start, ProcStart, Unheard, Holds, Shape, ControlOK, TasksInPlace,
     NoWorkersBeforeStart
<1>3. CASE Process
  <2>1. CASE PushSentence \/ PushEnd
    <3>1. \E s : sentenceQ' = Append(sentenceQ, s) /\ UNCHANGED <<audioQ, ttsTask, play, playTask>>
      BY <2>1 DEF PushSentence, PushEnd, ProcPush, ProcEnd
    <3>2. \A s : Holds(sentenceQ, t) => Holds(Append(sentenceQ, s), t)
      <4>1. sentenceQ \in Seq(Task)
        BY DEF Shape, TypeOK, QueueTypeOK
      <4>. QED  BY <4>1 DEF Holds
    <3>. QED  BY <3>1, <3>2 DEF Unheard, Holds
  <2>. QED
    BY <1>1, <1>3, <2>1 DEF Process, ProcSetActive, ProcChunk, ProcPush, ProcQueryReturns,
       ProcFlush, ProcEnd, ProcWait, ProcReturn, PushSentence, PushEnd
<1>4. CASE Tts
  <2>1. CASE TtsPop
    <3>1. Holds(sentenceQ, t) =>
             sentenceQ # <<>> /\ (Head(sentenceQ) = t \/ Holds(Tail(sentenceQ), t))
      BY HoldsTail DEF Shape, TypeOK, QueueTypeOK
    <3>. QED  BY <1>0, <2>1, <3>1 DEF TtsPop, Unheard, Holds, Shape, ControlOK, TasksInPlace
  <2>2. CASE TtsRecheck \/ TtsSynth
    BY <1>0, <2>2 DEF TtsRecheck, TtsSynth, TtsDrop, FailState, Unheard, Holds, Shape, TypeOK,
       StateTypeOK
  <2>3. CASE TtsPush
    <3>1. CASE audioClosed
      <4>1. ttsTask # t
        BY <1>0, <2>3, <3>1 DEF TtsPush, FailState, Shape, TypeOK, StateTypeOK
      <4>. QED  BY <2>3, <3>1, <4>1 DEF TtsPush, Unheard, Holds
    <3>2. CASE ~audioClosed
      <4>1. audioQ \in Seq(Task) /\ ttsTask \in Task
        BY <2>3 DEF TtsPush, Shape, TypeOK, QueueTypeOK, WorkerTypeOK, ControlOK, TasksInPlace
      <4>2. Holds(audioQ, t) \/ ttsTask = t => Holds(Append(audioQ, ttsTask), t)
        BY <4>1, HoldsAppend
      <4>. QED  BY <2>3, <3>2, <4>2 DEF TtsPush, TtsDrop, Unheard, Holds
    <3>. QED  BY <3>1, <3>2
  <2>. QED  BY <1>4, <2>1, <2>2, <2>3 DEF Tts
<1>5. CASE Play
  <2>1. CASE PlayPop
    <3>1. Holds(audioQ, t) => audioQ # <<>> /\ (Head(audioQ) = t \/ Holds(Tail(audioQ), t))
      BY HoldsTail DEF Shape, TypeOK, QueueTypeOK
    <3>. QED  BY <1>0, <2>1, <3>1 DEF PlayPop, Unheard, Holds
  <2>2. CASE PlayCheck
    BY <1>0, <2>2 DEF PlayCheck, PlayNext, Unheard, Holds
  <2>3. CASE PlayComplete \/ PlayEnd \/ PlayCount
    BY <1>0, <2>3 DEF PlayComplete, PlayEnd, PlayCount, PlayNext, Unheard, Holds
  <2>. QED  BY <1>5, <2>1, <2>2, <2>3 DEF Play
<1>6. ASSUME NEW i \in Threads, ClearSentences(i) \/ ClearAudio(i) PROVE Unheard(t)'
  <2>1. target[i] # t.req
    BY <1>0, <1>6 DEF ClearSentences, ClearAudio, Aimed
  <2>2. CASE ClearSentences(i)
    <3>1. ~Holds(sentenceQ, t)
      BY <2>1, <2>2, HoldsRequest DEF ClearSentences, Others, Shape, TypeOK, QueueTypeOK
    <3>. QED  BY <2>2, <3>1 DEF ClearSentences, Unheard, Holds
  <2>3. CASE ClearAudio(i)
    <3>1. ~Holds(audioQ, t)
      BY <2>1, <2>3, HoldsRequest DEF ClearAudio, Others, Shape, TypeOK, QueueTypeOK
    <3>. QED  BY <2>3, <3>1 DEF ClearAudio, Unheard, Holds
  <2>. QED  BY <1>6, <2>2, <2>3
<1>7. CASE Interrupting \/ UNCHANGED vars
  BY <1>1, <1>6, <1>7 DEF Interrupting, Stop, ReadActive, StopPlayback, Call, Shutdown,
     CloseSentences,
     CloseAudio, JoinTts, JoinPlayback, Interrupt, IntrRead, IntrFail, IntrComplete,
     StopPlayer, Cancel, vars
<1>. QED  BY <1>2, <1>3, <1>4, <1>5, <1>7 DEF Next, Interrupting

\* What begins to play was unheard, and everything behind it comes later.
\* A playback begins with the foremost task, which nothing unheard precedes.
LEMMA Begins ==
    ASSUME Shape, Ordered, PlayStart
    PROVE  /\ playTask \in Task /\ playTask.seq # 0 /\ InPipe(playTask) /\ Unheard(playTask)
           /\ heard' = [heard EXCEPT ![playTask.req] = Append(heard[playTask.req], playTask.seq)]
           /\ \A t \in Task : Unheard(t)' <=> Holds(sentenceQ, t) \/ ttsTask = t \/ Holds(audioQ, t)
           /\ \A t \in Task : Unheard(t)' => Unheard(t) /\ Before(playTask, t)
           /\ \A t \in Task : Unheard(t) /\ t # playTask => Unheard(t)'
           /\ UNCHANGED <<failed, robbed, playTask, req, proc>>
<1>1. playTask \in Task /\ playTask.seq # 0 /\ InPipe(playTask) /\ Unheard(playTask)
  BY DEF PlayStart, Shape, TypeOK, WorkerTypeOK, ControlOK, TasksInPlace, InPipe, Unheard
<1>2. heard' = [heard EXCEPT ![playTask.req] = Append(heard[playTask.req], playTask.seq)]
  BY DEF PlayStart
<1>3. UNCHANGED <<sentenceQ, ttsTask, audioQ, playTask>> /\ play' = "writing"
  BY DEF PlayStart, queueVars, ttsVars
<1>4. \A t \in Task : Unheard(t)' <=> Holds(sentenceQ, t) \/ ttsTask = t \/ Holds(audioQ, t)
  BY <1>3 DEF Unheard, Holds
<1>5. \A t \in Task : Unheard(t)' => Unheard(t) /\ Before(playTask, t)
  BY <1>1, <1>4 DEF Ordered, Unheard
<1>6. \A t \in Task : Unheard(t) /\ t # playTask => Unheard(t)'
  BY <1>4 DEF Unheard
<1>7. UNCHANGED <<failed, robbed, playTask, req, proc>>
  BY DEF PlayStart, stateVars, procVars
<1>. QED  BY <1>1, <1>2, <1>4, <1>5, <1>6, <1>7

\* A sentence is appended to heard[r] in its turn, and none of it is left behind.
LEMMA HeardOnceNext ==
    ASSUME Shape, Ordered, Placed, Future, HeardOnce, [Next]_vars
    PROVE  HeardOnce'
<1> SUFFICES ASSUME NEW r \in Requests
             PROVE  /\ \A m, n \in 1 .. Len(heard'[r]) : m < n => heard'[r][m] < heard'[r][n]
                    /\ \A n \in 1 .. Len(heard'[r]) :
                          1 <= heard'[r][n] /\ heard'[r][n] <= Pushed(r)'
                    /\ \A t \in Task : Unheard(t)' /\ t.req = r /\ t.seq # 0 =>
                          \A n \in 1 .. Len(heard'[r]) : heard'[r][n] < t.seq
  BY DEF HeardOnce
<1>1. /\ heard[r] \in Seq(0 .. MaxSentences)
      /\ \A n \in 1 .. Len(heard[r]) : heard[r][n] \in Nat
      /\ \A m, n \in 1 .. Len(heard[r]) : m < n => heard[r][m] < heard[r][n]
      /\ \A n \in 1 .. Len(heard[r]) : 1 <= heard[r][n] /\ heard[r][n] <= Pushed(r)
      /\ \A t \in Task : Unheard(t) /\ t.req = r /\ t.seq # 0 =>
            \A n \in 1 .. Len(heard[r]) : heard[r][n] < t.seq
  BY DEF HeardOnce, Shape, TypeOK, HistoryTypeOK
<1>2. Pushed(r) \in Nat /\ Pushed(r)' \in Nat /\ Pushed(r) <= Pushed(r)'
  BY Making
<1>3. \A t \in Task : t.req \in Requests /\ t.seq \in Nat
  BY DEF Task
<1>4. CASE heard'[r] = heard[r]
  <2>1. \A n \in 1 .. Len(heard[r]) : heard[r][n] <= Pushed(r)'
    BY <1>1, <1>2
  <2>2. ASSUME NEW t \in Task, Unheard(t)', t.req = r, t.seq # 0, NEW n \in 1 .. Len(heard[r])
        PROVE  heard[r][n] < t.seq
    <3>1. CASE Unheard(t)
      BY <1>1, <2>2, <3>1
    <3>2. CASE ~Unheard(t)
      <4>1. ~PlayStart
        BY <2>2, <3>2, Begins
      <4>2. t.seq = Pushed(r) + 1
        BY <2>2, <3>2, <4>1, UnheardIsOld
      <4>. QED  BY <1>1, <1>2, <4>2
    <3>. QED  BY <3>1, <3>2
  <2>. QED  BY <1>1, <1>4, <2>1, <2>2
<1>5. CASE PlayStart /\ playTask.req = r
  <2> DEFINE s == playTask.seq  h == heard[r]
  <2>1. /\ playTask \in Task /\ s \in Nat /\ s # 0 /\ s <= Pushed(r) /\ s \in 0 .. MaxSentences
        /\ \A n \in 1 .. Len(h) : h[n] < s
    BY <1>1, <1>3, <1>5, Begins DEF Placed, Task
  <2>2. heard'[r] = Append(h, s)
    BY <1>5, Begins DEF Shape, TypeOK, HistoryTypeOK
  <2>3. /\ Len(heard'[r]) = Len(h) + 1 /\ heard'[r][Len(h) + 1] = s
        /\ \A n \in 1 .. Len(h) : heard'[r][n] = h[n]
    BY <1>1, <2>1, <2>2
  <2>4. \A n \in 1 .. Len(h) + 1 : n = Len(h) + 1 \/ n \in 1 .. Len(h)
    BY <1>1
  <2>5. ASSUME NEW m \in 1 .. Len(h) + 1, NEW n \in 1 .. Len(h) + 1, m < n
        PROVE  heard'[r][m] < heard'[r][n]
    <3>1. m \in 1 .. Len(h)
      BY <1>1, <2>5
    <3>. QED  BY <1>1, <2>1, <2>3, <2>4, <2>5, <3>1
  <2>6. ASSUME NEW n \in 1 .. Len(h) + 1 PROVE 1 <= heard'[r][n] /\ heard'[r][n] <= s
    <3>1. CASE n = Len(h) + 1
      BY <2>1, <2>3, <3>1
    <3>2. CASE n \in 1 .. Len(h)
      <4>1. heard'[r][n] = h[n]
        BY <2>3, <3>2
      <4>2. h[n] \in Nat /\ 1 <= h[n] /\ h[n] < s
        BY <1>1, <2>1, <3>2
      <4>. QED  BY <2>1, <4>1, <4>2
    <3>. QED  BY <2>4, <3>1, <3>2
  <2>7. ASSUME NEW t \in Task, Unheard(t)', t.req = r, t.seq # 0
        PROVE  s < t.seq
    BY <1>3, <1>5, <2>7, Begins DEF Before
  <2>8. \A n \in 1 .. Len(h) + 1 : heard'[r][n] \in Nat
    BY <1>1, <2>1, <2>3, <2>4
  <2>9. \A n \in 1 .. Len(h) + 1 : heard'[r][n] <= Pushed(r)'
    BY <1>2, <2>1, <2>6, <2>8
  <2>10. ASSUME NEW t \in Task, Unheard(t)', t.req = r, t.seq # 0, NEW n \in 1 .. Len(h) + 1
         PROVE  heard'[r][n] < t.seq
    BY <1>3, <2>1, <2>6, <2>7, <2>8, <2>10
  <2>. QED  BY <2>3, <2>5, <2>6, <2>9, <2>10
<1>6. CASE PlayStart /\ playTask.req # r
  <2>1. heard'[r] = heard[r]
    BY <1>6, Begins DEF Shape, TypeOK, HistoryTypeOK
  <2>. QED  BY <1>4, <2>1
<1>. QED  BY <1>4, <1>5, <1>6, Sounds

\* The next sentence heard is the first unheard one, since all those exist.
LEMMA NoneSkippedNext ==
    ASSUME Shape, Ordered, Placed, Future, Aimed, HeardOnce, NoneSkipped, [Next]_vars
    PROVE  NoneSkipped'
<1> SUFFICES ASSUME NEW r \in Requests, ~failed'[r], r \notin robbed'
             PROVE  /\ heard'[r] = [n \in 1 .. Len(heard'[r]) |-> n]
                    /\ \A k \in 1 .. Pushed(r)' : k > Len(heard'[r]) =>
                          Unheard([req |-> r, seq |-> k])'
  BY DEF NoneSkipped
<1>0. ~failed[r] /\ r \notin robbed
  BY FailedGrows, RobbedGrows
<1>1. /\ heard[r] \in Seq(0 .. MaxSentences)
      /\ heard[r] = [n \in 1 .. Len(heard[r]) |-> n]
      /\ \A k \in 1 .. Pushed(r) : k > Len(heard[r]) => Unheard([req |-> r, seq |-> k])
  BY <1>0 DEF NoneSkipped, Shape, TypeOK, HistoryTypeOK
<1>2. Pushed(r) \in Nat /\ Pushed(r)' \in Nat /\ Pushed(r) <= Pushed(r)'
  BY Making
<1>3. ASSUME NEW k \in 1 .. Pushed(r) PROVE [req |-> r, seq |-> k] \in Task
  BY <1>2, <1>3 DEF Task, Pushed, Shape, TypeOK, ProcessTypeOK
<1>4. CASE PlayStart /\ playTask.req = r
  <2> DEFINE s == playTask.seq  l == Len(heard[r])
  <2>1. /\ playTask \in Task /\ s \in Nat /\ s # 0 /\ s <= Pushed(r) /\ l \in Nat
        /\ \A n \in 1 .. l : heard[r][n] < s
    BY <1>1, <1>4, Begins DEF Placed, HeardOnce, Task
  <2>2. s > l
    <3>1. CASE l = 0
      BY <2>1, <3>1
    <3>2. CASE l # 0
      <4>1. l \in 1 .. l
        BY <2>1, <3>2
      <4>2. heard[r][l] = l
        BY <1>1, <4>1
      <4>. QED  BY <2>1, <4>1, <4>2
    <3>. QED  BY <3>1, <3>2
  <2>3. s = l + 1
    <3> SUFFICES ASSUME s # l + 1 PROVE FALSE
      OBVIOUS
    <3> DEFINE u == [req |-> r, seq |-> l + 1]
    <3>1. l + 1 \in 1 .. Pushed(r) /\ l + 1 < s
      BY <1>2, <2>1, <2>2
    <3>2. u \in Task /\ Unheard(u) /\ u # playTask
      BY <1>1, <1>3, <2>1, <3>1
    <3>3. Before(playTask, u)
      BY <1>4, <3>2, Begins
    <3>. QED  BY <1>4, <2>1, <3>1, <3>3 DEF Before
  <2>4. heard'[r] = Append(heard[r], l + 1)
    BY <1>4, <2>3, Begins DEF Shape, TypeOK, HistoryTypeOK
  <2>5. Len(heard'[r]) = l + 1 /\ heard'[r] = [n \in 1 .. l + 1 |-> n]
    BY <1>1, <2>1, <2>4
  <2>6. Pushed(r)' = Pushed(r)
    BY <1>4, Making DEF PlayStart, ProcPush, playVars
  <2>7. ASSUME NEW k \in 1 .. Pushed(r), k > l + 1 PROVE Unheard([req |-> r, seq |-> k])'
    <3> DEFINE u == [req |-> r, seq |-> k]
    <3>1. u \in Task /\ Unheard(u)
      BY <1>1, <1>2, <1>3, <2>1, <2>7
    <3>2. u # playTask
      BY <2>1, <2>3, <2>7
    <3>. QED  BY <1>4, <3>1, <3>2, Begins
  <2>. QED  BY <2>5, <2>6, <2>7
<1>5. CASE ~(PlayStart /\ playTask.req = r)
  <2>1. heard'[r] = heard[r]
    BY <1>5, Begins, Sounds DEF Shape, TypeOK, HistoryTypeOK
  <2>2. ASSUME NEW k \in 1 .. Pushed(r), k > Len(heard[r])
        PROVE  Unheard([req |-> r, seq |-> k])'
    <3> DEFINE u == [req |-> r, seq |-> k]
    <3>1. u \in Task /\ Unheard(u) /\ u.req = r /\ u.seq # 0
      BY <1>1, <1>2, <1>3, <2>2
    <3>2. CASE ~PlayStart
      BY <3>1, <3>2, UnheardStays
    <3>3. CASE PlayStart
      BY <1>5, <3>1, <3>3, Begins
    <3>. QED  BY <3>2, <3>3
  <2>3. ASSUME NEW k \in 1 .. Pushed(r)', k \notin 1 .. Pushed(r)
        PROVE  Unheard([req |-> r, seq |-> k])'
    <3>1. ProcPush /\ r = req
      BY <1>2, <2>3, Making
    <3>2. PushSentence
      BY <3>1 DEF PushSentence, ProcPush, FailState, Shape, TypeOK, StateTypeOK
    <3>3. k = Pushed(r) + 1
      BY <1>2, <2>3, <3>1, <3>2, Making
    <3>4. PICK s \in Task : GiveS(s) /\ s.req = req /\ s.seq = Pushed(req) + 1
      BY <3>2, Pushes
    <3>5. s = [req |-> r, seq |-> k]
      BY <3>1, <3>3, <3>4 DEF Task
    <3>6. Holds(sentenceQ', s)
      BY <3>4, HoldsAppend DEF GiveS, Shape, TypeOK, QueueTypeOK
    <3>. QED  BY <3>5, <3>6 DEF Unheard, Holds
  <2>. QED  BY <1>1, <1>2, <2>1, <2>2, <2>3
<1>. QED  BY <1>4, <1>5

\* A playback that ends without a failure is counted in the step after.
LEMMA CountedNext == ASSUME Shape, Counted, [Next]_vars PROVE Counted'
<1> SUFFICES ASSUME NEW r \in Requests, ~failed'[r]
             PROVE  spoken'[r] + (IF play' \in {"writing", "played"} /\ playTask'.req = r THEN 1 ELSE 0)
                       = Len(heard'[r])
  BY DEF Counted
<1>0. /\ ~failed[r] /\ spoken[r] \in Nat /\ heard[r] \in Seq(0 .. MaxSentences)
      /\ spoken[r] + (IF play \in {"writing", "played"} /\ playTask.req = r THEN 1 ELSE 0)
            = Len(heard[r])
  BY FailedGrows DEF Counted, Shape, TypeOK, StateTypeOK, HistoryTypeOK
<1>1. CASE PlayStart
  <2>1. playTask.req = r => Len(heard'[r]) = Len(heard[r]) + 1
    <3>1. playTask.req = r => heard'[r] = Append(heard[r], playTask.seq)
      BY <1>1 DEF PlayStart, Shape, TypeOK, HistoryTypeOK
    <3>. QED  BY <1>0, <3>1
  <2>2. playTask.req # r => heard'[r] = heard[r]
    BY <1>1 DEF PlayStart, Shape, TypeOK, HistoryTypeOK
  <2>. QED  BY <1>0, <1>1, <2>1, <2>2 DEF PlayStart, stateVars
<1>2. CASE PlayCount
  BY <1>0, <1>2 DEF PlayCount, PlayNext, history, Shape, TypeOK, StateTypeOK
<1>3. CASE PlayEnd
  BY <1>0, <1>3 DEF PlayEnd, PlayNext, FailState, history, Shape, TypeOK, StateTypeOK
<1>4. CASE PlayPop \/ PlayComplete \/ PlayCheck
  BY <1>0, <1>4 DEF PlayPop, PlayComplete, PlayCheck, PlayNext, history, stateVars
<1>5. CASE Start
  BY <1>0, <1>5 DEF Start, history, stateVars, Shape, ControlOK, NoWorkersBeforeStart
<1>6. CASE ~Play /\ ~Start
  BY <1>0, <1>6, Sounds DEF Play
<1>. QED  BY <1>1, <1>2, <1>3, <1>4, <1>5, <1>6 DEF Play

\* An ok result is read off a state that is complete, not failed and absent.
LEMMA ReportedNext ==
    ASSUME Shape, Ordered, Placed, Future, Finished, HeardOnce, NoneSkipped, Counted, Reported,
           [Next]_vars
    PROVE  Reported'
<1> SUFFICES ASSUME NEW r \in Requests, result'[r] = "ok"
             PROVE  /\ r < req' \/ (r = req' /\ proc' \in {"idle", "clear"})
                    /\ Absent(r)'
                    /\ r \notin robbed' =>
                          heard'[r] = [n \in 1 .. made'[r] |-> n] /\ spoken'[r] = made'[r]
  BY DEF Reported
<1>0. req \in 0 .. NumRequests /\ result \in [Requests -> {"none", "ok", "failed"}]
  BY DEF Shape, TypeOK, ProcessTypeOK
<1>1. CASE result[r] = "ok"
  <2>1. /\ r < req \/ (r = req /\ proc \in {"idle", "clear"})
        /\ Absent(r) /\ ~(r = req /\ Running)
        /\ r \notin robbed => heard[r] = [n \in 1 .. made[r] |-> n] /\ spoken[r] = made[r]
    <3>1. /\ r < req \/ (r = req /\ proc \in {"idle", "clear"})
          /\ Absent(r)
          /\ r \notin robbed => heard[r] = [n \in 1 .. made[r] |-> n] /\ spoken[r] = made[r]
      BY <1>1 DEF Reported
    <3>2. ~(r = req /\ Running)
      BY <1>0, <3>1 DEF Running
    <3>. QED  BY <3>1, <3>2
  <2>2. r < req' \/ (r = req' /\ proc' \in {"idle", "clear"})
    <3>1. CASE ProcStart
      BY <1>0, <2>1, <3>1, Going
    <3>2. CASE UNCHANGED <<proc, req>>
      BY <2>1, <3>2
    <3>3. CASE Start
      BY <2>1, <3>3 DEF Start, procVars
    <3>4. CASE Process
      BY <2>1, <3>4 DEF Process, ProcSetActive, ProcChunk, ProcPush, ProcQueryReturns,
         ProcFlush, ProcEnd, ProcWait, ProcReturn
    <3>. QED  BY <3>1, <3>2, <3>3, <3>4, Frames
  <2>3. Absent(r)'
    BY <2>1, AbsentStays
  <2>4. playTask.req # r
    BY <2>1 DEF Absent, InPipe, NoTask, Shape, TypeOK, WorkerTypeOK
  <2>5. heard'[r] = heard[r] /\ spoken'[r] = spoken[r]
    BY <2>4, Sounds DEF PlayStart, PlayCount, Shape, TypeOK, HistoryTypeOK, StateTypeOK
  <2>6. made'[r] = made[r]
    <3>1. CASE Start \/ ProcStart
      BY <3>1 DEF Start, ProcStart, procVars
    <3>2. CASE Process
      BY <2>1, <3>2 DEF Process, ProcSetActive, ProcChunk, Yield, ProcPush, ProcQueryReturns,
         ProcFlush, ProcEnd, ProcWait, ProcReturn, Shape, TypeOK, ProcessTypeOK
    <3>. QED  BY <3>1, <3>2, Frames
  <2>. QED  BY <2>1, <2>2, <2>3, <2>5, <2>6, RobbedGrows
<1>2. CASE result[r] # "ok"
  <2>1. ProcWait /\ r = req /\ completed[r] /\ ~failed[r] /\ proc = "wait"
    <3>1. ~ProcStart
      BY <1>0, <1>2 DEF ProcStart
    <3>. QED  BY <1>0, <1>2, <3>1, Sounds DEF ProcWait
  <2>2. /\ proc' = "clear" /\ UNCHANGED <<req, made, heard, spoken, robbed>>
        /\ UNCHANGED <<sentenceQ, audioQ, ttsTask, playTask>>
    BY <2>1 DEF ProcWait, stateVars, history, queueVars, ttsVars, playVars
  <2>3. Absent(r)
    BY <2>1 DEF Finished
  <2>4. Absent(r)'
    BY <2>2, <2>3 DEF Absent, InPipe, Holds
  <2>5. ASSUME r \notin robbed
        PROVE  heard[r] = [n \in 1 .. made[r] |-> n] /\ spoken[r] = made[r]
    <3> DEFINE l == Len(heard[r])
    <3>1. Pushed(r) = made[r] /\ made[r] \in Nat /\ made[r] <= MaxSentences
      BY <2>1 DEF Pushed, Shape, TypeOK, ProcessTypeOK, ControlOK, RequestInPlace
    <3>2. /\ heard[r] = [n \in 1 .. l |-> n] /\ l \in Nat
          /\ \A k \in 1 .. made[r] : k > l => Unheard([req |-> r, seq |-> k])
      BY <2>1, <2>5, <3>1 DEF NoneSkipped, Shape, TypeOK, HistoryTypeOK
    <3>3. l <= made[r]
      <4>1. CASE l = 0
        BY <3>1, <4>1
      <4>2. CASE l # 0
        <5>1. l \in 1 .. l /\ heard[r][l] = l
          BY <3>2, <4>2
        <5>. QED  BY <3>1, <5>1 DEF HeardOnce
      <4>. QED  BY <4>1, <4>2
    <3>4. l >= made[r]
      <4> SUFFICES ASSUME l < made[r] PROVE FALSE
        BY <3>1, <3>2
      <4> DEFINE u == [req |-> r, seq |-> made[r]]
      <4>1. u \in Task /\ u.req = r /\ Unheard(u)
        BY <3>1, <3>2 DEF Task
      <4>2. InPipe(u)
        BY <4>1 DEF Unheard, InPipe
      <4>. QED  BY <2>3, <4>1, <4>2 DEF Absent
    <3>5. l = made[r]
      BY <3>1, <3>2, <3>3, <3>4
    <3>6. playTask.req # r
      BY <2>3 DEF Absent, InPipe, NoTask, Shape, TypeOK, WorkerTypeOK
    <3>7. spoken[r] = l
      BY <2>1, <3>6 DEF Counted, Shape, TypeOK, StateTypeOK
    <3>. QED  BY <3>2, <3>5, <3>7
  <2>. QED  BY <2>1, <2>2, <2>4, <2>5
<1>. QED  BY <1>1, <1>2

-----------------------------------------------------------------------------
(***************************************************************************)
(* The inductive invariant: Shape is that of VoiceAssistantProofs, Flow    *)
(* what the pipeline adds.                                                 *)
(***************************************************************************)
Flow == /\ Ordered /\ Placed /\ Future /\ Aimed /\ Finished
        /\ Past /\ HeardOnce /\ NoneSkipped /\ Counted /\ Reported

LEMMA FlowInit == ASSUME Init PROVE Flow
<1> USE DEF Init
<1>1. \A t \in Task : ~InPipe(t) /\ ~Unheard(t)
  BY EmptyHolds, NoTaskIsNoTask DEF InPipe, Unheard
<1>2. Ordered
  BY EmptyHolds, NoTaskIsNoTask DEF Ordered
<1>3. Placed /\ Future /\ Aimed /\ Finished /\ Past
  BY <1>1 DEF Placed, Future, Aimed, Finished, Past, Absent
<1>4. HeardOnce /\ Counted
  BY <1>1 DEF HeardOnce, Counted
<1>5. NoneSkipped
  <2>1. <<>> = [n \in 1 .. 0 |-> n]
    OBVIOUS
  <2>2. \A r \in Requests : heard[r] = <<>> /\ Pushed(r) = 0
    BY DEF Pushed
  <2>. QED  BY <2>1, <2>2 DEF NoneSkipped
<1>6. Reported
  BY DEF Reported
<1>. QED  BY <1>2, <1>3, <1>4, <1>5, <1>6 DEF Flow

LEMMA FlowNext == ASSUME Shape, Flow, [Next]_vars PROVE Flow'
  BY OrderedNext, PlacedNext, FutureNext, AimedNext, FinishedNext, PastNext, HeardOnceNext,
     NoneSkippedNext, CountedNext, ReportedNext DEF Flow

LEMMA Flowing == Spec => [](Shape /\ Flow)
  BY ShapeInit, ShapeNext, FlowInit, FlowNext, PTL DEF Spec

(***************************************************************************)
(* Requests do not leak into each other: a task of an older request that   *)
(* is still in a queue or in a worker's hands, its end mark included,      *)
(* belongs to a request that has failed, so the workers drop its sentences *)
(* (lines 387, 411 and 448 of src/voice_assistant.cpp) and its end mark    *)
(* completes nothing that is not complete.  By Past: an unfailed request   *)
(* is over only when its end mark has been through the whole line, and it  *)
(* was the last in it.                                                     *)
(***************************************************************************)
THEOREM Leftovers == Spec => []LeftoversAreFailed
<1>1. Shape /\ Flow => LeftoversAreFailed
  <2> SUFFICES ASSUME Shape, Flow,
                      NEW t \in Range(sentenceQ) \cup Range(audioQ) \cup {ttsTask, playTask},
                      t # NoTask, t.req # req \/ proc = "idle"
               PROVE  failed[t.req]
    BY DEF LeftoversAreFailed
  <2>1. t \in Task /\ InPipe(t)
    <3>1. \A s \in Seq(Task) : \A u \in Range(s) : u \in Task /\ Holds(s, u)
      BY DEF Range, Holds
    <3>. QED  BY <3>1 DEF Shape, TypeOK, QueueTypeOK, WorkerTypeOK, InPipe
  <2>2. t.req \in Requests /\ t.req <= req /\ req \in Nat
    BY <2>1 DEF Task, Flow, Placed, Shape, TypeOK, ProcessTypeOK
  <2>. QED  BY <2>1, <2>2 DEF Flow, Past, Absent
<1>. QED  BY <1>1, Flowing, PTL

(***************************************************************************)
(* No sentence is played twice or out of order, whatever the interrupts,   *)
(* and none is skipped unless its request failed or an interrupt aimed at  *)
(* another request cleared it away (stopPlayback(), lines 545-582 of       *)
(* src/voice_assistant.cpp).                                               *)
(***************************************************************************)
THEOREM Spoken == Spec => []SpokenInOrder
<1>1. Shape /\ Flow => SpokenInOrder
  <2> SUFFICES ASSUME Shape, Flow, NEW r \in Requests
               PROVE  /\ \A m, n \in DOMAIN heard[r] : m < n => heard[r][m] < heard[r][n]
                      /\ r \notin robbed /\ ~failed[r]
                            => heard[r] = [n \in 1 .. Len(heard[r]) |-> n]
    BY DEF SpokenInOrder
  <2>1. DOMAIN heard[r] = 1 .. Len(heard[r])
    BY DEF Shape, TypeOK, HistoryTypeOK
  <2>. QED  BY <2>1 DEF Flow, HeardOnce, NoneSkipped
<1>. QED  BY <1>1, Flowing, PTL

(***************************************************************************)
(* A request that processText() reports as ok (lines 316-331 of            *)
(* src/voice_assistant.cpp) has had every sentence of its answer played    *)
(* once and in order, and its spoken_sentence_count is the number of them, *)
(* unless an interrupt aimed at another request robbed it.                 *)
(***************************************************************************)
THEOREM OkIsTrue == Spec => []OkMeansAllSpoken
<1>1. Flow => OkMeansAllSpoken
  BY DEF Flow, Reported, OkMeansAllSpoken
<1>. QED  BY <1>1, Flowing, PTL
=============================================================================
