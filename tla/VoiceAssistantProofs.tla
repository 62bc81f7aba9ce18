------------------------ MODULE VoiceAssistantProofs ------------------------
(***************************************************************************)
(* Proofs about VoiceAssistant, for any number of requests, sentences,     *)
(* interrupts and interrupting threads, and any queue capacities.          *)
(***************************************************************************)
EXTENDS VoiceAssistant, TLAPS

USE ConstantsAssumption DEF Requests, Threads, NoRequest

(***************************************************************************)
(* The inductive invariant of the control.  Types need the places (a       *)
(* sentence is numbered from made and burst, a worker's task is used where *)
(* the worker holds one), and the places need the types.                   *)
(***************************************************************************)
Shape == TypeOK /\ ControlOK

LEMMA ShapeInit == ASSUME Init PROVE Shape
<1> USE DEF Init
<1>0. 0 \in 0 .. NumRequests /\ 0 \in 0 .. MaxSentences
  OBVIOUS
<1>1. ProcessTypeOK
  BY <1>0 DEF ProcessTypeOK, ProcPCs
<1>5. StateTypeOK
  BY DEF StateTypeOK
<1>6. QueueTypeOK
  <2>1. <<>> \in Seq(Task)
    OBVIOUS
  <2>. QED  BY <2>1 DEF QueueTypeOK
<1>2. WorkerTypeOK
  BY DEF WorkerTypeOK, TtsPCs, PlayPCs
<1>3. InterruptTypeOK /\ HistoryTypeOK
  BY DEF InterruptTypeOK, HistoryTypeOK, IntrPCs
<1>4. ControlOK
  BY DEF ControlOK, NoWorkersBeforeStart, WorkersOutliveQueues, ClosedForGood,
         TasksInPlace, RequestInPlace, CompletesBeforeClearing, NoTask
<1>. QED  BY <1>1, <1>2, <1>3, <1>4, <1>5, <1>6 DEF Shape, TypeOK

-----------------------------------------------------------------------------
(* Type correctness, one lemma per thread. *)

\* What a step leaves alone keeps its type.
LEMMA TypeFrame ==
    ASSUME TypeOK
    PROVE  /\ UNCHANGED <<life, procVars>> => ProcessTypeOK'
           /\ UNCHANGED stateVars => StateTypeOK'
           /\ UNCHANGED queueVars => QueueTypeOK'
           /\ UNCHANGED <<ttsVars, playVars>> => WorkerTypeOK'
           /\ UNCHANGED intrVars => InterruptTypeOK'
           /\ UNCHANGED history => HistoryTypeOK'
<1>1. UNCHANGED <<life, procVars>> => ProcessTypeOK'
  BY DEF TypeOK, ProcessTypeOK, life, procVars
<1>2. UNCHANGED stateVars => StateTypeOK'
  BY DEF TypeOK, StateTypeOK, stateVars
<1>3. UNCHANGED queueVars => QueueTypeOK'
  BY DEF TypeOK, QueueTypeOK, queueVars
<1>4. UNCHANGED <<ttsVars, playVars>> => WorkerTypeOK'
  BY DEF TypeOK, WorkerTypeOK, ttsVars, playVars
<1>5. UNCHANGED intrVars => InterruptTypeOK'
  BY DEF TypeOK, InterruptTypeOK, intrVars
<1>6. UNCHANGED history => HistoryTypeOK'
  BY DEF TypeOK, HistoryTypeOK, history
<1>. QED  BY <1>1, <1>2, <1>3, <1>4, <1>5, <1>6

LEMMA FailStateType ==
    ASSUME NEW r, StateTypeOK, FailState(r)
    PROVE  failed' \in [Requests -> BOOLEAN]
  BY DEF StateTypeOK, FailState

LEMMA CompleteStateType ==
    ASSUME NEW r, StateTypeOK, CompleteState(r)
    PROVE  completed' \in [Requests -> BOOLEAN]
  BY DEF StateTypeOK, CompleteState

LEMMA YieldType ==
    ASSUME ProcessTypeOK, NEW k \in 0 .. MaxSentences, NEW next, NEW otherwise,
           Yield(k, next, otherwise)
    PROVE  made' \in [Requests -> 0 .. MaxSentences] /\ burst' \in 0 .. MaxSentences
<1>1. made[req] + k \in 0 .. MaxSentences \/ req \notin Requests
  BY DEF ProcessTypeOK, Yield
<1>. QED  BY <1>1 DEF ProcessTypeOK, Yield

LEMMA QueueRequests ==
    ASSUME NEW q \in Seq(Task)
    PROVE  {t.req : t \in Range(q)} \subseteq Requests
<1>1. \A n \in DOMAIN q : q[n] \in Task
  OBVIOUS
<1>2. \A t \in Range(q) : t.req \in Requests
  BY <1>1 DEF Range, Task
<1>. QED  BY <1>2

LEMMA TypeProcess ==
    ASSUME TypeOK, RequestInPlace, Start \/ ProcStart \/ Process
    PROVE  TypeOK'
<1> USE TypeFrame
<1>1. CASE Start
  <2>1. ProcessTypeOK'  BY <1>1 DEF Start, TypeOK, ProcessTypeOK, procVars
  <2>2. QueueTypeOK'    BY <1>1 DEF Start, TypeOK, QueueTypeOK
  <2>3. WorkerTypeOK'   BY <1>1 DEF Start, TypeOK, WorkerTypeOK, TtsPCs, PlayPCs
  <2>. QED  BY <1>1, <2>1, <2>2, <2>3 DEF Start, TypeOK
<1>2. CASE ProcStart
  <2>1. req + 1 \in Requests
    BY <1>2 DEF TypeOK, ProcessTypeOK, ProcStart
  <2>2. result' \in [Requests -> {"none", "ok", "failed"}]
    BY <1>2, <2>1 DEF TypeOK, ProcessTypeOK, ProcStart
  <2>3. req' \in 0 .. NumRequests
    BY <1>2, <2>1 DEF ProcStart
  <2>4. ProcessTypeOK'
    BY <1>2, <2>2, <2>3 DEF TypeOK, ProcessTypeOK, ProcStart, life, ProcPCs
  <2>. QED  BY <1>2, <2>4 DEF ProcStart, TypeOK
<1>3. CASE ProcSetActive
  <2>1. ProcessTypeOK'
    BY <1>3 DEF TypeOK, ProcessTypeOK, ProcSetActive, life, ProcPCs
  <2>. QED  BY <1>3, <2>1 DEF ProcSetActive, TypeOK
<1>4. CASE ProcChunk
  <2>1. PICK k \in 0 .. MaxSentences : Yield(k, "handler", "query")
    BY <1>4 DEF ProcChunk
  <2>2. made' \in [Requests -> 0 .. MaxSentences] /\ burst' \in 0 .. MaxSentences
    BY <2>1, YieldType DEF TypeOK
  <2>3. ProcessTypeOK'
    BY <1>4, <2>1, <2>2 DEF TypeOK, ProcessTypeOK, ProcChunk, Yield, life, ProcPCs
  <2>. QED  BY <1>4, <2>3 DEF ProcChunk, TypeOK
<1>5. CASE ProcPush
  <2>1. made[req] \in 0 .. MaxSentences /\ burst \in 1 .. made[req] /\ req \in Requests
    BY <1>5 DEF TypeOK, ProcessTypeOK, ProcPush, RequestInPlace
  <2>2. [req |-> req, seq |-> made[req] - burst + 1] \in Task
    BY <2>1 DEF Task
  <2>3. QueueTypeOK'
    BY <1>5, <2>2 DEF TypeOK, QueueTypeOK, ProcPush
  <2>4. ProcessTypeOK'
    BY <1>5 DEF TypeOK, ProcessTypeOK, ProcPush, AfterPush, RequestInPlace, ProcPCs, life
  <2>5. StateTypeOK'
    BY <1>5, FailStateType DEF TypeOK, StateTypeOK, ProcPush
  <2>. QED  BY <1>5, <2>3, <2>4, <2>5 DEF ProcPush, TypeOK
<1>6. CASE ProcQueryReturns
  <2>1. made' \in [Requests -> 0 .. MaxSentences] /\ burst' \in 0 .. MaxSentences
    BY <1>6, YieldType DEF TypeOK, ProcessTypeOK, ProcQueryReturns
  <2>2. ProcessTypeOK'
    BY <1>6, <2>1 DEF TypeOK, ProcessTypeOK, ProcQueryReturns, Yield, life, ProcPCs
  <2>3. StateTypeOK'
    BY <1>6, FailStateType DEF TypeOK, StateTypeOK, ProcQueryReturns
  <2>. QED  BY <1>6, <2>2, <2>3 DEF ProcQueryReturns, TypeOK
<1>7. CASE ProcFlush
  <2>1. {0, 1} \subseteq 0 .. MaxSentences
    OBVIOUS
  <2>2. made' \in [Requests -> 0 .. MaxSentences] /\ burst' \in 0 .. MaxSentences
    BY <1>7, <2>1, YieldType DEF TypeOK, ProcessTypeOK, ProcFlush
  <2>3. ProcessTypeOK'
    BY <1>7, <2>2 DEF TypeOK, ProcessTypeOK, ProcFlush, Yield, life, ProcPCs
  <2>. QED  BY <1>7, <2>3 DEF ProcFlush, TypeOK
<1>8. CASE ProcEnd
  <2>1. EndOf(req) \in Task
    BY <1>8 DEF TypeOK, ProcessTypeOK, RequestInPlace, ProcEnd, EndOf, Task
  <2>2. QueueTypeOK'
    BY <1>8, <2>1 DEF TypeOK, QueueTypeOK, ProcEnd
  <2>3. ProcessTypeOK'
    BY <1>8 DEF TypeOK, ProcessTypeOK, ProcEnd, life, ProcPCs
  <2>4. StateTypeOK'
    BY <1>8, FailStateType, CompleteStateType DEF TypeOK, StateTypeOK, ProcEnd
  <2>. QED  BY <1>8, <2>2, <2>3, <2>4 DEF ProcEnd, TypeOK
<1>9. CASE ProcWait
  <2>1. ProcessTypeOK'
    BY <1>9 DEF TypeOK, ProcessTypeOK, ProcWait, life, ProcPCs
  <2>. QED  BY <1>9, <2>1 DEF ProcWait, TypeOK
<1>10. CASE ProcReturn
  <2>1. ProcessTypeOK'
    BY <1>10 DEF TypeOK, ProcessTypeOK, ProcReturn, life, ProcPCs
  <2>. QED  BY <1>10, <2>1 DEF ProcReturn, TypeOK
<1>. QED
  BY <1>1, <1>2, <1>3, <1>4, <1>5, <1>6, <1>7, <1>8, <1>9, <1>10 DEF Process

LEMMA TypeTts ==
    ASSUME TypeOK, TasksInPlace, Tts
    PROVE  TypeOK'
<1> USE TypeFrame
<1>1. tts \in {"synth", "recheck", "push"} => ttsTask \in Task
  BY DEF TypeOK, WorkerTypeOK, TasksInPlace
<1>2. CASE TtsPop
  <2>1. sentenceQ # <<>> => Head(sentenceQ) \in Task /\ Tail(sentenceQ) \in Seq(Task)
    BY DEF TypeOK, QueueTypeOK
  <2>2. QueueTypeOK'   BY <1>2, <2>1 DEF TypeOK, QueueTypeOK, TtsPop
  <2>3. WorkerTypeOK'  BY <1>2, <2>1 DEF TypeOK, WorkerTypeOK, TtsPop, TtsPCs, playVars
  <2>. QED  BY <1>2, <2>2, <2>3 DEF TtsPop, TypeOK
<1>3. CASE TtsRecheck
  <2>1. WorkerTypeOK'
    BY <1>3 DEF TypeOK, WorkerTypeOK, TtsRecheck, TtsDrop, TtsPCs, playVars
  <2>. QED  BY <1>3, <2>1 DEF TtsRecheck, TypeOK
<1>4. CASE TtsSynth
  <2>1. WorkerTypeOK'
    BY <1>4 DEF TypeOK, WorkerTypeOK, TtsSynth, TtsDrop, TtsPCs, playVars
  <2>2. StateTypeOK'
    BY <1>4, FailStateType DEF TypeOK, StateTypeOK, TtsSynth
  <2>. QED  BY <1>4, <2>1, <2>2 DEF TtsSynth, TypeOK
<1>5. CASE TtsPush
  <2>1. ttsTask \in Task
    BY <1>1, <1>5 DEF TtsPush
  <2>2. QueueTypeOK'
    BY <1>5, <2>1, SMTT(30) DEF TypeOK, QueueTypeOK, TtsPush
  <2>3. WorkerTypeOK'
    BY <1>5 DEF TypeOK, WorkerTypeOK, TtsPush, TtsDrop, TtsPCs, playVars
  <2>4. StateTypeOK'
    BY <1>5, FailStateType, CompleteStateType DEF TypeOK, StateTypeOK, TtsPush
  <2>5. Kept(ttsTask.req) \subseteq Requests
    BY QueueRequests DEF TypeOK, QueueTypeOK, HistoryTypeOK, Kept
  <2>6. HistoryTypeOK'
    BY <1>5, <2>5 DEF TypeOK, HistoryTypeOK, TtsPush
  <2>. QED  BY <1>5, <2>2, <2>3, <2>4, <2>6 DEF TtsPush, TypeOK
<1>. QED  BY <1>2, <1>3, <1>4, <1>5 DEF Tts

LEMMA TypePlay ==
    ASSUME TypeOK, TasksInPlace, Play
    PROVE  TypeOK'
<1> USE TypeFrame
<1>1. play \in {"complete", "check", "play", "writing", "played"} =>
         playTask \in Task /\ playTask.req \in Requests /\ playTask.seq \in 0 .. MaxSentences
  BY DEF TypeOK, WorkerTypeOK, TasksInPlace, Task
<1>2. CASE PlayPop
  <2>1. audioQ # <<>> => Head(audioQ) \in Task /\ Tail(audioQ) \in Seq(Task)
    BY DEF TypeOK, QueueTypeOK
  <2>2. QueueTypeOK'   BY <1>2, <2>1 DEF TypeOK, QueueTypeOK, PlayPop
  <2>3. WorkerTypeOK'  BY <1>2, <2>1 DEF TypeOK, WorkerTypeOK, PlayPop, PlayPCs, ttsVars
  <2>. QED  BY <1>2, <2>2, <2>3 DEF PlayPop, TypeOK
<1>3. CASE PlayComplete
  <2>1. WorkerTypeOK'
    BY <1>3 DEF TypeOK, WorkerTypeOK, PlayComplete, PlayNext, PlayPCs, ttsVars
  <2>2. StateTypeOK'
    BY <1>3, CompleteStateType DEF TypeOK, StateTypeOK, PlayComplete
  <2>. QED  BY <1>3, <2>1, <2>2 DEF PlayComplete, TypeOK
<1>4. CASE PlayCheck
  <2>1. WorkerTypeOK'
    BY <1>4 DEF TypeOK, WorkerTypeOK, PlayCheck, PlayNext, PlayPCs, ttsVars
  <2>. QED  BY <1>4, <2>1 DEF PlayCheck, TypeOK
<1>5. CASE PlayStart
  <2>1. WorkerTypeOK'
    BY <1>5 DEF TypeOK, WorkerTypeOK, PlayStart, PlayPCs, ttsVars
  <2>2. heard' \in [Requests -> Seq(0 .. MaxSentences)]
    <3>1. heard[playTask.req] \in Seq(0 .. MaxSentences)
      BY <1>1, <1>5 DEF TypeOK, HistoryTypeOK, PlayStart
    <3>2. Append(heard[playTask.req], playTask.seq) \in Seq(0 .. MaxSentences)
      BY <1>1, <1>5, <3>1 DEF PlayStart
    <3>. QED  BY <1>5, <3>2 DEF TypeOK, HistoryTypeOK, PlayStart
  <2>3. stale' \in [Requests -> Nat]
    BY <1>1, <1>5, SMTT(30) DEF TypeOK, HistoryTypeOK, PlayStart
  <2>4. HistoryTypeOK'
    BY <1>5, <2>2, <2>3 DEF TypeOK, HistoryTypeOK, PlayStart
  <2>. QED  BY <1>5, <2>1, <2>4 DEF PlayStart, TypeOK
<1>6. CASE PlayEnd
  <2>1. WorkerTypeOK'
    BY <1>6 DEF TypeOK, WorkerTypeOK, PlayEnd, PlayNext, PlayPCs, ttsVars
  <2>2. StateTypeOK'
    BY <1>6, FailStateType DEF TypeOK, StateTypeOK, PlayEnd
  <2>. QED  BY <1>6, <2>1, <2>2 DEF PlayEnd, TypeOK
<1>7. CASE PlayCount
  <2>1. WorkerTypeOK'
    BY <1>7 DEF TypeOK, WorkerTypeOK, PlayCount, PlayNext, PlayPCs, ttsVars
  <2>2. spoken' \in [Requests -> Nat]
    BY <1>1, <1>7 DEF TypeOK, StateTypeOK, PlayCount
  <2>3. StateTypeOK'
    BY <1>7, <2>2 DEF TypeOK, StateTypeOK, PlayCount
  <2>. QED  BY <1>7, <2>1, <2>3 DEF PlayCount, TypeOK
<1>. QED  BY <1>2, <1>3, <1>4, <1>5, <1>6, <1>7 DEF Play

LEMMA TypeCall ==
    ASSUME TypeOK, NEW i \in Threads, StopPlayback(i) \/ Stop
    PROVE  TypeOK'
<1> USE TypeFrame
<1>1. ProcessTypeOK'
  BY DEF TypeOK, ProcessTypeOK, ReadActive, StopPlayback, Stop, Call, life, procVars
<1>2. InterruptTypeOK'
  BY SMTT(30) DEF TypeOK, ProcessTypeOK, InterruptTypeOK, ReadActive, StopPlayback, Stop, Call,
     IntrGoto,
         IntrPCs
<1>. QED  BY <1>1, <1>2 DEF ReadActive, StopPlayback, Stop, Call, TypeOK

LEMMA TypeInterrupt ==
    ASSUME TypeOK, TasksInPlace, NEW i \in Threads, Interrupt(i)
    PROVE  TypeOK'
<1> USE TypeFrame
<1>1. InterruptTypeOK'
  <2>1. CASE IntrRead(i) \/ Cancel(i)
    BY <2>1 DEF TypeOK, InterruptTypeOK, ProcessTypeOK, IntrRead, ReadActive, Cancel, IntrGoto,
       IntrPCs
  <2>2. CASE ClearSentences(i) \/ ClearAudio(i) \/ StopPlayer(i)
    BY <2>2 DEF TypeOK, InterruptTypeOK, ClearSentences, ClearAudio, StopPlayer, IntrGoto,
                IntrPCs
  <2>3. CASE IntrFail(i) \/ IntrComplete(i)
    BY <2>3 DEF TypeOK, InterruptTypeOK, IntrFail, IntrComplete, IntrGoto, IntrPCs
  <2>. QED  BY <2>1, <2>2, <2>3 DEF Interrupt
<1>2. CASE IntrRead(i)
  BY <1>1, <1>2 DEF IntrRead, ReadActive, TypeOK
<1>3. CASE IntrFail(i)
  <2>1. StateTypeOK'
    BY <1>3, FailStateType DEF TypeOK, StateTypeOK, IntrFail
  <2>. QED  BY <1>1, <1>3, <2>1 DEF IntrFail, TypeOK
<1>4. CASE IntrComplete(i)
  <2>1. StateTypeOK'
    BY <1>4, CompleteStateType DEF TypeOK, StateTypeOK, IntrComplete
  <2>. QED  BY <1>1, <1>4, <2>1 DEF IntrComplete, TypeOK
<1>5. CASE ClearSentences(i)
  <2>1. Others(sentenceQ, i) \subseteq Requests
    BY QueueRequests DEF TypeOK, QueueTypeOK, Others
  <2>2. HistoryTypeOK'
    BY <1>5, <2>1 DEF TypeOK, HistoryTypeOK, ClearSentences
  <2>3. QueueTypeOK'
    BY <1>5 DEF TypeOK, QueueTypeOK, ClearSentences
  <2>. QED  BY <1>1, <1>5, <2>2, <2>3 DEF ClearSentences, TypeOK
<1>6. CASE ClearAudio(i)
  <2>1. Others(audioQ, i) \subseteq Requests
    BY QueueRequests DEF TypeOK, QueueTypeOK, Others
  <2>2. HistoryTypeOK'
    BY <1>6, <2>1 DEF TypeOK, HistoryTypeOK, ClearAudio
  <2>3. QueueTypeOK'
    BY <1>6 DEF TypeOK, QueueTypeOK, ClearAudio
  <2>. QED  BY <1>1, <1>6, <2>2, <2>3 DEF ClearAudio, TypeOK
<1>7. CASE StopPlayer(i)
  <2>1. play = "writing" => playTask.req \in Requests
    BY DEF TypeOK, WorkerTypeOK, TasksInPlace, Task
  <2>2. HistoryTypeOK'
    BY <1>7, <2>1 DEF TypeOK, HistoryTypeOK, StopPlayer
  <2>3. WorkerTypeOK'
    BY <1>7 DEF TypeOK, WorkerTypeOK, StopPlayer, ttsVars
  <2>. QED  BY <1>1, <1>7, <2>2, <2>3 DEF StopPlayer, TypeOK
<1>8. CASE Cancel(i)
  BY <1>1, <1>8 DEF Cancel, TypeOK
<1>. QED  BY <1>2, <1>3, <1>4, <1>5, <1>6, <1>7, <1>8 DEF Interrupt

LEMMA TypeShutdown ==
    ASSUME TypeOK, Shutdown
    PROVE  TypeOK'
<1> USE TypeFrame
<1>1. InterruptTypeOK'
  BY DEF TypeOK, InterruptTypeOK, Shutdown, IntrGoto, IntrPCs, CloseSentences, CloseAudio,
         JoinTts, JoinPlayback
<1>2. QueueTypeOK'
  BY DEF TypeOK, QueueTypeOK, Shutdown, queueVars, CloseSentences, CloseAudio,
         JoinTts, JoinPlayback
<1>3. ProcessTypeOK'
  BY DEF TypeOK, ProcessTypeOK, Shutdown, procVars, life, CloseSentences, CloseAudio,
         JoinTts, JoinPlayback
<1>. QED
  BY <1>1, <1>2, <1>3 DEF TypeOK, Shutdown, CloseSentences, CloseAudio, JoinTts, JoinPlayback

LEMMA TypeNext == ASSUME Shape, [Next]_vars PROVE TypeOK'
<1>1. CASE UNCHANGED vars
  BY <1>1, TypeFrame DEF Shape, TypeOK, vars
<1>2. CASE Next
  BY <1>2, TypeProcess, TypeTts, TypePlay, TypeCall, TypeInterrupt, TypeShutdown
     DEF Shape, ControlOK, Next
<1>. QED  BY <1>1, <1>2
-----------------------------------------------------------------------------
(* The places of the threads. *)

Interrupting == Stop \/ Shutdown \/ \E i \in Threads : StopPlayback(i) \/ Interrupt(i)

LEMMA Frames ==
    ASSUME [Next]_vars
    PROVE  /\ \/ Start \/ ProcStart \/ Process
              \/ UNCHANGED <<proc, req, burst, made>>
           /\ Start \/ Tts \/ Play \/ UNCHANGED <<tts, ttsTask, play, playTask>>
           /\ Interrupting \/ UNCHANGED <<intr, target>>
<1> USE DEF life, procVars, stateVars, queueVars, ttsVars, playVars, intrVars
<1>1. CASE UNCHANGED vars
  BY <1>1 DEF vars
<1>2. CASE Start \/ ProcStart
  BY <1>2 DEF Start, ProcStart
<1>3. CASE Process
  BY <1>3 DEF Process, ProcSetActive, ProcChunk, ProcPush, ProcQueryReturns, ProcFlush,
              ProcEnd, ProcWait, ProcReturn
<1>4. CASE Tts
  BY <1>4 DEF Tts, TtsPop, TtsRecheck, TtsSynth, TtsPush
<1>5. CASE Play
  BY <1>5 DEF Play, PlayPop, PlayComplete, PlayCheck, PlayStart, PlayEnd, PlayCount
<1>6. CASE Interrupting
  BY <1>6 DEF Interrupting, Stop, ReadActive, StopPlayback, Call, Shutdown, CloseSentences,
     CloseAudio,
              JoinTts, JoinPlayback, Interrupt, IntrRead, ReadActive, IntrFail, IntrComplete,
              ClearSentences, ClearAudio, StopPlayer, Cancel
<1>. QED  BY <1>1, <1>2, <1>3, <1>4, <1>5, <1>6 DEF Next, Interrupting

LEMMA RequestInPlaceNext == ASSUME Shape, [Next]_vars PROVE RequestInPlace'
<1> USE DEF Shape, ControlOK, RequestInPlace
<1>1. CASE UNCHANGED <<proc, req, burst, made>>
  BY <1>1
<1>2. CASE Start \/ ProcStart
  BY <1>2 DEF Start, ProcStart, procVars, TypeOK, ProcessTypeOK
<1>3. CASE ProcChunk \/ ProcQueryReturns \/ ProcFlush
  <2>1. req \in Requests /\ made \in [Requests -> 0 .. MaxSentences] /\ burst = 0
    BY <1>3 DEF ProcChunk, ProcQueryReturns, ProcFlush, TypeOK, ProcessTypeOK
  <2>2. \A k \in 0 .. MaxSentences : \A next, otherwise :
           Yield(k, next, otherwise) => burst' = k /\ k <= made'[req]
    BY <2>1 DEF Yield
  <2>. QED  BY <1>3, <2>1, <2>2 DEF ProcChunk, ProcQueryReturns, ProcFlush, Yield
<1>4. CASE ProcPush
  BY <1>4 DEF ProcPush, AfterPush, TypeOK, ProcessTypeOK
<1>5. CASE ProcSetActive \/ ProcEnd \/ ProcWait \/ ProcReturn
  BY <1>5 DEF ProcSetActive, ProcEnd, ProcWait, ProcReturn
<1>. QED  BY <1>1, <1>2, <1>3, <1>4, <1>5, Frames DEF Process

LEMMA TasksInPlaceNext == ASSUME Shape, [Next]_vars PROVE TasksInPlace'
<1> USE DEF Shape, ControlOK, TasksInPlace
<1>1. CASE UNCHANGED <<tts, ttsTask, play, playTask>>
  BY <1>1
<1>2. CASE Start
  BY <1>2 DEF Start, NoWorkersBeforeStart
<1>3. NoTask \notin Task
  BY DEF NoTask, Task
<1>4. CASE Tts
  <2>1. sentenceQ # <<>> => Head(sentenceQ) \in Task
    BY DEF TypeOK, QueueTypeOK
  <2>2. UNCHANGED <<play, playTask>>
    BY <1>4 DEF Tts, TtsPop, TtsRecheck, TtsSynth, TtsPush, playVars
  <2>. QED  BY <1>3, <1>4, <2>1, <2>2 DEF Tts, TtsPop, TtsRecheck, TtsSynth, TtsPush, TtsDrop
<1>5. CASE Play
  <2>1. audioQ # <<>> => Head(audioQ) \in Task
    BY DEF TypeOK, QueueTypeOK
  <2>2. UNCHANGED <<tts, ttsTask>>
    BY <1>5 DEF Play, PlayPop, PlayComplete, PlayCheck, PlayStart, PlayEnd, PlayCount, ttsVars
  <2>. QED
    BY <1>3, <1>5, <2>1, <2>2 DEF Play, PlayPop, PlayComplete, PlayCheck, PlayStart, PlayEnd,
       PlayCount, PlayNext
<1>. QED  BY <1>1, <1>2, <1>4, <1>5, Frames

LEMMA NoWorkersBeforeStartNext == ASSUME Shape, [Next]_vars PROVE NoWorkersBeforeStart'
<1> USE DEF Shape, ControlOK, NoWorkersBeforeStart, TypeOK, InterruptTypeOK, IntrGoto, life
<1>1. CASE UNCHANGED vars
  BY <1>1 DEF vars, ttsVars, playVars, intrVars
<1>2. CASE Start \/ ProcStart
  BY <1>2 DEF Start, ProcStart, ttsVars, playVars, intrVars, TypeOK, ProcessTypeOK
<1>3. CASE Process
  BY <1>3 DEF Process, ProcSetActive, ProcChunk, ProcPush, ProcQueryReturns, ProcFlush,
     ProcEnd, ProcWait, ProcReturn, ttsVars, playVars, intrVars
<1>4. CASE Tts
  BY <1>4 DEF Tts, TtsPop, TtsRecheck, TtsSynth, TtsPush, TtsDrop, playVars, intrVars
<1>5. CASE Play
  BY <1>5 DEF Play, PlayPop, PlayComplete, PlayCheck, PlayStart, PlayEnd, PlayCount, PlayNext,
     ttsVars, intrVars
<1>6. CASE Shutdown
  BY <1>6 DEF Shutdown, CloseSentences, CloseAudio, JoinTts, JoinPlayback, ttsVars, playVars
<1>7. CASE Stop
  BY <1>7 DEF Stop, Call, ttsVars, playVars
<1>8. ASSUME NEW i \in Threads, StopPlayback(i)
      PROVE  NoWorkersBeforeStart'
  BY <1>8 DEF ReadActive, StopPlayback, Call, ttsVars, playVars
<1>9. ASSUME NEW i \in Threads, Interrupt(i)
      PROVE  NoWorkersBeforeStart'
  BY <1>9 DEF Interrupt, IntrRead, ReadActive, IntrFail, IntrComplete, ClearSentences,
     ClearAudio, StopPlayer, Cancel, ttsVars, playVars
<1>. QED  BY <1>1, <1>2, <1>3, <1>4, <1>5, <1>6, <1>7, <1>8, <1>9 DEF Next

LEMMA WorkersOutliveQueuesNext == ASSUME Shape, [Next]_vars PROVE WorkersOutliveQueues'
<1> USE DEF Shape, ControlOK, WorkersOutliveQueues
<1>1. CASE UNCHANGED vars
  BY <1>1 DEF vars, ttsVars, playVars, queueVars, intrVars
<1>2. CASE Start \/ ProcStart
  BY <1>2 DEF Start, ProcStart, ttsVars, playVars, queueVars, intrVars
<1>3. CASE Process
  BY <1>3 DEF Process, ProcSetActive, ProcChunk, ProcPush, ProcQueryReturns, ProcFlush,
     ProcEnd, ProcWait, ProcReturn, ttsVars, playVars, queueVars, intrVars
<1>4. CASE Tts
  BY <1>4 DEF Tts, TtsPop, TtsRecheck, TtsSynth, TtsPush, TtsDrop, playVars, queueVars, intrVars
<1>5. CASE Play
  BY <1>5 DEF Play, PlayPop, PlayComplete, PlayCheck, PlayStart, PlayEnd, PlayCount, PlayNext,
     ttsVars, queueVars, intrVars
<1>6. CASE Shutdown
  BY <1>6 DEF Shutdown, CloseSentences, CloseAudio, JoinTts, JoinPlayback, IntrGoto, TypeOK,
     InterruptTypeOK, ttsVars, playVars, queueVars
<1>7. CASE Stop
  BY <1>7 DEF Stop, Call, IntrGoto, TypeOK, InterruptTypeOK, ttsVars, playVars, queueVars
<1>8. ASSUME NEW i \in Threads, StopPlayback(i) \/ Interrupt(i)
      PROVE  WorkersOutliveQueues'
  BY <1>8 DEF ReadActive, StopPlayback, Call, Interrupt, IntrRead, ReadActive, IntrFail,
     IntrComplete, ClearSentences,
     ClearAudio, StopPlayer, Cancel, IntrGoto, TypeOK, InterruptTypeOK, ttsVars, playVars,
     queueVars
<1>. QED  BY <1>1, <1>2, <1>3, <1>4, <1>5, <1>6, <1>7, <1>8 DEF Next

LEMMA ClosedForGoodNext == ASSUME Shape, [Next]_vars PROVE ClosedForGood'
<1> USE DEF Shape, ControlOK, ClosedForGood
<1>1. CASE UNCHANGED vars
  BY <1>1 DEF vars, life, queueVars
<1>2. CASE Start \/ ProcStart
  BY <1>2 DEF Start, ProcStart, life, queueVars
<1>3. CASE Process
  BY <1>3 DEF Process, ProcSetActive, ProcChunk, ProcPush, ProcQueryReturns, ProcFlush,
     ProcEnd, ProcWait, ProcReturn, life, queueVars
<1>4. CASE Tts
  BY <1>4 DEF Tts, TtsPop, TtsRecheck, TtsSynth, TtsPush, life, queueVars
<1>5. CASE Play
  BY <1>5 DEF Play, PlayPop, PlayComplete, PlayCheck, PlayStart, PlayEnd, PlayCount,
     life, queueVars
<1>6. CASE Shutdown
  BY <1>6 DEF Shutdown, CloseSentences, CloseAudio, JoinTts, JoinPlayback,
     NoWorkersBeforeStart, life, queueVars
<1>7. CASE Stop
  BY <1>7 DEF Stop
<1>8. ASSUME NEW i \in Threads, StopPlayback(i) \/ Interrupt(i)
      PROVE  ClosedForGood'
  BY <1>8 DEF StopPlayback, Interrupt, IntrRead, IntrFail, IntrComplete, ClearSentences,
     ClearAudio, StopPlayer, Cancel, life, queueVars
<1>. QED  BY <1>1, <1>2, <1>3, <1>4, <1>5, <1>6, <1>7, <1>8 DEF Next

\* completed only grows.
LEMMA CompletedGrows ==
    ASSUME Shape, [Next]_vars, NEW r \in Requests, completed[r]
    PROVE  completed'[r]
<1> USE DEF Shape, TypeOK, StateTypeOK, stateVars, CompleteState
<1>1. CASE UNCHANGED vars
  BY <1>1 DEF vars
<1>2. CASE Start \/ ProcStart
  BY <1>2 DEF Start, ProcStart
<1>3. CASE Process
  BY <1>3 DEF Process, ProcSetActive, ProcChunk, ProcPush, ProcQueryReturns, ProcFlush,
     ProcEnd, ProcWait, ProcReturn
<1>4. CASE Tts
  BY <1>4 DEF Tts, TtsPop, TtsRecheck, TtsSynth, TtsPush
<1>5. CASE Play
  BY <1>5 DEF Play, PlayPop, PlayComplete, PlayCheck, PlayStart, PlayEnd, PlayCount
<1>6. CASE Interrupting
  BY <1>6 DEF Interrupting, Stop, ReadActive, StopPlayback, Call, Shutdown, CloseSentences,
     CloseAudio,
              JoinTts, JoinPlayback, Interrupt, IntrRead, ReadActive, IntrFail, IntrComplete,
              ClearSentences, ClearAudio, StopPlayer, Cancel
<1>. QED  BY <1>1, <1>2, <1>3, <1>4, <1>5, <1>6 DEF Next, Interrupting

LEMMA CompletesBeforeClearingNext == ASSUME Shape, [Next]_vars PROVE CompletesBeforeClearing'
<1> USE DEF Shape, ControlOK
<1> SUFFICES ASSUME NEW j \in Threads,
                    intr'[j] \in {"clearS", "clearA", "flag", "cancel"},
                    target'[j] # NoRequest
             PROVE  completed'[target'[j]]
  BY DEF CompletesBeforeClearing
<1> USE DEF TypeOK, InterruptTypeOK
<1>1. CASE UNCHANGED <<intr, target>>
  BY <1>1, CompletedGrows DEF CompletesBeforeClearing
<1>2. CASE Stop
  BY <1>2, CompletedGrows DEF Stop, Call, IntrGoto, CompletesBeforeClearing
<1>3. CASE Shutdown
  BY <1>3, CompletedGrows DEF Shutdown, CloseSentences, CloseAudio, JoinTts, JoinPlayback,
     IntrGoto, CompletesBeforeClearing
<1>4. ASSUME NEW i \in Threads, StopPlayback(i)
      PROVE  completed'[target'[j]]
  BY <1>4, CompletedGrows DEF ReadActive, StopPlayback, Call, IntrGoto, CompletesBeforeClearing
<1>5. ASSUME NEW i \in Threads, IntrComplete(i)
      PROVE  completed'[target'[j]]
  BY <1>5, CompletedGrows DEF IntrComplete, CompleteState, StateTypeOK, IntrGoto,
     CompletesBeforeClearing
<1>6. ASSUME NEW i \in Threads,
             \/ IntrRead(i) \/ IntrFail(i) \/ ClearSentences(i) \/ ClearAudio(i)
             \/ StopPlayer(i) \/ Cancel(i)
      PROVE  completed'[target'[j]]
  BY <1>6, CompletedGrows DEF IntrRead, ReadActive, IntrFail, ClearSentences, ClearAudio,
     StopPlayer, Cancel,
     IntrGoto, CompletesBeforeClearing
<1>. QED  BY <1>1, <1>2, <1>3, <1>4, <1>5, <1>6, Frames DEF Interrupting, Interrupt

LEMMA ShapeNext == ASSUME Shape, [Next]_vars PROVE Shape'
  BY TypeNext, NoWorkersBeforeStartNext, RequestInPlaceNext, TasksInPlaceNext,
     WorkersOutliveQueuesNext, ClosedForGoodNext,
     CompletesBeforeClearingNext DEF Shape, ControlOK

(***************************************************************************)
(* Every variable keeps its type.                                          *)
(***************************************************************************)
THEOREM TypeCorrect == Spec => []TypeOK
<1>1. Spec => []Shape
  BY ShapeInit, ShapeNext, PTL DEF Spec
<1>. QED  BY <1>1, PTL DEF Shape

(***************************************************************************)
(* The threads keep the places they rely on in each other: a worker exits  *)
(* only behind its closed queue, the queues close only on an assistant     *)
(* that is stopped for good, and an interrupt clears the queues only after *)
(* it has completed the request it found.                                  *)
(***************************************************************************)
THEOREM ControlCorrect == Spec => []ControlOK
<1>1. Spec => []Shape
  BY ShapeInit, ShapeNext, PTL DEF Spec
<1>. QED  BY <1>1, PTL DEF Shape
-----------------------------------------------------------------------------
(* The end mark of the waiting request. *)

LEMMA HoldsAppend ==
    ASSUME NEW q \in Seq(Task), NEW s \in Task, NEW t
    PROVE  Holds(Append(q, s), t) <=> Holds(q, t) \/ s = t
<1>1. /\ Len(Append(q, s)) = Len(q) + 1
      /\ Append(q, s)[Len(q) + 1] = s
      /\ \A n \in 1 .. Len(q) : Append(q, s)[n] = q[n]
  OBVIOUS
<1>2. Holds(q, t) \/ s = t => Holds(Append(q, s), t)
  BY <1>1 DEF Holds
<1>3. Holds(Append(q, s), t) => Holds(q, t) \/ s = t
  BY <1>1 DEF Holds
<1>. QED  BY <1>2, <1>3

LEMMA HoldsTail ==
    ASSUME NEW q \in Seq(Task), NEW t, Holds(q, t)
    PROVE  q # <<>> /\ (Head(q) = t \/ Holds(Tail(q), t))
<1>1. PICK n \in 1 .. Len(q) : q[n] = t
  BY DEF Holds
<1>2. CASE n = 1
  BY <1>1, <1>2
<1>3. CASE n # 1
  <2>1. n - 1 \in 1 .. Len(Tail(q)) /\ Tail(q)[n - 1] = t
    BY <1>1, <1>3
  <2>. QED  BY <1>1, <2>1 DEF Holds
<1>. QED  BY <1>2, <1>3

LEMMA HoldsRequest ==
    ASSUME NEW q \in Seq(Task), NEW t, Holds(q, t)
    PROVE  t.req \in {u.req : u \in Range(q)}
  BY DEF Holds, Range

\* A request loses nothing and stays incomplete only if it was so before.
LEMMA RobbedGrows == ASSUME Shape, [Next]_vars PROVE robbed \subseteq robbed'
<1> USE DEF history
<1>1. CASE UNCHANGED vars
  BY <1>1 DEF vars
<1>2. CASE Start \/ ProcStart
  BY <1>2 DEF Start, ProcStart
<1>3. CASE Process
  BY <1>3 DEF Process, ProcSetActive, ProcChunk, ProcPush, ProcQueryReturns, ProcFlush,
     ProcEnd, ProcWait, ProcReturn
<1>4. CASE Tts
  BY <1>4 DEF Tts, TtsPop, TtsRecheck, TtsSynth, TtsPush, Kept
<1>5. CASE Play
  BY <1>5 DEF Play, PlayPop, PlayComplete, PlayCheck, PlayStart, PlayEnd, PlayCount
<1>6. CASE Interrupting
  BY <1>6 DEF Interrupting, Stop, ReadActive, StopPlayback, Call, Shutdown, CloseSentences,
     CloseAudio,
              JoinTts, JoinPlayback, Interrupt, IntrRead, ReadActive, IntrFail, IntrComplete,
              ClearSentences, ClearAudio, StopPlayer, Cancel
<1>. QED  BY <1>1, <1>2, <1>3, <1>4, <1>5, <1>6 DEF Next, Interrupting

LEMMA WaitIsCoveredNext ==
    ASSUME Shape, WaitIsCovered, [Next]_vars
    PROVE  WaitIsCovered'
<1> USE DEF Shape, ControlOK
<1> SUFFICES ASSUME proc' = "wait", ~completed'[req'], req' \notin robbed'
             PROVE  EndInFlight(req)' /\ req' = req
  BY DEF WaitIsCovered, EndInFlight, EndOf
<1>1. req' = req /\ req \in Requests /\ (proc = "wait" \/ ProcEnd)
  <2>1. CASE UNCHANGED <<proc, req, burst, made>>
    BY <2>1 DEF RequestInPlace, TypeOK, ProcessTypeOK
  <2>2. CASE Start \/ ProcStart
    BY <2>2 DEF Start, ProcStart, procVars, RequestInPlace, TypeOK, ProcessTypeOK
  <2>3. CASE Process
    BY <2>3 DEF Process, ProcSetActive, ProcChunk, ProcPush, AfterPush, ProcQueryReturns,
       ProcFlush, Yield, ProcEnd, ProcWait, ProcReturn, RequestInPlace, TypeOK, ProcessTypeOK
  <2>. QED  BY <2>1, <2>2, <2>3, Frames
<1>2. CASE ProcEnd
  <2>1. ~sentenceClosed /\ sentenceQ' = Append(sentenceQ, EndOf(req)) /\ tts' = tts
    BY <1>1, <1>2 DEF ProcEnd, CompleteState, TypeOK, StateTypeOK, ttsVars
  <2>2. EndOf(req) \in Task
    BY <1>1 DEF EndOf, Task
  <2>3. Holds(sentenceQ', EndOf(req))
    BY <2>1, <2>2, HoldsAppend DEF TypeOK, QueueTypeOK
  <2>. QED  BY <1>1, <2>1, <2>3 DEF WorkersOutliveQueues, EndInFlight, EndOf
<1>3. SUFFICES ASSUME proc = "wait" PROVE EndInFlight(req)'
  BY <1>1, <1>2
<1>4. ~completed[req] /\ req \notin robbed /\ EndInFlight(req)
  BY <1>1, <1>3, CompletedGrows, RobbedGrows DEF WaitIsCovered
<1> DEFINE end == EndOf(req)
<1>5. end' = end /\ end.req = req /\ end.seq = 0 /\ end # NoTask
  BY <1>1 DEF EndOf, NoTask
<1>6. CASE UNCHANGED <<queueVars, tts, ttsTask, play, playTask>>
  BY <1>4, <1>5, <1>6 DEF EndInFlight, queueVars
<1>7. CASE Start
  BY <1>4, <1>5, <1>7 DEF Start, EndInFlight, NoWorkersBeforeStart
<1>8. CASE Tts
  <2>1. CASE TtsPop
    <3>1. Holds(sentenceQ, end) =>
             sentenceQ # <<>> /\ (Head(sentenceQ) = end \/ Holds(Tail(sentenceQ), end))
      BY HoldsTail DEF TypeOK, QueueTypeOK
    <3>. QED
      BY <1>4, <1>5, <2>1, <3>1 DEF TtsPop, EndInFlight, playVars, TasksInPlace
  <2>2. CASE TtsRecheck \/ TtsSynth
    BY <1>4, <1>5, <2>2 DEF TtsRecheck, TtsSynth, TtsDrop, EndInFlight, playVars, queueVars,
       TasksInPlace
  <2>3. CASE TtsPush /\ audioClosed
    <3>1. ttsTask.req # req
      BY <1>1, <2>3 DEF TtsPush, CompleteState, TypeOK, StateTypeOK
    <3>2. tts' = "exited" => ~Holds(sentenceQ, end)
      BY <1>1, <1>5, <2>3, <3>1, HoldsRequest DEF TtsPush, Kept, TypeOK, QueueTypeOK
    <3>. QED
      BY <1>4, <1>5, <2>3, <3>1, <3>2 DEF TtsPush, EndInFlight, playVars
  <2>4. CASE TtsPush /\ ~audioClosed
    <3>1. ttsTask \in Task
      BY <2>4 DEF TtsPush, TypeOK, WorkerTypeOK, TasksInPlace
    <3>2. Holds(audioQ', end) <=> Holds(audioQ, end) \/ ttsTask = end
      <4>1. audioQ \in Seq(Task) /\ audioQ' = Append(audioQ, ttsTask)
        BY <2>4 DEF TtsPush, TypeOK, QueueTypeOK
      <4>2. Holds(Append(audioQ, ttsTask), end) <=> Holds(audioQ, end) \/ ttsTask = end
        BY <3>1, <4>1, HoldsAppend
      <4>. QED  BY <4>1, <4>2 DEF Holds
    <3>. QED
      BY <1>4, <1>5, <2>4, <3>2 DEF TtsPush, TtsDrop, EndInFlight, playVars, WorkersOutliveQueues
  <2>. QED  BY <1>8, <2>1, <2>2, <2>3, <2>4 DEF Tts
<1>9. CASE Play
  <2>1. CASE PlayPop
    <3>1. Holds(audioQ, end) =>
             audioQ # <<>> /\ (Head(audioQ) = end \/ Holds(Tail(audioQ), end))
      BY HoldsTail DEF TypeOK, QueueTypeOK
    <3>. QED
      BY <1>4, <1>5, <2>1, <3>1 DEF PlayPop, EndInFlight, ttsVars, TasksInPlace
  <2>2. CASE PlayComplete
    <3>1. playTask # end
      BY <1>1, <1>5, <2>2 DEF PlayComplete, CompleteState, TypeOK, StateTypeOK
    <3>. QED
      BY <1>4, <1>5, <2>2, <3>1 DEF PlayComplete, PlayNext, EndInFlight, ttsVars, queueVars
  <2>3. CASE PlayCheck \/ PlayStart \/ PlayEnd \/ PlayCount
    BY <1>4, <1>5, <2>3 DEF PlayCheck, PlayStart, PlayEnd, PlayCount, PlayNext, EndInFlight,
       ttsVars, queueVars, TasksInPlace
  <2>. QED  BY <1>9, <2>1, <2>2, <2>3 DEF Play
<1>10. ASSUME NEW i \in Threads, ClearSentences(i) \/ ClearAudio(i)
       PROVE  EndInFlight(req)'
  <2>1. target[i] # req
    BY <1>1, <1>4, <1>10 DEF ClearSentences, ClearAudio, CompletesBeforeClearing
  <2>2. CASE ClearSentences(i)
    <3>1. ~Holds(sentenceQ, end)
      BY <1>1, <1>5, <2>1, <2>2, HoldsRequest DEF ClearSentences, Others, TypeOK, QueueTypeOK
    <3>. QED
      BY <1>4, <1>5, <2>2, <3>1 DEF ClearSentences, EndInFlight, ttsVars, playVars
  <2>3. CASE ClearAudio(i)
    <3>1. ~Holds(audioQ, end)
      BY <1>1, <1>5, <2>1, <2>3, HoldsRequest DEF ClearAudio, Others, TypeOK, QueueTypeOK
    <3>. QED
      BY <1>4, <1>5, <2>3, <3>1 DEF ClearAudio, EndInFlight, ttsVars, playVars
  <2>. QED  BY <1>10, <2>2, <2>3
<1>11. CASE Shutdown
  BY <1>4, <1>5, <1>11 DEF Shutdown, CloseSentences, CloseAudio, JoinTts, JoinPlayback,
     EndInFlight, ttsVars, playVars, queueVars
<1>. QED
  <2>1. CASE UNCHANGED vars \/ ProcStart
    BY <1>6, <2>1 DEF vars, ProcStart, ttsVars, playVars
  <2>2. CASE Process
    BY <1>3, <1>6, <2>2 DEF Process, ProcSetActive, ProcChunk, ProcPush, ProcQueryReturns,
       ProcFlush, ProcEnd, ProcWait, ProcReturn, ttsVars, playVars
  <2>3. CASE Stop
    BY <1>6, <2>3 DEF Stop, Call, ttsVars, playVars
  <2>4. ASSUME NEW i \in Threads, StopPlayback(i) \/ Interrupt(i) PROVE EndInFlight(req)'
    BY <1>6, <1>10, <2>4 DEF ReadActive, StopPlayback, Call, Interrupt, IntrRead, ReadActive,
       IntrFail, IntrComplete,
       StopPlayer, Cancel, ttsVars, playVars
  <2>. QED  BY <1>7, <1>8, <1>9, <1>11, <2>1, <2>2, <2>3, <2>4 DEF Next

(***************************************************************************)
(* While processText() waits, the end mark of its request is where a       *)
(* worker that still runs will reach it, unless an interrupt or a worker's *)
(* exit that was not aimed at the request took it away.                    *)
(***************************************************************************)
THEOREM WaitCovered == Spec => []WaitIsCovered
<1>1. Init => Shape /\ WaitIsCovered
  BY ShapeInit DEF Init, WaitIsCovered
<1>2. Shape /\ WaitIsCovered /\ [Next]_vars => Shape' /\ WaitIsCovered'
  BY ShapeNext, WaitIsCoveredNext
<1>. QED  BY <1>1, <1>2, PTL DEF Spec
-----------------------------------------------------------------------------
(* Playbacks begun after the failure of their request. *)

\* The stale playback is the one that was checked before the failure.
StaleOnce ==
    \A r \in Requests :
        /\ stale[r] <= 1
        /\ stale[r] = 1 => failed[r] /\ (play = "play" => playTask.req # r)

LEMMA FailedGrows ==
    ASSUME Shape, [Next]_vars, NEW r \in Requests, failed[r]
    PROVE  failed'[r]
<1> USE DEF Shape, TypeOK, StateTypeOK, stateVars, FailState
<1>1. CASE UNCHANGED vars
  BY <1>1 DEF vars
<1>2. CASE Start \/ ProcStart
  BY <1>2 DEF Start, ProcStart
<1>3. CASE Process
  BY <1>3 DEF Process, ProcSetActive, ProcChunk, ProcPush, ProcQueryReturns, ProcFlush,
     ProcEnd, ProcWait, ProcReturn
<1>4. CASE Tts
  BY <1>4 DEF Tts, TtsPop, TtsRecheck, TtsSynth, TtsPush
<1>5. CASE Play
  BY <1>5 DEF Play, PlayPop, PlayComplete, PlayCheck, PlayStart, PlayEnd, PlayCount
<1>6. CASE Interrupting
  BY <1>6 DEF Interrupting, Stop, ReadActive, StopPlayback, Call, Shutdown, CloseSentences,
     CloseAudio,
              JoinTts, JoinPlayback, Interrupt, IntrRead, ReadActive, IntrFail, IntrComplete,
              ClearSentences, ClearAudio, StopPlayer, Cancel
<1>. QED  BY <1>1, <1>2, <1>3, <1>4, <1>5, <1>6 DEF Next, Interrupting

LEMMA StaleOnceNext == ASSUME Shape, StaleOnce, [Next]_vars PROVE StaleOnce'
<1> SUFFICES ASSUME NEW r \in Requests
             PROVE  /\ stale'[r] <= 1
                    /\ stale'[r] = 1 => failed'[r] /\ (play' = "play" => playTask'.req # r)
  BY DEF StaleOnce
<1>1. /\ stale[r] \in Nat /\ stale[r] <= 1
      /\ stale[r] = 1 => failed[r] /\ failed'[r] /\ (play = "play" => playTask.req # r)
  BY FailedGrows DEF StaleOnce, Shape, TypeOK, HistoryTypeOK
<1>2. CASE UNCHANGED <<stale, play, playTask>>
  BY <1>1, <1>2
<1>3. CASE Start
  BY <1>1, <1>3 DEF Start, history
<1>4. CASE PlayCheck
  BY <1>1, <1>4 DEF PlayCheck, PlayNext, history
<1>5. CASE PlayStart
  <2>1. failed[r] <=> failed'[r]
    BY <1>5 DEF PlayStart, stateVars
  <2>2. CASE playTask.req = r
    BY <1>1, <1>5, <2>1, <2>2 DEF PlayStart, Shape, TypeOK, HistoryTypeOK
  <2>3. CASE playTask.req # r
    BY <1>1, <1>5, <2>3 DEF PlayStart, Shape, TypeOK, HistoryTypeOK
  <2>. QED  BY <2>2, <2>3
<1>6. CASE PlayPop \/ PlayComplete \/ PlayEnd \/ PlayCount
  BY <1>1, <1>6 DEF PlayPop, PlayComplete, PlayEnd, PlayCount, PlayNext, history
<1>. QED
  <2> USE DEF playVars, history
  <2>1. CASE UNCHANGED vars \/ ProcStart
    BY <1>2, <2>1 DEF vars, ProcStart
  <2>2. CASE Process
    BY <1>2, <2>2 DEF Process, ProcSetActive, ProcChunk, ProcPush, ProcQueryReturns,
       ProcFlush, ProcEnd, ProcWait, ProcReturn
  <2>3. CASE Tts
    BY <1>2, <2>3 DEF Tts, TtsPop, TtsRecheck, TtsSynth, TtsPush
  <2>4. CASE Interrupting
    BY <1>2, <2>4 DEF Interrupting, Stop, ReadActive, StopPlayback, Call, Shutdown, CloseSentences,
       CloseAudio, JoinTts, JoinPlayback, Interrupt, IntrRead, ReadActive, IntrFail, IntrComplete,
       ClearSentences, ClearAudio, StopPlayer, Cancel
  <2>. QED  BY <1>3, <1>4, <1>5, <1>6, <2>1, <2>2, <2>3, <2>4 DEF Next, Play, Interrupting

(***************************************************************************)
(* At most one sentence of a request is started after the request has      *)
(* failed, however many threads interrupt it.                              *)
(***************************************************************************)
THEOREM OneStale == Spec => []AtMostOneStale
<1>1. Init => Shape /\ StaleOnce
  <2>1. Init => stale = [r \in Requests |-> 0]
    BY DEF Init
  <2>. QED  BY <2>1, ShapeInit DEF StaleOnce
<1>2. Shape /\ StaleOnce /\ [Next]_vars => Shape' /\ StaleOnce'
  BY ShapeNext, StaleOnceNext
<1>3. StaleOnce => AtMostOneStale
  BY DEF StaleOnce, AtMostOneStale
<1>. QED  BY <1>1, <1>2, <1>3, PTL DEF Spec
=============================================================================
