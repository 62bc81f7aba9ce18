-------------------- MODULE ContinuousVoiceSessionProofs --------------------
(***************************************************************************)
(* The safety properties of ContinuousVoiceSession for every MaxTurns.     *)
(* They are one inductive invariant: Joined says which thread of a turn    *)
(* exists at each place of run(), Accounted what the turn under way has    *)
(* already earned, and Heeded what a question asked after stop() leaves    *)
(* impossible.                                                             *)
(***************************************************************************)
EXTENDS ContinuousVoiceSession, TLAPS

Joined ==
    /\ answer # "none" <=> main \in {"poll", "pollAnswer", "pollBarge", "joinAnswer",
                                     "joinAnswerOnly", "silence", "waitAnswer"}
    /\ barge # "none" <=> main \in {"poll", "pollAnswer", "pollBarge", "joinBargeOk",
                                    "joinBargeFailed", "silence", "waitAnswer", "waitBarge"}

\* Served: the turn under way already counts as answered or barged into.
Served == main \in TurnPCs /\ (answer = "ok" \/ main = "joinBargeOk" \/ bargeStarted)

Accounted ==
    /\ main \in {"off", "top", "record", "asr", "turnEnd"} => turns = asked
    /\ main \in TurnPCs => turns + 1 = asked
    /\ turns <= answered + barged
    /\ Served => turns + 1 <= answered + barged
    /\ interruptions <= barged
    /\ main \in TurnPCs /\ bargeStarted => interruptions + 1 <= barged
    /\ main = "joinAnswer" => bargeStarted
    /\ MaxTurns > 0 => asked <= MaxTurns
    /\ MaxTurns > 0 /\ main \in {"record", "asr"} => turns < MaxTurns

Heeded ==
    /\ pending => main \in {"turnEnd", "top", "done"}
    /\ stopper \in {"barge", "playback", "done"} => normalStopped
    /\ stopper \in {"playback", "done"} => bargeStopped
    /\ askedLate <= 1
    /\ askedLate = 1 =>
         /\ stopper = "done"
         /\ ~pending
         /\ main \notin {"asr", "joinAnswer"}
         /\ bargeOut # "utterance"

IInv == TypeOK /\ Joined /\ Accounted /\ Heeded

\* Before run() is called there is no turn and nothing to account for.
LEMMA IInvInit == Init => IInv
<1> SUFFICES ASSUME Init PROVE IInv
  OBVIOUS
<1>1. TypeOK
  <2>1. RunTypeOK
    <3>1. turns \in Nat /\ interruptions \in 0 .. turns  BY DEF Init
    <3> QED  BY <3>1 DEF Init, RunTypeOK, MainPCs
  <2>2. TurnTypeOK     BY DEF Init, TurnTypeOK
  <2>3. FlagTypeOK     BY DEF Init, FlagTypeOK
  <2>4. HistoryTypeOK  BY DEF Init, HistoryTypeOK
  <2> QED  BY <2>1, <2>2, <2>3, <2>4 DEF TypeOK
<1>2. Joined
  BY DEF Init, Joined
<1>3. Accounted
  BY MaxTurnsAssumption DEF Init, Accounted, Served, TurnPCs
<1>4. Heeded
  BY DEF Init, Heeded
<1> QED  BY <1>1, <1>2, <1>3, <1>4 DEF IInv

\* Every step keeps the types of run()'s variables.
LEMMA RunTypeNext == ASSUME TypeOK, [Next]_vars PROVE RunTypeOK'
<1> USE DEF TypeOK, RunTypeOK, HistoryTypeOK, MainPCs, TurnPCs, Goto, runVars
<1>1. CASE Run BY <1>1 DEF Run
<1>2. CASE NextTurn BY <1>2 DEF NextTurn
<1>3. CASE NormalRecorded BY <1>3 DEF NormalRecorded
<1>4. CASE AsrFails BY <1>4 DEF AsrFails
<1>5. CASE Ask BY <1>5 DEF Ask
<1>6. CASE Poll BY <1>6 DEF Poll
<1>7. CASE PollAnswer BY <1>7 DEF PollAnswer
<1>8. CASE JoinBarge
  <2>1. error' \in BOOLEAN BY <1>8 DEF JoinBarge
  <2>2. turns' \in Nat /\ interruptions' \in 0 .. turns' BY <1>8 DEF JoinBarge
  <2> QED BY <1>8, <2>1, <2>2 DEF JoinBarge
<1>9. CASE PollBarge BY <1>9 DEF PollBarge
<1>10. CASE JoinAnswerOnly
  <2>1. error' \in BOOLEAN BY <1>10 DEF JoinAnswerOnly
  <2>2. turns' \in Nat /\ interruptions' \in 0 .. turns' BY <1>10 DEF JoinAnswerOnly
  <2> QED BY <1>10, <2>1, <2>2 DEF JoinAnswerOnly
<1>11. CASE JoinAnswer BY <1>11 DEF JoinAnswer
<1>12. CASE TurnEnd BY <1>12 DEF TurnEnd
<1>13. CASE Silence BY <1>13 DEF Silence
<1>14. CASE WaitAnswer BY <1>14 DEF WaitAnswer
<1>15. CASE WaitBarge BY <1>15 DEF WaitBarge
<1>16. CASE Answer BY <1>16 DEF Answer, AnswerActive, AnswerReturns
<1>17. CASE Barge BY <1>17 DEF Barge, BargeEnter, BargeDetects, HandlerStops, BargeEnds
<1>18. CASE Stop BY <1>18 DEF Stop
<1>19. CASE Stopping BY <1>19 DEF Stopping, StopNormal, StopBarge, StopAnswer
<1>20. CASE UNCHANGED vars BY <1>20 DEF vars
<1> QED
  BY <1>1, <1>2, <1>3, <1>4, <1>5, <1>6, <1>7, <1>8, <1>9, <1>10, <1>11, <1>12, <1>13,
     <1>14, <1>15, <1>16, <1>17, <1>18, <1>19, <1>20 DEF Next, Main

\* Every step keeps the types of the two threads of a turn.
LEMMA TurnTypeNext == ASSUME TypeOK, Joined, [Next]_vars PROVE TurnTypeOK'
<1> USE DEF TypeOK, TurnTypeOK, StopPlayback, BargeIn, bargeVars
<1>1. CASE Run \/ Stop BY <1>1 DEF Run, Stop
<1>2. CASE Main
  <2>1. CASE Ask BY <2>1 DEF Ask
  <2>2. CASE PollAnswer BY <2>2 DEF PollAnswer
  <2>3. CASE JoinBarge BY <2>3 DEF JoinBarge
  <2>4. CASE PollBarge BY <2>4 DEF PollBarge
  <2>5. CASE JoinAnswerOnly \/ JoinAnswer BY <2>5 DEF JoinAnswerOnly, JoinAnswer
  <2>6. CASE Silence \/ WaitAnswer \/ WaitBarge BY <2>6 DEF Silence, WaitAnswer, WaitBarge
  <2>7. CASE NextTurn \/ NormalRecorded \/ AsrFails \/ Poll \/ TurnEnd
    BY <2>7 DEF NextTurn, NormalRecorded, AsrFails, Poll, TurnEnd
  <2> QED BY <1>2, <2>1, <2>2, <2>3, <2>4, <2>5, <2>6, <2>7 DEF Main
<1>3. CASE Answer BY <1>3 DEF Answer, AnswerActive, AnswerReturns
<1>4. CASE BargeEnter \/ BargeDetects BY <1>4 DEF BargeEnter, BargeDetects
<1>5. CASE HandlerStops \/ BargeEnds BY <1>5 DEF HandlerStops, BargeEnds
<1>6. CASE Stopping BY <1>6 DEF Stopping, StopNormal, StopBarge, StopAnswer
<1>7. CASE UNCHANGED vars BY <1>7 DEF vars
<1> QED BY <1>1, <1>2, <1>3, <1>4, <1>5, <1>6, <1>7 DEF Next, Barge

\* Every step keeps the types of the flags.
LEMMA FlagTypeNext == ASSUME TypeOK, [Next]_vars PROVE FlagTypeOK'
<1> USE DEF TypeOK, FlagTypeOK, flags
<1>1. CASE Run BY <1>1 DEF Run
<1>2. CASE Main
  <2>1. CASE Poll \/ PollAnswer \/ TurnEnd BY <2>1 DEF Poll, PollAnswer, TurnEnd, RunTypeOK
  <2>2. CASE NextTurn \/ NormalRecorded \/ AsrFails \/ Ask
    BY <2>2 DEF NextTurn, NormalRecorded, AsrFails, Ask
  <2>3. CASE JoinBarge \/ PollBarge \/ JoinAnswerOnly \/ JoinAnswer
    BY <2>3 DEF JoinBarge, PollBarge, JoinAnswerOnly, JoinAnswer
  <2>4. CASE Silence \/ WaitAnswer \/ WaitBarge BY <2>4 DEF Silence, WaitAnswer, WaitBarge
  <2> QED BY <1>2, <2>1, <2>2, <2>3, <2>4 DEF Main
<1>3. CASE Answer BY <1>3 DEF Answer, AnswerActive, AnswerReturns
<1>4. CASE Barge BY <1>4 DEF Barge, BargeEnter, BargeDetects, HandlerStops, BargeEnds
<1>5. CASE Stop BY <1>5 DEF Stop
<1>6. CASE Stopping BY <1>6 DEF Stopping, StopNormal, StopBarge, StopAnswer
<1>7. CASE UNCHANGED vars BY <1>7 DEF vars
<1> QED BY <1>1, <1>2, <1>3, <1>4, <1>5, <1>6, <1>7 DEF Next

\* Every step keeps the types of the counts.
LEMMA HistoryTypeNext == ASSUME TypeOK, [Next]_vars PROVE HistoryTypeOK'
<1> USE DEF TypeOK, HistoryTypeOK, history
<1>1. CASE Run BY <1>1 DEF Run
<1>2. CASE Main
  <2>1. CASE Ask BY <2>1 DEF Ask
  <2>2. CASE PollBarge BY <2>2 DEF PollBarge, BargeIn
  <2>3. CASE NextTurn \/ NormalRecorded \/ AsrFails \/ Poll \/ PollAnswer \/ TurnEnd
    BY <2>3 DEF NextTurn, NormalRecorded, AsrFails, Poll, PollAnswer, TurnEnd
  <2>4. CASE JoinBarge \/ JoinAnswerOnly \/ JoinAnswer
    BY <2>4 DEF JoinBarge, JoinAnswerOnly, JoinAnswer
  <2>5. CASE Silence \/ WaitAnswer \/ WaitBarge BY <2>5 DEF Silence, WaitAnswer, WaitBarge
  <2> QED BY <1>2, <2>1, <2>2, <2>3, <2>4, <2>5 DEF Main
<1>3. CASE Answer BY <1>3 DEF Answer, AnswerActive, AnswerReturns
<1>4. CASE Barge BY <1>4 DEF Barge, BargeEnter, BargeDetects, HandlerStops, BargeEnds, BargeIn
<1>5. CASE Stop BY <1>5 DEF Stop
<1>6. CASE Stopping BY <1>6 DEF Stopping, StopNormal, StopBarge, StopAnswer
<1>7. CASE UNCHANGED vars BY <1>7 DEF vars
<1> QED BY <1>1, <1>2, <1>3, <1>4, <1>5, <1>6, <1>7 DEF Next

\* The threads of a turn come and go only with run()'s own steps.
LEMMA JoinedNext == ASSUME TypeOK, Joined, [Next]_vars PROVE Joined'
<1> USE DEF Joined, Goto
<1>1. CASE Run BY <1>1 DEF Run, bargeVars
<1>2. CASE Main
  <2>1. CASE NextTurn BY <2>1 DEF NextTurn, bargeVars
  <2>2. CASE NormalRecorded \/ AsrFails BY <2>2 DEF NormalRecorded, AsrFails, bargeVars
  <2>3. CASE Ask BY <2>3 DEF Ask
  <2>4. CASE Poll BY <2>4 DEF Poll, bargeVars
  <2>5. CASE PollAnswer BY <2>5 DEF PollAnswer, AnswerReady, bargeVars
  <2>6. CASE JoinBarge BY <2>6 DEF JoinBarge
  <2>7. CASE PollBarge BY <2>7 DEF PollBarge, StopPlayback
  <2>8. CASE JoinAnswerOnly BY <2>8 DEF JoinAnswerOnly, bargeVars
  <2>9. CASE JoinAnswer BY <2>9 DEF JoinAnswer, bargeVars
  <2>10. CASE TurnEnd BY <2>10 DEF TurnEnd, bargeVars
  <2>11. CASE Silence BY <2>11 DEF Silence, StopPlayback, bargeVars
  <2>12. CASE WaitAnswer BY <2>12 DEF WaitAnswer, bargeVars
  <2>13. CASE WaitBarge BY <2>13 DEF WaitBarge
  <2> QED BY <1>2, <2>1, <2>2, <2>3, <2>4, <2>5, <2>6, <2>7, <2>8, <2>9, <2>10, <2>11,
             <2>12, <2>13 DEF Main
<1>3. CASE Answer BY <1>3 DEF Answer, AnswerActive, AnswerReturns, runVars, bargeVars
<1>4. CASE BargeEnter \/ BargeDetects BY <1>4 DEF BargeEnter, BargeDetects, runVars
<1>5. CASE HandlerStops BY <1>5 DEF HandlerStops, StopPlayback, runVars
<1>6. CASE BargeEnds BY <1>6 DEF BargeEnds, runVars
<1>7. CASE Stop BY <1>7 DEF Stop, bargeVars
<1>8. CASE StopNormal \/ StopBarge BY <1>8 DEF StopNormal, StopBarge, runVars, bargeVars
<1>9. CASE StopAnswer BY <1>9 DEF StopAnswer, StopPlayback, runVars, bargeVars
<1>10. CASE UNCHANGED vars BY <1>10 DEF vars, runVars, bargeVars
<1> QED BY <1>1, <1>2, <1>3, <1>4, <1>5, <1>6, <1>7, <1>8, <1>9, <1>10
        DEF Next, Barge, Stopping

\* A stopped recorder gives no utterance to ask about.
LEMMA HeededNext == ASSUME TypeOK, Heeded, [Next]_vars PROVE Heeded'
<1> USE DEF Heeded, Goto
<1>1. CASE Run BY <1>1 DEF Run, bargeVars, flags, history
<1>2. CASE Main
  <2>1. CASE NextTurn BY <2>1 DEF NextTurn, bargeVars, flags, history
  <2>2. CASE NormalRecorded BY <2>2 DEF NormalRecorded, bargeVars, flags, history
  <2>3. CASE AsrFails BY <2>3 DEF AsrFails, bargeVars, flags, history
  <2>4. CASE Ask BY <2>4 DEF Ask, TypeOK, HistoryTypeOK, flags
  <2>5. CASE Poll BY <2>5 DEF Poll, bargeVars, history
  <2>6. CASE PollAnswer BY <2>6 DEF PollAnswer, bargeVars, history
  <2>7. CASE JoinBarge BY <2>7 DEF JoinBarge, flags, history
  <2>8. CASE PollBarge BY <2>8 DEF PollBarge, flags
  <2>9. CASE JoinAnswerOnly BY <2>9 DEF JoinAnswerOnly, bargeVars, flags, history
  <2>10. CASE JoinAnswer BY <2>10 DEF JoinAnswer, bargeVars, flags, history
  <2>11. CASE TurnEnd BY <2>11 DEF TurnEnd, bargeVars, history
  <2>12. CASE Silence BY <2>12 DEF Silence, bargeVars, flags, history
  <2>13. CASE WaitAnswer BY <2>13 DEF WaitAnswer, bargeVars, flags, history
  <2>14. CASE WaitBarge BY <2>14 DEF WaitBarge, flags, history
  <2> QED BY <1>2, <2>1, <2>2, <2>3, <2>4, <2>5, <2>6, <2>7, <2>8, <2>9, <2>10, <2>11,
             <2>12, <2>13, <2>14 DEF Main
<1>3. CASE Answer BY <1>3 DEF Answer, AnswerActive, AnswerReturns, runVars, bargeVars, flags, history
<1>4. CASE BargeEnter BY <1>4 DEF BargeEnter, runVars, history
<1>5. CASE BargeDetects \/ HandlerStops
  BY <1>5 DEF BargeDetects, HandlerStops, runVars, flags, history
<1>6. CASE BargeEnds BY <1>6 DEF BargeEnds, runVars, history
<1>7. CASE Stop BY <1>7 DEF Stop, bargeVars, flags, history
<1>8. CASE Stopping
  BY <1>8 DEF Stopping, StopNormal, StopBarge, StopAnswer, runVars, bargeVars, history, flags
<1>9. CASE UNCHANGED vars BY <1>9 DEF vars, runVars, bargeVars, flags, history
<1> QED BY <1>1, <1>2, <1>3, <1>4, <1>5, <1>6, <1>7, <1>8, <1>9 DEF Next, Barge

\* What a turn has earned is counted when it ends.
LEMMA AccountedNext == ASSUME TypeOK, Joined, Accounted, [Next]_vars PROVE Accounted'
<1> USE MaxTurnsAssumption DEF TypeOK, RunTypeOK, HistoryTypeOK, Accounted, Served, TurnPCs, Goto
<1>1. CASE Run BY <1>1 DEF Run, bargeVars, history
<1>2. CASE Main
  <2>1. CASE NextTurn BY <2>1 DEF NextTurn, EnoughTurns, bargeVars, history
  <2>2. CASE NormalRecorded BY <2>2 DEF NormalRecorded, bargeVars, history
  <2>3. CASE AsrFails BY <2>3 DEF AsrFails, bargeVars, history
  <2>4. CASE Ask BY <2>4 DEF Ask
  <2>5. CASE Poll BY <2>5 DEF Poll, bargeVars, history
  <2>6. CASE PollAnswer BY <2>6 DEF PollAnswer, AnswerReady, bargeVars, history
  <2>7. CASE JoinBarge BY <2>7 DEF JoinBarge, history
  <2>8. CASE PollBarge BY <2>8 DEF PollBarge, BargeIn, StopPlayback
  <2>9. CASE JoinAnswerOnly BY <2>9 DEF JoinAnswerOnly, bargeVars, history
  <2>10. CASE JoinAnswer BY <2>10 DEF JoinAnswer, bargeVars, history
  <2>11. CASE TurnEnd BY <2>11 DEF TurnEnd, bargeVars, history
  <2>12. CASE Silence BY <2>12 DEF Silence, StopPlayback, bargeVars, history
  <2>13. CASE WaitAnswer BY <2>13 DEF WaitAnswer, bargeVars, history
  <2>14. CASE WaitBarge BY <2>14 DEF WaitBarge, history
  <2> QED BY <1>2, <2>1, <2>2, <2>3, <2>4, <2>5, <2>6, <2>7, <2>8, <2>9, <2>10, <2>11,
             <2>12, <2>13, <2>14 DEF Main
<1>3. CASE Answer
  <2>1. CASE AnswerActive BY <2>1 DEF AnswerActive, runVars, bargeVars, history
  <2>2. CASE AnswerReturns
    <3>1. CASE answer' = "ok"
      <4>1. main \in TurnPCs /\ main # "joinBargeOk"
        BY <2>2 DEF AnswerReturns, Joined
      <4>2. answered' = answered + 1
        BY <2>2, <3>1 DEF AnswerReturns
      <4> QED  BY <2>2, <4>1, <4>2 DEF AnswerReturns, runVars, bargeVars
    <3>2. CASE answer' # "ok"
      BY <2>2, <3>2 DEF AnswerReturns, runVars, bargeVars
    <3> QED  BY <3>1, <3>2
  <2> QED  BY <1>3, <2>1, <2>2 DEF Answer
<1>4. CASE BargeEnter \/ BargeEnds BY <1>4 DEF BargeEnter, BargeEnds, runVars, history
<1>5. CASE BargeDetects BY <1>5 DEF BargeDetects, BargeIn, runVars
<1>6. CASE HandlerStops BY <1>6 DEF HandlerStops, StopPlayback, runVars, history
<1>7. CASE Stop BY <1>7 DEF Stop, bargeVars, history
<1>8. CASE StopNormal \/ StopBarge
  BY <1>8 DEF StopNormal, StopBarge, runVars, bargeVars, history
<1>9. CASE StopAnswer BY <1>9 DEF StopAnswer, StopPlayback, runVars, bargeVars, history
<1>10. CASE UNCHANGED vars BY <1>10 DEF vars, runVars, bargeVars, history
<1> QED BY <1>1, <1>2, <1>3, <1>4, <1>5, <1>6, <1>7, <1>8, <1>9, <1>10
        DEF Next, Barge, Stopping

\* The conjunction is inductive.
THEOREM Inductive == Spec => []IInv
<1>1. IInv /\ [Next]_vars => IInv'
  BY RunTypeNext, TurnTypeNext, FlagTypeNext, HistoryTypeNext, JoinedNext, AccountedNext,
     HeededNext DEF IInv, TypeOK
<1> QED  BY IInvInit, <1>1, PTL DEF Spec

\* The state of the session keeps its types, and no more turns are interrupted
\* than there are.
THEOREM TypeCorrect == Spec => []TypeOK
  BY Inductive, PTL DEF IInv

\* The two threads of a turn exist exactly while run() is in that turn, and a
\* join finds the thread it joins.
THEOREM Joins == Spec => []TurnsAreJoined
<1>1. IInv => TurnsAreJoined
  BY DEF IInv, Joined, TurnsAreJoined, TurnPCs
<1> QED  BY Inductive, <1>1, PTL

\* Every question is counted once, as a turn that was answered or interrupted.
THEOREM Accounts == Spec => []TurnsAreAccounted
<1>1. IInv => TurnsAreAccounted
  BY DEF IInv, Accounted, TurnsAreAccounted
<1> QED  BY Inductive, <1>1, PTL

\* At most one question is asked after stop() has returned.
THEOREM Heeds == Spec => []StopIsHeeded
<1>1. IInv => StopIsHeeded
  BY DEF IInv, Heeded, StopIsHeeded
<1> QED  BY Inductive, <1>1, PTL
=============================================================================
