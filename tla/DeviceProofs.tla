---------------------------- MODULE DeviceProofs ----------------------------
(***************************************************************************)
(* The three device drivers, which share nothing, for any constants: the   *)
(* microphone (any number of recordings, any patience), the player and the *)
(* fixed-length recorder (buffers of any length), and the DHT11 driver     *)
(* (any readers, frames of five bytes of any width).                       *)
(***************************************************************************)
EXTENDS Microphone, AlsaDevice, Dht11, TLAPS

(***************************************************************************)
(* Microphone: an interruption is never taken for a fault, and half an     *)
(* utterance is returned only after stop().                                *)
(***************************************************************************)

\* MicTypeOK, with what stop() has left to do apart.
Types ==
    /\ cancelRequested \in [Recorders -> BOOLEAN] /\ recStopped \in [Recorders -> BOOLEAN]
    /\ srcStopped \in BOOLEAN /\ captureCancelled \in BOOLEAN
    /\ handle \in {"ready", "dropped"} /\ who \in Recorders /\ at \in MicPCs
    /\ calls \in 0..MaxRecordings /\ err \in {"none", "dropped", "xrun"}
    /\ stream \in BOOLEAN /\ speech \in BOOLEAN /\ timedOut \in BOOLEAN
    /\ waited \in 0..MaxWait /\ utterance \in {"none", "whole", "flushed"}
    /\ result \in Results /\ cancelAt \in {"ready", "capture", "drop", "done"}
StopType == stopAt \in Recorders \cup {"no", "returned"} /\ stopStep \in StopSteps

\* A cancellation that has begun during this recording is not forgotten before its end.
CancelStays ==
    /\ cancelAt # "done" => who = "barge"
    /\ who = "barge" /\ cancelAt # "ready" /\ at # "idle" => cancelRequested["barge"]
\* stop() stops the source before it drops the device.
SourceFirst == stopAt \in Recorders /\ stopStep \in {"capture", "drop"} => srcStopped
NotBegun == stopAt = "no" => stopStep = "flag"
Told == srcStopped \/ (who = "barge" /\ cancelAt \in {"drop", "done"})
\* The device is dropped under the reader, or its flag raised, only by one of the two.
Dropped ==
    /\ at \in {"loop", "read", "chunk"} /\ handle = "dropped" => Told
    /\ at \in {"prepare", "loop", "read", "error", "recover", "chunk"} /\ captureCancelled => Told
    /\ at \in {"error", "recover"} /\ err = "dropped" => Told
    /\ at = "recover" /\ err = "dropped" => cancelRequested[who]
    /\ err = "dropped" => at \in {"error", "recover", "judge", "conclude", "idle"}
\* Why the capture is over.
Ended ==
    /\ at = "judge" /\ ~stream /\ err = "dropped" => cancelRequested[who]
    /\ at = "conclude" /\ ~stream => err # "dropped"
    /\ at = "judge" /\ stream =>
         srcStopped \/ cancelRequested[who] \/ recStopped[who] \/ utterance = "whole" \/ timedOut
    /\ at = "conclude" /\ stream =>
         srcStopped \/ recStopped[who] \/ utterance = "whole" \/ timedOut
Returned ==
    /\ at # "idle" => result = "none" /\ utterance # "flushed"
    /\ result = "fault" => err # "dropped"
    /\ utterance = "flushed" => srcStopped
SInv == StopType /\ SourceFirst /\ NotBegun
RInv == Types /\ CancelStays /\ Dropped /\ Ended /\ Returned
MicInv == SInv /\ RInv

LEMMA MicInitInv == MicInit => MicInv
<1> SUFFICES ASSUME MicInit PROVE MicInv
  OBVIOUS
<1>1. SInv
  BY DEF MicInit, SInv, StopType, StopSteps, SourceFirst, NotBegun, Recorders
<1>2. Types
  <2>1. cancelRequested \in [Recorders -> BOOLEAN] /\ recStopped \in [Recorders -> BOOLEAN]
    BY DEF MicInit
  <2>2. calls \in 0..MaxRecordings /\ waited \in 0..MaxWait
    BY MicAssumption DEF MicInit
  <2>3. who \in Recorders /\ at \in MicPCs /\ result \in Results
    BY DEF MicInit, Recorders, MicPCs, Results
  <2> QED BY <2>1, <2>2, <2>3 DEF MicInit, Types
<1>3. CancelStays /\ Dropped /\ Ended /\ Returned
  BY DEF MicInit, CancelStays, Dropped, Ended, Returned
<1> QED BY <1>1, <1>2, <1>3 DEF MicInv, RInv

LEMMA MicStopInv == ASSUME MicInv, NEW r \in Recorders, Stop(r) PROVE MicInv'
<1>1. /\ UNCHANGED <<callVars, heardVars, cancelAt, at, err, stream, utterance, result>>
      /\ stopAt = r
  BY DEF Stop
<1>2. srcStopped => srcStopped'
  BY DEF Stop
<1>3. cancelRequested' \in [Recorders -> BOOLEAN] /\ recStopped' \in [Recorders -> BOOLEAN]
  BY DEF Stop, MicInv, RInv, Types
<1>4. Types'
  BY <1>1, <1>3 DEF Stop, MicInv, RInv, Types, callVars, heardVars
<1>5. SInv'
  <2>1. CASE stopStep = "drop"
    BY <1>1, <2>1 DEF Stop, NextStop, MicInv, SInv, StopType, StopSteps, SourceFirst, NotBegun,
       Recorders
  <2>2. CASE stopStep # "drop"
    <3>1. stopStep' = After[stopStep] /\ stopAt' = stopAt
      BY <2>2 DEF Stop, NextStop
    <3>2. stopStep' \in StopSteps
      BY <2>2, <3>1 DEF MicInv, SInv, StopType, StopSteps, After
    <3>3. /\ stopStep' = "capture" => stopStep = "source"
          /\ stopStep' = "drop" => stopStep = "capture"
      BY <2>2, <3>1 DEF MicInv, SInv, StopType, StopSteps, After
    <3>4. stopStep = "source" => srcStopped'
      BY DEF Stop
    <3> QED
      BY <1>1, <1>2, <3>1, <3>2, <3>3, <3>4 DEF MicInv, SInv, StopType, SourceFirst, NotBegun,
         Recorders
  <2> QED BY <2>1, <2>2
<1>6. who \in Recorders /\ "barge" \in Recorders
  BY DEF MicInv, RInv, Types, Recorders
<1>7. \A x \in Recorders : /\ cancelRequested[x] => cancelRequested'[x]
                           /\ recStopped[x] => recStopped'[x]
  BY DEF Stop, MicInv, RInv, Types
<1>8. CancelStays'
  BY <1>1, <1>6, <1>7 DEF MicInv, RInv, CancelStays, callVars
<1>9. Told => Told'
  BY <1>1, <1>2 DEF Told, callVars
<1>10. /\ captureCancelled' # captureCancelled => srcStopped
       /\ handle' # handle => srcStopped
  BY <1>1 DEF Stop, MicInv, SInv, SourceFirst, NotBegun, RInv, Types
<1>11. srcStopped => Told'
  BY <1>2 DEF Told
<1>12. Dropped'
  BY <1>1, <1>6, <1>7, <1>9, <1>10, <1>11 DEF MicInv, RInv, Types, Dropped, callVars
<1>13. Ended' /\ Returned'
  BY <1>1, <1>2, <1>6, <1>7 DEF MicInv, RInv, Ended, Returned, callVars, heardVars
<1> QED BY <1>4, <1>5, <1>8, <1>12, <1>13 DEF MicInv, RInv

LEMMA RecordingInv == ASSUME MicInv, Recording PROVE MicInv'
<1>1. UNCHANGED <<stopVars, srcStopped>>
  BY DEF Recording, Enter, Open, CheckSource, ResetCapture, Prepare, Loop, ReadDropped, ReadError,
     Recover, ChunkRefused, ChunkThrows, Judge, Conclude, Chunk, flags, othersVars
<1>2. SInv'
  BY <1>1 DEF MicInv, SInv, StopType, SourceFirst, NotBegun, stopVars
<1>3. RInv
  BY DEF MicInv
<1>4. ASSUME Enter PROVE RInv'
  <2>0. cancelRequested' \in [Recorders -> BOOLEAN]
    BY <1>3, <1>4 DEF Enter, GiveBack, Consume, flags, callVars, heardVars, othersVars, RInv, Types
  <2>1. Types'
    BY <2>0, <1>3, <1>4 DEF Enter, GiveBack, Consume, flags, callVars, heardVars, othersVars,
       RInv, Types, MicPCs, CapturePCs, Results
  <2>2. CancelStays'
    BY <1>3, <1>4 DEF Enter, GiveBack, Consume, flags, callVars, heardVars, othersVars, RInv,
       CancelStays, Types
  <2>3. Dropped'
    BY <1>3, <1>4 DEF Enter, GiveBack, Consume, flags, callVars, heardVars, othersVars,
       RInv, Types, CancelStays, Dropped, Told
  <2>4. Ended' /\ Returned'
    BY <1>3, <1>4 DEF Enter, GiveBack, Consume, flags, callVars, heardVars, othersVars,
       RInv, Types, CancelStays, Dropped, Told, Ended, Returned
  <2> QED BY <2>1, <2>2, <2>3, <2>4 DEF RInv
<1>5. ASSUME Open PROVE RInv'
  <2>1. Types'
    BY <1>3, <1>5 DEF Open, GiveBack, flags, callVars, heardVars, othersVars,
       RInv, Types, MicPCs, CapturePCs, Results
  <2>2. CancelStays'
    BY <1>3, <1>5 DEF Open, GiveBack, flags, callVars, heardVars, othersVars, RInv, CancelStays
  <2>3. Dropped'
    BY <1>3, <1>5 DEF Open, GiveBack, flags, callVars, heardVars, othersVars,
       RInv, Types, CancelStays, Dropped, Told
  <2>4. Ended' /\ Returned'
    BY <1>3, <1>5 DEF Open, GiveBack, flags, callVars, heardVars, othersVars,
       RInv, Types, CancelStays, Dropped, Told, Ended, Returned
  <2> QED BY <2>1, <2>2, <2>3, <2>4 DEF RInv
<1>6. ASSUME CheckSource PROVE RInv'
  <2>1. Types'
    BY <1>3, <1>6 DEF CheckSource, EndCapture, flags, callVars, heardVars, othersVars,
       RInv, Types, MicPCs, CapturePCs
  <2>2. CancelStays'
    BY <1>3, <1>6 DEF CheckSource, EndCapture, flags, callVars, heardVars, othersVars, RInv,
       CancelStays
  <2>3. Dropped'
    BY <1>3, <1>6 DEF CheckSource, EndCapture, flags, callVars, heardVars, othersVars,
       RInv, Types, CancelStays, Dropped, Told
  <2>4. Ended' /\ Returned'
    BY <1>3, <1>6 DEF CheckSource, EndCapture, flags, callVars, heardVars, othersVars,
       RInv, Types, CancelStays, Dropped, Told, Ended, Returned
  <2> QED BY <2>1, <2>2, <2>3, <2>4 DEF RInv
<1>7. ASSUME ResetCapture PROVE RInv'
  <2>1. Types'
    BY <1>3, <1>7 DEF ResetCapture, flags, callVars, heardVars, othersVars,
       RInv, Types, MicPCs, CapturePCs
  <2>2. CancelStays'
    BY <1>3, <1>7 DEF ResetCapture, flags, callVars, heardVars, othersVars, RInv, CancelStays
  <2>3. Dropped'
    BY <1>3, <1>7 DEF ResetCapture, flags, callVars, heardVars, othersVars,
       RInv, Types, CancelStays, Dropped, Told
  <2>4. Ended' /\ Returned'
    BY <1>3, <1>7 DEF ResetCapture, flags, callVars, heardVars, othersVars,
       RInv, Types, CancelStays, Dropped, Told, Ended, Returned
  <2> QED BY <2>1, <2>2, <2>3, <2>4 DEF RInv
<1>8. ASSUME Prepare PROVE RInv'
  <2>1. Types'
    BY <1>3, <1>8, ZenonT(40) DEF Prepare, EndCapture, flags, callVars, heardVars, othersVars,
       RInv, Types, MicPCs, CapturePCs
  <2>2. CancelStays'
    BY <1>3, <1>8 DEF Prepare, EndCapture, flags, callVars, heardVars, othersVars, RInv, CancelStays
  <2>3. Dropped'
    BY <1>3, <1>8 DEF Prepare, EndCapture, flags, callVars, heardVars, othersVars,
       RInv, Types, CancelStays, Dropped, Told
  <2>4. Ended' /\ Returned'
    BY <1>3, <1>8 DEF Prepare, EndCapture, flags, callVars, heardVars, othersVars,
       RInv, Types, CancelStays, Dropped, Told, Ended, Returned
  <2> QED BY <2>1, <2>2, <2>3, <2>4 DEF RInv
<1>9. ASSUME Loop PROVE RInv'
  <2>1. Types'
    BY <1>3, <1>9, ZenonT(40) DEF Loop, EndCapture, Drop, Over, flags, callVars, heardVars,
       othersVars,
       RInv, Types, MicPCs, CapturePCs
  <2>2. CancelStays'
    BY <1>3, <1>9 DEF Loop, EndCapture, Drop, Over, flags, callVars, heardVars, othersVars,
       RInv, CancelStays
  <2>3. Dropped'
    BY <1>3, <1>9 DEF Loop, EndCapture, Drop, Over, flags, callVars, heardVars, othersVars,
       RInv, Types, CancelStays, Dropped, Told
  <2>4. Ended' /\ Returned'
    BY <1>3, <1>9 DEF Loop, EndCapture, Drop, Over, flags, callVars, heardVars, othersVars,
       RInv, Types, CancelStays, Dropped, Told, Ended, Returned
  <2> QED BY <2>1, <2>2, <2>3, <2>4 DEF RInv
<1>10. ASSUME ReadDropped PROVE RInv'
  <2>1. Types'
    BY <1>3, <1>10 DEF ReadDropped, flags, callVars, heardVars, othersVars,
       RInv, Types, MicPCs, CapturePCs
  <2>2. CancelStays'
    BY <1>3, <1>10 DEF ReadDropped, flags, callVars, heardVars, othersVars, RInv, CancelStays
  <2>3. Dropped'
    BY <1>3, <1>10 DEF ReadDropped, flags, callVars, heardVars, othersVars,
       RInv, Types, CancelStays, Dropped, Told
  <2>4. Ended' /\ Returned'
    BY <1>3, <1>10 DEF ReadDropped, flags, callVars, heardVars, othersVars,
       RInv, Types, CancelStays, Dropped, Told, Ended, Returned
  <2> QED BY <2>1, <2>2, <2>3, <2>4 DEF RInv
<1>11. ASSUME ReadError PROVE RInv'
  <2>1. Types'
    BY <1>3, <1>11, ZenonT(40) DEF ReadError, EndCapture, Drop, Over, flags, callVars, heardVars,
       othersVars,
       RInv, Types, MicPCs, CapturePCs
  <2>2. CancelStays'
    BY <1>3, <1>11 DEF ReadError, EndCapture, Drop, Over, flags, callVars, heardVars,
       othersVars, RInv, CancelStays
  <2>3. Dropped'
    BY <1>3, <1>11 DEF ReadError, EndCapture, Drop, Over, flags, callVars, heardVars, othersVars,
       RInv, Types, CancelStays, Dropped, Told
  <2>4. Ended' /\ Returned'
    BY <1>3, <1>11 DEF ReadError, EndCapture, Drop, Over, flags, callVars, heardVars, othersVars,
       RInv, Types, CancelStays, Dropped, Told, Ended, Returned
  <2> QED BY <2>1, <2>2, <2>3, <2>4 DEF RInv
<1>12. ASSUME Recover PROVE RInv'
  <2>1. Types'
    BY <1>3, <1>12 DEF Recover, EndCapture, Drop, flags, callVars, heardVars, othersVars,
       RInv, Types, MicPCs, CapturePCs
  <2>2. CancelStays'
    BY <1>3, <1>12 DEF Recover, EndCapture, Drop, flags, callVars, heardVars, othersVars, RInv,
       CancelStays
  <2>3. Dropped'
    BY <1>3, <1>12 DEF Recover, EndCapture, Drop, flags, callVars, heardVars, othersVars,
       RInv, Types, CancelStays, Dropped, Told
  <2>4. Ended' /\ Returned'
    BY <1>3, <1>12 DEF Recover, EndCapture, Drop, flags, callVars, heardVars, othersVars,
       RInv, Types, CancelStays, Dropped, Told, Ended, Returned
  <2> QED BY <2>1, <2>2, <2>3, <2>4 DEF RInv
<1>13. ASSUME ChunkRefused PROVE RInv'
  <2>1. Types'
    BY <1>3, <1>13 DEF ChunkRefused, EndCapture, Drop, flags, callVars, heardVars, othersVars,
       RInv, Types, MicPCs, CapturePCs
  <2>2. CancelStays'
    BY <1>3, <1>13 DEF ChunkRefused, EndCapture, Drop, flags, callVars, heardVars, othersVars,
       RInv, CancelStays
  <2>3. Dropped'
    BY <1>3, <1>13 DEF ChunkRefused, EndCapture, Drop, flags, callVars, heardVars, othersVars,
       RInv, Types, CancelStays, Dropped, Told
  <2>4. Ended' /\ Returned'
    BY <1>3, <1>13 DEF ChunkRefused, EndCapture, Drop, flags, callVars, heardVars, othersVars,
       RInv, Types, CancelStays, Dropped, Told, Ended, Returned
  <2> QED BY <2>1, <2>2, <2>3, <2>4 DEF RInv
<1>14. ASSUME ChunkThrows PROVE RInv'
  <2>1. Types'
    BY <1>3, <1>14 DEF ChunkThrows, EndCapture, Drop, flags, callVars, heardVars, othersVars,
       RInv, Types, MicPCs, CapturePCs
  <2>2. CancelStays'
    BY <1>3, <1>14 DEF ChunkThrows, EndCapture, Drop, flags, callVars, heardVars, othersVars,
       RInv, CancelStays
  <2>3. Dropped'
    BY <1>3, <1>14 DEF ChunkThrows, EndCapture, Drop, flags, callVars, heardVars, othersVars,
       RInv, Types, CancelStays, Dropped, Told
  <2>4. Ended' /\ Returned'
    BY <1>3, <1>14 DEF ChunkThrows, EndCapture, Drop, flags, callVars, heardVars, othersVars,
       RInv, Types, CancelStays, Dropped, Told, Ended, Returned
  <2> QED BY <2>1, <2>2, <2>3, <2>4 DEF RInv
<1>15. ASSUME Judge PROVE RInv'
  <2>0. cancelRequested' \in [Recorders -> BOOLEAN]
    BY <1>3, <1>15 DEF Judge, GiveBack, Consume, flags, callVars, heardVars, othersVars, RInv, Types
  <2>1. Types'
    BY <2>0, <1>3, <1>15 DEF Judge, GiveBack, Consume, flags, callVars, heardVars, othersVars,
       RInv, Types, MicPCs, CapturePCs, Results
  <2>2. CancelStays'
    BY <1>3, <1>15 DEF Judge, GiveBack, Consume, flags, callVars, heardVars, othersVars, RInv,
       CancelStays, Types
  <2>3. Dropped'
    BY <1>3, <1>15 DEF Judge, GiveBack, Consume, flags, callVars, heardVars, othersVars,
       RInv, Types, CancelStays, Dropped, Told
  <2>4. Ended' /\ Returned'
    BY <1>3, <1>15 DEF Judge, GiveBack, Consume, flags, callVars, heardVars, othersVars,
       RInv, Types, CancelStays, Dropped, Told, Ended, Returned
  <2> QED BY <2>1, <2>2, <2>3, <2>4 DEF RInv
<1>16. ASSUME Conclude PROVE RInv'
  <2>1. Types'
    BY <1>3, <1>16 DEF Conclude, GiveBack, flags, callVars, heardVars, othersVars,
       RInv, Types, MicPCs, CapturePCs, Results
  <2>2. CancelStays'
    BY <1>3, <1>16 DEF Conclude, GiveBack, flags, callVars, heardVars, othersVars, RInv, CancelStays
  <2>3. Dropped'
    BY <1>3, <1>16 DEF Conclude, GiveBack, flags, callVars, heardVars, othersVars,
       RInv, Types, CancelStays, Dropped, Told
  <2>4. Ended' /\ Returned'
    BY <1>3, <1>16 DEF Conclude, GiveBack, flags, callVars, heardVars, othersVars,
       RInv, Types, CancelStays, Dropped, Told, Ended, Returned
  <2> QED BY <2>1, <2>2, <2>3, <2>4 DEF RInv
<1>17. ASSUME NEW detected \in BOOLEAN, NEW complete \in BOOLEAN, Chunk(detected, complete) PROVE RInv'
  <2>0. speech' \in BOOLEAN /\ timedOut' \in BOOLEAN /\ waited' \in 0..MaxWait
    BY MicAssumption, <1>3, <1>17 DEF Chunk, EndCapture, Drop, flags, callVars, heardVars,
       othersVars, RInv, Types
  <2>1. Types'
    BY <2>0, <1>3, <1>17 DEF Chunk, EndCapture, Drop, flags, callVars, heardVars, othersVars,
       RInv, Types, MicPCs, CapturePCs
  <2>2. CancelStays'
    BY <1>3, <1>17 DEF Chunk, EndCapture, Drop, flags, callVars, heardVars, othersVars, RInv,
       CancelStays
  <2>3. Dropped'
    BY <1>3, <1>17 DEF Chunk, EndCapture, Drop, flags, callVars, heardVars, othersVars,
       RInv, Types, CancelStays, Dropped, Told
  <2>4. Ended' /\ Returned'
    BY <1>3, <1>17 DEF Chunk, EndCapture, Drop, flags, callVars, heardVars, othersVars,
       RInv, Types, CancelStays, Dropped, Told, Ended, Returned
  <2> QED BY <2>1, <2>2, <2>3, <2>4 DEF RInv
<1> QED
  BY <1>2, <1>4, <1>5, <1>6, <1>7, <1>8, <1>9, <1>10, <1>11, <1>12, <1>13, <1>14, <1>15, <1>16,
     <1>17
  DEF Recording, MicInv

LEMMA MicStepInv == MicInv /\ [MicNext]_micVars => MicInv'
<1> SUFFICES ASSUME MicInv, [MicNext]_micVars PROVE MicInv'
  OBVIOUS
<1>1. CASE Recording BY <1>1, RecordingInv
<1>2. ASSUME NEW r \in Recorders, Stop(r) PROVE MicInv'
  BY <1>2, MicStopInv
<1>3. RInv
  BY DEF MicInv
<1>4. ASSUME NEW r \in Recorders, Record(r) PROVE RInv'
  <2>0. calls' \in 0..MaxRecordings /\ waited' \in 0..MaxWait
    BY MicAssumption, <1>3, <1>4 DEF Record, flags, callVars, heardVars, othersVars, RInv, Types
  <2>1. Types'
    <3>1. UNCHANGED <<cancelRequested, recStopped, srcStopped, captureCancelled, handle>>
      BY <1>4 DEF Record, flags
    <3>2. /\ who' \in Recorders /\ at' \in MicPCs /\ result' \in Results
          /\ cancelAt' \in {"ready", "done"}
      BY <1>4 DEF Record, MicPCs, Results
    <3>3. err' = "none" /\ stream' = TRUE /\ utterance' = "none" /\ speech' = FALSE /\ timedOut' = FALSE
      BY <1>4 DEF Record
    <3> QED BY <2>0, <1>3, <3>1, <3>2, <3>3 DEF RInv, Types
  <2>2. CancelStays'
    BY <1>3, <1>4 DEF Record, flags, callVars, heardVars, othersVars, RInv, CancelStays, Types
  <2>3. Dropped'
    BY <1>3, <1>4 DEF Record, flags, callVars, heardVars, othersVars,
       RInv, Types, CancelStays, Dropped, Told
  <2>4. Ended' /\ Returned'
    BY <1>3, <1>4 DEF Record, flags, callVars, heardVars, othersVars,
       RInv, Types, CancelStays, Dropped, Told, Ended, Returned
  <2> QED BY <2>1, <2>2, <2>3, <2>4 DEF RInv
<1>5. ASSUME Sound PROVE RInv'
  <2>1. Types'
    BY <1>3, <1>5 DEF Sound, flags, callVars, heardVars, othersVars,
       RInv, Types, MicPCs, CapturePCs
  <2>2. CancelStays'
    BY <1>3, <1>5 DEF Sound, flags, callVars, heardVars, othersVars, RInv, CancelStays
  <2>3. Dropped'
    BY <1>3, <1>5 DEF Sound, flags, callVars, heardVars, othersVars,
       RInv, Types, CancelStays, Dropped, Told
  <2>4. Ended' /\ Returned'
    BY <1>3, <1>5 DEF Sound, flags, callVars, heardVars, othersVars,
       RInv, Types, CancelStays, Dropped, Told, Ended, Returned
  <2> QED BY <2>1, <2>2, <2>3, <2>4 DEF RInv
<1>6. ASSUME Overrun PROVE RInv'
  <2>1. Types'
    BY <1>3, <1>6 DEF Overrun, Drop, flags, callVars, heardVars, othersVars,
       RInv, Types, MicPCs, CapturePCs
  <2>2. CancelStays'
    BY <1>3, <1>6 DEF Overrun, Drop, flags, callVars, heardVars, othersVars, RInv, CancelStays
  <2>3. Dropped'
    BY <1>3, <1>6 DEF Overrun, Drop, flags, callVars, heardVars, othersVars,
       RInv, Types, CancelStays, Dropped, Told
  <2>4. Ended' /\ Returned'
    BY <1>3, <1>6 DEF Overrun, Drop, flags, callVars, heardVars, othersVars,
       RInv, Types, CancelStays, Dropped, Told, Ended, Returned
  <2> QED BY <2>1, <2>2, <2>3, <2>4 DEF RInv
<1>7. ASSUME Cancel PROVE RInv'
  <2>1. Types'
    BY <1>3, <1>7 DEF Cancel, flags, callVars, heardVars, othersVars,
       RInv, Types, MicPCs, CapturePCs, Recorders
  <2>2. CancelStays'
    <3>1. "barge" \in Recorders /\ cancelRequested'["barge"]
      BY <1>3, <1>7 DEF Cancel, RInv, Types, Recorders
    <3>2. cancelAt' = "capture" /\ who' = who
      BY <1>7 DEF Cancel, callVars
    <3>3. who = "barge"
      BY <1>3, <1>7 DEF Cancel, RInv, Types, CancelStays, Recorders
    <3> QED BY <3>1, <3>2, <3>3 DEF CancelStays
  <2>3. Dropped'
    BY <1>3, <1>7 DEF Cancel, flags, callVars, heardVars, othersVars,
       RInv, Types, CancelStays, Dropped, Told
  <2>4. Ended' /\ Returned'
    BY <1>3, <1>7 DEF Cancel, flags, callVars, heardVars, othersVars,
       RInv, Types, CancelStays, Dropped, Told, Ended, Returned
  <2> QED BY <2>1, <2>2, <2>3, <2>4 DEF RInv
<1>8. ASSUME CancelCapture PROVE RInv'
  <2>1. Types'
    BY <1>3, <1>8 DEF CancelCapture, flags, callVars, heardVars, othersVars,
       RInv, Types, MicPCs, CapturePCs
  <2>2. CancelStays'
    BY <1>3, <1>8 DEF CancelCapture, flags, callVars, heardVars, othersVars, RInv, CancelStays
  <2>3. Dropped'
    BY <1>3, <1>8 DEF CancelCapture, flags, callVars, heardVars, othersVars,
       RInv, Types, CancelStays, Dropped, Told
  <2>4. Ended' /\ Returned'
    BY <1>3, <1>8 DEF CancelCapture, flags, callVars, heardVars, othersVars,
       RInv, Types, CancelStays, Dropped, Told, Ended, Returned
  <2> QED BY <2>1, <2>2, <2>3, <2>4 DEF RInv
<1>9. ASSUME CancelDrop PROVE RInv'
  <2>1. Types'
    BY <1>3, <1>9 DEF CancelDrop, Drop, flags, callVars, heardVars, othersVars,
       RInv, Types, MicPCs, CapturePCs
  <2>2. CancelStays'
    BY <1>3, <1>9 DEF CancelDrop, Drop, flags, callVars, heardVars, othersVars, RInv, CancelStays
  <2>3. Dropped'
    BY <1>3, <1>9 DEF CancelDrop, Drop, flags, callVars, heardVars, othersVars,
       RInv, Types, CancelStays, Dropped, Told
  <2>4. Ended' /\ Returned'
    BY <1>3, <1>9 DEF CancelDrop, Drop, flags, callVars, heardVars, othersVars,
       RInv, Types, CancelStays, Dropped, Told, Ended, Returned
  <2> QED BY <2>1, <2>2, <2>3, <2>4 DEF RInv
<1>10. ASSUME StopBegin PROVE RInv'
  <2>1. Types'
    BY <1>3, <1>10 DEF StopBegin, flags, callVars, heardVars, othersVars,
       RInv, Types
  <2>2. CancelStays'
    BY <1>3, <1>10 DEF StopBegin, flags, callVars, heardVars, othersVars, RInv, CancelStays
  <2>3. Dropped'
    BY <1>3, <1>10 DEF StopBegin, flags, callVars, heardVars, othersVars,
       RInv, Types, CancelStays, Dropped, Told
  <2>4. Ended' /\ Returned'
    BY <1>3, <1>10 DEF StopBegin, flags, callVars, heardVars, othersVars,
       RInv, Types, CancelStays, Dropped, Told, Ended, Returned
  <2> QED BY <2>1, <2>2, <2>3, <2>4 DEF RInv
<1>11. ASSUME UNCHANGED micVars PROVE RInv'
  <2>1. Types'
    BY <1>3, <1>11 DEF micVars, flags, callVars, heardVars, othersVars,
       RInv, Types
  <2>2. CancelStays'
    BY <1>3, <1>11 DEF micVars, flags, callVars, heardVars, othersVars, RInv, CancelStays
  <2>3. Dropped'
    BY <1>3, <1>11 DEF micVars, flags, callVars, heardVars, othersVars,
       RInv, Types, CancelStays, Dropped, Told
  <2>4. Ended' /\ Returned'
    BY <1>3, <1>11 DEF micVars, flags, callVars, heardVars, othersVars,
       RInv, Types, CancelStays, Dropped, Told, Ended, Returned
  <2> QED BY <2>1, <2>2, <2>3, <2>4 DEF RInv
<1>12. CASE StopBegin
  <2>1. SInv'
    BY <1>12 DEF StopBegin, flags, MicInv, SInv, StopType, SourceFirst, NotBegun, Recorders
  <2> QED BY <1>12, <1>10, <2>1 DEF MicInv
<1>13. ASSUME \/ \E r \in Recorders : Record(r)
             \/ Sound \/ Overrun \/ Cancelling \/ UNCHANGED micVars
      PROVE  SInv'
  <2>1. UNCHANGED <<stopVars, srcStopped>>
    BY <1>13 DEF Record, Sound, Overrun, Cancelling, Cancel, CancelCapture, CancelDrop, micVars,
       flags, othersVars
  <2> QED BY <2>1 DEF MicInv, SInv, StopType, SourceFirst, NotBegun, stopVars
<1> QED
  BY <1>1, <1>2, <1>4, <1>5, <1>6, <1>7, <1>8, <1>9, <1>10, <1>11, <1>12, <1>13
  DEF MicNext, Stops, Cancelling, MicInv

THEOREM MicInvariance == MicSpec => []MicInv
  BY MicInitInv, MicStepInv, PTL DEF MicSpec

(***************************************************************************)
(* The type invariant.                                                     *)
(***************************************************************************)
THEOREM MicTypeCorrect == MicSpec => []MicTypeOK
<1>1. MicInv => MicTypeOK
  BY DEF MicInv, SInv, StopType, RInv, Types, MicTypeOK
<1> QED BY <1>1, MicInvariance, PTL

(***************************************************************************)
(* An error of the read that comes from a cancellation or from stop() is   *)
(* found out by a flag that is still raised: the one of the source, or the *)
(* recorder's, which is looked at first.                                   *)
(***************************************************************************)
THEOREM NoFault == MicSpec => []InterruptIsNoFault
<1>1. MicInv => InterruptIsNoFault
  BY DEF MicInv, RInv, Returned, InterruptIsNoFault
<1> QED BY <1>1, MicInvariance, PTL

(***************************************************************************)
(* A capture that ended well without a segment was ended by stop().        *)
(***************************************************************************)
THEOREM PartialIsStopped == MicSpec => []PartialOnlyAfterStop
<1>1. MicInv => PartialOnlyAfterStop
  BY DEF MicInv, RInv, Returned, PartialOnlyAfterStop
<1> QED BY <1>1, MicInvariance, PTL
-----------------------------------------------------------------------------
(***************************************************************************)
(* AlsaDevice: what a stop() leaves behind in the handle is told by a flag *)
(* or, for the player only, was forgotten by a play() that came between.   *)
(***************************************************************************)

\* A stop() accounts for what happens to the device.
Stopped(d) == stopFlag[d] \/ (d = "player" /\ straddled)

\* What a dropped handle, seen or about to be seen by the transfer, means.
AlsaInvOf(d) ==
    /\ stopping[d] = "flagged" => Stopped(d)
    /\ place[d] \in {"loop", "transfer", "end", "drain"} /\ pcm[d] = "dropped" => Stopped(d)
    /\ place[d] = "error" /\ failure[d] = "dropped" => Stopped(d)
    /\ place[d] = "recover" /\ failure[d] = "dropped" => d = "player" /\ straddled
    /\ failure[d] = "dropped" => place[d] \in {"error", "recover", "idle"}
    /\ place[d] # "idle" => outcome[d] = "none"
    /\ place[d] = "transfer" => left[d] > 0
    /\ outcome[d] = "fault" /\ failure[d] = "dropped" => d = "player" /\ straddled
AlsaInv == AlsaTypeOK /\ \A d \in Devices : AlsaInvOf(d)

LEMMA AlsaInitInv == AlsaInit => AlsaInv
<1> SUFFICES ASSUME AlsaInit PROVE AlsaInv
  OBVIOUS
<1>1. AlsaTypeOK
  <2>1. /\ stopFlag \in [Devices -> BOOLEAN] /\ straddled \in BOOLEAN
    BY DEF AlsaInit
  <2>2. left \in [Devices -> 0..Periods]
    BY AlsaAssumption DEF AlsaInit
  <2>3. place \in [Devices -> Places]
    BY DEF AlsaInit, Places
  <2> QED BY <2>1, <2>2, <2>3 DEF AlsaInit, AlsaTypeOK
<1>2. ASSUME NEW d \in Devices PROVE AlsaInvOf(d)
  BY <1>2 DEF AlsaInit, AlsaInvOf
<1> QED BY <1>1, <1>2 DEF AlsaInv

LEMMA AlsaStepInv == AlsaInv /\ [AlsaNext]_alsaVars => AlsaInv'
<1> SUFFICES ASSUME AlsaInv, [AlsaNext]_alsaVars PROVE AlsaInv'
  OBVIOUS
<1> USE AlsaAssumption DEF AlsaInv, AlsaTypeOK, AlsaInvOf, Stopped, Devices, Places,
        Go, Finish, Set, At
<1>1. ASSUME NEW d \in Devices, Call(d) PROVE AlsaInv'
  BY <1>1 DEF Call
<1>2. ASSUME NEW d \in Devices, Configure(d) PROVE AlsaInv'
  BY <1>2 DEF Configure
<1>3. ASSUME NEW d \in Devices, NextPeriod(d) PROVE AlsaInv'
  BY <1>3 DEF NextPeriod
<1>4. ASSUME NEW d \in Devices, TransferDropped(d) PROVE AlsaInv'
  BY <1>4 DEF TransferDropped
<1>5. ASSUME NEW d \in Devices, TransferError(d) PROVE AlsaInv'
  BY <1>5 DEF TransferError
<1>6. ASSUME NEW d \in Devices, RecoverDevice(d) PROVE AlsaInv'
  BY <1>6 DEF RecoverDevice
<1>7. CASE StartPlayer
  BY <1>7 DEF StartPlayer
<1>8. CASE EndPlayer
  BY <1>8 DEF EndPlayer
<1>9. CASE DrainDropped
  BY <1>9 DEF DrainDropped
<1>10. CASE StartRecorder
  BY <1>10 DEF StartRecorder
<1>11. CASE EndRecorder
  BY <1>11 DEF EndRecorder
<1>12. ASSUME NEW d \in Devices, Transfer(d) PROVE AlsaInv'
  BY <1>12 DEF Transfer
<1>13. ASSUME NEW d \in Devices, Overruns(d) PROVE AlsaInv'
  BY <1>13 DEF Overruns
<1>14. ASSUME NEW d \in Devices, StopFlag(d) PROVE AlsaInv'
  BY <1>14 DEF StopFlag
<1>15. ASSUME NEW d \in Devices, StopDrop(d) PROVE AlsaInv'
  BY <1>15 DEF StopDrop
<1>16. CASE Drained
  BY <1>16 DEF Drained
<1>17. CASE UNCHANGED alsaVars
  BY <1>17 DEF alsaVars
<1> QED
  BY <1>1, <1>2, <1>3, <1>4, <1>5, <1>6, <1>7, <1>8, <1>9, <1>10, <1>11, <1>12, <1>13, <1>14,
     <1>15, <1>16, <1>17 DEF AlsaNext, Run

(***************************************************************************)
(* A transfer, a drain or a recovery that meets a dropped handle was       *)
(* stopped: the flag that is raised before the drop is still up, unless    *)
(* play() has taken it down in between.                                    *)
(***************************************************************************)
THEOREM StopIsNoDeviceFault == AlsaSpec => []StopIsNoFault
<1>1. AlsaInv => StopIsNoFault
  BY DEF AlsaInv, AlsaInvOf, StopIsNoFault
<1> QED BY <1>1, AlsaInitInv, AlsaStepInv, PTL DEF AlsaSpec

(***************************************************************************)
(* The type invariant of the player and the recorder of a fixed length.    *)
(***************************************************************************)
THEOREM AlsaTypeCorrect == AlsaSpec => []AlsaTypeOK
<1>1. AlsaInv => AlsaTypeOK
  BY DEF AlsaInv
<1> QED BY <1>1, AlsaInitInv, AlsaStepInv, PTL DEF AlsaSpec

-----------------------------------------------------------------------------
(***************************************************************************)
(* Dht11: readers measure one at a time, and what is decoded is counted    *)
(* against the edges the sensor has sent.                                  *)
(***************************************************************************)

Held == Measuring \cup {"update", "unlock"}
Counting == {"wait", "free", "check", "decode"}

\* One reader measures at a time, and the interrupt is requested only for it.
Exclusive ==
    /\ reader \in [Readers -> ReaderPCs]
    /\ \A r \in Readers : reader[r] \in Held => lock = r
    /\ irq => lock \in Readers /\ reader[lock] \in {"wait", "free"}

\* What the interrupt handler has counted was sent after the interrupt was requested.
Counted ==
    /\ wire \in 0..WireEdges /\ first \in Nat
    /\ edge_count \in Int
    /\ wait_result \in {"done", "timeout", "killed"}
    /\ \A r \in Readers :
         /\ reader[r] \in {"low", "release", "irq"} => edge_count = 0 /\ ~completed
         /\ reader[r] \in Counting => first + edge_count <= wire
         /\ reader[r] \in {"irq"} \cup Counting => frame \in Frames
         /\ reader[r] \in Counting /\ completed => edge_count >= ExpectedEdges
         /\ reader[r] \in {"free", "check"} /\ wait_result = "done" => completed
         /\ reader[r] = "decode" => edge_count >= ExpectedEdges

\* A value is decoded only when none is fresh.
Stale == /\ \A r \in Readers : reader[r] \in Measuring \ {"stop"} => ~fresh
         /\ CacheIsLastGood

DhtInv == Exclusive /\ Counted /\ Stale /\ DecodedIsSent

LEMMA SizesAreNat == /\ DataBits \in Nat /\ DataBits >= 1
                     /\ ExpectedEdges = 2 * DataBits + 3 /\ WireEdges = 2 * DataBits + 5
                     /\ ExpectedEdges \in Nat /\ WireEdges \in Nat
  BY Dht11Assumption DEF DataBits, ExpectedEdges, WireEdges

\* An offset that is in step is one bit early or right: the train has no later one.
LEMMA OffsetsInStep ==
  ASSUME Counted, edge_count >= ExpectedEdges, first + edge_count <= wire,
         NEW o \in Offsets, InStep(o)
  PROVE  first + o \in {1, 3} /\ o \in Nat
<1> USE SizesAreNat DEF Counted
<1>1. o \in Nat /\ o + 2 * DataBits + 1 <= edge_count
  BY DEF Offsets
<1>2. first + o <= 4
  BY <1>1
<1>3. (first + o + 2) % 2 = 1
  <2>1. Level(first + Rising(o, 1) + 1) = 1
    BY DEF InStep
  <2>2. first + Rising(o, 1) + 1 = first + o + 2
    BY <1>1 DEF Rising
  <2> QED BY <2>1, <2>2 DEF Level
<1>4. first + o \in 0..4
  BY <1>1, <1>2
<1>5. first + o \notin {0, 2, 4}
  BY <1>3, <1>4
<1> QED BY <1>1, <1>4, <1>5

\* The right offset reads the frame as it was sent.
LEMMA RightOffset ==
  ASSUME Counted, frame \in Frames, edge_count >= ExpectedEdges, first + edge_count <= wire,
         NEW o \in Offsets, first + o = 3
  PROVE  InStep(o) /\ Captured(o) = frame
<1> USE SizesAreNat DEF Counted
<1>1. o \in Nat /\ o + 2 * DataBits + 1 <= edge_count
  BY DEF Offsets
<1>2. ASSUME NEW i \in 1..DataBits
      PROVE  /\ Falling(o, i) < edge_count
             /\ first + Rising(o, i) + 1 = 2 * i + 3
  BY <1>1 DEF Rising, Falling
<1>3. ASSUME NEW i \in 1..DataBits
      PROVE  Level(2 * i + 3) = 1 /\ Long(2 * i + 3) = frame[i]
  <2>1. 2 * i + 3 > 3 /\ (2 * i + 3) % 2 = 1 /\ (2 * i + 3 - 3) \div 2 = i
    OBVIOUS
  <2> QED BY <2>1 DEF Level, Long
<1>4. InStep(o)
  BY <1>2, <1>3 DEF InStep
<1>5. frame \in [1..DataBits -> {0, 1}]
  BY Dht11Assumption
<1>6. Captured(o) = [i \in 1..DataBits |-> frame[i]]
  BY <1>2, <1>3 DEF Captured
<1> QED BY <1>4, <1>5, <1>6

\* The largest of a set of numbers, if there is one.
LEMMA MaxIs ==
  ASSUME NEW S \in SUBSET Int, NEW m \in S, \A x \in S : x <= m
  PROVE  Max(S) = m
<1>1. \A y \in S : m >= y
  OBVIOUS
<1>2. \A x \in S : (\A y \in S : x >= y) => x = m
  OBVIOUS
<1> QED BY <1>1, <1>2 DEF Max

\* A frame that arrives intact is decoded as it was sent.
LEMMA DecodesSent ==
  ASSUME NEW r \in Readers, DhtInv, Decode(r), ret' = "ok", Genuine(frame)
  PROVE  value' = Sent(frame) \/ (first = 0 /\ edge_count = ExpectedEdges)
<1> DEFINE fine == {o \in {x \in Offsets : Matches(x)} : InRange(Decoded(o))}
           right == 3 - first
<1> USE SizesAreNat
<1>1. /\ Counted /\ frame \in Frames /\ edge_count >= ExpectedEdges
      /\ first + edge_count <= wire
  BY DEF Decode, DhtInv, Counted, Counting
<1>2. value' = Decoded(Max(fine))
  BY DEF Decode
<1>3. first \in Nat /\ edge_count \in Int /\ first + edge_count <= WireEdges
  BY <1>1 DEF Counted
<1>4. first <= 2
  BY <1>1, <1>3
<1>5. ASSUME ~(first = 0 /\ edge_count = ExpectedEdges)
      PROVE  value' = Sent(frame)
  <2>1. CASE first + edge_count < ExpectedEdges + 1
    BY <1>1, <1>3, <1>5, <2>1
  <2>2. CASE first + edge_count >= ExpectedEdges + 1
    <3>1. right \in Offsets /\ first + right = 3
      BY <1>3, <1>4, <2>2 DEF Offsets
    <3>2. InStep(right) /\ Captured(right) = frame
      BY <1>1, <3>1, RightOffset
    <3>3. right \in fine /\ Decoded(right) = Sent(frame)
      BY <3>1, <3>2 DEF Genuine, Sent, Matches, Decoded
    <3>4. \A o \in fine : o <= right
      <4> SUFFICES ASSUME NEW o \in fine PROVE o <= right
        OBVIOUS
      <4>1. first + o \in {1, 3} /\ o \in Nat
        BY <1>1, OffsetsInStep DEF Matches
      <4> QED BY <1>3, <4>1
    <3>5. fine \subseteq Int
      BY <1>3 DEF Offsets
    <3>6. Max(fine) = right
      BY <3>3, <3>4, <3>5, MaxIs
    <3> QED BY <1>2, <3>3, <3>6
  <2> QED BY <1>3, <2>1, <2>2
<1> QED BY <1>5

LEMMA DhtInitInv == DhtInit => DhtInv
<1> SUFFICES ASSUME DhtInit PROVE DhtInv
  OBVIOUS
<1> USE Dht11Assumption, SizesAreNat DEF DhtInit
<1>1. Exclusive
  BY DEF Exclusive, ReaderPCs, Held, Measuring
<1>2. Counted
  BY DEF Counted, Counting
<1>3. Stale /\ DecodedIsSent
  BY DEF Stale, CacheIsLastGood, DecodedIsSent, Measuring
<1> QED BY <1>1, <1>2, <1>3 DEF DhtInv

LEMMA DhtStepInv == DhtInv /\ [DhtNext]_dhtVars => DhtInv'
<1> SUFFICES ASSUME DhtInv, [DhtNext]_dhtVars PROVE DhtInv'
  OBVIOUS
<1> USE Dht11Assumption, SizesAreNat DEF sensorVars, cacheVars
<1>1. ASSUME NEW r \in Readers, Read(r) PROVE DhtInv'
  <2>1. Exclusive'
    BY <1>1 DEF Read, StepTo, DhtInv, Exclusive, ReaderPCs, Held, Measuring
  <2>2. Counted'
    BY <1>1 DEF Read, StepTo, DhtInv, Exclusive, Counted, Held, Measuring, Counting
  <2>3. Stale'
    BY <1>1 DEF Read, StepTo, DhtInv, Exclusive, Stale, CacheIsLastGood, Held, Measuring
  <2>4. DecodedIsSent'
    BY <1>1 DEF Read, StepTo, DhtInv, Exclusive, DecodedIsSent, Held, Measuring
  <2> QED BY <2>1, <2>2, <2>3, <2>4 DEF DhtInv
<1>2. ASSUME NEW r \in Readers, Lock(r) PROVE DhtInv'
  <2>1. Exclusive'
    BY <1>2 DEF Lock, StepTo, DhtInv, Exclusive, ReaderPCs, Held, Measuring
  <2>2. Counted'
    BY <1>2 DEF Lock, StepTo, DhtInv, Exclusive, Counted, Held, Measuring, Counting
  <2>3. Stale'
    BY <1>2 DEF Lock, StepTo, DhtInv, Exclusive, Stale, CacheIsLastGood, Held, Measuring
  <2>4. DecodedIsSent'
    BY <1>2 DEF Lock, StepTo, DhtInv, Exclusive, DecodedIsSent, Held, Measuring
  <2> QED BY <2>1, <2>2, <2>3, <2>4 DEF DhtInv
<1>3. ASSUME NEW r \in Readers, Interrupt(r) PROVE DhtInv'
  <2>1. Exclusive'
    BY <1>3 DEF Interrupt, StepTo, DhtInv, Exclusive, ReaderPCs, Held, Measuring
  <2>2. Counted'
    BY <1>3 DEF Interrupt, StepTo, DhtInv, Exclusive, Counted, Held, Measuring, Counting
  <2>3. Stale'
    BY <1>3 DEF Interrupt, StepTo, DhtInv, Exclusive, Stale, CacheIsLastGood, Held, Measuring
  <2>4. DecodedIsSent'
    BY <1>3 DEF Interrupt, StepTo, DhtInv, Exclusive, DecodedIsSent, Held, Measuring
  <2> QED BY <2>1, <2>2, <2>3, <2>4 DEF DhtInv
<1>4. ASSUME NEW r \in Readers, Update(r) PROVE DhtInv'
  <2>1. Exclusive'
    BY <1>4 DEF Update, StepTo, DhtInv, Exclusive, ReaderPCs, Held, Measuring
  <2>2. Counted'
    BY <1>4 DEF Update, StepTo, DhtInv, Exclusive, Counted, Held, Measuring, Counting
  <2>3. Stale'
    BY <1>4 DEF Update, StepTo, DhtInv, Exclusive, Stale, CacheIsLastGood, Held, Measuring
  <2>4. DecodedIsSent'
    BY <1>4 DEF Update, StepTo, DhtInv, Exclusive, DecodedIsSent, Held, Measuring
  <2> QED BY <2>1, <2>2, <2>3, <2>4 DEF DhtInv
<1>5. ASSUME NEW r \in Readers, DriveLow(r) PROVE DhtInv'
  <2>1. Exclusive'
    BY <1>5 DEF DriveLow, StepTo, Fail, DhtInv, Exclusive, ReaderPCs, Held, Measuring
  <2>2. Counted'
    BY <1>5 DEF DriveLow, StepTo, Fail, DhtInv, Exclusive, Counted, Held, Measuring, Counting
  <2>3. Stale'
    BY <1>5 DEF DriveLow, StepTo, Fail, DhtInv, Exclusive, Stale, CacheIsLastGood, Held, Measuring
  <2>4. DecodedIsSent'
    BY <1>5 DEF DriveLow, StepTo, Fail, DhtInv, Exclusive, DecodedIsSent, Held, Measuring
  <2> QED BY <2>1, <2>2, <2>3, <2>4 DEF DhtInv
<1>6. ASSUME NEW r \in Readers, ReleaseLine(r) PROVE DhtInv'
  <2>1. Exclusive'
    BY <1>6 DEF ReleaseLine, StepTo, Fail, DhtInv, Exclusive, ReaderPCs, Held, Measuring
  <2>2. Counted'
    BY <1>6 DEF ReleaseLine, StepTo, Fail, DhtInv, Exclusive, Counted, Held, Measuring, Counting
  <2>3. Stale'
    BY <1>6 DEF ReleaseLine, StepTo, Fail, DhtInv, Exclusive, Stale, CacheIsLastGood, Held,
       Measuring
  <2>4. DecodedIsSent'
    BY <1>6 DEF ReleaseLine, StepTo, Fail, DhtInv, Exclusive, DecodedIsSent, Held, Measuring
  <2> QED BY <2>1, <2>2, <2>3, <2>4 DEF DhtInv
<1>7. ASSUME NEW r \in Readers, RequestIrq(r) PROVE DhtInv'
  <2>1. Exclusive'
    BY <1>7 DEF RequestIrq, StepTo, Fail, DhtInv, Exclusive, ReaderPCs, Held, Measuring
  <2>2. Counted'
    BY <1>7 DEF RequestIrq, StepTo, Fail, DhtInv, Exclusive, Counted, Held, Measuring, Counting
  <2>3. Stale'
    BY <1>7 DEF RequestIrq, StepTo, Fail, DhtInv, Exclusive, Stale, CacheIsLastGood, Held, Measuring
  <2>4. DecodedIsSent'
    BY <1>7 DEF RequestIrq, StepTo, Fail, DhtInv, Exclusive, DecodedIsSent, Held, Measuring
  <2> QED BY <2>1, <2>2, <2>3, <2>4 DEF DhtInv
<1>8. ASSUME NEW r \in Readers, Wait(r) PROVE DhtInv'
  <2>1. Exclusive'
    BY <1>8 DEF Wait, StepTo, DhtInv, Exclusive, ReaderPCs, Held, Measuring
  <2>2. Counted'
    BY <1>8 DEF Wait, StepTo, DhtInv, Exclusive, Counted, Held, Measuring, Counting
  <2>3. Stale'
    BY <1>8 DEF Wait, StepTo, DhtInv, Exclusive, Stale, CacheIsLastGood, Held, Measuring
  <2>4. DecodedIsSent'
    BY <1>8 DEF Wait, StepTo, DhtInv, Exclusive, DecodedIsSent, Held, Measuring
  <2> QED BY <2>1, <2>2, <2>3, <2>4 DEF DhtInv
<1>9. ASSUME NEW r \in Readers, FreeIrq(r) PROVE DhtInv'
  <2>1. Exclusive'
    BY <1>9 DEF FreeIrq, StepTo, DhtInv, Exclusive, ReaderPCs, Held, Measuring
  <2>2. Counted'
    BY <1>9 DEF FreeIrq, StepTo, DhtInv, Exclusive, Counted, Held, Measuring, Counting
  <2>3. Stale'
    BY <1>9 DEF FreeIrq, StepTo, DhtInv, Exclusive, Stale, CacheIsLastGood, Held, Measuring
  <2>4. DecodedIsSent'
    BY <1>9 DEF FreeIrq, StepTo, DhtInv, Exclusive, DecodedIsSent, Held, Measuring
  <2> QED BY <2>1, <2>2, <2>3, <2>4 DEF DhtInv
<1>10. ASSUME NEW r \in Readers, Check(r) PROVE DhtInv'
  <2>1. Exclusive'
    BY <1>10 DEF Check, StepTo, Fail, DhtInv, Exclusive, ReaderPCs, Held, Measuring
  <2>2. Counted'
    BY <1>10 DEF Check, StepTo, Fail, DhtInv, Exclusive, Counted, Held, Measuring, Counting
  <2>3. Stale'
    BY <1>10 DEF Check, StepTo, Fail, DhtInv, Exclusive, Stale, CacheIsLastGood, Held, Measuring
  <2>4. DecodedIsSent'
    BY <1>10 DEF Check, StepTo, Fail, DhtInv, Exclusive, DecodedIsSent, Held, Measuring
  <2> QED BY <2>1, <2>2, <2>3, <2>4 DEF DhtInv
<1>11. ASSUME NEW r \in Readers, Decode(r) PROVE DhtInv'
  <2>1. Exclusive'
    BY <1>11 DEF Decode, StepTo, DhtInv, Exclusive, ReaderPCs, Held, Measuring
  <2>2. Counted'
    BY <1>11 DEF Decode, StepTo, DhtInv, Exclusive, Counted, Held, Measuring, Counting
  <2>3. Stale'
    BY <1>11 DEF Decode, StepTo, DhtInv, Exclusive, Stale, CacheIsLastGood, Held, Measuring
  <2>4. DecodedIsSent'
    <3>1. /\ UNCHANGED <<frame, first, edge_count>>
          /\ \A x \in Readers : reader'[x] = "stop" => x = r
      BY <1>11 DEF Decode, StepTo, DhtInv, Exclusive, Held, Measuring
    <3> QED BY <1>11, <3>1, DecodesSent DEF DecodedIsSent
  <2> QED BY <2>1, <2>2, <2>3, <2>4 DEF DhtInv
<1>12. ASSUME NEW r \in Readers, StopCapture(r) PROVE DhtInv'
  <2>1. Exclusive'
    BY <1>12 DEF StopCapture, StepTo, DhtInv, Exclusive, ReaderPCs, Held, Measuring
  <2>2. Counted'
    BY <1>12 DEF StopCapture, StepTo, DhtInv, Exclusive, Counted, Held, Measuring, Counting
  <2>3. Stale'
    BY <1>12 DEF StopCapture, StepTo, DhtInv, Exclusive, Stale, CacheIsLastGood, Held, Measuring
  <2>4. DecodedIsSent'
    BY <1>12 DEF StopCapture, StepTo, DhtInv, Exclusive, DecodedIsSent, Held, Measuring
  <2> QED BY <2>1, <2>2, <2>3, <2>4 DEF DhtInv
<1>13. ASSUME NEW r \in Readers, Unlock(r) PROVE DhtInv'
  <2>1. Exclusive'
    BY <1>13 DEF Unlock, StepTo, DhtInv, Exclusive, ReaderPCs, Held, Measuring
  <2>2. Counted'
    BY <1>13 DEF Unlock, StepTo, DhtInv, Exclusive, Counted, Held, Measuring, Counting
  <2>3. Stale'
    BY <1>13 DEF Unlock, StepTo, DhtInv, Exclusive, Stale, CacheIsLastGood, Held, Measuring
  <2>4. DecodedIsSent'
    BY <1>13 DEF Unlock, StepTo, DhtInv, Exclusive, DecodedIsSent, Held, Measuring
  <2> QED BY <2>1, <2>2, <2>3, <2>4 DEF DhtInv
<1>14. CASE Edge
  <2>1. Exclusive'
    BY <1>14 DEF Edge, DhtInv, Exclusive
  <2>2. Counted'
    <3>1. wire' \in 0..WireEdges /\ wire' = wire + 1
      BY <1>14 DEF Edge, DhtInv, Counted
    <3>2. CASE irq /\ edge_count \in 0..MaxEdges - 1
      <4>1. \A r \in Readers : reader[r] \notin {"low", "release", "irq", "decode"}
        BY <3>2 DEF DhtInv, Exclusive, Held, Measuring
      <4>2. /\ completed' => completed \/ edge_count' >= ExpectedEdges
            /\ completed => completed'
        BY <1>14, <3>2, Zenon DEF Edge
      <4>3. /\ edge_count \in Int /\ edge_count' = edge_count + 1
            /\ UNCHANGED <<reader, first, frame, wait_result>>
        BY <1>14, <3>2 DEF Edge
      <4> QED BY <3>1, <4>1, <4>2, <4>3 DEF DhtInv, Counted, Counting
    <3>3. CASE ~(irq /\ edge_count \in 0..MaxEdges - 1)
      BY <1>14, <3>1, <3>3 DEF Edge, DhtInv, Counted, Counting
    <3> QED BY <3>2, <3>3
  <2>3. Stale' /\ DecodedIsSent'
    BY <1>14 DEF Edge, DhtInv, Exclusive, Stale, CacheIsLastGood, DecodedIsSent, Held, Measuring
  <2> QED BY <2>1, <2>2, <2>3 DEF DhtInv
<1>15. CASE Expire
  <2>1. Exclusive'
    BY <1>15 DEF Expire, DhtInv, Exclusive
  <2>2. Counted'
    BY <1>15 DEF Expire, DhtInv, Exclusive, Counted, Held, Measuring, Counting
  <2>3. Stale' /\ DecodedIsSent'
    BY <1>15 DEF Expire, DhtInv, Exclusive, Stale, CacheIsLastGood, DecodedIsSent, Held, Measuring
  <2> QED BY <2>1, <2>2, <2>3 DEF DhtInv
<1>16. CASE UNCHANGED dhtVars
  <2>1. Exclusive'
    BY <1>16 DEF dhtVars, DhtInv, Exclusive
  <2>2. Counted'
    BY <1>16 DEF dhtVars, DhtInv, Exclusive, Counted, Held, Measuring, Counting
  <2>3. Stale' /\ DecodedIsSent'
    BY <1>16 DEF dhtVars, DhtInv, Exclusive, Stale, CacheIsLastGood, DecodedIsSent, Held, Measuring
  <2> QED BY <2>1, <2>2, <2>3 DEF DhtInv
<1> QED
  BY <1>1, <1>2, <1>3, <1>4, <1>5, <1>6, <1>7, <1>8, <1>9, <1>10, <1>11, <1>12, <1>13, <1>14,
     <1>15, <1>16
  DEF DhtNext, Proceed, Measure

(***************************************************************************)
(* A measurement starts only when no value is fresh, so that a failed one, *)
(* which may overwrite the fields, spoils nothing that is still believed.  *)
(***************************************************************************)
THEOREM CachedIsGood == DhtSpec => []CacheIsLastGood
<1>1. DhtInv => CacheIsLastGood
  BY DEF DhtInv, Stale
<1> QED BY <1>1, DhtInitInv, DhtStepInv, PTL DEF DhtSpec

(***************************************************************************)
(* At most two edges escape the capture, and every offset but the right    *)
(* one is out of step or tried after it, unless the right one is not tried *)
(* at all because the reader woke too early.                               *)
(***************************************************************************)
THEOREM DecodesWhatIsSent == DhtSpec => []DecodedIsSent
<1>1. DhtInv => DecodedIsSent
  BY DEF DhtInv
<1> QED BY <1>1, DhtInitInv, DhtStepInv, PTL DEF DhtSpec
=============================================================================
