# EdgeVoiceRag in TLA+

This directory specifies the part of EdgeVoiceRag that runs on the board
(`src/src/board_voice_main.cpp`): a voice assistant that listens, answers from a
language model and a vehicle manual, speaks, lets the user interrupt, and may
operate a device. Paths below are relative to the repository, which is under
`src/`: `src/voice_assistant.cpp` is `src/src/voice_assistant.cpp`.

What is hard about this program is not what one call computes but what several
threads do to each other: the answer, the synthesis, the playback, the listening
microphone, the polling session and whoever calls `stop()`. The specifications
keep every step in which a thread reads or writes what another one can see, and
leave out what is said, heard, logged and timed.

## 1. The system

### Parts, their state and how they interact

| Part | State | Operations | Talks to |
|---|---|---|---|
| `BoundedBlockingQueue` (`include/bounded_blocking_queue.h`) | deque, `closed_`, one mutex, two condition variables | `push`, `pop`, `close`, `clear` | shared by the threads of `VoiceAssistant` |
| `VoiceAssistant` (`src/voice_assistant.cpp`) | `started_`, `stopped_`, `active_state_`, a `RequestState` per request, two queues, two worker threads | `start`, `processText`, `stopPlayback`, `stop` | answer backend (streams chunks back), TTS, player, cancellation backend |
| Audio player (`src/alsa_audio_player.cpp`) | `stop_requested_`, the device | `play` (playback thread), `stop` (any thread) | called by `VoiceAssistant` |
| `ContinuousVoiceSession` (`src/continuous_voice_session.cpp`) | `stop_requested_`, the pending capture, the counters, two futures per turn | `run`, `stop` | recorders, ASR, `VoiceAssistant` |
| VAD recorder (`src/sherpa_onnx_vad_audio_recorder.cpp`), microphone (`src/alsa_pcm_stream_source.cpp`) | `cancel_requested_`, `stopped_`, the detector | `recordUtterance(handler)`, `cancelCurrentRecording`, `stop` | calls back the session's handler on the recording thread |
| Agent router (`src/agent/agent_routing_answer_backend.cpp`) | active request and backend | `query`, `cancel` | agent or policy backend |
| `AgentExecutor` (`src/agent/agent_executor.cpp`) | `pending_actions_` with creation times | `run`, `cancel`, `clearSession` | planner (LLM or rules), tools |
| LLM backends (`src/rkllm_backend.cpp`) | `running`, `cancel_requested` | `generate(Stream)`, `cancel` | called by planner, policy and local RAG backends |
| Policy routing, local RAG (`src/policy_routing_answer_backend.cpp`, `src/local_rag_llm_backend.cpp`) | active request | `query`, `cancel` | retriever, LLM |
| Sentence buffer (`src/streaming_sentence_buffer.cpp`) | unterminated text | `append`, `flush`, `clear` | used by `processText` |
| Retrieval (`src/bm25_*`, `dense_*`, `hybrid_*`, `relevance_*`) | indexes, read only after loading | `searchTopK` | policy routing |
| LLM server (`src/llm_server.cpp`, `src/llm_stream_service.cpp`, `src/llm_control_server.cpp`) | active request id, two sockets in one poll loop, a control thread | request, stream, cancel | clients over ZeroMQ |
| RAG clients (`src/rag_stream_client.cpp`, `src/rag_control_client.cpp`) | none between calls | `query`, `cancel` | a server over ZeroMQ |
| DHT11 driver (`kernel_modules/edge_dht11/edge_dht11.c`) | edges, edge count, completion, cached sample, mutex | interrupt handler, `read_raw` | IIO readers |
| Python prototype (`python/rag`) | the earlier form of the same pipeline | | |

One turn on the board: `run()` records a question and transcribes it; one thread
calls `processText()`, whose chunk handler cuts the streamed answer into sentences
and pushes them into the sentence queue; `ttsWorker` synthesizes and pushes into
the audio queue; `playbackWorker` plays; an end mark travels behind the sentences
through both queues and wakes `processText()`. Meanwhile a second thread records
with a stricter detector, and its handler calls `stopPlayback()` when the user
speaks: the request is marked as failed and completed, both queues are cleared,
the player is stopped and the generation is cancelled through the router, the
agent and the model.

### What makes each part correct

* Queue: first in, first out; nothing lost but by `clear()`; a closed queue is
  drained, then refuses; nobody sleeps through what concerns them.
* Assistant: what is reported as ok was spoken in full, once, in order; an
  interrupted or failed request leaves nothing behind that the next one could
  speak; `processText()` and `stop()` return.
* Session: threads of a turn never outlive it; turns are counted as the result
  says; `stop()` is heeded; what the user says while interrupting is not lost.
* Agent: the device is written only after a confirmation in time; whatever was
  refused, expired, cancelled or overtaken by an emergency is not executed; what is
  said of the device is true.
* Streams, through sockets or within the process: the caller hears a prefix of one
  generation, and success means that it has heard it all; a cancellation hits the
  request it names; a request that failed in any way leaves the service free.
* Microphone, player, recorder: a stop or a cancellation ends the call although the
  device is silent, and is never reported as a fault of the device.
* Sensor driver: every read returns; a value read is one that the sensor sent.
* Retrieval: what was loaded together belongs together; the better chunk wins.
* Sentence buffer: the sentences do not depend on how the answer was cut.

### Hard behaviours

`PROJECT.json` lists them under "hazards", each at its line, with the properties
that watch it. The themes: a copy of `active_state_` used after its lock is
released; a flag reset by `play()` after the caller's check; sticky cancellation
flags; notifications sent outside the lock; end marks that must survive failures
and shutdown; two futures joined in four ways; check-then-act between two
critical sections of the executor; a clock that runs while the user hesitates; three
processes that each give up on their own; files that change while they are read; a
device handle dropped under a blocked reader.

## 2. The modules

| Module | Models | Checked in | Proofs |
|---|---|---|---|
| `AtomicQueue` | what the queue promises: every call is one step between invocation and return | `MCDevices` | |
| `BoundedBlockingQueue` | the queue's critical sections and notifications; refines `AtomicQueue` | `MCDevices` | `BoundedBlockingQueueProofs` |
| `VoiceAssistant` | `processText`, both workers, any number of interrupting threads, `stop()`, the player's stop flag | `MCVoiceAssistant` | `VoiceAssistantProofs`, `VoicePipelineProofs` |
| `ContinuousVoiceSession` | `run()`, the two threads of a turn, the barge-in recorder, `stop()` | `MCContinuousVoiceSession` | `ContinuousVoiceSessionProofs` |
| `Microphone` | two VAD recorders over one ALSA source, `cancelCurrentRecording()`, the session's `stop()` | `MCDevices` | `DeviceProofs` |
| `AlsaDevice` | the player and the recorder of a fixed length against `stop()` | `MCDevices` | `DeviceProofs` |
| `Dht11` | the sensor driver: readers, interrupt handler, wait, decoder, cached value | `MCDevices` | `DeviceProofs` |
| `VehicleAgent` | router, executor, a planner that may plan anything, a cancelling thread | `MCVehicleAgent` | `AgentProofs` |
| `AgentTask` | `VehicleAgent` with its classifier, planners, tools and device; refines it | `MCAgentTask` | `AgentProofs` |
| `AnswerStream` | what a streamed question promises to its caller | | |
| `LlmServer` | the model server: serving thread, control thread, model, any clients | `MCRagChain` | |
| `RagChain` | C++ client, Python RAG server and `LlmServer`; refines `AnswerStream` | `MCRagChain` | `RagChainProofs` |
| `LocalAnswer` | policy router and local RAG over `RkllmBackend`; refines `AnswerStream` | `MCAnswers` | `AnswerProofs` |
| `RetrieverRuntime` | loading of the retrievers while the knowledge base is edited and indexed | `MCAnswers` | `AnswerProofs` |
| `HybridSearch` | one search: ranks, fusion, filter | `MCAnswers` | `AnswerProofs` |
| `StreamingSentenceBuffer` | the sentence buffer on bytes | `MCAnswers` | `AnswerProofs` |

The models compose by what one assumes of the next:

* `VoiceAssistant` uses queues whose operations are one step each. That is
  `AtomicQueue`, which `BoundedBlockingQueue` is proved to implement.
* `ContinuousVoiceSession` reduces the assistant to what a caller sees:
  `stopPlayback()` fails the request that is active and no other, and
  `processText()` returns. `VoiceAssistant` shows to what extent that holds
  (`ProcessTextReturns`), and where it does not (`InterruptNeverStrands`).
* It also reduces a recording to its flags and its end. `Microphone` is the code of
  that recording, and shows that a stop and a cancellation end it
  (`StopEndsRecording`, `CancelEndsRecording`) and how it is reported.
* `VoiceAssistant` takes from the player its stop flag and the reset; `AlsaDevice`
  shows that a stop whose flag is not reset ends the playback (`StopEndsTransfer`),
  which is what lets `play()` be an action that ends.
* `VoiceAssistant` lets the backend produce any chunks and fail at any time:
  `AnswerStream`. Both kinds of backend implement it: `RagChain` over sockets,
  `LocalAnswer` in the process.
* `AgentTask` EXTENDS `VehicleAgent`, conjoins each of its actions with what the
  planner, the tool or the device does in it, and so inherits its theorems.
* `RagChain` EXTENDS `LlmServer`, whose clients are free, and puts the program's own
  client in the place of some of them; the others stay free.
* `VehicleAgent` has one request at a time (`process_mutex_`) and a canceller that
  ends before the next request: the handler that cancels runs on the recording
  thread, which the session joins within the turn (`TurnsAreJoined`).

### Correspondence

**Queue.** `pc[t] = "ready"` is a thread that is about to take `mutex_`;
`"asleep"` one inside `wait()`; `"notify"`, `"notifyFull"` one that has released
the lock and not yet notified; `"done"` one about to return. A critical section is
one action, a notification another. `SpuriousWakeup` is allowed at any time.

**VoiceAssistant.** A task is `[req, seq]`, with `seq = 0` for the end mark. `proc`
is the place of `processText()`: `"query"` waits in the backend, `"handler"`,
`"full"` and `"flush"` are the three loops that push sentences (chunk handler, an
answer that was not streamed, the rest of the buffer), `"end"` pushes the end mark,
`"wait"` is `waitForCompletion()`. `intr[i]` walks through
`interruptActiveRequest()` one shared access at a time, with `target[i]` its copy
of `active_state_`; for the `Stopper` it goes on through `close()` and `join()`.
`process_mutex_` is the fact that `ProcStart` needs `proc = "idle"`.
Merged steps: `TtsSynth` is `stateFailed()` followed by `synthesize()`, whose
outcome depends on no shared state, so the result may be chosen at the check;
`ProcWait` reads the result in the step that sees `completed`, after which nothing
changes the state of the request except a late `failState()` that only an
interrupt could make and that completed it first. `ProcChunk` reads the state and
yields sentences in one step; the buffer belongs to the thread alone.
The histories `heard`, `stale` and `robbed` are read by no action. `robbed` names
the requests that lost a task or part of a playback to an interrupt that had found
another request (or none), or to the exit of `ttsWorker`: properties that such an
interrupt breaks are stated for the others, and the interrupt itself is the
subject of the run `stranded`.

**ContinuousVoiceSession.** `main` is the place of `run()`. `answer` is the thread
of `answer_future`: `"starting"` before `setActiveState()`, `"active"`,
`"interrupted"`, then its result, `"cut"` being the failure of an interrupted
request. `barge` is the recording thread, `"handler"` while it is between
`barge_in_started.exchange(true)` and `stopPlayback()`. `Poll`, `PollAnswer` and
`PollBarge` are the three looks of the polling loop at the world; between any two
of them other threads run. The two recorders share a microphone, whose `stopped`
flag is permanent (`sourceStopped`). Whether the detector hears speech, and how a
recording ends, is free.

**Microphone.** `at` is the place of the recording thread: `"enter"` and `"open"` in
`SherpaOnnxVadAudioRecorder::recordUtterance()`, `"capture"` to `"recover"` in
`AlsaPcmStreamSource::capture()`, `"chunk"` in the handler that the one gives to the
other, `"judge"` and `"conclude"` in the evaluation of the result. Every load and
store of an atomic is a step, and so is every `snd_pcm_drop()`, which turns
`handle = "ready"` into `"dropped"` and a blocked `snd_pcm_readi()` into an error
(`ReadDropped`). `stopStep` is the next of the five things `stop()` does to a
recorder and the source. `err` remembers what the last failed read met: it is what
makes a wrong report visible. External: `snd_pcm_recover()` repairs an overrun and
returns every other error.

**AlsaDevice.** `place[d]` is the place in `play()` or in the fixed-length
`recordUtterance()`, whose loops are alike; `stopping[d]` is between the flag and
the drop of `stop()`. `straddled` records that a stop had done the one and not the
other when `play()` reset the flag. `snd_pcm_drain()` of a dropped handle may return
an error or not (`DrainDropped`).

**Dht11.** The sensor's answer is a train of `2 * 40 + 5` edges whose even ones fall;
`wire` of them have been sent, `first` of them before the interrupt was requested,
and `edge_count` of them were recorded. `edges[i]` is therefore edge `first + i` of
the train, its level the parity, and the time to the next one the bit, which is what
`Level` and `Long` say; the array itself is no variable. `Decode` tries the offsets
from the largest down and writes the value before it checks the range, as the code
does. Noise on the line, other than the release that may or may not be counted, is
left out.

**VehicleAgent.** `q` is the place of the request in router, backend and executor.
`pending` names the request that made the pending action, `age` its age in ticks,
`steps` the number of observations. The canceller goes through the router's look at
the active backend (`CancelRoute`), the erasure under `pending_mutex_`
(`CancelPending`) and `planner_.cancel()` (`CancelPlanner`), which has an effect
only while the model runs. `Inputs` are the classes that the classifiers tell
apart. A planner may answer with anything an `AgentAction` can be. A tool's failure
is an observation like its success.

**AgentTask.** A request is the set of those keywords it contains that the lists of
`AgentIntentClassifier` and `RuleAgentPlanner` tell apart (`Words`), two keywords
being one word where no list separates them. `Intent`, `PlanInitialAction` and
`HandleObservation` keep the order of the tests in the code. `LlmPlans` is whatever
`parseResponse()` lets through. `held` is the tool call stored in the pending
action, `on` the device. `said` is what a final answer tells about it, as
`rule_agent_planner.cpp` words it from the observation.

**LlmServer, RagChain.** `main` is the place of the serving thread between `poll()`
and the reply: `"decode"` is the check of the frame and `setActiveRequest()`,
`"clear"` and `"unwind"` the scope guard on the normal way and behind an exception,
`"apologize"` the catch block, `"joining"` `LlmControlServer::stop()`. `ctl` is the
control thread: it holds `active_mutex_` at `"locked"`, `"looked"` and `"flagged"`,
which is `LockFree`. `busy`, `flag` and `aborting` are `RkllmBackend`'s `running`, its
`cancel_requested` and an accepted `rkllm_abort()`. An event is its type, its
sequence and the number of parts in its answer: a part is its number. `relay` is
the serving thread of the Python RAG server, which may fail before it asks the model
server (`RelayFails`), `q` and `heard` the C++ client. `Take`,
`HangUp` and `SendCancel` are steps of `llm_zmq_client.py` that a client may take at any
time; the relay's own actions are built from them. Sockets
are queues; one that is closed drops what is under way (linger 0), and the tail of a
stream may be lost when the server goes.

**LocalAnswer.** `place[q]` is the place of a request in `query()`; `router` chooses
the backend, whose protocols are the same and whose plan differs (`Classify`,
`Search`). `Category` and `WithRetrieval` are `QueryClassifier::classify` and
`ResponsePolicy`, with scores in thousandths and word lists as counts; the tests of
one `CASE` exclude each other as the code's `else` does. `"leave"` is the scope
guard.

**RetrieverRuntime.** `texts` is the history of the knowledge base; a *version* is a
place in it, and an edit adds one, with any text, also one that was there before. A
file or a retriever is the version it was made from. The code sees no versions: the
fingerprint compares texts (`Text`), the order of the rows compares `ChunkIds`, and of
the vectors only the size is compared, that is, the number of rows
(`dense_vector_index.cpp:284`). Each reading of a file is an action, and the builder's
`Sign` is a second reading. No action reads `first`. **HybridSearch** has one action
for each retriever on the way; contributions are computed in integers, with a
`Scale` that every rank divides. All of the code's lists are ordered by score, and
by chunk id among equals, so a list is the function from its chunks to their scores:
`Ahead` is the comparison of the sort, `Position` the index in the sorted list and
`Top` the sort with its `resize()`. **StreamingSentenceBuffer** works on sequences of
bytes; `Boundaries` is what `find` looks for, and `Take` the substring, the erasure
and the trimming that `extractSentences()` and `flush()` share. `places` remembers
where in the whole text each sentence was; no action reads it.

## 3. The runs

| Run | Bounds | Checks |
|---|---|---|
| `queue_and_devices` | queue: 3 threads, 2 values, capacity 2 | `NoLostWakeup`, `CloseReleasesEveryone`, `ImplementsAtomicQueue` |
| | microphone: 3 recordings, silence of 2 chunks | `InterruptIsNoFault`, `PartialOnlyAfterStop`, `StopEndsRecording`, `CancelEndsRecording` |
| | player and recorder: buffers of at most 1 period | `StopIsNoFault`, `StopEndsTransfer` |
| | sensor: 2 readers, bytes of 1 bit, room for 16 edges, 2 frames | `CacheIsLastGood`, `DecodedIsSent`, `EveryReadReturns` |
| `assistant` | 2 requests of 1 sentence, queues of 1, 1 interrupter with 2 calls, `stop()` | `ControlOK`, `WaitIsCovered`, `LeftoversAreFailed`, `OkMeansAllSpoken` |
| `assistant_live` | 1 request of 2 sentences, queues of 1, 1 interrupter with 1 call, `stop()` | `SpokenInOrder`, `AtMostOneStale`, `ProcessTextReturns`, `StopReturns` |
| `session` | 3 turns | `TurnsAreJoined`, `TurnsAreAccounted`, `StopIsHeeded`, `RunReturns` |
| `agent` | 2 steps, timeout of 2 ticks, 3 requests, 13 phrases | `WritesAreConfirmed`, `DroppedIsNeverExecuted`, `EmergencyClears`, `PromptHasAction`, `AnswerIsTrue` |
| `rag_chain` | 1 question, 1 other request, 1 part | `CancelIsAimed`, `NeverBusy`, `ImplementsAnswerStream`, `ShutdownCompletes` |
| `answers` | backends: 2 requests, 5 questions, 2 parts | `OnlyAskedAreCancelled`, `EmergencyIsGuarded`, `NotRefused`, `ImplementsAnswerStream` |
| | loading: 4 texts, 2 edits, 2 loads, 2 builds | `LoadedBelongsTogether` |
| | search: 3 chunks, 3 scores each, 60 settings, one weight may be 0 | `BetterComesFirst` |
| | sentences: texts of 5 bytes out of 5, 2 delimiters | `CuttingDoesNotMatter` |
| `stranded`, `stale_audio` | 1 request of 1 sentence | violated, see section 5 |
| `session_cuts_speech`, `session_stale_cancel` | 3 turns | violated, see section 5 |
| `agent_interrupt` | 2 steps, timeout of 2 ticks, 4 requests of any class | violated, see section 5 |

`queue_and_devices` and `answers` are sums: the initial states pick one part
(`driver`, `part`), only that part moves, and the others keep their initial states.
The state spaces add up instead of multiplying, nothing is lost because the parts
share no state, and each part's fairness is vacuous while it is not picked. The type
invariants (`TypeOK`, `MicTypeOK`, ...) say what the variables are; those of six
modules are proved (section 4), and no run spends time on them.

Why the bounds are enough to be interesting. Three threads on a queue of two allow
two sleepers of one kind beside a third thread that clears, closes or competes,
with the queue neither full nor empty. Two requests are what an interrupt needs to
hit the wrong one, two calls of `stopPlayback()` what it needs to hit both; with
queues of one, every push blocks on a sentence or an end mark. Two sentences in
`assistant_live` give order a meaning. Three turns let a flag of the first affect
the second and its consequence the third; three recordings do the same for the
microphone, whose second chunk is the one that may time out. A buffer of one period
has a first transfer, an end and a drain. Bytes of one bit shorten the sensor's train
from 85 edges to 15 and keep its shape: offsets 0, 1 and 2 are tried, a frame one bit
late may pass the checksum, and a value may be out of range; the two frames are chosen
for exactly these; the array has room for more than the train, as in the driver. Three requests let an action be made, dropped, replaced and
confirmed; two steps let a read precede a write, and a confirmed write be the last
step allowed; two ticks distinguish fresh, ageing and expired; the phrases take every
way through the classifier and the rule planner. One question and one other request
meet in the model server in every order; one part is enough for a stream to be
empty, partial, complete or without its end. Two local requests let a late
cancellation of the first meet the second. Four texts, one of them reworded with the
same ids, one with other ids on as many rows and one with more rows, are what the
three comparisons of the loader tell apart; two edits allow a text to be taken back;
two builds let one die and leave half its work to the other. Three chunks with three
scores each give ties, misses and orders that the two retrievers disagree on. Five
bytes hold two delimiters of two bytes in any cut.
`MaxSentences`, `MaxInterrupts`, `MaxRequests`, `MaxRecordings`, `Periods`,
`MaxChunks`, `MaxParts`, `MaxEdits`, `MaxLoads`, `MaxBuilds` and `MaxText` bound only the models;
`NumRequests` is the number of calls of `processText()`. The theorems below do
without any of these bounds.

Deadlock is not checked: nobody has to start a session, ask again, or call `stop()`,
a session, an assistant or a server that has stopped stays so, and the sums contain
parts that end. That nothing is stuck where somebody waits is what the liveness
properties say.

### Fairness

Nobody has to call anything: `Start`, `ProcStart`, `StopPlayback`, `Stop`, `Run`,
`Ask`, `BInvoke`, `Record`, `Cancel`, `Call`, `Read`, `Submit`, `Signal` and `Query`
have no fairness, and no spurious wakeup, sound, edge or completed period has to
happen. A thread inside a call goes on (weak fairness per thread): the operating
system schedules it, and the calls that the models treat as one step return.
`synthesize()` and `play()` handle a bounded buffer; `recordUtterance()` ends after
`max_wait_seconds` of silence or at the longest utterance the detector lets
through; `query()` ends when the generation does or is cancelled. Where a call can
block on another modelled thread (a full queue, `wait`, `join`, `get`), the action
has the guard, and weak fairness promises nothing while the guard is false. Weak
fairness is enough: no guard that a thread waits for is withdrawn again for ever
by others, because a task has one producer and one consumer.

Three places differ. `DhtFairness` has strong fairness for taking the driver's
mutex, which other readers take and release again and again; the kernel's mutex is
given to waiters in turn. `Sound` and `Transfer`, the device's progress, are in no
fairness condition: `StopEndsRecording` and `StopEndsTransfer` hold for a device
that is silent for ever. `CancelEndsRecording` needs sound to come again and again,
which is the premise it states: a cancellation whose effect on the source `capture()`
has just reset is noticed at the next chunk. `rag_chain` is fair to the two threads
of the model server only; `ShutdownCompletes` needs no client.

## 4. What is proved

Every safety property that a passing run checks is also a theorem, and so is every
refinement. The theorems hold for every value of the constants that satisfies the
named assumption of the module (positive capacities and bounds, finitely many threads
on a queue, no id among the requests that stands for none; the stopper is not an
interrupter; the settings, minima and scores of a search are numbers). None of the
proofs uses fairness.

**BoundedBlockingQueue** (`BoundedBlockingQueueProofs`). `NoLostWakeup` is not
inductive: it compares the sleepers that should be awake with those who will wake
them, and a thread that falls asleep or a notification that finds nobody changes both
sides. `QInv` says it the other way round: once anybody sleeps in `pop()`, every
element in the queue is covered by a thread that is awake for it or has a
`notify_one()` to send, or a `close()` has its `notify_all()` to send; and likewise for
producers and free slots, with `clear()`. `Cover` counts these threads; the lemmas
`Keeps`, `Gains`, `Loses` and `Swaps` say how its cardinality changes when one thread
joins, leaves or changes places, and each action is one of them. `ImplementsAtomic`
maps every step to the call it completes or to a stutter.

**VoiceAssistant, its control** (`VoiceAssistantProofs`). `Shape == TypeOK /\ ControlOK`
is inductive (`ShapeNext`, one lemma per conjunct and a step per action).
`ControlOK` says what the threads rely on about each other's places: no worker
before `start()`, a worker exits only behind the closed queue it serves, a worker
holds a task exactly while it serves it, the queues close only on an assistant that
is stopped for good (by `stop()` or by a `start()` that failed: `ClosedForGood`), an
interrupt clears only after it has completed what it found. The type invariant needs it: that a sentence counter does
not run over depends on where `processText()` is. `WaitCovered` (the end mark of a
waiting request is in the pipeline in front of a running worker) follows from
`Shape` and itself: each queue operation moves the mark one stage on, `clear()`
removes it only from a request that is completed or robbed, and a worker that exits
leaves nothing behind that is not robbed. `OneStale` adds that a failed request that
has had its stale playback is not waiting for another one: the only place between
the check and `play()` holds one task.

**VoiceAssistant, its data** (`VoicePipelineProofs`). `LeftoversAreFailed`,
`SpokenInOrder` and `OkMeansAllSpoken` are about three moments of one flow, and only
their common strengthening `Flow` is inductive. The playback worker's task, the audio
queue, the speech worker's task and the sentence queue are one line in which every
task stands behind those made before it (`Ordered`): workers and interrupts move tasks
along it or take them out, `processText()` alone puts one at its end. On the line are
only sentences that were pushed (`Placed`), and of an older request only those of a
failed one (`Past`); a request that is complete and has not failed has left it by its
end mark (`Finished`), which is why a success finds nothing of itself in the pipeline.
Of a request that neither failed nor was robbed, every pushed sentence has been heard
or is still on the line (`NoneSkipped`); what is on it comes after what was heard
(`HeardOnce`). Together with the counter (`Counted`), an end mark that reaches the
player therefore means that everything was spoken.

**ContinuousVoiceSession** (`ContinuousVoiceSessionProofs`). The invariants are not
inductive alone: whether a future is there depends on the place of `run()`
(`Joined` says it for every place), the balance of turns, answers and interruptions
depends on what an answer that has returned will still be counted for
(`Accounted`), and that at most one question is asked late depends on which flags a
stop has already set (`Heeded`). Their conjunction with `TypeOK` is `IInv`.

**Microphone, AlsaDevice, Dht11** (`DeviceProofs`). That an interruption is no fault
needs the way of an error from the read to the result: only a stop or a cancellation
drops the device under a reader (`Dropped`), each sets the recorder's or the source's
flag before (`SourceFirst`, `CancelStays`), so a reader that goes on to recover from a
dropped device is one whose cancellation is still set, although the source's own
flag was reset, and the result is judged by that first (`Ended`). `Returned` carries
it to the caller. The player has no second flag: `AlsaInv` follows a dropped handle
through the transfer, the drain and the recovery, and can account for it only by the
flag or by a `play()` that took the flag down in the middle of a stop (`straddled`);
hence the exception in the property. For the sensor, `DhtInv` says that readers
measure one at a time (`Exclusive`), how the recorded edges, those sent and those
missed add up at every place (`Counted`), and that a measurement runs only when no
value is fresh (`Stale`). `DecodesWhatIsSent` is then arithmetic on edges: an offset of
the wrong parity reads levels that are upside down, so of the offsets that are tried
from the largest down the first in step is the right one, unless the line's release
was counted and the last edge was not.

**VehicleAgent, AgentTask** (`AgentProofs`). `WritesAreConfirmed` needs to know, at
every place before the execution, that the action looked up is older than the
request and has not aged since it arrived except in front of a check (`Fresh`); that
pending, taken, executed and dropped actions are never the same (`Unique`); that a
pending action at an emergency was seen by the router (`Seen`); and that a prompt
came with its action (`Announced`). `IInv` is their conjunction with `TypeOK` and
the bound on the steps. `Implements`: every step of the agent with its
planners and tools is a step of `VehicleAgent` (or a stutter), so the five theorems
above hold of it. `TellsTheTruth`: the last observation of the air conditioner is what
the device has (`Observant`), because every tool that changes the device leaves an
observation; and nothing is told while an action of another request may still run.

**RagChain** (`RagChainProofs`), **LocalAnswer** (`AnswerProofs`): cancellation. The
same argument twice, as the code has it twice: the active request is the one at work
and no other (`Scoped`, the scope guard), what a canceller has compared stays active
while it holds the mutex (`Held`), and so a flag or an abort that a run can still see
was raised for its request (`Raised`, `Aborted`, `Thrown`). `RaiseFlag` may come after
the run has ended, which is harmless only because the next run resets the flag and
cannot begin before the mutex is free. `NotRefused` and `NeverBusy` are `Scoped` read at
the entry. `GuardedEmergency` follows from the decision as a function.

**RagChain, LocalAnswer**: the stream. Both have a theorem `Implements`: their steps
are steps of `AnswerStream` or none. Inside one process it is enough that what was
heard is what was made (`Telling`). Over two hops the abstract step happens when the
model makes a part, and the truth must survive the way: `CInv` says of every event in
a socket, in the relay or in the client's hands that it carries a part that was made
for its own request, or the end of an answer that was made whole (`Mail`, with the set
`Sound(r)` of the events that are true of `r`). Truth is stable because generations
only grow and whole ones do not change (`Later`), and every step leaves a socket as
it is, appends a true event, or drops events at its ends (`Moves`), so that one lemma
serves all actions. Sequence numbers agree on both sides of the check
(`Numbered`), which makes a part that is accepted the next one.

**RetrieverRuntime** (`AnswerProofs`). `BelongsTogether` rests on versions that only
grow, whatever their texts: the builder writes the vectors of what it has read before
the metadata that names it, so vectors are never newer than the knowledge base nor
older than the metadata beside them (`Published`, `Building`), and each reading of the
loader is from a version between the one it read first and the present one
(`ReadSince`, `Matched`). A fingerprint that agrees with the documents leaves the
vectors a version between that of the metadata and that of the documents, two versions
with the same text: either one of these, or one between them, and then the text was
taken back, which is the exception `BroughtBack`. `Built` says that a retriever exists
before one refers to it.

**HybridSearch** (`AnswerProofs`). `BetterFirst` quantifies over lists of any length,
scores, weights and bounds. Positions are cardinalities of sets of chunks, so the
order of two chunks is a comparison of two finite sets and needs no induction over
lists: who is ahead has a smaller position (`Places`), a cut keeps with every chunk
those ahead of it (`Cut`), a smaller position contributes no less (`Shares`), and the
sum of two contributions keeps the order (`Gains`); the tie that remains is broken by
the chunk id, as in each list.

**StreamingSentenceBuffer** (`AnswerProofs`). `CutAnywhere` needs to know that cutting
the rest of a text is cutting the text. Two delimiters never overlap (`Overlap`),
because none is part of another or begins with what another ends with, which is the
assumption on them; therefore bytes that arrive later change no cut before
(`SameCuts`, `SamePieces`), no delimiter reaches over a cut, and the ends found in the
buffer are those of the text behind it (`Behind`). `SentenceInv` says that what has
left are the pieces of the text before the cut where the buffer begins. The first
boundary is the least of a set of numbers: that there is one is the library's theorem
that `<` is well founded, with a concrete set in it (`LeastNumber`).

Only model-checked: liveness (`CloseReleasesEveryone`, `ProcessTextReturns`,
`StopReturns`, `RunReturns`, `StopEndsRecording`, `CancelEndsRecording`,
`StopEndsTransfer`, `EveryReadReturns`, `ShutdownCompletes`), which is beyond the
prover. The type invariants of `VoiceAssistant`, `ContinuousVoiceSession`,
`VehicleAgent`, `Microphone`, `AlsaDevice` and `RetrieverRuntime` are theorems; of the
others, the inductive invariants contain what the proofs need. That of `Dht11` rests on
the sum in `Byte`, and what a sum over a set is cannot be proved here without
induction over data; `DecodesWhatIsSent` compares sums of equal bits instead.

## 5. What the models found

Each of these is a run whose property, taken from a comment or a document, the code
violates.

* `stranded`. `stopPlayback()` copies `active_state_`, and clears the queues later.
  If it found no request, or a finished one, and a new request passes its sentences
  and end mark in between, `clear()` takes the end mark away, nobody completes the
  request, and `processText()` never returns (`src/voice_assistant.cpp:549-581`
  against its comment at 572). Clearing under `active_state_mutex_`, or removing only
  tasks of the copied request, would prevent it.
* `stale_audio`. `play()` resets the flag that `stop()` has just set
  (`src/alsa_audio_player.cpp:142`), so a sentence that passed the check at
  `src/voice_assistant.cpp:448` plays to its end although the output was stopped
  "first" (576). `OneStale` proves that it is never more than one sentence.
* `session_cuts_speech`. The interruption makes the answer ready at once, and
  `run()` takes that for a natural end and cancels the recording of the user who is
  still speaking (`src/continuous_voice_session.cpp:226` against 174-178).
* `session_stale_cancel`. The same call, after the recording has ended, leaves a
  flag that fails the next turn's recording at its first look
  (`include/interruptible_audio_recorder.h:27-28`).
* `agent_interrupt`. A cancellation between the end of planning and the insertion
  of the pending action finds nothing to cancel (`src/agent/agent_executor.cpp:122`
  against `README.md:188`). It does not weaken the confirmation itself:
  `WritesAreConfirmed` holds with it.

Other observations, which contradict no document and therefore have no run. Where a
property holds only with an exception, the exception is one of these:

* A `stop()` of the player that straddles the reset in `play()` drops the handle under
  a playback that knows of no stop: it ends with a fault of the device
  (`StopIsNoFault`, `straddled`).
* Stopping one recorder makes the other's `capture()` end with success, and what the
  detector holds is flushed and returned as an utterance (`PartialOnlyAfterStop`).
* A cancellation between the moment a request is active and the start of the model
  (during retrieval, for instance) finds nothing running and is lost
  (`src/rkllm_backend.cpp:186`).
* `buildConfirmationPrompt()` throws on arguments of the wrong type after the action
  has become pending: the request fails, and the next "confirm" finds the action,
  whose tool then refuses the arguments (`src/agent/agent_executor.cpp:122-131`).
* `AgentIntentClassifier` tests `contains_condition` twice and a control never
  (`src/agent/agent_intent_classifier.cpp:61`): a question about a condition is a
  workflow, also when it only asks how.
* An emergency whose retrieval throws is answered by nothing, not even by the guarded
  text (`src/policy_routing_answer_backend.cpp:127`): `EmergencyIsGuarded` says "or
  not at all".
* The index builder signs the knowledge base as it is after encoding, and the loader
  reads it three times: an edit during the build, or during the load, goes unnoticed
  when the chunk ids stay (`LoadedBelongsTogether` names both).
* A mixed index may pass every check of `load()`, without any edit during the load or
  during the build that wrote the metadata. The index is built, the text is edited
  without a change in the number of rows, a second build replaces the vectors and dies
  before the metadata (`build_dense_index.py:413`), and the edit is taken back: the
  fingerprint, the ids and the size agree, and the vectors are those of the other text.
  `embeddings_sha256` is in the metadata (472) for this, and the loader does not check
  it. `LoadedBelongsTogether` excepts this case (`BroughtBack`) and shows that it is
  the only one; without the exception TLC finds the trace.
* A sensor frame read with the release of the line counted, by a reader that woke
  before the last edge of the data, is left to the checksum (`DecodedIsSent`).
* `validateConfig()` admits a weight of 0 for one of the two retrievers. If the other
  one finds nothing (the embedder fails on the query, say), every hit scores 0 and the
  list is ordered, and cut, by chunk id: the best chunk of the only retriever that
  answered may be lost (`BetterComesFirst` leaves scores of 0 out;
  `src/hybrid_retriever.cpp:120-135`).
* `bge_embedder.cpp:285` and `:293` append the CLS token where the SEP token belongs,
  and a truncated query has one token more than `max_length`. Tokens are not modelled.

## 6. What is not modelled, and the plan

Left out for good: parsing, printing, configuration and reports (no state beyond a
call); speech models, tokens, BM25 and floating-point scoring (their results are free
choices); file formats; the offline benchmark in `tools/`; the text demo of
`src/main.cpp` with its request/reply pair, which is single-threaded and which the
board's program does not link; the earlier voice pipeline in Python, whose C++
successor is modelled; memory safety and real time.

What remains, in the order of its worth:

1. An abstract specification of the assistant (accept, answer, interrupt, report),
   implemented by `VoiceAssistant` under a refinement mapping and used by
   `ContinuousVoiceSession` instead of its own reduction.
2. Proofs: type correctness of the modules whose invariants contain it only in part
   (`LlmServer`, `RagChain`, `LocalAnswer`, `AgentTask`); the abstract
   assistant's refinement, step by step; the step properties behind the liveness runs
   (what enables a waiting thread is never withdrawn), from the invariants above.
3. Two questions or two parts in `rag_chain`, which today's state space does not
   allow within minutes; a bound on the orders in which free clients hang up would.
4. The Python `barge_in_detector`, whose callback and queue mirror the C++ recorder.
